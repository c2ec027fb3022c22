-------------------------- MODULE MCTransferLimits --------------------------
(***************************************************************************)
(* Instances of TransferLimits for TLC.                                    *)
(***************************************************************************)
EXTENDS TransferLimits, TLC

\* Twice "25000" is the daily limit of tier 1, and "25000" with "25000.1" is
\* above it; "5000000.01" is above every limit for one transfer; "1.000" has
\* one digit too many.
MCDecimals ==
  {[major |-> 25000, minor |-> <<>>], [major |-> 25000, minor |-> <<1>>],
   [major |-> 5000000, minor |-> <<0, 1>>], [major |-> 1, minor |-> <<0, 0, 0>>]}

RequestSymmetry == Permutations(Requests)
=============================================================================
