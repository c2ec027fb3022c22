------------------------------- MODULE Money --------------------------------
(***************************************************************************)
(* Amounts as the browser and the backend pass them around: an integer     *)
(* number of kobo on either side, and a decimal string between them.  A    *)
(* string is its digits as numbers: [major |-> 15, minor |-> <<5>>] is     *)
(* "15.5", and minor = <<>> is "15".                                       *)
(***************************************************************************)
EXTENDS Integers, Sequences

\* Number.prototype.toFixed(2) on kobo / 100, and toMajorUnitsString.
ToFixed2(kobo) == [major |-> kobo \div 100, minor |-> <<(kobo % 100) \div 10, kobo % 10>>]

\* Money.fromDecimalString: /^\d+(\.\d{1,2})?$/, the fraction padded to two.
WellFormed(decimal) == decimal.major >= 0 /\ Len(decimal.minor) <= 2

FromDecimalString(decimal) ==
  decimal.major * 100
    + (IF Len(decimal.minor) >= 1 THEN decimal.minor[1] * 10 ELSE 0)
    + (IF Len(decimal.minor) = 2 THEN decimal.minor[2] ELSE 0)
=============================================================================
