----------------------------- MODULE MCAccounts -----------------------------
(***************************************************************************)
(* Instance: a tier-1 cap of 3, a tier-2 cap of 4 and no tier-3 cap, so    *)
(* that amounts of 1 and 2 reach both caps and the boundary.  And a sample *)
(* of account numbers; AccountsProofs has them all.                        *)
(***************************************************************************)
EXTENDS Accounts, Nuban

MCCapped == {1, 2}
MCMaxBalance == [t \in 1..3 |-> CASE t = 1 -> 3 [] t = 2 -> 4 [] t = 3 -> 0]

ASSUME NubanSample == \A d \in [1..9 -> {4, 9}] : Checks(BuildWithChecksum(d))
=============================================================================
