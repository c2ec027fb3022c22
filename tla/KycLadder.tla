------------------------------ MODULE KycLadder ------------------------------
(***************************************************************************)
(* What Compliance promises about one customer, seen from outside: each    *)
(* identity document is verified at most once and for good, and the tier   *)
(* climbs one rung at a time, the first rung with the BVN and the second   *)
(* with a NIN that follows the BVN.                                        *)
(***************************************************************************)
EXTENDS Integers

VARIABLES
  verified,  \* documents verified so far
  tier       \* KYC tier

vars == <<verified, tier>>

Documents == {"BVN", "NIN"}

Init == verified = {} /\ tier = 1

\* The NIN counts for the tier only when the BVN is there already.
Verify(d) ==
  /\ d \notin verified
  /\ verified' = verified \cup {d}
  /\ tier' = IF d = "BVN" \/ "BVN" \in verified THEN tier + 1 ELSE tier

Next == \E d \in Documents : Verify(d)

Spec == Init /\ [][Next]_vars
=============================================================================
