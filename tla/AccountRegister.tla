--------------------------- MODULE AccountRegister ---------------------------
(***************************************************************************)
(* What the Accounts module promises its callers: every operation takes    *)
(* effect atomically on the current account, under the current KYC tier.   *)
(* There are no requests, snapshots or versions here; the Accounts module  *)
(* is shown to implement this specification.                               *)
(***************************************************************************)
EXTENDS Integers

CONSTANTS Accounts, Amounts, Tiers, Capped, MaxBalance

VARIABLES opened, balance, status, tier

avars == <<opened, balance, status, tier>>

WithinCap(t, b) == t \in Capped => b <= MaxBalance[t]

Init ==
  /\ opened = {}
  /\ balance = [a \in Accounts |-> 0]
  /\ status = [a \in Accounts |-> "PENDING_VERIFICATION"]
  /\ tier = 1

Open(a) ==
  /\ a \notin opened
  /\ opened' = opened \cup {a}
  /\ UNCHANGED <<balance, status, tier>>

Credit(a, m) ==
  /\ a \in opened /\ status[a] = "ACTIVE"
  /\ WithinCap(tier, balance[a] + m)
  /\ balance' = [balance EXCEPT ![a] = @ + m]
  /\ UNCHANGED <<opened, status, tier>>

Debit(a, m) ==
  /\ a \in opened /\ status[a] = "ACTIVE"
  /\ balance[a] >= m
  /\ balance' = [balance EXCEPT ![a] = @ - m]
  /\ UNCHANGED <<opened, status, tier>>

SetStatus(a, s) ==
  /\ a \in opened
  /\ s = "CLOSED" => balance[a] = 0
  /\ status' = [status EXCEPT ![a] = s]
  /\ UNCHANGED <<opened, balance, tier>>

Upgrade(t) ==
  /\ t = tier + 1
  /\ tier' = t
  /\ UNCHANGED <<opened, balance, status>>

Next ==
  \/ \E a \in Accounts :
       \/ Open(a)
       \/ \E m \in Amounts : Credit(a, m) \/ Debit(a, m)
       \/ \E s \in {"ACTIVE", "FROZEN", "CLOSED"} : SetStatus(a, s)
  \/ \E t \in Tiers : Upgrade(t)

Spec == Init /\ [][Next]_avars
=============================================================================
