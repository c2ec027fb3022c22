------------------------------ MODULE Accounts ------------------------------
(***************************************************************************)
(* The Accounts module of one customer: command handlers as requests that  *)
(* load an account in one step and save it in a later one, the             *)
(* optimistic-concurrency repository between them, the KYC max-balance     *)
(* guard, and the event handler that activates pending accounts when       *)
(* Compliance announces a higher tier.  Everything a process holds in      *)
(* memory (requests, published events, the activation loop) is lost in a   *)
(* crash; the rows are not.                                                *)
(*                                                                         *)
(* WithinLimitBefore and ErrorEndsLoop are plausible mistakes in the code  *)
(* of the definition below them; no behaviour uses them.                   *)
(***************************************************************************)
EXTENDS AccountEntity, FiniteSets

CONSTANTS
  Accounts,     \* accounts the customer may open
  Requests,     \* concurrently served commands
  Amounts,      \* amounts a credit or debit may carry, minor units
  Capped,       \* KYC tiers whose limits name a maximum balance
  MaxBalance,   \* that maximum, by tier
  MaxVersion,   \* bound: no handler loads an account saved this often
  MaxCrashes    \* bound: process crashes

Tiers == 1..3

ASSUME AccountsAssumption == Accounts # {}
ASSUME AmountsAssumption == Amounts \subseteq Nat
ASSUME BoundsAssumption == MaxVersion \in Nat /\ MaxCrashes \in Nat
ASSUME LimitsAssumption == Capped \subseteq Tiers /\ MaxBalance \in [Tiers -> Nat]

\* kyc-tier-limits.policy.ts: a higher tier never has the lower cap.
ASSUME LimitsGrowWithTier ==
  \A t, u \in Tiers : t <= u /\ u \in Capped =>
    t \in Capped /\ MaxBalance[t] <= MaxBalance[u]

VARIABLES
  rows,      \* the accounts table (only rows of opened accounts are read)
  opened,    \* accounts that have a row
  req,       \* the requests being served
  tier,      \* the customer's KYC tier (Compliance)
  events,    \* KycTierUpgradedEvents published and not yet handled, by new tier
  todo,      \* accounts each activation loop has still to activate
  crashes,   \* crashes so far
  failed,    \* history: accounts whose activation met a database error
  net        \* history: sum of the credits minus the debits that succeeded

vars == <<rows, opened, req, tier, events, todo, crashes, failed, net>>

Kinds == {"credit", "debit", "freeze", "unfreeze", "close", "activate"}

Amount0 == Amounts \cup {0}

\* by: the tier of the activation loop the command runs for, 0 for HTTP.
Request == [pc: {"idle", "loaded", "checked"}, kind: Kinds, acct: Accounts,
            amount: Amount0, by: {0, 2, 3}, snap: AccountRow]

WithinLimitBefore(t, acct, m) == t \in Capped => MaxBalance[t] >= acct.balance
WithinLimit(t, acct, m) == t \in Capped => MaxBalance[t] >= acct.balance + m

TypeOK ==
  /\ rows \in [Accounts -> AccountRow]
  /\ opened \subseteq Accounts
  /\ req \in [Requests -> Request]
  /\ tier \in Tiers
  /\ events \subseteq {2, 3}
  /\ todo \in [{2, 3} -> SUBSET Accounts]
  /\ crashes \in Nat
  /\ failed \subseteq Accounts
  /\ net \in [Accounts -> Int]

NoRequest == [pc |-> "idle", kind |-> "freeze", acct |-> CHOOSE a \in Accounts : TRUE,
              amount |-> 0, by |-> 0, snap |-> Opened]

Idle(r) == req[r].pc = "idle"

Init ==
  /\ rows = [a \in Accounts |-> Opened]
  /\ opened = {}
  /\ req = [r \in Requests |-> NoRequest]
  /\ tier = 1
  /\ events = {}
  /\ todo = [n \in {2, 3} |-> {}]
  /\ crashes = 0
  /\ failed = {}
  /\ net = [a \in Accounts |-> 0]

-----------------------------------------------------------------------------
(***************************************************************************)
(* Requests.                                                               *)
(***************************************************************************)

\* OpenAccountHandler: a new row at version 0 has nothing to race against.
Open(a) ==
  /\ a \notin opened
  /\ opened' = opened \cup {a}
  /\ rows' = [rows EXCEPT ![a] = Opened]
  /\ UNCHANGED <<req, tier, events, todo, crashes, failed, net>>

\* Every other handler starts with findById (a missing row is a 404).
Load(r, kind, a, m, n) ==
  /\ Idle(r)
  /\ a \in opened
  /\ rows[a].version < MaxVersion
  /\ req' = [req EXCEPT ![r] = [pc |-> "loaded", kind |-> kind, acct |-> a,
                                amount |-> m, by |-> n, snap |-> rows[a]]]

Receive(r) ==
  /\ \E a \in Accounts :
       \/ \E k \in {"credit", "debit"}, m \in Amounts : Load(r, k, a, m, 0)
       \/ \E k \in {"freeze", "unfreeze", "close"} : Load(r, k, a, 0, 0)
  /\ UNCHANGED <<rows, opened, tier, events, todo, crashes, failed, net>>

Done(r) == req' = [req EXCEPT ![r] = NoRequest]

At(r, pc, kind) == req[r].pc = pc /\ req[r].kind = kind

\* save(acct): the row and the history change, or CONCURRENT_MODIFICATION.
Save(r, acct, delta) ==
  LET a == req[r].acct
      ok == MaySave(rows[a], acct)
  IN /\ rows' = IF ok THEN [rows EXCEPT ![a] = acct] ELSE rows
     /\ net' = IF ok THEN [net EXCEPT ![a] = @ + delta] ELSE net
     /\ Done(r)
     /\ UNCHANGED <<opened, tier, events, todo, crashes, failed>>

\* MaxBalanceGuardService reads the tier after the account was loaded.
CheckLimit(r) ==
  /\ At(r, "loaded", "credit")
  /\ WithinLimit(tier, req[r].snap, req[r].amount)
  /\ req' = [req EXCEPT ![r].pc = "checked"]
  /\ UNCHANGED <<rows, opened, tier, events, todo, crashes, failed, net>>

CreditAccount(r) ==
  /\ At(r, "checked", "credit")
  /\ Operable(req[r].snap)
  /\ Save(r, Credited(req[r].snap, req[r].amount), req[r].amount)

DebitAccount(r) ==
  /\ At(r, "loaded", "debit")
  /\ CanDebit(req[r].snap, req[r].amount)
  /\ Save(r, Debited(req[r].snap, req[r].amount), -req[r].amount)

FreezeAccount(r) ==
  /\ At(r, "loaded", "freeze")
  /\ Save(r, Frozen(req[r].snap), 0)

UnfreezeAccount(r) ==
  /\ At(r, "loaded", "unfreeze")
  /\ Save(r, Unfrozen(req[r].snap), 0)

CloseAccount(r) ==
  /\ At(r, "loaded", "close")
  /\ CanClose(req[r].snap)
  /\ Save(r, Closed(req[r].snap), 0)

ActivateAccount(r) ==
  /\ At(r, "loaded", "activate")
  /\ Save(r, Activated(req[r].snap), 0)

\* A domain exception before the save: nothing was written.
Reject(r) ==
  /\ \/ /\ At(r, "loaded", "credit")
        /\ ~WithinLimit(tier, req[r].snap, req[r].amount)
     \/ At(r, "checked", "credit") /\ ~Operable(req[r].snap)
     \/ At(r, "loaded", "debit") /\ ~CanDebit(req[r].snap, req[r].amount)
     \/ At(r, "loaded", "close") /\ ~CanClose(req[r].snap)
  /\ Done(r)
  /\ UNCHANGED <<rows, opened, tier, events, todo, crashes, failed, net>>

-----------------------------------------------------------------------------
(***************************************************************************)
(* KYC upgrades and the activation they trigger.                           *)
(***************************************************************************)

\* Compliance raises the tier by one and publishes KycTierUpgradedEvent.
Upgrade ==
  /\ tier < 3
  /\ tier' = tier + 1
  /\ events' = events \cup {tier'}
  /\ UNCHANGED <<rows, opened, req, todo, crashes, failed, net>>

Pending == {a \in opened : rows[a].status = "PENDING_VERIFICATION"}

\* KycTierUpgradedHandler lists the accounts pending at that moment ...
HandleUpgrade(n) ==
  /\ n \in events
  /\ events' = events \ {n}
  /\ todo' = [todo EXCEPT ![n] = Pending]
  /\ UNCHANGED <<rows, opened, req, tier, crashes, failed, net>>

\* ... and activates them one by one, each through its own command.
ActivateNext(n, r) ==
  /\ \A q \in Requests : req[q].by # n
  /\ \E a \in todo[n] :
       /\ Load(r, "activate", a, 0, n)
       /\ todo' = [todo EXCEPT ![n] = @ \ {a}]
  /\ UNCHANGED <<rows, opened, tier, events, crashes, failed, net>>

-----------------------------------------------------------------------------
(***************************************************************************)
(* Database errors and crashes.                                            *)
(***************************************************************************)

\* findAllByUserId throws: the event is spent and nobody is activated.
ListFails(n) ==
  /\ n \in events
  /\ events' = events \ {n}
  /\ failed' = failed \cup Pending
  /\ UNCHANGED <<rows, opened, req, tier, todo, crashes, net>>

ErrorEndsLoop(r) ==
  /\ ~Idle(r)
  /\ Done(r)
  /\ todo' = [n \in {2, 3} |-> IF req[r].by = n THEN {} ELSE todo[n]]
  /\ failed' = IF req[r].by = 0 THEN failed ELSE failed \cup {req[r].acct}
  /\ UNCHANGED <<rows, opened, tier, events, crashes, net>>

\* A query of a handler throws before its write.  The activation loop logs
\* the error and goes on to its next account.
QueryFails(r) ==
  /\ ~Idle(r)
  /\ Done(r)
  /\ failed' = IF req[r].by = 0 THEN failed ELSE failed \cup {req[r].acct}
  /\ UNCHANGED <<rows, opened, tier, events, todo, crashes, net>>

Crash ==
  /\ crashes < MaxCrashes
  /\ crashes' = crashes + 1
  /\ req' = [r \in Requests |-> NoRequest]
  /\ events' = {}
  /\ todo' = [n \in {2, 3} |-> {}]
  /\ UNCHANGED <<rows, opened, tier, failed, net>>

-----------------------------------------------------------------------------
Finish(r) ==
  \/ CheckLimit(r)
  \/ CreditAccount(r)
  \/ DebitAccount(r)
  \/ FreezeAccount(r)
  \/ UnfreezeAccount(r)
  \/ CloseAccount(r)
  \/ ActivateAccount(r)
  \/ Reject(r)

Next ==
  \/ \E a \in Accounts : Open(a)
  \/ \E r \in Requests : Receive(r) \/ Finish(r) \/ QueryFails(r)
  \/ Upgrade
  \/ \E n \in {2, 3} : HandleUpgrade(n) \/ ListFails(n)
  \/ \E n \in {2, 3}, r \in Requests : ActivateNext(n, r)
  \/ Crash

Spec == Init /\ [][Next]_vars

(***************************************************************************)
(* A started handler runs to its end and an event published in a process   *)
(* that stays up is handled: Node's event loop resumes every await.  No    *)
(* client, staff or Compliance action is fair.                             *)
(***************************************************************************)
Fairness ==
  /\ \A r \in Requests : WF_vars(Finish(r))
  /\ \A n \in {2, 3} : WF_vars(HandleUpgrade(n))
  /\ \A n \in {2, 3} : SF_vars(\E r \in Requests : ActivateNext(n, r))

FairSpec == Spec /\ Fairness

-----------------------------------------------------------------------------
(***************************************************************************)
(* Properties.                                                             *)
(***************************************************************************)

\* No successful credit or debit is ever overwritten: whatever the
\* interleaving of handlers between findById and save, the stored balance is
\* the sum of the operations that reported success (account.entity.ts:46-49).
NoLostUpdate == \A a \in Accounts : rows[a].balance = net[a]

\* Closing needs a zero balance, and a credit that loaded the account before
\* it was closed cannot land afterwards: a CLOSED account holds no money.
ClosedIsEmpty ==
  \A a \in Accounts : rows[a].status = "CLOSED" => rows[a].balance = 0

\* The max-balance guard works on a snapshot taken before two more awaits;
\* still no stored balance exceeds the cap of the customer's current tier.
BalanceWithinLimit ==
  \A a \in Accounts : tier \in Capped => rows[a].balance <= MaxBalance[tier]

\* Money moves only on an account that is ACTIVE before and after the write:
\* a debit loaded before a freeze neither moves money nor undoes the freeze.
OnlyActiveMoves ==
  [][\A a \in Accounts : rows'[a].balance # rows[a].balance =>
       rows[a].status = "ACTIVE" /\ rows'[a].status = "ACTIVE"]_vars

\* Every handler takes effect as if it ran atomically at its save.
Register == INSTANCE AccountRegister WITH
  balance <- [a \in Accounts |-> rows[a].balance],
  status  <- [a \in Accounts |-> rows[a].status]

ImplementsRegister == Register!Spec

\* kyc-tier-upgraded.handler.ts:48-51: "A single account failing to activate
\* must not block the others".  Every account that is pending when an upgrade
\* event is published leaves PENDING_VERIFICATION, even if its own activation
\* loses a version race, because only another status change can make it lose.
\* Only a crash, or a database error in its own activation or in the listing
\* of the accounts, stops that: nothing retries it.
PendingIsActivated ==
  \A a \in Accounts, n \in {2, 3} :
    n \in events /\ a \in Pending /\ a \notin failed /\ crashes = 0
      ~> a \notin Pending \/ a \in failed \/ crashes > 0
=============================================================================
