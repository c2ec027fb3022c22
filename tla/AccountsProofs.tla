--------------------------- MODULE AccountsProofs ---------------------------
(***************************************************************************)
(* Proofs about Accounts, for every set of accounts, requests and amounts, *)
(* every table of caps that grows with the tier, and all bounds.           *)
(*                                                                         *)
(* The safety properties are not inductive by themselves: they depend on   *)
(* what a request holds in memory between its load and its save.  Fresh    *)
(* says that such a snapshot is either outdated by version or exactly the  *)
(* stored row; the repository's version test then turns every successful   *)
(* save into an operation on the current row.                              *)
(*                                                                         *)
(* The last part is about Nuban's check digit.                             *)
(***************************************************************************)
EXTENDS Accounts, Nuban, TLAPS

Fresh ==
  \A r \in Requests : ~Idle(r) =>
    /\ req[r].acct \in opened
    /\ req[r].snap.version <= rows[req[r].acct].version
    /\ req[r].snap.version = rows[req[r].acct].version =>
         req[r].snap = rows[req[r].acct]

Checked ==
  \A r \in Requests : req[r].pc = "checked" =>
    WithinLimit(tier, req[r].snap, req[r].amount)

Carried ==
  \A r \in Requests : req[r].kind \in {"credit", "debit"} => req[r].amount \in Amounts

Unopened == \A a \in Accounts \ opened : rows[a] = Opened

IInv ==
  /\ TypeOK
  /\ Fresh
  /\ Checked
  /\ Carried
  /\ Unopened
  /\ NoLostUpdate
  /\ ClosedIsEmpty
  /\ BalanceWithinLimit

-----------------------------------------------------------------------------
\* The row an in-memory aggregate becomes is a row, one version later.
LEMMA WithStatusRow ==
  ASSUME NEW acct \in AccountRow, NEW s \in AccountStatus
  PROVE  /\ WithStatus(acct, s) \in AccountRow
         /\ WithStatus(acct, s).version = acct.version + 1
         /\ WithStatus(acct, s).balance = acct.balance
         /\ WithStatus(acct, s).status = s
BY DEF WithStatus, Touched, AccountRow

LEMMA CreditedRow ==
  ASSUME NEW acct \in AccountRow, NEW m \in Nat
  PROVE  /\ Credited(acct, m) \in AccountRow
         /\ Credited(acct, m).version = acct.version + 1
         /\ Credited(acct, m).balance = acct.balance + m
         /\ Credited(acct, m).status = acct.status
BY DEF Credited, Touched, AccountRow

LEMMA DebitedRow ==
  ASSUME NEW acct \in AccountRow, NEW m \in Nat, acct.balance >= m
  PROVE  /\ Debited(acct, m) \in AccountRow
         /\ Debited(acct, m).version = acct.version + 1
         /\ Debited(acct, m).balance = acct.balance - m
         /\ Debited(acct, m).status = acct.status
BY DEF Debited, Touched, AccountRow

LEMMA AmountNat == Amount0 \subseteq Nat
BY AmountsAssumption DEF Amount0

LEMMA NoRequestType ==
  NoRequest \in Request /\ NoRequest.pc = "idle" /\ NoRequest.kind = "freeze"
BY AccountsAssumption DEF NoRequest, Request, Kinds, Amount0, AccountRow,
   AccountStatus, Opened

LEMMA InitIInv == Init => IInv
<1> SUFFICES ASSUME Init PROVE IInv
  OBVIOUS
<1>1. Opened \in AccountRow /\ Opened.balance = 0 /\ Opened.status # "CLOSED"
  BY DEF Opened, AccountRow, AccountStatus
<1>2. TypeOK
  BY <1>1, NoRequestType DEF Init, TypeOK, Tiers
<1>3. Fresh /\ Checked /\ Carried
  BY NoRequestType DEF Init, Fresh, Checked, Carried, Idle
<1>4. Unopened /\ NoLostUpdate /\ ClosedIsEmpty
  BY <1>1 DEF Init, Unopened, NoLostUpdate, ClosedIsEmpty
<1>5. BalanceWithinLimit
  BY <1>1, LimitsAssumption DEF Init, BalanceWithinLimit, Tiers
<1> QED BY <1>2, <1>3, <1>4, <1>5 DEF IInv

-----------------------------------------------------------------------------
\* The heart of the argument: a save that the version test lets through was
\* computed from the row it replaces.
LEMMA SaveIsCurrent ==
  ASSUME IInv, NEW r \in Requests, ~Idle(r), NEW new \in AccountRow, NEW delta \in Int,
         new.version = req[r].snap.version + 1, Save(r, new, delta)
  PROVE  /\ req[r].acct \in Accounts /\ req[r].acct \in opened
         /\ req' = [req EXCEPT ![r] = NoRequest]
         /\ UNCHANGED <<opened, tier, events, todo, crashes, failed>>
         /\ \/ rows' = rows /\ net' = net
            \/ /\ req[r].snap = rows[req[r].acct]
               /\ rows' = [rows EXCEPT ![req[r].acct] = new]
               /\ net' = [net EXCEPT ![req[r].acct] = @ + delta]
<1> DEFINE a == req[r].acct
<1>1. req[r] \in Request /\ a \in Accounts /\ a \in opened
  BY DEF IInv, TypeOK, Fresh, Request
<1>2. rows[a] \in AccountRow /\ req[r].snap \in AccountRow
  BY <1>1 DEF IInv, TypeOK, Request
<1>3. MaySave(rows[a], new) => req[r].snap = rows[a]
  BY <1>1, <1>2 DEF MaySave, IInv, Fresh, AccountRow
<1> QED BY <1>1, <1>3 DEF Save, Done

LEMMA SavePreserves ==
  ASSUME IInv, NEW r \in Requests, ~Idle(r), NEW new \in AccountRow, NEW delta \in Int,
         new.version = req[r].snap.version + 1,
         new.balance = req[r].snap.balance + delta,
         new.status = "CLOSED" => new.balance = 0,
         req[r].snap.balance <= MaxBalance[tier] \/ tier \notin Capped
           => (tier \in Capped => new.balance <= MaxBalance[tier]),
         Save(r, new, delta)
  PROVE  IInv'
<1> DEFINE a == req[r].acct
<1>1. /\ a \in Accounts /\ a \in opened
      /\ req' = [req EXCEPT ![r] = NoRequest]
      /\ UNCHANGED <<opened, tier, events, todo, crashes, failed>>
  BY SaveIsCurrent
<1>0. CASE rows' = rows /\ net' = net
  <2>1. TypeOK'
    BY <1>0, <1>1, NoRequestType DEF IInv, TypeOK
  <2>2. Fresh' /\ Checked' /\ Carried'
    BY <1>0, <1>1, NoRequestType DEF IInv, TypeOK, Fresh, Checked, Carried, Idle
  <2>3. (Unopened /\ NoLostUpdate /\ ClosedIsEmpty /\ BalanceWithinLimit)'
    BY <1>0, <1>1 DEF IInv, Unopened, NoLostUpdate, ClosedIsEmpty, BalanceWithinLimit
  <2> QED BY <2>1, <2>2, <2>3 DEF IInv
<1>2. CASE /\ req[r].snap = rows[a]
           /\ rows' = [rows EXCEPT ![a] = new]
           /\ net' = [net EXCEPT ![a] = @ + delta]
  <2>0. rows[a] \in AccountRow /\ new.version = rows[a].version + 1
        /\ new.balance = rows[a].balance + delta
    BY <1>1, <1>2 DEF IInv, TypeOK
  <2>1. TypeOK'
    BY <1>2, <1>1, NoRequestType DEF IInv, TypeOK
  <2>2. Fresh'
    <3> SUFFICES ASSUME NEW q \in Requests, ~Idle(q)'
                 PROVE /\ req'[q].acct \in opened'
                       /\ req'[q].snap.version <= rows'[req'[q].acct].version
                       /\ req'[q].snap.version = rows'[req'[q].acct].version =>
                            req'[q].snap = rows'[req'[q].acct]
      BY DEF Fresh
    <3>1. q # r /\ req'[q] = req[q] /\ ~Idle(q)
      BY <1>1, NoRequestType DEF Idle, IInv, TypeOK
    <3>2. req[q] \in Request
      BY DEF IInv, TypeOK
    <3>3. CASE req[q].acct = a
      BY <1>1, <1>2, <2>0, <3>1, <3>2, <3>3
         DEF IInv, TypeOK, Fresh, Request, AccountRow
    <3>4. CASE req[q].acct # a
      BY <1>1, <1>2, <3>1, <3>2, <3>4 DEF IInv, TypeOK, Fresh, Request
    <3> QED BY <3>3, <3>4
  <2>3. Checked' /\ Carried'
    BY <1>1, NoRequestType DEF IInv, TypeOK, Checked, Carried
  <2>4. Unopened' /\ NoLostUpdate' /\ ClosedIsEmpty'
    BY <1>1, <1>2, <2>0 DEF IInv, TypeOK, Unopened, NoLostUpdate, ClosedIsEmpty
  <2>5. BalanceWithinLimit'
    BY <1>1, <1>2 DEF IInv, TypeOK, BalanceWithinLimit
  <2> QED BY <2>1, <2>2, <2>3, <2>4, <2>5 DEF IInv
<1> QED BY <1>0, <1>2, SaveIsCurrent

-----------------------------------------------------------------------------
\* One step per command that reaches its save.
LEMMA CommandsPreserve ==
  ASSUME IInv, NEW r \in Requests,
         \/ CreditAccount(r) \/ DebitAccount(r) \/ FreezeAccount(r)
         \/ UnfreezeAccount(r) \/ CloseAccount(r) \/ ActivateAccount(r)
  PROVE  IInv'
<1> DEFINE snap == req[r].snap
<1>0. req[r] \in Request
  BY DEF IInv, TypeOK
<1>1. snap \in AccountRow /\ req[r].amount \in Nat
  BY <1>0, AmountNat DEF Request
<1>2. "ACTIVE" \in AccountStatus /\ "FROZEN" \in AccountStatus /\ "CLOSED" \in AccountStatus
  BY DEF AccountStatus
<1>3. tier \in Capped => MaxBalance[tier] \in Nat
  BY LimitsAssumption
<1>4. CASE CreditAccount(r)
  <2>1. ~Idle(r) /\ Operable(snap) /\ req[r].pc = "checked"
        /\ Save(r, Credited(snap, req[r].amount), req[r].amount)
    BY <1>4 DEF CreditAccount, At, Idle
  <2>2. WithinLimit(tier, snap, req[r].amount)
    BY <2>1 DEF IInv, Checked
  <2>3. tier \in Capped => snap.balance + req[r].amount <= MaxBalance[tier]
    BY <1>1, <1>3, <2>2 DEF WithinLimit, AccountRow
  <2>4. snap.status # "CLOSED"
    BY <2>1 DEF Operable
  <2> QED BY <1>1, <2>1, <2>3, <2>4, CreditedRow, SavePreserves
<1>5. CASE DebitAccount(r)
  <2>1. ~Idle(r) /\ Operable(snap) /\ snap.balance >= req[r].amount
        /\ Save(r, Debited(snap, req[r].amount), -req[r].amount)
    BY <1>5 DEF DebitAccount, At, Idle, CanDebit
  <2>2. snap.balance - req[r].amount = snap.balance + -req[r].amount
        /\ -req[r].amount \in Int
    BY <1>1 DEF AccountRow
  <2>3. tier \in Capped /\ snap.balance <= MaxBalance[tier] =>
          snap.balance - req[r].amount <= MaxBalance[tier]
    BY <1>1, <1>3 DEF AccountRow
  <2>4. snap.status # "CLOSED"
    BY <2>1 DEF Operable
  <2> QED BY <1>1, <2>1, <2>2, <2>3, <2>4, DebitedRow, SavePreserves
<1>6. ASSUME NEW s \in AccountStatus, ~Idle(r), s = "CLOSED" => snap.balance = 0,
             Save(r, WithStatus(snap, s), 0)
      PROVE  IInv'
  <2>1. snap.balance = snap.balance + 0
    BY <1>1 DEF AccountRow
  <2> QED BY <1>1, <1>6, <2>1, WithStatusRow, SavePreserves
<1>7. CASE FreezeAccount(r)
  BY <1>2, <1>6, <1>7 DEF FreezeAccount, At, Idle, Frozen
<1>8. CASE UnfreezeAccount(r)
  BY <1>2, <1>6, <1>8 DEF UnfreezeAccount, At, Idle, Unfrozen
<1>9. CASE CloseAccount(r)
  BY <1>2, <1>6, <1>9 DEF CloseAccount, At, Idle, Closed, CanClose
<1>10. CASE ActivateAccount(r)
  BY <1>2, <1>6, <1>10 DEF ActivateAccount, At, Idle, Activated
<1> QED BY <1>4, <1>5, <1>7, <1>8, <1>9, <1>10

\* Loading takes a snapshot of the stored row, so it is fresh.
LEMMA LoadPreserves ==
  ASSUME IInv, NEW r \in Requests, NEW k \in Kinds, NEW a \in Accounts,
         NEW m \in Amount0, NEW n \in {0, 2, 3}, Load(r, k, a, m, n),
         k \in {"credit", "debit"} => m \in Amounts,
         UNCHANGED <<rows, opened, tier, events, crashes, failed, net>>,
         todo' \in [{2, 3} -> SUBSET Accounts]
  PROVE  IInv'
<1> DEFINE new == [pc |-> "loaded", kind |-> k, acct |-> a, amount |-> m, by |-> n,
                   snap |-> rows[a]]
<1>1. req' = [req EXCEPT ![r] = new] /\ a \in opened
  BY DEF Load
<1>2. rows[a] \in AccountRow /\ new \in Request
  BY DEF IInv, TypeOK, Request
<1>3. TypeOK'
  BY <1>1, <1>2 DEF IInv, TypeOK
<1>4. Fresh'
  <2> SUFFICES ASSUME NEW q \in Requests, ~Idle(q)'
               PROVE /\ req'[q].acct \in opened
                     /\ req'[q].snap.version <= rows[req'[q].acct].version
                     /\ req'[q].snap.version = rows[req'[q].acct].version =>
                          req'[q].snap = rows[req'[q].acct]
    BY DEF Fresh
  <2>1. CASE q = r
    BY <1>1, <1>2, <2>1 DEF IInv, TypeOK, AccountRow
  <2>2. CASE q # r
    BY <1>1, <2>2 DEF IInv, TypeOK, Fresh, Idle
  <2> QED BY <2>1, <2>2
<1>5. Checked' /\ Carried'
  BY <1>1 DEF IInv, TypeOK, Checked, Carried
<1>6. (Unopened /\ NoLostUpdate /\ ClosedIsEmpty /\ BalanceWithinLimit)'
  BY DEF IInv, Unopened, NoLostUpdate, ClosedIsEmpty, BalanceWithinLimit
<1> QED BY <1>3, <1>4, <1>5, <1>6 DEF IInv

\* A step that changes no row and leaves each request as it was, finished or
\* past its limit check keeps the invariant.
LEMMA QuietPreserves ==
  ASSUME IInv, UNCHANGED <<rows, opened, tier, net>>,
         events' \subseteq {2, 3}, todo' \in [{2, 3} -> SUBSET Accounts], crashes' \in Nat,
         failed' \subseteq Accounts,
         req' \in [Requests -> Request],
         \A q \in Requests :
           \/ req'[q] = req[q]
           \/ req'[q] = NoRequest
           \/ /\ ~Idle(q) /\ WithinLimit(tier, req[q].snap, req[q].amount)
              /\ req'[q] = [req[q] EXCEPT !.pc = "checked"]
  PROVE  IInv'
<1>1. TypeOK'
  BY DEF IInv, TypeOK
<1>2. ASSUME NEW q \in Requests, req'[q].pc # "idle"
      PROVE  /\ ~Idle(q) /\ req'[q].acct = req[q].acct
             /\ req'[q].snap = req[q].snap /\ req'[q].amount = req[q].amount
             /\ req'[q].pc = "checked" => WithinLimit(tier, req[q].snap, req[q].amount)
  <2>1. req[q] \in Request
    BY DEF IInv, TypeOK
  <2> QED BY <1>2, <2>1, NoRequestType DEF IInv, Checked, Idle, Request
<1>3. Fresh'
  BY <1>2 DEF IInv, Fresh, Idle
<1>4. Checked'
  BY <1>2 DEF Checked, WithinLimit
<1>6. Carried'
  <2> SUFFICES ASSUME NEW q \in Requests, req'[q].kind \in {"credit", "debit"}
               PROVE  req'[q].amount \in Amounts
    BY DEF Carried
  <2>1. req[q] \in Request
    BY DEF IInv, TypeOK
  <2> QED BY <2>1, NoRequestType DEF IInv, Carried, Request
<1>5. (Unopened /\ NoLostUpdate /\ ClosedIsEmpty /\ BalanceWithinLimit)'
  BY DEF IInv, Unopened, NoLostUpdate, ClosedIsEmpty, BalanceWithinLimit
<1> QED BY <1>1, <1>3, <1>4, <1>5, <1>6 DEF IInv

\* A higher tier only relaxes the caps.
LEMMA UpgradePreserves ==
  ASSUME IInv, Upgrade
  PROVE  IInv'
<1>1. tier \in Tiers /\ tier' \in Tiers /\ tier <= tier'
      /\ UNCHANGED <<rows, opened, req, todo, crashes, failed, net>>
  BY DEF Upgrade, IInv, TypeOK, Tiers
<1>2. events' \subseteq {2, 3}
  BY DEF Upgrade, IInv, TypeOK, Tiers
<1>3. TypeOK'
  BY <1>1, <1>2 DEF IInv, TypeOK
<1>4. tier' \in Capped => /\ tier \in Capped
                          /\ MaxBalance[tier] \in Nat /\ MaxBalance[tier'] \in Nat
                          /\ MaxBalance[tier] <= MaxBalance[tier']
  BY <1>1, LimitsAssumption, LimitsGrowWithTier
<1>5. Checked'
  <2> SUFFICES ASSUME NEW q \in Requests, req[q].pc = "checked", tier' \in Capped
               PROVE  MaxBalance[tier'] >= req[q].snap.balance + req[q].amount
    BY <1>1 DEF Checked, WithinLimit
  <2>1. req[q] \in Request
    BY DEF IInv, TypeOK
  <2>2. req[q].snap.balance \in Nat /\ req[q].amount \in Nat
    BY <2>1, AmountNat DEF Request, AccountRow
  <2>3. MaxBalance[tier] >= req[q].snap.balance + req[q].amount
    BY <1>4 DEF IInv, Checked, WithinLimit
  <2> QED BY <1>4, <2>2, <2>3
<1>6. BalanceWithinLimit'
  <2> SUFFICES ASSUME NEW a \in Accounts, tier' \in Capped
               PROVE  rows[a].balance <= MaxBalance[tier']
    BY <1>1 DEF BalanceWithinLimit
  <2>1. rows[a].balance \in Nat
    BY DEF IInv, TypeOK, AccountRow
  <2> QED BY <1>4, <2>1 DEF IInv, BalanceWithinLimit
<1>7. Fresh' /\ (Carried /\ Unopened /\ NoLostUpdate /\ ClosedIsEmpty)'
  BY <1>1 DEF IInv, Fresh, Idle, Carried, Unopened, NoLostUpdate, ClosedIsEmpty
<1> QED BY <1>3, <1>5, <1>6, <1>7 DEF IInv

\* Opening writes the row that an account without a row is given in the model.
LEMMA OpenPreserves ==
  ASSUME IInv, NEW a \in Accounts, Open(a)
  PROVE  IInv'
<1>1. rows[a] = Opened /\ rows' = rows
  BY DEF IInv, TypeOK, Unopened, Open
<1>2. TypeOK'
  BY <1>1 DEF IInv, TypeOK, Open
<1>3. Fresh' /\ Checked' /\ Carried'
  BY <1>1 DEF IInv, Fresh, Checked, Carried, Idle, Open
<1>4. (Unopened /\ NoLostUpdate /\ ClosedIsEmpty /\ BalanceWithinLimit)'
  BY <1>1 DEF IInv, Unopened, NoLostUpdate, ClosedIsEmpty, BalanceWithinLimit, Open
<1> QED BY <1>2, <1>3, <1>4 DEF IInv

LEMMA NextPreserves == IInv /\ [Next]_vars => IInv'
<1> SUFFICES ASSUME IInv, [Next]_vars PROVE IInv'
  OBVIOUS
<1>0. /\ req \in [Requests -> Request] /\ crashes \in Nat /\ events \subseteq {2, 3}
      /\ failed \subseteq Accounts /\ todo \in [{2, 3} -> SUBSET Accounts] /\ opened \subseteq Accounts
  BY DEF IInv, TypeOK
<1>1. ASSUME NEW a \in Accounts, Open(a) PROVE IInv'
  BY <1>1, OpenPreserves
<1>2. ASSUME NEW r \in Requests, Receive(r) PROVE IInv'
  <2>1. PICK a \in Accounts, k \in Kinds, m \in Amount0 :
          Load(r, k, a, m, 0) /\ (k \in {"credit", "debit"} => m \in Amounts)
    BY <1>2 DEF Receive, Kinds, Amount0
  <2>2. UNCHANGED <<rows, opened, tier, events, todo, crashes, failed, net>>
    BY <1>2 DEF Receive
  <2> QED BY <1>0, <2>1, <2>2, LoadPreserves
<1>3. ASSUME NEW r \in Requests, CheckLimit(r) PROVE IInv'
  <2>1. [req[r] EXCEPT !.pc = "checked"] \in Request
    BY <1>0 DEF Request
  <2>2. /\ req' \in [Requests -> Request]
        /\ \A q \in Requests : q # r => req'[q] = req[q]
        /\ req'[r] = [req[r] EXCEPT !.pc = "checked"]
    BY <1>0, <1>3, <2>1 DEF CheckLimit
  <2>3. ~Idle(r) /\ WithinLimit(tier, req[r].snap, req[r].amount)
        /\ UNCHANGED <<rows, opened, tier, events, todo, crashes, failed, net>>
    BY <1>3 DEF CheckLimit, At, Idle
  <2> QED BY <1>0, <2>2, <2>3, QuietPreserves
<1>4. ASSUME NEW r \in Requests, Reject(r) PROVE IInv'
  <2>1. /\ req' \in [Requests -> Request]
        /\ \A q \in Requests : req'[q] = req[q] \/ req'[q] = NoRequest
    BY <1>0, <1>4, NoRequestType DEF Reject, Done
  <2>2. UNCHANGED <<rows, opened, tier, events, todo, crashes, failed, net>>
    BY <1>4 DEF Reject
  <2> QED BY <1>0, <2>1, <2>2, QuietPreserves
<1>5. ASSUME NEW r \in Requests,
             \/ CreditAccount(r) \/ DebitAccount(r) \/ FreezeAccount(r)
             \/ UnfreezeAccount(r) \/ CloseAccount(r) \/ ActivateAccount(r)
      PROVE IInv'
  BY <1>5, CommandsPreserve
<1>6. CASE Upgrade
  BY <1>6, UpgradePreserves
<1>7. ASSUME NEW n \in {2, 3}, HandleUpgrade(n) PROVE IInv'
  <2>1. /\ events' \subseteq {2, 3} /\ todo' \in [{2, 3} -> SUBSET Accounts]
        /\ UNCHANGED <<rows, opened, req, tier, crashes, failed, net>>
    BY <1>0, <1>7 DEF HandleUpgrade, Pending
  <2> QED BY <1>0, <2>1, QuietPreserves
<1>8. ASSUME NEW n \in {2, 3}, NEW r \in Requests, ActivateNext(n, r) PROVE IInv'
  <2>1. PICK a \in todo[n] : /\ Load(r, "activate", a, 0, n)
                             /\ todo' = [todo EXCEPT ![n] = @ \ {a}]
    BY <1>8 DEF ActivateNext
  <2>2. a \in Accounts /\ todo' \in [{2, 3} -> SUBSET Accounts]
    BY <1>0, <2>1
  <2>3. UNCHANGED <<rows, opened, tier, events, crashes, failed, net>>
    BY <1>8 DEF ActivateNext
  <2>4. "activate" \in Kinds /\ 0 \in Amount0 /\ n \in {0, 2, 3}
    BY DEF Kinds, Amount0
  <2> QED BY <2>1, <2>2, <2>3, <2>4, LoadPreserves
<1>9. CASE Crash
  <2>1. /\ req' \in [Requests -> Request]
        /\ \A q \in Requests : req'[q] = NoRequest
        /\ events' \subseteq {2, 3} /\ todo' \in [{2, 3} -> SUBSET Accounts] /\ crashes' \in Nat
        /\ UNCHANGED <<rows, opened, tier, failed, net>>
    BY <1>0, <1>9, NoRequestType DEF Crash
  <2> QED BY <1>0, <2>1, QuietPreserves
<1>11. ASSUME NEW n \in {2, 3}, ListFails(n) PROVE IInv'
  <2>1. /\ events' \subseteq {2, 3} /\ failed' \subseteq Accounts
        /\ UNCHANGED <<rows, opened, req, tier, todo, crashes, net>>
    BY <1>0, <1>11 DEF ListFails, Pending
  <2> QED BY <1>0, <2>1, QuietPreserves
<1>12. ASSUME NEW r \in Requests, QueryFails(r) PROVE IInv'
  <2>1. /\ req' \in [Requests -> Request]
        /\ \A q \in Requests : req'[q] = req[q] \/ req'[q] = NoRequest
    BY <1>0, <1>12, NoRequestType DEF QueryFails, Done
  <2>2. req[r].acct \in Accounts
    BY <1>0 DEF Request
  <2>3. failed' \subseteq Accounts /\ UNCHANGED <<rows, opened, tier, events, todo, crashes, net>>
    BY <1>0, <1>12, <2>2 DEF QueryFails
  <2> QED BY <1>0, <2>1, <2>3, QuietPreserves
<1>10. CASE UNCHANGED vars
  BY <1>0, <1>10, QuietPreserves DEF vars
<1> QED BY <1>1, <1>2, <1>3, <1>4, <1>5, <1>6, <1>7, <1>8, <1>9, <1>10, <1>11, <1>12
   DEF Next, Finish

-----------------------------------------------------------------------------
\* Loads, checks and saves of any requests keep what each of them knows of
\* the row it loaded (prisma-account.repository.ts, save with its version).
THEOREM Inductive == Spec => []IInv
BY InitIInv, NextPreserves, PTL DEF Spec

\* Every reachable state is well typed; in particular no balance is negative.
THEOREM TypeCorrect == Spec => []TypeOK
BY Inductive, PTL DEF IInv

\* No successful credit or debit is lost, for any number of concurrent handlers.
THEOREM BalanceIsExact == Spec => []NoLostUpdate
BY Inductive, PTL DEF IInv

\* A closed account holds no money.
THEOREM ClosedAccountsEmpty == Spec => []ClosedIsEmpty
BY Inductive, PTL DEF IInv

\* The max-balance cap of the current tier holds in every reachable state.
THEOREM CapHolds == Spec => []BalanceWithinLimit
BY Inductive, PTL DEF IInv

-----------------------------------------------------------------------------
(***************************************************************************)
(* Implementation of the atomic register.                                  *)
(***************************************************************************)

\* A command that reaches its save either changes nothing visible or performs
\* one atomic operation on the current account.
LEMMA CommandsImplement ==
  ASSUME IInv, NEW r \in Requests,
         \/ CreditAccount(r) \/ DebitAccount(r) \/ FreezeAccount(r)
         \/ UnfreezeAccount(r) \/ CloseAccount(r) \/ ActivateAccount(r)
  PROVE  /\ UNCHANGED <<opened, tier>>
         /\ \/ rows' = rows
            \/ \E a \in opened, m \in Amount0 :
                 /\ rows[a].status = "ACTIVE"
                 /\ WithinLimit(tier, rows[a], m)
                 /\ rows' = [rows EXCEPT ![a] = Credited(rows[a], m)]
                 /\ req[r].amount = m /\ req[r].kind = "credit"
            \/ \E a \in opened, m \in Amount0 :
                 /\ CanDebit(rows[a], m)
                 /\ rows' = [rows EXCEPT ![a] = Debited(rows[a], m)]
                 /\ req[r].amount = m /\ req[r].kind = "debit"
            \/ \E a \in opened, s \in {"ACTIVE", "FROZEN", "CLOSED"} :
                 /\ s = "CLOSED" => rows[a].balance = 0
                 /\ rows' = [rows EXCEPT ![a] = WithStatus(rows[a], s)]
<1> DEFINE snap == req[r].snap
           a == req[r].acct
<1>0. req[r] \in Request
  BY DEF IInv, TypeOK
<1>1. snap \in AccountRow /\ req[r].amount \in Amount0 /\ req[r].amount \in Nat
  BY <1>0, AmountNat DEF Request
<1>4. CASE CreditAccount(r)
  <2>1. ~Idle(r) /\ Operable(snap) /\ req[r].pc = "checked" /\ req[r].kind = "credit"
        /\ Save(r, Credited(snap, req[r].amount), req[r].amount)
    BY <1>4 DEF CreditAccount, At, Idle
  <2>2. WithinLimit(tier, snap, req[r].amount)
    BY <2>1 DEF IInv, Checked
  <2>3. /\ a \in opened /\ UNCHANGED <<opened, tier>>
        /\ \/ rows' = rows
           \/ snap = rows[a] /\ rows' = [rows EXCEPT ![a] = Credited(snap, req[r].amount)]
    BY <1>1, <2>1, CreditedRow, SaveIsCurrent
  <2> QED BY <1>1, <2>1, <2>2, <2>3 DEF Operable
<1>5. CASE DebitAccount(r)
  <2>1. ~Idle(r) /\ CanDebit(snap, req[r].amount) /\ req[r].kind = "debit"
        /\ Save(r, Debited(snap, req[r].amount), -req[r].amount)
    BY <1>5 DEF DebitAccount, At, Idle
  <2>2. -req[r].amount \in Int /\ snap.balance >= req[r].amount
    BY <1>1, <2>1 DEF CanDebit
  <2>3. /\ a \in opened /\ UNCHANGED <<opened, tier>>
        /\ \/ rows' = rows
           \/ snap = rows[a] /\ rows' = [rows EXCEPT ![a] = Debited(snap, req[r].amount)]
    BY <1>1, <2>1, <2>2, DebitedRow, SaveIsCurrent
  <2> QED BY <1>1, <2>1, <2>3
<1>6. ASSUME NEW s \in {"ACTIVE", "FROZEN", "CLOSED"}, ~Idle(r),
             s = "CLOSED" => snap.balance = 0, Save(r, WithStatus(snap, s), 0)
      PROVE  /\ UNCHANGED <<opened, tier>>
             /\ \/ rows' = rows
                \/ /\ a \in opened
                   /\ s = "CLOSED" => rows[a].balance = 0
                   /\ rows' = [rows EXCEPT ![a] = WithStatus(rows[a], s)]
  <2>1. s \in AccountStatus
    BY DEF AccountStatus
  <2>2. /\ a \in opened /\ UNCHANGED <<opened, tier>>
        /\ \/ rows' = rows
           \/ snap = rows[a] /\ rows' = [rows EXCEPT ![a] = WithStatus(snap, s)]
    BY <1>1, <1>6, <2>1, WithStatusRow, SaveIsCurrent
  <2> QED BY <1>6, <2>2
<1>7. CASE FreezeAccount(r)
  BY <1>6, <1>7 DEF FreezeAccount, At, Idle, Frozen
<1>8. CASE UnfreezeAccount(r)
  BY <1>6, <1>8 DEF UnfreezeAccount, At, Idle, Unfrozen
<1>9. CASE CloseAccount(r)
  BY <1>6, <1>9 DEF CloseAccount, At, Idle, Closed, CanClose
<1>10. CASE ActivateAccount(r)
  BY <1>6, <1>10 DEF ActivateAccount, At, Idle, Activated
<1> QED BY <1>4, <1>5, <1>7, <1>8, <1>9, <1>10

\* Every other step writes no row, except that Open writes the initial one.
LEMMA OthersWriteNothing ==
  ASSUME IInv, [Next]_vars
  PROVE  \/ /\ rows' = rows
            /\ \/ UNCHANGED <<opened, tier>>
               \/ \E a \in Accounts \ opened :
                     opened' = opened \cup {a} /\ tier' = tier
               \/ opened' = opened /\ tier' = tier + 1 /\ tier' \in Tiers
         \/ \E r \in Requests :
              \/ CreditAccount(r) \/ DebitAccount(r) \/ FreezeAccount(r)
              \/ UnfreezeAccount(r) \/ CloseAccount(r) \/ ActivateAccount(r)
<1>1. ASSUME NEW a \in Accounts, Open(a)
      PROVE  rows' = rows /\ a \in Accounts \ opened
             /\ opened' = opened \cup {a} /\ tier' = tier
  BY <1>1 DEF IInv, TypeOK, Unopened, Open
<1>2. CASE Upgrade
  BY <1>2 DEF Upgrade, IInv, TypeOK, Tiers
<1>3. ASSUME NEW r \in Requests, Receive(r) \/ CheckLimit(r) \/ Reject(r) \/ QueryFails(r)
      PROVE  UNCHANGED <<rows, opened, tier>>
  BY <1>3 DEF Receive, CheckLimit, Reject, QueryFails
<1>4. ASSUME NEW n \in {2, 3},
             HandleUpgrade(n) \/ ListFails(n) \/ (\E r \in Requests : ActivateNext(n, r))
      PROVE  UNCHANGED <<rows, opened, tier>>
  BY <1>4 DEF HandleUpgrade, ListFails, ActivateNext
<1>5. CASE Crash
  BY <1>5 DEF Crash
<1>6. CASE UNCHANGED vars
  BY <1>6 DEF vars
<1> QED BY <1>1, <1>2, <1>3, <1>4, <1>5, <1>6 DEF Next, Finish

\* Money moves only on an account that is ACTIVE before and after the write.
THEOREM OnlyActiveAccountsMove == Spec => OnlyActiveMoves
<1>1. IInv /\ [Next]_vars =>
        [\A a \in Accounts : rows'[a].balance # rows[a].balance =>
           rows[a].status = "ACTIVE" /\ rows'[a].status = "ACTIVE"]_vars
  <2> SUFFICES ASSUME IInv, [Next]_vars,
                      NEW a \in Accounts, rows'[a].balance # rows[a].balance
               PROVE  rows[a].status = "ACTIVE" /\ rows'[a].status = "ACTIVE"
    OBVIOUS
  <2>0. rows \in [Accounts -> AccountRow] /\ opened \subseteq Accounts
    BY DEF IInv, TypeOK
  <2>1. PICK r \in Requests :
          \/ CreditAccount(r) \/ DebitAccount(r) \/ FreezeAccount(r)
          \/ UnfreezeAccount(r) \/ CloseAccount(r) \/ ActivateAccount(r)
    BY OthersWriteNothing
  <2>2. ASSUME NEW b \in opened, NEW m \in Amount0, rows[b].status = "ACTIVE",
               rows' = [rows EXCEPT ![b] = Credited(rows[b], m)]
        PROVE  rows[a].status = "ACTIVE" /\ rows'[a].status = "ACTIVE"
    BY <2>0, <2>2, AmountNat, CreditedRow
  <2>3. ASSUME NEW b \in opened, NEW m \in Amount0, CanDebit(rows[b], m),
               rows' = [rows EXCEPT ![b] = Debited(rows[b], m)]
        PROVE  rows[a].status = "ACTIVE" /\ rows'[a].status = "ACTIVE"
    BY <2>0, <2>3, AmountNat, DebitedRow DEF CanDebit, Operable
  <2>4. ASSUME NEW b \in opened, NEW s \in {"ACTIVE", "FROZEN", "CLOSED"},
               rows' = [rows EXCEPT ![b] = WithStatus(rows[b], s)]
        PROVE  FALSE
    <3>1. s \in AccountStatus
      BY DEF AccountStatus
    <3> QED BY <2>0, <2>4, <3>1, WithStatusRow
  <2> QED BY <2>1, <2>2, <2>3, <2>4, CommandsImplement
<1> QED BY <1>1, Inductive, PTL DEF Spec, OnlyActiveMoves

LEMMA InitImplements == Init => Register!Init
BY DEF Init, Register!Init, Opened

LEMMA StepImplements == IInv /\ [Next]_vars => [Register!Next]_(Register!avars)
<1> SUFFICES ASSUME IInv, [Next]_vars PROVE [Register!Next]_(Register!avars)
  OBVIOUS
<1> DEFINE bal == [a \in Accounts |-> rows[a].balance]
           sts == [a \in Accounts |-> rows[a].status]
<1>0. rows \in [Accounts -> AccountRow] /\ opened \subseteq Accounts /\ tier \in Tiers
  BY DEF IInv, TypeOK
<1>1. CASE rows' = rows
  <2>1. bal' = bal /\ sts' = sts
    BY <1>1
  <2>2. CASE UNCHANGED <<opened, tier>>
    BY <2>1, <2>2 DEF Register!avars
  <2>3. ASSUME NEW a \in Accounts \ opened, opened' = opened \cup {a}, tier' = tier
        PROVE  Register!Next
    BY <2>1, <2>3 DEF Register!Next, Register!Open
  <2>4. CASE opened' = opened /\ tier' = tier + 1 /\ tier' \in Tiers
    BY <2>1, <2>4 DEF Register!Next, Register!Upgrade
  <2> QED BY <1>1, <2>2, <2>3, <2>4, OthersWriteNothing, CommandsImplement
<1>2. ASSUME NEW a \in opened, NEW m \in Amounts, UNCHANGED <<opened, tier>>,
             rows[a].status = "ACTIVE", WithinLimit(tier, rows[a], m),
             rows' = [rows EXCEPT ![a] = Credited(rows[a], m)]
      PROVE  Register!Next
  <2>1. m \in Nat /\ rows[a].balance \in Nat
    BY <1>0, AmountsAssumption DEF AccountRow
  <2>2. bal' = [bal EXCEPT ![a] = @ + m] /\ sts' = sts
    BY <1>0, <1>2, <2>1, CreditedRow
  <2>3. Register!WithinCap(tier, bal[a] + m)
    BY <1>0, <1>2, <2>1, LimitsAssumption DEF WithinLimit, Register!WithinCap
  <2>4. Register!Credit(a, m)
    BY <1>0, <1>2, <2>2, <2>3 DEF Register!Credit
  <2> QED BY <1>0, <2>4 DEF Register!Next
<1>3. ASSUME NEW a \in opened, NEW m \in Amounts, UNCHANGED <<opened, tier>>,
             CanDebit(rows[a], m), rows' = [rows EXCEPT ![a] = Debited(rows[a], m)]
      PROVE  Register!Next
  <2>1. m \in Nat /\ rows[a].balance \in Nat
    BY <1>0, AmountsAssumption DEF AccountRow
  <2>2. bal' = [bal EXCEPT ![a] = @ - m] /\ sts' = sts
    BY <1>0, <1>3, <2>1, DebitedRow DEF CanDebit
  <2>3. Register!Debit(a, m)
    BY <1>0, <1>3, <2>2 DEF Register!Debit, CanDebit, Operable
  <2> QED BY <1>0, <2>3 DEF Register!Next
<1>4. ASSUME NEW a \in opened, NEW s \in {"ACTIVE", "FROZEN", "CLOSED"},
             UNCHANGED <<opened, tier>>, s = "CLOSED" => rows[a].balance = 0,
             rows' = [rows EXCEPT ![a] = WithStatus(rows[a], s)]
      PROVE  Register!Next
  <2>1. s \in AccountStatus
    BY DEF AccountStatus
  <2>2. bal' = bal /\ sts' = [sts EXCEPT ![a] = s]
    <3>1. WithStatus(rows[a], s).balance = rows[a].balance /\ WithStatus(rows[a], s).status = s
      BY <1>0, <2>1, WithStatusRow
    <3> QED BY <1>0, <1>4, <3>1
  <2>3. Register!SetStatus(a, s)
    BY <1>0, <1>4, <2>2 DEF Register!SetStatus
  <2> QED BY <1>0, <2>3 DEF Register!Next
<1>5. ASSUME NEW r \in Requests,
             \/ CreditAccount(r) \/ DebitAccount(r) \/ FreezeAccount(r)
             \/ UnfreezeAccount(r) \/ CloseAccount(r) \/ ActivateAccount(r)
      PROVE  rows' = rows \/ Register!Next
  <2>1. req[r].kind \in {"credit", "debit"} => req[r].amount \in Amounts
    BY DEF IInv, Carried
  <2> QED BY <1>2, <1>3, <1>4, <1>5, <2>1, CommandsImplement
<1> QED BY <1>1, <1>5, OthersWriteNothing

\* The load-then-save handlers implement the atomic register: each command
\* takes effect at its save, on the current account and under the current cap.
THEOREM AccountsImplementRegister == Spec => ImplementsRegister
BY InitImplements, StepImplements, Inductive, PTL
   DEF Spec, ImplementsRegister, Register!Spec

-----------------------------------------------------------------------------
(***************************************************************************)
(* Account numbers: what the check digit is for, over all numbers.         *)
(***************************************************************************)
\* Every generated number is ten digits (AccountNumber.create accepts it)
\* and passes the test its check digit is made for (buildWithChecksum).
THEOREM GeneratedChecks ==
  \A d \in [1..9 -> Digits] :
    BuildWithChecksum(d) \in [1..10 -> Digits] /\ Checks(BuildWithChecksum(d))
<1> SUFFICES ASSUME NEW d \in [1..9 -> Digits]
             PROVE  BuildWithChecksum(d) \in [1..10 -> Digits] /\ Checks(BuildWithChecksum(d))
  OBVIOUS
<1> DEFINE n == BuildWithChecksum(d)
<1>1. \A i \in 1..9 : d[i] \in Int
  BY DEF Digits
<1>2. WeightedSum(d) \in Int
  BY <1>1 DEF WeightedSum, NubanWeights
<1>3. CheckDigit(d) \in Digits /\ (WeightedSum(d) + CheckDigit(d)) % 10 = 0
  BY <1>2 DEF CheckDigit, Digits
<1>4. n \in [1..10 -> Digits]
  BY <1>3 DEF BuildWithChecksum, Digits
<1>5. (\A i \in 1..9 : n[i] = d[i]) /\ n[10] = CheckDigit(d)
  BY DEF BuildWithChecksum
<1>6. WeightedSum(n) = WeightedSum(d)
  BY <1>5 DEF WeightedSum, NubanWeights
<1> QED
  BY <1>3, <1>4, <1>5, <1>6 DEF Checks

\* The sum with its weights written out.
LEMMA WeightedSumIs ==
  ASSUME NEW d
  PROVE  WeightedSum(d) = 3 * d[1] + 7 * d[2] + 3 * d[3] + 3 * d[4] + 7 * d[5]
                            + 3 * d[6] + 3 * d[7] + 7 * d[8] + 3 * d[9]
BY DEF WeightedSum, NubanWeights

\* A number that checks does not check any more with one digit mistyped,
\* whichever digit it is and whatever is typed: every weight is invertible
\* modulo 10 (NUBAN_WEIGHTS).
THEOREM OneWrongDigitShows ==
  ASSUME NEW n \in [1..10 -> Digits], Checks(n),
         NEW k \in 1..10, NEW x \in Digits, x # n[k]
  PROVE  ~Checks([n EXCEPT ![k] = x])
<1> DEFINE m == [n EXCEPT ![k] = x]
<1>1. m \in [1..10 -> Digits]
  OBVIOUS
<1>2. \A i \in 1..10 : n[i] \in 0..9 /\ m[i] \in 0..9
  BY <1>1 DEF Digits
<1>3. m[k] = x /\ \A i \in 1..10 : i # k => m[i] = n[i]
  OBVIOUS
<1>4. SUFFICES ASSUME Checks(m) PROVE FALSE
  OBVIOUS
<1> DEFINE a == WeightedSum(n) + n[10]
           b == WeightedSum(m) + m[10]
           e == x - n[k]
<1> HIDE DEF m
<1>a. n[1] \in Int /\ n[2] \in Int /\ n[3] \in Int /\ n[4] \in Int /\ n[5] \in Int
      /\ n[6] \in Int /\ n[7] \in Int /\ n[8] \in Int /\ n[9] \in Int /\ n[10] \in Int
  BY <1>2
<1>b. m[1] \in Int /\ m[2] \in Int /\ m[3] \in Int /\ m[4] \in Int /\ m[5] \in Int
      /\ m[6] \in Int /\ m[7] \in Int /\ m[8] \in Int /\ m[9] \in Int /\ m[10] \in Int
  BY <1>2
<1>c. a = 3 * n[1] + 7 * n[2] + 3 * n[3] + 3 * n[4] + 7 * n[5]
            + 3 * n[6] + 3 * n[7] + 7 * n[8] + 3 * n[9] + n[10]
  BY WeightedSumIs
<1>d. b = 3 * m[1] + 7 * m[2] + 3 * m[3] + 3 * m[4] + 7 * m[5]
            + 3 * m[6] + 3 * m[7] + 7 * m[8] + 3 * m[9] + m[10]
  BY WeightedSumIs
<1>5. a \in Int /\ b \in Int
  <2> HIDE DEF a, b
  <2>1. a \in Int
    BY <1>a, <1>c
  <2>2. b \in Int
    BY <1>b, <1>d
  <2> QED
    BY <2>1, <2>2
<1>6. e \in Int /\ e # 0 /\ -9 <= e /\ e <= 9
  BY <1>2 DEF Digits
<1>8. b - a \in {3 * e, 7 * e, e}
  <2> HIDE DEF a, b
  <2>1. CASE k \in {1, 3, 4, 6, 7, 9}
    BY <2>1, <1>3, <1>a, <1>b, <1>c, <1>d
  <2>2. CASE k \in {2, 5, 8}
    <3>1. b - a = 7 * (m[k] - n[k])
      <4>1. CASE k = 2
        <5>1. m[1] = n[1] /\ m[3] = n[3] /\ m[4] = n[4] /\ m[5] = n[5]
              /\ m[6] = n[6] /\ m[7] = n[7] /\ m[8] = n[8] /\ m[9] = n[9] /\ m[10] = n[10]
          BY <4>1, <1>3
        <5> QED
          BY <4>1, <5>1, <1>a, <1>b, <1>c, <1>d
      <4>2. CASE k = 5
        <5>1. m[1] = n[1] /\ m[2] = n[2] /\ m[3] = n[3] /\ m[4] = n[4]
              /\ m[6] = n[6] /\ m[7] = n[7] /\ m[8] = n[8] /\ m[9] = n[9] /\ m[10] = n[10]
          BY <4>2, <1>3
        <5> QED
          BY <4>2, <5>1, <1>a, <1>b, <1>c, <1>d
      <4>3. CASE k = 8
        <5>1. m[1] = n[1] /\ m[2] = n[2] /\ m[3] = n[3] /\ m[4] = n[4] /\ m[5] = n[5]
              /\ m[6] = n[6] /\ m[7] = n[7] /\ m[9] = n[9] /\ m[10] = n[10]
          BY <4>3, <1>3
        <5> QED
          BY <4>3, <5>1, <1>a, <1>b, <1>c, <1>d
      <4> QED
        BY <2>2, <4>1, <4>2, <4>3
    <3> QED
      BY <3>1, <1>3
  <2>3. CASE k = 10
    BY <2>3, <1>3, <1>a, <1>b, <1>c, <1>d
  <2> QED
    BY <2>1, <2>2, <2>3
<1>7. (b - a) % 10 = 0
  <2>1. a % 10 = 0 /\ b % 10 = 0
    BY <1>4 DEF Checks
  <2> HIDE DEF a, b
  <2> QED
    BY <2>1, <1>5
<1> HIDE DEF a, b, e
<1> QED
  BY <1>5, <1>6, <1>7, <1>8
=============================================================================
