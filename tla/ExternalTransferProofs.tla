----------------------- MODULE ExternalTransferProofs -----------------------
(***************************************************************************)
(* Proofs about ExternalTransfer, for any number of transfers and          *)
(* concurrent webhook deliveries, all amounts, and all bounds on faults    *)
(* and other operations.                                                   *)
(*                                                                         *)
(* The inductive invariant says what a handler knows between two awaits:   *)
(* an account snapshot or transfer row in its memory is either outdated by *)
(* version or exactly the stored row (SnapsBehind, RowsBehind), and each   *)
(* step of the saga fixes how far row, journal and payout have come        *)
(* (SagaKnows).  The version tests then make every accepted write a step   *)
(* from the current row.                                                   *)
(***************************************************************************)
EXTENDS ExternalTransfer, FiniteSetTheorems, TLAPS

Behind(s) == s.version <= acct.version /\ (s.version = acct.version => s = acct)

SnapsBehind ==
  /\ Behind(Account0)
  /\ \A t \in Transfers : Behind(saga[t].snap)
  /\ \A h \in Hooks : Behind(hook[h].snap)

InFlight == {Initiated, MarkedProcessing(Initiated), MarkedSuccessful(Initiated)}

\* What the request handler of t may assume, by the step it is about to take.
SagaKnows(t) ==
  /\ saga[t].pc \in {"load", "debit", "record"} =>
       xfer[t] = NoTransfer /\ payout[t] = "none" /\ journal[t]["hold"] = 0
         /\ journal[t]["settle"] = 0
  /\ saga[t].pc = "hold" =>
       xfer[t] = Initiated /\ saga[t].mem = Initiated /\ payout[t] = "none"
         /\ journal[t]["hold"] = 0 /\ journal[t]["settle"] = 0
  /\ saga[t].pc = "pay" =>
       xfer[t] = Initiated /\ saga[t].mem = Initiated /\ payout[t] = "none"
         /\ journal[t]["hold"] = 1 /\ journal[t]["settle"] = 0
  /\ saga[t].pc = "settle" =>
       xfer[t] = Initiated /\ saga[t].mem = MarkedSuccessful(Initiated)
         /\ payout[t] = "paid" /\ journal[t]["settle"] = 0
  /\ saga[t].pc = "save" =>
       /\ xfer[t] = Initiated
       /\ \/ saga[t].mem = MarkedProcessing(Initiated) /\ journal[t]["settle"] = 0
          \/ saga[t].mem = MarkedSuccessful(Initiated) /\ payout[t] = "paid"
  /\ saga[t].pc \in CatchSteps =>
       /\ saga[t].mem \in InFlight
       /\ xfer[t] = Initiated \/ xfer[t] = saga[t].mem \/ xfer[t].version > saga[t].mem.version
  /\ saga[t].pc \in {"postReversal", "reverse"} => refunds[t] >= 1

\* What a webhook handler may assume.
RowsBehind(h) ==
  LET x == xfer[hook[h].t]
  IN hook[h].pc \notin {"idle", "postSettlement"} =>
       /\ ~Terminal(hook[h].row)
       /\ hook[h].row.ref
       /\ hook[h].row.version <= x.version
       /\ hook[h].row.version = x.version => hook[h].row = x

HookKnows(h) ==
  /\ hook[h].pc # "idle" => xfer[hook[h].t].ref
  /\ RowsBehind(h)
  /\ hook[h].pc = "confirm" => payout[hook[h].t] = "paid"
  /\ hook[h].pc = "postSettlement" =>
       xfer[hook[h].t].status = "SUCCESSFUL" /\ journal[hook[h].t]["settle"] = 0
  /\ hook[h].pc \in {"postReversal", "reverse"} => refunds[hook[h].t] >= 1

OneSettles ==
  \A g, h \in Hooks :
    HookAt(g, "postSettlement") /\ HookAt(h, "postSettlement") /\ hook[g].t = hook[h].t
      => g = h

RowKnows(t) ==
  /\ xfer[t].status = "NONE" => xfer[t].version = 0
  /\ xfer[t].ref => xfer[t].status # "NONE"
  /\ xfer[t].ref /\ xfer[t].status # "SUCCESSFUL" => journal[t]["settle"] = 0

\* ReversedIsRefunded, SuccessfulIsPaid, SettledOnce and PayoutIsCovered at t.
RightAt(t) ==
  /\ xfer[t].status = "REVERSED" => refunds[t] >= 1
  /\ xfer[t].status = "SUCCESSFUL" => payout[t] = "paid"
  /\ journal[t]["settle"] <= 1
  /\ payout[t] # "none" => xfer[t].status # "NONE" /\ journal[t]["hold"] = 1

XInv ==
  /\ \A t \in Transfers : SagaKnows(t) /\ RowKnows(t) /\ RightAt(t)
  /\ \A h \in Hooks : HookKnows(h)
  /\ OneSettles

AInv == SnapsBehind /\ BalanceIsBook

IInv == TypeOK /\ AInv /\ XInv

-----------------------------------------------------------------------------
(***************************************************************************)
(* Facts about the data.                                                   *)
(***************************************************************************)
SagaRec == [pc: SagaSteps, snap: AccountRow, mem: TransferRow]
HookRec == [pc: HookSteps, t: Transfers, row: TransferRow, snap: AccountRow]

\* A row after a mutator is again a row, one version later.
LEMMA CreditedRow ==
  ASSUME NEW a \in AccountRow, NEW m \in Nat
  PROVE  /\ Credited(a, m) \in AccountRow
         /\ Credited(a, m).version = a.version + 1
         /\ Credited(a, m).balance = a.balance + m
BY DEF Credited, Touched, AccountRow

LEMMA DebitedRow ==
  ASSUME NEW a \in AccountRow, NEW m \in Nat, CanDebit(a, m)
  PROVE  /\ Debited(a, m) \in AccountRow
         /\ Debited(a, m).version = a.version + 1
         /\ Debited(a, m).balance = a.balance - m
BY DEF Debited, Touched, AccountRow, CanDebit

LEMMA WithStatusRow ==
  ASSUME NEW a \in AccountRow, NEW s \in AccountStatus
  PROVE  /\ WithStatus(a, s) \in AccountRow
         /\ WithStatus(a, s).version = a.version + 1
         /\ WithStatus(a, s).balance = a.balance
BY DEF WithStatus, Touched, AccountRow

LEMMA MarkedRow ==
  ASSUME NEW x \in TransferRow
  PROVE  /\ MarkedProcessing(x) \in TransferRow
         /\ MarkedSuccessful(x) \in TransferRow
         /\ MarkedReversed(x) \in TransferRow
BY DEF MarkedProcessing, MarkedSuccessful, MarkedReversed, Marked, TransferRow,
   TransactionStatus

LEMMA FirstRows == NoTransfer \in TransferRow /\ Initiated \in TransferRow
BY DEF NoTransfer, Initiated, TransferRow, TransactionStatus

LEMMA InFlightVersions ==
  /\ Initiated.version = 0
  /\ MarkedProcessing(Initiated).version = 1
  /\ MarkedSuccessful(Initiated).version = 1
BY DEF Initiated, MarkedProcessing, MarkedSuccessful, Marked

LEMMA NoHookType == NoHook \in HookRec /\ NoHook.pc = "idle"  /\ NoHook.snap = Account0
BY TransfersAssumption, Account0Assumption, FirstRows DEF NoHook, HookRec, HookSteps

LEMMA GotoType ==
  ASSUME TypeOK, NEW t \in Transfers, NEW pc \in SagaSteps, NEW mem \in TransferRow,
         Goto(t, pc, mem)
  PROVE  saga' \in [Transfers -> SagaRec]
BY Account0Assumption DEF TypeOK, Goto, SagaRec

LEMMA LoadIntoType ==
  ASSUME TypeOK, NEW t \in Transfers, NEW pc \in SagaSteps, LoadInto(t, pc)
  PROVE  saga' \in [Transfers -> SagaRec]
<1>1. saga[t] \in SagaRec
  BY DEF TypeOK, SagaRec
<1> QED BY <1>1 DEF TypeOK, LoadInto, SagaRec

LEMMA PostType ==
  ASSUME TypeOK, NEW t \in Transfers, NEW e \in Entries, Post(t, e)
  PROVE  journal' \in [Transfers -> [Entries -> Nat]]
BY DEF TypeOK, Post

LEMMA HookGotoType ==
  ASSUME TypeOK, NEW h \in Hooks, NEW pc \in HookSteps, NEW row \in TransferRow,
         HookGoto(h, pc, row)
  PROVE  hook' \in [Hooks -> HookRec]
<1>1. hook[h] \in HookRec
  BY DEF TypeOK, HookRec
<1> QED BY <1>1, Account0Assumption DEF TypeOK, HookGoto, HookRec

LEMMA HookDoneType ==
  ASSUME TypeOK, NEW h \in Hooks, HookDone(h)
  PROVE  hook' \in [Hooks -> HookRec]
BY NoHookType DEF TypeOK, HookDone, HookRec

-----------------------------------------------------------------------------
(***************************************************************************)
(* Type correctness is inductive by itself.                                *)
(***************************************************************************)
LEMMA TypeInit == Init => TypeOK
<1> SUFFICES ASSUME Init PROVE TypeOK
  OBVIOUS
<1>1. hook \in [Hooks -> HookRec] /\ saga \in [Transfers -> SagaRec]
  BY NoHookType, FirstRows, Account0Assumption DEF Init, SagaRec, SagaSteps
<1>2. book \in Int
  BY Account0Assumption DEF Init, AccountRow
<1> QED BY <1>1, <1>2, FirstRows, Account0Assumption
       DEF Init, TypeOK, Entries, HookRec, SagaRec

LEMMA SagaType ==
  ASSUME TypeOK, NEW t \in Transfers,
         SagaStep(t) \/ SagaPayTimeout(t) \/ SagaSaveLost(t) \/ SagaError(t) \/ SagaCrash(t)
  PROVE  TypeOK'
<1>1. saga[t] \in SagaRec /\ xfer[t] \in TransferRow /\ Total[t] \in Nat
  BY TotalAssumption DEF TypeOK, SagaRec
<1>2. saga[t].mem \in TransferRow /\ saga[t].snap \in AccountRow
  BY <1>1 DEF SagaRec
<1>3. {"load", "debit", "record", "hold", "done", "dead", "pay", "settle", "save", "reload",
       "refund", "postReversal", "reverse"} \subseteq SagaSteps
  BY DEF SagaSteps, TrySteps, CatchSteps
<1>4. CASE SagaLoad(t)
  BY <1>3, <1>4, LoadIntoType DEF SagaLoad, TypeOK, SagaRec
<1>5. CASE SagaRefuse(t)
  BY <1>2, <1>3, <1>5, GotoType DEF SagaRefuse, TypeOK, SagaRec
<1>6. CASE SagaDebit(t)
  <2>1. acct' \in AccountRow
    BY <1>1, <1>2, <1>6, DebitedRow DEF SagaDebit, TypeOK
  <2>2. saga' \in [Transfers -> SagaRec]
    BY <1>2, <1>3, <1>6, GotoType DEF SagaDebit
  <2>3. book' \in Int
    BY <1>1, <1>6 DEF SagaDebit, TypeOK
  <2> QED BY <1>6, <2>1, <2>2, <2>3 DEF SagaDebit, TypeOK, SagaRec
<1>7. CASE SagaRecord(t)
  BY <1>3, <1>7, FirstRows, GotoType DEF SagaRecord, TypeOK, SagaRec
<1>8. CASE SagaHold(t)
  <2>1. journal' \in [Transfers -> [Entries -> Nat]]
    BY <1>8, PostType DEF SagaHold, Entries
  <2> QED BY <1>2, <1>3, <1>8, <2>1, GotoType DEF SagaHold, TypeOK, SagaRec
<1>9. CASE SagaPay(t)
  <2>1. saga' \in [Transfers -> SagaRec]
    BY <1>2, <1>3, <1>9, MarkedRow, GotoType DEF SagaPay
  <2> QED BY <1>9, <2>1 DEF SagaPay, TypeOK, SagaRec
<1>10. CASE SagaSettle(t)
  <2>1. journal' \in [Transfers -> [Entries -> Nat]]
    BY <1>10, PostType DEF SagaSettle, Entries
  <2> QED BY <1>2, <1>3, <1>10, <2>1, GotoType DEF SagaSettle, TypeOK, SagaRec
<1>11. CASE SagaSave(t)
  BY <1>2, <1>3, <1>11, GotoType DEF SagaSave, TypeOK, SagaRec
<1>12. CASE SagaReload(t)
  BY <1>3, <1>12, LoadIntoType DEF SagaReload, TypeOK, SagaRec
<1>13. CASE SagaRefund(t)
  <2>1. acct' \in AccountRow
    BY <1>1, <1>2, <1>13, CreditedRow DEF SagaRefund, TypeOK
  <2>2. saga' \in [Transfers -> SagaRec]
    BY <1>2, <1>3, <1>13, GotoType DEF SagaRefund
  <2>3. book' \in Int /\ refunds' \in [Transfers -> Nat]
    BY <1>1, <1>13 DEF SagaRefund, TypeOK
  <2> QED BY <1>13, <2>1, <2>2, <2>3 DEF SagaRefund, TypeOK, SagaRec
<1>14. CASE SagaPostReversal(t)
  <2>1. journal' \in [Transfers -> [Entries -> Nat]]
    BY <1>14, PostType DEF SagaPostReversal, Entries
  <2> QED BY <1>2, <1>3, <1>14, <2>1, GotoType DEF SagaPostReversal, TypeOK, SagaRec
<1>15. CASE SagaReverse(t)
  <2>1. saga' \in [Transfers -> SagaRec]
    BY <1>2, <1>3, <1>15, MarkedRow, GotoType DEF SagaReverse
  <2>2. xfer' \in [Transfers -> TransferRow]
    BY <1>2, <1>15, MarkedRow DEF SagaReverse, TypeOK
  <2> QED BY <1>15, <2>1, <2>2 DEF SagaReverse, TypeOK, SagaRec
<1>16. CASE SagaPayTimeout(t)
  <2>1. saga' \in [Transfers -> SagaRec]
    BY <1>2, <1>3, <1>16, GotoType DEF SagaPayTimeout
  <2>2. faults' \in Nat
    BY <1>16 DEF SagaPayTimeout, TypeOK
  <2>3. payout' \in [Transfers -> {"none", "accepted", "paid", "failed"}]
    BY <1>16 DEF SagaPayTimeout, TypeOK
  <2> QED BY <1>16, <2>1, <2>2, <2>3 DEF SagaPayTimeout, TypeOK, SagaRec
<1>17. CASE SagaSaveLost(t)
  BY <1>2, <1>3, <1>17, GotoType DEF SagaSaveLost, TypeOK, SagaRec
<1>18. CASE SagaError(t)
  BY <1>2, <1>3, <1>18, GotoType DEF SagaError, TypeOK, SagaRec
<1>19. CASE SagaCrash(t)
  BY <1>2, <1>3, <1>19, GotoType DEF SagaCrash, TypeOK, SagaRec
<1> QED BY <1>4, <1>5, <1>6, <1>7, <1>8, <1>9, <1>10, <1>11, <1>12, <1>13, <1>14,
           <1>15, <1>16, <1>17, <1>18, <1>19 DEF SagaStep

LEMMA HookType ==
  ASSUME TypeOK, NEW h \in Hooks,
         HookStep(h) \/ HookFault(h) \/ (\E t \in Transfers : Deliver(h, t))
  PROVE  TypeOK'
<1>1. hook[h] \in HookRec
  BY DEF TypeOK, HookRec
<1>2. /\ hook[h].t \in Transfers /\ hook[h].row \in TransferRow
      /\ hook[h].snap \in AccountRow /\ Total[hook[h].t] \in Nat
  BY <1>1, TotalAssumption DEF HookRec
<1>3. CASE \E t \in Transfers : Deliver(h, t)
  <2>1. hook' \in [Hooks -> HookRec]
    BY <1>3, Account0Assumption DEF Deliver, FirstStep, TypeOK, HookRec, HookSteps
  <2> QED BY <1>3, <2>1 DEF Deliver, TypeOK, HookRec
<1>4. CASE HookConfirm(h)
  <2>1. xfer' \in [Transfers -> TransferRow]
    BY <1>2, <1>4, MarkedRow DEF HookConfirm, TypeOK
  <2>2. hook' \in [Hooks -> HookRec]
    BY <1>2, <1>4, MarkedRow, HookGotoType, HookDoneType DEF HookConfirm, HookSteps
  <2> QED BY <1>4, <2>1, <2>2 DEF HookConfirm, TypeOK, HookRec
<1>5. CASE HookPostSettlement(h)
  <2>1. journal' \in [Transfers -> [Entries -> Nat]]
    BY <1>2, <1>5, PostType DEF HookPostSettlement, Entries
  <2> QED BY <1>5, <2>1, HookDoneType DEF HookPostSettlement, TypeOK, HookRec
<1>6. CASE HookReload(h)
  <2>1. hook' \in [Hooks -> HookRec]
    BY <1>1, <1>2, <1>6 DEF HookReload, TypeOK, HookRec, HookSteps
  <2> QED BY <1>6, <2>1 DEF HookReload, TypeOK, HookRec
<1>7. CASE HookRefund(h)
  <2>1. acct' \in AccountRow
    BY <1>2, <1>7, CreditedRow DEF HookRefund, TypeOK
  <2>2. hook' \in [Hooks -> HookRec]
    BY <1>2, <1>7, HookGotoType, HookDoneType DEF HookRefund, HookSteps
  <2>3. book' \in Int /\ refunds' \in [Transfers -> Nat]
    BY <1>2, <1>7 DEF HookRefund, TypeOK
  <2> QED BY <1>7, <2>1, <2>2, <2>3 DEF HookRefund, TypeOK, HookRec
<1>8. CASE HookPostReversal(h)
  <2>1. journal' \in [Transfers -> [Entries -> Nat]]
    BY <1>2, <1>8, PostType DEF HookPostReversal, Entries
  <2>2. hook' \in [Hooks -> HookRec]
    BY <1>2, <1>8, HookGotoType DEF HookPostReversal, HookSteps
  <2> QED BY <1>8, <2>1, <2>2 DEF HookPostReversal, TypeOK, HookRec
<1>9. CASE HookReverse(h)
  <2>1. xfer' \in [Transfers -> TransferRow]
    BY <1>2, <1>9, MarkedRow DEF HookReverse, TypeOK
  <2> QED BY <1>9, <2>1, HookDoneType DEF HookReverse, TypeOK, HookRec
<1>10. CASE HookFault(h)
  BY <1>10, HookDoneType DEF HookFault, TypeOK, HookRec
<1> QED BY <1>3, <1>4, <1>5, <1>6, <1>7, <1>8, <1>9, <1>10 DEF HookStep

OtherStep ==
  \/ \E m \in OtherAmounts : OtherCredit(m) \/ OtherDebit(m)
  \/ OtherFreeze \/ OtherUnfreeze \/ OtherClose

\* Whatever else happens to the account is one version, and booked.
LEMMA OtherIsBooked ==
  ASSUME TypeOK, OtherStep
  PROVE  /\ acct' \in AccountRow
         /\ acct'.version = acct.version + 1
         /\ book' \in Int
         /\ acct'.balance - acct.balance = book' - book
         /\ others' \in Nat
         /\ UNCHANGED <<xfer, journal, saga, hook, payout, faults, lost, refunds>>
<1>1. acct \in AccountRow /\ book \in Int /\ others \in Nat /\ acct.balance \in Int
  BY DEF TypeOK, AccountRow
<1>2. ASSUME NEW m \in OtherAmounts, OtherCredit(m) PROVE acct' = Credited(acct, m)
        /\ Other(acct', m) /\ m \in Nat
  BY <1>2, OtherAssumption DEF OtherCredit, Other
<1>3. ASSUME NEW m \in OtherAmounts, OtherDebit(m) PROVE acct' = Debited(acct, m)
        /\ Other(acct', -m) /\ m \in Nat /\ CanDebit(acct, m)
  BY <1>3, OtherAssumption DEF OtherDebit, Other
<1>4. ASSUME OtherFreeze \/ OtherUnfreeze \/ OtherClose
      PROVE  Other(acct', 0) /\ \E s \in AccountStatus : acct' = WithStatus(acct, s)
  <2>1. {"FROZEN", "ACTIVE", "CLOSED"} \subseteq AccountStatus
    BY DEF AccountStatus
  <2>2. CASE OtherFreeze
    BY <2>1, <2>2 DEF OtherFreeze, Frozen, Other
  <2>3. CASE OtherUnfreeze
    BY <2>1, <2>3 DEF OtherUnfreeze, Unfrozen, Other
  <2>4. CASE OtherClose
    BY <2>1, <2>4 DEF OtherClose, Closed, Other
  <2> QED BY <1>4, <2>2, <2>3, <2>4
<1>5. CASE \E m \in OtherAmounts : OtherCredit(m)
  <2>1. PICK m \in OtherAmounts : OtherCredit(m)
    BY <1>5
  <2>2. acct' = Credited(acct, m) /\ Other(acct', m) /\ m \in Nat
    BY <1>2, <2>1
  <2>3. acct' \in AccountRow /\ acct'.version = acct.version + 1
          /\ acct'.balance = acct.balance + m
    BY <1>1, <2>2, CreditedRow
  <2> QED BY <1>1, <2>2, <2>3 DEF Other
<1>6. CASE \E m \in OtherAmounts : OtherDebit(m)
  BY <1>1, <1>3, <1>6, DebitedRow DEF Other
<1>7. CASE OtherFreeze \/ OtherUnfreeze \/ OtherClose
  BY <1>1, <1>4, <1>7, WithStatusRow DEF Other
<1> QED BY <1>5, <1>6, <1>7 DEF OtherStep

AnySagaStep(t) ==
  SagaStep(t) \/ SagaPayTimeout(t) \/ SagaSaveLost(t) \/ SagaError(t) \/ SagaCrash(t)

AnyHookStep(h) ==
  HookStep(h) \/ HookFault(h) \/ (\E t \in Transfers : Deliver(h, t))

\* Next, by who takes the step.
LEMMA NextCases ==
  ASSUME Next
  PROVE  \/ \E t \in Transfers : AnySagaStep(t) \/ ProviderResolves(t)
         \/ \E h \in Hooks : AnyHookStep(h)
         \/ OtherStep
BY DEF Next, AnySagaStep, AnyHookStep, OtherStep

LEMMA TypeNext == TypeOK /\ [Next]_vars => TypeOK'
<1> SUFFICES ASSUME TypeOK, [Next]_vars PROVE TypeOK'
  OBVIOUS
<1>1. CASE UNCHANGED vars
  BY <1>1 DEF TypeOK, vars
<1>2. ASSUME NEW t \in Transfers, AnySagaStep(t) PROVE TypeOK'
  BY <1>2, SagaType DEF AnySagaStep
<1>3. ASSUME NEW t \in Transfers, ProviderResolves(t) PROVE TypeOK'
  BY <1>3 DEF ProviderResolves, TypeOK
<1>4. ASSUME NEW h \in Hooks, AnyHookStep(h) PROVE TypeOK'
  BY <1>4, HookType DEF AnyHookStep
<1>5. CASE OtherStep
  BY <1>5, OtherIsBooked DEF TypeOK
<1> QED BY <1>1, <1>2, <1>3, <1>4, <1>5, NextCases

\* Type correctness of the saga, the webhook handlers and their data.
THEOREM TypeCorrect == Spec => []TypeOK
BY TypeInit, TypeNext, PTL DEF Spec

-----------------------------------------------------------------------------
(***************************************************************************)
(* The account: snapshots are behind or exact, so the balance is the book. *)
(***************************************************************************)

\* A step that writes the account moves it one version past every snapshot.
LEMMA BehindMoves ==
  ASSUME NEW s \in AccountRow, acct \in AccountRow, acct' \in AccountRow, Behind(s),
         acct' = acct \/ acct'.version = acct.version + 1
  PROVE  s.version <= acct'.version /\ (s.version = acct'.version => s = acct')
BY DEF Behind, AccountRow

\* The account, the book, and where new snapshots come from, after a step.
Booked ==
  \/ acct' = acct /\ book' = book
  \/ acct'.version = acct.version + 1 /\ acct'.balance - acct.balance = book' - book

NewSnap(old, new) == new = old \/ new = Account0 \/ (new = acct /\ acct' = acct)

LEMMA SagaBooks ==
  ASSUME TypeOK, AInv, NEW t \in Transfers, AnySagaStep(t)
  PROVE  /\ Booked
         /\ \A u \in Transfers : NewSnap(saga[u].snap, saga'[u].snap)
         /\ hook' = hook
<1>1. saga[t] \in SagaRec /\ acct \in AccountRow /\ Total[t] \in Nat /\ book \in Int
  BY TotalAssumption DEF TypeOK, SagaRec
<1>2. saga[t].snap \in AccountRow /\ saga[t].snap.version \in Nat
  BY <1>1 DEF SagaRec, AccountRow
<1>3. ASSUME NEW pc, NEW mem, Goto(t, pc, mem)
      PROVE  \A u \in Transfers : NewSnap(saga[u].snap, saga'[u].snap)
  BY <1>3 DEF Goto, NewSnap, TypeOK
<1>4. ASSUME NEW pc, LoadInto(t, pc), acct' = acct
      PROVE  \A u \in Transfers : NewSnap(saga[u].snap, saga'[u].snap)
  BY <1>4 DEF LoadInto, NewSnap, TypeOK
<1>5. CASE SagaLoad(t) \/ SagaReload(t)
  BY <1>4, <1>5 DEF SagaLoad, SagaReload, Booked
<1>6. CASE SagaRefuse(t) \/ SagaRecord(t) \/ SagaHold(t) \/ SagaSettle(t)
             \/ SagaSave(t) \/ SagaPostReversal(t) \/ SagaReverse(t)
  BY <1>3, <1>6 DEF SagaRefuse, SagaRecord, SagaHold, SagaSettle, SagaSave,
     SagaPostReversal, SagaReverse, Booked
<1>7. CASE SagaPay(t) \/ SagaPayTimeout(t) \/ SagaSaveLost(t) \/ SagaError(t) \/ SagaCrash(t)
  BY <1>3, <1>7 DEF SagaPay, SagaPayTimeout, SagaSaveLost, SagaError, SagaCrash, Booked
<1>8. CASE SagaDebit(t)
  <2>1. /\ Debited(saga[t].snap, Total[t]).version = saga[t].snap.version + 1
        /\ Debited(saga[t].snap, Total[t]).balance = saga[t].snap.balance - Total[t]
    BY <1>1, <1>2, <1>8, DebitedRow DEF SagaDebit
  <2>2. MaySave(acct, Debited(saga[t].snap, Total[t])) => saga[t].snap = acct
    BY <1>1, <1>2, <2>1 DEF MaySave, AInv, SnapsBehind, Behind, AccountRow
  <2>3. Booked
    BY <1>1, <1>8, <2>1, <2>2 DEF SagaDebit, Booked, AccountRow
  <2> QED BY <1>3, <1>8, <2>3 DEF SagaDebit
<1>9. CASE SagaRefund(t)
  <2>1. /\ Credited(saga[t].snap, Total[t]).version = saga[t].snap.version + 1
        /\ Credited(saga[t].snap, Total[t]).balance = saga[t].snap.balance + Total[t]
    BY <1>1, <1>2, CreditedRow
  <2>2. MaySave(acct, Credited(saga[t].snap, Total[t])) => saga[t].snap = acct
    BY <1>1, <1>2, <2>1 DEF MaySave, AInv, SnapsBehind, Behind, AccountRow
  <2>3. Booked
    BY <1>1, <1>9, <2>1, <2>2 DEF SagaRefund, Booked, AccountRow
  <2> QED BY <1>3, <1>9, <2>3 DEF SagaRefund
<1> QED BY <1>5, <1>6, <1>7, <1>8, <1>9 DEF AnySagaStep, SagaStep

LEMMA HookBooks ==
  ASSUME TypeOK, AInv, NEW h \in Hooks, AnyHookStep(h)
  PROVE  /\ Booked
         /\ \A g \in Hooks : NewSnap(hook[g].snap, hook'[g].snap)
         /\ saga' = saga
<1>1. hook[h] \in HookRec /\ acct \in AccountRow /\ book \in Int
  BY DEF TypeOK, HookRec
<1>2. /\ hook[h].snap \in AccountRow /\ hook[h].snap.version \in Nat
      /\ hook[h].t \in Transfers /\ Total[hook[h].t] \in Nat
  BY <1>1, TotalAssumption DEF HookRec, AccountRow
<1>3. ASSUME NEW pc, NEW row, HookGoto(h, pc, row)
      PROVE  \A g \in Hooks : NewSnap(hook[g].snap, hook'[g].snap)
  BY <1>3 DEF HookGoto, NewSnap, TypeOK
<1>4. ASSUME HookDone(h)
      PROVE  \A g \in Hooks : NewSnap(hook[g].snap, hook'[g].snap)
  BY <1>4, NoHookType DEF HookDone, NewSnap, TypeOK
<1>5. CASE \E t \in Transfers : Deliver(h, t)
  BY <1>5 DEF Deliver, NewSnap, TypeOK, Booked
<1>6. CASE HookConfirm(h)
  BY <1>3, <1>4, <1>6 DEF HookConfirm, Booked
<1>7. CASE HookPostSettlement(h) \/ HookPostReversal(h) \/ HookReverse(h) \/ HookFault(h)
  BY <1>3, <1>4, <1>7 DEF HookPostSettlement, HookPostReversal, HookReverse, HookFault, Booked
<1>8. CASE HookReload(h)
  BY <1>8 DEF HookReload, NewSnap, TypeOK, Booked
<1>9. CASE HookRefund(h)
  <2> DEFINE new == Credited(hook[h].snap, Total[hook[h].t])
  <2>1. new.version = hook[h].snap.version + 1
          /\ new.balance = hook[h].snap.balance + Total[hook[h].t]
    BY <1>2, CreditedRow
  <2>2. MaySave(acct, new) => hook[h].snap = acct
    BY <1>1, <1>2, <2>1 DEF MaySave, AInv, SnapsBehind, Behind, AccountRow
  <2>3. Booked
    BY <1>1, <1>2, <1>9, <2>1, <2>2 DEF HookRefund, Booked, AccountRow
  <2> QED BY <1>3, <1>4, <1>9, <2>3 DEF HookRefund
<1> QED BY <1>5, <1>6, <1>7, <1>8, <1>9 DEF AnyHookStep, HookStep

LEMMA AInvNext == TypeOK /\ AInv /\ [Next]_vars => AInv'
<1> SUFFICES ASSUME TypeOK, AInv, [Next]_vars PROVE AInv'
  OBVIOUS
<1>1. /\ Booked
      /\ \A u \in Transfers : NewSnap(saga[u].snap, saga'[u].snap)
      /\ \A g \in Hooks : NewSnap(hook[g].snap, hook'[g].snap)
  <2>1. CASE UNCHANGED vars
    BY <2>1 DEF vars, Booked, NewSnap
  <2>2. ASSUME NEW t \in Transfers, AnySagaStep(t) PROVE <1>1!:
    BY <2>2, SagaBooks DEF NewSnap
  <2>3. ASSUME NEW t \in Transfers, ProviderResolves(t) PROVE <1>1!:
    BY <2>3 DEF ProviderResolves, Booked, NewSnap
  <2>4. ASSUME NEW h \in Hooks, AnyHookStep(h) PROVE <1>1!:
    BY <2>4, HookBooks DEF NewSnap
  <2>5. CASE OtherStep
    BY <2>5, OtherIsBooked DEF Booked, NewSnap
  <2> QED BY <2>1, <2>2, <2>3, <2>4, <2>5, NextCases
<1>2. TypeOK'
  BY TypeNext
<1>3. acct \in AccountRow /\ acct' \in AccountRow /\ book \in Int /\ book' \in Int
  BY <1>2 DEF TypeOK
<1>4. acct' = acct \/ acct'.version = acct.version + 1
  BY <1>1 DEF Booked
<1>5. Behind(Account0)'
  BY <1>3, <1>4, Account0Assumption, BehindMoves DEF AInv, SnapsBehind, Behind
<1>6. ASSUME NEW old \in AccountRow, NEW new, Behind(old), NewSnap(old, new)
      PROVE  new.version <= acct'.version /\ (new.version = acct'.version => new = acct')
  <2>1. CASE new = old
    BY <1>3, <1>4, <1>6, <2>1, BehindMoves
  <2>2. CASE new = Account0
    BY <1>5, <2>2 DEF Behind
  <2>3. CASE new = acct /\ acct' = acct
    BY <1>3, <2>3 DEF AccountRow
  <2> QED BY <1>6, <2>1, <2>2, <2>3 DEF NewSnap
<1>7. ASSUME NEW t \in Transfers PROVE Behind(saga[t].snap)'
  <2>1. saga[t] \in SagaRec
    BY DEF TypeOK, SagaRec
  <2>2. saga[t].snap \in AccountRow
    BY <2>1 DEF SagaRec
  <2> QED BY <1>1, <1>6, <2>2 DEF AInv, SnapsBehind, Behind
<1>8. ASSUME NEW h \in Hooks PROVE Behind(hook[h].snap)'
  <2>1. hook[h] \in HookRec
    BY DEF TypeOK, HookRec
  <2>2. hook[h].snap \in AccountRow
    BY <2>1 DEF HookRec
  <2> QED BY <1>1, <1>6, <2>2 DEF AInv, SnapsBehind, Behind
<1>9. BalanceIsBook'
  BY <1>1, <1>3 DEF Booked, AInv, BalanceIsBook, AccountRow
<1> QED BY <1>5, <1>7, <1>8, <1>9 DEF AInv, SnapsBehind, Behind

LEMMA AInvInit == Init => AInv
BY NoHookType, Account0Assumption DEF Init, AInv, SnapsBehind, Behind, BalanceIsBook,
   AccountRow

\* No interleaving of sagas, webhooks and other operations loses or invents
\* money on the account.
THEOREM BalanceIsBooked == Spec => []BalanceIsBook
<1>1. Init => TypeOK /\ AInv
  BY TypeInit, AInvInit
<1>2. TypeOK /\ AInv /\ [Next]_vars => (TypeOK /\ AInv)'
  BY TypeNext, AInvNext
<1>3. TypeOK /\ AInv => BalanceIsBook
  BY DEF AInv
<1> QED BY <1>1, <1>2, <1>3, PTL DEF Spec

-----------------------------------------------------------------------------
(***************************************************************************)
(* The transfer: what saga and webhooks know about it stays true.          *)
(***************************************************************************)
LEMMA XInvInit == Init => XInv
<1> SUFFICES ASSUME Init PROVE XInv
  OBVIOUS
<1>1. ASSUME NEW t \in Transfers PROVE SagaKnows(t) /\ RowKnows(t) /\ RightAt(t)
  BY DEF Init, SagaKnows, RowKnows, RightAt, NoTransfer, CatchSteps, Entries
<1>2. ASSUME NEW h \in Hooks PROVE HookKnows(h)
  BY NoHookType DEF Init, HookKnows, RowsBehind
<1>3. OneSettles
  BY NoHookType DEF Init, OneSettles, HookAt
<1> QED BY <1>1, <1>2, <1>3 DEF XInv

\* A step touches the state of one transfer only.
Elsewhere(t) ==
  \A u \in Transfers \ {t} :
    /\ xfer'[u] = xfer[u] /\ journal'[u] = journal[u] /\ payout'[u] = payout[u]
    /\ refunds'[u] = refunds[u] /\ saga'[u] = saga[u]

LEMMA SagaElsewhere ==
  ASSUME TypeOK, NEW t \in Transfers, AnySagaStep(t)
  PROVE  Elsewhere(t) /\ hook' = hook
<1> USE DEF TypeOK, Elsewhere, Goto, LoadInto, Post
<1>1. CASE SagaLoad(t) \/ SagaReload(t) \/ SagaRefuse(t) \/ SagaError(t) \/ SagaCrash(t)
  BY <1>1 DEF SagaLoad, SagaReload, SagaRefuse, SagaError, SagaCrash
<1>2. CASE SagaDebit(t) \/ SagaRecord(t) \/ SagaHold(t)
  BY <1>2 DEF SagaDebit, SagaRecord, SagaHold
<1>3. CASE SagaPay(t) \/ SagaPayTimeout(t) \/ SagaSettle(t) \/ SagaSave(t) \/ SagaSaveLost(t)
  BY <1>3 DEF SagaPay, SagaPayTimeout, SagaSettle, SagaSave, SagaSaveLost
<1>4. CASE SagaRefund(t) \/ SagaPostReversal(t) \/ SagaReverse(t)
  BY <1>4 DEF SagaRefund, SagaPostReversal, SagaReverse
<1> QED BY <1>1, <1>2, <1>3, <1>4 DEF AnySagaStep, SagaStep

LEMMA ElsewhereKeeps ==
  ASSUME TypeOK, XInv, NEW t \in Transfers, Elsewhere(t), NEW u \in Transfers, u # t
  PROVE  SagaKnows(u)' /\ RowKnows(u)' /\ RightAt(u)'
BY DEF XInv, Elsewhere, SagaKnows, RowKnows, RightAt

\* What a step on transfer t must not take away from its webhook handlers.
HooksKeep(t) ==
  /\ refunds'[t] >= refunds[t]
  /\ payout[t] = "paid" => payout'[t] = "paid"
  /\ xfer[t].ref =>
       /\ journal'[t]["settle"] = journal[t]["settle"]
       /\ xfer'[t].ref
       /\ \/ xfer'[t] = xfer[t]
          \/ ~Terminal(xfer[t]) /\ xfer'[t].version > xfer[t].version

LEMMA HookKept ==
  ASSUME TypeOK, TypeOK', XInv, NEW t \in Transfers, Elsewhere(t), HooksKeep(t),
         NEW h \in Hooks, hook'[h] = hook[h]
  PROVE  HookKnows(h)'
<1>1. hook[h] \in HookRec
  BY DEF TypeOK, HookRec
<1>2. hook[h].t \in Transfers /\ hook[h].row \in TransferRow
  BY <1>1 DEF HookRec
<1>3. CASE hook[h].t # t
  BY <1>2, <1>3 DEF XInv, HookKnows, RowsBehind, Elsewhere
<1>4. CASE hook[h].t = t
  <2>1. /\ xfer[t] \in TransferRow /\ xfer'[t] \in TransferRow
        /\ refunds[t] \in Nat /\ refunds'[t] \in Nat
    BY DEF TypeOK
  <2>2. hook[h].row.version \in Nat /\ xfer[t].version \in Nat /\ xfer'[t].version \in Nat
    BY <1>2, <2>1 DEF TransferRow
  <2>3. RowsBehind(h)'
    BY <1>4, <2>2 DEF XInv, HookKnows, RowsBehind, HooksKeep
  <2> QED BY <1>4, <2>1, <2>2, <2>3 DEF XInv, HookKnows, HooksKeep, Terminal, TerminalStatuses
<1> QED BY <1>3, <1>4

LEMMA SagaKeepsHooks ==
  ASSUME TypeOK, TypeOK', XInv, NEW t \in Transfers, AnySagaStep(t), HooksKeep(t),
         SagaKnows(t)', RowKnows(t)', RightAt(t)'
  PROVE  XInv'
<1>1. Elsewhere(t) /\ hook' = hook
  BY SagaElsewhere
<1>2. \A u \in Transfers : SagaKnows(u)' /\ RowKnows(u)' /\ RightAt(u)'
  BY <1>1, ElsewhereKeeps
<1>3. \A h \in Hooks : HookKnows(h)'
  BY <1>1, HookKept
<1>4. OneSettles'
  BY <1>1 DEF XInv, OneSettles, HookAt
<1> QED BY <1>2, <1>3, <1>4 DEF XInv

\* The catch block may hold a transfer that a failed try section left ahead of
\* or behind the row; what the version test lets through is the row itself.
LEMMA ReverseIsCurrent ==
  ASSUME TypeOK, XInv, NEW t \in Transfers, SagaReverse(t), xfer'[t] # xfer[t]
  PROVE  ~Terminal(xfer[t]) /\ xfer'[t] = MarkedReversed(xfer[t])
<1> DEFINE mem == saga[t].mem
<1>1. saga[t] \in SagaRec /\ xfer[t] \in TransferRow
  BY DEF TypeOK, SagaRec
<1>2. mem \in TransferRow /\ mem.version \in Nat /\ xfer[t].version \in Nat
  BY <1>1 DEF SagaRec, TransferRow
<1>3. /\ xfer'[t] = MarkedReversed(mem) /\ ~Terminal(mem)
      /\ MaySaveTransfer(xfer[t], MarkedReversed(mem))
  BY DEF SagaReverse, TypeOK
<1>4. /\ mem \in InFlight
      /\ xfer[t] = Initiated \/ xfer[t] = mem \/ xfer[t].version > mem.version
  BY DEF XInv, SagaKnows, SagaReverse, SagaAt, CatchSteps
<1>5. xfer[t].version = mem.version
  <2>1. xfer[t].status = "NONE" => xfer[t].version = 0
    BY DEF XInv, RowKnows
  <2>2. MarkedReversed(mem).version = mem.version + 1
    BY DEF MarkedReversed, Marked
  <2>3. xfer[t].status = "NONE" \/ xfer[t].version = mem.version
    BY <1>2, <1>3, <2>2 DEF MaySaveTransfer
  <2>4. Initiated.status = "PENDING"
    BY DEF Initiated
  <2> QED BY <1>2, <1>4, <2>1, <2>3, <2>4
<1>6. mem.version = 0 => mem = Initiated
  BY <1>4, InFlightVersions DEF InFlight
<1>7. xfer[t] = mem
  BY <1>2, <1>4, <1>5, <1>6, InFlightVersions
<1> QED BY <1>3, <1>7

\* Each step of the saga, with the four facts it must establish.
LEMMA SagaXInv ==
  ASSUME TypeOK, TypeOK', XInv, NEW t \in Transfers, AnySagaStep(t)
  PROVE  XInv'
<1> DEFINE Goal == HooksKeep(t) /\ SagaKnows(t)' /\ RowKnows(t)' /\ RightAt(t)'
<1>1. SagaKnows(t) /\ RowKnows(t) /\ RightAt(t)
  BY DEF XInv
<1>2. /\ xfer[t] \in TransferRow /\ refunds[t] \in Nat /\ journal[t] \in [Entries -> Nat]
      /\ saga[t] \in SagaRec
  BY DEF TypeOK, SagaRec
<1>3. saga[t].mem \in TransferRow /\ xfer[t].version \in Nat
  BY <1>2 DEF SagaRec, TransferRow
<1> USE DEF SagaAt, SagaKnows, RowKnows, RightAt, HooksKeep
<1>4. ASSUME SagaLoad(t) \/ SagaRefuse(t) \/ SagaDebit(t) PROVE Goal
  <2>1. CASE SagaLoad(t)
    BY <1>1, <1>2, <2>1 DEF SagaLoad, LoadInto, TypeOK, CatchSteps
  <2>2. CASE SagaRefuse(t)
    BY <1>1, <1>2, <2>2 DEF SagaRefuse, Goto, TypeOK, CatchSteps
  <2>3. CASE SagaDebit(t)
    BY <1>1, <1>2, <2>3 DEF SagaDebit, Goto, TypeOK, CatchSteps
  <2> QED BY <1>4, <2>1, <2>2, <2>3
<1>5. ASSUME SagaRecord(t) PROVE Goal
  <2>1. xfer'[t] = Initiated /\ saga'[t].pc = "hold" /\ saga'[t].mem = Initiated
    BY <1>5 DEF SagaRecord, Goto, TypeOK
  <2> QED BY <1>1, <1>2, <1>5, <2>1 DEF SagaRecord, NoTransfer, Initiated, CatchSteps
<1>6. ASSUME SagaHold(t) PROVE Goal
  <2>1. /\ xfer'[t] = xfer[t] /\ saga'[t].pc = "pay" /\ saga'[t].mem = saga[t].mem
        /\ journal'[t]["hold"] = journal[t]["hold"] + 1
        /\ journal'[t]["settle"] = journal[t]["settle"]
    BY <1>6 DEF SagaHold, Goto, Post, TypeOK, Entries
  <2> QED BY <1>1, <1>2, <1>6, <2>1 DEF SagaHold, Initiated, CatchSteps
<1>7. ASSUME SagaPay(t) PROVE Goal
  <2>1. /\ xfer'[t] = Initiated /\ journal'[t] = journal[t] /\ refunds'[t] = refunds[t]
        /\ \/ /\ payout'[t] = "accepted" /\ saga'[t].pc = "save"
              /\ saga'[t].mem = MarkedProcessing(Initiated)
           \/ /\ payout'[t] = "paid" /\ saga'[t].pc = "settle"
              /\ saga'[t].mem = MarkedSuccessful(Initiated)
           \/ /\ payout'[t] = payout[t] /\ saga'[t].pc = "reload" /\ saga'[t].mem = Initiated
    BY <1>1, <1>7 DEF SagaPay, Goto, TypeOK
  <2> QED BY <1>1, <1>2, <1>7, <2>1 DEF SagaPay, Initiated, CatchSteps, InFlight
<1>8. ASSUME SagaPayTimeout(t) PROVE Goal
  <2>1. /\ xfer'[t] = Initiated /\ journal'[t] = journal[t] /\ refunds'[t] = refunds[t]
        /\ payout'[t] = "accepted" /\ saga'[t].pc = "reload" /\ saga'[t].mem = Initiated
    BY <1>1, <1>8 DEF SagaPayTimeout, Goto, TypeOK
  <2> QED BY <1>1, <1>2, <1>8, <2>1 DEF SagaPayTimeout, Initiated, CatchSteps, InFlight
<1>9. ASSUME SagaSettle(t) PROVE Goal
  <2>1. /\ xfer'[t] = xfer[t] /\ saga'[t].pc = "save" /\ saga'[t].mem = saga[t].mem
        /\ journal'[t]["hold"] = journal[t]["hold"]
        /\ journal'[t]["settle"] = journal[t]["settle"] + 1
    BY <1>9 DEF SagaSettle, Goto, Post, TypeOK, Entries
  <2> QED BY <1>1, <1>2, <1>9, <2>1 DEF SagaSettle, Initiated, CatchSteps
<1>10. ASSUME SagaSave(t) \/ SagaSaveLost(t) PROVE Goal
  <2>1. /\ xfer[t] = Initiated /\ journal' = journal /\ payout' = payout /\ refunds' = refunds
        /\ saga'[t].pc \in {"done", "reload"} /\ saga'[t].mem = saga[t].mem
        /\ xfer'[t] = saga[t].mem \/ xfer'[t] = xfer[t]
    BY <1>1, <1>10 DEF SagaSave, SagaSaveLost, Goto, TypeOK
  <2>2. saga[t].pc = "save"
    BY <1>10 DEF SagaSave, SagaSaveLost
  <2> QED BY <1>1, <1>2, <2>1, <2>2 DEF Initiated, MarkedProcessing, MarkedSuccessful,
             Marked, CatchSteps, InFlight
<1>11. ASSUME SagaReload(t) PROVE Goal
  BY <1>1, <1>2, <1>11 DEF SagaReload, LoadInto, TypeOK, CatchSteps
<1>12. ASSUME SagaRefund(t) PROVE Goal
  <2>1. /\ xfer'[t] = xfer[t] /\ journal' = journal /\ payout' = payout
        /\ saga'[t].mem = saga[t].mem
        /\ \/ saga'[t].pc = "postReversal" /\ refunds'[t] = refunds[t] + 1
           \/ saga'[t].pc = "dead" /\ refunds'[t] = refunds[t]
    BY <1>12 DEF SagaRefund, Goto, TypeOK
  <2>2. saga[t].pc = "refund"
    BY <1>12 DEF SagaRefund
  <2> QED BY <1>1, <1>2, <2>1, <2>2 DEF CatchSteps
<1>13. ASSUME SagaPostReversal(t) PROVE Goal
  <2>1. /\ xfer'[t] = xfer[t] /\ saga'[t].pc = "reverse" /\ saga'[t].mem = saga[t].mem
        /\ journal'[t]["hold"] = journal[t]["hold"]
        /\ journal'[t]["settle"] = journal[t]["settle"]
    BY <1>13 DEF SagaPostReversal, Goto, Post, TypeOK, Entries
  <2> QED BY <1>1, <1>2, <1>13, <2>1 DEF SagaPostReversal, CatchSteps
<1>14. ASSUME SagaReverse(t) PROVE Goal
  <2>1. /\ journal' = journal /\ payout' = payout /\ refunds' = refunds
        /\ saga'[t].pc \in {"done", "dead"}
        /\ \/ xfer'[t] = xfer[t]
           \/ /\ xfer'[t] = MarkedReversed(saga[t].mem) /\ ~Terminal(saga[t].mem)
              /\ MaySaveTransfer(xfer[t], MarkedReversed(saga[t].mem))
    BY <1>14 DEF SagaReverse, Goto, TypeOK
  <2>2. saga[t].pc = "reverse" /\ saga[t].mem \in InFlight
    BY <1>1, <1>14 DEF SagaReverse, CatchSteps
  <2>3. CASE xfer'[t] = xfer[t]
    BY <1>1, <1>2, <2>1, <2>2, <2>3 DEF CatchSteps
  <2>4. CASE xfer'[t] # xfer[t]
    <3>1. ~Terminal(xfer[t]) /\ xfer'[t] = MarkedReversed(xfer[t])
      BY <1>14, <2>4, ReverseIsCurrent
    <3>2. /\ xfer'[t].status = "REVERSED" /\ xfer'[t].ref = xfer[t].ref
          /\ xfer'[t].version > xfer[t].version
      BY <1>3, <3>1 DEF MarkedReversed, Marked
    <3> QED BY <1>1, <1>2, <2>1, <2>2, <3>1, <3>2 DEF CatchSteps, Terminal, TerminalStatuses
  <2> QED BY <2>3, <2>4
<1>15. ASSUME SagaError(t) PROVE Goal
  <2>1. saga[t].pc # "pay"
    BY <1>15 DEF SagaError
  <2>2. /\ saga'[t].mem = saga[t].mem
        /\ \/ saga'[t].pc = "dead"
           \/ saga'[t].pc = "reload" /\ saga[t].pc \in {"settle", "save"}
    BY <1>15, <2>1 DEF SagaError, Goto, TypeOK, TrySteps
  <2> QED BY <2>2, <1>1, <1>2, <1>15, <2>1 DEF SagaError, CatchSteps, InFlight
<1>16. ASSUME SagaCrash(t) PROVE Goal
  BY <1>1, <1>2, <1>16 DEF SagaCrash, Goto, TypeOK, CatchSteps
<1>17. Goal
  BY <1>4, <1>5, <1>6, <1>7, <1>8, <1>9, <1>10, <1>11, <1>12, <1>13, <1>14, <1>15, <1>16
     DEF AnySagaStep, SagaStep
<1> QED BY <1>17, SagaKeepsHooks

\* A webhook step leaves intact what the saga of its transfer knows: by then
\* the provider's reference is stored and the saga is past its try section.
LEMMA SagaKept ==
  ASSUME TypeOK, TypeOK', XInv, NEW t \in Transfers, saga' = saga,
         refunds'[t] >= refunds[t],
         \/ xfer'[t] = xfer[t] /\ journal'[t] = journal[t] /\ payout'[t] = payout[t]
         \/ /\ xfer[t].ref
            /\ xfer'[t] = xfer[t] \/ xfer'[t].version > xfer[t].version
  PROVE  SagaKnows(t)'
<1>1. /\ SagaKnows(t) /\ refunds[t] \in Nat /\ refunds'[t] \in Nat
      /\ xfer[t] \in TransferRow /\ xfer'[t] \in TransferRow
  BY DEF XInv, TypeOK
<1>2. CASE xfer'[t] = xfer[t] /\ journal'[t] = journal[t] /\ payout'[t] = payout[t]
  BY <1>1, <1>2 DEF SagaKnows
<1>3. CASE xfer[t].ref /\ (xfer'[t] = xfer[t] \/ xfer'[t].version > xfer[t].version)
  <2>1. saga[t] \in SagaRec
    BY DEF TypeOK, SagaRec
  <2>2. saga[t].mem.version \in Nat /\ xfer[t].version \in Nat /\ xfer'[t].version \in Nat
    BY <1>1, <2>1 DEF SagaRec, TransferRow
  <2>3. xfer[t] # NoTransfer /\ xfer[t] # Initiated
    BY <1>3 DEF NoTransfer, Initiated
  <2>4. saga[t].pc \in CatchSteps =>
          saga[t].mem \in InFlight
          /\ (xfer'[t] = saga[t].mem \/ xfer'[t].version > saga[t].mem.version)
    BY <1>1, <1>3, <2>2, <2>3 DEF SagaKnows
  <2> QED BY <1>1, <2>3, <2>4 DEF SagaKnows
<1> QED BY <1>2, <1>3

\* The conclusion common to all webhook steps.
LEMMA HookKeepsOthers ==
  ASSUME TypeOK, TypeOK', XInv, NEW h \in Hooks, NEW t \in Transfers, Elsewhere(t),
         \A g \in Hooks \ {h} : hook'[g] = hook[g],
         HooksKeep(t), SagaKnows(t)', RowKnows(t)', RightAt(t)', HookKnows(h)',
         HookAt(h, "postSettlement")' => xfer[t].status # "SUCCESSFUL" /\ hook'[h].t = t
  PROVE  XInv'
<1>1. \A u \in Transfers : SagaKnows(u)' /\ RowKnows(u)' /\ RightAt(u)'
  BY ElsewhereKeeps
<1>2. \A g \in Hooks : HookKnows(g)'
  BY HookKept
<1>3. OneSettles'
  BY DEF XInv, OneSettles, HookAt, HookKnows
<1> QED BY <1>1, <1>2, <1>3 DEF XInv

\* A webhook's row that passes the version test is the stored one.
LEMMA HookSaveIsCurrent ==
  ASSUME TypeOK, XInv, NEW h \in Hooks, NEW t \in Transfers, hook[h].t = t, NEW s,
         MaySaveTransfer(xfer[t], Marked(hook[h].row, s)),
         hook[h].pc \in {"confirm", "reverse"}
  PROVE  hook[h].row = xfer[t] /\ ~Terminal(xfer[t]) /\ xfer[t].status # "NONE"
<1>1. hook[h] \in HookRec /\ xfer[t] \in TransferRow
  BY DEF TypeOK, HookRec
<1>2. hook[h].row.version \in Nat /\ xfer[t].version \in Nat
  BY <1>1 DEF HookRec, TransferRow
<1>3. xfer[t].status # "NONE"
  BY DEF XInv, HookKnows, RowKnows
<1>4. xfer[t].version = hook[h].row.version
  BY <1>2, <1>3 DEF MaySaveTransfer, Marked
<1> QED BY <1>3, <1>4 DEF XInv, HookKnows, RowsBehind

LEMMA HookXInv ==
  ASSUME TypeOK, TypeOK', XInv, NEW h \in Hooks, NEW t \in Transfers, hook[h].t = t,
         HookStep(h) \/ HookFault(h)
  PROVE  XInv'
<1> DEFINE row == hook[h].row
           x == xfer[t]
<1>1. hook[h] \in HookRec
  BY DEF TypeOK, HookRec
<1>2. t \in Transfers /\ row \in TransferRow /\ x \in TransferRow
  BY <1>1 DEF HookRec, TypeOK
<1>3. row.version \in Nat /\ x.version \in Nat /\ refunds[t] \in Nat
        /\ journal[t] \in [Entries -> Nat]
  BY <1>2 DEF TypeOK, TransferRow
<1>4. HookKnows(h) /\ RowKnows(t) /\ RightAt(t)
  BY <1>2 DEF XInv
<1>5. x.ref
  <2>1. hook[h].pc # "idle"
    BY DEF HookStep, HookFault, HookConfirm, HookPostSettlement, HookReload, HookRefund,
       HookPostReversal, HookReverse, HookAt
  <2> QED BY <1>4, <2>1 DEF HookKnows
<1>6. ASSUME MaySaveTransfer(x, Marked(row, "SUCCESSFUL")) \/ MaySaveTransfer(x, Marked(row, "REVERSED")),
             hook[h].pc \in {"confirm", "reverse"}
      PROVE  row = x /\ ~Terminal(x)
  BY <1>6, HookSaveIsCurrent
<1>7. CASE HookReload(h) \/ HookFault(h)
  <2>1. /\ xfer' = xfer /\ journal' = journal /\ payout' = payout /\ refunds' = refunds
        /\ saga' = saga
    BY <1>7 DEF HookReload, HookFault
  <2>2. Elsewhere(t) /\ HooksKeep(t) /\ RowKnows(t)' /\ RightAt(t)'
    BY <1>2, <1>3, <1>4, <2>1 DEF Elsewhere, HooksKeep, RowKnows, RightAt
  <2>3. SagaKnows(t)'
    BY <1>2, <1>3, <2>1, SagaKept
  <2>4. /\ \A g \in Hooks \ {h} : hook'[g] = hook[g]
        /\ \/ hook'[h].pc = "idle"
           \/ /\ hook[h].pc = "reload" /\ hook'[h].pc = "refund"
              /\ hook'[h].t = t /\ hook'[h].row = row
    BY <1>7, NoHookType DEF HookReload, HookFault, HookDone, HookAt, TypeOK
  <2>5. HookKnows(h)'
    BY <1>4, <2>1, <2>4 DEF HookKnows, RowsBehind
  <2> QED BY <1>2, <2>2, <2>3, <2>4, <2>5, HookKeepsOthers DEF HookAt
<1>8. CASE HookConfirm(h)
  <2>1. /\ journal' = journal /\ payout' = payout /\ refunds' = refunds /\ saga' = saga
        /\ hook[h].pc = "confirm" /\ payout[t] = "paid"
    BY <1>4, <1>8 DEF HookConfirm, HookAt, HookKnows
  <2>2. CASE ~MaySaveTransfer(x, Marked(row, "SUCCESSFUL"))
    <3>1. xfer' = xfer /\ hook' = [hook EXCEPT ![h] = NoHook]
      BY <1>8, <2>2 DEF HookConfirm, HookDone, MarkedSuccessful
    <3>2. Elsewhere(t) /\ HooksKeep(t) /\ RowKnows(t)' /\ RightAt(t)'
      BY <1>2, <1>3, <1>4, <2>1, <3>1 DEF Elsewhere, HooksKeep, RowKnows, RightAt
    <3>3. SagaKnows(t)'
      BY <1>2, <1>3, <2>1, <3>1, SagaKept
    <3>4. hook'[h].pc = "idle" /\ \A g \in Hooks \ {h} : hook'[g] = hook[g]
      BY <3>1, NoHookType DEF TypeOK
    <3>5. HookKnows(h)'
      BY <3>4 DEF HookKnows, RowsBehind
    <3> QED BY <1>2, <3>2, <3>3, <3>4, <3>5, HookKeepsOthers DEF HookAt
  <2>3. CASE MaySaveTransfer(x, Marked(row, "SUCCESSFUL"))
    <3>1. row = x /\ ~Terminal(x)
      BY <1>6, <2>1, <2>3
    <3>2. /\ xfer' = [xfer EXCEPT ![t] = Marked(row, "SUCCESSFUL")]
          /\ hook'[h].pc = "postSettlement" /\ hook'[h].t = t
          /\ \A g \in Hooks \ {h} : hook'[g] = hook[g]
      BY <1>8, <2>3 DEF HookConfirm, HookGoto, MarkedSuccessful, TypeOK
    <3>3. /\ xfer'[t].status = "SUCCESSFUL" /\ xfer'[t].ref /\ xfer'[t].version = x.version + 1
          /\ x.status # "SUCCESSFUL"
      BY <1>2, <1>5, <3>1, <3>2 DEF Marked, Terminal, TerminalStatuses, TypeOK
    <3>4. Elsewhere(t) /\ HooksKeep(t) /\ RowKnows(t)' /\ RightAt(t)'
      BY <1>2, <1>3, <1>4, <1>5, <2>1, <3>1, <3>2, <3>3
         DEF Elsewhere, HooksKeep, RowKnows, RightAt, TypeOK
    <3>5. SagaKnows(t)'
      BY <1>2, <1>3, <1>5, <2>1, <3>3, SagaKept
    <3>6. HookKnows(h)'
      BY <1>4, <1>5, <2>1, <3>2, <3>3 DEF HookKnows, RowsBehind, RowKnows
    <3> QED BY <1>2, <3>2, <3>3, <3>4, <3>5, <3>6, HookKeepsOthers DEF HookAt
  <2> QED BY <2>2, <2>3
<1>9. CASE HookPostSettlement(h)
  <2>1. /\ xfer' = xfer /\ payout' = payout /\ refunds' = refunds /\ saga' = saga
        /\ hook[h].pc = "postSettlement" /\ hook'[h].pc = "idle"
        /\ \A g \in Hooks \ {h} : hook'[g] = hook[g]
        /\ \A u \in Transfers \ {t} : journal'[u] = journal[u]
        /\ journal'[t]["settle"] = journal[t]["settle"] + 1
        /\ journal'[t]["hold"] = journal[t]["hold"]
    BY <1>2, <1>9, NoHookType
       DEF HookPostSettlement, HookAt, HookDone, Post, TypeOK, Entries
  <2>2. x.status = "SUCCESSFUL" /\ journal[t]["settle"] = 0
    BY <1>4, <2>1 DEF HookKnows
  <2>3. Elsewhere(t) /\ RowKnows(t)' /\ RightAt(t)'
    BY <1>3, <1>4, <2>1, <2>2 DEF Elsewhere, RowKnows, RightAt
  <2>4. SagaKnows(t)'
    BY <1>2, <1>3, <1>5, <2>1, SagaKept
  <2>5. ASSUME NEW g \in Hooks PROVE HookKnows(g)'
    <3>1. hook[g] \in HookRec
      BY DEF TypeOK, HookRec
    <3>2. hook[g].t \in Transfers
      BY <3>1 DEF HookRec
    <3>3. HookAt(g, "postSettlement") /\ hook[g].t = t => g = h
      BY <2>1 DEF XInv, OneSettles, HookAt
    <3> QED BY <2>1, <2>3, <3>2, <3>3 DEF XInv, HookKnows, RowsBehind, HookAt
  <2>6. OneSettles'
    BY <2>1 DEF XInv, OneSettles, HookAt
  <2> QED BY <1>2, <2>3, <2>4, <2>5, <2>6, ElsewhereKeeps DEF XInv
<1>10. CASE HookRefund(h)
  <2>1. /\ xfer' = xfer /\ journal' = journal /\ payout' = payout /\ saga' = saga
        /\ hook[h].pc = "refund"
        /\ \A g \in Hooks \ {h} : hook'[g] = hook[g]
        /\ \A u \in Transfers \ {t} : refunds'[u] = refunds[u]
        /\ \/ hook'[h].pc = "idle" /\ refunds'[t] = refunds[t]
           \/ /\ hook'[h].pc = "postReversal" /\ refunds'[t] = refunds[t] + 1
              /\ hook'[h].t = t /\ hook'[h].row = row
    BY <1>2, <1>10, NoHookType DEF HookRefund, HookAt, HookDone, HookGoto, TypeOK
  <2>2. Elsewhere(t) /\ HooksKeep(t) /\ RowKnows(t)' /\ RightAt(t)'
    BY <1>3, <1>4, <2>1 DEF Elsewhere, HooksKeep, RowKnows, RightAt
  <2>3. SagaKnows(t)'
    BY <1>2, <1>3, <2>1, SagaKept
  <2>4. HookKnows(h)'
    BY <1>3, <1>4, <2>1 DEF HookKnows, RowsBehind
  <2> QED BY <1>2, <2>1, <2>2, <2>3, <2>4, HookKeepsOthers DEF HookAt
<1>11. CASE HookPostReversal(h)
  <2>1. /\ xfer' = xfer /\ payout' = payout /\ refunds' = refunds /\ saga' = saga
        /\ hook[h].pc = "postReversal" /\ hook'[h].pc = "reverse"
        /\ hook'[h].t = t /\ hook'[h].row = row
        /\ \A g \in Hooks \ {h} : hook'[g] = hook[g]
        /\ \A u \in Transfers \ {t} : journal'[u] = journal[u]
        /\ journal'[t]["settle"] = journal[t]["settle"]
        /\ journal'[t]["hold"] = journal[t]["hold"]
    BY <1>2, <1>11 DEF HookPostReversal, HookAt, HookGoto, Post, TypeOK, Entries
  <2>2. Elsewhere(t) /\ HooksKeep(t) /\ RowKnows(t)' /\ RightAt(t)'
    BY <1>3, <1>4, <2>1 DEF Elsewhere, HooksKeep, RowKnows, RightAt
  <2>3. SagaKnows(t)'
    BY <1>2, <1>3, <1>5, <2>1, SagaKept
  <2>4. HookKnows(h)'
    BY <1>4, <2>1 DEF HookKnows, RowsBehind
  <2> QED BY <1>2, <2>1, <2>2, <2>3, <2>4, HookKeepsOthers DEF HookAt
<1>12. CASE HookReverse(h)
  <2>1. /\ journal' = journal /\ payout' = payout /\ refunds' = refunds /\ saga' = saga
        /\ hook[h].pc = "reverse" /\ refunds[t] >= 1
        /\ hook'[h].pc = "idle" /\ \A g \in Hooks \ {h} : hook'[g] = hook[g]
    BY <1>4, <1>12, NoHookType DEF HookReverse, HookAt, HookKnows, HookDone, TypeOK
  <2>2. HookKnows(h)'
    BY <2>1 DEF HookKnows, RowsBehind
  <2>3. CASE ~MaySaveTransfer(x, Marked(row, "REVERSED"))
    <3>1. xfer' = xfer
      BY <1>12, <2>3 DEF HookReverse, MarkedReversed
    <3>2. Elsewhere(t) /\ HooksKeep(t) /\ RowKnows(t)' /\ RightAt(t)'
      BY <1>2, <1>3, <1>4, <2>1, <3>1 DEF Elsewhere, HooksKeep, RowKnows, RightAt
    <3>3. SagaKnows(t)'
      BY <1>2, <1>3, <2>1, <3>1, SagaKept
    <3> QED BY <1>2, <2>1, <2>2, <3>2, <3>3, HookKeepsOthers DEF HookAt
  <2>4. CASE MaySaveTransfer(x, Marked(row, "REVERSED"))
    <3>1. row = x /\ ~Terminal(x)
      BY <1>6, <2>1, <2>4
    <3>2. xfer' = [xfer EXCEPT ![t] = Marked(row, "REVERSED")]
      BY <1>12, <2>4 DEF HookReverse, MarkedReversed
    <3>3. /\ xfer'[t].status = "REVERSED" /\ xfer'[t].ref /\ xfer'[t].version = x.version + 1
          /\ x.status # "SUCCESSFUL"
      BY <1>2, <1>5, <3>1, <3>2 DEF Marked, Terminal, TerminalStatuses, TypeOK
    <3>4. Elsewhere(t) /\ HooksKeep(t) /\ RowKnows(t)' /\ RightAt(t)'
      BY <1>2, <1>3, <1>4, <1>5, <2>1, <3>1, <3>2, <3>3
         DEF Elsewhere, HooksKeep, RowKnows, RightAt, TypeOK
    <3>5. SagaKnows(t)'
      BY <1>2, <1>3, <1>5, <2>1, <3>3, SagaKept
    <3> QED BY <1>2, <2>1, <2>2, <3>4, <3>5, HookKeepsOthers DEF HookAt
  <2> QED BY <2>3, <2>4
<1> QED BY <1>7, <1>8, <1>9, <1>10, <1>11, <1>12 DEF HookStep

LEMMA DeliverXInv ==
  ASSUME TypeOK, TypeOK', XInv, NEW h \in Hooks, NEW t \in Transfers, Deliver(h, t)
  PROVE  XInv'
<1>1. /\ xfer' = xfer /\ journal' = journal /\ payout' = payout /\ refunds' = refunds
      /\ saga' = saga /\ payout[t] \in {"paid", "failed"} /\ xfer[t].ref /\ ~Terminal(xfer[t])
      /\ \A g \in Hooks \ {h} : hook'[g] = hook[g]
      /\ hook'[h].t = t /\ hook'[h].row = xfer[t]
      /\ hook'[h].pc = IF payout[t] = "paid" THEN "confirm" ELSE "reload"
  BY DEF Deliver, Found, FirstStep, TypeOK
<1>2. xfer[t] \in TransferRow /\ refunds[t] \in Nat
  BY DEF TypeOK
<1>3. Elsewhere(t) /\ HooksKeep(t) /\ RowKnows(t)' /\ RightAt(t)'
  BY <1>1, <1>2 DEF XInv, Elsewhere, HooksKeep, RowKnows, RightAt
<1>4. SagaKnows(t)'
  BY <1>1, <1>2, SagaKept
<1>5. HookKnows(h)'
  BY <1>1, <1>2 DEF HookKnows, RowsBehind, TransferRow
<1> QED BY <1>1, <1>3, <1>4, <1>5, HookKeepsOthers DEF HookAt

LEMMA ProviderXInv ==
  ASSUME TypeOK, TypeOK', XInv, NEW t \in Transfers, ProviderResolves(t)
  PROVE  XInv'
<1>1. /\ xfer' = xfer /\ journal' = journal /\ refunds' = refunds /\ saga' = saga
      /\ hook' = hook /\ payout[t] = "accepted" /\ payout'[t] \in {"paid", "failed"}
      /\ \A u \in Transfers \ {t} : payout'[u] = payout[u]
  BY DEF ProviderResolves, TypeOK
<1>2. SagaKnows(t) /\ RowKnows(t) /\ RightAt(t) /\ refunds[t] \in Nat
  BY DEF XInv, TypeOK
<1>3. Elsewhere(t) /\ HooksKeep(t) /\ RowKnows(t)' /\ RightAt(t)'
  BY <1>1, <1>2 DEF Elsewhere, HooksKeep, RowKnows, RightAt
<1>4. SagaKnows(t)'
  BY <1>1, <1>2 DEF SagaKnows
<1>5. \A u \in Transfers : SagaKnows(u)' /\ RowKnows(u)' /\ RightAt(u)'
  BY <1>3, <1>4, ElsewhereKeeps
<1>6. \A h \in Hooks : HookKnows(h)'
  BY <1>1, <1>3, HookKept
<1>7. OneSettles'
  BY <1>1 DEF XInv, OneSettles, HookAt
<1> QED BY <1>5, <1>6, <1>7 DEF XInv

LEMMA XInvNext == TypeOK /\ XInv /\ [Next]_vars => XInv'
<1> SUFFICES ASSUME TypeOK, XInv, [Next]_vars PROVE XInv'
  OBVIOUS
<1>1. TypeOK'
  BY TypeNext
<1>2. CASE UNCHANGED <<xfer, journal, payout, refunds, saga, hook>>
  <2>1. \A t \in Transfers : SagaKnows(t)' /\ RowKnows(t)' /\ RightAt(t)'
    BY <1>2 DEF XInv, SagaKnows, RowKnows, RightAt
  <2>2. \A h \in Hooks : HookKnows(h)'
    BY <1>2 DEF XInv, HookKnows, RowsBehind
  <2>3. OneSettles'
    BY <1>2 DEF XInv, OneSettles, HookAt
  <2> QED BY <2>1, <2>2, <2>3 DEF XInv
<1>3. CASE UNCHANGED vars
  BY <1>2, <1>3 DEF vars
<1>4. ASSUME NEW t \in Transfers, AnySagaStep(t) PROVE XInv'
  BY <1>1, <1>4, SagaXInv
<1>5. ASSUME NEW t \in Transfers, ProviderResolves(t) PROVE XInv'
  BY <1>1, <1>5, ProviderXInv
<1>6. ASSUME NEW h \in Hooks, AnyHookStep(h) PROVE XInv'
  <2>1. hook[h] \in HookRec
    BY DEF TypeOK, HookRec
  <2>2. hook[h].t \in Transfers
    BY <2>1 DEF HookRec
  <2>3. CASE HookStep(h) \/ HookFault(h)
    BY <1>1, <2>2, <2>3, HookXInv
  <2> QED BY <1>1, <1>6, <2>3, DeliverXInv DEF AnyHookStep
<1>7. CASE OtherStep
  BY <1>2, <1>7, OtherIsBooked
<1> QED BY <1>3, <1>4, <1>5, <1>6, <1>7, NextCases

-----------------------------------------------------------------------------
(***************************************************************************)
(* The theorems.                                                           *)
(***************************************************************************)

\* IInv is an invariant: it holds initially and every step keeps it.
THEOREM Inductive == Spec => []IInv
<1>1. Init => IInv
  BY TypeInit, AInvInit, XInvInit DEF IInv
<1>2. IInv /\ [Next]_vars => IInv'
  BY TypeNext, AInvNext, XInvNext DEF IInv
<1> QED BY <1>1, <1>2, PTL DEF Spec

\* A transfer shown as REVERSED has had its money returned.
THEOREM ReversedMeansRefunded == Spec => []ReversedIsRefunded
<1>1. IInv => ReversedIsRefunded
  BY DEF IInv, XInv, RightAt, ReversedIsRefunded
<1> QED BY <1>1, Inductive, PTL

\* A transfer shown as SUCCESSFUL was paid out by the provider.
THEOREM SuccessfulMeansPaid == Spec => []SuccessfulIsPaid
<1>1. IInv => SuccessfulIsPaid
  BY DEF IInv, XInv, RightAt, SuccessfulIsPaid
<1> QED BY <1>1, Inductive, PTL

\* However often a webhook is delivered, concurrently or not, and wherever a
\* handler crashes, the settlement of a transfer is posted at most once.
THEOREM SettlementIsUnique == Spec => []SettledOnce
<1>1. IInv => SettledOnce
  BY DEF IInv, XInv, RightAt, SettledOnce
<1> QED BY <1>1, Inductive, PTL

\* The provider never holds a payout without a stored transfer and its hold.
THEOREM PayoutsAreCovered == Spec => []PayoutIsCovered
<1>1. IInv => PayoutIsCovered
  BY DEF IInv, XInv, RightAt, PayoutIsCovered
<1> QED BY <1>1, Inductive, PTL

-----------------------------------------------------------------------------
LEMMA EdgeStep ==
  ASSUME TypeOK, XInv, [Next]_vars, NEW u \in Transfers, xfer'[u].status # xfer[u].status
  PROVE  <<xfer[u].status, xfer'[u].status>> \in Edges
<1>1. xfer[u] \in TransferRow /\ xfer'[u] # xfer[u]
  BY DEF TypeOK
\* A row that is neither missing nor terminal is PENDING or PROCESSING.
<1>2. ~Terminal(xfer[u]) => xfer[u].status \in {"PENDING", "PROCESSING", "NONE"}
  BY <1>1 DEF TransferRow, TransactionStatus, Terminal, TerminalStatuses
<1>3. ASSUME NEW t \in Transfers, AnySagaStep(t) PROVE <<xfer[u].status, xfer'[u].status>> \in Edges
  <2>1. t = u
    BY <1>1, <1>3, SagaElsewhere DEF Elsewhere
  <2>2. SagaRecord(u) \/ SagaSave(u) \/ SagaSaveLost(u) \/ SagaReverse(u)
    BY <1>1, <1>3, <2>1 DEF AnySagaStep, SagaStep, SagaLoad, SagaRefuse, SagaDebit, SagaHold,
       SagaPay, SagaSettle, SagaReload, SagaRefund, SagaPostReversal, SagaPayTimeout,
       SagaError, SagaCrash
  <2>3. CASE SagaRecord(u)
    BY <2>3 DEF SagaRecord, XInv, SagaKnows, SagaAt, NoTransfer, Initiated, Edges, TypeOK
  <2>4. CASE SagaSave(u) \/ SagaSaveLost(u)
    <3>1. saga[u].pc = "save" /\ SagaKnows(u)
      BY <2>4 DEF SagaSave, SagaSaveLost, SagaAt, XInv
    <3>2. xfer[u] = Initiated
            /\ saga[u].mem \in {MarkedProcessing(Initiated), MarkedSuccessful(Initiated)}
      BY <3>1 DEF SagaKnows
    <3>3. xfer'[u] = saga[u].mem
      BY <1>1, <2>4 DEF SagaSave, SagaSaveLost, TypeOK
    <3> QED BY <3>2, <3>3 DEF MarkedProcessing, MarkedSuccessful, Marked, Initiated, Edges
  <2>5. CASE SagaReverse(u)
    <3>0. ~Terminal(xfer[u]) /\ xfer'[u] = MarkedReversed(xfer[u])
      BY <1>1, <2>5, ReverseIsCurrent
    <3>1. ~Terminal(xfer[u]) /\ xfer'[u].status = "REVERSED"
      BY <3>0 DEF MarkedReversed, Marked
    <3>2. xfer[u].status # "NONE"
      <4>1. saga[u].mem \in InFlight /\ (xfer[u] = Initiated \/ xfer[u] = saga[u].mem
              \/ xfer[u].version > saga[u].mem.version)
        BY <2>5 DEF SagaReverse, XInv, SagaKnows, SagaAt, CatchSteps
      <4>2. saga[u].mem.version \in {0, 1} /\ saga[u].mem.status # "NONE" /\ Initiated.status # "NONE"
        BY <4>1 DEF InFlight, Initiated, MarkedProcessing, MarkedSuccessful, Marked
      <4> QED BY <1>1, <4>1, <4>2 DEF XInv, RowKnows, TransferRow
    <3> QED BY <1>2, <3>1, <3>2 DEF Edges
  <2> QED BY <2>2, <2>3, <2>4, <2>5
<1>4. ASSUME NEW h \in Hooks, AnyHookStep(h) PROVE <<xfer[u].status, xfer'[u].status>> \in Edges
  <2>1. HookConfirm(h) \/ HookReverse(h)
    BY <1>1, <1>4 DEF AnyHookStep, HookStep, HookFault, Deliver, HookPostSettlement,
       HookReload, HookRefund, HookPostReversal
  <2>2. hook[h].t = u
    BY <1>1, <2>1 DEF HookConfirm, HookReverse, TypeOK
  <2>3. CASE HookConfirm(h)
    <3>1. /\ MaySaveTransfer(xfer[u], Marked(hook[h].row, "SUCCESSFUL"))
          /\ xfer'[u] = Marked(hook[h].row, "SUCCESSFUL") /\ hook[h].pc = "confirm"
      BY <1>1, <2>2, <2>3 DEF HookConfirm, HookAt, MarkedSuccessful, TypeOK
    <3>2. ~Terminal(xfer[u]) /\ xfer[u].status # "NONE" /\ xfer'[u].status = "SUCCESSFUL"
      BY <2>2, <3>1, HookSaveIsCurrent DEF Marked
    <3> QED BY <1>2, <3>2 DEF Edges
  <2>4. CASE HookReverse(h)
    <3>1. /\ MaySaveTransfer(xfer[u], Marked(hook[h].row, "REVERSED"))
          /\ xfer'[u] = Marked(hook[h].row, "REVERSED") /\ hook[h].pc = "reverse"
      BY <1>1, <2>2, <2>4 DEF HookReverse, HookAt, MarkedReversed, TypeOK
    <3>2. ~Terminal(xfer[u]) /\ xfer[u].status # "NONE" /\ xfer'[u].status = "REVERSED"
      BY <2>2, <3>1, HookSaveIsCurrent DEF Marked
    <3> QED BY <1>2, <3>2 DEF Edges
  <2> QED BY <2>1, <2>3, <2>4
<1>5. CASE UNCHANGED vars
  BY <1>1, <1>5 DEF vars
<1>6. ASSUME NEW t \in Transfers, ProviderResolves(t) PROVE FALSE
  BY <1>1, <1>6 DEF ProviderResolves
<1>7. CASE OtherStep
  BY <1>1, <1>7, OtherIsBooked
<1> QED BY <1>3, <1>4, <1>5, <1>6, <1>7, NextCases

\* A terminal transfer stays as it is, and no transfer goes backwards.
THEOREM StatusesFollowEdges == Spec => StatusFollowsEdges
<1>1. IInv /\ [Next]_vars =>
        [\A t \in Transfers : xfer'[t].status # xfer[t].status =>
           <<xfer[t].status, xfer'[t].status>> \in Edges]_vars
  BY EdgeStep DEF IInv
<1> QED BY <1>1, Inductive, PTL DEF Spec, StatusFollowsEdges

-----------------------------------------------------------------------------
(***************************************************************************)
(* A reversal is journalled only after its credit: the credits of a        *)
(* transfer outnumber the postings by at least the handlers that have      *)
(* credited and not yet posted.                                            *)
(***************************************************************************)
Posting(t) == {h \in Hooks : hook[h].pc = "postReversal" /\ hook[h].t = t}
SagaPosting(t) == IF saga[t].pc = "postReversal" THEN 1 ELSE 0

BackedAt(t) ==
  /\ IsFiniteSet(Posting(t))
  /\ journal[t]["reverse"] + Cardinality(Posting(t)) + SagaPosting(t) <= refunds[t]

Backed == \A t \in Transfers : BackedAt(t)

\* How one step moves the count of transfer t, h being the handler that takes it.
NoPost(t, h) ==
  /\ journal'[t]["reverse"] = journal[t]["reverse"] /\ refunds'[t] = refunds[t]
  /\ Posting(t)' = Posting(t) \/ Posting(t)' = Posting(t) \ {h}
  /\ SagaPosting(t)' = SagaPosting(t) \/ SagaPosting(t)' = 0
HookCredits(t, h) ==
  /\ journal'[t]["reverse"] = journal[t]["reverse"] /\ refunds'[t] = refunds[t] + 1
  /\ Posting(t)' = Posting(t) \cup {h} /\ SagaPosting(t)' = SagaPosting(t)
HookPosts(t, h) ==
  /\ journal'[t]["reverse"] = journal[t]["reverse"] + 1 /\ refunds'[t] = refunds[t]
  /\ h \in Posting(t) /\ Posting(t)' = Posting(t) \ {h} /\ SagaPosting(t)' = SagaPosting(t)
SagaCredits(t) ==
  /\ journal'[t]["reverse"] = journal[t]["reverse"] /\ refunds'[t] = refunds[t] + 1
  /\ Posting(t)' = Posting(t) /\ SagaPosting(t)' <= SagaPosting(t) + 1
SagaPosts(t) ==
  /\ journal'[t]["reverse"] = journal[t]["reverse"] + 1 /\ refunds'[t] = refunds[t]
  /\ Posting(t)' = Posting(t) /\ SagaPosting(t) = 1 /\ SagaPosting(t)' = 0

LEMMA CountKept ==
  ASSUME TypeOK, TypeOK', NEW t \in Transfers, BackedAt(t), NEW h,
         NoPost(t, h) \/ HookCredits(t, h) \/ HookPosts(t, h) \/ SagaCredits(t) \/ SagaPosts(t)
  PROVE  BackedAt(t)'
<1> DEFINE P == Posting(t)
           Q == Posting(t)'
           a == SagaPosting(t)
           b == SagaPosting(t)'
<1>1. /\ journal[t]["reverse"] \in Nat /\ journal'[t]["reverse"] \in Nat
      /\ refunds[t] \in Nat /\ refunds'[t] \in Nat
  BY DEF TypeOK, Entries
<1>2. a \in 0..1 /\ b \in 0..1
  BY DEF SagaPosting
<1>3. IsFiniteSet(P) /\ journal[t]["reverse"] + Cardinality(P) + a <= refunds[t]
  BY DEF BackedAt
<1> HIDE DEF P, Q, a, b
<1>4. Cardinality(P) \in Nat
  BY <1>3, FS_CardinalityType
<1>5. /\ IsFiniteSet(P \ {h})
      /\ Cardinality(P \ {h}) = IF h \in P THEN Cardinality(P) - 1 ELSE Cardinality(P)
  BY <1>3, FS_RemoveElement
<1>6. /\ IsFiniteSet(P \cup {h})
      /\ Cardinality(P \cup {h}) = IF h \in P THEN Cardinality(P) ELSE Cardinality(P) + 1
  BY <1>3, FS_AddElement
<1>7. IsFiniteSet(Q) /\ journal'[t]["reverse"] + Cardinality(Q) + b <= refunds'[t]
  <2>1. CASE NoPost(t, h)
    <3>1. /\ journal'[t]["reverse"] = journal[t]["reverse"] /\ refunds'[t] = refunds[t]
          /\ (Q = P \/ Q = P \ {h}) /\ (b = a \/ b = 0)
      BY <2>1 DEF NoPost, P, Q, a, b
    <3>2. IsFiniteSet(Q) /\ Cardinality(Q) \in Nat /\ Cardinality(Q) <= Cardinality(P)
      <4>1. CASE Q = P
        BY <1>3, <1>4, <4>1
      <4>2. CASE Q = P \ {h}
        BY <1>4, <1>5, <4>2, FS_CardinalityType
      <4> QED BY <3>1, <4>1, <4>2
    <3> QED BY <1>1, <1>2, <1>3, <1>4, <3>1, <3>2
  <2>2. CASE HookCredits(t, h)
    BY <1>1, <1>2, <1>3, <1>4, <1>6, <2>2 DEF HookCredits, P, Q, a, b
  <2>3. CASE HookPosts(t, h)
    BY <1>1, <1>2, <1>3, <1>4, <1>5, <2>3 DEF HookPosts, P, Q, a, b
  <2>4. CASE SagaCredits(t)
    BY <1>1, <1>2, <1>3, <1>4, <2>4 DEF SagaCredits, P, Q, a, b
  <2>5. CASE SagaPosts(t)
    BY <1>1, <1>2, <1>3, <1>4, <2>5 DEF SagaPosts, P, Q, a, b
  <2> QED BY <2>1, <2>2, <2>3, <2>4, <2>5
<1> QED BY <1>7 DEF BackedAt, Q, b

LEMMA SagaCounts ==
  ASSUME TypeOK, NEW t \in Transfers, AnySagaStep(t), NEW h
  PROVE  NoPost(t, h) \/ SagaCredits(t) \/ SagaPosts(t)
<1>1. hook' = hook
  BY SagaElsewhere
<1>2. Posting(t)' = Posting(t)
  BY <1>1 DEF Posting
<1>3. journal[t] \in [Entries -> Nat] /\ SagaPosting(t) \in 0..1 /\ SagaPosting(t)' \in 0..1
  BY DEF TypeOK, SagaPosting
<1>4. ASSUME NEW pc, NEW mem, Goto(t, pc, mem) PROVE saga'[t].pc = pc
  BY <1>4 DEF Goto, TypeOK
<1>5. ASSUME NEW pc, LoadInto(t, pc) PROVE saga'[t].pc = pc
  BY <1>5 DEF LoadInto, TypeOK
<1>6. CASE SagaRefund(t)
  <2>1. /\ journal'[t] = journal[t]
        /\ \/ refunds'[t] = refunds[t] + 1
           \/ refunds'[t] = refunds[t] /\ saga'[t].pc = "dead"
    BY <1>4, <1>6 DEF SagaRefund, TypeOK
  <2> QED BY <1>2, <1>3, <2>1 DEF NoPost, SagaCredits, SagaPosting
<1>7. CASE SagaPostReversal(t)
  <2>1. /\ journal'[t]["reverse"] = journal[t]["reverse"] + 1 /\ refunds'[t] = refunds[t]
        /\ saga[t].pc = "postReversal" /\ saga'[t].pc = "reverse"
    BY <1>4, <1>7 DEF SagaPostReversal, SagaAt, Post, TypeOK, Entries
  <2> QED BY <1>2, <1>3, <2>1 DEF SagaPosts, SagaPosting
<1>8. CASE SagaHold(t) \/ SagaSettle(t)
  <2>1. /\ journal'[t]["reverse"] = journal[t]["reverse"] /\ refunds'[t] = refunds[t]
        /\ saga'[t].pc # "postReversal"
    BY <1>4, <1>8 DEF SagaHold, SagaSettle, Post, TypeOK, Entries
  <2> QED BY <1>2, <2>1 DEF NoPost, SagaPosting
<1>9. CASE SagaLoad(t) \/ SagaRefuse(t) \/ SagaDebit(t) \/ SagaRecord(t) \/ SagaPay(t)
             \/ SagaSave(t) \/ SagaReload(t) \/ SagaReverse(t)
  <2>1. journal'[t] = journal[t] /\ refunds'[t] = refunds[t] /\ saga'[t].pc # "postReversal"
    BY <1>4, <1>5, <1>9 DEF SagaLoad, SagaRefuse, SagaDebit, SagaRecord, SagaPay, SagaSave,
       SagaReload, SagaReverse
  <2> QED BY <1>2, <2>1 DEF NoPost, SagaPosting
<1>10. CASE SagaPayTimeout(t) \/ SagaSaveLost(t) \/ SagaError(t) \/ SagaCrash(t)
  <2>1. journal'[t] = journal[t] /\ refunds'[t] = refunds[t] /\ saga'[t].pc # "postReversal"
    BY <1>4, <1>10 DEF SagaPayTimeout, SagaSaveLost, SagaError, SagaCrash
  <2> QED BY <1>2, <2>1 DEF NoPost, SagaPosting
<1> QED BY <1>6, <1>7, <1>8, <1>9, <1>10 DEF AnySagaStep, SagaStep

LEMMA HookCounts ==
  ASSUME TypeOK, NEW h \in Hooks, AnyHookStep(h), NEW t \in Transfers
  PROVE  NoPost(t, h) \/ HookCredits(t, h) \/ HookPosts(t, h)
<1>1. hook[h] \in HookRec
  BY DEF TypeOK, HookRec
<1>2. hook[h].t \in Transfers /\ hook[h].pc \in HookSteps
  BY <1>1 DEF HookRec
<1>3. saga' = saga /\ SagaPosting(t)' = SagaPosting(t)
  BY DEF AnyHookStep, HookStep, HookConfirm, HookPostSettlement, HookReload, HookRefund,
     HookPostReversal, HookReverse, HookFault, Deliver, SagaPosting
<1>4. \A g \in Hooks \ {h} : hook'[g] = hook[g]
  BY DEF AnyHookStep, HookStep, HookConfirm, HookPostSettlement, HookReload, HookRefund,
     HookPostReversal, HookReverse, HookFault, Deliver, HookGoto, HookDone, TypeOK
<1>5. ASSUME hook'[h].pc # "postReversal" PROVE Posting(t)' = Posting(t) \ {h}
  BY <1>4, <1>5 DEF Posting
<1>6. CASE HookRefund(h)
  <2>1. /\ journal'[t] = journal[t] /\ hook[h].pc = "refund"
        /\ \/ hook'[h].pc = "idle" /\ refunds' = refunds
           \/ /\ hook'[h].pc = "postReversal" /\ hook'[h].t = hook[h].t
              /\ refunds' = [refunds EXCEPT ![hook[h].t] = @ + 1]
    BY <1>6, NoHookType DEF HookRefund, HookGoto, HookDone, HookAt, TypeOK
  <2>2. CASE hook'[h].pc = "idle" /\ refunds' = refunds
    BY <1>3, <1>5, <2>1, <2>2 DEF NoPost
  <2>3. CASE /\ hook'[h].pc = "postReversal" /\ hook'[h].t = hook[h].t
             /\ refunds' = [refunds EXCEPT ![hook[h].t] = @ + 1]
    <3>1. Posting(t)' = IF hook[h].t = t THEN Posting(t) \cup {h} ELSE Posting(t)
      BY <1>4, <2>1, <2>3 DEF Posting
    <3>2. refunds'[t] = IF hook[h].t = t THEN refunds[t] + 1 ELSE refunds[t]
      BY <2>3 DEF TypeOK
    <3> QED BY <1>3, <2>1, <3>1, <3>2 DEF NoPost, HookCredits
  <2> QED BY <2>1, <2>2, <2>3
<1>7. CASE HookPostReversal(h)
  <2>1. /\ hook[h].pc = "postReversal" /\ hook'[h].pc = "reverse" /\ refunds' = refunds
        /\ journal'[t]["reverse"] = IF hook[h].t = t THEN journal[t]["reverse"] + 1
                                    ELSE journal[t]["reverse"]
    BY <1>2, <1>7 DEF HookPostReversal, HookAt, HookGoto, Post, TypeOK, Entries
  <2>2. hook[h].t = t => h \in Posting(t)
    BY <2>1 DEF Posting
  <2> QED BY <1>3, <1>5, <2>1, <2>2 DEF NoPost, HookPosts
<1>8. CASE HookPostSettlement(h)
  <2>1. /\ hook'[h].pc = "idle" /\ refunds' = refunds
        /\ journal'[t]["reverse"] = journal[t]["reverse"]
    BY <1>2, <1>8, NoHookType DEF HookPostSettlement, HookDone, Post, TypeOK, Entries
  <2> QED BY <1>3, <1>5, <2>1 DEF NoPost
<1>9. CASE HookConfirm(h) \/ HookReload(h) \/ HookReverse(h) \/ HookFault(h)
             \/ \E v \in Transfers : Deliver(h, v)
  <2>1. journal' = journal /\ refunds' = refunds /\ hook'[h].pc # "postReversal"
    BY <1>9, NoHookType DEF HookConfirm, HookReload, HookReverse, HookFault, Deliver, FirstStep,
       HookGoto, HookDone, TypeOK
  <2> QED BY <1>3, <1>5, <2>1 DEF NoPost
<1> QED BY <1>6, <1>7, <1>8, <1>9 DEF AnyHookStep, HookStep

LEMMA BackedInit == Init => Backed
<1> SUFFICES ASSUME Init, NEW t \in Transfers PROVE BackedAt(t)
  BY DEF Backed
<1>1. Posting(t) = {}
  BY NoHookType DEF Init, Posting
<1>2. journal[t]["reverse"] = 0 /\ refunds[t] = 0 /\ SagaPosting(t) = 0
  BY DEF Init, Entries, SagaPosting
<1> QED BY <1>1, <1>2, FS_EmptySet DEF BackedAt

LEMMA BackedNext == TypeOK /\ Backed /\ [Next]_vars => Backed'
<1> SUFFICES ASSUME TypeOK, Backed, [Next]_vars, NEW u \in Transfers PROVE BackedAt(u)'
  BY DEF Backed
<1>1. TypeOK' /\ BackedAt(u)
  BY TypeNext DEF Backed
<1>2. ASSUME saga'[u] = saga[u], hook' = hook, journal'[u] = journal[u],
             refunds'[u] = refunds[u]
      PROVE  BackedAt(u)'
  BY <1>1, <1>2, CountKept DEF NoPost, Posting, SagaPosting
<1>3. CASE UNCHANGED vars
  BY <1>2, <1>3 DEF vars
<1>4. ASSUME NEW t \in Transfers, AnySagaStep(t) PROVE BackedAt(u)'
  <2>1. CASE t = u
    BY <1>1, <1>4, <2>1, SagaCounts, CountKept
  <2>2. CASE t # u
    BY <1>2, <1>4, <2>2, SagaElsewhere DEF Elsewhere
  <2> QED BY <2>1, <2>2
<1>5. ASSUME NEW t \in Transfers, ProviderResolves(t) PROVE BackedAt(u)'
  BY <1>2, <1>5 DEF ProviderResolves
<1>6. ASSUME NEW h \in Hooks, AnyHookStep(h) PROVE BackedAt(u)'
  BY <1>1, <1>6, HookCounts, CountKept
<1>7. CASE OtherStep
  BY <1>2, <1>7, OtherIsBooked
<1> QED BY <1>3, <1>4, <1>5, <1>6, <1>7, NextCases

\* However many handlers return the money of one transfer and wherever they
\* fail, the journal never shows more reversals than the account was credited.
THEOREM ReversalsAreBacked == Spec => []ReversalIsBacked
<1>1. TypeOK /\ Backed => ReversalIsBacked
  <2> SUFFICES ASSUME TypeOK, Backed, NEW t \in Transfers
               PROVE  journal[t]["reverse"] <= refunds[t]
    BY DEF ReversalIsBacked
  <2>1. Cardinality(Posting(t)) \in Nat /\ SagaPosting(t) \in Nat
          /\ journal[t]["reverse"] \in Nat /\ refunds[t] \in Nat
    BY FS_CardinalityType DEF Backed, BackedAt, SagaPosting, TypeOK, Entries
  <2> QED BY <2>1 DEF Backed, BackedAt
<1>2. Init => TypeOK /\ Backed
  BY TypeInit, BackedInit
<1>3. TypeOK /\ Backed /\ [Next]_vars => (TypeOK /\ Backed)'
  BY TypeNext, BackedNext
<1> QED BY <1>1, <1>2, <1>3, PTL DEF Spec
-----------------------------------------------------------------------------
(***************************************************************************)
(* A transfer whose saga met no error after it asked for the payout is     *)
(* returned only when the provider refused or failed it: the catch block   *)
(* runs only after a refusal, on the row exactly as it was recorded, and   *)
(* webhook handlers find the saga ended.                                   *)
(***************************************************************************)
Unpaid(t) ==
  t \notin lost =>
    /\ saga[t].pc \in {"load", "debit", "record", "hold", "pay"} => refunds[t] = 0
    /\ saga[t].pc \in CatchSteps =>
         payout[t] = "none" /\ xfer[t] = Initiated /\ saga[t].mem = Initiated
    /\ refunds[t] > 0 => payout[t] \in {"none", "failed"}

HookRight(h) ==
  /\ hook[h].pc \notin {"idle", "confirm", "postSettlement"} => payout[hook[h].t] = "failed"
  /\ hook[h].pc # "idle" /\ hook[h].t \notin lost => saga[hook[h].t].pc \in {"done", "dead"}

UInv == (\A t \in Transfers : Unpaid(t)) /\ (\A h \in Hooks : HookRight(h))

\* A saga that takes a step has not ended, so no webhook handler is on its
\* transfer yet.
LEMMA SagaIsAlone ==
  ASSUME NEW t \in Transfers, t \notin lost, SagaStep(t), UInv
  PROVE  /\ saga[t].pc \notin {"done", "dead"}
         /\ \A h \in Hooks : hook[h].pc # "idle" => hook[h].t # t
<1>1. saga[t].pc \notin {"done", "dead"}
  BY DEF SagaStep, SagaLoad, SagaRefuse, SagaDebit, SagaRecord, SagaHold, SagaPay, SagaSettle,
     SagaSave, SagaReload, SagaRefund, SagaPostReversal, SagaReverse, SagaAt
<1> QED BY <1>1 DEF UInv, HookRight

\* The version test of the try section's save cannot fail.
LEMMA SaveSucceeds ==
  ASSUME XInv, NEW t \in Transfers, saga[t].pc = "save"
  PROVE  MaySaveTransfer(xfer[t], saga[t].mem)
<1>1. xfer[t] = Initiated
        /\ saga[t].mem \in {MarkedProcessing(Initiated), MarkedSuccessful(Initiated)}
  BY DEF XInv, SagaKnows
<1> QED BY <1>1, InFlightVersions DEF MaySaveTransfer

LEMMA SagaUnpaid ==
  ASSUME TypeOK, XInv, UInv, NEW t \in Transfers, t \notin lost, SagaStep(t)
  PROVE  Unpaid(t)'
<1>1. SagaKnows(t) /\ Unpaid(t) /\ refunds[t] \in Nat
  BY DEF XInv, UInv, TypeOK
<1>2. ASSUME NEW pc, NEW mem, Goto(t, pc, mem) PROVE saga'[t].pc = pc /\ saga'[t].mem = mem
  BY <1>2 DEF Goto, TypeOK
<1>3. ASSUME NEW pc, LoadInto(t, pc) PROVE saga'[t].pc = pc /\ saga'[t].mem = saga[t].mem
  BY <1>3 DEF LoadInto, TypeOK
<1> USE DEF SagaAt, Unpaid, CatchSteps
<1>4. CASE SagaLoad(t) \/ SagaRefuse(t) \/ SagaDebit(t) \/ SagaRecord(t) \/ SagaHold(t)
  <2>1. refunds'[t] = refunds[t] /\ refunds[t] = 0 /\ saga'[t].pc \notin CatchSteps
    BY <1>1, <1>2, <1>3, <1>4 DEF SagaLoad, SagaRefuse, SagaDebit, SagaRecord, SagaHold
  <2> QED BY <2>1
<1>5. CASE SagaPay(t)
  <2>1. refunds'[t] = 0 /\ xfer'[t] = Initiated
    BY <1>1, <1>5 DEF SagaPay, SagaKnows
  <2>2. saga'[t].pc \in CatchSteps => saga'[t].mem = Initiated /\ payout'[t] = "none"
    BY <1>1, <1>2, <1>5 DEF SagaPay, SagaKnows
  <2> QED BY <2>1, <2>2
<1>6. CASE SagaSettle(t) \/ SagaSave(t)
  <2>1. saga[t].pc = "save" => MaySaveTransfer(xfer[t], saga[t].mem)
    BY SaveSucceeds
  <2>2. /\ refunds'[t] = refunds[t] /\ payout'[t] = payout[t]
        /\ saga'[t].pc \in {"save", "done"}
    BY <1>2, <1>6, <2>1 DEF SagaSettle, SagaSave
  <2> QED BY <1>1, <2>2
<1>7. CASE SagaReload(t) \/ SagaPostReversal(t)
  <2>1. /\ refunds'[t] = refunds[t] /\ payout'[t] = payout[t] /\ xfer'[t] = xfer[t]
        /\ saga'[t].mem = saga[t].mem /\ saga[t].pc \in CatchSteps /\ saga'[t].pc \in CatchSteps
    BY <1>2, <1>3, <1>7 DEF SagaReload, SagaPostReversal
  <2> QED BY <1>1, <2>1
<1>8. CASE SagaRefund(t)
  <2>1. /\ payout'[t] = payout[t] /\ xfer'[t] = xfer[t] /\ saga'[t].mem = saga[t].mem
        /\ saga[t].pc \in CatchSteps /\ saga'[t].pc \in {"postReversal", "dead"}
    BY <1>2, <1>8 DEF SagaRefund
  <2> QED BY <1>1, <2>1
<1>9. CASE SagaReverse(t)
  <2>1. refunds'[t] = refunds[t] /\ payout'[t] = payout[t] /\ saga'[t].pc \in {"done", "dead"}
    BY <1>2, <1>9 DEF SagaReverse
  <2> QED BY <1>1, <2>1
<1> QED BY <1>4, <1>5, <1>6, <1>7, <1>8, <1>9 DEF SagaStep

\* Where the saga of a transfer with a stored reference stands.
LEMMA FoundMeansEnded ==
  ASSUME TypeOK, XInv, UInv, NEW t \in Transfers, t \notin lost, xfer[t].ref,
         payout[t] # "none"
  PROVE  saga[t].pc \in {"done", "dead"}
<1>1. saga[t] \in SagaRec /\ SagaKnows(t) /\ Unpaid(t)
  BY DEF TypeOK, SagaRec, XInv, UInv
<1>2. saga[t].pc \in SagaSteps
  BY <1>1 DEF SagaRec
<1>3. ~NoTransfer.ref /\ ~Initiated.ref
  BY DEF NoTransfer, Initiated
<1>4. saga[t].pc \notin {"load", "debit", "record", "hold"} \cup TrySteps
  BY <1>1, <1>3 DEF SagaKnows, TrySteps
<1>5. saga[t].pc \notin CatchSteps
  BY <1>1 DEF Unpaid
<1> QED BY <1>2, <1>4, <1>5 DEF SagaSteps

\* A webhook step, seen from outside its handler.
LEMMA HookElsewhere ==
  ASSUME TypeOK, NEW h \in Hooks, HookStep(h) \/ \E t \in Transfers : Deliver(h, t)
  PROVE  /\ saga' = saga /\ payout' = payout /\ lost' = lost
         /\ \A g \in Hooks \ {h} : hook'[g] = hook[g]
         /\ HookStep(h) => hook[h].t \in Transfers /\ Elsewhere(hook[h].t) /\ hook[h].pc # "idle"
<1>1. hook[h] \in HookRec
  BY DEF TypeOK, HookRec
<1>2. saga' = saga /\ payout' = payout /\ lost' = lost
  BY DEF HookStep, HookConfirm, HookPostSettlement, HookReload, HookRefund,
     HookPostReversal, HookReverse, Deliver
<1>3. \A g \in Hooks \ {h} : hook'[g] = hook[g]
  BY DEF HookStep, HookConfirm, HookPostSettlement, HookReload, HookRefund,
     HookPostReversal, HookReverse, Deliver, HookGoto, HookDone, TypeOK
<1>4. ASSUME HookStep(h) PROVE hook[h].t \in Transfers /\ Elsewhere(hook[h].t) /\ hook[h].pc # "idle"
  <2>1. hook[h].t \in Transfers
    BY <1>1 DEF HookRec
  <2>2. hook[h].pc # "idle"
    BY <1>4 DEF HookStep, HookConfirm, HookPostSettlement, HookReload, HookRefund,
       HookPostReversal, HookReverse, HookAt
  <2>3. Elsewhere(hook[h].t)
    BY <1>2, <1>4, <2>1 DEF HookStep, HookConfirm, HookPostSettlement, HookReload, HookRefund,
       HookPostReversal, HookReverse, Elsewhere, Post, TypeOK
  <2> QED BY <2>1, <2>2, <2>3
<1> QED BY <1>2, <1>3, <1>4

LEMMA HookUnpaid ==
  ASSUME TypeOK, XInv, UInv, NEW h \in Hooks, HookStep(h) \/ \E t \in Transfers : Deliver(h, t)
  PROVE  UInv'
<1>1. /\ saga' = saga /\ payout' = payout /\ lost' = lost
      /\ \A g \in Hooks \ {h} : hook'[g] = hook[g]
  BY HookElsewhere
<1>2. ASSUME NEW g \in Hooks, g # h PROVE HookRight(g)'
  BY <1>1, <1>2 DEF UInv, HookRight
<1>3. ASSUME NEW t \in Transfers, Deliver(h, t) PROVE UInv'
  <2>1. /\ refunds' = refunds /\ xfer' = xfer /\ hook'[h].t = t
        /\ hook'[h].pc = IF payout[t] = "paid" THEN "confirm" ELSE "reload"
        /\ payout[t] \in {"paid", "failed"} /\ xfer[t].ref
    BY <1>3 DEF Deliver, Found, FirstStep, TypeOK
  <2>2. t \notin lost => saga[t].pc \in {"done", "dead"}
    BY <2>1, FoundMeansEnded
  <2>3. HookRight(h)'
    BY <1>1, <2>1, <2>2 DEF HookRight
  <2> QED BY <1>1, <1>2, <2>1, <2>3 DEF UInv, Unpaid
<1>4. ASSUME NEW t \in Transfers, hook[h].t = t, HookStep(h) PROVE UInv'
  <2>1. Elsewhere(t) /\ hook[h].pc # "idle"
    BY <1>4, HookElsewhere
  <2>2. /\ HookRight(h) /\ Unpaid(t) /\ refunds[t] \in Nat
        /\ t \notin lost => saga[t].pc \in {"done", "dead"}
    BY <1>4, <2>1 DEF UInv, HookRight, TypeOK
  <2>3. \/ hook'[h].pc \in {"idle", "postSettlement"} /\ (hook'[h].pc # "idle" => hook'[h].t = t)
        \/ /\ hook[h].pc \in {"reload", "refund", "postReversal"}
           /\ hook'[h].pc \in {"refund", "postReversal", "reverse"} /\ hook'[h].t = t
    BY <1>4, NoHookType DEF HookStep, HookConfirm, HookPostSettlement, HookReload, HookRefund,
       HookPostReversal, HookReverse, HookGoto, HookDone, HookAt, TypeOK
  <2>4. HookRight(h)'
    BY <1>1, <1>4, <2>2, <2>3 DEF HookRight
  <2>5. refunds'[t] = refunds[t] \/ hook[h].pc = "refund"
    BY <1>4 DEF HookStep, HookConfirm, HookPostSettlement, HookReload, HookRefund,
       HookPostReversal, HookReverse, HookAt
  <2>6. Unpaid(t)'
    BY <1>1, <1>4, <2>2, <2>5 DEF Unpaid, HookRight, CatchSteps
  <2>7. ASSUME NEW u \in Transfers, u # t PROVE Unpaid(u)'
    BY <1>1, <2>1, <2>7 DEF Elsewhere, UInv, Unpaid
  <2> QED BY <1>2, <2>4, <2>6, <2>7 DEF UInv
<1> QED BY <1>3, <1>4, HookElsewhere

\* What a step of a saga adds to the errors.
LEMMA SagaLoses ==
  ASSUME TypeOK, NEW t \in Transfers, AnySagaStep(t)
  PROVE  /\ lost' = lost \/ lost' = lost \cup {t}
         /\ SagaStep(t) => lost' = lost
         /\ ~SagaStep(t) /\ t \notin lost' =>
              /\ saga'[t].pc = "dead" /\ lost' = lost
              /\ xfer' = xfer /\ payout' = payout /\ refunds' = refunds
<1>1. ASSUME SagaStep(t) PROVE lost' = lost
  BY <1>1 DEF SagaStep, SagaLoad, SagaRefuse, SagaDebit, SagaRecord, SagaHold, SagaPay,
     SagaSettle, SagaSave, SagaReload, SagaRefund, SagaPostReversal, SagaReverse
<1>2. CASE SagaPayTimeout(t) \/ SagaSaveLost(t)
  BY <1>1, <1>2 DEF SagaPayTimeout, SagaSaveLost
<1>3. CASE SagaError(t) \/ SagaCrash(t)
  BY <1>1, <1>3 DEF SagaError, SagaCrash, Goto, TypeOK
<1> QED BY <1>1, <1>2, <1>3 DEF AnySagaStep

\* A payout that failed or was paid stays as it is whatever its saga does.
LEMMA SagaKeepsOutcome ==
  ASSUME TypeOK, XInv, NEW t \in Transfers, AnySagaStep(t), payout[t] # "none"
  PROVE  payout' = payout
<1>1. saga[t].pc # "pay"
  BY DEF XInv, SagaKnows
<1> QED BY <1>1 DEF AnySagaStep, SagaStep, SagaLoad, SagaRefuse, SagaDebit, SagaRecord, SagaHold,
     SagaPay, SagaSettle, SagaSave, SagaReload, SagaRefund, SagaPostReversal, SagaReverse,
     SagaPayTimeout, SagaSaveLost, SagaError, SagaCrash, SagaAt

LEMMA UInvInit == Init => UInv
BY NoHookType DEF Init, UInv, Unpaid, HookRight, CatchSteps

LEMMA UInvNext == TypeOK /\ XInv /\ UInv /\ [Next]_vars => UInv'
<1> SUFFICES ASSUME TypeOK, XInv, UInv, [Next]_vars PROVE UInv'
  OBVIOUS
<1>1. CASE UNCHANGED <<saga, hook, payout, refunds, xfer, lost>>
  BY <1>1 DEF UInv, Unpaid, HookRight
<1>2. ASSUME NEW t \in Transfers, AnySagaStep(t) PROVE UInv'
  <2>1. Elsewhere(t) /\ hook' = hook /\ (lost' = lost \/ lost' = lost \cup {t})
    BY <1>2, SagaElsewhere, SagaLoses
  <2>2. Unpaid(t)'
    <3>1. CASE t \in lost'
      BY <3>1 DEF Unpaid
    <3>2. CASE t \notin lost' /\ SagaStep(t)
      BY <2>1, <3>2, SagaUnpaid
    <3>3. CASE t \notin lost' /\ ~SagaStep(t)
      BY <1>2, <3>3, SagaLoses DEF UInv, Unpaid, CatchSteps
    <3> QED BY <3>1, <3>2, <3>3
  <2>3. ASSUME NEW u \in Transfers, u # t PROVE Unpaid(u)'
    BY <2>1, <2>3 DEF Elsewhere, UInv, Unpaid
  <2>4. ASSUME NEW h \in Hooks PROVE HookRight(h)'
    <3>1. hook[h] \in HookRec /\ HookRight(h)
      BY DEF TypeOK, HookRec, UInv
    <3>2. hook[h].t \in Transfers
      BY <3>1 DEF HookRec
    <3>3. CASE hook[h].t # t
      BY <2>1, <3>1, <3>2, <3>3 DEF Elsewhere, HookRight
    <3>4. CASE hook[h].t = t
      <4>1. payout[t] = "failed" => payout'[t] = "failed"
        BY <1>2, SagaKeepsOutcome
      <4>2. ASSUME hook[h].pc # "idle", t \notin lost' PROVE saga'[t].pc \in {"done", "dead"}
        <5>1. ~SagaStep(t)
          BY <2>1, <3>4, <4>2, SagaIsAlone
        <5> QED BY <1>2, <4>2, <5>1, SagaLoses
      <4> QED BY <2>1, <3>1, <3>4, <4>1, <4>2 DEF HookRight
    <3> QED BY <3>3, <3>4
  <2> QED BY <2>2, <2>3, <2>4 DEF UInv
<1>3. ASSUME NEW t \in Transfers, ProviderResolves(t) PROVE UInv'
  <2>1. /\ saga' = saga /\ hook' = hook /\ refunds' = refunds /\ xfer' = xfer /\ lost' = lost
        /\ payout[t] = "accepted" /\ \A u \in Transfers \ {t} : payout'[u] = payout[u]
    BY <1>3 DEF ProviderResolves, TypeOK
  <2>2. ASSUME NEW u \in Transfers PROVE Unpaid(u)'
    BY <2>1 DEF UInv, Unpaid
  <2>3. ASSUME NEW h \in Hooks PROVE HookRight(h)'
    <3>1. hook[h] \in HookRec
      BY DEF TypeOK, HookRec
    <3>2. hook[h].t \in Transfers
      BY <3>1 DEF HookRec
    <3> QED BY <2>1, <3>2 DEF UInv, HookRight
  <2> QED BY <2>2, <2>3 DEF UInv
<1>4. ASSUME NEW h \in Hooks, AnyHookStep(h) PROVE UInv'
  <2>1. CASE HookFault(h)
    <3>1. /\ UNCHANGED <<saga, payout, refunds, xfer, lost>> /\ hook'[h].pc = "idle"
          /\ \A g \in Hooks \ {h} : hook'[g] = hook[g]
      BY <2>1, NoHookType DEF HookFault, HookDone, TypeOK
    <3> QED BY <3>1 DEF UInv, Unpaid, HookRight
  <2> QED BY <1>4, <2>1, HookUnpaid DEF AnyHookStep
<1>5. CASE OtherStep
  BY <1>1, <1>5, OtherIsBooked
<1>6. CASE UNCHANGED vars
  BY <1>1, <1>6 DEF vars
<1> QED BY <1>2, <1>3, <1>4, <1>5, <1>6, NextCases

\* Money that the provider paid out is never returned as well, however sagas
\* and webhook handlers crash, fail, are repeated and overlap, unless the saga
\* met an error after it had asked for the payout.
THEOREM PaidIsNotRefunded == Spec => []NotPaidAndRefunded
<1>1. Init => UInv
  BY UInvInit
<1>2. IInv /\ UInv /\ [Next]_vars => UInv'
  BY UInvNext DEF IInv
<1>3. UInv /\ IInv => NotPaidAndRefunded
  BY DEF UInv, Unpaid, NotPaidAndRefunded
<1> QED BY <1>1, <1>2, <1>3, Inductive, PTL DEF Spec
-----------------------------------------------------------------------------
(***************************************************************************)
(* Without faults, handlers come to the end of what they began: a credit   *)
(* or a SUCCESSFUL row that no entry stands for yet has a handler that     *)
(* will post it.  Backed and SettledOnce bound the entries from above.     *)
(***************************************************************************)
At(t, pc) == \E h \in Hooks : hook[h].pc = pc /\ hook[h].t = t

ClearAt(t) ==
  /\ Terminal(xfer[t]) => xfer[t].status \in {"SUCCESSFUL", "REVERSED"}
  /\ xfer[t].status # "NONE" /\ saga[t].pc # "hold" => journal[t]["hold"] = 1
  /\ journal[t]["settle"] > 0 => payout[t] = "paid"
  /\ saga[t].pc = "save" /\ saga[t].mem = MarkedSuccessful(Initiated) =>
       journal[t]["settle"] > 0
  /\ xfer[t].status = "SUCCESSFUL" => journal[t]["settle"] > 0 \/ At(t, "postSettlement")
  /\ refunds[t] > 0 =>
       journal[t]["reverse"] > 0 \/ At(t, "postReversal") \/ saga[t].pc = "postReversal"

CInv == lost = {} /\ \A t \in Transfers : ClearAt(t)

\* What has happened up to a state without faults happened without faults.
LEMMA NoFaults ==
  ASSUME TypeOK, [Next]_vars, faults' = 0
  PROVE  /\ faults = 0
         /\ \A t \in Transfers : AnySagaStep(t) => SagaStep(t)
         /\ \A h \in Hooks : AnyHookStep(h) =>
              HookStep(h) \/ \E t \in Transfers : Deliver(h, t)
<1>1. faults \in Nat
  BY DEF TypeOK
<1>2. ASSUME NEW t \in Transfers, AnySagaStep(t) PROVE SagaStep(t) /\ faults = 0
  <2>1. SagaStep(t)
    BY <1>1, <1>2 DEF AnySagaStep, SagaPayTimeout, SagaSaveLost, SagaError, SagaCrash
  <2> QED BY <2>1 DEF SagaStep, SagaLoad, SagaRefuse, SagaDebit, SagaRecord, SagaHold, SagaPay,
       SagaSettle, SagaSave, SagaReload, SagaRefund, SagaPostReversal, SagaReverse
<1>3. ASSUME NEW h \in Hooks, AnyHookStep(h)
      PROVE  (HookStep(h) \/ \E t \in Transfers : Deliver(h, t)) /\ faults = 0
  <2>1. HookStep(h) \/ \E t \in Transfers : Deliver(h, t)
    BY <1>1, <1>3 DEF AnyHookStep, HookFault
  <2> QED BY <2>1 DEF HookStep, HookConfirm, HookPostSettlement, HookReload, HookRefund,
       HookPostReversal, HookReverse, Deliver
<1>4. ASSUME NEW t \in Transfers, ProviderResolves(t) PROVE faults = 0
  BY <1>4 DEF ProviderResolves
<1>5. OtherStep \/ UNCHANGED vars => faults = 0
  BY OtherIsBooked DEF vars
<1> QED BY <1>2, <1>3, <1>4, <1>5, NextCases

LEMMA ClearKept ==
  ASSUME CInv, NEW u \in Transfers, saga'[u] = saga[u], xfer'[u] = xfer[u],
         journal'[u] = journal[u], payout'[u] = payout[u], refunds'[u] = refunds[u],
         At(u, "postSettlement") => At(u, "postSettlement")',
         At(u, "postReversal") => At(u, "postReversal")'
  PROVE  ClearAt(u)'
BY DEF CInv, ClearAt

LEMMA SagaClear ==
  ASSUME TypeOK, XInv, UInv, CInv, NEW t \in Transfers, SagaStep(t), hook' = hook
  PROVE  ClearAt(t)'
<1>1. /\ SagaKnows(t) /\ Unpaid(t) /\ ClearAt(t) /\ t \notin lost
      /\ journal[t] \in [Entries -> Nat] /\ refunds[t] \in Nat
  BY DEF XInv, UInv, CInv, TypeOK
<1>2. ASSUME NEW pc, NEW mem, Goto(t, pc, mem) PROVE saga'[t].pc = pc /\ saga'[t].mem = mem
  BY <1>2 DEF Goto, TypeOK
<1>3. ASSUME NEW pc, LoadInto(t, pc) PROVE saga'[t].pc = pc /\ saga'[t].mem = saga[t].mem
  BY <1>3 DEF LoadInto, TypeOK
<1>4. (At(t, "postSettlement")' <=> At(t, "postSettlement"))
        /\ (At(t, "postReversal")' <=> At(t, "postReversal"))
  BY DEF At
<1>5. ASSUME NEW e \in Entries, Post(t, e)
      PROVE  /\ journal'[t][e] = journal[t][e] + 1
             /\ \A f \in Entries : f # e => journal'[t][f] = journal[t][f]
  BY <1>5 DEF Post, TypeOK
<1>6. "hold" \in Entries /\ "settle" \in Entries /\ "reverse" \in Entries
  BY DEF Entries
<1>7. Initiated.status = "PENDING" /\ ~Terminal(Initiated) /\ NoTransfer.status = "NONE"
        /\ ~Terminal(NoTransfer)
  BY DEF Initiated, NoTransfer, Terminal, TerminalStatuses
<1>8. journal[t]["hold"] \in Nat /\ journal[t]["settle"] \in Nat /\ journal[t]["reverse"] \in Nat
  BY <1>1, <1>6
<1> USE DEF SagaAt
<1>9. CASE SagaLoad(t) \/ SagaRefuse(t) \/ SagaDebit(t)
  <2>1. /\ xfer'[t] = NoTransfer /\ journal'[t] = journal[t] /\ refunds'[t] = 0
        /\ journal[t]["settle"] = 0 /\ saga'[t].pc \in {"debit", "record", "done"}
    BY <1>1, <1>2, <1>3, <1>9 DEF SagaLoad, SagaRefuse, SagaDebit, SagaKnows, Unpaid
  <2> QED BY <1>7, <2>1 DEF ClearAt
<1>10. CASE SagaRecord(t)
  <2>1. /\ xfer'[t] = Initiated /\ journal'[t] = journal[t] /\ refunds'[t] = 0
        /\ journal[t]["settle"] = 0 /\ saga'[t].pc = "hold"
    BY <1>1, <1>2, <1>10 DEF SagaRecord, SagaKnows, Unpaid, TypeOK
  <2> QED BY <1>7, <2>1 DEF ClearAt
<1>11. CASE SagaHold(t)
  <2>1. /\ xfer'[t] = Initiated /\ refunds'[t] = 0 /\ saga'[t].pc = "pay"
        /\ journal'[t]["hold"] = 1 /\ journal'[t]["settle"] = 0
    BY <1>1, <1>2, <1>5, <1>6, <1>11 DEF SagaHold, SagaKnows, Unpaid
  <2> QED BY <1>7, <2>1 DEF ClearAt
<1>12. CASE SagaPay(t)
  <2>1. /\ xfer'[t] = Initiated /\ refunds'[t] = 0
        /\ journal'[t]["hold"] = 1 /\ journal'[t]["settle"] = 0
        /\ \/ saga'[t].pc \in {"settle", "reload"}
           \/ saga'[t].pc = "save" /\ saga'[t].mem = MarkedProcessing(Initiated)
    BY <1>1, <1>2, <1>12 DEF SagaPay, SagaKnows, Unpaid
  <2>2. MarkedProcessing(Initiated) # MarkedSuccessful(Initiated)
    BY DEF MarkedProcessing, MarkedSuccessful, Marked
  <2> QED BY <1>7, <2>1, <2>2 DEF ClearAt
<1>13. CASE SagaSettle(t)
  <2>1. /\ xfer'[t] = xfer[t] /\ refunds'[t] = refunds[t] /\ payout'[t] = "paid"
        /\ journal'[t]["hold"] = journal[t]["hold"] /\ journal'[t]["settle"] = 1
        /\ journal'[t]["reverse"] = journal[t]["reverse"]
        /\ saga[t].pc = "settle" /\ saga'[t].pc = "save"
    BY <1>1, <1>2, <1>5, <1>6, <1>13 DEF SagaSettle, SagaKnows
  <2> QED BY <1>1, <1>4, <2>1 DEF ClearAt
<1>14. CASE SagaSave(t)
  <2>1. /\ xfer'[t] = saga[t].mem /\ saga'[t].pc = "done" /\ journal'[t] = journal[t]
        /\ payout'[t] = payout[t] /\ refunds'[t] = refunds[t] /\ saga[t].pc = "save"
    BY <1>2, <1>14, SaveSucceeds DEF SagaSave, TypeOK
  <2>2. \/ saga[t].mem = MarkedProcessing(Initiated)
        \/ saga[t].mem = MarkedSuccessful(Initiated) /\ journal[t]["settle"] > 0
    BY <1>1, <2>1 DEF SagaKnows, ClearAt
  <2>3. /\ saga[t].mem.status \in {"PROCESSING", "SUCCESSFUL"}
        /\ Terminal(saga[t].mem) => saga[t].mem.status = "SUCCESSFUL"
        /\ saga[t].mem.status = "SUCCESSFUL" => journal[t]["settle"] > 0
    BY <2>2 DEF MarkedProcessing, MarkedSuccessful, Marked, Terminal, TerminalStatuses
  <2>4. journal[t]["hold"] = 1
    BY <1>1, <1>7, <2>1 DEF SagaKnows, ClearAt
  <2> QED BY <1>1, <1>4, <2>1, <2>3, <2>4 DEF ClearAt
<1>15. CASE SagaReload(t) \/ SagaRefund(t)
  <2>1. /\ xfer'[t] = xfer[t] /\ journal'[t] = journal[t] /\ payout'[t] = payout[t]
        /\ saga[t].pc \in {"reload", "refund"}
        /\ \/ refunds'[t] = refunds[t] /\ saga'[t].pc \in {"refund", "dead"}
           \/ saga'[t].pc = "postReversal"
    BY <1>2, <1>3, <1>15 DEF SagaReload, SagaRefund
  <2> QED BY <1>1, <1>4, <2>1 DEF ClearAt
<1>16. CASE SagaPostReversal(t)
  <2>1. /\ xfer'[t] = xfer[t] /\ payout'[t] = payout[t] /\ saga[t].pc = "postReversal"
        /\ saga'[t].pc = "reverse" /\ journal'[t]["hold"] = journal[t]["hold"]
        /\ journal'[t]["settle"] = journal[t]["settle"] /\ journal'[t]["reverse"] > 0
    BY <1>2, <1>5, <1>6, <1>8, <1>16 DEF SagaPostReversal
  <2> QED BY <1>1, <1>4, <2>1 DEF ClearAt
<1>17. CASE SagaReverse(t)
  <2>1. /\ xfer'[t] = xfer[t] \/ xfer'[t].status = "REVERSED"
        /\ xfer[t] = Initiated /\ journal'[t] = journal[t] /\ payout'[t] = payout[t]
        /\ refunds'[t] = refunds[t] /\ saga[t].pc = "reverse" /\ saga'[t].pc \in {"done", "dead"}
    BY <1>1, <1>2, <1>17 DEF SagaReverse, Unpaid, CatchSteps, MarkedReversed, Marked, TypeOK
  <2> QED BY <1>1, <1>4, <1>7, <2>1 DEF ClearAt
<1> QED BY <1>9, <1>10, <1>11, <1>12, <1>13, <1>14, <1>15, <1>16, <1>17 DEF SagaStep

LEMMA HookClear ==
  ASSUME TypeOK, XInv, UInv, CInv, NEW h \in Hooks, NEW t \in Transfers,
         hook[h].t = t, HookStep(h)
  PROVE  ClearAt(t)' /\ (hook'[h].pc = "idle" \/ hook'[h].t = t)
<1>1. hook[h] \in HookRec /\ journal[t] \in [Entries -> Nat] /\ refunds[t] \in Nat
  BY DEF TypeOK, HookRec
<1>2. /\ saga' = saga /\ payout' = payout /\ hook[h].pc # "idle"
      /\ saga[t].pc \in {"done", "dead"} /\ \A g \in Hooks \ {h} : hook'[g] = hook[g]
  BY HookElsewhere DEF UInv, HookRight, CInv
<1>3. ClearAt(t) /\ HookKnows(h) /\ RowKnows(t) /\ RightAt(t) /\ xfer[t].status # "NONE"
  BY <1>2 DEF CInv, XInv, HookKnows, RowKnows
<1>4. ASSUME NEW pc
      PROVE  /\ hook[h].pc # pc => (At(t, pc) => At(t, pc)')
             /\ hook'[h].pc = pc /\ hook'[h].t = t => At(t, pc)'
  BY <1>2 DEF At
<1>5. ASSUME NEW e \in Entries, Post(t, e)
      PROVE  /\ journal'[t][e] = journal[t][e] + 1
             /\ \A f \in Entries : f # e => journal'[t][f] = journal[t][f]
  BY <1>5 DEF Post, TypeOK
<1>6. "hold" \in Entries /\ "settle" \in Entries /\ "reverse" \in Entries
  BY DEF Entries
<1>7. journal[t]["hold"] \in Nat /\ journal[t]["settle"] \in Nat /\ journal[t]["reverse"] \in Nat
  BY <1>1, <1>6
<1>8. ASSUME NEW pc, NEW r, HookGoto(h, pc, r) PROVE hook'[h].pc = pc /\ hook'[h].t = t
  BY <1>8 DEF HookGoto, TypeOK
<1>9. ASSUME HookDone(h) PROVE hook'[h].pc = "idle"
  BY <1>9, NoHookType DEF HookDone, TypeOK
<1> USE DEF HookAt
<1>10. CASE HookConfirm(h)
  <2>1. /\ hook[h].pc = "confirm" /\ journal' = journal /\ refunds' = refunds
        /\ \/ xfer'[t] = xfer[t] /\ hook'[h].pc = "idle"
           \/ /\ xfer'[t].status = "SUCCESSFUL"
              /\ hook'[h].pc = "postSettlement" /\ hook'[h].t = t
    BY <1>8, <1>9, <1>10 DEF HookConfirm, MarkedSuccessful, Marked, TypeOK
  <2> QED BY <1>2, <1>3, <1>4, <2>1 DEF ClearAt
<1>11. CASE HookPostSettlement(h)
  <2>1. /\ hook[h].pc = "postSettlement" /\ xfer' = xfer /\ hook'[h].pc = "idle"
        /\ refunds' = refunds /\ journal'[t]["settle"] > 0
        /\ journal'[t]["hold"] = journal[t]["hold"]
        /\ journal'[t]["reverse"] = journal[t]["reverse"]
    BY <1>5, <1>6, <1>7, <1>9, <1>11 DEF HookPostSettlement
  <2>2. payout[t] = "paid"
    BY <1>3, <2>1 DEF HookKnows, RightAt
  <2> QED BY <1>2, <1>3, <1>4, <2>1, <2>2 DEF ClearAt
<1>12. CASE HookReload(h) \/ HookRefund(h)
  <2>1. /\ hook[h].pc \in {"reload", "refund"} /\ xfer' = xfer /\ journal' = journal
        /\ \/ refunds' = refunds /\ (hook'[h].pc = "idle" \/ hook'[h].t = t)
           \/ hook'[h].pc = "postReversal" /\ hook'[h].t = t
    BY <1>8, <1>9, <1>12 DEF HookReload, HookRefund, TypeOK
  <2> QED BY <1>2, <1>3, <1>4, <2>1 DEF ClearAt
<1>13. CASE HookPostReversal(h)
  <2>1. /\ hook[h].pc = "postReversal" /\ xfer' = xfer /\ hook'[h].t = t
        /\ journal'[t]["reverse"] > 0 /\ journal'[t]["hold"] = journal[t]["hold"]
        /\ journal'[t]["settle"] = journal[t]["settle"]
    BY <1>5, <1>6, <1>7, <1>8, <1>13 DEF HookPostReversal
  <2> QED BY <1>2, <1>3, <1>4, <2>1 DEF ClearAt
<1>14. CASE HookReverse(h)
  <2>1. /\ hook[h].pc = "reverse" /\ journal' = journal /\ refunds' = refunds
        /\ hook'[h].pc = "idle" /\ (xfer'[t] = xfer[t] \/ xfer'[t].status = "REVERSED")
    BY <1>9, <1>14 DEF HookReverse, MarkedReversed, Marked, TypeOK
  <2> QED BY <1>2, <1>3, <1>4, <2>1 DEF ClearAt
<1> QED BY <1>10, <1>11, <1>12, <1>13, <1>14 DEF HookStep

LEMMA CInvInit == Init => CInv
BY NoHookType DEF Init, CInv, ClearAt, Entries, NoTransfer, Terminal, TerminalStatuses

LEMMA CInvNext == TypeOK /\ XInv /\ UInv /\ CInv /\ [Next]_vars /\ faults' = 0 => CInv'
<1> SUFFICES ASSUME TypeOK, XInv, UInv, CInv, [Next]_vars, faults' = 0 PROVE CInv'
  OBVIOUS
<1>1. CASE UNCHANGED <<saga, hook, xfer, journal, payout, refunds, lost>>
  BY <1>1 DEF CInv, ClearAt, At
<1>2. ASSUME NEW t \in Transfers, AnySagaStep(t) PROVE CInv'
  <2>1. SagaStep(t) /\ Elsewhere(t) /\ hook' = hook /\ lost' = lost
    BY <1>2, NoFaults, SagaElsewhere, SagaLoses
  <2>2. ASSUME NEW u \in Transfers PROVE ClearAt(u)'
    <3>1. CASE u = t
      BY <2>1, <3>1, SagaClear
    <3>2. CASE u # t
      BY <2>1, <3>2, ClearKept DEF Elsewhere, At
    <3> QED BY <3>1, <3>2
  <2> QED BY <2>1, <2>2 DEF CInv
<1>3. ASSUME NEW t \in Transfers, ProviderResolves(t) PROVE CInv'
  <2>1. /\ UNCHANGED <<saga, hook, xfer, journal, refunds, lost>> /\ payout[t] = "accepted"
        /\ \A u \in Transfers \ {t} : payout'[u] = payout[u]
    BY <1>3 DEF ProviderResolves, TypeOK
  <2> QED BY <2>1 DEF CInv, ClearAt, At
<1>4. ASSUME NEW h \in Hooks, NEW t \in Transfers, Deliver(h, t) PROVE CInv'
  <2>1. /\ UNCHANGED <<saga, xfer, journal, payout, refunds, lost>> /\ hook[h].pc = "idle"
        /\ \A g \in Hooks \ {h} : hook'[g] = hook[g]
    BY <1>4 DEF Deliver, HookAt, TypeOK
  <2>2. ASSUME NEW u \in Transfers, NEW pc, pc # "idle" PROVE At(u, pc) => At(u, pc)'
    BY <2>1, <2>2 DEF At
  <2> QED BY <2>1, <2>2, ClearKept DEF CInv
<1>5. ASSUME NEW h \in Hooks, HookStep(h), NEW t \in Transfers, hook[h].t = t PROVE CInv'
  <2>1. Elsewhere(t) /\ lost' = lost /\ \A g \in Hooks \ {h} : hook'[g] = hook[g]
    BY <1>5, HookElsewhere
  <2>2. ClearAt(t)' /\ (hook'[h].pc = "idle" \/ hook'[h].t = t)
    BY <1>5, HookClear
  <2>3. ASSUME NEW u \in Transfers, u # t PROVE ClearAt(u)'
    <3>1. ASSUME NEW pc PROVE At(u, pc) => At(u, pc)'
      BY <1>5, <2>1, <2>3 DEF At
    <3> QED BY <2>1, <2>3, <3>1, ClearKept DEF Elsewhere
  <2> QED BY <2>1, <2>2, <2>3 DEF CInv
<1>6. ASSUME NEW h \in Hooks, AnyHookStep(h) PROVE CInv'
  <2>1. HookStep(h) \/ \E t \in Transfers : Deliver(h, t)
    BY <1>6, NoFaults
  <2>2. HookStep(h) => hook[h].t \in Transfers
    BY HookElsewhere
  <2> QED BY <1>4, <1>5, <2>1, <2>2
<1>7. CASE OtherStep
  BY <1>1, <1>7, OtherIsBooked
<1>8. CASE UNCHANGED vars
  BY <1>1, <1>8 DEF vars
<1> QED BY <1>2, <1>3, <1>6, <1>7, <1>8, NextCases

Calm == faults = 0 => CInv

\* Without faults, whatever webhooks are repeated and overlap, a transfer that
\* has come to its end and was returned at most once leaves nothing on the
\* clearing account: its hold is matched by one settlement or one reversal.
THEOREM ClearingNetsToZero == Spec => []ClearingIsRelieved
<1>1. Init => TypeOK /\ Backed /\ UInv /\ Calm
  BY TypeInit, BackedInit, UInvInit, CInvInit DEF Calm
<1>2. IInv /\ Backed /\ UInv /\ Calm /\ [Next]_vars => (Backed /\ UInv /\ Calm)'
  BY BackedNext, UInvNext, CInvNext, NoFaults DEF IInv, Calm
<1>3. IInv /\ Backed /\ UInv /\ Calm => ClearingIsRelieved
  <2> SUFFICES ASSUME IInv, Backed, UInv, CInv, NEW t \in Transfers, Terminal(xfer[t]), Quiet(t),
                      refunds[t] <= 1
               PROVE  journal[t]["hold"] = journal[t]["settle"] + journal[t]["reverse"]
    BY DEF Calm, ClearingIsRelieved
  <2>1. /\ ClearAt(t) /\ Unpaid(t) /\ RightAt(t) /\ BackedAt(t) /\ t \notin lost
        /\ saga[t].pc \in {"done", "dead"} /\ ~At(t, "postSettlement") /\ ~At(t, "postReversal")
    BY DEF CInv, UInv, IInv, XInv, Backed, Quiet, At, HookAt
  <2>2. /\ journal[t]["settle"] \in Nat /\ journal[t]["reverse"] \in Nat /\ refunds[t] \in Nat
        /\ Cardinality(Posting(t)) \in Nat /\ SagaPosting(t) \in Nat
    BY <2>1, FS_CardinalityType DEF BackedAt, SagaPosting, IInv, TypeOK, Entries
  <2>3. journal[t]["reverse"] <= refunds[t]
    BY <2>1, <2>2 DEF BackedAt
  <2>4. journal[t]["hold"] = 1
    BY <2>1 DEF ClearAt, Terminal, TerminalStatuses
  <2>5. CASE xfer[t].status = "SUCCESSFUL"
    <3>1. journal[t]["settle"] = 1 /\ refunds[t] = 0
      BY <2>1, <2>2, <2>5 DEF ClearAt, RightAt, Unpaid
    <3> QED BY <2>2, <2>3, <2>4, <3>1
  <2>6. CASE xfer[t].status = "REVERSED"
    <3>1. refunds[t] = 1 /\ payout[t] # "paid"
      BY <2>1, <2>2, <2>6 DEF RightAt, Unpaid
    <3>2. journal[t]["settle"] = 0 /\ journal[t]["reverse"] > 0
      BY <2>1, <2>2, <3>1 DEF ClearAt
    <3> QED BY <2>2, <2>3, <2>4, <3>1, <3>2
  <2> QED BY <2>1, <2>5, <2>6 DEF ClearAt
<1> QED BY <1>1, <1>2, <1>3, Inductive, PTL DEF Spec
=============================================================================
