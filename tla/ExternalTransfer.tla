-------------------------- MODULE ExternalTransfer --------------------------
(***************************************************************************)
(* External transfers out of one account: the saga of                      *)
(* InitiateExternalTransferHandler, the payout provider, and the webhook   *)
(* handler ConfirmExternalTransferHandler, interleaved with everything     *)
(* else that happens to the account.  Every await is a step of its own.    *)
(*                                                                         *)
(* The provider keeps an outcome available for delivery for ever: a        *)
(* webhook may be lost, delayed, repeated or handled twice at once.        *)
(* Faults (a database error, a crash, a lost response of the provider) are *)
(* bounded by MaxFaults.  The other operations on the account are the      *)
(* atomic ones of AccountRegister, which the Accounts module implements.   *)
(*                                                                         *)
(* PostAsHold, FoundPending, AlwaysConfirm, AlwaysCompensate, SkipRefund   *)
(* and PostFirst are plausible mistakes in the code of the definition      *)
(* below them; no behaviour uses them.                                     *)
(***************************************************************************)
EXTENDS AccountEntity, TransferEntity, FiniteSets

CONSTANTS
  Transfers,    \* transfer requests
  Hooks,        \* webhook deliveries that may be in service at once
  Total,        \* amount plus fee of each transfer, minor units
  Account0,     \* the source account before the first transfer
  OtherAmounts, \* amounts of other credits and debits
  Cap,          \* maximum balance of the owner's KYC tier
  MaxOthers,    \* bound: other operations on the account
  MaxFaults     \* bound: faults

ASSUME TransfersAssumption == Transfers # {}
ASSUME TotalAssumption == Total \in [Transfers -> Nat \ {0}]
ASSUME Account0Assumption == Account0 \in AccountRow
ASSUME OtherAssumption ==
  OtherAmounts \subseteq Nat /\ Cap \in Nat /\ MaxOthers \in Nat /\ MaxFaults \in Nat

VARIABLES
  acct,      \* the source account's row
  xfer,      \* the transfers table
  journal,   \* postings per transfer: hold, settlement, reversal
  saga,      \* the request handlers, with what they hold in memory
  hook,      \* the webhook handlers, with what they hold in memory
  payout,    \* the provider's truth about each payout
  others,    \* other operations so far
  faults,    \* faults so far
  lost,      \* history: transfers whose saga met an error once it had asked for a payout
  book,      \* history: sum of every operation that succeeded on the account
  refunds    \* history: compensating credits per transfer

vars == <<acct, xfer, journal, saga, hook, payout, others, faults, lost, book, refunds>>

\* The steps of a saga, named for what comes next.
TrySteps   == {"pay", "settle", "save"}
CatchSteps == {"reload", "refund", "postReversal", "reverse"}
SagaSteps  == {"load", "debit", "record", "hold"} \cup TrySteps \cup CatchSteps
                \cup {"done", "dead"}
HookSteps  == {"idle", "confirm", "postSettlement", "reload", "refund",
               "postReversal", "reverse"}

Entries == {"hold", "settle", "reverse"}

TypeOK ==
  /\ acct \in AccountRow
  /\ xfer \in [Transfers -> TransferRow]
  /\ journal \in [Transfers -> [Entries -> Nat]]
  /\ saga \in [Transfers -> [pc: SagaSteps, snap: AccountRow, mem: TransferRow]]
  /\ hook \in [Hooks -> [pc: HookSteps, t: Transfers, row: TransferRow, snap: AccountRow]]
  /\ payout \in [Transfers -> {"none", "accepted", "paid", "failed"}]
  /\ others \in Nat
  /\ faults \in Nat
  /\ lost \subseteq Transfers
  /\ book \in Int
  /\ refunds \in [Transfers -> Nat]

NoHook == [pc |-> "idle", t |-> CHOOSE t \in Transfers : TRUE, row |-> NoTransfer,
           snap |-> Account0]

Init ==
  /\ acct = Account0
  /\ xfer = [t \in Transfers |-> NoTransfer]
  /\ journal = [t \in Transfers |-> [e \in Entries |-> 0]]
  /\ saga = [t \in Transfers |-> [pc |-> "load", snap |-> Account0, mem |-> NoTransfer]]
  /\ hook = [h \in Hooks |-> NoHook]
  /\ payout = [t \in Transfers |-> "none"]
  /\ others = 0
  /\ faults = 0
  /\ lost = {}
  /\ book = Account0.balance
  /\ refunds = [t \in Transfers |-> 0]

-----------------------------------------------------------------------------
(***************************************************************************)
(* The saga of one transfer.  Goto drops the account snapshot: each try or *)
(* catch section loads its own.                                            *)
(***************************************************************************)
SagaAt(t, pc) == saga[t].pc = pc

Goto(t, pc, mem) == saga' = [saga EXCEPT ![t] = [pc |-> pc, snap |-> Account0, mem |-> mem]]

LoadInto(t, pc) ==
  saga' = [saga EXCEPT ![t] = [pc |-> pc, snap |-> acct, mem |-> saga[t].mem]]

SagaLoad(t) ==
  /\ SagaAt(t, "load")
  /\ LoadInto(t, "debit")
  /\ UNCHANGED <<acct, xfer, journal, hook, payout, others, faults, lost, book, refunds>>

\* Not the owner, unparsable amount, over a KYC transfer limit, bad recipient:
\* any of the checks before the debit may end the request.
SagaRefuse(t) ==
  /\ SagaAt(t, "debit")
  /\ Goto(t, "done", saga[t].mem)
  /\ UNCHANGED <<acct, xfer, journal, hook, payout, others, faults, lost, book, refunds>>

\* Step 1: Account.debit and the conditional save.
SagaDebit(t) ==
  LET new == Debited(saga[t].snap, Total[t])
      ok  == MaySave(acct, new)
  IN /\ SagaAt(t, "debit")
     /\ CanDebit(saga[t].snap, Total[t])
     /\ acct' = IF ok THEN new ELSE acct
     /\ book' = IF ok THEN book - Total[t] ELSE book
     /\ Goto(t, IF ok THEN "record" ELSE "done", saga[t].mem)
     /\ UNCHANGED <<xfer, journal, hook, payout, others, faults, lost, refunds>>

\* Step 2: the PENDING row.
SagaRecord(t) ==
  /\ SagaAt(t, "record")
  /\ xfer' = [xfer EXCEPT ![t] = Initiated]
  /\ Goto(t, "hold", Initiated)
  /\ UNCHANGED <<acct, journal, hook, payout, others, faults, lost, book, refunds>>

PostAsHold(t, entry) == journal' = [journal EXCEPT ![t]["hold"] = @ + 1]
Post(t, entry) == journal' = [journal EXCEPT ![t][entry] = @ + 1]

\* The debit of the customer against the clearing account.
SagaHold(t) ==
  /\ SagaAt(t, "hold")
  /\ Post(t, "hold")
  /\ Goto(t, "pay", saga[t].mem)
  /\ UNCHANGED <<acct, xfer, hook, payout, others, faults, lost, book, refunds>>

\* Step 3: the provider accepts the payout, has settled it, or refuses it.
SagaPay(t) ==
  /\ SagaAt(t, "pay")
  /\ \/ /\ payout' = [payout EXCEPT ![t] = "accepted"]
        /\ Goto(t, "save", MarkedProcessing(saga[t].mem))
     \/ /\ payout' = [payout EXCEPT ![t] = "paid"]
        /\ Goto(t, "settle", MarkedSuccessful(saga[t].mem))
     \/ /\ Goto(t, "reload", saga[t].mem)
        /\ UNCHANGED payout
  /\ UNCHANGED <<acct, xfer, journal, hook, others, faults, lost, book, refunds>>

\* The provider accepts, but its answer is lost or later than 15 s.
SagaPayTimeout(t) ==
  /\ SagaAt(t, "pay")
  /\ faults < MaxFaults /\ faults' = faults + 1
  /\ lost' = lost \cup {t}
  /\ payout' = [payout EXCEPT ![t] = "accepted"]
  /\ Goto(t, "reload", saga[t].mem)
  /\ UNCHANGED <<acct, xfer, journal, hook, others, book, refunds>>

SagaSettle(t) ==
  /\ SagaAt(t, "settle")
  /\ Post(t, "settle")
  /\ Goto(t, "save", saga[t].mem)
  /\ UNCHANGED <<acct, xfer, hook, payout, others, faults, lost, book, refunds>>

\* save(transfer); a version conflict is one more error that lands in the catch.
SagaSave(t) ==
  LET ok == MaySaveTransfer(xfer[t], saga[t].mem)
  IN /\ SagaAt(t, "save")
     /\ xfer' = IF ok THEN [xfer EXCEPT ![t] = saga[t].mem] ELSE xfer
     /\ Goto(t, IF ok THEN "done" ELSE "reload", saga[t].mem)
     /\ UNCHANGED <<acct, journal, hook, payout, others, faults, lost, book, refunds>>

\* The row is stored but the database's answer is lost: the catch block runs
\* although the transfer is PROCESSING or SUCCESSFUL.
SagaSaveLost(t) ==
  /\ SagaAt(t, "save")
  /\ MaySaveTransfer(xfer[t], saga[t].mem)
  /\ faults < MaxFaults /\ faults' = faults + 1
  /\ lost' = lost \cup {t}
  /\ xfer' = [xfer EXCEPT ![t] = saga[t].mem]
  /\ Goto(t, "reload", saga[t].mem)
  /\ UNCHANGED <<acct, journal, hook, payout, others, book, refunds>>

\* The catch block: reload the account, credit it, post, mark REVERSED.
SagaReload(t) ==
  /\ SagaAt(t, "reload")
  /\ LoadInto(t, "refund")
  /\ UNCHANGED <<acct, xfer, journal, hook, payout, others, faults, lost, book, refunds>>

\* credit throws on an account that is no longer ACTIVE, save on a conflict:
\* either escapes the catch block and nothing returns the money.  The branch
\* for an account that is not found is left out: no code deletes an account.
SagaRefund(t) ==
  LET new == Credited(saga[t].snap, Total[t])
      ok  == Operable(saga[t].snap) /\ MaySave(acct, new)
  IN /\ SagaAt(t, "refund")
     /\ acct' = IF ok THEN new ELSE acct
     /\ book' = IF ok THEN book + Total[t] ELSE book
     /\ refunds' = IF ok THEN [refunds EXCEPT ![t] = @ + 1] ELSE refunds
     /\ Goto(t, IF ok THEN "postReversal" ELSE "dead", saga[t].mem)
     /\ UNCHANGED <<xfer, journal, hook, payout, others, faults, lost>>

SagaPostReversal(t) ==
  /\ SagaAt(t, "postReversal")
  /\ Post(t, "reverse")
  /\ Goto(t, "reverse", saga[t].mem)
  /\ UNCHANGED <<acct, xfer, hook, payout, others, faults, lost, book, refunds>>

\* markReversed works on the in-memory transfer, which a failed try section may
\* have left terminal or one version ahead of the row.
SagaReverse(t) ==
  LET new == MarkedReversed(saga[t].mem)
      ok  == ~Terminal(saga[t].mem) /\ MaySaveTransfer(xfer[t], new)
  IN /\ SagaAt(t, "reverse")
     /\ xfer' = IF ok THEN [xfer EXCEPT ![t] = new] ELSE xfer
     /\ Goto(t, IF ok THEN "done" ELSE "dead", new)
     /\ UNCHANGED <<acct, journal, hook, payout, others, faults, lost, book, refunds>>

\* A database call throws: inside the try it leads to the catch block.
SagaError(t) ==
  /\ saga[t].pc \in SagaSteps \ {"done", "dead", "load", "debit", "pay"}
  /\ faults < MaxFaults /\ faults' = faults + 1
  /\ lost' = IF saga[t].pc \in TrySteps THEN lost \cup {t} ELSE lost
  /\ Goto(t, IF saga[t].pc \in TrySteps THEN "reload" ELSE "dead", saga[t].mem)
  /\ UNCHANGED <<acct, xfer, journal, hook, payout, others, book, refunds>>

\* The process dies: nothing in memory survives and no recovery job exists.
SagaCrash(t) ==
  /\ saga[t].pc \notin {"done", "dead"}
  /\ faults < MaxFaults /\ faults' = faults + 1
  /\ Goto(t, "dead", saga[t].mem)
  /\ UNCHANGED <<acct, xfer, journal, hook, payout, others, lost, book, refunds>>

-----------------------------------------------------------------------------
(***************************************************************************)
(* The provider, and the webhook handler.                                  *)
(***************************************************************************)
ProviderResolves(t) ==
  /\ payout[t] = "accepted"
  /\ \E o \in {"paid", "failed"} : payout' = [payout EXCEPT ![t] = o]
  /\ UNCHANGED <<acct, xfer, journal, saga, hook, others, faults, lost, book, refunds>>

HookAt(h, pc) == hook[h].pc = pc

HookGoto(h, pc, row) ==
  hook' = [hook EXCEPT ![h] = [pc |-> pc, t |-> hook[h].t, row |-> row, snap |-> Account0]]

HookDone(h) == hook' = [hook EXCEPT ![h] = NoHook]

\* The duplicate check: a transfer already terminal is a silent no-op, a
\* reference no row carries is a 404; neither changes anything.
FoundPending(row) == row.ref /\ row.status = "PENDING"
Found(row) == row.ref /\ ~Terminal(row)

\* A paid transfer is confirmed, a failed one compensated.
AlwaysConfirm(outcome)    == "confirm"
AlwaysCompensate(outcome) == "reload"
SkipRefund(outcome)  == IF outcome = "paid" THEN "confirm" ELSE "reverse"
PostFirst(outcome)   == IF outcome = "paid" THEN "confirm" ELSE "postReversal"
FirstStep(outcome)   == IF outcome = "paid" THEN "confirm" ELSE "reload"

Deliver(h, t) ==
  /\ HookAt(h, "idle")
  /\ payout[t] \in {"paid", "failed"}
  /\ Found(xfer[t])
  /\ hook' = [hook EXCEPT ![h] =
       [pc |-> FirstStep(payout[t]), t |-> t, row |-> xfer[t], snap |-> Account0]]
  /\ UNCHANGED <<acct, xfer, journal, saga, payout, others, faults, lost, book, refunds>>

\* Success: save first, then post the settlement.
HookConfirm(h) ==
  LET t   == hook[h].t
      new == MarkedSuccessful(hook[h].row)
      ok  == MaySaveTransfer(xfer[t], new)
  IN /\ HookAt(h, "confirm")
     /\ xfer' = IF ok THEN [xfer EXCEPT ![t] = new] ELSE xfer
     /\ IF ok THEN HookGoto(h, "postSettlement", new) ELSE HookDone(h)
     /\ UNCHANGED <<acct, journal, saga, payout, others, faults, lost, book, refunds>>

HookPostSettlement(h) ==
  /\ HookAt(h, "postSettlement")
  /\ Post(hook[h].t, "settle")
  /\ HookDone(h)
  /\ UNCHANGED <<acct, xfer, saga, payout, others, faults, lost, book, refunds>>

\* Late failure: load the account, credit it, post, and only then save.
HookReload(h) ==
  /\ HookAt(h, "reload")
  /\ hook' = [hook EXCEPT ![h] =
       [pc |-> "refund", t |-> hook[h].t, row |-> hook[h].row, snap |-> acct]]
  /\ UNCHANGED <<acct, xfer, journal, saga, payout, others, faults, lost, book, refunds>>

\* As in SagaRefund, the account is always found.
HookRefund(h) ==
  LET t   == hook[h].t
      new == Credited(hook[h].snap, Total[t])
      ok  == Operable(hook[h].snap) /\ MaySave(acct, new)
  IN /\ HookAt(h, "refund")
     /\ acct' = IF ok THEN new ELSE acct
     /\ book' = IF ok THEN book + Total[t] ELSE book
     /\ refunds' = IF ok THEN [refunds EXCEPT ![t] = @ + 1] ELSE refunds
     /\ IF ok THEN HookGoto(h, "postReversal", hook[h].row) ELSE HookDone(h)
     /\ UNCHANGED <<xfer, journal, saga, payout, others, faults, lost>>

HookPostReversal(h) ==
  /\ HookAt(h, "postReversal")
  /\ Post(hook[h].t, "reverse")
  /\ HookGoto(h, "reverse", hook[h].row)
  /\ UNCHANGED <<acct, xfer, saga, payout, others, faults, lost, book, refunds>>

HookReverse(h) ==
  LET t   == hook[h].t
      new == MarkedReversed(hook[h].row)
      ok  == MaySaveTransfer(xfer[t], new)
  IN /\ HookAt(h, "reverse")
     /\ xfer' = IF ok THEN [xfer EXCEPT ![t] = new] ELSE xfer
     /\ HookDone(h)
     /\ UNCHANGED <<acct, journal, saga, payout, others, faults, lost, book, refunds>>

\* An error or a crash while a webhook is served: the provider sees a non-2xx
\* answer (or none) and will deliver again.
HookFault(h) ==
  /\ ~HookAt(h, "idle")
  /\ faults < MaxFaults /\ faults' = faults + 1
  /\ HookDone(h)
  /\ UNCHANGED <<acct, xfer, journal, saga, payout, others, lost, book, refunds>>

-----------------------------------------------------------------------------
(***************************************************************************)
(* Everything else that happens to the account.                            *)
(***************************************************************************)
Other(new, delta) ==
  /\ others < MaxOthers
  /\ others' = others + 1
  /\ acct' = new
  /\ book' = book + delta
  /\ UNCHANGED <<xfer, journal, saga, hook, payout, faults, lost, refunds>>

OtherCredit(m) == Operable(acct) /\ acct.balance + m <= Cap /\ Other(Credited(acct, m), m)
OtherDebit(m)  == CanDebit(acct, m) /\ Other(Debited(acct, m), -m)
OtherFreeze    == Other(Frozen(acct), 0)
OtherUnfreeze  == Other(Unfrozen(acct), 0)
OtherClose     == CanClose(acct) /\ Other(Closed(acct), 0)

-----------------------------------------------------------------------------
SagaStep(t) ==
  \/ SagaLoad(t) \/ SagaRefuse(t) \/ SagaDebit(t) \/ SagaRecord(t) \/ SagaHold(t)
  \/ SagaPay(t) \/ SagaSettle(t) \/ SagaSave(t) \/ SagaReload(t) \/ SagaRefund(t)
  \/ SagaPostReversal(t) \/ SagaReverse(t)

HookStep(h) ==
  \/ HookConfirm(h) \/ HookPostSettlement(h) \/ HookReload(h) \/ HookRefund(h)
  \/ HookPostReversal(h) \/ HookReverse(h)

Next ==
  \/ \E t \in Transfers :
       \/ SagaStep(t)
       \/ SagaPayTimeout(t) \/ SagaSaveLost(t) \/ SagaError(t) \/ SagaCrash(t)
       \/ ProviderResolves(t)
       \/ \E h \in Hooks : Deliver(h, t)
  \/ \E h \in Hooks : HookStep(h) \/ HookFault(h)
  \/ \E m \in OtherAmounts : OtherCredit(m) \/ OtherDebit(m)
  \/ OtherFreeze \/ OtherUnfreeze \/ OtherClose

Spec == Init /\ [][Next]_vars

(***************************************************************************)
(* Started handlers run on, the provider decides every payout it accepted, *)
(* and it repeats a webhook until it is answered with 2xx                  *)
(* (flutterwave-transfer-webhook.controller.ts:41), so a delivery that is  *)
(* possible again and again is eventually made.                            *)
(***************************************************************************)
Fairness ==
  /\ \A t \in Transfers : WF_vars(SagaStep(t)) /\ WF_vars(ProviderResolves(t))
  /\ \A t \in Transfers : SF_vars(\E h \in Hooks : Deliver(h, t))
  /\ \A h \in Hooks : WF_vars(HookStep(h))

FairSpec == Spec /\ Fairness

-----------------------------------------------------------------------------
(***************************************************************************)
(* Properties.                                                             *)
(***************************************************************************)

\* However sagas, webhooks and other operations interleave between load and
\* save, the balance is exactly the sum of the operations that succeeded.
BalanceIsBook == acct.balance = book

\* transfer.entity.ts:176-180: a transfer is REVERSED only after a compensating
\* credit has been applied, also when handlers of one transfer overlap.
ReversedIsRefunded ==
  \A t \in Transfers : xfer[t].status = "REVERSED" => refunds[t] >= 1

\* A transfer shown as SUCCESSFUL was really paid out by the provider.
SuccessfulIsPaid ==
  \A t \in Transfers : xfer[t].status = "SUCCESSFUL" => payout[t] = "paid"

\* The clearing account is settled at most once per transfer, although the
\* settlement is posted outside the transaction that marks the transfer.
SettledOnce == \A t \in Transfers : journal[t]["settle"] <= 1

\* No payout is requested before the debit is stored, the row exists and the
\* hold is in the journal, so that a crash never leaves an unrecorded payout.
PayoutIsCovered ==
  \A t \in Transfers : payout[t] # "none" =>
    xfer[t].status # "NONE" /\ journal[t]["hold"] = 1

\* A reversal is journalled only for a credit that really was made.
ReversalIsBacked == \A t \in Transfers : journal[t]["reverse"] <= refunds[t]

\* The life of a transfer: a terminal status never changes, and nothing goes
\* back to PENDING, whichever handler writes last.
Edges == {<<"NONE", "PENDING">>, <<"PENDING", "PROCESSING">>,
          <<"PENDING", "SUCCESSFUL">>, <<"PENDING", "REVERSED">>,
          <<"PROCESSING", "SUCCESSFUL">>, <<"PROCESSING", "REVERSED">>}

StatusFollowsEdges ==
  [][\A t \in Transfers : xfer'[t].status # xfer[t].status =>
       <<xfer[t].status, xfer'[t].status>> \in Edges]_vars

\* confirm-external-transfer.handler.ts:35-36: "re-processing a duplicate
\* delivery must never double-compensate or double-complete a transfer".
RefundedOnce == \A t \in Transfers : refunds[t] <= 1

\* Money that left through the provider is not also returned to the customer,
\* however sagas and webhook handlers crash, fail and overlap: the one way to
\* it is an error in the saga after it asked for the payout, such as an answer
\* that took more than 15 s.
NotPaidAndRefunded ==
  \A t \in Transfers : t \notin lost => ~(payout[t] = "paid" /\ refunds[t] > 0)

\* Once nobody works on a terminal transfer, its clearing entries net to zero
\* (transfers/implementation.md:193-203), unless a fault came between two
\* writes or overlapping webhooks returned the money twice.
Quiet(t) == saga[t].pc \in {"done", "dead"} /\ \A h \in Hooks : HookAt(h, "idle") \/ hook[h].t # t

ClearingIsRelieved ==
  faults = 0 =>
    \A t \in Transfers : Terminal(xfer[t]) /\ Quiet(t) /\ refunds[t] <= 1 =>
      journal[t]["hold"] = journal[t]["settle"] + journal[t]["reverse"]

\* Every transfer the provider is processing is resolved in the end, unless
\* the account cannot take the money back because it is not ACTIVE.
ProcessingResolves ==
  \A t \in Transfers :
    xfer[t].status = "PROCESSING" ~> Terminal(xfer[t]) \/ ~Operable(acct)
=============================================================================
