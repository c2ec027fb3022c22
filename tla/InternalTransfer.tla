-------------------------- MODULE InternalTransfer --------------------------
(***************************************************************************)
(* Internal transfers: PrismaInternalTransferExecutor, one database        *)
(* transaction per transfer under PostgreSQL's READ COMMITTED.  Reads see  *)
(* committed rows; the two conditional updates take row locks that are     *)
(* held to the end of the transaction; a transaction waiting in a cycle of *)
(* locks is aborted by the database.  What a transaction has written is    *)
(* seen by nobody before it commits, so its writes are computed at Commit  *)
(* from the aggregates it holds.                                           *)
(*                                                                         *)
(* WithinCapUnchecked, FailUpdateOnly and FailAndRetry are plausible       *)
(* mistakes in the code of the definition below them; no behaviour uses    *)
(* them.                                                                   *)
(***************************************************************************)
EXTENDS AccountEntity, TransferEntity, FiniteSetsExt

CONSTANTS
  Accounts,
  Transfers,    \* transfer requests
  NoTx,         \* owner of a row lock nobody holds
  Source,       \* source account of each transfer
  Destination,  \* destination account of each transfer
  Amount,       \* amount of each transfer (the fee of internal transfers is 0)
  Row0,         \* the accounts before the first transfer
  Cap,          \* maximum balance of the owners' KYC tier
  OtherAmounts, \* amounts of other credits and debits
  MaxOthers,    \* bound: other operations on the accounts
  MaxFaults     \* bound: faults

ASSUME TransferAssumption ==
  /\ Source \in [Transfers -> Accounts] /\ Destination \in [Transfers -> Accounts]
  /\ \A t \in Transfers : Source[t] # Destination[t]  \* SelfTransferNotAllowedException
  /\ Amount \in [Transfers -> Nat]
  /\ NoTx \notin Transfers

ASSUME RowAssumption ==
  Row0 \in [Accounts -> AccountRow] /\ Cap \in Nat /\ \A a \in Accounts : Row0[a].balance <= Cap

\* A table has finitely many rows.
ASSUME AccountsAssumption == IsFiniteSet(Accounts)

ASSUME OtherAssumption == OtherAmounts \subseteq Nat /\ MaxOthers \in Nat /\ MaxFaults \in Nat

VARIABLES
  rows,    \* the committed account rows
  lock,    \* owner of each account's row lock
  xfer,    \* the transfers table
  tx,      \* the requests: next step and the aggregates in memory
  others,  \* other operations so far
  faults,  \* faults so far
  book     \* history: per account, the sum of what has succeeded

vars == <<rows, lock, xfer, tx, others, faults, book>>

\* Before, inside and after the transaction.
InTx  == {"loadDestination", "check", "writeSource", "writeDestination", "create", "commit"}
Ended == {"done", "refused", "error", "dead"}
Steps == {"start", "loadSource", "fail"} \cup InTx \cup Ended

TypeOK ==
  /\ rows \in [Accounts -> AccountRow]
  /\ lock \in [Accounts -> Transfers \cup {NoTx}]
  /\ xfer \in [Transfers -> TransferRow]
  /\ tx \in [Transfers -> [pc: Steps, src: AccountRow, dst: AccountRow, mem: TransferRow]]
  /\ others \in Nat
  /\ faults \in Nat
  /\ book \in [Accounts -> Int]

Fresh(t) == [pc |-> "start", src |-> Row0[Source[t]], dst |-> Row0[Destination[t]],
             mem |-> Initiated]

Init ==
  /\ rows = Row0
  /\ lock = [a \in Accounts |-> NoTx]
  /\ xfer = [t \in Transfers |-> NoTransfer]
  /\ tx = [t \in Transfers |-> Fresh(t)]
  /\ others = 0
  /\ faults = 0
  /\ book = [a \in Accounts |-> Row0[a].balance]

-----------------------------------------------------------------------------
At(t, pc) == tx[t].pc = pc

Set(t, pc, src, dst, mem) ==
  tx' = [tx EXCEPT ![t] = [pc |-> pc, src |-> src, dst |-> dst, mem |-> mem]]

Goto(t, pc) == Set(t, pc, tx[t].src, tx[t].dst, tx[t].mem)

\* The handler's own checks: account missing, not the owner, over a limit.
Refuse(t) ==
  /\ At(t, "start")
  /\ Goto(t, "refused")
  /\ UNCHANGED <<rows, lock, xfer, others, faults, book>>

Begin(t) ==
  /\ At(t, "start")
  /\ Goto(t, "loadSource")
  /\ UNCHANGED <<rows, lock, xfer, others, faults, book>>

LoadSource(t) ==
  /\ At(t, "loadSource")
  /\ Set(t, "loadDestination", rows[Source[t]], tx[t].dst, tx[t].mem)
  /\ UNCHANGED <<rows, lock, xfer, others, faults, book>>

LoadDestination(t) ==
  /\ At(t, "loadDestination")
  /\ Set(t, "check", tx[t].src, rows[Destination[t]], tx[t].mem)
  /\ UNCHANGED <<rows, lock, xfer, others, faults, book>>

\* A destination that does not exist, or is kept in another currency.
WrongDestination(t) ==
  /\ At(t, "loadDestination")
  /\ Goto(t, "fail")
  /\ UNCHANGED <<rows, lock, xfer, others, faults, book>>

\* debit, the max-balance guard and credit, all on the loaded aggregates.
WithinCapUnchecked(t) == CanDebit(tx[t].src, Amount[t]) /\ Operable(tx[t].dst)
Allowed(t) ==
  /\ CanDebit(tx[t].src, Amount[t])
  /\ tx[t].dst.balance + Amount[t] <= Cap
  /\ Operable(tx[t].dst)

Check(t) ==
  /\ At(t, "check")
  /\ Goto(t, IF Allowed(t) THEN "writeSource" ELSE "fail")
  /\ UNCHANGED <<rows, lock, xfer, others, faults, book>>

(***************************************************************************)
(* saveAccountInTransaction.  No row with the expected version: count is 0 *)
(* and the callback throws.  A matching row that is locked: wait.          *)
(***************************************************************************)
Unlocked(t) == [a \in Accounts |-> IF lock[a] = t THEN NoTx ELSE lock[a]]

Write(t, a, new, next) ==
  \/ /\ MaySave(rows[a], new)
     /\ lock[a] = NoTx
     /\ lock' = [lock EXCEPT ![a] = t]
     /\ Goto(t, next)
     /\ UNCHANGED <<rows, xfer, others, faults, book>>
  \/ /\ ~MaySave(rows[a], new)
     /\ lock' = Unlocked(t)
     /\ Goto(t, "fail")
     /\ UNCHANGED <<rows, xfer, others, faults, book>>

NewSource(t)      == Debited(tx[t].src, Amount[t])
NewDestination(t) == Credited(tx[t].dst, Amount[t])

WriteSource(t) ==
  At(t, "writeSource") /\ Write(t, Source[t], NewSource(t), "writeDestination")

WriteDestination(t) ==
  At(t, "writeDestination") /\ Write(t, Destination[t], NewDestination(t), "create")

\* The journal entries, markSuccessful and the transfer row.
Create(t) ==
  /\ At(t, "create")
  /\ Set(t, "commit", tx[t].src, tx[t].dst, MarkedSuccessful(tx[t].mem))
  /\ UNCHANGED <<rows, lock, xfer, others, faults, book>>

Applied(t) ==
  /\ rows' = [rows EXCEPT ![Source[t]] = NewSource(t), ![Destination[t]] = NewDestination(t)]
  /\ book' = [book EXCEPT ![Source[t]] = @ - Amount[t], ![Destination[t]] = @ + Amount[t]]
  /\ xfer' = [xfer EXCEPT ![t] = tx[t].mem]
  /\ lock' = Unlocked(t)

Commit(t) ==
  /\ At(t, "commit")
  /\ Applied(t)
  /\ Goto(t, "done")
  /\ UNCHANGED <<others, faults>>

FailUpdateOnly(t) ==
  /\ At(t, "fail")
  /\ Goto(t, "error")
  /\ UNCHANGED <<rows, lock, xfer, others, faults, book>>

FailAndRetry(t) ==
  /\ At(t, "fail")
  /\ Set(t, "loadSource", tx[t].src, tx[t].dst, Initiated)
  /\ UNCHANGED <<rows, lock, xfer, others, faults, book>>

\* The catch block.  save finds no row to update and creates one; markFailed
\* refuses when the callback had already marked the transfer SUCCESSFUL.
Fail(t) ==
  /\ At(t, "fail")
  /\ xfer' = IF ~Terminal(tx[t].mem) /\ MaySaveTransfer(xfer[t], MarkedFailed(tx[t].mem))
             THEN [xfer EXCEPT ![t] = MarkedFailed(tx[t].mem)] ELSE xfer
  /\ Goto(t, "error")
  /\ UNCHANGED <<rows, lock, others, faults, book>>

-----------------------------------------------------------------------------
(***************************************************************************)
(* The database and the process.                                           *)
(***************************************************************************)
Wanted(t) == IF At(t, "writeSource") THEN Source[t] ELSE Destination[t]

WaitsFor(t, u) ==
  /\ tx[t].pc \in {"writeSource", "writeDestination"}
  /\ t # u /\ lock[Wanted(t)] = u

\* Deadlock detection aborts a member of a cycle of waiting transactions.
DeadlockVictim(t) ==
  /\ \E S \in SUBSET Transfers :
       /\ t \in S
       /\ \A u \in S : \E v \in S : WaitsFor(u, v)
       /\ \A v \in S : \E u \in S : WaitsFor(u, v)
  /\ lock' = Unlocked(t)
  /\ Goto(t, "fail")
  /\ UNCHANGED <<rows, xfer, others, faults, book>>

\* The 15 s transaction timeout, or a lost connection: rolled back.
Abort(t) ==
  /\ tx[t].pc \in InTx \cup {"loadSource"}
  /\ faults < MaxFaults /\ faults' = faults + 1
  /\ lock' = Unlocked(t)
  /\ Goto(t, "fail")
  /\ UNCHANGED <<rows, xfer, others, book>>

\* Committed, but the answer is lost: the catch block runs all the same.
CommitLost(t) ==
  /\ At(t, "commit")
  /\ faults < MaxFaults /\ faults' = faults + 1
  /\ Applied(t)
  /\ Goto(t, "fail")
  /\ UNCHANGED others

Crash(t) ==
  /\ tx[t].pc \notin Ended
  /\ faults < MaxFaults /\ faults' = faults + 1
  /\ lock' = Unlocked(t)
  /\ Goto(t, "dead")
  /\ UNCHANGED <<rows, xfer, others, book>>

\* Any other operation on an account; its update waits for the row lock too.
Other(a, new, delta) ==
  /\ lock[a] = NoTx
  /\ others < MaxOthers /\ others' = others + 1
  /\ rows' = [rows EXCEPT ![a] = new]
  /\ book' = [book EXCEPT ![a] = @ + delta]
  /\ UNCHANGED <<lock, xfer, tx, faults>>

OtherCredit(a, m) ==
  /\ Operable(rows[a]) /\ rows[a].balance + m <= Cap
  /\ Other(a, Credited(rows[a], m), m)

OtherDebit(a, m)  == CanDebit(rows[a], m) /\ Other(a, Debited(rows[a], m), -m)
OtherFreeze(a)    == Other(a, Frozen(rows[a]), 0)
OtherUnfreeze(a)  == Other(a, Unfrozen(rows[a]), 0)
OtherClose(a)     == CanClose(rows[a]) /\ Other(a, Closed(rows[a]), 0)

-----------------------------------------------------------------------------
Step(t) ==
  \/ Refuse(t) \/ Begin(t) \/ LoadSource(t) \/ LoadDestination(t)
  \/ WrongDestination(t) \/ Check(t)
  \/ WriteSource(t) \/ WriteDestination(t) \/ Create(t) \/ Commit(t) \/ Fail(t)

Next ==
  \/ \E t \in Transfers :
       Step(t) \/ DeadlockVictim(t) \/ Abort(t) \/ CommitLost(t) \/ Crash(t)
  \/ \E a \in Accounts :
       \/ \E m \in OtherAmounts : OtherCredit(a, m) \/ OtherDebit(a, m)
       \/ OtherFreeze(a) \/ OtherUnfreeze(a) \/ OtherClose(a)

Spec == Init /\ [][Next]_vars

\* A live process goes on, and PostgreSQL breaks every deadlock it detects.
Fairness ==
  /\ \A t \in Transfers : WF_vars(Step(t))
  /\ WF_vars(\E t \in Transfers : DeadlockVictim(t))

FairSpec == Spec /\ Fairness

-----------------------------------------------------------------------------
(***************************************************************************)
(* Properties.                                                             *)
(***************************************************************************)

\* Transfers that cross, chain or compete with other operations neither lose
\* nor repeat an update: each balance is the sum of what has succeeded.
BalanceIsBook == \A a \in Accounts : rows[a].balance = book[a]

\* Money is conserved: while nothing but internal transfers happens, the
\* balances add up to what they were, committed state by committed state.
Conservation ==
  others = 0 => MapThenSumSet(LAMBDA a : rows[a].balance, Accounts)
                  = MapThenSumSet(LAMBDA a : Row0[a].balance, Accounts)

\* prisma-internal-transfer-executor.service.ts:131-135: the destination's
\* ceiling "has no race-condition caveat", although the guard sees a row read
\* before the locks were taken.
WithinCap == \A a \in Accounts : rows[a].balance <= Cap

\* No transfer moves money out of or into an account that was frozen between
\* its load and its commit.
OnlyActiveMoves ==
  [][\A a \in Accounts : rows'[a].balance # rows[a].balance =>
       rows[a].status = "ACTIVE" /\ rows'[a].status = "ACTIVE"]_vars

\* prisma-internal-transfer-executor.service.ts:52-58: when the transaction
\* throws, "a Transfer row is still persisted ... with status FAILED, so
\* failed attempts remain auditable".
FailureIsAudited == \A t \in Transfers : At(t, "error") => xfer[t].status = "FAILED"

\* That comment holds until the first abort, lost answer or crash: refusals,
\* version conflicts and deadlocks all leave their FAILED row.
AuditedUntilFault == faults = 0 => FailureIsAudited

\* Opposite transfers lock their accounts in opposite orders, and a conflict
\* is reported ("please retry"), never retried by the executor: with the
\* database's deadlock detection, every request comes to an end.
EveryTransferEnds == \A t \in Transfers : <>(tx[t].pc \in Ended)
=============================================================================
