----------------------- MODULE InternalTransferProofs -----------------------
(***************************************************************************)
(* Proofs about the transfer executor and about what stands before it.     *)
(* InternalTransfer, for any number of accounts, transfers, amounts,       *)
(* faults and other operations, comes first; then sums over finite sets,   *)
(* the conservation of money, and TransferLimits.                          *)
(*                                                                         *)
(* The two reads of a transaction take no lock, so the invariant says of   *)
(* what it has read only that it is outdated by version or current         *)
(* (Behind).  The conditional update checks the version and locks the row  *)
(* in one step, so from then on the row is the aggregate it was checked    *)
(* on (Knows), and the checks made before the locks still hold at Commit.  *)
(***************************************************************************)
EXTENDS InternalTransfer, TransferLimits, FiniteSetTheorems, WellFoundedInduction, TLAPS

TxRec == [pc: Steps, src: AccountRow, dst: AccountRow, mem: TransferRow]

Behind(s, row) == s.version <= row.version /\ (s.version = row.version => s = row)

HasSource == {"writeDestination", "create", "commit"}
HasBoth   == {"create", "commit"}
Vetted    == {"writeSource"} \cup HasSource

MayMove(t, r) ==
  /\ CanDebit(r.src, Amount[t])
  /\ r.dst.balance + Amount[t] <= Cap
  /\ Operable(r.dst)

\* What the request t with record r may assume of the rows and the locks.
Knows(t, r, rws, lk) ==
  /\ Behind(r.src, rws[Source[t]])
  /\ Behind(r.dst, rws[Destination[t]])
  /\ r.pc \in HasSource => lk[Source[t]] = t /\ rws[Source[t]] = r.src
  /\ r.pc \in HasBoth => lk[Destination[t]] = t /\ rws[Destination[t]] = r.dst
  /\ r.pc \in Vetted => MayMove(t, r)

AllKnow == \A t \in Transfers : Knows(t, tx[t], rows, lock)

IInv == TypeOK /\ AllKnow /\ BalanceIsBook /\ WithinCap

-----------------------------------------------------------------------------
\* A row after a mutator is again a row, one version later.
LEMMA CreditedRow ==
  ASSUME NEW r \in AccountRow, NEW m \in Nat
  PROVE  /\ Credited(r, m) \in AccountRow
         /\ Credited(r, m).version = r.version + 1
         /\ Credited(r, m).balance = r.balance + m
         /\ Credited(r, m).status = r.status
BY DEF Credited, Touched, AccountRow

LEMMA DebitedRow ==
  ASSUME NEW r \in AccountRow, NEW m \in Nat, CanDebit(r, m)
  PROVE  /\ Debited(r, m) \in AccountRow
         /\ Debited(r, m).version = r.version + 1
         /\ Debited(r, m).balance = r.balance - m
         /\ Debited(r, m).status = r.status
BY DEF Debited, Touched, AccountRow, CanDebit

LEMMA WithStatusRow ==
  ASSUME NEW r \in AccountRow, NEW s \in AccountStatus
  PROVE  /\ WithStatus(r, s) \in AccountRow
         /\ WithStatus(r, s).version = r.version + 1
         /\ WithStatus(r, s).balance = r.balance
BY DEF WithStatus, Touched, AccountRow

LEMMA TransferRows ==
  /\ NoTransfer \in TransferRow
  /\ Initiated \in TransferRow
  /\ \A x \in TransferRow : MarkedSuccessful(x) \in TransferRow /\ MarkedFailed(x) \in TransferRow
BY DEF NoTransfer, Initiated, TransferRow, TransactionStatus, MarkedSuccessful, MarkedFailed,
   Marked

\* What a request knows survives when rows only move on in version and the
\* rows it has locked stay as they are, still locked.
LEMMA KnowsStays ==
  ASSUME NEW t \in Transfers, NEW r \in TxRec,
         NEW rws \in [Accounts -> AccountRow], NEW rws2 \in [Accounts -> AccountRow],
         NEW lk, NEW lk2,
         Knows(t, r, rws, lk),
         \A a \in Accounts : rws2[a] = rws[a] \/ rws2[a].version > rws[a].version,
         \A a \in Accounts : lk[a] = t => lk2[a] = t /\ rws2[a] = rws[a]
  PROVE  Knows(t, r, rws2, lk2)
<1>1. Source[t] \in Accounts /\ Destination[t] \in Accounts
  BY TransferAssumption
<1>2. rws[Source[t]].version \in Nat /\ rws2[Source[t]].version \in Nat
      /\ rws[Destination[t]].version \in Nat /\ rws2[Destination[t]].version \in Nat
      /\ r.src.version \in Nat /\ r.dst.version \in Nat
  BY <1>1 DEF AccountRow, TxRec
<1>3. Behind(r.src, rws2[Source[t]])
  BY <1>1, <1>2 DEF Behind, Knows
<1>4. Behind(r.dst, rws2[Destination[t]])
  BY <1>1, <1>2 DEF Behind, Knows
<1> QED
  BY <1>1, <1>3, <1>4 DEF Knows, HasSource, HasBoth

\* A step of one transaction that changes no row.
LEMMA TxStep ==
  ASSUME IInv, NEW t \in Transfers, NEW r \in TxRec,
         rows' = rows, book' = book,
         tx' = [tx EXCEPT ![t] = r],
         lock' \in [Accounts -> Transfers \cup {NoTx}],
         \A a \in Accounts : lock[a] # t /\ lock[a] # NoTx => lock'[a] = lock[a],
         Knows(t, r, rows, lock'),
         xfer' \in [Transfers -> TransferRow], others' \in Nat, faults' \in Nat
  PROVE  IInv'
<1>1. TypeOK'
  BY DEF IInv, TypeOK, TxRec
<1>2. ASSUME NEW u \in Transfers PROVE Knows(u, tx'[u], rows', lock')
  <2>1. CASE u = t
    <3>1. tx'[u] = r
      BY <2>1 DEF IInv, TypeOK
    <3> QED BY <2>1, <3>1
  <2>2. CASE u # t
    <3>1. tx'[u] = tx[u] /\ tx[u] \in TxRec
      BY <2>2 DEF IInv, TypeOK, TxRec
    <3>2. Knows(u, tx[u], rows, lock)
      BY DEF IInv, AllKnow
    <3>3. rows \in [Accounts -> AccountRow] /\ u # NoTx
      BY TransferAssumption DEF IInv, TypeOK
    <3>4. \A a \in Accounts : lock[a] = u => lock'[a] = u
      BY <2>2, <3>3
    <3>5. Knows(u, tx[u], rows, lock')
      BY <3>1, <3>2, <3>3, <3>4, KnowsStays
    <3> QED BY <3>1, <3>5
  <2> QED BY <2>1, <2>2
<1>3. AllKnow'
  BY <1>2 DEF AllKnow
<1> QED
  BY <1>1, <1>3 DEF IInv, BalanceIsBook, WithinCap

LEMMA UnlockedType ==
  ASSUME TypeOK, NEW t \in Transfers
  PROVE  /\ Unlocked(t) \in [Accounts -> Transfers \cup {NoTx}]
         /\ \A a \in Accounts : lock[a] # t => Unlocked(t)[a] = lock[a]
BY DEF TypeOK, Unlocked

\* The facts about one request that the steps below start from.
LEMMA Loaded ==
  ASSUME IInv, NEW t \in Transfers
  PROVE  /\ tx[t] \in TxRec
         /\ Source[t] \in Accounts /\ Destination[t] \in Accounts
         /\ Source[t] # Destination[t]
         /\ Amount[t] \in Nat
         /\ rows[Source[t]] \in AccountRow /\ rows[Destination[t]] \in AccountRow
         /\ Knows(t, tx[t], rows, lock)
BY TransferAssumption DEF IInv, TypeOK, TxRec, AllKnow

\* Goto and the loads, seen as one record replaced by another.
LEMMA Records ==
  ASSUME NEW r \in TxRec, NEW pc \in Steps
  PROVE  /\ r.src \in AccountRow /\ r.dst \in AccountRow /\ r.mem \in TransferRow
         /\ \A s, d \in AccountRow, m \in TransferRow :
              /\ [pc |-> pc, src |-> s, dst |-> d, mem |-> m] \in TxRec
              /\ [pc |-> pc, src |-> s, dst |-> d, mem |-> m].pc = pc
              /\ [pc |-> pc, src |-> s, dst |-> d, mem |-> m].src = s
              /\ [pc |-> pc, src |-> s, dst |-> d, mem |-> m].dst = d
BY DEF TxRec

\* Moving on to a step that claims nothing about locks and checks.
LEMMA PlainGoto ==
  ASSUME IInv, NEW t \in Transfers, NEW pc \in Steps \ Vetted, Goto(t, pc),
         rows' = rows, book' = book,
         lock' = lock \/ lock' = Unlocked(t),
         xfer' \in [Transfers -> TransferRow], others' \in Nat, faults' \in Nat
  PROVE  IInv'
<1> DEFINE r == tx[t]
<1>1. r \in TxRec /\ Knows(t, r, rows, lock)
  BY Loaded
<1>2. PICK q \in TxRec : q.pc = pc /\ q.src = r.src /\ q.dst = r.dst /\ q.mem = r.mem
                         /\ tx' = [tx EXCEPT ![t] = q]
  <2>1. [pc |-> pc, src |-> r.src, dst |-> r.dst, mem |-> r.mem] \in TxRec
    BY <1>1, Records
  <2> QED BY <2>1 DEF Goto, Set
<1>3. Knows(t, q, rows, lock')
  BY <1>1, <1>2 DEF Knows, Vetted, HasSource, HasBoth
<1>4. /\ lock' \in [Accounts -> Transfers \cup {NoTx}]
      /\ \A a \in Accounts : lock[a] # t => lock'[a] = lock[a]
  BY UnlockedType DEF IInv, TypeOK
<1> QED
  BY <1>2, <1>3, <1>4, TxStep

-----------------------------------------------------------------------------
(***************************************************************************)
(* One lemma per kind of step.                                             *)
(***************************************************************************)
LEMMA InitIInv == Init => IInv
<1> SUFFICES ASSUME Init PROVE IInv
  OBVIOUS
<1>1. ASSUME NEW t \in Transfers
      PROVE  tx[t] \in TxRec /\ Knows(t, tx[t], rows, lock)
  <2>1. tx[t] = Fresh(t)
    BY DEF Init
  <2>2. Source[t] \in Accounts /\ Destination[t] \in Accounts
    BY TransferAssumption
  <2>3. Row0[Source[t]] \in AccountRow /\ Row0[Destination[t]] \in AccountRow
    BY <2>2, RowAssumption
  <2>4. Fresh(t) \in TxRec
    BY <2>3, TransferRows DEF Fresh, TxRec, Steps
  <2>5. Behind(Row0[Source[t]], Row0[Source[t]])
        /\ Behind(Row0[Destination[t]], Row0[Destination[t]])
    BY <2>3 DEF Behind, AccountRow
  <2>6. Knows(t, Fresh(t), rows, lock)
    BY <2>5 DEF Knows, Fresh, Init, HasSource, HasBoth, Vetted
  <2> QED BY <2>1, <2>4, <2>6
<1>2. tx \in [Transfers -> TxRec]
  BY <1>1 DEF Init
<1>3. book \in [Accounts -> Int] /\ rows \in [Accounts -> AccountRow]
  BY RowAssumption DEF Init, AccountRow
<1>4. TypeOK
  BY <1>2, <1>3, TransferRows DEF Init, TypeOK, TxRec
<1>5. BalanceIsBook /\ WithinCap
  BY RowAssumption DEF Init, BalanceIsBook, WithinCap
<1> QED
  BY <1>1, <1>4, <1>5 DEF IInv, AllKnow

LEMMA PlainSteps ==
  ASSUME IInv, NEW t \in Transfers,
         Refuse(t) \/ Begin(t) \/ WrongDestination(t) \/ Fail(t) \/ DeadlockVictim(t)
           \/ Abort(t) \/ Crash(t)
  PROVE  IInv'
<1>1. faults \in Nat /\ others \in Nat /\ xfer \in [Transfers -> TransferRow]
  BY DEF IInv, TypeOK
<1>2. tx[t].mem \in TransferRow
  BY Loaded DEF TxRec
<1>3. {"refused", "loadSource", "fail", "error", "dead"} \subseteq Steps \ Vetted
  BY DEF Steps, Ended, Vetted, HasSource
<1>4. CASE Refuse(t)
  BY <1>1, <1>3, <1>4, PlainGoto DEF Refuse
<1>5. CASE Begin(t)
  BY <1>1, <1>3, <1>5, PlainGoto DEF Begin
<1>6. CASE WrongDestination(t)
  BY <1>1, <1>3, <1>6, PlainGoto DEF WrongDestination
<1>7. CASE Fail(t)
  <2>1. xfer' \in [Transfers -> TransferRow]
    BY <1>1, <1>2, <1>7, TransferRows DEF Fail
  <2> QED BY <1>1, <1>3, <1>7, <2>1, PlainGoto DEF Fail
<1>8. CASE DeadlockVictim(t)
  BY <1>1, <1>3, <1>8, PlainGoto DEF DeadlockVictim
<1>9. CASE Abort(t)
  BY <1>1, <1>3, <1>9, PlainGoto DEF Abort
<1>10. CASE Crash(t)
  BY <1>1, <1>3, <1>10, PlainGoto DEF Crash
<1> QED
  BY <1>4, <1>5, <1>6, <1>7, <1>8, <1>9, <1>10

LEMMA Loads ==
  ASSUME IInv, NEW t \in Transfers, LoadSource(t) \/ LoadDestination(t)
  PROVE  IInv'
<1> DEFINE r == tx[t]
<1>1. /\ r \in TxRec /\ Knows(t, r, rows, lock)
      /\ rows[Source[t]] \in AccountRow /\ rows[Destination[t]] \in AccountRow
  BY Loaded
<1>2. r.src \in AccountRow /\ r.dst \in AccountRow /\ r.mem \in TransferRow
  BY <1>1 DEF TxRec
<1>3. "loadDestination" \in Steps /\ "check" \in Steps
  BY DEF Steps, InTx
<1>4. CASE LoadSource(t)
  <2>1. PICK q \in TxRec : q.pc = "loadDestination" /\ q.src = rows[Source[t]] /\ q.dst = r.dst
                           /\ tx' = [tx EXCEPT ![t] = q]
    <3>1. [pc |-> "loadDestination", src |-> rows[Source[t]], dst |-> r.dst, mem |-> r.mem]
            \in TxRec
      BY <1>1, <1>2, <1>3, Records
    <3> QED BY <1>4, <3>1 DEF LoadSource, Set
  <2>2. Knows(t, q, rows, lock)
    BY <1>1, <2>1 DEF Knows, Behind, HasSource, HasBoth, Vetted, AccountRow
  <2> QED BY <1>4, <2>1, <2>2, TxStep DEF LoadSource, IInv, TypeOK
<1>5. CASE LoadDestination(t)
  <2>1. PICK q \in TxRec : q.pc = "check" /\ q.src = r.src /\ q.dst = rows[Destination[t]]
                           /\ tx' = [tx EXCEPT ![t] = q]
    <3>1. [pc |-> "check", src |-> r.src, dst |-> rows[Destination[t]], mem |-> r.mem]
            \in TxRec
      BY <1>1, <1>2, <1>3, Records
    <3> QED BY <1>5, <3>1 DEF LoadDestination, Set
  <2>2. Knows(t, q, rows, lock)
    BY <1>1, <2>1 DEF Knows, Behind, HasSource, HasBoth, Vetted, AccountRow
  <2> QED BY <1>5, <2>1, <2>2, TxStep DEF LoadDestination, IInv, TypeOK
<1> QED
  BY <1>4, <1>5

LEMMA CheckStep ==
  ASSUME IInv, NEW t \in Transfers, Check(t)
  PROVE  IInv'
<1> DEFINE r == tx[t]
<1>1. r \in TxRec /\ Knows(t, r, rows, lock)
  BY Loaded
<1>2. CASE Allowed(t)
  <2>1. PICK q \in TxRec : q.pc = "writeSource" /\ q.src = r.src /\ q.dst = r.dst
                           /\ tx' = [tx EXCEPT ![t] = q]
    <3>1. "writeSource" \in Steps
      BY DEF Steps, InTx
    <3>2. [pc |-> "writeSource", src |-> r.src, dst |-> r.dst, mem |-> r.mem] \in TxRec
      BY <1>1, <3>1, Records
    <3> QED BY <1>2, <3>2 DEF Check, Goto, Set
  <2>2. MayMove(t, q)
    BY <1>2, <2>1 DEF Allowed, MayMove
  <2>3. Knows(t, q, rows, lock)
    BY <1>1, <2>1, <2>2 DEF Knows, HasSource, HasBoth
  <2> QED BY <2>1, <2>3, TxStep DEF Check, IInv, TypeOK
<1>3. CASE ~Allowed(t)
  <2>1. "fail" \in Steps \ Vetted
    BY DEF Steps, Vetted, HasSource
  <2> QED BY <1>3, <2>1, PlainGoto DEF Check, IInv, TypeOK
<1> QED
  BY <1>2, <1>3

\* A conditional update that matches locks the row, and the row is the one
\* the aggregate was loaded from; one that does not match ends the attempt.
LEMMA WriteStep ==
  ASSUME IInv, NEW t \in Transfers, WriteSource(t) \/ WriteDestination(t)
  PROVE  IInv'
<1> DEFINE r == tx[t]
<1>1. /\ r \in TxRec /\ Knows(t, r, rows, lock)
      /\ Source[t] \in Accounts /\ Destination[t] \in Accounts /\ Source[t] # Destination[t]
      /\ Amount[t] \in Nat
      /\ rows[Source[t]] \in AccountRow /\ rows[Destination[t]] \in AccountRow
  BY Loaded
<1>2. r.src \in AccountRow /\ r.dst \in AccountRow /\ r.mem \in TransferRow
  BY <1>1 DEF TxRec
<1>3. NewSource(t).version = r.src.version + 1 /\ NewDestination(t).version = r.dst.version + 1
  BY <1>1, <1>2 DEF NewSource, NewDestination, Debited, Credited, Touched
<1>4. "fail" \in Steps \ Vetted /\ "writeDestination" \in Steps /\ "create" \in Steps
  BY DEF Steps, InTx, Vetted, HasSource
<1>5. ASSUME At(t, "writeSource"), MaySave(rows[Source[t]], NewSource(t)),
             lock[Source[t]] = NoTx, lock' = [lock EXCEPT ![Source[t]] = t],
             Goto(t, "writeDestination"), UNCHANGED <<rows, xfer, others, faults, book>>
      PROVE  IInv'
  <2>1. PICK q \in TxRec : q.pc = "writeDestination" /\ q.src = r.src /\ q.dst = r.dst
                           /\ tx' = [tx EXCEPT ![t] = q]
    <3>1. [pc |-> "writeDestination", src |-> r.src, dst |-> r.dst, mem |-> r.mem] \in TxRec
      BY <1>1, <1>4, Records
    <3> QED BY <1>5, <3>1 DEF Goto, Set
  <2>2. rows[Source[t]].version = r.src.version
    BY <1>1, <1>2, <1>3, <1>5 DEF MaySave, AccountRow
  <2>3. rows[Source[t]] = r.src
    BY <1>1, <2>2 DEF Knows, Behind
  <2>4. MayMove(t, q)
    BY <1>1, <1>5, <2>1 DEF Knows, Vetted, At, MayMove
  <2>5. lock' \in [Accounts -> Transfers \cup {NoTx}] /\ lock'[Source[t]] = t
        /\ \A a \in Accounts : lock[a] # NoTx => lock'[a] = lock[a]
    BY <1>1, <1>5 DEF IInv, TypeOK
  <2>6. Knows(t, q, rows, lock')
    BY <1>1, <2>1, <2>3, <2>4, <2>5 DEF Knows, HasBoth
  <2> QED BY <1>5, <2>1, <2>5, <2>6, TxStep DEF IInv, TypeOK
<1>6. ASSUME At(t, "writeDestination"), MaySave(rows[Destination[t]], NewDestination(t)),
             lock[Destination[t]] = NoTx, lock' = [lock EXCEPT ![Destination[t]] = t],
             Goto(t, "create"), UNCHANGED <<rows, xfer, others, faults, book>>
      PROVE  IInv'
  <2>1. PICK q \in TxRec : q.pc = "create" /\ q.src = r.src /\ q.dst = r.dst
                           /\ tx' = [tx EXCEPT ![t] = q]
    <3>1. [pc |-> "create", src |-> r.src, dst |-> r.dst, mem |-> r.mem] \in TxRec
      BY <1>1, <1>4, Records
    <3> QED BY <1>6, <3>1 DEF Goto, Set
  <2>2. rows[Destination[t]].version = r.dst.version
    BY <1>1, <1>2, <1>3, <1>6 DEF MaySave, AccountRow
  <2>3. rows[Destination[t]] = r.dst
    BY <1>1, <2>2 DEF Knows, Behind
  <2>4. MayMove(t, q) /\ rows[Source[t]] = r.src /\ lock[Source[t]] = t
    BY <1>1, <1>6, <2>1 DEF Knows, Vetted, HasSource, At, MayMove
  <2>5. lock' \in [Accounts -> Transfers \cup {NoTx}] /\ lock'[Destination[t]] = t
        /\ lock'[Source[t]] = t
        /\ \A a \in Accounts : lock[a] # NoTx => lock'[a] = lock[a]
    BY <1>1, <1>6, <2>4 DEF IInv, TypeOK
  <2>6. Knows(t, q, rows, lock')
    BY <1>1, <2>1, <2>3, <2>4, <2>5 DEF Knows
  <2> QED BY <1>6, <2>1, <2>5, <2>6, TxStep DEF IInv, TypeOK
<1>7. ASSUME lock' = Unlocked(t), Goto(t, "fail"), UNCHANGED <<rows, xfer, others, faults, book>>
      PROVE  IInv'
  BY <1>4, <1>7, PlainGoto DEF IInv, TypeOK
<1> QED
  BY <1>5, <1>6, <1>7 DEF WriteSource, WriteDestination, Write

LEMMA CreateStep ==
  ASSUME IInv, NEW t \in Transfers, Create(t)
  PROVE  IInv'
<1> DEFINE r == tx[t]
<1>1. r \in TxRec /\ Knows(t, r, rows, lock)
  BY Loaded
<1>2. PICK q \in TxRec : q.pc = "commit" /\ q.src = r.src /\ q.dst = r.dst
                         /\ tx' = [tx EXCEPT ![t] = q]
  <2>1. "commit" \in Steps
    BY DEF Steps, InTx
  <2>2. MarkedSuccessful(r.mem) \in TransferRow
    BY <1>1, TransferRows DEF TxRec
  <2>3. [pc |-> "commit", src |-> r.src, dst |-> r.dst, mem |-> MarkedSuccessful(r.mem)] \in TxRec
    BY <1>1, <2>1, <2>2, Records
  <2> QED BY <2>3 DEF Create, Set
<1>3. Knows(t, q, rows, lock)
  BY <1>1, <1>2 DEF Create, At, Knows, MayMove, HasSource, HasBoth, Vetted
<1> QED
  BY <1>2, <1>3, TxStep DEF Create, IInv, TypeOK

\* The rows a commit leaves: both accounts one version on, each with the
\* balance the book says, the destination within its cap.
LEMMA AppliedRows ==
  ASSUME IInv, NEW t \in Transfers, At(t, "commit"), Applied(t)
  PROVE  /\ rows' \in [Accounts -> AccountRow] /\ book' \in [Accounts -> Int]
         /\ \A a \in Accounts \ {Source[t], Destination[t]} : rows'[a] = rows[a]
         /\ rows'[Source[t]].version > rows[Source[t]].version
         /\ rows'[Destination[t]].version > rows[Destination[t]].version
         /\ lock[Source[t]] = t /\ lock[Destination[t]] = t
         /\ BalanceIsBook' /\ WithinCap'
         /\ \A a \in {Source[t], Destination[t]} :
              rows[a].status = "ACTIVE" /\ rows'[a].status = "ACTIVE"
<1> DEFINE r == tx[t]
<1>1. /\ r \in TxRec /\ Knows(t, r, rows, lock)
      /\ Source[t] \in Accounts /\ Destination[t] \in Accounts /\ Source[t] # Destination[t]
      /\ Amount[t] \in Nat
  BY Loaded
<1>2. /\ rows[Source[t]] = r.src /\ rows[Destination[t]] = r.dst
      /\ lock[Source[t]] = t /\ lock[Destination[t]] = t
      /\ CanDebit(r.src, Amount[t]) /\ r.dst.balance + Amount[t] <= Cap /\ Operable(r.dst)
  BY <1>1 DEF At, Knows, MayMove, HasSource, HasBoth, Vetted
<1>3. r.src \in AccountRow /\ r.dst \in AccountRow
  BY <1>1 DEF TxRec
<1>4. /\ NewSource(t) \in AccountRow /\ NewSource(t).version = r.src.version + 1
      /\ NewSource(t).balance = r.src.balance - Amount[t]
      /\ NewSource(t).status = "ACTIVE" /\ r.src.status = "ACTIVE"
  BY <1>1, <1>2, <1>3, DebitedRow DEF NewSource, CanDebit, Operable
<1>5. /\ NewDestination(t) \in AccountRow /\ NewDestination(t).version = r.dst.version + 1
      /\ NewDestination(t).balance = r.dst.balance + Amount[t]
      /\ NewDestination(t).status = "ACTIVE" /\ r.dst.status = "ACTIVE"
  BY <1>1, <1>2, <1>3, CreditedRow DEF NewDestination, Operable
<1>6. /\ rows' \in [Accounts -> AccountRow]
      /\ rows'[Source[t]] = NewSource(t) /\ rows'[Destination[t]] = NewDestination(t)
      /\ \A a \in Accounts \ {Source[t], Destination[t]} : rows'[a] = rows[a]
  BY <1>1, <1>4, <1>5 DEF IInv, TypeOK, Applied
<1>7. /\ book' \in [Accounts -> Int]
      /\ book'[Source[t]] = book[Source[t]] - Amount[t]
      /\ book'[Destination[t]] = book[Destination[t]] + Amount[t]
      /\ \A a \in Accounts \ {Source[t], Destination[t]} : book'[a] = book[a]
  BY <1>1 DEF IInv, TypeOK, Applied
<1>8. r.src.version \in Nat /\ r.dst.version \in Nat /\ r.src.balance \in Nat
      /\ r.dst.balance \in Nat /\ Cap \in Nat
  BY <1>3, RowAssumption DEF AccountRow
<1>9. BalanceIsBook'
  BY <1>1, <1>2, <1>4, <1>5, <1>6, <1>7 DEF IInv, BalanceIsBook
<1>10. r.src.balance <= Cap
  BY <1>1, <1>2 DEF IInv, WithinCap
<1>11. WithinCap'
  BY <1>1, <1>2, <1>4, <1>5, <1>6, <1>8, <1>10 DEF IInv, WithinCap
<1> QED
  BY <1>2, <1>4, <1>5, <1>6, <1>7, <1>8, <1>9, <1>11

LEMMA CommitStep ==
  ASSUME IInv, NEW t \in Transfers, Commit(t) \/ CommitLost(t)
  PROVE  IInv'
<1> DEFINE r == tx[t]
<1>1. At(t, "commit") /\ Applied(t)
  BY DEF Commit, CommitLost
<1>2. /\ rows' \in [Accounts -> AccountRow] /\ book' \in [Accounts -> Int]
      /\ \A a \in Accounts \ {Source[t], Destination[t]} : rows'[a] = rows[a]
      /\ rows'[Source[t]].version > rows[Source[t]].version
      /\ rows'[Destination[t]].version > rows[Destination[t]].version
      /\ lock[Source[t]] = t /\ lock[Destination[t]] = t
      /\ BalanceIsBook' /\ WithinCap'
  BY <1>1, AppliedRows
<1>3. r \in TxRec /\ Knows(t, r, rows, lock)
  BY Loaded
<1>4. PICK q \in TxRec : q.pc \in {"done", "fail"} /\ q.src = r.src /\ q.dst = r.dst
                         /\ tx' = [tx EXCEPT ![t] = q]
  <2>1. "done" \in Steps /\ "fail" \in Steps
    BY DEF Steps, Ended
  <2>2. ASSUME NEW pc \in {"done", "fail"}
        PROVE [pc |-> pc, src |-> r.src, dst |-> r.dst, mem |-> r.mem] \in TxRec
    BY <1>3, <2>1, Records
  <2> QED BY <2>2 DEF Commit, CommitLost, Goto, Set
<1>5. lock' = Unlocked(t)
  BY <1>1 DEF Applied
<1>6. \A a \in Accounts : rows'[a] = rows[a] \/ rows'[a].version > rows[a].version
  BY <1>2
<1>7. xfer' \in [Transfers -> TransferRow]
  BY <1>1, <1>3 DEF Applied, IInv, TypeOK, TxRec
<1>8. lock' \in [Accounts -> Transfers \cup {NoTx}]
      /\ \A a \in Accounts : lock[a] # t => lock'[a] = lock[a]
  BY <1>5, UnlockedType DEF IInv
<1>9. TypeOK'
  <2>1. others' \in Nat /\ faults' \in Nat
    BY DEF IInv, TypeOK, Commit, CommitLost
  <2>2. tx' \in [Transfers -> TxRec]
    BY <1>4 DEF IInv, TypeOK, TxRec
  <2> QED BY <1>2, <1>7, <1>8, <2>1, <2>2 DEF TypeOK, TxRec
<1>10. rows \in [Accounts -> AccountRow] /\ tx \in [Transfers -> TxRec]
  BY DEF IInv, TypeOK, TxRec
<1>11. ASSUME NEW u \in Transfers PROVE Knows(u, tx'[u], rows', lock')
  <2>1. CASE u # t
    <3>1. tx'[u] = tx[u] /\ tx[u] \in TxRec
      BY <1>4, <1>10, <2>1
    <3>2. Knows(u, tx[u], rows, lock)
      BY DEF IInv, AllKnow
    <3>3. \A a \in Accounts : lock[a] = u => lock'[a] = u /\ rows'[a] = rows[a]
      BY <1>2, <1>8, <2>1
    <3> QED BY <1>2, <1>6, <1>10, <3>1, <3>2, <3>3, KnowsStays
  <2>2. CASE u = t
    <3>1. tx'[u] = q
      BY <1>4, <1>10, <2>2
    <3>2. Source[t] \in Accounts /\ Destination[t] \in Accounts
      BY Loaded
    <3>3. /\ rows[Source[t]].version \in Nat /\ rows'[Source[t]].version \in Nat
          /\ rows[Destination[t]].version \in Nat /\ rows'[Destination[t]].version \in Nat
          /\ r.src.version \in Nat /\ r.dst.version \in Nat
      BY <1>2, <1>3, <1>10, <3>2 DEF AccountRow, TxRec
    <3>4. Behind(q.src, rows'[Source[t]]) /\ Behind(q.dst, rows'[Destination[t]])
      BY <1>2, <1>3, <1>4, <3>3 DEF Knows, Behind
    <3>5. Knows(t, q, rows', lock')
      BY <1>4, <3>4 DEF Knows, HasSource, HasBoth, Vetted
    <3> QED BY <2>2, <3>1, <3>5
  <2> QED BY <2>1, <2>2
<1>12. AllKnow'
  BY <1>11 DEF AllKnow
<1> QED
  BY <1>2, <1>9, <1>12 DEF IInv

\* Another operation, on an account no transaction has locked.
LEMMA OtherStep ==
  ASSUME IInv, NEW a \in Accounts, NEW new \in AccountRow, NEW delta \in Int,
         Other(a, new, delta),
         new.version = rows[a].version + 1,
         new.balance = rows[a].balance + delta, new.balance <= Cap
  PROVE  IInv'
<1>1. rows \in [Accounts -> AccountRow] /\ book \in [Accounts -> Int]
      /\ tx \in [Transfers -> TxRec]
  BY DEF IInv, TypeOK, TxRec
<1>2. /\ rows' \in [Accounts -> AccountRow] /\ rows'[a] = new
      /\ \A b \in Accounts \ {a} : rows'[b] = rows[b]
  BY <1>1 DEF Other
<1>3. /\ book' \in [Accounts -> Int] /\ book'[a] = book[a] + delta
      /\ \A b \in Accounts \ {a} : book'[b] = book[b]
  BY <1>1 DEF Other
<1>4. \A b \in Accounts : rows'[b] = rows[b] \/ rows'[b].version > rows[b].version
  BY <1>1, <1>2 DEF AccountRow
<1>5. TypeOK'
  BY <1>2, <1>3 DEF IInv, TypeOK, Other
<1>6. ASSUME NEW u \in Transfers PROVE Knows(u, tx'[u], rows', lock')
  <2>1. tx'[u] = tx[u] /\ tx[u] \in TxRec /\ lock' = lock /\ u # NoTx
    BY <1>1, TransferAssumption DEF Other
  <2>2. \A b \in Accounts : lock[b] = u => rows'[b] = rows[b]
    BY <1>2, <2>1 DEF Other
  <2>3. Knows(u, tx[u], rows, lock)
    BY DEF IInv, AllKnow
  <2>4. Knows(u, tx[u], rows', lock)
    BY <1>1, <1>2, <1>4, <2>1, <2>2, <2>3, KnowsStays
  <2> QED BY <2>1, <2>4
<1>7. AllKnow'
  BY <1>6 DEF AllKnow
<1>8. BalanceIsBook' /\ WithinCap'
  BY <1>2, <1>3 DEF IInv, BalanceIsBook, WithinCap
<1> QED
  BY <1>5, <1>7, <1>8 DEF IInv

LEMMA OtherSteps ==
  ASSUME IInv, NEW a \in Accounts,
         \/ \E m \in OtherAmounts : OtherCredit(a, m) \/ OtherDebit(a, m)
         \/ OtherFreeze(a) \/ OtherUnfreeze(a) \/ OtherClose(a)
  PROVE  IInv'
<1>1. rows[a] \in AccountRow /\ rows[a].balance \in Nat /\ rows[a].balance <= Cap /\ Cap \in Nat
  BY RowAssumption DEF IInv, TypeOK, WithinCap, AccountRow
<1>2. ASSUME NEW m \in OtherAmounts, OtherCredit(a, m) PROVE IInv'
  <2>1. m \in Nat
    BY OtherAssumption
  <2>2. /\ Credited(rows[a], m) \in AccountRow
        /\ Credited(rows[a], m).version = rows[a].version + 1
        /\ Credited(rows[a], m).balance = rows[a].balance + m
    BY <1>1, <2>1, CreditedRow
  <2> QED BY <1>2, <2>1, <2>2, OtherStep DEF OtherCredit
<1>3. ASSUME NEW m \in OtherAmounts, OtherDebit(a, m) PROVE IInv'
  <2>1. m \in Nat /\ -m \in Int /\ CanDebit(rows[a], m) /\ rows[a].balance >= m
    BY <1>3, OtherAssumption DEF OtherDebit, CanDebit
  <2>2. /\ Debited(rows[a], m) \in AccountRow
        /\ Debited(rows[a], m).version = rows[a].version + 1
        /\ Debited(rows[a], m).balance = rows[a].balance - m
    BY <1>1, <2>1, DebitedRow
  <2>3. Debited(rows[a], m).balance = rows[a].balance + (-m)
        /\ Debited(rows[a], m).balance <= Cap
    BY <1>1, <2>1, <2>2
  <2>4. Other(a, Debited(rows[a], m), -m)
    BY <1>3 DEF OtherDebit
  <2> QED BY <2>1, <2>2, <2>3, <2>4, OtherStep
<1>4. ASSUME NEW s \in AccountStatus, Other(a, WithStatus(rows[a], s), 0) PROVE IInv'
  <2>1. /\ WithStatus(rows[a], s) \in AccountRow
        /\ WithStatus(rows[a], s).version = rows[a].version + 1
        /\ WithStatus(rows[a], s).balance = rows[a].balance
    BY <1>1, WithStatusRow
  <2>2. WithStatus(rows[a], s).balance = rows[a].balance + 0
    BY <1>1, <2>1
  <2> QED BY <1>1, <1>4, <2>1, <2>2, OtherStep
<1>5. {"FROZEN", "ACTIVE", "CLOSED"} \subseteq AccountStatus
  BY DEF AccountStatus
<1> QED
  BY <1>2, <1>3, <1>4, <1>5
     DEF OtherFreeze, OtherUnfreeze, OtherClose, Frozen, Unfrozen, Closed

-----------------------------------------------------------------------------
(***************************************************************************)
(* Theorems.                                                               *)
(***************************************************************************)

\* Every step of the program keeps the inductive invariant.
THEOREM Inductive == Spec => []IInv
<1>1. Init => IInv
  BY InitIInv
<1>2. IInv /\ [Next]_vars => IInv'
  <2> SUFFICES ASSUME IInv, [Next]_vars PROVE IInv'
    OBVIOUS
  <2>1. CASE UNCHANGED vars
    BY <2>1 DEF vars, IInv, TypeOK, AllKnow, BalanceIsBook, WithinCap
  <2>2. ASSUME NEW t \in Transfers, Step(t) PROVE IInv'
    BY <2>2, PlainSteps, Loads, CheckStep, WriteStep, CreateStep, CommitStep DEF Step
  <2>3. ASSUME NEW t \in Transfers,
               DeadlockVictim(t) \/ Abort(t) \/ CommitLost(t) \/ Crash(t)
        PROVE IInv'
    BY <2>3, PlainSteps, CommitStep
  <2>4. ASSUME NEW a \in Accounts,
               \/ \E m \in OtherAmounts : OtherCredit(a, m) \/ OtherDebit(a, m)
               \/ OtherFreeze(a) \/ OtherUnfreeze(a) \/ OtherClose(a)
        PROVE IInv'
    BY <2>4, OtherSteps
  <2> QED BY <2>1, <2>2, <2>3, <2>4 DEF Next
<1> QED
  BY <1>1, <1>2, PTL DEF Spec

\* Type correctness: in particular no balance is ever negative, although the
\* sufficient-funds check runs on a row read without a lock.
THEOREM TypeCorrect == Spec => []TypeOK
BY Inductive, PTL DEF IInv

\* The optimistic version test inside the READ COMMITTED transaction loses
\* no update: every balance is the sum of the operations that succeeded.
THEOREM BalanceIsBooked == Spec => []BalanceIsBook
BY Inductive, PTL DEF IInv

\* The executor's claim that its destination ceiling has no race.
THEOREM CeilingHasNoRace == Spec => []WithinCap
BY Inductive, PTL DEF IInv

\* Whatever froze or closed an account between a transfer's load and its
\* commit also stopped the transfer.
THEOREM OnlyActiveAccountsMove == Spec => OnlyActiveMoves
<1> DEFINE Moves == \A a \in Accounts : rows'[a].balance # rows[a].balance =>
                      rows[a].status = "ACTIVE" /\ rows'[a].status = "ACTIVE"
<1>1. IInv /\ [Next]_vars => [Moves]_vars
  <2> SUFFICES ASSUME IInv, Next PROVE Moves
    BY DEF vars
  <2>1. ASSUME NEW t \in Transfers, Commit(t) \/ CommitLost(t) PROVE Moves
    <3>1. At(t, "commit") /\ Applied(t)
      BY <2>1 DEF Commit, CommitLost
    <3> QED BY <3>1, AppliedRows
  <2>2. ASSUME rows' = rows PROVE Moves
    BY <2>2
  <2>3. ASSUME NEW t \in Transfers,
               Step(t) \/ DeadlockVictim(t) \/ Abort(t) \/ CommitLost(t) \/ Crash(t)
        PROVE Moves
    BY <2>1, <2>2, <2>3 DEF Step, Refuse, Begin, LoadSource, LoadDestination, WrongDestination,
       Check, WriteSource, WriteDestination, Write, Create, Fail, DeadlockVictim, Abort, Crash
  <2>4. ASSUME NEW a \in Accounts,
               \/ \E m \in OtherAmounts : OtherCredit(a, m) \/ OtherDebit(a, m)
               \/ OtherFreeze(a) \/ OtherUnfreeze(a) \/ OtherClose(a)
        PROVE Moves
    <3>1. rows \in [Accounts -> AccountRow]
      BY DEF IInv, TypeOK
    <3> QED BY <2>4, <3>1 DEF OtherCredit, OtherDebit, OtherFreeze, OtherUnfreeze, OtherClose,
       Other, Credited, Debited, Frozen, Unfrozen, Closed, WithStatus, Touched, Operable, CanDebit
  <2> QED BY <2>3, <2>4 DEF Next
<1> QED
  BY <1>1, Inductive, PTL DEF Spec, OnlyActiveMoves

-----------------------------------------------------------------------------
\* Until it reaches its commit a request's transfer is PENDING in memory and
\* has no row, which is what markFailed and the save after it need.
AuditedAt(t) ==
  /\ tx[t].pc \notin {"commit", "done", "error"} => tx[t].mem = Initiated /\ xfer[t] = NoTransfer
  /\ tx[t].pc = "error" => xfer[t].status = "FAILED"

AuditInv == TypeOK /\ faults = 0 /\ \A t \in Transfers : AuditedAt(t)

\* A request that moves on from a step with nothing written.
LEMMA AuditGoto ==
  ASSUME AuditInv, TypeOK', faults' = 0, NEW t \in Transfers,
         tx[t].pc \notin {"commit", "done", "error"},
         NEW pc \in Steps \ {"error"}, NEW s, NEW d, Set(t, pc, s, d, tx[t].mem), xfer' = xfer
  PROVE  AuditInv'
<1>1. ASSUME NEW u \in Transfers PROVE AuditedAt(u)'
  BY DEF AuditInv, AuditedAt, TypeOK, Set
<1> QED BY <1>1 DEF AuditInv

\* The fault counter counts: a step before the first fault started before it.
LEMMA FaultsGrow ==
  ASSUME TypeOK, [Next]_vars, faults' = 0
  PROVE  faults = 0 /\ \A t \in Transfers : ~(Abort(t) \/ CommitLost(t) \/ Crash(t))
<1>1. faults \in Nat
  BY DEF TypeOK
<1>2. ASSUME NEW t \in Transfers, Abort(t) \/ CommitLost(t) \/ Crash(t) PROVE FALSE
  BY <1>1, <1>2 DEF Abort, CommitLost, Crash
<1>3. CASE UNCHANGED vars
  BY <1>2, <1>3 DEF vars
<1>4. ASSUME NEW t \in Transfers, Step(t) \/ DeadlockVictim(t) PROVE faults = 0
  BY <1>4 DEF Step, Refuse, Begin, LoadSource, LoadDestination, WrongDestination, Check,
     WriteSource, WriteDestination, Write, Create, Commit, Fail, DeadlockVictim
<1>5. ASSUME NEW a \in Accounts,
             \/ \E m \in OtherAmounts : OtherCredit(a, m) \/ OtherDebit(a, m)
             \/ OtherFreeze(a) \/ OtherUnfreeze(a) \/ OtherClose(a)
      PROVE faults = 0
  BY <1>5 DEF OtherCredit, OtherDebit, OtherFreeze, OtherUnfreeze, OtherClose, Other
<1> QED
  BY <1>2, <1>3, <1>4, <1>5 DEF Next

\* Until the first abort, lost answer or crash, every internal transfer that
\* ends in an error has left a FAILED row, as the executor's comment promises.
THEOREM FailuresAreAudited == Spec => []AuditedUntilFault
<1> DEFINE Until == faults = 0 => AuditInv
<1>1. Init => Until
  <2> SUFFICES ASSUME Init PROVE AuditInv
    OBVIOUS
  <2>1. TypeOK
    BY InitIInv DEF IInv
  <2> QED BY <2>1 DEF Init, AuditInv, AuditedAt, Fresh
<1>2. TypeOK /\ Until /\ TypeOK' /\ [Next]_vars => Until'
  <2> SUFFICES ASSUME TypeOK, faults = 0 => AuditInv, TypeOK', [Next]_vars, faults' = 0
               PROVE  AuditInv'
    BY DEF AuditInv, AuditedAt
  <2>0. AuditInv /\ \A t \in Transfers : ~(Abort(t) \/ CommitLost(t) \/ Crash(t))
    BY FaultsGrow
  <2>1. CASE UNCHANGED vars
    BY <2>0, <2>1 DEF vars, AuditInv, AuditedAt
  <2>2. ASSUME NEW t \in Transfers, Step(t) \/ DeadlockVictim(t) PROVE AuditInv'
    <3>1. {"refused", "loadSource", "loadDestination", "check", "writeSource",
           "writeDestination", "create", "fail"} \subseteq Steps \ {"error"}
      BY DEF Steps, InTx, Ended
    <3>2. CASE Refuse(t) \/ Begin(t) \/ WrongDestination(t)
      BY <2>0, <3>1, <3>2, AuditGoto DEF Refuse, Begin, WrongDestination, Goto, At, AuditInv
    <3>3. CASE LoadSource(t) \/ LoadDestination(t)
      BY <2>0, <3>1, <3>3, AuditGoto DEF LoadSource, LoadDestination, At, AuditInv
    <3>4. CASE Check(t)
      BY <2>0, <3>1, <3>4, AuditGoto DEF Check, Goto, At, AuditInv
    <3>5. CASE WriteSource(t) \/ WriteDestination(t)
      BY <2>0, <3>1, <3>5, AuditGoto DEF WriteSource, WriteDestination, Write, Goto, At, AuditInv
    <3>6. CASE DeadlockVictim(t)
      <4>1. tx[t].pc \in {"writeSource", "writeDestination"}
        BY <3>6 DEF DeadlockVictim, WaitsFor
      <4> QED BY <2>0, <3>1, <3>6, <4>1, AuditGoto DEF DeadlockVictim, Goto, AuditInv
    <3>7. CASE Create(t)
      <4>1. ASSUME NEW u \in Transfers PROVE AuditedAt(u)'
        BY <2>0, <3>7 DEF Create, Set, AuditInv, AuditedAt, TypeOK
      <4> QED BY <2>0, <3>7, <4>1 DEF Create, AuditInv
    <3>8. CASE Commit(t)
      <4>1. ASSUME NEW u \in Transfers PROVE AuditedAt(u)'
        BY <2>0, <3>8 DEF Commit, Applied, Goto, Set, AuditInv, AuditedAt, TypeOK
      <4> QED BY <2>0, <3>8, <4>1 DEF Commit, AuditInv
    <3>9. CASE Fail(t)
      <4>1. tx[t].mem = Initiated /\ xfer[t] = NoTransfer
        BY <2>0, <3>9 DEF Fail, At, AuditInv, AuditedAt
      <4>2. ~Terminal(Initiated) /\ MaySaveTransfer(NoTransfer, MarkedFailed(Initiated))
        BY DEF Terminal, TerminalStatuses, Initiated, NoTransfer, MaySaveTransfer
      <4>3. xfer' = [xfer EXCEPT ![t] = MarkedFailed(Initiated)]
        BY <2>0, <3>9, <4>1, <4>2 DEF Fail
      <4>4. MarkedFailed(Initiated).status = "FAILED"
        BY DEF MarkedFailed, Marked
      <4>5. ASSUME NEW u \in Transfers PROVE AuditedAt(u)'
        BY <2>0, <3>9, <4>3, <4>4 DEF Fail, Goto, Set, AuditInv, AuditedAt, TypeOK
      <4> QED BY <2>0, <3>9, <4>5 DEF Fail, AuditInv
    <3> QED BY <2>2, <3>2, <3>3, <3>4, <3>5, <3>6, <3>7, <3>8, <3>9 DEF Step
  <2>3. ASSUME NEW a \in Accounts,
               \/ \E m \in OtherAmounts : OtherCredit(a, m) \/ OtherDebit(a, m)
               \/ OtherFreeze(a) \/ OtherUnfreeze(a) \/ OtherClose(a)
        PROVE AuditInv'
    BY <2>0, <2>3 DEF OtherCredit, OtherDebit, OtherFreeze, OtherUnfreeze, OtherClose, Other,
       AuditInv, AuditedAt
  <2> QED BY <2>0, <2>1, <2>2, <2>3 DEF Next
<1>3. Until => AuditedUntilFault
  BY DEF AuditInv, AuditedAt, AuditedUntilFault, FailureIsAudited, At
<1> QED
  BY <1>1, <1>2, <1>3, TypeCorrect, PTL DEF Spec

-----------------------------------------------------------------------------
(***************************************************************************)
(* Sums.  MapThenSumSet is a recursive function over the subsets of the    *)
(* set it sums over; that it exists, and what it computes, follows         *)
(* by taking a subset of least cardinality for which it does not.          *)
(***************************************************************************)
Pick(s) == CHOOSE x \in s : TRUE

\* A set of naturals that is not empty has a least element.
LEMMA LeastNat ==
  ASSUME NEW B, B \subseteq Nat, B # {}
  PROVE  \E n \in B : \A k \in B : n <= k
<1>1. \E n \in B : \A k \in B : <<k, n>> \notin OpToRel(<, Nat)
  BY NatLessThanWellFounded, WFMin DEF OpToRel
<1>2. \A n, k \in Nat : <<k, n>> \notin OpToRel(<, Nat) => n <= k
  BY DEF OpToRel
<1> QED BY <1>1, <1>2

SumEq(g, D, f) == g = [s \in D |-> IF s = {} THEN 0 ELSE f[Pick(s)] + g[s \ {Pick(s)}]]
SumFun(S, f) == CHOOSE g : SumEq(g, SUBSET S, f)

Sum(S, f) == SumFun(S, f)[S]

\* What there is to know of that function.
Sums(g, S, f) ==
  /\ \A s \in SUBSET S : g[s] \in Int
  /\ g[{}] = 0
  /\ \A s \in SUBSET S : s # {} => g[s] = f[Pick(s)] + g[s \ {Pick(s)}]

AnyFirst(g, S, f) == \A s \in SUBSET S : \A x \in s : g[s] = f[x] + g[s \ {x}]

LEMMA PickIn == ASSUME NEW s, s # {} PROVE Pick(s) \in s
BY DEF Pick

\* Induction over the subsets of a finite set, along the order in which the
\* sum takes their elements away.
LEMMA SubsetInduction ==
  ASSUME NEW S, IsFiniteSet(S), NEW T, {} \in T,
         \A s \in SUBSET S : s # {} /\ s \ {Pick(s)} \in T => s \in T
  PROVE  \A s \in SUBSET S : s \in T
<1> DEFINE Bad == {n \in Nat : \E s \in SUBSET S : s \notin T /\ Cardinality(s) = n}
<1>1. ASSUME NEW s \in SUBSET S, s \notin T PROVE Bad # {}
  BY <1>1, FS_Subset, FS_CardinalityType
<1>2. ASSUME Bad # {} PROVE FALSE
  <2>1. PICK n \in Bad : \A k \in Bad : n <= k
    BY <1>2, LeastNat
  <2>2. PICK s \in SUBSET S : s \notin T /\ Cardinality(s) = n
    BY <2>1
  <2>3. s # {} /\ Pick(s) \in s /\ IsFiniteSet(s)
    BY <2>2, PickIn, FS_Subset
  <2>4. Cardinality(s \ {Pick(s)}) = Cardinality(s) - 1 /\ IsFiniteSet(s \ {Pick(s)})
    BY <2>3, FS_RemoveElement
  <2>5. Cardinality(s \ {Pick(s)}) \in Nat
    BY <2>4, FS_CardinalityType
  <2>6. s \ {Pick(s)} \notin T
    BY <2>2, <2>3
  <2>7. n - 1 \in Bad
    BY <2>2, <2>4, <2>5, <2>6
  <2> QED BY <2>1, <2>7
<1> QED BY <1>1, <1>2

\* The recursive function behind the sum exists.
LEMMA SumExists ==
  ASSUME NEW S, IsFiniteSet(S), NEW f \in [S -> Int]
  PROVE  \E g : SumEq(g, SUBSET S, f)
<1> DEFINE D(n) == {s \in SUBSET S : Cardinality(s) <= n}
           Rhs(g, s) == IF s = {} THEN 0 ELSE f[Pick(s)] + g[s \ {Pick(s)}]
           Good(n) == \E g \in [D(n) -> Int] : \A s \in D(n) : g[s] = Rhs(g, s)
           Bad == {n \in Nat : ~ Good(n)}
<1>1. Good(0)
  <2>1. \A s \in D(0) : s = {}
    BY FS_Subset, FS_CardinalityType, FS_EmptySet
  <2> DEFINE g == [s \in D(0) |-> 0]
  <2>2. g \in [D(0) -> Int] /\ \A s \in D(0) : g[s] = Rhs(g, s)
    BY <2>1
  <2> QED BY <2>2
<1>2. ASSUME NEW n \in Nat, n # 0, Good(n - 1) PROVE Good(n)
  <2>1. PICK g \in [D(n - 1) -> Int] : \A s \in D(n - 1) : g[s] = Rhs(g, s)
    BY <1>2
  <2> DEFINE h == [s \in D(n) |-> Rhs(g, s)]
  <2>2. ASSUME NEW s \in D(n), s # {}
        PROVE  s \ {Pick(s)} \in D(n - 1) /\ s \ {Pick(s)} \in D(n) /\ Pick(s) \in S
    <3>1. Pick(s) \in s /\ IsFiniteSet(s)
      BY <2>2, PickIn, FS_Subset
    <3>2. Cardinality(s \ {Pick(s)}) = Cardinality(s) - 1 /\ Cardinality(s) \in Nat
      BY <3>1, FS_RemoveElement, FS_CardinalityType
    <3> QED BY <3>1, <3>2
  <2>3. h \in [D(n) -> Int]
    <3> SUFFICES ASSUME NEW s \in D(n) PROVE Rhs(g, s) \in Int
      OBVIOUS
    <3> QED BY <2>1, <2>2
  <2>4. ASSUME NEW s \in D(n) PROVE h[s] = Rhs(h, s)
    <3>1. CASE s = {}
      BY <3>1
    <3>2. CASE s # {}
      <4> DEFINE u == s \ {Pick(s)}
      <4>1. u \in D(n - 1) /\ u \in D(n)
        BY <2>2, <3>2
      <4>2. h[u] = g[u]
        BY <2>1, <4>1
      <4> QED BY <4>2, <3>2
    <3> QED BY <3>1, <3>2
  <2> QED BY <2>3, <2>4
<1>3. \A n \in Nat : Good(n)
  <2> SUFFICES ASSUME Bad # {} PROVE FALSE
    OBVIOUS
  <2> HIDE DEF Good
  <2>1. PICK n \in Bad : \A k \in Bad : n <= k
    BY LeastNat
  <2>2. n # 0 /\ n - 1 \in Nat
    BY <1>1, <2>1
  <2>3. Good(n - 1)
    BY <2>1, <2>2
  <2> QED BY <1>2, <2>1, <2>2, <2>3
<1>4. D(Cardinality(S)) = SUBSET S /\ Cardinality(S) \in Nat
  BY FS_Subset, FS_CardinalityType
<1>5. PICK g \in [SUBSET S -> Int] : \A s \in SUBSET S : g[s] = Rhs(g, s)
  BY <1>3, <1>4
<1>6. g = [s \in SUBSET S |-> Rhs(g, s)]
  BY <1>5
<1> QED BY <1>6 DEF SumEq

LEMMA SumStep ==
  ASSUME NEW S, IsFiniteSet(S), NEW f \in [S -> Int]
  PROVE  /\ SumFun(S, f)[{}] = 0
         /\ \A s \in SUBSET S : s # {} =>
              SumFun(S, f)[s] = f[Pick(s)] + SumFun(S, f)[s \ {Pick(s)}]
<1> DEFINE g == SumFun(S, f)
<1>1. SumEq(g, SUBSET S, f)
  BY SumExists DEF SumFun
<1> HIDE DEF g
<1>2. g[{}] = 0 /\ \A s \in SUBSET S : s # {} => g[s] = f[Pick(s)] + g[s \ {Pick(s)}]
  <2>1. \A s \in SUBSET S : g[s] = IF s = {} THEN 0 ELSE f[Pick(s)] + g[s \ {Pick(s)}]
    BY <1>1 DEF SumEq
  <2> QED BY <2>1
<1> QED BY <1>2 DEF g

LEMMA SumInt ==
  ASSUME NEW S, IsFiniteSet(S), NEW f \in [S -> Int]
  PROVE  \A s \in SUBSET S : SumFun(S, f)[s] \in Int
<1> DEFINE T == {s \in SUBSET S : SumFun(S, f)[s] \in Int}
<1>1. {} \in T
  BY SumStep
<1>2. ASSUME NEW s \in SUBSET S, s # {}, s \ {Pick(s)} \in T PROVE s \in T
  <2>1. Pick(s) \in S /\ f[Pick(s)] \in Int
    BY <1>2, PickIn
  <2>2. SumFun(S, f)[s] = f[Pick(s)] + SumFun(S, f)[s \ {Pick(s)}]
    BY <1>2, SumStep
  <2>3. SumFun(S, f)[s \ {Pick(s)}] \in Int
    BY <1>2
  <2>4. SumFun(S, f)[s] \in Int
    BY <2>1, <2>2, <2>3
  <2> QED BY <2>4
<1> HIDE DEF T
<1>3. \A s \in SUBSET S : s \in T
  BY <1>1, <1>2, SubsetInduction
<1> QED BY <1>3 DEF T

LEMMA SumFacts ==
  ASSUME NEW S, IsFiniteSet(S), NEW f \in [S -> Int] PROVE Sums(SumFun(S, f), S, f)
BY SumStep, SumInt DEF Sums

\* Changing one term changes the sum by as much.
LEMMA SumPoint ==
  ASSUME NEW S, IsFiniteSet(S), NEW f \in [S -> Int], NEW h \in [S -> Int], NEW a \in S,
         \A x \in S : x # a => h[x] = f[x]
  PROVE  Sum(S, h) = Sum(S, f) + h[a] - f[a]
<1> DEFINE d(s) == IF a \in s THEN h[a] - f[a] ELSE 0
           F == SumFun(S, f)
           H == SumFun(S, h)
           T == {s \in SUBSET S : H[s] = F[s] + d(s)}
<1>0. /\ \A s \in SUBSET S : F[s] \in Int /\ H[s] \in Int
      /\ F[{}] = 0 /\ H[{}] = 0
      /\ \A s \in SUBSET S : s # {} => /\ F[s] = f[Pick(s)] + F[s \ {Pick(s)}]
                                       /\ H[s] = h[Pick(s)] + H[s \ {Pick(s)}]
  <2>1. Sums(F, S, f) /\ Sums(H, S, h)
    BY SumFacts
  <2> HIDE DEF F, H
  <2> QED BY <2>1 DEF Sums
<1> HIDE DEF F, H
<1>1. {} \in T
  BY <1>0
<1>2. ASSUME NEW s \in SUBSET S, s # {}, s \ {Pick(s)} \in T PROVE s \in T
  <2> DEFINE p == Pick(s)
             u == s \ {p}
  <2>1. p \in s /\ p \in S /\ f[p] \in Int /\ h[p] \in Int
    BY <1>2, PickIn
  <2>2. H[u] = F[u] + d(u) /\ H[u] \in Int /\ F[u] \in Int
    BY <1>0, <1>2
  <2>3. H[s] = h[p] + H[u] /\ F[s] = f[p] + F[u]
    BY <1>0, <1>2
  <2> HIDE DEF p
  <2>4. d(u) \in Int /\ d(s) \in Int
    OBVIOUS
  <2>5. h[p] + d(u) = f[p] + d(s)
    BY <2>1
  <2>6. H[s] = F[s] + d(s)
    <3> HIDE DEF d, u
    <3> QED BY <2>1, <2>2, <2>3, <2>4, <2>5
  <2> QED BY <2>6
<1> HIDE DEF T
<1>3. S \in T
  BY <1>1, <1>2, SubsetInduction
<1> QED BY <1>0, <1>3 DEF T, F, H, Sum

\* A sum of smaller terms is smaller.
LEMMA SumMono ==
  ASSUME NEW S, IsFiniteSet(S), NEW f \in [S -> Int], NEW h \in [S -> Int],
         \A x \in S : h[x] <= f[x]
  PROVE  Sum(S, h) <= Sum(S, f)
<1> DEFINE F == SumFun(S, f)
           H == SumFun(S, h)
           T == {s \in SUBSET S : H[s] <= F[s]}
<1>1. Sums(F, S, f) /\ Sums(H, S, h)
  BY SumFacts
<1> HIDE DEF F, H
<1>2. {} \in T
  BY <1>1 DEF Sums
<1>3. ASSUME NEW s \in SUBSET S, s # {}, s \ {Pick(s)} \in T PROVE s \in T
  <2>1. Pick(s) \in S /\ f[Pick(s)] \in Int /\ h[Pick(s)] \in Int /\ h[Pick(s)] <= f[Pick(s)]
    BY <1>3, PickIn
  <2>2. /\ F[s] = f[Pick(s)] + F[s \ {Pick(s)}] /\ H[s] = h[Pick(s)] + H[s \ {Pick(s)}]
        /\ F[s \ {Pick(s)}] \in Int /\ H[s \ {Pick(s)}] \in Int
    BY <1>1, <1>3 DEF Sums
  <2>3. H[s \ {Pick(s)}] <= F[s \ {Pick(s)}]
    BY <1>3
  <2>4. H[s] <= F[s]
    BY <2>1, <2>2, <2>3
  <2> QED BY <2>4
<1> HIDE DEF T
<1>4. S \in T
  BY <1>2, <1>3, SubsetInduction
<1> QED BY <1>4 DEF T, F, H, Sum

\* A sum of zeroes is 0.
LEMMA SumZero ==
  ASSUME NEW S, IsFiniteSet(S)
  PROVE  Sum(S, [x \in S |-> 0]) = 0
<1> DEFINE f == [x \in S |-> 0]
           F == SumFun(S, f)
           T == {s \in SUBSET S : F[s] = 0}
<1>1. f \in [S -> Int] /\ \A x \in S : f[x] = 0
  OBVIOUS
<1> HIDE DEF f
<1>2. Sums(F, S, f)
  BY <1>1, SumFacts
<1> HIDE DEF F
<1>3. {} \in T
  BY <1>2 DEF Sums
<1>4. ASSUME NEW s \in SUBSET S, s # {}, s \ {Pick(s)} \in T PROVE s \in T
  <2>1. Pick(s) \in S
    BY <1>4, PickIn
  <2> QED BY <1>1, <1>2, <1>4, <2>1 DEF Sums
<1> HIDE DEF T
<1>5. S \in T
  BY <1>3, <1>4, SubsetInduction
<1> QED BY <1>5 DEF T, F, f, Sum

\* Any element may be taken away first.
LEMMA SumRemove ==
  ASSUME NEW S, IsFiniteSet(S), NEW f \in [S -> Int]
  PROVE  AnyFirst(SumFun(S, f), S, f)
<1> DEFINE F == SumFun(S, f)
           Bad == {n \in Nat : \E s \in SUBSET S : Cardinality(s) = n /\
                                 \E x \in s : F[s] # f[x] + F[s \ {x}]}
<1>0. /\ \A s \in SUBSET S : F[s] \in Int
      /\ \A s \in SUBSET S : s # {} => F[s] = f[Pick(s)] + F[s \ {Pick(s)}]
  BY SumStep, SumInt
<1> HIDE DEF F
<1>1. ASSUME NEW s \in SUBSET S, NEW x \in s, F[s] # f[x] + F[s \ {x}] PROVE Bad # {}
  BY <1>1, FS_Subset, FS_CardinalityType
<1>2. ASSUME Bad # {} PROVE FALSE
  <2>1. PICK n \in Bad : \A k \in Bad : n <= k
    BY <1>2, LeastNat
  <2>0. PICK s \in SUBSET S : Cardinality(s) = n /\ \E x \in s : F[s] # f[x] + F[s \ {x}]
    BY <2>1
  <2>2. PICK x \in s : Cardinality(s) = n /\ F[s] # f[x] + F[s \ {x}]
    BY <2>0
  <2> DEFINE p == Pick(s)
             v == s \ {p}
             w == s \ {x}
             z == s \ {p, x}
  <2>3. p \in s /\ p # x /\ IsFiniteSet(s)
    BY <1>0, <2>2, PickIn, FS_Subset
  <2> HIDE DEF p
  <2>4. /\ Cardinality(v) = n - 1 /\ Cardinality(w) = n - 1 /\ Cardinality(v) \in Nat
    BY <2>2, <2>3, FS_RemoveElement, FS_CardinalityType
  <2>5. n - 1 \notin Bad /\ n - 1 \in Nat
    BY <2>1, <2>4
  <2>6. F[v] = f[x] + F[v \ {x}]
    BY <2>2, <2>3, <2>4, <2>5
  <2>7. F[w] = f[p] + F[w \ {p}]
    BY <2>2, <2>3, <2>4, <2>5
  <2>8. v \ {x} = z /\ w \ {p} = z /\ z \in SUBSET S
    OBVIOUS
  <2>9. F[s] = f[p] + F[v]
    BY <1>0, <2>3 DEF p
  <2>10. f[p] \in Int /\ f[x] \in Int /\ F[z] \in Int /\ F[v] \in Int /\ F[w] \in Int
    BY <1>0, <2>2, <2>3, <2>8
  <2>11. F[s] = f[x] + F[w]
    <3> HIDE DEF v, w, z
    <3>1. F[v] = f[x] + F[z] /\ F[w] = f[p] + F[z]
      BY <2>6, <2>7, <2>8
    <3> QED BY <2>9, <2>10, <3>1
  <2> QED BY <2>2, <2>11
<1> QED BY <1>1, <1>2 DEF F, AnyFirst

\* Moving m from a to b leaves the sum alone.
LEMMA SumMoves ==
  ASSUME NEW S, IsFiniteSet(S), NEW f \in [S -> Int], NEW h \in [S -> Int],
         NEW a \in S, NEW b \in S, a # b, NEW m \in Int,
         h[a] = f[a] - m, h[b] = f[b] + m,
         \A x \in S : x # a /\ x # b => h[x] = f[x]
  PROVE  Sum(S, h) = Sum(S, f)
<1> DEFINE e == [f EXCEPT ![a] = h[a]]
<1>1. e \in [S -> Int] /\ e[a] = h[a] /\ e[b] = f[b] /\ \A x \in S : x # a => e[x] = f[x]
  OBVIOUS
<1>2. \A x \in S : x # b => h[x] = e[x]
  BY <1>1
<1> HIDE DEF e
<1>3. Sum(S, e) = Sum(S, f) + e[a] - f[a]
  BY <1>1, SumPoint
<1>4. Sum(S, h) = Sum(S, e) + h[b] - e[b]
  BY <1>1, <1>2, SumPoint
<1>5. Sum(S, f) \in Int
  BY SumInt DEF Sum
<1>6. f[a] \in Int /\ f[b] \in Int
  OBVIOUS
<1> QED BY <1>1, <1>3, <1>4, <1>5, <1>6

\* Leaving terms out is counting them as 0.
LEMMA SumFilter ==
  ASSUME NEW S, IsFiniteSet(S), NEW T \in SUBSET S, NEW f \in [T -> Int], NEW h \in [S -> Int],
         \A x \in T : h[x] = f[x], \A x \in S \ T : h[x] = 0
  PROVE  Sum(T, f) = Sum(S, h)
<1> DEFINE F == SumFun(T, f)
           H == SumFun(S, h)
           V == {s \in SUBSET S : H[s] = F[s \cap T]}
<1>1. IsFiniteSet(T)
  BY FS_Subset
<1>2. Sums(F, T, f) /\ Sums(H, S, h)
  BY <1>1, SumFacts
<1>3. AnyFirst(F, T, f)
  BY <1>1, SumRemove
<1> HIDE DEF F, H
<1>4. {} \in V
  <2>1. {} \cap T = {}
    OBVIOUS
  <2> QED BY <1>2, <2>1 DEF Sums
<1>5. ASSUME NEW s \in SUBSET S, s # {}, s \ {Pick(s)} \in V PROVE s \in V
  <2> DEFINE p == Pick(s)
  <2>1. p \in s
    BY <1>5, PickIn
  <2>2. H[s] = h[p] + H[s \ {p}] /\ H[s \ {p}] \in Int /\ H[s \ {p}] = F[(s \ {p}) \cap T]
    BY <1>2, <1>5 DEF Sums
  <2> HIDE DEF p
  <2>3. CASE p \in T
    <3>1. (s \ {p}) \cap T = (s \cap T) \ {p} /\ p \in s \cap T /\ s \cap T \in SUBSET T
      BY <2>1, <2>3
    <3>2. F[s \cap T] = f[p] + F[(s \cap T) \ {p}]
      BY <1>3, <3>1 DEF AnyFirst
    <3>3. H[s] = F[s \cap T]
      BY <2>2, <2>3, <3>1, <3>2
    <3> QED BY <3>3
  <2>4. CASE p \notin T
    <3>1. (s \ {p}) \cap T = s \cap T
      BY <2>4
    <3>2. h[p] = 0
      BY <2>1, <2>4
    <3>3. H[s] = H[s \ {p}]
      BY <2>2, <3>2
    <3>4. H[s] = F[s \cap T]
      BY <2>2, <3>1, <3>3
    <3> QED BY <3>4
  <2> QED BY <2>3, <2>4
<1> HIDE DEF V
<1>6. S \in V
  BY <1>4, <1>5, SubsetInduction
<1>7. S \cap T = T
  OBVIOUS
<1> QED BY <1>6, <1>7 DEF V, F, H, Sum

\* There is one such function.
LEMMA SumUnique ==
  ASSUME NEW S, IsFiniteSet(S), NEW f \in [S -> Int], NEW g, SumEq(g, SUBSET S, f)
  PROVE  g[S] = Sum(S, f)
<1> DEFINE F == SumFun(S, f)
           T == {s \in SUBSET S : g[s] = F[s]}
<1>1. Sums(F, S, f)
  BY SumFacts
<1>2. \A s \in SUBSET S : g[s] = IF s = {} THEN 0 ELSE f[Pick(s)] + g[s \ {Pick(s)}]
  BY DEF SumEq
<1> HIDE DEF F
<1>3. {} \in T
  BY <1>1, <1>2 DEF Sums
<1>4. ASSUME NEW s \in SUBSET S, s # {}, s \ {Pick(s)} \in T PROVE s \in T
  BY <1>1, <1>2, <1>4 DEF Sums
<1> HIDE DEF T
<1>5. S \in T
  BY <1>3, <1>4, SubsetInduction
<1> QED BY <1>5 DEF T, F, Sum

-----------------------------------------------------------------------------
Balances(r) == [a \in Accounts |-> r[a].balance]

\* The sum of the property is the sum of these lemmas.
LEMMA BalancesFold ==
  ASSUME NEW r \in [Accounts -> AccountRow]
  PROVE  MapThenSumSet(LAMBDA a : r[a].balance, Accounts) = Sum(Accounts, Balances(r))
<1> DEFINE R(g) == g = [s \in SUBSET Accounts |->
                          IF s = {} THEN 0 ELSE r[Pick(s)].balance + g[s \ {Pick(s)}]]
<1>1. Balances(r) \in [Accounts -> Int] /\ \A a \in Accounts : Balances(r)[a] = r[a].balance
  BY DEF Balances, AccountRow
<1>2. ASSUME NEW g PROVE R(g) <=> SumEq(g, SUBSET Accounts, Balances(r))
  <2>1. \A s \in SUBSET Accounts : s # {} => r[Pick(s)].balance = Balances(r)[Pick(s)]
    BY <1>1, PickIn
  <2> QED BY <2>1 DEF SumEq
<1>3. MapThenSumSet(LAMBDA a : r[a].balance, Accounts) = (CHOOSE g : R(g))[Accounts]
  BY DEF MapThenSumSet, MapThenFoldSet, Pick
<1> HIDE DEF R
<1>4. \E g : R(g)
  BY <1>1, <1>2, SumExists, AccountsAssumption
<1>5. R(CHOOSE g : R(g))
  BY <1>4
<1> QED BY <1>1, <1>2, <1>3, <1>5, SumUnique, AccountsAssumption

SumKept == others = 0 => Sum(Accounts, Balances(rows)) = Sum(Accounts, Balances(Row0))

\* A commit takes from the source's current row what it adds to the
\* destination's current row, so the balances keep their sum.
LEMMA CommitKeepsSum ==
  ASSUME IInv, NEW t \in Transfers, At(t, "commit"), Applied(t)
  PROVE  Sum(Accounts, Balances(rows')) = Sum(Accounts, Balances(rows))
<1> DEFINE r == tx[t]
<1>1. /\ r \in TxRec /\ Knows(t, r, rows, lock)
      /\ Source[t] \in Accounts /\ Destination[t] \in Accounts /\ Source[t] # Destination[t]
      /\ Amount[t] \in Nat
  BY Loaded
<1>2. /\ rows[Source[t]] = r.src /\ rows[Destination[t]] = r.dst
      /\ CanDebit(r.src, Amount[t])
  BY <1>1 DEF At, Knows, MayMove, HasSource, HasBoth, Vetted
<1>3. r.src \in AccountRow /\ r.dst \in AccountRow
  BY <1>1 DEF TxRec
<1>4. NewSource(t).balance = r.src.balance - Amount[t]
  BY <1>1, <1>2, <1>3, DebitedRow DEF NewSource
<1>5. NewDestination(t).balance = r.dst.balance + Amount[t]
  BY <1>1, <1>3, CreditedRow DEF NewDestination
<1>6. rows \in [Accounts -> AccountRow] /\ rows' \in [Accounts -> AccountRow]
  BY AppliedRows DEF IInv, TypeOK
<1>7. /\ rows'[Source[t]] = NewSource(t) /\ rows'[Destination[t]] = NewDestination(t)
      /\ \A a \in Accounts : a # Source[t] /\ a # Destination[t] => rows'[a] = rows[a]
  BY <1>1, <1>6 DEF Applied
<1> HIDE DEF r
<1>8. ASSUME NEW h, NEW a, NEW b, NEW m, NEW f, f = Balances(rows), h = Balances(rows'),
             a = Source[t], b = Destination[t], m = Amount[t]
      PROVE  Sum(Accounts, h) = Sum(Accounts, f)
  <2>1. /\ h \in [Accounts -> Int] /\ f \in [Accounts -> Int]
        /\ a \in Accounts /\ b \in Accounts /\ a # b /\ m \in Int
    BY <1>1, <1>6, <1>8 DEF Balances, AccountRow
  <2>2. /\ h[a] = f[a] - m /\ h[b] = f[b] + m
        /\ \A x \in Accounts : x # a /\ x # b => h[x] = f[x]
    BY <1>1, <1>2, <1>4, <1>5, <1>7, <1>8 DEF Balances
  <2> QED BY <2>1, <2>2, SumMoves, AccountsAssumption
<1> QED
  BY <1>8

\* Conservation of money: however transfers cross, chain, conflict, deadlock,
\* time out or lose the answer to their commit, they leave the sum of all
\* balances as it was.
THEOREM MoneyIsConserved == Spec => []Conservation
<1>1. Init => SumKept
  BY DEF Init, SumKept
<1>2. IInv /\ SumKept /\ [Next]_vars => SumKept'
  <2> SUFFICES ASSUME IInv, SumKept, [Next]_vars PROVE SumKept'
    OBVIOUS
  <2>1. others \in Nat
    BY DEF IInv, TypeOK
  <2>2. ASSUME rows' = rows, others' = others PROVE SumKept'
    BY <2>2 DEF SumKept, Balances
  <2>3. CASE UNCHANGED vars
    BY <2>2, <2>3 DEF vars
  <2>4. ASSUME NEW t \in Transfers, Commit(t) \/ CommitLost(t) PROVE SumKept'
    <3>1. At(t, "commit") /\ Applied(t) /\ others' = others
      BY <2>4 DEF Commit, CommitLost
    <3>2. Sum(Accounts, Balances(rows')) = Sum(Accounts, Balances(rows))
      BY <3>1, CommitKeepsSum
    <3> QED BY <3>1, <3>2 DEF SumKept, Balances
  <2>5. ASSUME NEW t \in Transfers,
               Step(t) \/ DeadlockVictim(t) \/ Abort(t) \/ CommitLost(t) \/ Crash(t)
        PROVE SumKept'
    BY <2>2, <2>4, <2>5 DEF Step, Refuse, Begin, LoadSource, LoadDestination, WrongDestination,
       Check, WriteSource, WriteDestination, Write, Create, Fail, DeadlockVictim, Abort, Crash
  <2>6. ASSUME NEW a \in Accounts,
               \/ \E m \in OtherAmounts : OtherCredit(a, m) \/ OtherDebit(a, m)
               \/ OtherFreeze(a) \/ OtherUnfreeze(a) \/ OtherClose(a)
        PROVE SumKept'
    <3>1. others' = others + 1
      BY <2>6 DEF OtherCredit, OtherDebit, OtherFreeze, OtherUnfreeze, OtherClose, Other
    <3> QED BY <2>1, <3>1 DEF SumKept
  <2> QED BY <2>3, <2>5, <2>6 DEF Next
<1>3. IInv /\ SumKept => Conservation
  <2>1. IInv => rows \in [Accounts -> AccountRow]
    BY DEF IInv, TypeOK
  <2> QED BY <2>1, RowAssumption, BalancesFold DEF SumKept, Conservation
<1> QED
  BY <1>1, <1>2, <1>3, Inductive, PTL DEF Spec
-----------------------------------------------------------------------------
(***************************************************************************)
(* TransferLimits, for any requests, amounts, window, clock and failures.  *)
(*                                                                         *)
(* The invariant says of each transfer what its entries come to at every   *)
(* step of its handlers (BookingRight): a webhook's success is saved       *)
(* before it is posted, so no delivery that finds the transfer PROCESSING  *)
(* finds it settled.  The daily limit is about a sum, so each request has  *)
(* a weight on it, counted by the query or past its check and still        *)
(* waiting to be (Weight), and a step of one request moves one term.       *)
(* Until a check is raced at most one request waits, so the sum the next   *)
(* check reads is all that weighs on the limit.                            *)
(***************************************************************************)
Total(x) == x.kobo + Fee(x.kobo, x.type)

\* The legs of a posting are those its outcome calls for.
LegsRight(x) ==
  /\ x.then = "PENDING" =>
       x.legs["clearing"] = Total(x) /\ x.legs["settled"] = 0 /\ x.legs["revenue"] = 0
  /\ x.then = "SUCCESSFUL" =>
       /\ x.legs["clearing"] = -Total(x) /\ x.legs["settled"] = x.kobo
       /\ x.legs["revenue"] = Fee(x.kobo, x.type)
  /\ x.then \in {"REVERSED", "NONE"} =>
       x.legs["clearing"] = -Total(x) /\ x.legs["settled"] = 0 /\ x.legs["revenue"] = 0

\* What the step of a request says of the rest of its record.
RecordRight(x) ==
  /\ x.pc \in {"idle", "tier", "limit", "sum", "save", "refused"} => x.status = "NONE"
  /\ x.pc \in {"read", "insert", "payout", "processing", "mark"} => x.type = "EXTERNAL"
  /\ x.pc \in {"limit", "sum"} => x.tier >= 1
  /\ x.read \subseteq TouchedBy(x.legs)
  /\ x.pc = "read" => x.read # TouchedBy(x.legs)
  /\ x.pc = "insert" => x.read = TouchedBy(x.legs)
  /\ x.pc \notin {"read", "insert"} => x.read = {}
  /\ x.pc \in {"read", "insert"} =>
       /\ LegsRight(x)
       /\ x.then \in {"PENDING", "NONE"} => x.status = "PENDING"
       /\ x.then = "SUCCESSFUL" => x.status \in {"PENDING", "SUCCESSFUL"}
       /\ x.then = "REVERSED" => x.status \in {"PENDING", "PROCESSING", "REVERSED"}
  /\ x.pc = "payout" => x.status = "PENDING"
  /\ x.pc = "processing" => x.status \in {"PROCESSING", "REVERSED"}
  /\ x.pc = "mark" => \/ x.then = "SUCCESSFUL" /\ x.status = "PENDING"
                      \/ x.then = "REVERSED" /\ x.status \in {"PENDING", "PROCESSING", "REVERSED"}
  /\ x.pc = "done" => x.status \in {"PENDING", "SUCCESSFUL", "REVERSED"}

\* A second delivery is under way (p: the request is among the repeated).
TwinFits(x, w, p) ==
  w.pc # "none" => /\ x.status \in {"PROCESSING", "REVERSED"} /\ x.type = "EXTERNAL"
                   /\ x.then = "REVERSED" /\ p

\* Nothing, or all, of the settlement is among the entries b.
Unsettled(b)  == b["settled"] = 0 /\ b["revenue"] = 0
Settled(x, b) == b["settled"] = x.kobo /\ b["revenue"] = Fee(x.kobo, "EXTERNAL")

\* The settlement was posted, and what is left on clearing, when nothing failed.
Posts(x) == /\ x.type = "EXTERNAL"
            /\ \/ x.pc = "done" /\ x.status = "SUCCESSFUL"
               \/ x.pc = "mark" /\ x.then = "SUCCESSFUL"

ClearingOf(x) ==
  IF x.pc \in {"payout", "processing"} \/ (x.pc \in {"read", "insert"} /\ x.then # "PENDING")
  THEN Total(x) ELSE 0

\* The entries b of a request, l and p telling whether it is lost or repeated.
BookingRight(x, b, l, p) ==
  /\ Unsettled(b) \/ Settled(x, b)
  /\ \/ x.status \in {"NONE", "PROCESSING", "REVERSED"}
     \/ x.pc = "payout"
     \/ x.pc \in {"read", "insert"} /\ x.then # "NONE"
     \/ x.pc = "mark" /\ x.then = "REVERSED"
     => Unsettled(b)
  /\ x.then = "NONE" => l
  /\ x.status = "REVERSED" /\ ~p => x.pc = "done"
  /\ ~l /\ Posts(x) => Settled(x, b)
  /\ ~l /\ ~Posts(x) => Unsettled(b)
  /\ ~l /\ ~p /\ ~(x.pc = "done" /\ x.status = "PENDING") => b["clearing"] = ClearingOf(x)

\* What a request weighs on the daily limit, counted already or not yet.
Waits(x) == /\ x.pc \in {"save", "read", "insert", "payout", "mark"}
            /\ x.status \in {"NONE", "PENDING"}

Weight(x, now) ==
  IF (x.status \in {"SUCCESSFUL", "PROCESSING"} /\ x.createdAt >= now - Window) \/ Waits(x)
  THEN x.kobo ELSE 0

Weights == [r \in Requests |-> Weight(req[r], clock)]

Twin == [pc: {"none", "read", "insert", "mark"}, seen: Int]

\* All that is said of one request.
RequestRight(r) ==
  /\ RecordRight(req[r]) /\ req[r].tier <= ResolveTier
  /\ TwinFits(req[r], twin[r], r \in repeated)
  /\ BookingRight(req[r], booked[r], r \in lost, r \in repeated)

\* What was read and not posted yet is still the newest balance.
StillNewest ==
  \A r \in Requests :
    /\ \A a \in req[r].read : req[r].seen[a] = ledger[a].newest
    /\ twin[r].pc = "insert" => twin[r].seen = ledger["clearing"].newest

WeightRight ==
  /\ \A q, r \in Requests : Waits(req[q]) /\ Waits(req[r]) => q = r
  /\ Sum(Requests, Weights) <= DefaultLimits[ResolveTier].daily

LimitsInv ==
  /\ LimitsTypeOK
  /\ \A r \in Requests : RequestRight(r)
  /\ RunningBalanceIsSum
  /\ ~overlapped => StillNewest
  /\ ~raced => WeightRight

\* What the figures come to in kobo.
LEMMA NairaIs == ASSUME NEW n \in Nat PROVE Naira(n) = n * 100
BY DEF Naira, FromDecimalString

\* The figures of the policy and of the fee schedule.
LEMMA Figures ==
  /\ \A i \in 1..3 : DefaultLimits[i].daily \in Nat
  /\ DefaultLimits[1].daily <= DefaultLimits[2].daily
  /\ DefaultLimits[2].daily <= DefaultLimits[3].daily
<1>1. DefaultLimits[1].daily = 5000000
  BY NairaIs DEF DefaultLimits
<1>2. DefaultLimits[2].daily = 20000000
  BY NairaIs DEF DefaultLimits
<1>3. DefaultLimits[3].daily = 500000000
  BY NairaIs DEF DefaultLimits
<1>4. \A i \in 1..3 : i = 1 \/ i = 2 \/ i = 3
  OBVIOUS
<1> QED BY <1>1, <1>2, <1>3, <1>4

\* A payout has a fee, a transfer inside the bank has none.
LEMMA FeeIs ==
  ASSUME NEW k \in Nat
  PROVE  Fee(k, "INTERNAL") = 0 /\ Fee(k, "EXTERNAL") \in Nat /\ Fee(k, "EXTERNAL") > 0
<1>1. Naira(10) = 1000 /\ Naira(25) = 2500 /\ Naira(50) = 5000
  BY NairaIs
<1> QED BY <1>1 DEF Fee

\* An amount that is well formed is a number of kobo.
LEMMA ParsedIsNat ==
  ASSUME NEW decimal \in Decimals, WellFormed(decimal)
  PROVE  FromDecimalString(decimal) \in Nat
<1>1. decimal.major \in Nat /\ decimal.minor \in Seq(0..9)
  BY DecimalsAssumption
<1>2. Len(decimal.minor) >= 1 => decimal.minor[1] \in 0..9
  BY <1>1
<1>3. Len(decimal.minor) = 2 => decimal.minor[2] \in 0..9
  BY <1>1
<1> DEFINE k == Len(decimal.minor)
<1>4. k \in Nat
  BY <1>1
<1>5. (IF k >= 1 THEN decimal.minor[1] * 10 ELSE 0) \in Nat
  BY <1>2
<1>6. (IF k = 2 THEN decimal.minor[2] ELSE 0) \in Nat
  BY <1>3
<1> QED BY <1>1, <1>5, <1>6 DEF FromDecimalString

\* Every figure kept for a record is a number.
LEMMA RecordNumbers ==
  ASSUME NEW x \in Request, NEW now \in Nat
  PROVE  /\ x.kobo \in Nat /\ x.createdAt \in Nat /\ x.tier \in 0..3
         /\ Fee(x.kobo, x.type) \in Nat
         /\ Total(x) \in Nat /\ (x.type = "EXTERNAL" => Total(x) > 0)
         /\ Weight(x, now) \in Nat
<1>1. x.kobo \in Nat /\ x.createdAt \in Nat /\ x.tier \in 0..3 /\ x.type \in {"INTERNAL", "EXTERNAL"}
  BY DEF Request
<1>2. Fee(x.kobo, x.type) \in Nat /\ (x.type = "EXTERNAL" => Fee(x.kobo, x.type) > 0)
  BY <1>1, FeeIs
<1>3. Total(x) \in Nat /\ (x.type = "EXTERNAL" => Total(x) > 0)
  BY <1>1, <1>2 DEF Total
<1>4. Weight(x, now) \in Nat
  BY <1>1 DEF Weight
<1> QED BY <1>1, <1>2, <1>3, <1>4

LEMMA LimitsFacts ==
  ASSUME LimitsInv
  PROVE  /\ req \in [Requests -> Request] /\ tier \in 0..3 /\ clock \in Nat
         /\ ledger \in [SystemAccounts -> [newest: Int, posted: Int]]
         /\ booked \in [Requests -> Legs] /\ twin \in [Requests -> Twin]
         /\ failures \in Nat /\ lost \subseteq Requests /\ repeated \subseteq Requests
         /\ ResolveTier \in 1..3
         /\ raced \in BOOLEAN /\ overlapped \in BOOLEAN
BY DEF LimitsInv, LimitsTypeOK, ResolveTier, Twin

\* What the invariant says of one record.
LEMMA RecordFacts ==
  ASSUME LimitsInv, NEW r \in Requests
  PROVE  /\ req[r] \in Request /\ RecordRight(req[r]) /\ req[r].tier <= ResolveTier
         /\ twin[r] \in Twin /\ booked[r] \in Legs
         /\ TwinFits(req[r], twin[r], r \in repeated)
         /\ BookingRight(req[r], booked[r], r \in lost, r \in repeated)
         /\ ResolveTier \in 1..3 /\ clock \in Nat
BY LimitsFacts DEF LimitsInv, RequestRight

\* The weights when one request moves on to the record y.
LEMMA WeightsFollow ==
  ASSUME LimitsInv, NEW r \in Requests, NEW y \in Request, req' = [req EXCEPT ![r] = y],
         clock' = clock
  PROVE  /\ Sum(Requests, Weights') = Sum(Requests, Weights) + Weight(y, clock) - Weight(req[r], clock)
         /\ Sum(Requests, Weights) \in Int
<1>1. req \in [Requests -> Request] /\ clock \in Nat
  BY LimitsFacts
<1>2. req' \in [Requests -> Request] /\ req'[r] = y /\ \A q \in Requests : q # r => req'[q] = req[q]
  BY <1>1
<1>5. ASSUME NEW f, NEW h, f = Weights, h = Weights'
      PROVE  Sum(Requests, h) = Sum(Requests, f) + Weight(y, clock) - Weight(req[r], clock)
             /\ Sum(Requests, f) \in Int
  <2>1. f \in [Requests -> Int] /\ h \in [Requests -> Int]
    BY <1>1, <1>2, <1>5, RecordNumbers DEF Weights, Weight, Waits
  <2>2. h[r] = Weight(y, clock) /\ f[r] = Weight(req[r], clock)
        /\ \A q \in Requests : q # r => h[q] = f[q]
    BY <1>2, <1>5 DEF Weights, Weight, Waits
  <2>3. Sum(Requests, h) = Sum(Requests, f) + h[r] - f[r]
    BY <2>1, <2>2, SumPoint, RequestsAssumption
  <2>4. Sum(Requests, f) \in Int
    BY <2>1, SumInt, RequestsAssumption DEF Sum
  <2> QED BY <2>2, <2>3, <2>4
<1> QED BY <1>5

\* It weighs no more than before: the daily limit is kept.
LEMMA WeightKept ==
  ASSUME LimitsInv, NEW r \in Requests, NEW y \in Request, req' = [req EXCEPT ![r] = y],
         UNCHANGED <<tier, clock, raced>>,
         Weight(y, clock) <= Weight(req[r], clock), Waits(y) => Waits(req[r])
  PROVE  (~raced => WeightRight)'
<1>1. req \in [Requests -> Request] /\ clock \in Nat /\ ResolveTier \in 1..3
  BY LimitsFacts
<1>2. req'[r] = y /\ \A q \in Requests : q # r => req'[q] = req[q]
  BY <1>1
<1> DEFINE W == Sum(Requests, Weights)
           V == Sum(Requests, Weights')
           D == DefaultLimits[ResolveTier].daily
<1>3. Weight(y, clock) \in Int /\ Weight(req[r], clock) \in Int
  BY <1>1, RecordNumbers
<1>4. V = W + Weight(y, clock) - Weight(req[r], clock) /\ W \in Int
  BY WeightsFollow
<1>5. D \in Int
  BY <1>1, Figures
<1> SUFFICES ASSUME ~raced
             PROVE  /\ \A q, u \in Requests : Waits(req'[q]) /\ Waits(req'[u]) => q = u
                    /\ V <= D
  BY DEF WeightRight, Waits, ResolveTier
<1>6. W <= D /\ \A q, u \in Requests : Waits(req[q]) /\ Waits(req[u]) => q = u
  BY DEF LimitsInv, WeightRight
<1>7. \A q \in Requests : Waits(req'[q]) => Waits(req[q])
  BY <1>2
<1> HIDE DEF W, V, D
<1>8. V <= D
  BY <1>3, <1>4, <1>5, <1>6
<1> QED BY <1>6, <1>7, <1>8

\* What is said of a request, when only the handlers of r have moved.
LEMMA RequestsKept ==
  ASSUME LimitsInv, NEW r \in Requests, NEW y \in Request, req' = [req EXCEPT ![r] = y],
         NEW w \in Twin, twin' = [twin EXCEPT ![r] = w],
         NEW c \in Legs, booked' = [booked EXCEPT ![r] = c],
         lost \subseteq lost', lost' \subseteq lost \cup {r},
         repeated \subseteq repeated', repeated' \subseteq repeated \cup {r}, tier' = tier,
         RecordRight(y), y.tier <= ResolveTier, TwinFits(y, w, r \in repeated'),
         BookingRight(y, c, r \in lost', r \in repeated')
  PROVE  \A q \in Requests : RequestRight(q)'
<1>1. /\ req \in [Requests -> Request] /\ twin \in [Requests -> Twin]
      /\ booked \in [Requests -> Legs]
  BY LimitsFacts
<1>2. /\ req'[r] = y /\ \A q \in Requests : q # r => req'[q] = req[q]
      /\ twin'[r] = w /\ \A q \in Requests : q # r => twin'[q] = twin[q]
      /\ booked'[r] = c /\ \A q \in Requests : q # r => booked'[q] = booked[q]
  BY <1>1
<1>3. ASSUME NEW q \in Requests
      PROVE  /\ RecordRight(req'[q]) /\ req'[q].tier <= ResolveTier
             /\ TwinFits(req'[q], twin'[q], q \in repeated')
             /\ BookingRight(req'[q], booked'[q], q \in lost', q \in repeated')
  <2>1. CASE q = r
    BY <1>2, <2>1
  <2>2. CASE q # r
    <3>1. (q \in lost' <=> q \in lost) /\ (q \in repeated' <=> q \in repeated)
      BY <2>2
    <3>2. /\ RecordRight(req[q]) /\ req[q].tier <= ResolveTier
          /\ TwinFits(req[q], twin[q], q \in repeated)
          /\ BookingRight(req[q], booked[q], q \in lost, q \in repeated)
      BY RecordFacts
    <3>3. TwinFits(req[q], twin[q], q \in repeated')
      BY <3>1, <3>2 DEF TwinFits
    <3>4. BookingRight(req[q], booked[q], q \in lost', q \in repeated')
      BY <3>1, <3>2 DEF BookingRight
    <3> QED BY <1>2, <2>2, <3>2, <3>3, <3>4
  <2> QED BY <2>1, <2>2
<1> QED
  BY <1>3 DEF RequestRight, RecordRight, LegsRight, Total, TouchedBy, ResolveTier, TwinFits,
    BookingRight, Unsettled, Settled, Posts, ClearingOf

\* The handlers of r move on to y and w with no posting and no new check.
LEMMA RecordStep ==
  ASSUME LimitsInv, NEW r \in Requests, NEW y \in Request, req' = [req EXCEPT ![r] = y],
         NEW w \in Twin, twin' = [twin EXCEPT ![r] = w],
         UNCHANGED <<tier, ledger, booked, clock, raced, overlapped>>,
         failures' \in Nat, lost \subseteq lost', lost' \subseteq lost \cup {r},
         repeated \subseteq repeated', repeated' \subseteq repeated \cup {r},
         RecordRight(y), y.tier <= ResolveTier, TwinFits(y, w, r \in repeated'),
         BookingRight(y, booked[r], r \in lost', r \in repeated'),
         Weight(y, clock) <= Weight(req[r], clock), Waits(y) => Waits(req[r]),
         \A a \in y.read : \/ a \in req[r].read /\ y.seen[a] = req[r].seen[a]
                           \/ y.seen[a] = ledger[a].newest,
         w.pc = "insert" => w = twin[r] \/ w.seen = ledger["clearing"].newest
  PROVE  LimitsInv'
<1>1. /\ req \in [Requests -> Request] /\ twin \in [Requests -> Twin]
      /\ booked \in [Requests -> Legs] /\ lost \subseteq Requests /\ repeated \subseteq Requests
  BY LimitsFacts
<1>2. /\ req' \in [Requests -> Request] /\ req'[r] = y
      /\ \A q \in Requests : q # r => req'[q] = req[q]
      /\ twin' \in [Requests -> Twin] /\ twin'[r] = w
      /\ \A q \in Requests : q # r => twin'[q] = twin[q]
  BY <1>1
<1>3. LimitsTypeOK'
  <2>1. lost' \subseteq Requests /\ repeated' \subseteq Requests
    BY <1>1
  <2> QED BY <1>2, <2>1 DEF LimitsInv, LimitsTypeOK, Twin
<1>4. \A q \in Requests : RequestRight(q)'
  <2>1. booked' = [booked EXCEPT ![r] = booked[r]] /\ booked[r] \in Legs
    BY <1>1
  <2> QED BY <2>1, RequestsKept
<1>5. RunningBalanceIsSum'
  BY DEF LimitsInv, RunningBalanceIsSum
<1>6. (~overlapped => StillNewest)'
  BY <1>2 DEF LimitsInv, StillNewest
<1>7. (~raced => WeightRight)'
  BY WeightKept
<1> QED BY <1>3, <1>4, <1>5, <1>6, <1>7 DEF LimitsInv

\* The same when nothing fails and no second delivery moves.
LEMMA PlainStep ==
  ASSUME LimitsInv, NEW r \in Requests, NEW y \in Request, req' = [req EXCEPT ![r] = y],
         UNCHANGED <<tier, clock, raced, postings>>,
         RecordRight(y), y.tier <= ResolveTier, TwinFits(y, twin[r], r \in repeated),
         BookingRight(y, booked[r], r \in lost, r \in repeated),
         Weight(y, clock) <= Weight(req[r], clock), Waits(y) => Waits(req[r]),
         \A a \in y.read : \/ a \in req[r].read /\ y.seen[a] = req[r].seen[a]
                           \/ y.seen[a] = ledger[a].newest
  PROVE  LimitsInv'
<1>1. UNCHANGED <<ledger, booked, twin, failures, overlapped, lost, repeated>>
  BY DEF postings
<1>2. twin[r] \in Twin /\ twin' = [twin EXCEPT ![r] = twin[r]] /\ failures' \in Nat
  BY <1>1, LimitsFacts
<1> DEFINE w == twin[r]
<1>3. w \in Twin /\ twin' = [twin EXCEPT ![r] = w] /\ TwinFits(y, w, r \in repeated')
  BY <1>1, <1>2 DEF TwinFits
<1>4. BookingRight(y, booked[r], r \in lost', r \in repeated')
  BY <1>1 DEF BookingRight
<1> QED BY <1>1, <1>2, <1>3, <1>4, RecordStep

\* Nobody has asked for anything yet.
LEMMA LimitsStart == LimitsInit => LimitsInv
<1> SUFFICES ASSUME LimitsInit PROVE LimitsInv
  OBVIOUS
<1> DEFINE x == [pc |-> "idle", type |-> "INTERNAL", kobo |-> 0, tier |-> 0,
                 status |-> "NONE", createdAt |-> 0, legs |-> NoLegs,
                 read |-> {}, seen |-> NoLegs, then |-> "PENDING"]
           w == [pc |-> "none", seen |-> 0]
<1>1. \A r \in Requests : req[r] = x /\ twin[r] = w /\ booked[r] = NoLegs
  BY DEF LimitsInit
<1>2. NoLegs \in Legs
  BY DEF NoLegs, Legs
<1>3. x \in Request
  BY <1>2 DEF Request, RequestSteps
<1>4. LimitsTypeOK
  <2> HIDE DEF x
  <2>1. req \in [Requests -> Request]
    <3>1. req = [r \in Requests |-> x]
      BY DEF LimitsInit, x
    <3> QED BY <1>3, <3>1
  <2>2. ledger \in [SystemAccounts -> [newest: Int, posted: Int]]
    BY DEF LimitsInit
  <2>3. tier \in 0..3 /\ clock \in Nat /\ failures \in Nat
    BY DEF LimitsInit
  <2>4. raced \in BOOLEAN /\ overlapped \in BOOLEAN /\ lost \subseteq Requests /\ repeated \subseteq Requests
    BY DEF LimitsInit
  <2>5. booked \in [Requests -> Legs]
    BY <1>2 DEF LimitsInit
  <2>6. twin \in [Requests -> [pc: {"none", "read", "insert", "mark"}, seen: Int]]
    BY DEF LimitsInit
  <2> QED BY <2>1, <2>2, <2>3, <2>4, <2>5, <2>6 DEF LimitsTypeOK
<1>5. x.read = {} /\ x.pc = "idle" /\ x.status = "NONE" /\ x.tier = 0 /\ w.pc = "none" /\ x.then = "PENDING"
  OBVIOUS
<1> HIDE DEF x, w
<1>6. ResolveTier \in 1..3
  BY DEF LimitsInit, ResolveTier
<1>7. RecordRight(x) /\ x.tier <= ResolveTier
  BY <1>5, <1>6 DEF RecordRight
<1>8. Weight(x, clock) = 0 /\ ~Waits(x)
  BY <1>5 DEF Weight, Waits
<1>9. \A f : f = [r \in Requests |-> 0] => Sum(Requests, f) = 0
  BY SumZero, RequestsAssumption
<1>10. Weights = [r \in Requests |-> 0]
  BY <1>1, <1>8 DEF Weights
<1>11. Sum(Requests, Weights) = 0
  BY <1>9, <1>10
<1>12. 0 <= DefaultLimits[ResolveTier].daily
  BY <1>6, Figures
<1>13. \A a \in SystemAccounts : ledger[a].newest = 0 /\ ledger[a].posted = 0
  BY DEF LimitsInit
<1>14. NoLegs["settled"] = 0 /\ NoLegs["revenue"] = 0 /\ NoLegs["clearing"] = 0
  BY DEF NoLegs, SystemAccounts
<1>15. \A r \in Requests : BookingRight(x, NoLegs, r \in lost, r \in repeated)
                          /\ TwinFits(x, w, r \in repeated)
  BY <1>5, <1>14 DEF BookingRight, Unsettled, Posts, ClearingOf, TwinFits
<1>16. \A r \in Requests : RequestRight(r)
  BY <1>1, <1>7, <1>15 DEF RequestRight
<1>17. StillNewest /\ WeightRight /\ RunningBalanceIsSum
  BY <1>1, <1>5, <1>8, <1>11, <1>12, <1>13 DEF StillNewest, WeightRight, RunningBalanceIsSum
<1> QED BY <1>4, <1>16, <1>17 DEF LimitsInv

\* The steps that neither post nor check the daily sum.
LEMMA ReceiveKeeps ==
  ASSUME LimitsInv, NEW r \in Requests, Receive(r) PROVE LimitsInv'
<1> DEFINE x == req[r]
<1>1. PICK type \in {"INTERNAL", "EXTERNAL"}, decimal \in Decimals :
        req' = [req EXCEPT ![r].type = type,
                           ![r].kobo = IF WellFormed(decimal) THEN FromDecimalString(decimal) ELSE 0,
                           ![r].pc = IF WellFormed(decimal) THEN "tier" ELSE "refused"]
  BY DEF Receive
<1> DEFINE k == IF WellFormed(decimal) THEN FromDecimalString(decimal) ELSE 0
           pc == IF WellFormed(decimal) THEN "tier" ELSE "refused"
           y == [x EXCEPT !.type = type, !.kobo = k, !.pc = pc]
<1>2. k \in Nat /\ pc \in {"tier", "refused"}
  BY ParsedIsNat
<1>3. req' = [req EXCEPT ![r] = y]
  BY <1>1
<1> HIDE DEF k, pc
<1>4. /\ x \in Request /\ RecordRight(x) /\ x.tier <= ResolveTier /\ x.pc = "idle"
      /\ TwinFits(x, twin[r], r \in repeated) /\ BookingRight(x, booked[r], r \in lost, r \in repeated)
  BY RecordFacts DEF Receive
<1> HIDE DEF x
<1>5. y \in Request
  BY <1>2, <1>4 DEF Request, RequestSteps
<1>6. /\ y.pc = pc /\ y.status = x.status /\ y.tier = x.tier /\ y.read = x.read /\ y.legs = x.legs
      /\ y.then = x.then
  BY <1>4 DEF Request
<1> HIDE DEF y
<1>7. y.status = "NONE" /\ x.status = "NONE" /\ y.read = {} /\ x.read = {}
  BY <1>4, <1>6 DEF RecordRight
<1>8. RecordRight(y)
  BY <1>2, <1>6, <1>7 DEF RecordRight
<1>9. ~Waits(y) /\ Weight(y, clock) <= Weight(x, clock)
  BY <1>2, <1>4, <1>6, <1>7 DEF Weight, Waits
<1>10. TwinFits(y, twin[r], r \in repeated)
  BY <1>4, <1>7 DEF TwinFits
<1>11. BookingRight(y, booked[r], r \in lost, r \in repeated)
  BY <1>2, <1>4, <1>6, <1>7 DEF BookingRight, Posts, ClearingOf
<1> QED BY <1>3, <1>4, <1>5, <1>6, <1>7, <1>8, <1>9, <1>10, <1>11, PlainStep DEF x, Receive

LEMMA ReadTierKeeps ==
  ASSUME LimitsInv, NEW r \in Requests, ReadTier(r) PROVE LimitsInv'
<1> DEFINE x == req[r]
           y == [x EXCEPT !.tier = ResolveTier, !.pc = "limit"]
<1>1. req' = [req EXCEPT ![r] = y]
  BY DEF ReadTier
<1>2. /\ x \in Request /\ RecordRight(x) /\ x.pc = "tier" /\ ResolveTier \in 1..3
      /\ TwinFits(x, twin[r], r \in repeated) /\ BookingRight(x, booked[r], r \in lost, r \in repeated)
  <2>1. x.pc = "tier"
    BY DEF ReadTier
  <2> QED BY <2>1, RecordFacts
<1> HIDE DEF x
<1>3. y \in Request
  <2>1. ResolveTier \in 0..3
    BY <1>2
  <2> QED BY <1>2, <2>1 DEF Request, RequestSteps
<1>4. /\ y.pc = "limit" /\ y.status = x.status /\ y.tier = ResolveTier /\ y.read = x.read
      /\ y.legs = x.legs /\ y.then = x.then
  BY <1>2 DEF Request
<1> HIDE DEF y
<1>5. y.status = "NONE" /\ x.status = "NONE" /\ y.read = {} /\ x.read = {}
  BY <1>2, <1>4 DEF RecordRight
<1>6. RecordRight(y) /\ y.tier <= ResolveTier
  BY <1>2, <1>4, <1>5 DEF RecordRight
<1>7. ~Waits(y) /\ Weight(y, clock) <= Weight(x, clock)
  BY <1>2, <1>4, <1>5 DEF Weight, Waits
<1>8. TwinFits(y, twin[r], r \in repeated)
  BY <1>2, <1>5 DEF TwinFits
<1>9. BookingRight(y, booked[r], r \in lost, r \in repeated)
  BY <1>2, <1>4, <1>5 DEF BookingRight, Posts, ClearingOf
<1> QED BY <1>1, <1>3, <1>5, <1>6, <1>7, <1>8, <1>9, PlainStep DEF x, ReadTier

LEMMA CheckTransactionKeeps ==
  ASSUME LimitsInv, NEW r \in Requests, CheckTransaction(r) PROVE LimitsInv'
<1> DEFINE x == req[r]
<1>1. PICK pc \in {"sum", "refused"} : req' = [req EXCEPT ![r].pc = pc]
  BY DEF CheckTransaction, Go
<1> DEFINE y == [x EXCEPT !.pc = pc]
<1>2. req' = [req EXCEPT ![r] = y]
  BY <1>1
<1>3. /\ x \in Request /\ RecordRight(x) /\ x.tier <= ResolveTier /\ x.pc = "limit"
      /\ TwinFits(x, twin[r], r \in repeated) /\ BookingRight(x, booked[r], r \in lost, r \in repeated)
  BY RecordFacts DEF CheckTransaction
<1> HIDE DEF x
<1>4. y \in Request
  BY <1>3 DEF Request, RequestSteps
<1>5. /\ y.pc = pc /\ y.status = x.status /\ y.tier = x.tier /\ y.read = x.read /\ y.legs = x.legs
      /\ y.then = x.then
  BY <1>3 DEF Request
<1> HIDE DEF y
<1>6. y.status = "NONE" /\ x.status = "NONE" /\ y.read = {} /\ x.read = {}
  BY <1>3, <1>5 DEF RecordRight
<1>7. RecordRight(y)
  BY <1>3, <1>5, <1>6 DEF RecordRight
<1>8. ~Waits(y) /\ Weight(y, clock) <= Weight(x, clock)
  BY <1>3, <1>5, <1>6 DEF Weight, Waits
<1>9. TwinFits(y, twin[r], r \in repeated)
  BY <1>3, <1>6 DEF TwinFits
<1>10. BookingRight(y, booked[r], r \in lost, r \in repeated)
  BY <1>3, <1>5, <1>6 DEF BookingRight, Posts, ClearingOf
<1> QED BY <1>2, <1>3, <1>4, <1>5, <1>6, <1>7, <1>8, <1>9, <1>10, PlainStep DEF x, CheckTransaction

\* The legs the recorder is handed.
LEMMA LegsAre ==
  ASSUME LimitsInv, NEW r \in Requests, req[r].type = "EXTERNAL"
  PROVE  LET t == Total(req[r]) IN
         /\ HoldLegs(r) \in Legs /\ SettlementLegs(r) \in Legs /\ ReliefLegs(r) \in Legs
         /\ HoldLegs(r)["clearing"] = t /\ HoldLegs(r)["settled"] = 0 /\ HoldLegs(r)["revenue"] = 0
         /\ ReliefLegs(r)["clearing"] = -t /\ ReliefLegs(r)["settled"] = 0
         /\ ReliefLegs(r)["revenue"] = 0
         /\ SettlementLegs(r)["clearing"] = -t /\ SettlementLegs(r)["settled"] = req[r].kobo
         /\ SettlementLegs(r)["revenue"] = Fee(req[r].kobo, req[r].type)
         /\ TouchedBy(HoldLegs(r)) # {} /\ TouchedBy(SettlementLegs(r)) # {}
         /\ TouchedBy(ReliefLegs(r)) # {}
<1> DEFINE t == Total(req[r])
           k == req[r].kobo
           f == Fee(req[r].kobo, req[r].type)
<1>1. t \in Nat /\ t > 0 /\ k \in Nat /\ f \in Nat /\ TotalDebit(r) = t
  BY RecordFacts, RecordNumbers DEF TotalDebit, Total
<1> HIDE DEF t, k, f
<1>2. HoldLegs(r) = [NoLegs EXCEPT !["clearing"] = t]
  BY <1>1 DEF HoldLegs
<1>3. ReliefLegs(r) = [NoLegs EXCEPT !["clearing"] = -t]
  BY <1>1 DEF ReliefLegs
<1>4. SettlementLegs(r) = [NoLegs EXCEPT !["clearing"] = -t, !["settled"] = k, !["revenue"] = f]
  BY <1>1 DEF SettlementLegs, k, f
<1> DEFINE A == HoldLegs(r)
           B == ReliefLegs(r)
           C == SettlementLegs(r)
<1> HIDE DEF A, B, C
<1>5. /\ A \in Legs /\ A["clearing"] = t /\ A["settled"] = 0 /\ A["revenue"] = 0
  BY <1>1, <1>2 DEF NoLegs, Legs, SystemAccounts, A
<1>6. /\ B \in Legs /\ B["clearing"] = -t /\ B["settled"] = 0 /\ B["revenue"] = 0
  BY <1>1, <1>3 DEF NoLegs, Legs, SystemAccounts, B
<1>7. /\ C \in Legs /\ C["clearing"] = -t /\ C["settled"] = k /\ C["revenue"] = f
  BY <1>1, <1>4 DEF NoLegs, Legs, SystemAccounts, C
<1>8. TouchedBy(A) # {} /\ TouchedBy(B) # {} /\ TouchedBy(C) # {}
  <2>1. "clearing" \in SystemAccounts
    BY DEF SystemAccounts
  <2> QED BY <1>1, <1>5, <1>6, <1>7, <2>1 DEF TouchedBy
<1> QED BY <1>5, <1>6, <1>7, <1>8 DEF A, B, C, t, k, f

LEMMA SaveKeeps ==
  ASSUME LimitsInv, NEW r \in Requests, Save(r) PROVE LimitsInv'
<1> DEFINE x == req[r]
<1>1. /\ x \in Request /\ RecordRight(x) /\ x.tier <= ResolveTier /\ x.pc = "save"
      /\ clock \in Nat /\ x.kobo \in Nat
      /\ TwinFits(x, twin[r], r \in repeated) /\ BookingRight(x, booked[r], r \in lost, r \in repeated)
  BY RecordFacts, RecordNumbers DEF Save
<1>2. x.status = "NONE" /\ x.read = {} /\ x.type \in {"INTERNAL", "EXTERNAL"}
  BY <1>1 DEF RecordRight, Request
<1>3. Weight(x, clock) = x.kobo /\ Waits(x) /\ twin[r].pc = "none"
  BY <1>1, <1>2 DEF Weight, Waits, TwinFits
<1>4. CASE x.type = "INTERNAL"
  <2> DEFINE y == [x EXCEPT !.status = "SUCCESSFUL", !.createdAt = clock, !.pc = "done"]
  <2>1. req' = [req EXCEPT ![r] = y]
    BY <1>4 DEF Save
  <2> HIDE DEF x
  <2>2. y \in Request
    BY <1>1 DEF Request, RequestSteps
  <2>3. /\ y.pc = "done" /\ y.status = "SUCCESSFUL" /\ y.tier = x.tier /\ y.read = x.read
        /\ y.legs = x.legs /\ y.kobo = x.kobo /\ y.type = x.type /\ y.then = x.then
    BY <1>1 DEF Request
  <2> HIDE DEF y
  <2>4. RecordRight(y)
    BY <1>2, <2>3 DEF RecordRight
  <2>5. /\ ~Waits(y) /\ TwinFits(y, twin[r], r \in repeated)
        /\ BookingRight(y, booked[r], r \in lost, r \in repeated)
    BY <1>1, <1>2, <1>3, <1>4, <2>3 DEF BookingRight, Posts, ClearingOf, Waits, TwinFits
  <2>6. Weight(y, clock) <= Weight(x, clock)
    BY <1>1, <1>3, <2>3 DEF Weight
  <2> QED BY <1>1, <1>2, <1>3, <2>1, <2>2, <2>3, <2>4, <2>5, <2>6, PlainStep DEF x, Save
<1>5. CASE x.type = "EXTERNAL"
  <2> DEFINE L == HoldLegs(r)
  <2>0. /\ L \in Legs /\ L["clearing"] = Total(x) /\ L["settled"] = 0 /\ L["revenue"] = 0
        /\ TouchedBy(L) # {}
    BY <1>5, LegsAre
  <2> DEFINE y == [x EXCEPT !.status = "PENDING", !.createdAt = clock,
                            !.legs = L, !.then = "PENDING", !.pc = "read"]
  <2>1. req' = [req EXCEPT ![r] = y]
    BY <1>5 DEF Save
  <2> HIDE DEF x, L
  <2>2. y \in Request
    BY <1>1, <2>0 DEF Request, RequestSteps
  <2>3. /\ y.pc = "read" /\ y.status = "PENDING" /\ y.tier = x.tier /\ y.read = x.read
        /\ y.legs = L /\ y.kobo = x.kobo /\ y.type = x.type /\ y.then = "PENDING"
    BY <1>1 DEF Request
  <2> HIDE DEF y
  <2>4. LegsRight(y)
    BY <2>0, <2>3 DEF LegsRight, Total
  <2>5. RecordRight(y)
    BY <1>2, <1>5, <2>0, <2>3, <2>4 DEF RecordRight
  <2>6. /\ TwinFits(y, twin[r], r \in repeated)
        /\ BookingRight(y, booked[r], r \in lost, r \in repeated)
    BY <1>1, <1>2, <1>3, <2>3 DEF BookingRight, Posts, ClearingOf, TwinFits
  <2>7. Weight(y, clock) <= Weight(x, clock)
    BY <1>1, <1>3, <2>3 DEF Weight
  <2> QED BY <1>1, <1>2, <1>3, <2>1, <2>2, <2>3, <2>5, <2>6, <2>7, PlainStep DEF x, Save
<1> QED BY <1>2, <1>4, <1>5

\* The leg that is read next is one that was not read.
LEMMA MinIn ==
  ASSUME NEW B, B \subseteq 1..3, B # {} PROVE Min(B) \in B
<1>0. B \subseteq Nat
  OBVIOUS
<1>1. \E n \in B : \A k \in B : n <= k
  BY <1>0, LeastNat
<1> QED BY <1>1 DEF Min

LEMMA PostReadKeeps ==
  ASSUME LimitsInv, NEW r \in Requests, PostRead(r) PROVE LimitsInv'
<1> DEFINE x == req[r]
           unread == TouchedBy(req[r].legs) \ req[r].read
           n == Min({i \in 1..3 : LegOrder[i] \in unread})
           a == LegOrder[n]
           pc == IF unread = {a} THEN "insert" ELSE "read"
           y == [x EXCEPT !.read = @ \cup {a}, !.seen[a] = ledger[a].newest, !.pc = pc]
<1>1. /\ x \in Request /\ RecordRight(x) /\ x.tier <= ResolveTier /\ clock \in Nat
      /\ TwinFits(x, twin[r], r \in repeated) /\ BookingRight(x, booked[r], r \in lost, r \in repeated)
  BY RecordFacts
<1>2. x.pc = "read"
  BY DEF PostRead
<1>3. req' = [req EXCEPT ![r].read = @ \cup {a}, ![r].seen[a] = ledger[a].newest, ![r].pc = pc]
  BY DEF PostRead
<1>4. req' = [req EXCEPT ![r] = y]
  BY <1>3
<1>5. unread # {} /\ unread \subseteq SystemAccounts
  BY <1>1, <1>2 DEF RecordRight, TouchedBy
<1>6. a \in unread
  <2>1. \A b \in SystemAccounts : \E i \in 1..3 : LegOrder[i] = b
    BY DEF SystemAccounts, LegOrder
  <2>2. {i \in 1..3 : LegOrder[i] \in unread} # {}
    BY <1>5, <2>1
  <2> QED BY <2>2, MinIn
<1>7. a \in SystemAccounts /\ a \in TouchedBy(x.legs) /\ a \notin x.read /\ ledger[a].newest \in Int
  BY <1>5, <1>6, LimitsFacts
<1>8. pc \in {"insert", "read"} /\ (pc = "insert" <=> TouchedBy(x.legs) = x.read \cup {a})
  BY <1>1, <1>6 DEF RecordRight
<1> HIDE DEF a, pc, x, n
<1>9. y \in Request
  BY <1>1, <1>7, <1>8 DEF Request, RequestSteps, Legs
<1>10. /\ y.pc = pc /\ y.status = x.status /\ y.tier = x.tier /\ y.read = x.read \cup {a}
       /\ y.legs = x.legs /\ y.kobo = x.kobo /\ y.type = x.type /\ y.then = x.then
       /\ y.createdAt = x.createdAt
  BY <1>1 DEF Request
<1>11. y.seen[a] = ledger[a].newest /\ \A b \in x.read : y.seen[b] = x.seen[b]
  BY <1>1, <1>7 DEF Request, Legs
<1> HIDE DEF y
<1>12. LegsRight(y)
  BY <1>1, <1>2, <1>10 DEF RecordRight, LegsRight, Total
<1>13. RecordRight(y)
  BY <1>1, <1>2, <1>7, <1>8, <1>10, <1>12 DEF RecordRight
<1>14. /\ TwinFits(y, twin[r], r \in repeated)
       /\ BookingRight(y, booked[r], r \in lost, r \in repeated)
  <2>1. TwinFits(y, twin[r], r \in repeated)
    BY <1>1, <1>10 DEF TwinFits
  <2>2. ClearingOf(y) = ClearingOf(x) /\ ~Posts(y) /\ ~Posts(x)
    BY <1>2, <1>8, <1>10 DEF ClearingOf, Total, Posts
  <2> QED BY <1>1, <1>2, <1>8, <1>10, <2>1, <2>2 DEF BookingRight, Settled
<1>15. Weight(y, clock) = Weight(x, clock) /\ (Waits(y) => Waits(x))
  BY <1>2, <1>8, <1>10 DEF Weight, Waits
<1>16. Weight(y, clock) <= Weight(x, clock)
  BY <1>1, <1>15, RecordNumbers
<1>17. UNCHANGED <<tier, clock, raced, postings>>
  BY DEF PostRead
<1>18. \A b \in y.read : \/ b \in x.read /\ y.seen[b] = x.seen[b]
                         \/ y.seen[b] = ledger[b].newest
  BY <1>10, <1>11
<1>19. y.tier <= ResolveTier
  BY <1>1, <1>10
<1> HIDE DEF unread
<1> QED BY <1>4, <1>9, <1>13, <1>14, <1>15, <1>16, <1>17, <1>18, <1>19, PlainStep DEF x

\* A posting is handed to the recorder, by the saga or by a webhook, or by the
\* catch block after a failure.
LEMMA BookKeeps ==
  ASSUME LimitsInv, NEW r \in Requests, NEW y \in Request, req' = [req EXCEPT ![r] = y],
         UNCHANGED <<tier, ledger, booked, twin, clock, raced, overlapped, repeated>>,
         failures' \in Nat, lost' = lost \/ lost' = lost \cup {r},
         y.pc = "read", y.read = {}, y.tier = req[r].tier, y.kobo = req[r].kobo,
         y.type = req[r].type, y.createdAt = req[r].createdAt,
         \/ y.then = "SUCCESSFUL" /\ y.legs = SettlementLegs(r)
         \/ y.then \in {"REVERSED", "NONE"} /\ y.legs = ReliefLegs(r),
         \/ /\ req[r].pc = "payout" /\ y.status = req[r].status
            /\ y.then \in {"SUCCESSFUL", "REVERSED"}
         \/ /\ req[r].pc = "processing" /\ req[r].status = "PROCESSING"
            /\ \/ y.then = "SUCCESSFUL" /\ y.status = "SUCCESSFUL" /\ req[r].then # "REVERSED"
               \/ y.then = "REVERSED" /\ y.status = "PROCESSING"
         \/ /\ req[r].pc \in {"payout", "read", "insert", "mark"} /\ req[r].status = "PENDING"
            /\ y.then = "NONE" /\ y.status = "PENDING" /\ r \in lost'
  PROVE  LimitsInv'
<1> DEFINE x == req[r]
           w == twin[r]
           b == booked[r]
<1>1. /\ x \in Request /\ RecordRight(x) /\ x.tier <= ResolveTier /\ clock \in Nat
      /\ w \in Twin /\ TwinFits(x, w, r \in repeated)
      /\ BookingRight(x, b, r \in lost, r \in repeated)
  BY RecordFacts
<1>2. x.type = "EXTERNAL" /\ (x.pc = "payout" => x.status = "PENDING")
  BY <1>1 DEF RecordRight
<1>3. /\ TouchedBy(y.legs) # {} /\ y.legs["clearing"] = -Total(x)
      /\ y.then = "SUCCESSFUL" => y.legs["settled"] = x.kobo /\ y.legs["revenue"] = Fee(x.kobo, x.type)
      /\ y.then \in {"REVERSED", "NONE"} => y.legs["settled"] = 0 /\ y.legs["revenue"] = 0
  BY <1>2, LegsAre
<1>4. /\ twin' = [twin EXCEPT ![r] = w] /\ lost \subseteq lost' /\ lost' \subseteq lost \cup {r}
      /\ (r \in lost => r \in lost') /\ (r \in repeated' <=> r \in repeated)
  BY LimitsFacts
<1>5. /\ \/ /\ x.pc = "payout" /\ y.status = x.status
            /\ y.then \in {"SUCCESSFUL", "REVERSED"}
         \/ /\ x.pc = "processing" /\ x.status = "PROCESSING"
            /\ \/ y.then = "SUCCESSFUL" /\ y.status = "SUCCESSFUL" /\ x.then # "REVERSED"
               \/ y.then = "REVERSED" /\ y.status = "PROCESSING"
         \/ /\ x.pc \in {"payout", "read", "insert", "mark"} /\ x.status = "PENDING"
            /\ y.then = "NONE" /\ y.status = "PENDING" /\ r \in lost'
      /\ y.kobo = x.kobo /\ y.type = x.type /\ y.createdAt = x.createdAt /\ y.tier = x.tier
  OBVIOUS
<1> HIDE DEF x, w, b
<1>6. LegsRight(y)
  BY <1>3, <1>5 DEF LegsRight, Total
<1>7. RecordRight(y)
  BY <1>2, <1>3, <1>5, <1>6 DEF RecordRight
<1>8. TwinFits(y, w, r \in repeated')
  BY <1>1, <1>2, <1>4, <1>5 DEF TwinFits
<1>9. BookingRight(y, b, r \in lost', r \in repeated')
  <2>1. y.then # "NONE" => ClearingOf(y) = ClearingOf(x)
    BY <1>5 DEF ClearingOf, Total
  <2>2. ~Posts(y) /\ (y.then # "NONE" => ~Posts(x))
    BY <1>5 DEF Posts
  <2>3. Settled(y, b) <=> Settled(x, b)
    BY <1>5 DEF Settled
  <2> QED BY <1>1, <1>2, <1>4, <1>5, <2>1, <2>2, <2>3 DEF BookingRight
<1>10. Waits(y) => Waits(x)
  BY <1>2, <1>5 DEF Waits
<1>11. Weight(y, clock) = Weight(x, clock)
  BY <1>2, <1>5 DEF Weight, Waits
<1>12. Weight(y, clock) <= Weight(x, clock)
  BY <1>1, <1>11, RecordNumbers
<1>13. y.tier <= ResolveTier
  BY <1>1, <1>5
<1>14. repeated \subseteq repeated' /\ repeated' \subseteq repeated \cup {r}
  OBVIOUS
<1> QED
  BY <1>1, <1>4, <1>7, <1>8, <1>9, <1>10, <1>12, <1>13, <1>14, RecordStep DEF x, w, b

\* Book, as a record.
LEMMA Booked ==
  ASSUME LimitsInv, NEW r \in Requests, NEW L \in Legs, NEW then \in {"SUCCESSFUL", "REVERSED", "NONE"},
         Book(r, L, then)
  PROVE  \E y \in Request :
           /\ req' = [req EXCEPT ![r] = y]
           /\ y.pc = "read" /\ y.read = {} /\ y.tier = req[r].tier /\ y.kobo = req[r].kobo
           /\ y.type = req[r].type /\ y.createdAt = req[r].createdAt /\ y.status = req[r].status
           /\ y.then = then /\ y.legs = L
<1> DEFINE x == req[r]
           y == [x EXCEPT !.legs = L, !.then = then, !.read = {}, !.seen = NoLegs, !.pc = "read"]
<1>1. req' = [req EXCEPT ![r] = y]
  BY DEF Book
<1>2. x \in Request /\ NoLegs \in Legs
  BY RecordFacts DEF NoLegs, Legs
<1> HIDE DEF x
<1>3. y \in Request
  BY <1>2 DEF Request, RequestSteps
<1>4. /\ y.pc = "read" /\ y.read = {} /\ y.tier = x.tier /\ y.kobo = x.kobo
      /\ y.type = x.type /\ y.createdAt = x.createdAt /\ y.status = x.status
      /\ y.then = then /\ y.legs = L
  BY <1>2 DEF Request
<1> HIDE DEF y
<1> QED BY <1>1, <1>3, <1>4 DEF x

LEMMA PayoutKeeps ==
  ASSUME LimitsInv, NEW r \in Requests, Payout(r) PROVE LimitsInv'
<1> DEFINE x == req[r]
<1>0. /\ x.pc = "payout" /\ UNCHANGED <<tier, clock, raced, postings>>
      /\ \/ Book(r, SettlementLegs(r), "SUCCESSFUL")
         \/ Book(r, ReliefLegs(r), "REVERSED")
         \/ req' = [req EXCEPT ![r].status = "PROCESSING", ![r].pc = "processing"]
         \/ req' = [req EXCEPT ![r].pc = "done"]
  BY DEF Payout, Go
<1>1. /\ x \in Request /\ RecordRight(x) /\ x.tier <= ResolveTier /\ clock \in Nat
      /\ req \in [Requests -> Request] /\ failures \in Nat
      /\ TwinFits(x, twin[r], r \in repeated) /\ BookingRight(x, booked[r], r \in lost, r \in repeated)
  BY RecordFacts, LimitsFacts
<1>2. x.status = "PENDING" /\ x.read = {} /\ x.type = "EXTERNAL"
  BY <1>0, <1>1 DEF RecordRight
<1>3. /\ UNCHANGED <<tier, ledger, booked, twin, clock, raced, overlapped, repeated>>
      /\ failures' \in Nat /\ lost' = lost
  BY <1>0, <1>1 DEF postings
<1>4. CASE Book(r, SettlementLegs(r), "SUCCESSFUL")
  <2>1. SettlementLegs(r) \in Legs
    BY <1>2, LegsAre
  <2> QED BY <1>0, <1>3, <1>4, <2>1, Booked, BookKeeps
<1>5. CASE Book(r, ReliefLegs(r), "REVERSED")
  <2>1. ReliefLegs(r) \in Legs
    BY <1>2, LegsAre
  <2> QED BY <1>0, <1>3, <1>5, <2>1, Booked, BookKeeps
<1>6. ASSUME NEW s, NEW pc,
             \/ s = "PROCESSING" /\ pc = "processing"
             \/ s = "PENDING" /\ pc = "done",
             req' = [req EXCEPT ![r].status = s, ![r].pc = pc]
      PROVE  LimitsInv'
  <2> DEFINE y == [x EXCEPT !.status = s, !.pc = pc]
  <2>1. req' = [req EXCEPT ![r] = y]
    BY <1>6
  <2> HIDE DEF x
  <2>2. y \in Request
    BY <1>1, <1>6 DEF Request, RequestSteps
  <2>3. /\ y.pc = pc /\ y.status = s /\ y.tier = x.tier /\ y.read = x.read
        /\ y.legs = x.legs /\ y.kobo = x.kobo /\ y.type = x.type /\ y.then = x.then
    BY <1>1 DEF Request
  <2> HIDE DEF y
  <2>4. RecordRight(y)
    BY <1>2, <1>6, <2>3 DEF RecordRight
  <2>5. TwinFits(y, twin[r], r \in repeated) /\ ~Waits(y)
    BY <1>1, <1>2, <1>6, <2>3 DEF TwinFits, Waits
  <2>6. BookingRight(y, booked[r], r \in lost, r \in repeated)
    <3>1. Unsettled(booked[r]) /\ ~Posts(y)
      BY <1>0, <1>1, <1>6, <2>3 DEF BookingRight, Posts
    <3>2. pc = "processing" => ClearingOf(y) = ClearingOf(x)
      BY <1>0, <2>3 DEF ClearingOf, Total
    <3> QED BY <1>0, <1>1, <1>2, <1>6, <2>3, <3>1, <3>2 DEF BookingRight
  <2>7. Weight(y, clock) <= Weight(x, clock)
    <3>1. Weight(x, clock) = x.kobo /\ x.kobo \in Nat
      BY <1>0, <1>1, <1>2, RecordNumbers DEF Weight, Waits
    <3> QED BY <1>6, <2>3, <2>5, <3>1 DEF Weight
  <2> QED BY <1>0, <1>1, <1>2, <2>1, <2>2, <2>3, <2>4, <2>5, <2>6, <2>7, PlainStep DEF x
<1>7. CASE req' = [req EXCEPT ![r].pc = "done"]
  <2>1. req' = [req EXCEPT ![r].status = "PENDING", ![r].pc = "done"]
    BY <1>1, <1>2, <1>7 DEF Request
  <2> QED BY <1>6, <2>1
<1> QED BY <1>0, <1>4, <1>5, <1>6, <1>7

LEMMA ConfirmKeeps ==
  ASSUME LimitsInv, NEW r \in Requests, Confirm(r) PROVE LimitsInv'
<1> DEFINE x == req[r]
<1>0. /\ x.pc = "processing" /\ x.status = "PROCESSING" /\ UNCHANGED <<tier, clock, raced, postings>>
      /\ \/ /\ x.then # "REVERSED"
            /\ req' = [req EXCEPT ![r].status = "SUCCESSFUL", ![r].legs = SettlementLegs(r),
                                  ![r].then = "SUCCESSFUL", ![r].pc = "read"]
         \/ Book(r, ReliefLegs(r), "REVERSED")
  BY DEF Confirm
<1>1. x \in Request /\ RecordRight(x) /\ failures \in Nat
  BY RecordFacts, LimitsFacts
<1>2. x.type = "EXTERNAL" /\ x.read = {}
  BY <1>0, <1>1 DEF RecordRight
<1>3. /\ UNCHANGED <<tier, ledger, booked, twin, clock, raced, overlapped, repeated>>
      /\ failures' \in Nat /\ lost' = lost
  BY <1>0, <1>1 DEF postings
<1>4. SettlementLegs(r) \in Legs /\ ReliefLegs(r) \in Legs
  BY <1>2, LegsAre
<1>5. CASE Book(r, ReliefLegs(r), "REVERSED")
  BY <1>0, <1>3, <1>4, <1>5, Booked, BookKeeps
<1>6. CASE /\ x.then # "REVERSED"
           /\ req' = [req EXCEPT ![r].status = "SUCCESSFUL", ![r].legs = SettlementLegs(r),
                                 ![r].then = "SUCCESSFUL", ![r].pc = "read"]
  <2> DEFINE L == SettlementLegs(r)
             y == [x EXCEPT !.status = "SUCCESSFUL", !.legs = L, !.then = "SUCCESSFUL", !.pc = "read"]
  <2>1. req' = [req EXCEPT ![r] = y]
    BY <1>6
  <2>0. L \in Legs
    BY <1>4
  <2> HIDE DEF x, L
  <2>2. y \in Request
    BY <1>1, <2>0 DEF Request, RequestSteps
  <2>3. /\ y.pc = "read" /\ y.status = "SUCCESSFUL" /\ y.tier = x.tier /\ y.read = {}
        /\ y.legs = L /\ y.kobo = x.kobo /\ y.type = x.type /\ y.then = "SUCCESSFUL"
        /\ y.createdAt = x.createdAt
    BY <1>1, <1>2 DEF Request
  <2> HIDE DEF y
  <2> QED BY <1>0, <1>3, <1>6, <2>1, <2>2, <2>3, BookKeeps DEF x, L
<1> QED BY <1>0, <1>5, <1>6

LEMMA TryThrowsKeeps ==
  ASSUME LimitsInv, NEW r \in Requests, TryThrows(r) PROVE LimitsInv'
<1>1. /\ req[r].status = "PENDING" /\ req[r].pc \in {"payout", "read", "insert", "mark"}
      /\ Book(r, ReliefLegs(r), "NONE") /\ failures' = failures + 1 /\ lost' = lost \cup {r}
      /\ UNCHANGED <<tier, ledger, booked, twin, clock, raced, overlapped, repeated>>
  BY DEF TryThrows, Fails
<1>2. failures' \in Nat
  BY <1>1, LimitsFacts
<1>3. req[r].type = "EXTERNAL"
  BY <1>1, RecordFacts DEF RecordRight
<1>4. ReliefLegs(r) \in Legs
  BY <1>3, LegsAre
<1>5. r \in lost'
  BY <1>1
<1> QED BY <1>1, <1>2, <1>4, <1>5, Booked, BookKeeps

LEMMA MarkKeeps ==
  ASSUME LimitsInv, NEW r \in Requests, Mark(r) PROVE LimitsInv'
<1> DEFINE x == req[r]
           s == StatusSaved(r, x.then)
           y == [x EXCEPT !.status = s, !.pc = "done"]
<1>0. /\ x.pc = "mark" /\ UNCHANGED <<tier, clock, raced, postings>>
  BY DEF Mark
<1>1. req' = [req EXCEPT ![r] = y]
  BY DEF Mark
<1>2. /\ x \in Request /\ RecordRight(x) /\ x.tier <= ResolveTier /\ clock \in Nat
      /\ TwinFits(x, twin[r], r \in repeated) /\ BookingRight(x, booked[r], r \in lost, r \in repeated)
  BY RecordFacts
<1>3. s = IF x.status \in {"PENDING", "PROCESSING"} THEN x.then ELSE x.status
  BY DEF StatusSaved
<1> HIDE DEF x, s
<1>4. /\ x.read = {} /\ x.type = "EXTERNAL" /\ s = x.then
      /\ \/ x.then = "SUCCESSFUL" /\ x.status = "PENDING"
         \/ x.then = "REVERSED" /\ x.status \in {"PENDING", "PROCESSING", "REVERSED"}
  BY <1>0, <1>2, <1>3 DEF RecordRight
<1>5. y \in Request
  BY <1>2, <1>4 DEF Request, RequestSteps
<1>6. /\ y.pc = "done" /\ y.status = x.then /\ y.tier = x.tier /\ y.read = {}
      /\ y.legs = x.legs /\ y.kobo = x.kobo /\ y.type = x.type /\ y.then = x.then
      /\ y.createdAt = x.createdAt
  BY <1>2, <1>4 DEF Request
<1> HIDE DEF y
<1>7. RecordRight(y)
  BY <1>4, <1>6 DEF RecordRight
<1>8. TwinFits(y, twin[r], r \in repeated) /\ ~Waits(y)
  BY <1>2, <1>4, <1>6 DEF TwinFits, Waits
<1>9. BookingRight(y, booked[r], r \in lost, r \in repeated)
  <2>1. ClearingOf(y) = ClearingOf(x) /\ (Posts(y) <=> Posts(x))
    BY <1>0, <1>4, <1>6 DEF ClearingOf, Posts
  <2>2. Settled(y, booked[r]) <=> Settled(x, booked[r])
    BY <1>6 DEF Settled
  <2>3. x.then = "REVERSED" => Unsettled(booked[r])
    BY <1>0, <1>2 DEF BookingRight
  <2> QED BY <1>0, <1>2, <1>4, <1>6, <2>1, <2>2, <2>3 DEF BookingRight
<1>10. Weight(y, clock) <= Weight(x, clock)
  <2>1. x.kobo \in Nat /\ Weight(x, clock) \in Nat
    BY <1>2, RecordNumbers
  <2>2. CASE x.status = "PENDING"
    <3>1. Weight(x, clock) = x.kobo
      BY <1>0, <2>2 DEF Weight, Waits
    <3> QED BY <1>6, <2>1, <3>1 DEF Weight
  <2>3. CASE x.then = "REVERSED"
    <3>1. Weight(y, clock) = 0
      BY <1>6, <2>3 DEF Weight, Waits
    <3> QED BY <2>1, <3>1
  <2> QED BY <1>4, <2>2, <2>3
<1> QED BY <1>0, <1>1, <1>2, <1>5, <1>6, <1>7, <1>8, <1>9, <1>10, PlainStep DEF x

\* A handler dies: what it had not written is gone, and its transfer is lost.
LEMMA HandlerDiesKeeps ==
  ASSUME LimitsInv, NEW r \in Requests, HandlerDies(r) PROVE LimitsInv'
<1> DEFINE x == req[r]
           w == twin[r]
           b == booked[r]
           pc == IF x.status = "PROCESSING" THEN "processing" ELSE "done"
           y == [x EXCEPT !.legs = NoLegs, !.read = {}, !.seen = NoLegs, !.pc = pc]
<1>0. /\ x.pc \in {"read", "insert", "payout", "mark"}
      /\ req' = [req EXCEPT ![r] = y] /\ failures' = failures + 1 /\ lost' = lost \cup {r}
      /\ UNCHANGED <<tier, ledger, booked, twin, clock, raced, overlapped, repeated>>
  BY DEF HandlerDies, Fails, Posted
<1>1. /\ x \in Request /\ RecordRight(x) /\ x.tier <= ResolveTier /\ clock \in Nat
      /\ w \in Twin /\ TwinFits(x, w, r \in repeated)
      /\ BookingRight(x, b, r \in lost, r \in repeated) /\ failures \in Nat
  BY RecordFacts, LimitsFacts
<1>2. NoLegs \in Legs /\ TouchedBy(NoLegs) = {}
  BY DEF NoLegs, Legs, TouchedBy
<1>3. /\ twin' = [twin EXCEPT ![r] = w] /\ failures' \in Nat /\ r \in lost'
      /\ lost \subseteq lost' /\ lost' \subseteq lost \cup {r}
      /\ repeated \subseteq repeated' /\ repeated' \subseteq repeated \cup {r}
      /\ (r \in repeated' <=> r \in repeated)
  BY <1>0, <1>1, LimitsFacts
<1>4. pc \in {"processing", "done"} /\ (pc = "processing" <=> x.status = "PROCESSING")
  OBVIOUS
<1> HIDE DEF x, w, b, pc
<1>5. y \in Request
  BY <1>1, <1>2, <1>4 DEF Request, RequestSteps
<1>6. /\ y.pc = pc /\ y.status = x.status /\ y.tier = x.tier /\ y.read = {} /\ y.legs = NoLegs
      /\ y.kobo = x.kobo /\ y.type = x.type /\ y.then = x.then /\ y.createdAt = x.createdAt
  BY <1>1 DEF Request
<1> HIDE DEF y
<1>7. x.type = "EXTERNAL" /\ x.status \in {"PENDING", "PROCESSING", "SUCCESSFUL", "REVERSED"}
  BY <1>0, <1>1 DEF RecordRight, Request
<1>8. RecordRight(y) /\ y.tier <= ResolveTier
  BY <1>1, <1>2, <1>4, <1>6, <1>7 DEF RecordRight
<1>9. TwinFits(y, w, r \in repeated')
  BY <1>1, <1>3, <1>6 DEF TwinFits
<1>10. BookingRight(y, b, r \in lost', r \in repeated')
  <2>1. Settled(y, b) <=> Settled(x, b)
    BY <1>6 DEF Settled
  <2> QED BY <1>1, <1>3, <1>4, <1>6, <1>7, <2>1 DEF BookingRight
<1>11. ~Waits(y)
  BY <1>4, <1>6 DEF Waits
<1>12. Weight(y, clock) <= Weight(x, clock)
  <2>1. Weight(x, clock) \in Nat /\ Weight(y, clock) \in Nat
    BY <1>1, <1>5, RecordNumbers
  <2>2. Weight(y, clock) = Weight(x, clock) \/ Weight(y, clock) = 0
    BY <1>6, <1>11 DEF Weight
  <2> QED BY <2>1, <2>2
<1> QED
  BY <1>0, <1>1, <1>3, <1>5, <1>6, <1>8, <1>9, <1>10, <1>11, <1>12, RecordStep DEF x, w, b

\* The second delivery starts, reads or dies: the record stays as it is.
LEMMA TwinStep ==
  ASSUME LimitsInv, NEW r \in Requests, NEW w \in Twin, twin' = [twin EXCEPT ![r] = w],
         UNCHANGED <<req, tier, ledger, booked, clock, raced, overlapped>>, failures' \in Nat,
         lost' = lost \/ lost' = lost \cup {r},
         repeated' = repeated \/ repeated' = repeated \cup {r},
         TwinFits(req[r], w, r \in repeated'),
         w.pc = "insert" => w.seen = ledger["clearing"].newest
  PROVE  LimitsInv'
<1> DEFINE x == req[r]
<1>1. /\ x \in Request /\ RecordRight(x) /\ x.tier <= ResolveTier /\ clock \in Nat
      /\ BookingRight(x, booked[r], r \in lost, r \in repeated) /\ req' = [req EXCEPT ![r] = x]
  BY RecordFacts, LimitsFacts
<1>2. /\ (r \in lost => r \in lost') /\ (r \in repeated => r \in repeated')
      /\ lost \subseteq lost' /\ lost' \subseteq lost \cup {r}
      /\ repeated \subseteq repeated' /\ repeated' \subseteq repeated \cup {r}
  OBVIOUS
<1>3. BookingRight(x, booked[r], r \in lost', r \in repeated')
  BY <1>1, <1>2 DEF BookingRight
<1>4. Weight(x, clock) <= Weight(x, clock)
  BY <1>1, RecordNumbers
<1> QED BY <1>1, <1>2, <1>3, <1>4, RecordStep

LEMMA TwinMovesKeeps ==
  ASSUME LimitsInv, NEW r \in Requests, Redeliver(r) \/ TwinRead(r) \/ TwinDies(r)
  PROVE  LimitsInv'
<1>1. /\ req[r] \in Request /\ RecordRight(req[r]) /\ TwinFits(req[r], twin[r], r \in repeated)
      /\ failures \in Nat /\ ledger["clearing"].newest \in Int
  <2>1. "clearing" \in SystemAccounts
    BY DEF SystemAccounts
  <2> QED BY <2>1, RecordFacts, LimitsFacts
<1>2. CASE Redeliver(r)
  <2> DEFINE w == [pc |-> "read", seen |-> 0]
  <2>1. /\ twin' = [twin EXCEPT ![r] = w] /\ failures' = failures + 1 /\ lost' = lost
        /\ repeated' = repeated \cup {r} /\ req[r].status = "PROCESSING" /\ req[r].then = "REVERSED"
        /\ req[r].pc \in {"read", "insert", "mark"}
        /\ UNCHANGED <<req, tier, ledger, booked, clock, raced, overlapped>>
    BY <1>2 DEF Redeliver, TwinGoes
  <2>2. w \in Twin /\ w.pc = "read" /\ failures' \in Nat /\ r \in repeated'
    BY <1>1, <2>1 DEF Twin
  <2>3. req[r].type = "EXTERNAL"
    BY <1>1, <2>1 DEF RecordRight
  <2> HIDE DEF w
  <2>4. TwinFits(req[r], w, r \in repeated')
    BY <2>1, <2>2, <2>3 DEF TwinFits
  <2> QED BY <2>1, <2>2, <2>4, TwinStep
<1>3. CASE TwinRead(r)
  <2> DEFINE w == [pc |-> "insert", seen |-> ledger["clearing"].newest]
  <2>1. /\ twin' = [twin EXCEPT ![r] = w] /\ twin[r].pc = "read"
        /\ UNCHANGED <<req, tier, ledger, booked, clock, failures, raced, overlapped, lost, repeated>>
    BY <1>3 DEF TwinRead, TwinGoes
  <2>2. w \in Twin /\ w.pc = "insert" /\ w.seen = ledger["clearing"].newest /\ failures' \in Nat
    BY <1>1, <2>1 DEF Twin
  <2> HIDE DEF w
  <2>3. TwinFits(req[r], w, r \in repeated')
    BY <1>1, <2>1 DEF TwinFits
  <2> QED BY <2>1, <2>2, <2>3, TwinStep
<1>4. CASE TwinDies(r)
  <2> DEFINE w == [pc |-> "none", seen |-> 0]
  <2>1. /\ twin' = [twin EXCEPT ![r] = w] /\ failures' = failures + 1 /\ lost' = lost \cup {r}
        /\ UNCHANGED <<req, tier, ledger, booked, clock, raced, overlapped, repeated>>
    BY <1>4 DEF TwinDies, Fails, TwinGoes
  <2>2. w \in Twin /\ w.pc = "none" /\ failures' \in Nat
    BY <1>1, <2>1 DEF Twin
  <2> HIDE DEF w
  <2>3. TwinFits(req[r], w, r \in repeated')
    BY <2>2 DEF TwinFits
  <2> QED BY <2>1, <2>2, <2>3, TwinStep
<1> QED BY <1>2, <1>3, <1>4

\* The second delivery saves, or loses the version test.
LEMMA TwinMarkKeeps ==
  ASSUME LimitsInv, NEW r \in Requests, TwinMark(r) PROVE LimitsInv'
<1> DEFINE x == req[r]
           s == StatusSaved(r, "REVERSED")
           b == booked[r]
           y == [x EXCEPT !.status = s]
           w == [pc |-> "none", seen |-> 0]
<1>0. /\ twin[r].pc = "mark" /\ req' = [req EXCEPT ![r] = y] /\ twin' = [twin EXCEPT ![r] = w]
      /\ UNCHANGED <<tier, ledger, booked, clock, failures, raced, overlapped, lost, repeated>>
  BY DEF TwinMark, TwinGoes
<1>1. /\ x \in Request /\ RecordRight(x) /\ x.tier <= ResolveTier /\ clock \in Nat
      /\ TwinFits(x, twin[r], r \in repeated) /\ failures \in Nat
      /\ BookingRight(x, b, r \in lost, r \in repeated)
  BY RecordFacts, LimitsFacts
<1>2. s = IF x.status \in {"PENDING", "PROCESSING"} THEN "REVERSED" ELSE x.status
  BY DEF StatusSaved
<1>3. w \in Twin /\ w.pc = "none"
  BY DEF Twin
<1> HIDE DEF x, s, b, w
<1>4. /\ x.status \in {"PROCESSING", "REVERSED"} /\ x.then = "REVERSED" /\ r \in repeated
      /\ x.type = "EXTERNAL" /\ s = "REVERSED"
  BY <1>0, <1>1, <1>2 DEF TwinFits
<1>5. y \in Request
  BY <1>1, <1>4 DEF Request
<1>6. /\ y.pc = x.pc /\ y.status = "REVERSED" /\ y.tier = x.tier /\ y.read = x.read /\ y.legs = x.legs
      /\ y.kobo = x.kobo /\ y.type = x.type /\ y.then = x.then /\ y.seen = x.seen
  BY <1>1, <1>4 DEF Request
<1> HIDE DEF y
<1>7. RecordRight(y) /\ y.tier <= ResolveTier
  <2>1. LegsRight(x) => LegsRight(y)
    BY <1>6 DEF LegsRight, Total
  <2> QED BY <1>1, <1>4, <1>6, <2>1 DEF RecordRight
<1>8. TwinFits(y, w, r \in repeated')
  BY <1>3 DEF TwinFits
<1>9. BookingRight(y, b, r \in lost', r \in repeated')
  BY <1>0, <1>1, <1>4, <1>6 DEF BookingRight, Posts
<1>10. ~Waits(y) /\ Weight(y, clock) = 0
  BY <1>6 DEF Weight, Waits
<1>11. Weight(y, clock) <= Weight(x, clock)
  BY <1>1, <1>10, RecordNumbers
<1>12. /\ lost \subseteq lost' /\ lost' \subseteq lost \cup {r} /\ failures' \in Nat
       /\ repeated \subseteq repeated' /\ repeated' \subseteq repeated \cup {r}
  BY <1>0, <1>1
<1> QED
  BY <1>0, <1>3, <1>5, <1>6, <1>7, <1>8, <1>9, <1>10, <1>11, <1>12, RecordStep DEF x, b

\* The legs L are inserted over the balances `seen': those were still the
\* newest, and nobody who read before it is left unless that is noted.
LEMMA InsertStep ==
  ASSUME LimitsInv, NEW r \in Requests, NEW L \in Legs, NEW seen \in Legs, NEW readers,
         Insert(r, L, seen, readers),
         NEW y \in Request, req' = [req EXCEPT ![r] = y],
         NEW w \in Twin, twin' = [twin EXCEPT ![r] = w],
         UNCHANGED <<tier, clock, raced, failures, lost, repeated>>,
         RecordRight(y), y.tier <= ResolveTier, TwinFits(y, w, r \in repeated),
         BookingRight(y, [a \in SystemAccounts |-> booked[r][a] + L[a]], r \in lost, r \in repeated),
         Weight(y, clock) <= Weight(req[r], clock), Waits(y) => Waits(req[r]),
         ~overlapped => \A a \in TouchedBy(L) : seen[a] = ledger[a].newest,
         \A q \in Requests : /\ req'[q].read \subseteq req[q].read \cap readers
                             /\ req'[q].read # {} => req'[q].seen = req[q].seen
                             /\ twin'[q].pc = "insert" => twin'[q] = twin[q] /\ "clearing" \in readers
  PROVE  LimitsInv'
<1> DEFINE c == [a \in SystemAccounts |-> booked[r][a] + L[a]]
<1>0. /\ ledger' = [a \in SystemAccounts |->
           IF a \in TouchedBy(L)
           THEN [newest |-> seen[a] + L[a], posted |-> ledger[a].posted + L[a]]
           ELSE ledger[a]]
      /\ booked' = [booked EXCEPT ![r] = c]
      /\ overlapped' = (overlapped \/ readers \cap TouchedBy(L) # {})
  BY DEF Insert, RunningBalance
<1>1. /\ req \in [Requests -> Request] /\ twin \in [Requests -> Twin]
      /\ booked \in [Requests -> Legs] /\ overlapped \in BOOLEAN
      /\ ledger \in [SystemAccounts -> [newest: Int, posted: Int]]
  BY LimitsFacts
<1>2. req' \in [Requests -> Request] /\ twin' \in [Requests -> Twin]
  BY <1>1
<1>3. c \in Legs
  <2>1. booked[r] \in Legs
    BY <1>1
  <2>2. \A a \in SystemAccounts : booked[r][a] + L[a] \in Int
    BY <2>1 DEF Legs
  <2> QED BY <2>2 DEF Legs
<1>4. ASSUME NEW a \in SystemAccounts
      PROVE  /\ L[a] \in Int /\ seen[a] \in Int
             /\ ledger'[a].posted = ledger[a].posted + L[a]
             /\ ledger'[a].newest = IF a \in TouchedBy(L) THEN seen[a] + L[a] ELSE ledger[a].newest
             /\ ledger'[a] \in [newest: Int, posted: Int]
             /\ a \notin TouchedBy(L) => L[a] = 0 /\ ledger'[a] = ledger[a]
  <2>1. L[a] \in Int /\ seen[a] \in Int /\ ledger[a] \in [newest: Int, posted: Int]
    BY <1>1 DEF Legs
  <2>2. CASE a \in TouchedBy(L)
    BY <1>0, <2>1, <2>2
  <2>3. CASE a \notin TouchedBy(L)
    <3>1. L[a] = 0
      BY <2>3 DEF TouchedBy
    <3> QED BY <1>0, <2>1, <2>3, <3>1
  <2> QED BY <2>2, <2>3
<1>5. LimitsTypeOK'
  <2>1. ledger' \in [SystemAccounts -> [newest: Int, posted: Int]]
    BY <1>0, <1>4
  <2>2. overlapped' \in BOOLEAN
    BY <1>0, <1>1
  <2>3. booked' \in [Requests -> Legs]
    BY <1>0, <1>1, <1>3
  <2>4. tier' \in 0..3 /\ clock' \in Nat /\ failures' \in Nat /\ raced' \in BOOLEAN
        /\ lost' \subseteq Requests /\ repeated' \subseteq Requests
    BY LimitsFacts
  <2> QED BY <1>2, <2>1, <2>2, <2>3, <2>4 DEF LimitsTypeOK, Twin
<1>6. \A q \in Requests : RequestRight(q)'
  <2>1. BookingRight(y, c, r \in lost', r \in repeated') /\ TwinFits(y, w, r \in repeated')
    BY DEF BookingRight, TwinFits
  <2> HIDE DEF c
  <2>2. /\ lost \subseteq lost' /\ lost' \subseteq lost \cup {r}
        /\ repeated \subseteq repeated' /\ repeated' \subseteq repeated \cup {r}
    OBVIOUS
  <2> QED BY <1>0, <1>3, <2>1, <2>2, RequestsKept
<1> HIDE DEF c
<1>7. RunningBalanceIsSum'
  <2> SUFFICES ASSUME ~overlapped' PROVE \A a \in SystemAccounts : ledger'[a].newest = ledger'[a].posted
    BY DEF RunningBalanceIsSum
  <2>1. ~overlapped
    BY <1>0
  <2>2. \A a \in SystemAccounts : ledger[a].newest = ledger[a].posted
    BY <2>1 DEF LimitsInv, RunningBalanceIsSum
  <2>3. ASSUME NEW a \in SystemAccounts, a \in TouchedBy(L) PROVE ledger'[a].newest = ledger'[a].posted
    BY <1>4, <2>1, <2>2, <2>3
  <2>4. ASSUME NEW a \in SystemAccounts, a \notin TouchedBy(L) PROVE ledger'[a].newest = ledger'[a].posted
    BY <1>4, <2>2, <2>4
  <2> QED BY <2>3, <2>4
<1>8. (~overlapped => StillNewest)'
  <2> SUFFICES ASSUME ~overlapped', NEW q \in Requests
               PROVE  /\ \A a \in req'[q].read : req'[q].seen[a] = ledger'[a].newest
                      /\ twin'[q].pc = "insert" => twin'[q].seen = ledger'["clearing"].newest
    BY DEF StillNewest
  <2>1. ~overlapped /\ readers \cap TouchedBy(L) = {}
    BY <1>0
  <2>2. \A a \in req[q].read : req[q].seen[a] = ledger[a].newest /\ a \in SystemAccounts
    BY <1>1, <2>1 DEF LimitsInv, StillNewest, Request
  <2>3. twin[q].pc = "insert" => twin[q].seen = ledger["clearing"].newest
    BY <2>1 DEF LimitsInv, StillNewest
  <2>4. ASSUME NEW a \in req'[q].read PROVE req'[q].seen[a] = ledger'[a].newest
    <3>1. a \in req[q].read /\ a \in readers /\ req'[q].seen = req[q].seen
      BY <2>4
    <3>2. a \in SystemAccounts /\ a \notin TouchedBy(L) /\ req[q].seen[a] = ledger[a].newest
      BY <2>1, <2>2, <3>1
    <3> QED BY <1>4, <3>1, <3>2
  <2>5. ASSUME twin'[q].pc = "insert" PROVE twin'[q].seen = ledger'["clearing"].newest
    <3>1. twin'[q] = twin[q] /\ "clearing" \notin TouchedBy(L) /\ "clearing" \in SystemAccounts
      BY <2>1, <2>5 DEF SystemAccounts
    <3> QED BY <1>4, <2>3, <2>5, <3>1
  <2> QED BY <2>4, <2>5
<1>9. (~raced => WeightRight)'
  BY WeightKept
<1> QED BY <1>5, <1>6, <1>7, <1>8, <1>9 DEF LimitsInv

\* Who has read a balance and not written yet.
LEMMA Readers ==
  ASSUME LimitsInv, NEW S, NEW q \in S, S \subseteq Requests
  PROVE  /\ req[q].read \subseteq ReadBy(S)
         /\ twin[q].pc = "insert" => "clearing" \in ReadByTwins(S)
BY DEF ReadBy, ReadByTwins

\* A posting is inserted: a settlement is the first one of its transfer.
LEMMA PostInsertKeeps ==
  ASSUME LimitsInv, NEW r \in Requests, PostInsert(r) PROVE LimitsInv'
<1> DEFINE x == req[r]
           w == twin[r]
           b == booked[r]
           L == x.legs
           c == [a \in SystemAccounts |-> b[a] + L[a]]
           readers == ReadBy(Requests \ {r}) \cup ReadByTwins(Requests)
           pc == IF x.then = "PENDING" THEN "payout"
                 ELSE IF x.then \in {"NONE", x.status} THEN "done" ELSE "mark"
           y == [x EXCEPT !.legs = NoLegs, !.read = {}, !.seen = NoLegs, !.pc = pc]
<1>0. /\ x.pc = "insert" /\ Insert(r, x.legs, x.seen, readers)
      /\ UNCHANGED <<tier, clock, raced, twin, failures, lost, repeated>>
      /\ req' = [req EXCEPT ![r] = y]
  BY DEF PostInsert, Posted
<1>1. /\ x \in Request /\ RecordRight(x) /\ x.tier <= ResolveTier /\ clock \in Nat
      /\ w \in Twin /\ b \in Legs /\ TwinFits(x, w, r \in repeated)
      /\ BookingRight(x, b, r \in lost, r \in repeated)
  BY RecordFacts
<1>2. /\ req \in [Requests -> Request] /\ twin \in [Requests -> Twin]
      /\ twin' = [twin EXCEPT ![r] = w]
  BY <1>0, LimitsFacts
<1>3. ~overlapped => \A a \in x.read : x.seen[a] = ledger[a].newest
  BY DEF LimitsInv, StillNewest
<1> HIDE DEF x, w, b
<1>4. /\ x.type = "EXTERNAL" /\ x.read = TouchedBy(x.legs) /\ LegsRight(x)
      /\ x.then \in {"PENDING", "NONE"} => x.status = "PENDING"
      /\ x.then = "SUCCESSFUL" => x.status \in {"PENDING", "SUCCESSFUL"}
      /\ x.then = "REVERSED" => x.status \in {"PENDING", "PROCESSING", "REVERSED"}
      /\ x.then \in {"NONE", "PENDING", "SUCCESSFUL", "REVERSED"} /\ L \in Legs /\ x.seen \in Legs
  BY <1>0, <1>1 DEF RecordRight, Request
<1>5. /\ pc \in {"payout", "done", "mark"}
      /\ pc = "payout" <=> x.then = "PENDING"
      /\ pc = "done" <=> (x.then = "NONE" \/ (x.then = x.status /\ x.then \in {"SUCCESSFUL", "REVERSED"}))
  BY <1>4
<1> HIDE DEF pc
<1>6. NoLegs \in Legs /\ TouchedBy(NoLegs) = {}
  BY DEF NoLegs, Legs, TouchedBy
<1>7. y \in Request
  BY <1>1, <1>5, <1>6 DEF Request, RequestSteps
<1>8. /\ y.pc = pc /\ y.status = x.status /\ y.tier = x.tier /\ y.read = {}
      /\ y.legs = NoLegs /\ y.kobo = x.kobo /\ y.type = x.type /\ y.then = x.then
      /\ y.createdAt = x.createdAt
  BY <1>1 DEF Request
<1> HIDE DEF y
<1>9. RecordRight(y) /\ y.tier <= ResolveTier
  BY <1>1, <1>4, <1>5, <1>6, <1>8 DEF RecordRight
<1>10. TwinFits(y, w, r \in repeated)
  BY <1>1, <1>8 DEF TwinFits
<1>11. BookingRight(y, c, r \in lost, r \in repeated)
  <2>1. /\ L["settled"] \in Int /\ L["revenue"] \in Int /\ L["clearing"] \in Int
        /\ b["settled"] \in Int /\ b["revenue"] \in Int /\ b["clearing"] \in Int
        /\ c["settled"] = b["settled"] + L["settled"] /\ c["revenue"] = b["revenue"] + L["revenue"]
        /\ c["clearing"] = b["clearing"] + L["clearing"]
    BY <1>1, <1>4 DEF Legs, SystemAccounts
  <2>2. /\ x.kobo \in Int /\ Fee(x.kobo, "EXTERNAL") \in Int /\ Total(x) \in Int /\ Total(y) = Total(x)
    BY <1>1, <1>4, <1>8, RecordNumbers DEF Total
  <2>3. CASE x.then = "SUCCESSFUL"
    <3>1. Unsettled(b)
      BY <1>0, <1>1, <2>3 DEF BookingRight
    <3>2. L["settled"] = x.kobo /\ L["revenue"] = Fee(x.kobo, "EXTERNAL") /\ L["clearing"] = -Total(x)
      BY <1>4, <2>3 DEF LegsRight
    <3>3. Settled(y, c)
      BY <1>8, <2>1, <2>2, <3>1, <3>2 DEF Settled, Unsettled
    <3>4. Posts(y) /\ ClearingOf(y) = 0 /\ ClearingOf(x) = Total(x) /\ y.status \in {"PENDING", "SUCCESSFUL"}
          /\ pc \in {"mark", "done"}
      BY <1>0, <1>4, <1>5, <1>8, <2>3 DEF Posts, ClearingOf
    <3>5. r \notin lost /\ r \notin repeated => c["clearing"] = 0
      <4>1. r \notin lost /\ r \notin repeated => b["clearing"] = Total(x)
        BY <1>0, <1>1, <3>4 DEF BookingRight
      <4> QED BY <2>1, <2>2, <3>2, <4>1
    <3> QED BY <1>8, <2>3, <3>3, <3>4, <3>5 DEF BookingRight
  <2>4. CASE x.then # "SUCCESSFUL"
    <3>1. L["settled"] = 0 /\ L["revenue"] = 0
      BY <1>4, <2>4 DEF LegsRight
    <3>2. /\ Unsettled(c) <=> Unsettled(b)
          /\ Settled(y, c) <=> Settled(x, b)
      BY <1>8, <2>1, <3>1 DEF Settled, Unsettled
    <3>3. ~Posts(x) /\ (x.then # "NONE" => ~Posts(y))
      BY <1>0, <1>4, <1>5, <1>8, <2>4 DEF Posts
    <3>4. x.then # "NONE" => Unsettled(c)
      BY <1>0, <1>1, <3>2 DEF BookingRight
    <3>5. x.then = "NONE" => r \in lost
      BY <1>1 DEF BookingRight
    <3>6. x.status = "REVERSED" => r \in repeated
      BY <1>0, <1>1 DEF BookingRight
    <3>7. r \notin lost /\ r \notin repeated => c["clearing"] = ClearingOf(y)
      <4>1. r \notin lost /\ r \notin repeated => b["clearing"] = ClearingOf(x)
        BY <1>0, <1>1 DEF BookingRight
      <4>2. CASE x.then = "PENDING"
        <5>1. L["clearing"] = Total(x) /\ ClearingOf(x) = 0 /\ ClearingOf(y) = Total(x)
          BY <1>0, <1>4, <1>5, <1>8, <2>2, <4>2 DEF LegsRight, ClearingOf
        <5> QED BY <2>1, <2>2, <4>1, <5>1
      <4>3. CASE x.then = "REVERSED"
        <5>1. L["clearing"] = -Total(x) /\ ClearingOf(x) = Total(x) /\ ClearingOf(y) = 0
          BY <1>0, <1>4, <1>5, <1>8, <2>2, <4>3 DEF LegsRight, ClearingOf
        <5> QED BY <2>1, <2>2, <4>1, <5>1
      <4> QED BY <1>4, <2>4, <3>5, <4>2, <4>3
    <3> QED BY <1>1, <1>4, <1>5, <1>8, <2>4, <3>2, <3>3, <3>4, <3>5, <3>6, <3>7 DEF BookingRight
  <2> QED BY <2>3, <2>4
<1>12. (Waits(y) => Waits(x)) /\ Weight(y, clock) <= Weight(x, clock)
  <2>1. Waits(y) => Waits(x)
    BY <1>0, <1>8 DEF Waits
  <2>2. Weight(y, clock) = Weight(x, clock) \/ Weight(y, clock) = 0
    BY <1>8, <2>1 DEF Weight
  <2>3. Weight(x, clock) \in Nat
    BY <1>1, RecordNumbers
  <2> QED BY <2>1, <2>2, <2>3
<1>13. \A q \in Requests :
         /\ req'[q].read \subseteq req[q].read \cap readers
         /\ req'[q].read # {} => req'[q].seen = req[q].seen
         /\ twin'[q].pc = "insert" => twin'[q] = twin[q] /\ "clearing" \in readers
  <2> TAKE q \in Requests
  <2>1. twin[q].pc = "insert" => "clearing" \in readers
    BY Readers
  <2>2. CASE q = r
    BY <1>0, <1>2, <1>8, <2>1, <2>2
  <2>3. CASE q # r
    <3>1. q \in Requests \ {r}
      BY <2>3
    <3>2. req[q].read \subseteq ReadBy(Requests \ {r})
      BY <3>1, Readers
    <3> QED BY <1>0, <1>2, <2>1, <2>3, <3>2
  <2> QED BY <2>2, <2>3
<1> HIDE DEF readers
<1>14. x.legs \in Legs /\ x.seen \in Legs
  BY <1>4
<1>15. ~overlapped => \A a \in TouchedBy(x.legs) : x.seen[a] = ledger[a].newest
  BY <1>3, <1>4
<1> QED
  BY <1>0, <1>1, <1>2, <1>7, <1>9, <1>10, <1>11, <1>12, <1>13, <1>14, <1>15, InsertStep DEF x, w, b

\* The second delivery posts its relief as well.
LEMMA TwinInsertKeeps ==
  ASSUME LimitsInv, NEW r \in Requests, TwinInsert(r) PROVE LimitsInv'
<1> DEFINE x == req[r]
           b == booked[r]
           L == ReliefLegs(r)
           seen == [NoLegs EXCEPT !["clearing"] = twin[r].seen]
           c == [a \in SystemAccounts |-> b[a] + L[a]]
           readers == ReadBy(Requests) \cup ReadByTwins(Requests \ {r})
           w == [pc |-> "mark", seen |-> 0]
<1>0. /\ twin[r].pc = "insert" /\ Insert(r, L, seen, readers)
      /\ twin' = [twin EXCEPT ![r] = w]
      /\ UNCHANGED <<req, tier, clock, failures, raced, lost, repeated>>
  BY DEF TwinInsert, TwinGoes
<1>1. /\ x \in Request /\ RecordRight(x) /\ x.tier <= ResolveTier /\ clock \in Nat
      /\ twin[r] \in Twin /\ b \in Legs /\ TwinFits(x, twin[r], r \in repeated)
      /\ BookingRight(x, b, r \in lost, r \in repeated)
  BY RecordFacts
<1>2. /\ req \in [Requests -> Request] /\ twin \in [Requests -> Twin]
      /\ req' = [req EXCEPT ![r] = x]
  BY <1>0, LimitsFacts
<1>3. /\ x.status \in {"PROCESSING", "REVERSED"} /\ x.type = "EXTERNAL" /\ x.then = "REVERSED"
      /\ r \in repeated
  BY <1>0, <1>1 DEF TwinFits
<1>4. L \in Legs /\ L["settled"] = 0 /\ L["revenue"] = 0 /\ L["clearing"] = -Total(x)
  BY <1>3, LegsAre
<1>5. TouchedBy(L) \subseteq {"clearing"}
  BY <1>4 DEF TouchedBy, SystemAccounts
<1>6. seen \in Legs /\ seen["clearing"] = twin[r].seen
  <2>1. twin[r].seen \in Int
    BY <1>1 DEF Twin
  <2> QED BY <2>1 DEF NoLegs, Legs, SystemAccounts
<1>7. ~overlapped => \A a \in TouchedBy(L) : seen[a] = ledger[a].newest
  <2>1. ~overlapped => twin[r].seen = ledger["clearing"].newest
    BY <1>0 DEF LimitsInv, StillNewest
  <2> QED BY <1>5, <1>6, <2>1
<1>8. w \in Twin /\ w.pc = "mark"
  BY DEF Twin
<1>9. TwinFits(x, w, r \in repeated)
  BY <1>3 DEF TwinFits
<1>10. BookingRight(x, c, r \in lost, r \in repeated)
  <2>1. /\ b["settled"] \in Int /\ b["revenue"] \in Int
        /\ c["settled"] = b["settled"] + L["settled"] /\ c["revenue"] = b["revenue"] + L["revenue"]
    BY <1>1 DEF Legs, SystemAccounts
  <2>2. c["settled"] = b["settled"] /\ c["revenue"] = b["revenue"]
    BY <1>4, <2>1
  <2> HIDE DEF c, b, x
  <2>3. (Unsettled(c) <=> Unsettled(b)) /\ (Settled(x, c) <=> Settled(x, b))
    BY <2>2 DEF Unsettled, Settled
  <2> QED BY <1>1, <1>3, <2>3 DEF BookingRight
<1>11. Weight(x, clock) <= Weight(x, clock)
  BY <1>1, RecordNumbers
<1>12. \A q \in Requests :
         /\ req'[q].read \subseteq req[q].read \cap readers
         /\ req'[q].read # {} => req'[q].seen = req[q].seen
         /\ twin'[q].pc = "insert" => twin'[q] = twin[q] /\ "clearing" \in readers
  <2> TAKE q \in Requests
  <2>1. req'[q] = req[q] /\ req[q].read \subseteq readers
    BY <1>0, Readers
  <2>2. CASE q = r
    BY <1>0, <1>2, <1>8, <2>1, <2>2
  <2>3. CASE q # r
    <3>1. q \in Requests \ {r}
      BY <2>3
    <3>2. twin[q].pc = "insert" => "clearing" \in ReadByTwins(Requests \ {r})
      BY <3>1, Readers
    <3> QED BY <1>0, <1>2, <2>1, <2>3, <3>2
  <2> QED BY <2>2, <2>3
<1> HIDE DEF readers, L, seen, w
<1> QED
  BY <1>0, <1>1, <1>2, <1>4, <1>6, <1>7, <1>8, <1>9, <1>10, <1>11, <1>12, InsertStep DEF x, b

\* Only the tier, the clock or nothing moves.
LEMMA RecordsRest ==
  ASSUME LimitsInv, UNCHANGED <<req, postings>>, tier' \in 0..3, clock' \in Nat, raced' = raced,
         ResolveTier' \in 1..3, ResolveTier <= ResolveTier'
  PROVE  /\ LimitsTypeOK' /\ (\A q \in Requests : RequestRight(q)')
         /\ RunningBalanceIsSum' /\ (~overlapped => StillNewest)'
<1>1. UNCHANGED <<ledger, booked, twin, failures, overlapped, lost, repeated>>
  BY DEF postings
<1>2. LimitsTypeOK'
  BY <1>1 DEF LimitsInv, LimitsTypeOK
<1>3. ASSUME NEW q \in Requests PROVE RequestRight(q)'
  <2>1. req[q].tier \in 0..3 /\ req[q].tier <= ResolveTier /\ ResolveTier \in 1..3
    BY RecordFacts, RecordNumbers
  <2>2. req[q].tier <= ResolveTier'
    BY <2>1
  <2>3. RequestRight(q)
    BY DEF LimitsInv
  <2> QED
    BY <1>1, <2>2, <2>3 DEF RequestRight, RecordRight, LegsRight, Total, TouchedBy, TwinFits,
      BookingRight, Unsettled, Settled, Posts, ClearingOf
<1>4. RunningBalanceIsSum' /\ (~overlapped => StillNewest)'
  BY <1>1 DEF LimitsInv, RunningBalanceIsSum, StillNewest
<1> QED BY <1>2, <1>3, <1>4

\* The limit of a higher tier is no lower.
LEMMA LimitsClimb ==
  ASSUME NEW i \in 1..3, NEW j \in 1..3, i <= j
  PROVE  /\ DefaultLimits[i].daily \in Nat /\ DefaultLimits[j].daily \in Nat
         /\ DefaultLimits[i].daily <= DefaultLimits[j].daily
<1>1. \A n \in 1..3 : n = 1 \/ n = 2 \/ n = 3
  OBVIOUS
<1>2. DefaultLimits[1].daily \in Nat /\ DefaultLimits[2].daily \in Nat /\ DefaultLimits[3].daily \in Nat
  BY Figures
<1> QED BY <1>1, <1>2, Figures

\* The tier climbs, and the limit with it.
LEMMA UpgradeKeeps ==
  ASSUME LimitsInv, Upgrade PROVE LimitsInv'
<1>1. ResolveTier \in 1..3 /\ tier \in 0..3 /\ clock \in Nat /\ req \in [Requests -> Request]
  BY LimitsFacts
<1>2. tier' \in 0..3 /\ ResolveTier' \in 1..3 /\ ResolveTier <= ResolveTier'
      /\ UNCHANGED <<req, clock, raced, postings>>
  BY <1>1 DEF Upgrade, ResolveTier
<1>5. Sum(Requests, Weights) \in Int
  <2>1. Weights \in [Requests -> Int]
    BY <1>1, RecordNumbers DEF Weights
  <2> QED BY <2>1, SumInt, RequestsAssumption DEF Sum
<1>6. ASSUME ~raced PROVE Sum(Requests, Weights) <= DefaultLimits[ResolveTier'].daily
  <2>1. Sum(Requests, Weights) <= DefaultLimits[ResolveTier].daily
    BY <1>6 DEF LimitsInv, WeightRight
  <2> DEFINE i == ResolveTier
             j == ResolveTier'
  <2>2. i \in 1..3 /\ j \in 1..3 /\ i <= j
    BY <1>1, <1>2
  <2> HIDE DEF i, j
  <2>3. /\ DefaultLimits[i].daily \in Nat /\ DefaultLimits[j].daily \in Nat
        /\ DefaultLimits[i].daily <= DefaultLimits[j].daily
    BY <2>2, LimitsClimb
  <2> QED BY <1>5, <2>1, <2>3 DEF i, j
<1>7. Weights' = Weights
  BY <1>2 DEF Weights, Weight, Waits
<1>9. (~raced => WeightRight)'
  <2>1. ~raced => \A q, r \in Requests : Waits(req[q]) /\ Waits(req[r]) => q = r
    BY DEF LimitsInv, WeightRight
  <2>2. Sum(Requests, Weights') = Sum(Requests, Weights)
    BY <1>7
  <2>3. ~raced' => Sum(Requests, Weights') <= DefaultLimits[ResolveTier'].daily
    BY <1>2, <1>6, <2>2
  <2>4. ~raced' => \A q, r \in Requests : Waits(req'[q]) /\ Waits(req'[r]) => q = r
    BY <1>2, <2>1
  <2> QED BY <2>3, <2>4 DEF WeightRight, Waits
<1> QED BY <1>1, <1>2, <1>9, RecordsRest DEF LimitsInv

\* Time passes: a transfer may leave the window, none enters it.
LEMMA TickKeeps ==
  ASSUME LimitsInv, Tick PROVE LimitsInv'
<1>1. clock \in Nat /\ clock' = clock + 1 /\ UNCHANGED <<req, tier, raced, postings>>
      /\ req \in [Requests -> Request] /\ ResolveTier \in 1..3 /\ tier \in 0..3
  BY LimitsFacts DEF Tick
<1>2. ResolveTier' = ResolveTier /\ clock' \in Nat
  BY <1>1 DEF ResolveTier
<1>8. ASSUME NEW f, NEW h, f = Weights, h = Weights'
      PROVE  Sum(Requests, h) <= Sum(Requests, f) /\ Sum(Requests, h) \in Int /\ Sum(Requests, f) \in Int
  <2>1. \A q \in Requests : f[q] = Weight(req[q], clock) /\ h[q] = Weight(req[q], clock + 1)
    BY <1>1, <1>8 DEF Weights, Weight, Waits
  <2>2. ASSUME NEW q \in Requests PROVE f[q] \in Int /\ h[q] \in Int /\ h[q] <= f[q]
    <3>1. req[q] \in Request
      BY <1>1
    <3>2. req[q].kobo \in Nat /\ req[q].createdAt \in Nat
      BY <1>1, <3>1, RecordNumbers
    <3> DEFINE In(now) == req[q].status \in {"SUCCESSFUL", "PROCESSING"} /\ req[q].createdAt >= now - Window
               k == req[q].kobo
    <3>4. f[q] = (IF In(clock) \/ Waits(req[q]) THEN k ELSE 0)
      BY <2>1 DEF Weight
    <3>5. h[q] = (IF In(clock + 1) \/ Waits(req[q]) THEN k ELSE 0)
      BY <2>1 DEF Weight
    <3>6. In(clock + 1) => In(clock)
      BY <1>1, <3>2, WindowAssumption
    <3>7. k \in Nat
      BY <3>2
    <3> HIDE DEF In, k
    <3> QED BY <3>4, <3>5, <3>6, <3>7
  <2>3. f \in [Requests -> Int] /\ h \in [Requests -> Int]
    <3>1. f = [q \in Requests |-> f[q]] /\ h = [q \in Requests |-> h[q]]
      BY <1>8 DEF Weights
    <3> QED BY <2>2, <3>1
  <2>4. Sum(Requests, h) <= Sum(Requests, f)
    BY <2>2, <2>3, SumMono, RequestsAssumption
  <2>5. Sum(Requests, f) \in Int /\ Sum(Requests, h) \in Int
    BY <2>3, SumInt, RequestsAssumption DEF Sum
  <2> QED BY <2>4, <2>5
<1>9. (~raced => WeightRight)'
  <2> SUFFICES ASSUME ~raced
               PROVE  /\ \A q, r \in Requests : Waits(req[q]) /\ Waits(req[r]) => q = r
                      /\ Sum(Requests, Weights') <= DefaultLimits[ResolveTier].daily
    BY <1>1 DEF WeightRight, Waits, ResolveTier
  <2>1. Sum(Requests, Weights) <= DefaultLimits[ResolveTier].daily
        /\ \A q, r \in Requests : Waits(req[q]) /\ Waits(req[r]) => q = r
    BY DEF LimitsInv, WeightRight
  <2>2. DefaultLimits[ResolveTier].daily \in Int
    BY <1>1, Figures
  <2>3. Sum(Requests, Weights') <= Sum(Requests, Weights)
        /\ Sum(Requests, Weights') \in Int /\ Sum(Requests, Weights) \in Int
    BY <1>8
  <2>4. Sum(Requests, Weights') <= DefaultLimits[ResolveTier].daily
    BY <2>1, <2>2, <2>3
  <2> QED BY <2>1, <2>4
<1> QED BY <1>1, <1>2, <1>9, RecordsRest DEF LimitsInv

\* The query's fold, as a sum of these lemmas.
LEMMA KoboFold ==
  ASSUME LimitsInv, NEW S \in SUBSET Requests
  PROVE  MapThenSumSet(LAMBDA q : req[q].kobo, S) = Sum(S, [q \in S |-> req[q].kobo])
<1> DEFINE f == [q \in S |-> req[q].kobo]
           R(g) == g = [s \in SUBSET S |->
                          IF s = {} THEN 0 ELSE req[Pick(s)].kobo + g[s \ {Pick(s)}]]
<1>1. f \in [S -> Int] /\ (\A q \in S : f[q] = req[q].kobo) /\ IsFiniteSet(S)
  BY RecordFacts, RecordNumbers, RequestsAssumption, FS_Subset
<1> HIDE DEF f
<1>2. ASSUME NEW g PROVE R(g) <=> SumEq(g, SUBSET S, f)
  <2>1. \A s \in SUBSET S : s # {} => req[Pick(s)].kobo = f[Pick(s)]
    BY <1>1, PickIn
  <2> QED BY <2>1 DEF SumEq
<1>3. MapThenSumSet(LAMBDA q : req[q].kobo, S) = (CHOOSE g : R(g))[S]
  BY DEF MapThenSumSet, MapThenFoldSet, Pick
<1> HIDE DEF R
<1>4. \E g : R(g)
  BY <1>1, <1>2, SumExists
<1>5. R(CHOOSE g : R(g))
  BY <1>4
<1>6. SumEq((CHOOSE g : R(g)), SUBSET S, f)
  BY <1>2, <1>5
<1> QED BY <1>1, <1>3, <1>6, SumUnique DEF f

\* What the query counts, as a sum over all requests.
LEMMA CountedSum ==
  ASSUME LimitsInv, NEW h, h = [q \in Requests |-> IF Counts(q) THEN req[q].kobo ELSE 0]
  PROVE  SumSourceAmountSince = Sum(Requests, h) /\ h \in [Requests -> Int]
<1> DEFINE S == {q \in Requests : Counts(q)}
           f == [q \in S |-> req[q].kobo]
<1>1. \A q \in Requests : req[q].kobo \in Int
  BY RecordFacts, RecordNumbers
<1>2. h \in [Requests -> Int] /\ f \in [S -> Int] /\ S \in SUBSET Requests
  BY <1>1
<1>3. (\A q \in S : h[q] = f[q]) /\ (\A q \in Requests \ S : h[q] = 0)
  OBVIOUS
<1>4. SumSourceAmountSince = Sum(S, f)
  BY <1>2, KoboFold DEF SumSourceAmountSince
<1> HIDE DEF S, f
<1> QED BY <1>2, <1>3, <1>4, SumFilter, RequestsAssumption

\* The daily check: with nobody waiting, the sum the query reads is all that
\* weighs on the limit, and the request adds its amount to it.
LEMMA CheckDailyKeeps ==
  ASSUME LimitsInv, NEW r \in Requests, CheckDaily(r) PROVE LimitsInv'
<1> DEFINE x == req[r]
           pc == IF WithinDaily(r) THEN "save" ELSE "refused"
           y == [x EXCEPT !.pc = pc]
<1>0. /\ x.pc = "sum" /\ UNCHANGED <<tier, clock, postings>>
      /\ raced' = (raced \/ \E q \in Requests \ {r} : Waits(req[q]))
  BY DEF CheckDaily, Unseen, Waits
<1>1. req' = [req EXCEPT ![r] = y]
  BY DEF CheckDaily, Go
<1>2. /\ x \in Request /\ RecordRight(x) /\ x.tier <= ResolveTier /\ clock \in Nat
      /\ ResolveTier \in 1..3 /\ req \in [Requests -> Request] /\ raced \in BOOLEAN
      /\ twin[r] \in Twin /\ booked[r] \in Legs /\ TwinFits(x, twin[r], r \in repeated)
      /\ BookingRight(x, booked[r], r \in lost, r \in repeated)
  BY RecordFacts, LimitsFacts
<1>3. pc \in {"save", "refused"} /\ (pc = "save" => WithinDaily(r))
  OBVIOUS
<1> HIDE DEF pc, x
<1>4. y \in Request
  BY <1>2, <1>3 DEF Request, RequestSteps
<1>5. /\ y.pc = pc /\ y.status = x.status /\ y.tier = x.tier /\ y.read = x.read
      /\ y.legs = x.legs /\ y.kobo = x.kobo /\ y.then = x.then
  BY <1>2 DEF Request
<1> HIDE DEF y
<1>6. y.status = "NONE" /\ x.status = "NONE" /\ y.read = {} /\ x.read = {} /\ x.tier >= 1
  BY <1>0, <1>2, <1>5 DEF RecordRight
<1>7. RecordRight(y)
  BY <1>3, <1>5, <1>6 DEF RecordRight
<1>8. Weight(x, clock) = 0 /\ ~Waits(x)
  BY <1>0, <1>3, <1>5, <1>6 DEF Weight, Waits
<1>9. Weight(y, clock) = IF pc = "save" THEN x.kobo ELSE 0
  BY <1>3, <1>5, <1>6 DEF Weight, Waits
<1>10. req' \in [Requests -> Request] /\ req'[r] = y /\ \A q \in Requests : q # r => req'[q] = req[q]
  BY <1>1, <1>2, <1>4
<1>20. UNCHANGED <<ledger, booked, twin, failures, overlapped, lost, repeated>>
  BY <1>0 DEF postings
<1>11. LimitsTypeOK'
  <2>1. raced' \in BOOLEAN
    BY <1>0, <1>2
  <2> QED BY <1>0, <1>10, <1>20, <2>1 DEF LimitsInv, LimitsTypeOK
<1>12. \A q \in Requests : RequestRight(q)'
  <2>1. TwinFits(y, twin[r], r \in repeated')
    BY <1>2, <1>6, <1>20 DEF TwinFits
  <2>2. BookingRight(y, booked[r], r \in lost', r \in repeated')
    BY <1>0, <1>2, <1>3, <1>5, <1>6, <1>20 DEF BookingRight, Posts, ClearingOf
  <2> DEFINE w == twin[r]
             b == booked[r]
  <2>3. /\ w \in Twin /\ b \in Legs /\ twin' = [twin EXCEPT ![r] = w]
        /\ booked' = [booked EXCEPT ![r] = b] /\ tier' = tier /\ y.tier <= ResolveTier
        /\ lost \subseteq lost' /\ lost' \subseteq lost \cup {r}
        /\ repeated \subseteq repeated' /\ repeated' \subseteq repeated \cup {r}
    BY <1>0, <1>2, <1>5, <1>20, LimitsFacts
  <2> QED BY <1>1, <1>4, <1>7, <2>1, <2>2, <2>3, RequestsKept
<1>13. RunningBalanceIsSum'
  BY <1>20 DEF LimitsInv, RunningBalanceIsSum
<1>14. (~overlapped => StillNewest)'
  BY <1>5, <1>6, <1>10, <1>20 DEF LimitsInv, StillNewest
<1> DEFINE W == Sum(Requests, Weights)
<1>15. Sum(Requests, Weights') = W + Weight(y, clock) - Weight(x, clock) /\ W \in Int
  BY <1>0, <1>1, <1>4, WeightsFollow DEF x
<1>17. ASSUME ~raced'
       PROVE  /\ \A q, u \in Requests : Waits(req'[q]) /\ Waits(req'[u]) => q = u
              /\ Sum(Requests, Weights') <= DefaultLimits[ResolveTier].daily
  <2>1. ~raced /\ \A q \in Requests : ~Waits(req[q])
    BY <1>0, <1>8, <1>17 DEF x
  <2>2. \A q \in Requests : Waits(req'[q]) => q = r
    BY <1>10, <2>1
  <2>3. W <= DefaultLimits[ResolveTier].daily
    BY <2>1 DEF LimitsInv, WeightRight
  <2> DEFINE k == x.kobo
             i == x.tier
             j == ResolveTier
  <2>4. /\ i \in 1..3 /\ j \in 1..3 /\ i <= j /\ k \in Nat
    BY <1>2, <1>6, RecordNumbers
  <2>5. /\ DefaultLimits[i].daily \in Nat /\ DefaultLimits[j].daily \in Nat
        /\ DefaultLimits[i].daily <= DefaultLimits[j].daily
    BY <2>4, LimitsClimb
  <2>6. W = SumSourceAmountSince
    <3> DEFINE h == [q \in Requests |-> IF Counts(q) THEN req[q].kobo ELSE 0]
    <3>1. SumSourceAmountSince = Sum(Requests, h)
      BY CountedSum
    <3>2. ASSUME NEW q \in Requests PROVE Weight(req[q], clock) = IF Counts(q) THEN req[q].kobo ELSE 0
      BY <2>1 DEF Weight, Counts
    <3>3. Weights = h
      BY <3>2 DEF Weights
    <3> QED BY <3>1, <3>3
  <2>7. CASE pc = "save"
    <3>1. DefaultLimits[i].daily >= SumSourceAmountSince + k
      BY <1>3, <2>7 DEF WithinDaily, x
    <3>2. Sum(Requests, Weights') = W + k
      BY <1>8, <1>9, <1>15, <2>4, <2>7
    <3> HIDE DEF i, j, k, W
    <3>3. W \in Int
      BY <1>15 DEF W
    <3>4. Sum(Requests, Weights') <= DefaultLimits[j].daily
      BY <2>4, <2>5, <2>6, <3>1, <3>2, <3>3
    <3> QED BY <2>2, <3>4 DEF j
  <2>8. CASE pc # "save"
    <3>1. Sum(Requests, Weights') = W
      BY <1>8, <1>9, <1>15, <2>8
    <3> QED BY <2>2, <2>3, <3>1
  <2> QED BY <2>7, <2>8
<1>18. (~raced => WeightRight)'
  BY <1>0, <1>17 DEF WeightRight, Waits, ResolveTier
<1> QED BY <1>11, <1>12, <1>13, <1>14, <1>18 DEF LimitsInv

\* Nothing changes.
LEMMA LimitsStutter == LimitsInv /\ UNCHANGED limitsVars => LimitsInv'
<1> SUFFICES ASSUME LimitsInv, UNCHANGED limitsVars PROVE LimitsInv'
  OBVIOUS
<1>1. UNCHANGED <<req, tier, clock, raced, postings>>
  BY DEF limitsVars, postings
<1>2. ResolveTier' = ResolveTier /\ ResolveTier \in 1..3 /\ tier \in 0..3 /\ clock \in Nat
  BY <1>1, LimitsFacts DEF ResolveTier
<1>3. Weights' = Weights
  BY <1>1 DEF Weights, Weight, Waits
<1>4. (~raced => WeightRight)'
  BY <1>1, <1>3 DEF LimitsInv, WeightRight, Waits, ResolveTier
<1> QED BY <1>1, <1>2, <1>4, RecordsRest DEF LimitsInv

\* The invariant above holds whatever the requests do, in any interleaving of
\* their queries (kyc-transfer-limit-checker.service.ts, the two transfer
\* handlers and prisma-ledger-recorder.service.ts).
THEOREM LimitsInductive == LimitsSpec => []LimitsInv
<1>1. LimitsInit => LimitsInv
  BY LimitsStart
<1>2. LimitsInv /\ [LimitsNext]_limitsVars => LimitsInv'
  <2> SUFFICES ASSUME LimitsInv, [LimitsNext]_limitsVars PROVE LimitsInv'
    OBVIOUS
  <2>1. ASSUME NEW r \in Requests, Receive(r) PROVE LimitsInv'
    BY <2>1, ReceiveKeeps
  <2>2. ASSUME NEW r \in Requests, ReadTier(r) PROVE LimitsInv'
    BY <2>2, ReadTierKeeps
  <2>3. ASSUME NEW r \in Requests, CheckTransaction(r) PROVE LimitsInv'
    BY <2>3, CheckTransactionKeeps
  <2>4. ASSUME NEW r \in Requests, CheckDaily(r) PROVE LimitsInv'
    BY <2>4, CheckDailyKeeps
  <2>5. ASSUME NEW r \in Requests, Save(r) PROVE LimitsInv'
    BY <2>5, SaveKeeps
  <2>6. ASSUME NEW r \in Requests, PostRead(r) PROVE LimitsInv'
    BY <2>6, PostReadKeeps
  <2>7. ASSUME NEW r \in Requests, PostInsert(r) PROVE LimitsInv'
    BY <2>7, PostInsertKeeps
  <2>8. ASSUME NEW r \in Requests, Payout(r) PROVE LimitsInv'
    BY <2>8, PayoutKeeps
  <2>9. ASSUME NEW r \in Requests, Confirm(r) PROVE LimitsInv'
    BY <2>9, ConfirmKeeps
  <2>10. ASSUME NEW r \in Requests, Mark(r) PROVE LimitsInv'
    BY <2>10, MarkKeeps
  <2>14. ASSUME NEW r \in Requests, Redeliver(r) \/ TwinRead(r) \/ TwinDies(r) PROVE LimitsInv'
    BY <2>14, TwinMovesKeeps
  <2>15. ASSUME NEW r \in Requests, TwinInsert(r) PROVE LimitsInv'
    BY <2>15, TwinInsertKeeps
  <2>16. ASSUME NEW r \in Requests, TwinMark(r) PROVE LimitsInv'
    BY <2>16, TwinMarkKeeps
  <2>17. ASSUME NEW r \in Requests, HandlerDies(r) PROVE LimitsInv'
    BY <2>17, HandlerDiesKeeps
  <2>18. ASSUME NEW r \in Requests, TryThrows(r) PROVE LimitsInv'
    BY <2>18, TryThrowsKeeps
  <2>11. CASE Upgrade
    BY <2>11, UpgradeKeeps
  <2>12. CASE Tick
    BY <2>12, TickKeeps
  <2>13. CASE UNCHANGED limitsVars
    BY <2>13, LimitsStutter
  <2> QED
    BY <2>1, <2>2, <2>3, <2>4, <2>5, <2>6, <2>7, <2>8, <2>9, <2>10, <2>11, <2>12, <2>13,
      <2>14, <2>15, <2>16, <2>17, <2>18
    DEF LimitsNext
<1> QED BY <1>1, <1>2, PTL DEF LimitsSpec

\* Requests, tier, system accounts and clock keep their types; in particular
\* what fromDecimalString yields stays a whole number of kobo through every
\* sum and posting.
THEOREM LimitsTypeCorrect == LimitsSpec => []LimitsTypeOK
<1>1. LimitsInv => LimitsTypeOK
  BY DEF LimitsInv
<1> QED BY <1>1, LimitsInductive, PTL

\* As long as no two postings to one system account overlapped, the newest
\* balanceAfter is the sum of what was posted there: post reads it before the
\* insert and nothing locks it in between (prisma-ledger-recorder.service.ts).
THEOREM BalancesAreSums == LimitsSpec => []RunningBalanceIsSum
<1>1. LimitsInv => RunningBalanceIsSum
  BY DEF LimitsInv
<1> QED BY <1>1, LimitsInductive, PTL

\* Until a daily sum is read while another transfer is past its check and not
\* counted, no rolling window holds more than the daily limit of the tier
\* (assertWithinLimits).
THEOREM DayStaysWithinLimit == LimitsSpec => []DailyLimitUnlessRaced
<1>1. LimitsInv => DailyLimitUnlessRaced
  <2> SUFFICES ASSUME LimitsInv, ~raced
               PROVE  SumSourceAmountSince <= DefaultLimits[ResolveTier].daily
    BY DEF DailyLimitUnlessRaced
  <2> DEFINE h == [q \in Requests |-> IF Counts(q) THEN req[q].kobo ELSE 0]
             W == Weights
  <2>1. SumSourceAmountSince = Sum(Requests, h) /\ h \in [Requests -> Int]
    BY CountedSum
  <2>2. ASSUME NEW q \in Requests
        PROVE  W[q] \in Int /\ W[q] = Weight(req[q], clock) /\ h[q] <= W[q]
    <3>1. req[q].kobo \in Nat /\ Weight(req[q], clock) \in Nat
      BY RecordFacts, RecordNumbers
    <3>2. Counts(q) => Weight(req[q], clock) = req[q].kobo
      BY DEF Counts, Weight
    <3> QED BY <3>1, <3>2 DEF Weights
  <2>3. W \in [Requests -> Int]
    <3>1. W = [q \in Requests |-> W[q]]
      BY DEF Weights
    <3> QED BY <2>2, <3>1
  <2> HIDE DEF h, W
  <2>4. Sum(Requests, h) <= Sum(Requests, W)
    BY <2>1, <2>2, <2>3, SumMono, RequestsAssumption
  <2>5. Sum(Requests, h) \in Int /\ Sum(Requests, W) \in Int
    BY <2>1, <2>3, SumInt, RequestsAssumption DEF Sum
  <2>6. Sum(Requests, W) <= DefaultLimits[ResolveTier].daily
    BY DEF LimitsInv, WeightRight, W
  <2>7. DefaultLimits[ResolveTier].daily \in Int
    BY LimitsFacts, Figures
  <2> QED BY <2>1, <2>4, <2>5, <2>6, <2>7
<1> QED BY <1>1, LimitsInductive, PTL

\* The fee and the amount of an external transfer are booked at most once,
\* whichever of its handlers dies, throws or is served twice, and exactly when
\* it is SUCCESSFUL if none of them failed; and then a decided one leaves
\* clearing empty unless two failure webhooks overlapped (initiate- and
\* confirm-external-transfer.handler).
THEOREM FeesReachTheirAccount == LimitsSpec => []FeesAreBooked
<1>1. LimitsInv => FeesAreBooked
  <2> SUFFICES ASSUME LimitsInv, NEW r \in Requests, req[r].type = "EXTERNAL", Quiet(r)
               PROVE  BookedRight(r)
    BY DEF FeesAreBooked
  <2> DEFINE x == req[r]
             b == booked[r]
  <2>1. /\ x \in Request /\ RecordRight(x) /\ BookingRight(x, b, r \in lost, r \in repeated)
        /\ x.pc \notin {"read", "insert", "mark"} /\ x.type = "EXTERNAL"
    BY RecordFacts DEF Quiet
  <2> HIDE DEF x, b
  <2>2. x.status = "SUCCESSFUL" <=> Posts(x)
    BY <2>1 DEF Posts, RecordRight, Request, RequestSteps
  <2>3. Unsettled(b) \/ Settled(x, b)
    BY <2>1 DEF BookingRight
  <2>4. r \notin lost => IF x.status = "SUCCESSFUL" THEN Settled(x, b) ELSE Unsettled(b)
    BY <2>1, <2>2 DEF BookingRight
  <2>5. r \notin lost \cup repeated /\ x.status \in {"SUCCESSFUL", "REVERSED"} => b["clearing"] = 0
    <3> SUFFICES ASSUME r \notin lost, r \notin repeated, x.status \in {"SUCCESSFUL", "REVERSED"}
                 PROVE  b["clearing"] = 0
      OBVIOUS
    <3>1. x.pc = "done"
      BY <2>1, <2>2 DEF BookingRight, Posts
    <3>2. b["clearing"] = ClearingOf(x)
      BY <2>1, <3>1 DEF BookingRight
    <3> QED BY <3>1, <3>2 DEF ClearingOf
  <2> QED BY <2>3, <2>4, <2>5 DEF BookedRight, Unsettled, Settled, x, b
<1> QED BY <1>1, LimitsInductive, PTL
=============================================================================
