-------------------------- MODULE IdempotencyProofs --------------------------
(***************************************************************************)
(* Proofs about Idempotency, for any number of attempts.  ReplayIsReal     *)
(* holds under all faults and delays.  Exclusion, and that an operation    *)
(* which has returned is not repeated, hold until the first crash,         *)
(* database error or execution that outlives the staleness window.  An     *)
(* operation that took effect and threw may take effect again: the guard   *)
(* releases its key.                                                       *)
(***************************************************************************)
EXTENDS Idempotency, TLAPS

ReqRec == [pc: Steps, seen: Nat, resource: Resource]

\* Whoever is about to complete the key has executed, and returned; whoever
\* has not executed left nothing.
RInv ==
  /\ TypeOK
  /\ ReplayIsReal
  /\ \A r \in Requests : At(r, "mark") => r \in effects \ thrown
  /\ \A r \in Requests : req[r].pc \in {"insert", "lookup", "reclaim", "execute"} => r \notin effects

LEMMA RInvInit == Init => RInv
BY ResourceAssumption, FaultsAssumption
   DEF Init, RInv, TypeOK, Row, Steps, Resource, ReplayIsReal, At

LEMMA GotoType ==
  ASSUME TypeOK, NEW r \in Requests, NEW pc \in Steps, Goto(r, pc)
  PROVE  /\ req' \in [Requests -> ReqRec]
         /\ req'[r].pc = pc
         /\ \A s \in Requests \ {r} : req'[s] = req[s]
BY DEF TypeOK, Goto, ReqRec, Resource

LEMMA AnswerType ==
  ASSUME TypeOK, NEW r \in Requests, NEW x \in Resource, Answer(r, x)
  PROVE  /\ req' \in [Requests -> ReqRec]
         /\ req'[r].pc = "answered" /\ req'[r].resource = x
         /\ \A s \in Requests \ {r} : req'[s] = req[s]
BY DEF TypeOK, Answer, ReqRec, Steps

LEMMA RInvStep ==
  ASSUME RInv, NEW r \in Requests, Step(r) \/ Crash(r) \/ MarkFails(r)
  PROVE  RInv'
<1>1. TypeOK /\ row.resource \in Resource /\ row.id \in Nat /\ r \in Resource
        /\ NoResource \in Resource /\ row.stale \in BOOLEAN
  BY DEF RInv, TypeOK, Row, Resource
<1>2. {"insert", "lookup", "reclaim", "execute", "mark", "release", "answered", "refused",
       "failed", "dead"} \subseteq Steps
  BY DEF Steps
<1> USE DEF RInv, ReplayIsReal, At
<1>3. CASE Insert(r)
  <2>1. /\ req' \in [Requests -> ReqRec] /\ req'[r].pc \in {"execute", "lookup"}
        /\ \A s \in Requests \ {r} : req'[s] = req[s]
    <3>1. CASE Goto(r, "execute")
      BY <1>1, <1>2, <3>1, GotoType
    <3>2. CASE Goto(r, "lookup")
      BY <1>1, <1>2, <3>2, GotoType
    <3> QED BY <1>3, <3>1, <3>2 DEF Insert
  <2>2. row' \in Row /\ (row' = row \/ row'.status = "IN_PROGRESS")
    <3>1. CASE Free(row)
      <4>1. row' = [status |-> "IN_PROGRESS", id |-> row.id + 1, stale |-> FALSE,
                    resource |-> NoResource]
        BY <1>3, <3>1 DEF Insert
      <4> QED BY <1>1, <4>1 DEF Row
    <3>2. CASE ~Free(row)
      BY <1>1, <1>3, <3>2 DEF Insert, TypeOK
    <3> QED BY <3>1, <3>2
  <2> QED BY <1>1, <1>3, <2>1, <2>2 DEF Insert, TypeOK, ReqRec
<1>4. CASE Lookup(r)
  <2>1. CASE row.status = "COMPLETED"
    <3>1. Answer(r, row.resource)
      BY <1>4, <2>1 DEF Lookup
    <3>2. /\ req' \in [Requests -> ReqRec]
          /\ req'[r].pc = "answered" /\ req'[r].resource = row.resource
          /\ \A s \in Requests \ {r} : req'[s] = req[s]
      BY <1>1, <3>1, AnswerType
    <3> QED BY <1>1, <1>4, <2>1, <3>2 DEF Lookup, TypeOK, ReqRec
  <2>2. CASE row.status # "COMPLETED"
    <3>1. /\ req' \in [Requests -> ReqRec] /\ req'[r].pc \in {"insert", "refused", "reclaim"}
          /\ \A s \in Requests \ {r} : req'[s] = req[s]
      <4>1. CASE Goto(r, "insert") \/ Goto(r, "refused")
        BY <1>1, <1>2, <4>1, GotoType
      <4>2. CASE req' = [req EXCEPT ![r] =
                   [pc |-> "reclaim", seen |-> row.id, resource |-> NoResource]]
        BY <1>1, <1>2, <4>2 DEF TypeOK, ReqRec
      <4> QED BY <1>4, <2>2, <4>1, <4>2 DEF Lookup
    <3> QED BY <1>1, <1>4, <2>2, <3>1 DEF Lookup, TypeOK, ReqRec
  <2> QED BY <2>1, <2>2
<1>5. CASE Reclaim(r) \/ Release(r) \/ Crash(r) \/ MarkFails(r)
  <2>1. /\ req' \in [Requests -> ReqRec]
        /\ req'[r].pc \in {"execute", "insert", "failed", "dead", "release"}
        /\ req'[r].pc \in {"execute", "insert"} => req[r].pc = "reclaim"
        /\ \A s \in Requests \ {r} : req'[s] = req[s]
    <3>1. ASSUME NEW pc \in {"execute", "insert", "failed", "dead", "release"}, Goto(r, pc),
                 pc \in {"execute", "insert"} => req[r].pc = "reclaim"
          PROVE  <2>1!:
      BY <1>1, <1>2, <3>1, GotoType
    <3>2. CASE Reclaim(r)
      BY <3>1, <3>2 DEF Reclaim
    <3>3. CASE Release(r) \/ Crash(r) \/ MarkFails(r)
      BY <3>1, <3>3 DEF Release, Crash, MarkFails
    <3> QED BY <1>5, <3>2, <3>3
  <2>2. row' \in Row /\ (row' = row \/ row'.status = "NONE") /\ effects' = effects /\ thrown' = thrown
          /\ faults' \in Nat
    <3>1. CASE Release(r)
      <4>1. row' = [status |-> "NONE", id |-> row.id, stale |-> FALSE, resource |-> NoResource]
        BY <3>1 DEF Release
      <4>2. row' \in Row /\ row'.status = "NONE"
        BY <1>1, <4>1 DEF Row
      <4> QED BY <1>1, <3>1, <4>2 DEF Release, TypeOK
    <3>2. CASE Reclaim(r)
      BY <1>1, <3>2 DEF Reclaim, TypeOK
    <3>3. CASE Crash(r) \/ MarkFails(r)
      BY <1>1, <3>3 DEF Crash, MarkFails, Fault, TypeOK
    <3> QED BY <1>5, <3>1, <3>2, <3>3
  <2> QED BY <1>1, <2>1, <2>2 DEF TypeOK, ReqRec
<1>6. CASE Execute(r)
  <2>1. /\ req' \in [Requests -> ReqRec]
        /\ \/ req'[r].pc = "mark" /\ effects' = effects \cup {r} /\ thrown' = thrown
           \/ req'[r].pc = "release" /\ effects' = effects /\ thrown' = thrown
           \/ req'[r].pc = "release" /\ effects' = effects \cup {r} /\ thrown' = thrown \cup {r}
        /\ \A s \in Requests \ {r} : req'[s] = req[s]
    BY <1>1, <1>2, <1>6, GotoType DEF Execute
  <2> QED BY <1>1, <1>6, <2>1 DEF Execute, TypeOK, ReqRec
<1>7. CASE MarkCompleted(r)
  <2>1. CASE row.status # "NONE"
    <3>1. /\ req' \in [Requests -> ReqRec]
          /\ req'[r].pc = "answered" /\ req'[r].resource = r
          /\ \A s \in Requests \ {r} : req'[s] = req[s]
      BY <1>1, <1>7, <2>1, AnswerType DEF MarkCompleted
    <3>2. row' \in Row /\ row'.resource = r
      BY <1>1, <1>7, <2>1 DEF MarkCompleted, Row, TypeOK
    <3>3. r \in effects \ thrown /\ effects' = effects /\ thrown' = thrown /\ faults' = faults
      BY <1>7 DEF MarkCompleted
    <3> QED BY <1>1, <3>1, <3>2, <3>3 DEF TypeOK, ReqRec
  <2>2. CASE row.status = "NONE"
    <3>1. /\ req' \in [Requests -> ReqRec] /\ req'[r].pc = "release"
          /\ \A s \in Requests \ {r} : req'[s] = req[s]
      BY <1>1, <1>2, <1>7, <2>2, GotoType DEF MarkCompleted
    <3> QED BY <1>1, <1>7, <2>2, <3>1 DEF MarkCompleted, TypeOK, ReqRec
  <2> QED BY <2>1, <2>2
<1> QED BY <1>3, <1>4, <1>5, <1>6, <1>7 DEF Step

LEMMA RInvNext == RInv /\ [Next]_vars => RInv'
<1> SUFFICES ASSUME RInv, [Next]_vars PROVE RInv'
  OBVIOUS
<1>1. CASE GrowStale
  BY <1>1 DEF GrowStale, Fault, RInv, TypeOK, Row, ReplayIsReal, At
<1>2. CASE UNCHANGED vars
  BY <1>2 DEF vars, RInv, TypeOK, ReplayIsReal, At
<1> QED BY <1>1, <1>2, RInvStep DEF Next

\* A replayed answer names a resource that exists, under every fault and
\* delay the model knows.
THEOREM ReplaysAreReal == Spec => []ReplayIsReal
<1>1. RInv => ReplayIsReal
  BY DEF RInv
<1> QED BY <1>1, RInvInit, RInvNext, PTL DEF Spec

-----------------------------------------------------------------------------
(***************************************************************************)
(* Exclusion.  While no fault happens, the row is IN_PROGRESS exactly when *)
(* an attempt holds the claim, it never grows stale, so nobody reclaims,   *)
(* and a completed key has no holder left that could release it.           *)
(***************************************************************************)
PInv ==
  /\ RInv
  /\ faults = 0
  /\ ~row.stale
  /\ \A r \in Requests : ~At(r, "reclaim")
  /\ OneHolder
  /\ row.status = "IN_PROGRESS" <=> \E r \in Requests : Holds(r)
  /\ \A r \in effects \ thrown : At(r, "mark") \/ (row.status = "COMPLETED" /\ row.resource = r)

LEMMA PInvInit == Init => PInv
<1> SUFFICES ASSUME Init PROVE PInv
  OBVIOUS
<1>1. RInv
  BY RInvInit
<1> QED BY <1>1 DEF Init, PInv, At, OneHolder, Holds

\* What a step of r may change, in terms of who holds the claim.
LEMMA PInvStep ==
  ASSUME PInv, NEW r \in Requests, Step(r)
  PROVE  PInv' /\ (row.status = "COMPLETED" => row' = row)
<1>1. RInv'
  BY RInvStep DEF PInv
<1>2. TypeOK /\ faults' = faults
  BY DEF PInv, RInv, Step, Insert, Lookup, Reclaim, Execute, MarkCompleted, Release
<1>3. {"insert", "lookup", "reclaim", "execute", "mark", "release", "answered", "refused",
       "failed", "dead"} \subseteq Steps
  BY DEF Steps
<1> USE DEF PInv, At, OneHolder, Holds
<1>4. CASE Insert(r)
  <2>1. CASE Free(row)
    <3>1. /\ row' = [status |-> "IN_PROGRESS", id |-> row.id + 1, stale |-> FALSE,
                     resource |-> NoResource]
          /\ Goto(r, "execute") /\ effects' = effects /\ thrown' = thrown /\ row.status = "NONE"
      BY <1>4, <2>1 DEF Insert, Free
    <3>2. req'[r].pc = "execute" /\ \A s \in Requests \ {r} : req'[s] = req[s]
      BY <1>2, <1>3, <3>1, GotoType
    <3>3. row'.status = "IN_PROGRESS" /\ ~row'.stale
      BY <3>1
    <3>4. \A s \in Requests : ~Holds(s)
      BY <3>1
    <3> QED BY <1>1, <1>2, <3>1, <3>2, <3>3, <3>4 DEF TypeOK
  <2>2. CASE ~Free(row)
    <3>1. row' = row /\ Goto(r, "lookup") /\ effects' = effects /\ thrown' = thrown
      BY <1>4, <2>2 DEF Insert
    <3>2. req'[r].pc = "lookup" /\ \A s \in Requests \ {r} : req'[s] = req[s]
      BY <1>2, <1>3, <3>1, GotoType
    <3> QED BY <1>1, <1>2, <1>4, <3>1, <3>2 DEF Insert, TypeOK
  <2> QED BY <2>1, <2>2
<1>5. CASE Lookup(r)
  <2>1. row' = row /\ effects' = effects /\ thrown' = thrown /\ req[r].pc = "lookup" /\ row.resource \in Resource
    BY <1>2, <1>5 DEF Lookup, TypeOK, Row
  <2>2. Goto(r, "insert") \/ Goto(r, "refused") \/ Answer(r, row.resource)
    BY <1>5 DEF Lookup
  <2>3. req'[r].pc \in {"insert", "refused", "answered"}
          /\ \A s \in Requests \ {r} : req'[s] = req[s]
    <3>1. CASE Goto(r, "insert")
      BY <1>2, <1>3, <3>1, GotoType
    <3>2. CASE Goto(r, "refused")
      BY <1>2, <1>3, <3>2, GotoType
    <3>3. CASE Answer(r, row.resource)
      BY <1>2, <2>1, <3>3, AnswerType
    <3> QED BY <2>2, <3>1, <3>2, <3>3
  <2> QED BY <1>1, <1>2, <2>1, <2>3 DEF TypeOK
<1>6. CASE Reclaim(r)
  BY <1>6 DEF Reclaim
<1>7. CASE Execute(r)
  <2>1. /\ row' = row /\ req[r].pc = "execute"
        /\ \/ req'[r].pc = "mark" /\ effects' = effects \cup {r} /\ thrown' = thrown
           \/ req'[r].pc = "release" /\ effects' = effects /\ thrown' = thrown
           \/ req'[r].pc = "release" /\ effects' = effects \cup {r} /\ thrown' = thrown \cup {r}
        /\ \A s \in Requests \ {r} : req'[s] = req[s]
    BY <1>2, <1>3, <1>7, GotoType DEF Execute
  <2> QED BY <1>1, <1>2, <2>1 DEF TypeOK
<1>8. CASE MarkCompleted(r)
  <2>1. row.status = "IN_PROGRESS" /\ req[r].pc = "mark" /\ r \in Resource
    BY <1>8 DEF MarkCompleted, Resource
  <2>2. /\ row' = [status |-> "COMPLETED", id |-> row.id, stale |-> row.stale, resource |-> r]
        /\ Answer(r, r) /\ effects' = effects /\ thrown' = thrown
    BY <1>8, <2>1 DEF MarkCompleted
  <2>3. req'[r].pc = "answered" /\ \A s \in Requests \ {r} : req'[s] = req[s]
    BY <1>2, <2>1, <2>2, AnswerType
  <2>4. row'.status = "COMPLETED" /\ row'.resource = r /\ row'.stale = row.stale
    BY <2>2
  <2> QED BY <1>1, <1>2, <2>1, <2>2, <2>3, <2>4 DEF RInv, TypeOK
<1>9. CASE Release(r)
  <2>1. req[r].pc = "release" /\ row.status = "IN_PROGRESS"
    BY <1>9 DEF Release
  <2>2. /\ row' = [status |-> "NONE", id |-> row.id, stale |-> FALSE, resource |-> NoResource]
        /\ Goto(r, "failed") /\ effects' = effects /\ thrown' = thrown
    BY <1>9 DEF Release
  <2>3. req'[r].pc = "failed" /\ \A s \in Requests \ {r} : req'[s] = req[s]
    BY <1>2, <1>3, <2>2, GotoType
  <2>4. row'.status = "NONE" /\ ~row'.stale
    BY <2>2
  <2> QED BY <1>1, <1>2, <2>1, <2>2, <2>3, <2>4 DEF RInv, TypeOK
<1> QED BY <1>4, <1>5, <1>6, <1>7, <1>8, <1>9 DEF Step

LEMMA PInvNext ==
  ASSUME PInv, faults' = 0, [Next]_vars
  PROVE  PInv' /\ (row.status = "COMPLETED" => row' = row)
<1>1. CASE UNCHANGED vars
  <2>1. RInv'
    BY RInvNext DEF PInv
  <2> QED BY <1>1, <2>1 DEF vars, PInv, At, OneHolder, Holds
<1>2. ASSUME NEW r \in Requests, Step(r) PROVE PInv' /\ (row.status = "COMPLETED" => row' = row)
  BY <1>2, PInvStep
<1>3. ASSUME NEW r \in Requests PROVE ~Crash(r) /\ ~MarkFails(r)
  BY DEF PInv, Crash, MarkFails, Fault
<1>4. ~GrowStale
  BY DEF PInv, GrowStale, Fault
<1> QED BY <1>1, <1>2, <1>3, <1>4 DEF Next

\* Faults are never forgotten.
LEMMA FaultsGrow ==
  ASSUME RInv, [Next]_vars, faults' = 0
  PROVE  faults = 0
BY DEF RInv, TypeOK, Next, vars, Step, Insert, Lookup, Reclaim, Execute, MarkCompleted, Release,
   Crash, MarkFails, GrowStale, Fault

QInv == RInv /\ (faults = 0 => PInv)

LEMMA QInvInvariant == Spec => []QInv
<1>1. Init => QInv
  BY RInvInit, PInvInit DEF QInv
<1>2. QInv /\ [Next]_vars => QInv'
  BY RInvNext, PInvNext, FaultsGrow DEF QInv
<1> QED BY <1>1, <1>2, PTL DEF Spec

\* At most one attempt at a time holds the claim, until the first fault: the
\* unique constraint and the order of insert, lookup and release suffice.
THEOREM Exclusion == Spec => []OneHolderUntilFault
<1>1. QInv => OneHolderUntilFault
  BY DEF QInv, PInv, OneHolderUntilFault
<1> QED BY <1>1, QInvInvariant, PTL

\* An attempt takes effect only after attempts that threw, until the first
\* fault: whoever executes holds the claim alone, so an operation that
\* returned would have completed the key or hold the claim itself.
THEOREM AtMostOnce == Spec => ExecutedOnce
<1>1. ASSUME QInv, [Next]_vars, faults' = 0, effects' # effects
      PROVE  effects \subseteq thrown
  <2>1. PInv
    BY <1>1, FaultsGrow DEF QInv
  <2>2. PICK r \in Requests : Execute(r)
    BY <1>1 DEF Next, Step, Insert, Lookup, Reclaim, MarkCompleted, Release, Crash, MarkFails,
       GrowStale, vars
  <2>3. At(r, "execute") /\ Holds(r)
    BY <2>2 DEF Execute, Holds, At
  <2>4. row.status = "IN_PROGRESS" /\ \A s \in Requests : At(s, "mark") => s = r
    BY <2>1, <2>3 DEF PInv, OneHolder, Holds, At
  <2> QED BY <2>1, <2>3, <2>4 DEF PInv, RInv, TypeOK, At
<1>2. QInv /\ [Next]_vars => [faults' = 0 /\ effects' # effects => effects \subseteq thrown]_vars
  BY <1>1
<1> QED BY <1>2, QInvInvariant, PTL DEF Spec, ExecutedOnce

\* A completed key is never reopened or overwritten, until the first fault.
THEOREM CompletedIsFinal == Spec => CompletedStays
<1>1. QInv /\ [Next]_vars => [faults' = 0 /\ row.status = "COMPLETED" => row' = row]_vars
  BY PInvNext, FaultsGrow DEF QInv
<1> QED BY <1>1, QInvInvariant, PTL DEF Spec, CompletedStays
=============================================================================
