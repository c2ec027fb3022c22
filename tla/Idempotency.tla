----------------------------- MODULE Idempotency -----------------------------
(***************************************************************************)
(* One idempotency key: IdempotencyGuardService.run and the table behind   *)
(* it.  Requests are the attempts that carry the key.  The operation they  *)
(* guard takes effect and returns a resource, which we name after the      *)
(* request, or throws, and then what it did before may stay: the external  *)
(* saga throws with the source debited, the payout perhaps under way and   *)
(* its transfer stored.                                                    *)
(*                                                                         *)
(* FreeUnlessInProgress, ReclaimAndLookAgain and ExecuteIgnoringError are  *)
(* plausible mistakes in the code of the definition below them; no         *)
(* behaviour uses them.                                                    *)
(***************************************************************************)
EXTENDS Integers

CONSTANTS
  Requests,    \* attempts with the same (userId, scope, key)
  NoResource,  \* resourceId null
  MaxFaults    \* bound: crashes, database errors and overlong executions

ASSUME ResourceAssumption == NoResource \notin Requests
ASSUME FaultsAssumption == MaxFaults \in Nat

VARIABLES
  row,      \* the key's row: its claim, the row's identity and age
  req,      \* the attempts: next step, row seen, resource answered
  effects,  \* attempts whose operation took effect
  thrown,   \* those of them whose operation then threw
  faults    \* faults so far

vars == <<row, req, effects, thrown, faults>>

Resource == Requests \cup {NoResource}

Steps == {"insert", "lookup", "reclaim", "execute", "mark", "release",
          "answered", "refused", "failed", "dead"}

Row == [status: {"NONE", "IN_PROGRESS", "COMPLETED"}, id: Nat, stale: BOOLEAN,
        resource: Resource]

TypeOK ==
  /\ row \in Row
  /\ req \in [Requests -> [pc: Steps, seen: Nat, resource: Resource]]
  /\ effects \subseteq Requests /\ thrown \subseteq effects
  /\ faults \in Nat

Init ==
  /\ row = [status |-> "NONE", id |-> 0, stale |-> FALSE, resource |-> NoResource]
  /\ req = [r \in Requests |-> [pc |-> "insert", seen |-> 0, resource |-> NoResource]]
  /\ effects = {} /\ thrown = {}
  /\ faults = 0

At(r, pc) == req[r].pc = pc

Goto(r, pc) ==
  req' = [req EXCEPT ![r] = [pc |-> pc, seen |-> 0, resource |-> NoResource]]

Answer(r, resource) ==
  req' = [req EXCEPT ![r] = [pc |-> "answered", seen |-> 0, resource |-> resource]]

-----------------------------------------------------------------------------
(***************************************************************************)
(* tryAcquire, one step per query.                                         *)
(***************************************************************************)

\* The unique constraint on (userId, scope, key).
FreeUnlessInProgress(k) == k.status # "IN_PROGRESS"
Free(k) == k.status = "NONE"

Insert(r) ==
  /\ At(r, "insert")
  /\ \/ /\ Free(row)
        /\ row' = [status |-> "IN_PROGRESS", id |-> row.id + 1, stale |-> FALSE,
                   resource |-> NoResource]
        /\ Goto(r, "execute")
     \/ /\ ~Free(row)
        /\ Goto(r, "lookup")
        /\ UNCHANGED row
  /\ UNCHANGED <<effects, thrown, faults>>

\* findUnique after the constraint violation: the row may be gone, finished,
\* in progress, or so old that its claimant is taken for dead.
Lookup(r) ==
  /\ At(r, "lookup")
  /\ \/ row.status = "NONE" /\ Goto(r, "insert")
     \/ row.status = "COMPLETED" /\ Answer(r, row.resource)
     \/ row.status = "IN_PROGRESS" /\ ~row.stale /\ Goto(r, "refused")
     \/ /\ row.status = "IN_PROGRESS" /\ row.stale
        /\ req' = [req EXCEPT ![r] =
             [pc |-> "reclaim", seen |-> row.id, resource |-> NoResource]]
  /\ UNCHANGED <<row, effects, thrown, faults>>

ReclaimAndLookAgain(r) ==
  /\ At(r, "reclaim")
  /\ Goto(r, "insert")
  /\ UNCHANGED <<row, effects, thrown, faults>>

\* The conditional update sets updatedAt alone: age and status stay.
Reclaim(r) ==
  /\ At(r, "reclaim")
  /\ IF row.status = "IN_PROGRESS" /\ row.id = req[r].seen
     THEN Goto(r, "execute")
     ELSE Goto(r, "insert")
  /\ UNCHANGED <<row, effects, thrown, faults>>

-----------------------------------------------------------------------------
(***************************************************************************)
(* run, once the claim is acquired.                                        *)
(***************************************************************************)
ExecuteIgnoringError(r) ==
  /\ At(r, "execute")
  /\ effects' \in {effects, effects \cup {r}}
  /\ Goto(r, "mark")
  /\ UNCHANGED <<row, thrown, faults>>

\* The operation returns, throws with nothing done, or throws after it has
\* taken effect.
Execute(r) ==
  /\ At(r, "execute")
  /\ \/ effects' = effects \cup {r} /\ Goto(r, "mark") /\ UNCHANGED thrown
     \/ UNCHANGED <<effects, thrown>> /\ Goto(r, "release")
     \/ /\ effects' = effects \cup {r} /\ thrown' = thrown \cup {r}
        /\ Goto(r, "release")
  /\ UNCHANGED <<row, faults>>

\* update throws when the row is gone, which leads to the catch block.
MarkCompleted(r) ==
  /\ At(r, "mark")
  /\ \/ /\ row.status # "NONE"
        /\ row' = [status |-> "COMPLETED", id |-> row.id, stale |-> row.stale, resource |-> r]
        /\ Answer(r, r)
     \/ /\ row.status = "NONE"
        /\ Goto(r, "release")
        /\ UNCHANGED row
  /\ UNCHANGED <<effects, thrown, faults>>

\* deleteMany by key: whoever claimed the row by now.
Release(r) ==
  /\ At(r, "release")
  /\ row' = [status |-> "NONE", id |-> row.id, stale |-> FALSE, resource |-> NoResource]
  /\ Goto(r, "failed")
  /\ UNCHANGED <<effects, thrown, faults>>

-----------------------------------------------------------------------------
(***************************************************************************)
(* Time and faults.                                                        *)
(***************************************************************************)
Holds(r) == req[r].pc \in {"execute", "mark", "release"}

Fault == faults < MaxFaults /\ faults' = faults + 1

\* STALE_CLAIM_MS pass since createdAt.  That is a fault while an attempt
\* still holds the claim: the window is meant to be longer than any transfer.
GrowStale ==
  /\ row.status = "IN_PROGRESS" /\ ~row.stale
  /\ IF \E r \in Requests : Holds(r) THEN Fault ELSE UNCHANGED faults
  /\ row' = [status |-> row.status, id |-> row.id, stale |-> TRUE, resource |-> row.resource]
  /\ UNCHANGED <<req, effects, thrown>>

Crash(r) ==
  /\ Holds(r)
  /\ Fault
  /\ Goto(r, "dead")
  /\ UNCHANGED <<row, effects, thrown>>

\* markCompleted fails in the database: the catch block releases the claim.
MarkFails(r) ==
  /\ At(r, "mark")
  /\ Fault
  /\ Goto(r, "release")
  /\ UNCHANGED <<row, effects, thrown>>

-----------------------------------------------------------------------------
Step(r) ==
  Insert(r) \/ Lookup(r) \/ Reclaim(r) \/ Execute(r) \/ MarkCompleted(r) \/ Release(r)

Next ==
  \/ \E r \in Requests : Step(r) \/ Crash(r) \/ MarkFails(r)
  \/ GrowStale

Spec == Init /\ [][Next]_vars

\* A live process resumes its awaits.
FairSpec == Spec /\ \A r \in Requests : WF_vars(Step(r))

-----------------------------------------------------------------------------
(***************************************************************************)
(* Properties.                                                             *)
(***************************************************************************)

\* idempotency-key.repository.interface.ts:10-11: "only one may ever receive
\* ACQUIRED for a given key at a time", however insert, lookup and reclaim of
\* several attempts interleave.
OneHolder == \A r, s \in Requests : Holds(r) /\ Holds(s) => r = s

\* Until the first fault that promise is kept by the unique constraint alone:
\* nobody reclaims, and every claim is given up by its own holder.
OneHolderUntilFault == faults = 0 => OneHolder

\* Until then, whatever the interleaving, the operation takes effect again
\* only when every effect before it was followed by a throw: once it has
\* returned it is never repeated, answered or not.  This is how far the catch
\* block lets the guard keep its promise: it takes a throw to mean that
\* nothing is left "that a retry could duplicate"
\* (idempotency-guard.service.ts:63-66), which the saga of an external
\* transfer does not honour.
ExecutedOnce ==
  [][faults' = 0 /\ effects' # effects => effects \subseteq thrown]_vars

\* Until then a completed key is final: no late release or second completion
\* touches it.
CompletedStays == [][faults' = 0 /\ row.status = "COMPLETED" => row' = row]_vars

\* A replay answers with a resource that some attempt created and returned,
\* even after crashes, stale claims and releases of somebody else's claim,
\* and never with what a throwing attempt left behind.
ReplayIsReal ==
  /\ row.status = "COMPLETED" => row.resource \in effects \ thrown
  /\ \A r \in Requests : At(r, "answered") => req[r].resource \in effects \ thrown

\* No attempt hangs: the recursion of tryAcquire ends, whatever the others do.
Ended(r) == req[r].pc \in {"answered", "refused", "failed", "dead"}

EveryAttemptEnds == \A r \in Requests : <>Ended(r)
=============================================================================
