----------------------------- MODULE KycProfile -----------------------------
(***************************************************************************)
(* The Compliance module around one customer: the KYC profile row, the     *)
(* command handlers that read it, wait for the identity provider and write *)
(* it back under its version, the audit log, the sanctions screening that  *)
(* follows a verification, and the staff commands that override a failed   *)
(* name match or clear a flag.  A handler is cut at its awaits: one step   *)
(* per query, and everything it holds in between can be stale.             *)
(*                                                                         *)
(* A name is the set of its normalised tokens (upper case, no              *)
(* punctuation), and no name repeats one; a time stamp is the profile      *)
(* version at which it was set, with 0 for null. RecordNinAlone,           *)
(* FlagAgain, UpgradeAfter and AuditBeforeSave are plausible mistakes in   *)
(* the code of the definition that follows them; no behaviour uses them.   *)
(***************************************************************************)
EXTENDS Integers, FiniteSets

CONSTANTS
  Requests,    \* HTTP requests about this customer
  Tokens,      \* the words names are made of
  Noise,       \* the words of a single letter, dropped by the screening
  Registered,  \* the name given at registration: [first, last]
  Records,     \* what the provider may hold: [first, middle, last]
  Watchlist,   \* the sanctions list: a set of names
  MaxFaults    \* bound: crashes and database errors

ASSUME NoiseAssumption == Noise \subseteq Tokens
ASSUME RegisteredAssumption ==
  Registered \in [first: SUBSET Tokens, last: SUBSET Tokens]
ASSUME RecordsAssumption ==
  Records \subseteq [first: SUBSET Tokens, middle: SUBSET Tokens, last: SUBSET Tokens]
ASSUME WatchlistAssumption == Watchlist \subseteq SUBSET Tokens
ASSUME MaxFaultsAssumption == MaxFaults \in Nat

VARIABLES
  row,        \* the kyc_profiles row; version -1 before it exists
  req,        \* the requests: next step and what each holds in memory
  audit,      \* the audit rows each request has written
  published,  \* tiers announced by KycTierUpgradedEvent
  faults      \* faults so far

vars == <<row, req, audit, published, faults>>

Profile == [tier: 1..3, bvn: BOOLEAN, nin: BOOLEAN, flaggedAt: Nat,
            clearedAt: Nat, version: Nat \cup {-1}]

\* NONE: no longer told apart.
Kinds == {"SUBMIT_BVN", "SUBMIT_NIN", "OVERRIDE_BVN", "OVERRIDE_NIN", "CLEAR"}

Steps == {"idle", "load", "provider", "save", "audit", "auditTier", "publish",
          "screen", "saveFlag", "auditClean", "auditMatch", "ok", "refused",
          "conflict", "failed"}

\* outcome: the attempt's audit row; to: the tier it upgrades to, or 0;
\* name: the name to screen.
Request == [pc: Steps, kind: Kinds \cup {"NONE"}, copy: Profile,
            outcome: {"NONE", "PASSED", "FAILED", "CLEARED"}, to: {0, 2, 3},
            name: SUBSET Tokens]

AuditRows == {"PASSED", "FAILED", "CLEARED", "TIER_2", "TIER_3", "CLEAN", "MATCH"}

TypeOK ==
  /\ row \in Profile
  /\ req \in [Requests -> Request]
  /\ audit \in [Requests -> SUBSET AuditRows]
  /\ published \subseteq {2, 3}
  /\ faults \in Nat

-----------------------------------------------------------------------------
(***************************************************************************)
(* The aggregate, kyc-profile.entity.ts: each method as a function of the  *)
(* profile it is called on.                                                *)
(***************************************************************************)
Absent == [tier |-> 1, bvn |-> FALSE, nin |-> FALSE, flaggedAt |-> 0,
           clearedAt |-> 0, version |-> -1]

CreateDefault == [tier |-> 1, bvn |-> FALSE, nin |-> FALSE, flaggedAt |-> 0,
                  clearedAt |-> 0, version |-> 0]

RecordBvnVerified(p) ==
  [tier |-> IF p.tier = 1 THEN 2 ELSE p.tier, bvn |-> TRUE, nin |-> p.nin,
   flaggedAt |-> p.flaggedAt, clearedAt |-> p.clearedAt, version |-> p.version + 1]

RecordNinAlone(p) ==
  [tier |-> IF p.tier < 3 THEN p.tier + 1 ELSE 3, bvn |-> p.bvn, nin |-> TRUE,
   flaggedAt |-> p.flaggedAt, clearedAt |-> p.clearedAt, version |-> p.version + 1]

RecordNinVerified(p) ==
  [tier |-> IF p.tier = 2 /\ p.bvn THEN 3 ELSE p.tier, bvn |-> p.bvn, nin |-> TRUE,
   flaggedAt |-> p.flaggedAt, clearedAt |-> p.clearedAt, version |-> p.version + 1]

RecordVerificationFailed(p) ==
  [tier |-> p.tier, bvn |-> p.bvn, nin |-> p.nin,
   flaggedAt |-> p.flaggedAt, clearedAt |-> p.clearedAt, version |-> p.version + 1]

IsSanctionsFlagOpen(p) == p.flaggedAt # 0 /\ p.clearedAt = 0

\* A no-op, version included, while a flag is open.
FlagAgain(p) ==
  [tier |-> p.tier, bvn |-> p.bvn, nin |-> p.nin, flaggedAt |-> p.version + 1,
   clearedAt |-> 0, version |-> p.version + 1]

FlagForSanctionsReview(p) ==
  IF IsSanctionsFlagOpen(p)
  THEN p
  ELSE [tier |-> p.tier, bvn |-> p.bvn, nin |-> p.nin, flaggedAt |-> p.version + 1,
        clearedAt |-> 0, version |-> p.version + 1]

ClearSanctionsFlag(p) ==
  [tier |-> p.tier, bvn |-> p.bvn, nin |-> p.nin, flaggedAt |-> p.flaggedAt,
   clearedAt |-> p.version + 1, version |-> p.version + 1]

Init ==
  /\ row = Absent
  /\ req = [r \in Requests |-> [pc |-> "idle", kind |-> "NONE", copy |-> Absent,
                                outcome |-> "NONE", to |-> 0, name |-> {}]]
  /\ audit = [r \in Requests |-> {}]
  /\ published = {}
  /\ faults = 0

-----------------------------------------------------------------------------
(***************************************************************************)
(* Names: the provider's match against the registered name, strict, and    *)
(* the screening against the list, permissive.                             *)
(***************************************************************************)
NamesMatch(record) ==
  record.first = Registered.first /\ record.last = Registered.last

FullName(record) == record.first \cup record.middle \cup record.last

\* The name a verification hands to the screening: the provider reports its
\* own only when it matches.
VerifiedFullName(record) ==
  IF NamesMatch(record) THEN FullName(record) ELSE Registered.first \cup Registered.last

NormalizeToTokens(name) == name \ Noise

Screen(name) ==
  /\ Cardinality(NormalizeToTokens(name)) >= 2
  /\ \E entry \in Watchlist : NormalizeToTokens(name) \subseteq NormalizeToTokens(entry)

-----------------------------------------------------------------------------
(***************************************************************************)
(* The repository: created at version 0, otherwise updated where the       *)
(* stored version is the one before the copy's.                            *)
(***************************************************************************)
MaySave(p) == p.version - 1 = row.version

At(r, pc) == req[r].pc = pc

Goto(r, pc) == req' = [req EXCEPT ![r].pc = pc]

Hold(r, pc, kind, copy, outcome, to, name) ==
  req' = [req EXCEPT ![r] = [pc |-> pc, kind |-> kind, copy |-> copy,
                             outcome |-> outcome, to |-> to, name |-> name]]

\* The request answers, and what it held is gone.
End(r, pc) == Hold(r, pc, "NONE", Absent, "NONE", 0, {})

\* UserRegisteredHandler; a failed save leaves the customer without a row.
HandleUserRegistered ==
  /\ MaySave(CreateDefault)
  /\ row' = CreateDefault
  /\ UNCHANGED <<req, audit, published, faults>>

Receive(r, kind) ==
  /\ At(r, "idle")
  /\ Hold(r, "load", kind, Absent, "NONE", 0, {})
  /\ UNCHANGED <<row, audit, published, faults>>

\* findByUserId; no profile is an error.
FindByUserId(r) ==
  /\ At(r, "load")
  /\ \/ row.version = -1 /\ End(r, "refused")
     \/ /\ row.version # -1
        /\ Hold(r, "provider", req[r].kind, row, "NONE", 0, {})
  /\ UNCHANGED <<row, audit, published, faults>>

-----------------------------------------------------------------------------
(***************************************************************************)
(* The five handlers, from the profile in hand to the save.                *)
(***************************************************************************)
Document(kind) == IF kind \in {"SUBMIT_BVN", "OVERRIDE_BVN"} THEN "BVN" ELSE "NIN"

AlreadyPassed(d, p) == IF d = "BVN" THEN p.bvn ELSE p.nin

Recorded(d, p) == IF d = "BVN" THEN RecordBvnVerified(p) ELSE RecordNinVerified(p)

\* The tier a KycTierUpgradedEvent carries, 0 when none is added.
UpgradeAfter(d, p) ==
  LET q == Recorded(d, p) IN IF Recorded(d, q).tier = q.tier THEN 0 ELSE Recorded(d, q).tier

Upgrade(d, p) == IF Recorded(d, p).tier = p.tier THEN 0 ELSE Recorded(d, p).tier

\* record...Verified on the copy in hand, which may throw.
Verified(r, d, record) ==
  LET p == req[r].copy
  IN  \/ AlreadyPassed(d, p) /\ End(r, "refused")
      \/ /\ ~AlreadyPassed(d, p)
         /\ Hold(r, "save", "NONE", Recorded(d, p), "PASSED", Upgrade(d, p),
                 VerifiedFullName(record))

\* A malformed number and a provider that errs or does not answer.
NoRecord(r) == End(r, "refused")

Mismatch(r) ==
  Hold(r, "save", "NONE", RecordVerificationFailed(req[r].copy), "FAILED", 0, {})

Submit(r, d) ==
  \/ NoRecord(r)
  \/ \E record \in Records : NamesMatch(record) /\ Verified(r, d, record)
  \/ \E record \in Records : ~NamesMatch(record) /\ Mismatch(r)

\* The override never reads whether the names match.
Override(r, d) == NoRecord(r) \/ \E record \in Records : Verified(r, d, record)

SubmitBvnVerification(r) ==
  /\ At(r, "provider") /\ req[r].kind = "SUBMIT_BVN"
  /\ Submit(r, "BVN")
  /\ UNCHANGED <<row, audit, published, faults>>

SubmitNinVerification(r) ==
  /\ At(r, "provider") /\ req[r].kind = "SUBMIT_NIN"
  /\ Submit(r, "NIN")
  /\ UNCHANGED <<row, audit, published, faults>>

ManuallyVerifyBvn(r) ==
  /\ At(r, "provider") /\ req[r].kind = "OVERRIDE_BVN"
  /\ Override(r, "BVN")
  /\ UNCHANGED <<row, audit, published, faults>>

ManuallyVerifyNin(r) ==
  /\ At(r, "provider") /\ req[r].kind = "OVERRIDE_NIN"
  /\ Override(r, "NIN")
  /\ UNCHANGED <<row, audit, published, faults>>

ClearFlag(r) ==
  /\ At(r, "provider") /\ req[r].kind = "CLEAR"
  /\ \/ ~IsSanctionsFlagOpen(req[r].copy) /\ End(r, "refused")
     \/ /\ IsSanctionsFlagOpen(req[r].copy)
        /\ Hold(r, "save", "NONE", ClearSanctionsFlag(req[r].copy), "CLEARED", 0, {})
  /\ UNCHANGED <<row, audit, published, faults>>

-----------------------------------------------------------------------------
(***************************************************************************)
(* Save, then the audit rows one by one, then the events, all awaited in   *)
(* that order; then the screening of the confirmed name.                   *)
(***************************************************************************)
AuditBeforeSave(r) ==
  /\ At(r, "save")
  /\ \/ ~MaySave(req[r].copy) /\ End(r, "conflict") /\ UNCHANGED row
     \/ MaySave(req[r].copy) /\ row' = req[r].copy /\ Goto(r, "audit")
  /\ audit' = [audit EXCEPT ![r] =
       @ \cup (IF req[r].to = 2 THEN {"TIER_2"} ELSE IF req[r].to = 3 THEN {"TIER_3"} ELSE {})]
  /\ UNCHANGED <<published, faults>>

Save(r) ==
  /\ At(r, "save")
  /\ \/ ~MaySave(req[r].copy) /\ End(r, "conflict") /\ UNCHANGED row
     \/ MaySave(req[r].copy) /\ row' = req[r].copy /\ Goto(r, "audit")
  /\ UNCHANGED <<audit, published, faults>>

Write(r, entry) == audit' = [audit EXCEPT ![r] = @ \cup {entry}]

\* recordVerificationAttempt, the override's own row, or the clearance row.
RecordAttempt(r) ==
  /\ At(r, "audit")
  /\ Write(r, req[r].outcome)
  /\ Goto(r, IF req[r].to = 0 THEN "publish" ELSE "auditTier")
  /\ UNCHANGED <<row, published, faults>>

TierRow(n) == IF n = 3 THEN "TIER_3" ELSE "TIER_2"

RecordTierChange(r) ==
  /\ At(r, "auditTier")
  /\ Write(r, TierRow(req[r].to))
  /\ Goto(r, "publish")
  /\ UNCHANGED <<row, published, faults>>

\* A failed match then throws, a cleared flag answers, a verification goes on.
Publish(r) ==
  /\ At(r, "publish")
  /\ published' = published \cup ({req[r].to} \ {0})
  /\ \/ /\ req[r].outcome = "PASSED"
        /\ Hold(r, "screen", "NONE", req[r].copy, "PASSED", 0, req[r].name)
     \/ req[r].outcome = "CLEARED" /\ End(r, "ok")
     \/ req[r].outcome = "FAILED" /\ End(r, "refused")
  /\ UNCHANGED <<row, audit, faults>>

\* screenAndFlag, on the copy the verification saved.
ScreenAndFlag(r) ==
  /\ At(r, "screen")
  /\ \/ ~Screen(req[r].name) /\ Hold(r, "auditClean", "NONE", Absent, "PASSED", 0, {})
     \/ /\ Screen(req[r].name)
        /\ Hold(r, "saveFlag", "NONE", FlagForSanctionsReview(req[r].copy), "PASSED", 0, {})
  /\ UNCHANGED <<row, audit, published, faults>>

SaveFlag(r) ==
  /\ At(r, "saveFlag")
  /\ \/ ~MaySave(req[r].copy) /\ End(r, "conflict") /\ UNCHANGED row
     \/ MaySave(req[r].copy) /\ row' = req[r].copy /\ Goto(r, "auditMatch")
  /\ UNCHANGED <<audit, published, faults>>

ForSanctionsScreening(r) ==
  /\ \/ At(r, "auditClean") /\ Write(r, "CLEAN")
     \/ At(r, "auditMatch") /\ Write(r, "MATCH")
  /\ End(r, "ok")
  /\ UNCHANGED <<row, published, faults>>

\* A crash or a database error ends the request where it stands.
Fail(r) ==
  /\ req[r].pc \notin {"idle", "ok", "refused", "conflict", "failed"}
  /\ faults < MaxFaults
  /\ faults' = faults + 1
  /\ End(r, "failed")
  /\ UNCHANGED <<row, audit, published>>

Step(r) ==
  \/ FindByUserId(r)
  \/ SubmitBvnVerification(r)
  \/ SubmitNinVerification(r)
  \/ ManuallyVerifyBvn(r)
  \/ ManuallyVerifyNin(r)
  \/ ClearFlag(r)
  \/ Save(r)
  \/ RecordAttempt(r)
  \/ RecordTierChange(r)
  \/ Publish(r)
  \/ ScreenAndFlag(r)
  \/ SaveFlag(r)
  \/ ForSanctionsScreening(r)

Next ==
  \/ HandleUserRegistered
  \/ \E r \in Requests, kind \in Kinds : Receive(r, kind)
  \/ \E r \in Requests : Step(r) \/ Fail(r)

Spec == Init /\ [][Next]_vars

\* Nothing but a crash stops a handler between two awaits: the provider call
\* has a timeout, and the database answers or errs.
FairSpec == Spec /\ \A r \in Requests : WF_vars(Step(r))

-----------------------------------------------------------------------------
(***************************************************************************)
(* Properties.                                                             *)
(***************************************************************************)
Ladder == INSTANCE KycLadder WITH
  verified <- {d \in {"BVN", "NIN"} : AlreadyPassed(d, row)},
  tier <- row.tier

\* However requests interleave, wait and fail, the stored profile only ever
\* climbs the ladder: no save writes back a copy that lacks a verification
\* stored meanwhile, and no rung is gained twice or unearned (save,
\* recordBvnVerified, recordNinVerified).
Climbs == Ladder!Spec

\* The audit log never tells of a tier that was not stored, tells of each at
\* most once, and has told of it before other modules hear of it (the order
\* save, recordDomainEvents, publish in the verification handlers).
TrailIsTrue ==
  \A n \in {2, 3} :
    /\ \A r, s \in Requests :
         TierRow(n) \in audit[r] /\ TierRow(n) \in audit[s] => r = s
    /\ (\E r \in Requests : TierRow(n) \in audit[r]) => row.tier >= n
    /\ n \in published => \E r \in Requests : TierRow(n) \in audit[r]

\* An open sanctions case is closed only by a clear command that has loaded
\* this very case, never by a verification holding an older copy, and no
\* second case is opened over it (flagForSanctionsReview, clearSanctionsFlag).
OneCaseAtATime ==
  [][/\ IsSanctionsFlagOpen(row) /\ ~IsSanctionsFlagOpen(row)' =>
          \E r \in Requests : /\ At(r, "save") /\ req[r].outcome = "CLEARED"
                              /\ req[r].copy.flaggedAt = row.flaggedAt
     /\ IsSanctionsFlagOpen(row) => row'.flaggedAt = row.flaggedAt]_vars

\* A tier once stored is announced to the accounts module, unless a crash or a
\* database error falls between the save and the publish of the handler.
TierIsAnnounced ==
  \A n \in {2, 3} : row.tier = n /\ faults = 0 ~> n \in published \/ faults > 0
=============================================================================
