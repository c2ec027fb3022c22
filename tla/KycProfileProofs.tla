--------------------------- MODULE KycProfileProofs --------------------------
(***************************************************************************)
(* Proofs about KycProfile, for any set of requests, names, records and    *)
(* list and any number of faults.  The inductive invariant says what a     *)
(* request may know: a copy in hand is older than the row or equal to it,  *)
(* and a copy about to be saved is the right method applied to the row     *)
(* unless the version test will refuse it.                                 *)
(***************************************************************************)
EXTENDS KycProfile, TLAPS

\* A loaded copy p of the row w.
Fresh(p, w) == p.version <= w.version /\ (p.version = w.version => p = w)

\* What request x may store over w: one method of the aggregate.
Applied(x, w) ==
  \/ /\ x.outcome = "PASSED"
     /\ \E d \in {"BVN", "NIN"} :
          ~AlreadyPassed(d, w) /\ x.copy = Recorded(d, w) /\ x.to = Upgrade(d, w)
  \/ x.outcome = "FAILED" /\ x.copy = RecordVerificationFailed(w) /\ x.to = 0
  \/ /\ x.outcome = "CLEARED" /\ IsSanctionsFlagOpen(w)
     /\ x.copy = ClearSanctionsFlag(w) /\ x.to = 0

Held(x, w) ==
  /\ x.pc = "provider" => x.copy.version >= 0 /\ Fresh(x.copy, w)
  /\ x.pc = "save" =>
       /\ x.outcome # "NONE"
       /\ 0 <= x.copy.version - 1 /\ x.copy.version - 1 <= w.version
       /\ x.copy.version - 1 = w.version => Applied(x, w)
  /\ x.pc \in {"audit", "auditTier", "publish", "screen"} =>
       x.outcome # "NONE" /\ Fresh(x.copy, w)
  /\ x.pc = "auditTier" => x.to # 0
  /\ x.pc = "saveFlag" =>
       /\ x.copy.version - 1 <= w.version
       /\ x.copy.version - 1 = w.version =>
            ~IsSanctionsFlagOpen(w) /\ x.copy = FlagForSanctionsReview(w)

\* The tier is the one the stored verifications earn.
Earned(w) ==
  /\ ~w.bvn => w.tier = 1
  /\ w.bvn /\ ~w.nin => w.tier = 2
  /\ w.bvn => w.tier \in {2, 3}
  /\ w.version = -1 => w = Absent

\* Request x, with audit rows a, has stored tier n and tells of it.
Claims(x, a, n) ==
  TierRow(n) \in a \/ (x.pc \in {"audit", "auditTier"} /\ x.to = n)

Trail ==
  \A n \in {2, 3} :
    /\ \A r \in Requests : Claims(req[r], audit[r], n) => row.tier >= n
    /\ \A r, s \in Requests :
         Claims(req[r], audit[r], n) /\ Claims(req[s], audit[s], n) => r = s
    /\ \A r \in Requests : req[r].pc = "publish" /\ req[r].to = n => TierRow(n) \in audit[r]
    /\ n \in published => \E r \in Requests : TierRow(n) \in audit[r]

IInv ==
  /\ TypeOK
  /\ Earned(row)
  /\ \A r \in Requests : Held(req[r], row)
  /\ Trail

\* What a step may do to the row v.
RowStep(v, w) ==
  \/ w = v
  \/ v = Absent /\ w = CreateDefault
  \/ \E d \in {"BVN", "NIN"} : ~AlreadyPassed(d, v) /\ w = Recorded(d, v)
  \/ w = RecordVerificationFailed(v)
  \/ IsSanctionsFlagOpen(v) /\ w = ClearSanctionsFlag(v)
  \/ ~IsSanctionsFlagOpen(v) /\ w = FlagForSanctionsReview(v)

-----------------------------------------------------------------------------
\* Every method of the aggregate returns a profile, one version later.
LEMMA MethodTypes ==
  ASSUME NEW p \in Profile
  PROVE  /\ Absent \in Profile /\ CreateDefault \in Profile
         /\ RecordBvnVerified(p) \in Profile
         /\ RecordNinVerified(p) \in Profile
         /\ RecordVerificationFailed(p) \in Profile
         /\ ClearSanctionsFlag(p) \in Profile
         /\ FlagForSanctionsReview(p) \in Profile
         /\ \A d : Recorded(d, p) \in Profile
         /\ \A d : Recorded(d, p).version = p.version + 1
         /\ \A d : Upgrade(d, p) \in {0, 2, 3}
<1>1. p.tier \in 1..3 /\ p.bvn \in BOOLEAN /\ p.nin \in BOOLEAN /\ p.flaggedAt \in Nat
      /\ p.clearedAt \in Nat /\ p.version \in Nat \cup {-1}
  BY DEF Profile
<1>2. p.version + 1 \in Nat
  BY <1>1
<1>3. Absent \in Profile /\ CreateDefault \in Profile
  BY DEF Absent, CreateDefault, Profile
<1>4. RecordBvnVerified(p) \in Profile
  BY <1>1, <1>2 DEF RecordBvnVerified, Profile
<1>5. RecordNinVerified(p) \in Profile
  BY <1>1, <1>2 DEF RecordNinVerified, Profile
<1>6. RecordVerificationFailed(p) \in Profile
  BY <1>1, <1>2 DEF RecordVerificationFailed, Profile
<1>7. ClearSanctionsFlag(p) \in Profile
  BY <1>1, <1>2 DEF ClearSanctionsFlag, Profile
<1>8. FlagForSanctionsReview(p) \in Profile
  BY <1>1, <1>2 DEF FlagForSanctionsReview, Profile
<1>9. \A d : Recorded(d, p) \in Profile
  BY <1>4, <1>5 DEF Recorded
<1>10. \A d : Recorded(d, p).version = p.version + 1
  BY DEF Recorded, RecordBvnVerified, RecordNinVerified
<1>11. \A d : Upgrade(d, p) \in {0, 2, 3}
  BY <1>1 DEF Upgrade, Recorded, RecordBvnVerified, RecordNinVerified
<1> QED
  BY <1>3, <1>4, <1>5, <1>6, <1>7, <1>8, <1>9, <1>10, <1>11

\* The tier never falls, and the row's version moves with every change.
LEMMA RowMoves ==
  ASSUME NEW v \in Profile, NEW w, RowStep(v, w), Earned(v)
  PROVE  /\ w \in Profile
         /\ w = v \/ w.version = v.version + 1
         /\ w.tier >= v.tier
         /\ Earned(w)
<1>1. v.tier \in 1..3 /\ v.bvn \in BOOLEAN /\ v.nin \in BOOLEAN /\ v.flaggedAt \in Nat
      /\ v.clearedAt \in Nat /\ v.version \in Nat \cup {-1}
  BY DEF Profile
<1>2. CASE w = v
  BY <1>1, <1>2
<1>3. CASE v = Absent /\ w = CreateDefault
  BY <1>3, MethodTypes DEF Absent, CreateDefault, Earned
<1>4. ASSUME NEW d \in {"BVN", "NIN"}, ~AlreadyPassed(d, v), w = Recorded(d, v)
      PROVE  /\ w \in Profile /\ w.version = v.version + 1 /\ w.tier >= v.tier /\ Earned(w)
  <2>1. w \in Profile /\ w.version = v.version + 1
    BY <1>4, MethodTypes
  <2>2. w.version # -1
    BY <2>1, <1>1
  <2>3. CASE d = "BVN"
    <3>1. w.tier = (IF v.tier = 1 THEN 2 ELSE v.tier) /\ w.bvn = TRUE /\ w.nin = v.nin /\ v.bvn = FALSE
      BY <1>4, <1>1, <2>3 DEF Recorded, RecordBvnVerified, AlreadyPassed
    <3> QED
      BY <1>1, <2>1, <2>2, <3>1 DEF Earned
  <2>4. CASE d = "NIN"
    <3>1. w.tier = (IF v.tier = 2 /\ v.bvn THEN 3 ELSE v.tier) /\ w.bvn = v.bvn /\ w.nin = TRUE /\ v.nin = FALSE
      BY <1>4, <1>1, <2>4 DEF Recorded, RecordNinVerified, AlreadyPassed
    <3> QED
      BY <1>1, <2>1, <2>2, <3>1 DEF Earned
  <2> QED
    BY <1>4, <2>3, <2>4
<1>5. ASSUME w.tier = v.tier, w.bvn = v.bvn, w.nin = v.nin, w.version = v.version + 1
      PROVE  w.tier >= v.tier /\ Earned(w)
  BY <1>1, <1>5 DEF Earned
<1>6. CASE w = RecordVerificationFailed(v)
  <2>1. w.tier = v.tier /\ w.bvn = v.bvn /\ w.nin = v.nin /\ w.version = v.version + 1
    BY <1>6 DEF RecordVerificationFailed
  <2> QED
    BY <1>5, <1>6, <2>1, MethodTypes
<1>7. CASE w = ClearSanctionsFlag(v)
  <2>1. w.tier = v.tier /\ w.bvn = v.bvn /\ w.nin = v.nin /\ w.version = v.version + 1
    BY <1>7 DEF ClearSanctionsFlag
  <2> QED
    BY <1>5, <1>7, <2>1, MethodTypes
<1>8. CASE ~IsSanctionsFlagOpen(v) /\ w = FlagForSanctionsReview(v)
  <2>1. w.tier = v.tier /\ w.bvn = v.bvn /\ w.nin = v.nin /\ w.version = v.version + 1
    BY <1>8 DEF FlagForSanctionsReview
  <2> QED
    BY <1>5, <1>8, <2>1, MethodTypes
<1> QED
  BY <1>2, <1>3, <1>4, <1>6, <1>7, <1>8 DEF RowStep

\* What a request holds stays as good as it was when the row moves on.
LEMMA StillHeld ==
  ASSUME NEW v \in Profile, NEW w \in Profile, NEW x \in Request,
         w = v \/ w.version = v.version + 1, Held(x, v)
  PROVE  Held(x, w)
<1>1. v.version \in Int /\ x.copy.version \in Int
  BY DEF Request, Profile
<1>2. CASE w = v
  BY <1>2
<1>3. CASE w.version = v.version + 1
  <2>1. \A k \in Int : k <= v.version => k <= w.version /\ k # w.version
    BY <1>1, <1>3
  <2>2. x.copy.version - 1 \in Int
    BY <1>1
  <2>3. x.pc = "provider" => x.copy.version >= 0 /\ Fresh(x.copy, w)
    BY <1>1, <2>1 DEF Held, Fresh
  <2>4. x.pc \in {"audit", "auditTier", "publish", "screen"} => x.outcome # "NONE" /\ Fresh(x.copy, w)
    BY <1>1, <2>1 DEF Held, Fresh
  <2>5. x.pc \in {"save", "saveFlag"} =>
           x.copy.version - 1 <= w.version /\ x.copy.version - 1 # w.version
    BY <2>1, <2>2 DEF Held
  <2> QED
    BY <2>3, <2>4, <2>5 DEF Held
<1> QED
  BY <1>2, <1>3

-----------------------------------------------------------------------------
\* A step of r that stores x in memory, a in its audit rows and moves the row
\* keeps the invariant when x fits the new row and claims no tier twice.
LEMMA OneMoves ==
  ASSUME IInv, NEW r \in Requests, NEW x \in Request, NEW a \in SUBSET AuditRows,
         req' = [req EXCEPT ![r] = x],
         audit' = [audit EXCEPT ![r] = a], audit[r] \subseteq a,
         RowStep(row, row'), Held(x, row'),
         published' \subseteq {2, 3}, published \subseteq published', faults' \in Nat,
         \A n \in {2, 3} : Claims(x, a, n) =>
           Claims(req[r], audit[r], n) \/ (row.tier < n /\ row'.tier >= n),
         \A n \in {2, 3} : x.pc = "publish" /\ x.to = n => TierRow(n) \in a,
         \A n \in published' : n \in published \/ TierRow(n) \in a
  PROVE  IInv'
<1>1. row \in Profile /\ req \in [Requests -> Request]
      /\ audit \in [Requests -> SUBSET AuditRows] /\ Earned(row)
  BY DEF IInv, TypeOK
<1>2. /\ row' \in Profile /\ (row' = row \/ row'.version = row.version + 1)
      /\ row'.tier >= row.tier /\ Earned(row')
  BY <1>1, RowMoves
<1>3. req'[r] = x /\ audit'[r] = a
      /\ \A s \in Requests : s # r => req'[s] = req[s] /\ audit'[s] = audit[s]
  BY <1>1
<1>4. TypeOK'
  BY <1>1, <1>2 DEF TypeOK
<1>5. ASSUME NEW s \in Requests
      PROVE  Held(req'[s], row')
  <2>1. CASE s = r
    BY <1>3, <2>1
  <2>2. CASE s # r
    <3>1. req[s] \in Request /\ Held(req[s], row)
      BY <1>1 DEF IInv
    <3> QED
      BY <1>1, <1>2, <1>3, <2>2, <3>1, StillHeld
  <2> QED
    BY <2>1, <2>2
<1>6. row.tier \in Int /\ row'.tier \in Int
  BY <1>1, <1>2 DEF Profile
<1>7. ASSUME NEW n \in {2, 3}
      PROVE  /\ \A s \in Requests : Claims(req'[s], audit'[s], n) => row'.tier >= n
             /\ \A s, t \in Requests :
                  Claims(req'[s], audit'[s], n) /\ Claims(req'[t], audit'[t], n) => s = t
             /\ \A s \in Requests :
                  req'[s].pc = "publish" /\ req'[s].to = n => TierRow(n) \in audit'[s]
             /\ n \in published' => \E s \in Requests : TierRow(n) \in audit'[s]
  <2>1. /\ \A s \in Requests : Claims(req[s], audit[s], n) => row.tier >= n
        /\ \A s, t \in Requests :
             Claims(req[s], audit[s], n) /\ Claims(req[t], audit[t], n) => s = t
        /\ \A s \in Requests : req[s].pc = "publish" /\ req[s].to = n => TierRow(n) \in audit[s]
        /\ n \in published => \E s \in Requests : TierRow(n) \in audit[s]
    BY DEF IInv, Trail
  <2>2. \A s \in Requests : s # r /\ Claims(req'[s], audit'[s], n) =>
                              Claims(req[s], audit[s], n)
    BY <1>3
  <2>3. Claims(req'[r], audit'[r], n) =>
          Claims(req[r], audit[r], n) \/ (row.tier < n /\ row'.tier >= n)
    BY <1>3
  <2>4. n \in Int
    OBVIOUS
  <2>5. \A s \in Requests : Claims(req[s], audit[s], n) => row'.tier >= n /\ ~(row.tier < n)
    BY <1>2, <1>6, <2>1, <2>4
  <2>6. \A s \in Requests : Claims(req'[s], audit'[s], n) => row'.tier >= n
    BY <2>2, <2>3, <2>5
  <2>7. \A s, t \in Requests :
           Claims(req'[s], audit'[s], n) /\ Claims(req'[t], audit'[t], n) => s = t
    BY <2>1, <2>2, <2>3, <2>5
  <2>8. \A s \in Requests : req'[s].pc = "publish" /\ req'[s].to = n => TierRow(n) \in audit'[s]
    BY <1>3, <2>1
  <2>9. n \in published' => \E s \in Requests : TierRow(n) \in audit'[s]
    BY <1>3, <2>1
  <2> QED
    BY <2>6, <2>7, <2>8, <2>9
<1>8. Trail'
  BY <1>7 DEF Trail
<1> QED
  BY <1>2, <1>4, <1>5, <1>8 DEF IInv

\* Goto changes the step and nothing else.
LEMMA GotoIs ==
  ASSUME TypeOK, NEW r \in Requests, NEW pc \in Steps, Goto(r, pc)
  PROVE  \E x \in Request :
           /\ req' = [req EXCEPT ![r] = x]
           /\ x.pc = pc /\ x.kind = req[r].kind /\ x.copy = req[r].copy
           /\ x.outcome = req[r].outcome /\ x.to = req[r].to /\ x.name = req[r].name
<1> DEFINE x == [pc |-> pc, kind |-> req[r].kind, copy |-> req[r].copy,
                 outcome |-> req[r].outcome, to |-> req[r].to, name |-> req[r].name]
<1>1. req[r] \in Request /\ req \in [Requests -> Request]
  BY DEF TypeOK
<1>2. x \in Request
  BY <1>1 DEF Request
<1>3. [req[r] EXCEPT !.pc = pc] = x
  BY <1>1 DEF Request
<1>4. req' = [req EXCEPT ![r] = x]
  BY <1>1, <1>3 DEF Goto
<1> QED
  BY <1>2, <1>4

\* A request that ends claims no more than its rows say.
LEMMA EndIs ==
  ASSUME IInv, NEW r \in Requests, NEW pc \in {"ok", "refused", "conflict", "failed"},
         End(r, pc), audit' = audit, row' = row, published' = published, faults' \in Nat
  PROVE  IInv'
<1>1. TypeOK /\ row \in Profile /\ audit[r] \in SUBSET AuditRows
      /\ audit \in [Requests -> SUBSET AuditRows]
  BY DEF IInv, TypeOK
<1>2. [pc |-> pc, kind |-> "NONE", copy |-> Absent, outcome |-> "NONE",
       to |-> 0, name |-> {}] \in Request
  BY <1>1, MethodTypes DEF Request, Steps
<1>3. PICK x \in Request :
        x = [pc |-> pc, kind |-> "NONE", copy |-> Absent, outcome |-> "NONE",
             to |-> 0, name |-> {}]
  BY <1>2
<1>4. PICK a \in SUBSET AuditRows : a = audit[r]
  BY <1>1
<1>5. req' = [req EXCEPT ![r] = x] /\ audit' = [audit EXCEPT ![r] = a]
  BY <1>1, <1>3, <1>4 DEF End, Hold
<1>6. x.pc = pc /\ x.to = 0
  BY <1>3
<1>7. Held(x, row')
  BY <1>6 DEF Held
<1>8. \A n \in {2, 3} : Claims(x, a, n) =>
        Claims(req[r], audit[r], n) \/ (row.tier < n /\ row'.tier >= n)
  BY <1>4, <1>6 DEF Claims
<1>9. \A n \in {2, 3} : x.pc = "publish" /\ x.to = n => TierRow(n) \in a
  BY <1>6
<1>10. RowStep(row, row') /\ published' \subseteq {2, 3}
  BY <1>1 DEF RowStep, TypeOK
<1>11. audit[r] \subseteq a /\ published \subseteq published'
       /\ \A n \in published' : n \in published \/ TierRow(n) \in a
  BY <1>4
<1> QED
  BY <1>5, <1>7, <1>8, <1>9, <1>10, <1>11, OneMoves

\* A step in memory only: what it holds afterwards must fit the row.
LEMMA Quiet ==
  ASSUME IInv, NEW r \in Requests, NEW x \in Request, req' = [req EXCEPT ![r] = x],
         x.pc \notin {"audit", "auditTier", "publish"}, Held(x, row),
         audit' = audit, row' = row, published' = published, faults' = faults
  PROVE  IInv'
<1>1. TypeOK /\ row \in Profile /\ audit[r] \in SUBSET AuditRows
      /\ audit \in [Requests -> SUBSET AuditRows]
  BY DEF IInv, TypeOK
<1>2. PICK a \in SUBSET AuditRows : a = audit[r]
  BY <1>1
<1>3. audit' = [audit EXCEPT ![r] = a]
  BY <1>1, <1>2
<1>4. Held(x, row')
  OBVIOUS
<1>5. \A n \in {2, 3} : Claims(x, a, n) =>
        Claims(req[r], audit[r], n) \/ (row.tier < n /\ row'.tier >= n)
  BY <1>2 DEF Claims
<1>6. \A n \in {2, 3} : x.pc = "publish" /\ x.to = n => TierRow(n) \in a
  OBVIOUS
<1>7. RowStep(row, row') /\ published' \subseteq {2, 3} /\ faults' \in Nat
  BY <1>1 DEF RowStep, TypeOK
<1>8. audit[r] \subseteq a /\ published \subseteq published'
      /\ \A n \in published' : n \in published \/ TierRow(n) \in a
  BY <1>2
<1> QED
  BY <1>3, <1>4, <1>5, <1>6, <1>7, <1>8, OneMoves

\* What a request may hold on its way to the save, as a record.
LEMMA HoldIs ==
  ASSUME NEW r \in Requests, NEW pc \in Steps, NEW kind \in Kinds \cup {"NONE"},
         NEW copy \in Profile, NEW outcome \in {"NONE", "PASSED", "FAILED", "CLEARED"},
         NEW to \in {0, 2, 3}, NEW name \in SUBSET Tokens,
         Hold(r, pc, kind, copy, outcome, to, name)
  PROVE  \E x \in Request :
           /\ req' = [req EXCEPT ![r] = x]
           /\ x.pc = pc /\ x.kind = kind /\ x.copy = copy /\ x.outcome = outcome
           /\ x.to = to /\ x.name = name
<1>1. [pc |-> pc, kind |-> kind, copy |-> copy, outcome |-> outcome, to |-> to,
       name |-> name] \in Request
  BY DEF Request
<1> QED
  BY <1>1 DEF Hold

LEMMA ReceiveStep ==
  ASSUME IInv, NEW r \in Requests, NEW kind \in Kinds, Receive(r, kind)
  PROVE  IInv'
<1>1. Absent \in Profile
  BY MethodTypes DEF IInv, TypeOK
<1>2. PICK x \in Request : req' = [req EXCEPT ![r] = x] /\ x.pc = "load"
  BY <1>1, HoldIs DEF Receive, Steps
<1>3. Held(x, row)
  BY <1>2 DEF Held
<1> QED
  BY <1>2, <1>3, Quiet DEF Receive

LEMMA FindStep ==
  ASSUME IInv, NEW r \in Requests, FindByUserId(r)
  PROVE  IInv'
<1>1. row \in Profile /\ req[r].kind \in Kinds \cup {"NONE"} /\ faults \in Nat
  BY DEF IInv, TypeOK, Request
<1>2. CASE End(r, "refused")
  BY <1>1, <1>2, EndIs DEF FindByUserId
<1>3. CASE row.version # -1 /\ Hold(r, "provider", req[r].kind, row, "NONE", 0, {})
  <2>1. PICK x \in Request : req' = [req EXCEPT ![r] = x] /\ x.pc = "provider" /\ x.copy = row
    BY <1>1, <1>3, HoldIs DEF Steps
  <2>2. row.version >= 0
    BY <1>1, <1>3 DEF Profile
  <2>3. Held(x, row)
    BY <1>1, <2>1, <2>2 DEF Held, Fresh, Profile
  <2> QED
    BY <2>1, <2>3, Quiet DEF FindByUserId
<1> QED
  BY <1>2, <1>3 DEF FindByUserId

\* The request holds a copy of the row, and a step of it may find it passed.
LEMMA VerifiedStep ==
  ASSUME IInv, NEW r \in Requests, NEW d \in {"BVN", "NIN"}, NEW record \in Records,
         At(r, "provider"), Verified(r, d, record),
         UNCHANGED <<row, audit, published, faults>>
  PROVE  IInv'
<1>1. row \in Profile /\ req[r] \in Request /\ req[r].copy \in Profile /\ faults \in Nat
  BY DEF IInv, TypeOK, Request
<1>2. CASE End(r, "refused")
  BY <1>1, <1>2, EndIs
<1>3. ASSUME ~AlreadyPassed(d, req[r].copy),
             Hold(r, "save", "NONE", Recorded(d, req[r].copy), "PASSED",
                  Upgrade(d, req[r].copy), VerifiedFullName(record))
      PROVE  IInv'
  <2>1. VerifiedFullName(record) \in SUBSET Tokens
    BY RecordsAssumption, RegisteredAssumption DEF VerifiedFullName, FullName
  <2>2. PICK p \in Profile : p = req[r].copy
    BY <1>1
  <2>3. Recorded(d, p) \in Profile /\ Recorded(d, p).version = p.version + 1
        /\ Upgrade(d, p) \in {0, 2, 3}
    BY MethodTypes
  <2>4. PICK x \in Request : /\ req' = [req EXCEPT ![r] = x] /\ x.pc = "save"
                             /\ x.copy = Recorded(d, p) /\ x.outcome = "PASSED"
                             /\ x.to = Upgrade(d, p)
    BY <1>3, <2>1, <2>2, <2>3, HoldIs DEF Steps
  <2>5. p.version >= 0 /\ Fresh(p, row) /\ p.version \in Int
    BY <2>2 DEF IInv, Held, At, Profile
  <2>6. x.copy.version - 1 = p.version
    BY <2>3, <2>4, <2>5
  <2>7. p = row => Applied(x, row)
    BY <1>3, <2>2, <2>4 DEF Applied
  <2>8. Held(x, row)
    BY <2>4, <2>5, <2>6, <2>7 DEF Held, Fresh
  <2> QED
    BY <2>4, <2>8, Quiet
<1> QED
  BY <1>2, <1>3 DEF Verified

LEMMA MismatchStep ==
  ASSUME IInv, NEW r \in Requests, At(r, "provider"), Mismatch(r),
         UNCHANGED <<row, audit, published, faults>>
  PROVE  IInv'
<1>1. row \in Profile /\ req[r] \in Request /\ req[r].copy \in Profile
  BY DEF IInv, TypeOK, Request
<1>2. PICK p \in Profile : p = req[r].copy
  BY <1>1
<1>3. RecordVerificationFailed(p) \in Profile /\ RecordVerificationFailed(p).version = p.version + 1
  BY MethodTypes DEF RecordVerificationFailed
<1>4. PICK x \in Request : /\ req' = [req EXCEPT ![r] = x] /\ x.pc = "save"
                           /\ x.copy = RecordVerificationFailed(p)
                           /\ x.outcome = "FAILED" /\ x.to = 0
  BY <1>2, <1>3, HoldIs DEF Steps, Mismatch
<1>5. p.version >= 0 /\ Fresh(p, row) /\ p.version \in Int
  BY <1>2 DEF IInv, Held, At, Profile
<1>6. x.copy.version - 1 = p.version
  BY <1>3, <1>4, <1>5
<1>7. p = row => Applied(x, row)
  BY <1>4 DEF Applied
<1>8. Held(x, row)
  BY <1>4, <1>5, <1>6, <1>7 DEF Held, Fresh
<1> QED
  BY <1>4, <1>8, Quiet

LEMMA ClearStep ==
  ASSUME IInv, NEW r \in Requests, ClearFlag(r)
  PROVE  IInv'
<1>1. row \in Profile /\ req[r] \in Request /\ req[r].copy \in Profile /\ faults \in Nat
  BY DEF IInv, TypeOK, Request
<1>2. CASE End(r, "refused")
  BY <1>1, <1>2, EndIs DEF ClearFlag
<1>3. ASSUME IsSanctionsFlagOpen(req[r].copy),
             Hold(r, "save", "NONE", ClearSanctionsFlag(req[r].copy), "CLEARED", 0, {})
      PROVE  IInv'
  <2>1. PICK p \in Profile : p = req[r].copy
    BY <1>1
  <2>2. ClearSanctionsFlag(p) \in Profile /\ ClearSanctionsFlag(p).version = p.version + 1
    BY MethodTypes DEF ClearSanctionsFlag
  <2>3. PICK x \in Request : /\ req' = [req EXCEPT ![r] = x] /\ x.pc = "save"
                             /\ x.copy = ClearSanctionsFlag(p)
                             /\ x.outcome = "CLEARED" /\ x.to = 0
    BY <1>3, <2>1, <2>2, HoldIs DEF Steps
  <2>4. p.version >= 0 /\ Fresh(p, row) /\ p.version \in Int
    BY <2>1 DEF IInv, Held, At, Profile, ClearFlag
  <2>5. x.copy.version - 1 = p.version
    BY <2>2, <2>3, <2>4
  <2>6. p = row => Applied(x, row)
    BY <1>3, <2>1, <2>3 DEF Applied
  <2>7. Held(x, row)
    BY <2>3, <2>4, <2>5, <2>6 DEF Held, Fresh
  <2> QED
    BY <2>3, <2>7, Quiet DEF ClearFlag
<1> QED
  BY <1>2, <1>3 DEF ClearFlag

\* The version test makes a stale save fail; a save that passes applies one
\* method to the stored row, and the tier it claims was not stored before.
LEMMA SaveStep ==
  ASSUME IInv, NEW r \in Requests, Save(r)
  PROVE  IInv' /\ RowStep(row, row')
<1>1. TypeOK /\ row \in Profile /\ req[r] \in Request /\ faults \in Nat
      /\ audit \in [Requests -> SUBSET AuditRows] /\ Earned(row)
  BY DEF IInv, TypeOK
<1>2. CASE End(r, "conflict") /\ row' = row
  BY <1>1, <1>2, EndIs DEF Save, RowStep
<1>3. ASSUME MaySave(req[r].copy), row' = req[r].copy, Goto(r, "audit")
      PROVE  IInv' /\ RowStep(row, row')
  <2>1. PICK x \in Request :
          /\ req' = [req EXCEPT ![r] = x]
          /\ x.pc = "audit" /\ x.copy = req[r].copy
          /\ x.outcome = req[r].outcome /\ x.to = req[r].to
    BY <1>1, <1>3, GotoIs DEF Steps
  <2>2. PICK a \in SUBSET AuditRows : a = audit[r]
    BY <1>1
  <2>3. x.outcome # "NONE" /\ Applied(req[r], row)
    BY <1>3, <2>1 DEF IInv, Held, Save, At, MaySave
  <2>4. Applied(x, row)
    BY <2>1, <2>3 DEF Applied
  <2>5. row' = x.copy
    BY <1>3, <2>1
  <2>6. RowStep(row, row')
    BY <2>4, <2>5 DEF Applied, RowStep
  <2>7. row' \in Profile /\ row'.version \in Int
    BY <1>1, <2>6, RowMoves DEF Profile
  <2>8. Held(x, row')
    BY <2>1, <2>3, <2>5, <2>7 DEF Held, Fresh
  <2>9. x.to = 0 \/ (row.tier < x.to /\ row'.tier >= x.to)
    <3>1. CASE x.to = 0
      BY <3>1
    <3>2. CASE x.to # 0
      <4>1. PICK d \in {"BVN", "NIN"} : row' = Recorded(d, row) /\ x.to = Upgrade(d, row)
                                        /\ ~AlreadyPassed(d, row)
        BY <2>4, <2>5, <3>2 DEF Applied
      <4>2. row'.tier = x.to /\ row'.tier # row.tier
        BY <3>2, <4>1 DEF Upgrade
      <4>3. row'.tier >= row.tier /\ row'.tier \in Int /\ row.tier \in Int
        BY <1>1, <2>6, RowMoves DEF Profile
      <4> QED
        BY <4>2, <4>3
    <3> QED
      BY <3>1, <3>2
  <2>10. \A n \in {2, 3} : Claims(x, a, n) =>
           Claims(req[r], audit[r], n) \/ (row.tier < n /\ row'.tier >= n)
    BY <2>1, <2>2, <2>9 DEF Claims
  <2>11. \A n \in {2, 3} : x.pc = "publish" /\ x.to = n => TierRow(n) \in a
    BY <2>1
  <2>12. audit[r] \subseteq a /\ published \subseteq published'
         /\ audit' = [audit EXCEPT ![r] = a]
         /\ \A n \in published' : n \in published \/ TierRow(n) \in a
    BY <1>1, <2>2 DEF Save
  <2>13. published' \subseteq {2, 3} /\ faults' \in Nat
    BY <1>1 DEF Save, TypeOK
  <2>14. IInv'
    BY <2>1, <2>6, <2>8, <2>10, <2>11, <2>12, <2>13, OneMoves
  <2> QED
    BY <2>6, <2>14
<1> QED
  BY <1>2, <1>3 DEF Save

LEMMA AttemptStep ==
  ASSUME IInv, NEW r \in Requests, RecordAttempt(r)
  PROVE  IInv'
<1>1. TypeOK /\ row \in Profile /\ req[r] \in Request /\ faults \in Nat
      /\ audit \in [Requests -> SUBSET AuditRows]
  BY DEF IInv, TypeOK
<1>2. PICK x \in Request :
        /\ req' = [req EXCEPT ![r] = x]
        /\ x.pc = (IF req[r].to = 0 THEN "publish" ELSE "auditTier")
        /\ x.copy = req[r].copy /\ x.outcome = req[r].outcome /\ x.to = req[r].to
  BY <1>1, GotoIs DEF Steps, RecordAttempt
<1>3. req[r].outcome # "NONE" /\ Fresh(req[r].copy, row)
  BY DEF IInv, Held, RecordAttempt, At
<1>4. req[r].outcome \in {"PASSED", "FAILED", "CLEARED"}
  BY <1>1, <1>3 DEF Request
<1>5. PICK a \in SUBSET AuditRows : a = audit[r] \cup {req[r].outcome}
  BY <1>1, <1>4 DEF AuditRows
<1>6. audit' = [audit EXCEPT ![r] = a] /\ audit[r] \subseteq a
  BY <1>5 DEF RecordAttempt, Write
<1>7. Held(x, row')
  BY <1>2, <1>3 DEF Held, RecordAttempt
<1>8. \A n \in {2, 3} : Claims(x, a, n) =>
        Claims(req[r], audit[r], n) \/ (row.tier < n /\ row'.tier >= n)
  BY <1>2, <1>4, <1>5 DEF Claims, TierRow, RecordAttempt, At
<1>9. \A n \in {2, 3} : x.pc = "publish" /\ x.to = n => TierRow(n) \in a
  BY <1>2
<1>10. RowStep(row, row') /\ published' \subseteq {2, 3} /\ faults' \in Nat
       /\ published \subseteq published'
       /\ \A n \in published' : n \in published \/ TierRow(n) \in a
  BY <1>1 DEF RowStep, TypeOK, RecordAttempt
<1> QED
  BY <1>2, <1>6, <1>7, <1>8, <1>9, <1>10, OneMoves

LEMMA TierChangeStep ==
  ASSUME IInv, NEW r \in Requests, RecordTierChange(r)
  PROVE  IInv'
<1>1. TypeOK /\ row \in Profile /\ req[r] \in Request /\ faults \in Nat
      /\ audit \in [Requests -> SUBSET AuditRows]
  BY DEF IInv, TypeOK
<1>2. PICK x \in Request :
        /\ req' = [req EXCEPT ![r] = x]
        /\ x.pc = "publish"
        /\ x.copy = req[r].copy /\ x.outcome = req[r].outcome /\ x.to = req[r].to
  BY <1>1, GotoIs DEF Steps, RecordTierChange
<1>3. req[r].outcome # "NONE" /\ Fresh(req[r].copy, row) /\ req[r].to # 0
  BY DEF IInv, Held, RecordTierChange, At
<1>4. req[r].to \in {2, 3}
  BY <1>1, <1>3 DEF Request
<1>5. PICK a \in SUBSET AuditRows : a = audit[r] \cup {TierRow(req[r].to)}
  BY <1>1 DEF AuditRows, TierRow
<1>6. audit' = [audit EXCEPT ![r] = a] /\ audit[r] \subseteq a
  BY <1>5 DEF RecordTierChange, Write
<1>7. Held(x, row')
  BY <1>2, <1>3 DEF Held, RecordTierChange
<1>8. \A n \in {2, 3} : Claims(x, a, n) =>
        Claims(req[r], audit[r], n) \/ (row.tier < n /\ row'.tier >= n)
  BY <1>2, <1>4, <1>5 DEF Claims, TierRow, RecordTierChange, At
<1>9. \A n \in {2, 3} : x.pc = "publish" /\ x.to = n => TierRow(n) \in a
  BY <1>2, <1>5
<1>10. RowStep(row, row') /\ published' \subseteq {2, 3} /\ faults' \in Nat
       /\ published \subseteq published'
       /\ \A n \in published' : n \in published \/ TierRow(n) \in a
  BY <1>1 DEF RowStep, TypeOK, RecordTierChange
<1> QED
  BY <1>2, <1>6, <1>7, <1>8, <1>9, <1>10, OneMoves

LEMMA PublishStep ==
  ASSUME IInv, NEW r \in Requests, Publish(r)
  PROVE  IInv'
<1>1. TypeOK /\ row \in Profile /\ req[r] \in Request /\ faults \in Nat
      /\ audit \in [Requests -> SUBSET AuditRows]
      /\ req[r].copy \in Profile /\ req[r].name \in SUBSET Tokens /\ Absent \in Profile
  BY MethodTypes DEF IInv, TypeOK, Request
<1>2. req[r].outcome # "NONE" /\ Fresh(req[r].copy, row)
      /\ \A n \in {2, 3} : req[r].to = n => TierRow(n) \in audit[r]
  BY DEF IInv, Held, Publish, At, Trail
<1>3. PICK x \in Request :
        /\ req' = [req EXCEPT ![r] = x]
        /\ \/ x.pc = "screen" /\ x.copy = req[r].copy /\ x.outcome = "PASSED"
           \/ x.pc \in {"ok", "refused"}
  <2>1. CASE Hold(r, "screen", "NONE", req[r].copy, "PASSED", 0, req[r].name)
    <3>1. "screen" \in Steps
      BY DEF Steps
    <3>2. PICK p \in Profile, nm \in SUBSET Tokens : p = req[r].copy /\ nm = req[r].name
      BY <1>1
    <3>3. Hold(r, "screen", "NONE", p, "PASSED", 0, nm)
      BY <2>1, <3>2
    <3>4. PICK x \in Request :
            req' = [req EXCEPT ![r] = x] /\ x.pc = "screen" /\ x.copy = p /\ x.outcome = "PASSED"
      BY <3>1, <3>3, HoldIs
    <3> QED
      BY <3>2, <3>4
  <2>2. CASE End(r, "ok")
    <3>1. PICK x \in Request : req' = [req EXCEPT ![r] = x] /\ x.pc = "ok"
      BY <1>1, <2>2, HoldIs DEF Steps, End
    <3> QED
      BY <3>1
  <2>3. CASE End(r, "refused")
    <3>1. PICK x \in Request : req' = [req EXCEPT ![r] = x] /\ x.pc = "refused"
      BY <1>1, <2>3, HoldIs DEF Steps, End
    <3> QED
      BY <3>1
  <2> QED
    BY <2>1, <2>2, <2>3 DEF Publish
<1>4. PICK a \in SUBSET AuditRows : a = audit[r]
  BY <1>1
<1>5. audit' = [audit EXCEPT ![r] = a] /\ audit[r] \subseteq a
  BY <1>1, <1>4 DEF Publish
<1>6. Held(x, row')
  BY <1>2, <1>3 DEF Held, Publish
<1>7. \A n \in {2, 3} : Claims(x, a, n) =>
        Claims(req[r], audit[r], n) \/ (row.tier < n /\ row'.tier >= n)
  BY <1>3, <1>4 DEF Claims
<1>8. \A n \in {2, 3} : x.pc = "publish" /\ x.to = n => TierRow(n) \in a
  BY <1>3
<1>9. RowStep(row, row') /\ faults' \in Nat /\ published \subseteq published'
  BY <1>1 DEF RowStep, Publish
<1>10. req[r].to \in {0, 2, 3}
  BY <1>1 DEF Request
<1>11. published' \subseteq {2, 3}
       /\ \A n \in published' : n \in published \/ TierRow(n) \in a
  BY <1>1, <1>2, <1>4, <1>10 DEF Publish, TypeOK
<1> QED
  BY <1>3, <1>5, <1>6, <1>7, <1>8, <1>9, <1>11, OneMoves

LEMMA ScreenStep ==
  ASSUME IInv, NEW r \in Requests, ScreenAndFlag(r)
  PROVE  IInv'
<1>1. row \in Profile /\ req[r] \in Request /\ req[r].copy \in Profile /\ Absent \in Profile
  BY MethodTypes DEF IInv, TypeOK, Request
<1>2. CASE Hold(r, "auditClean", "NONE", Absent, "PASSED", 0, {})
  <2>1. PICK x \in Request : req' = [req EXCEPT ![r] = x] /\ x.pc = "auditClean"
    BY <1>1, <1>2, HoldIs DEF Steps
  <2>2. Held(x, row)
    BY <2>1 DEF Held
  <2> QED
    BY <2>1, <2>2, Quiet DEF ScreenAndFlag
<1>3. CASE Hold(r, "saveFlag", "NONE", FlagForSanctionsReview(req[r].copy), "PASSED", 0, {})
  <2>1. PICK p \in Profile : p = req[r].copy
    BY <1>1
  <2>2. Fresh(p, row) /\ p.version \in Int /\ row.version \in Int
    BY <1>1, <2>1 DEF IInv, Held, At, ScreenAndFlag, Profile
  <2>3. FlagForSanctionsReview(p) \in Profile
    BY MethodTypes
  <2>4. PICK x \in Request : /\ req' = [req EXCEPT ![r] = x] /\ x.pc = "saveFlag"
                             /\ x.copy = FlagForSanctionsReview(p)
    BY <1>3, <2>1, <2>3, HoldIs DEF Steps
  <2>5. ASSUME IsSanctionsFlagOpen(p) PROVE Held(x, row)
    <3>1. x.copy = p
      BY <2>4, <2>5 DEF FlagForSanctionsReview
    <3>2. x.copy.version - 1 <= row.version /\ x.copy.version - 1 # row.version
      BY <2>2, <3>1 DEF Fresh
    <3> QED
      BY <2>4, <3>2 DEF Held
  <2>6. ASSUME ~IsSanctionsFlagOpen(p) PROVE Held(x, row)
    <3>1. x.copy.version = p.version + 1
      BY <2>4, <2>6 DEF FlagForSanctionsReview
    <3>2. x.copy.version - 1 = p.version
      BY <2>2, <3>1
    <3> QED
      BY <2>2, <2>4, <2>6, <3>2 DEF Held, Fresh
  <2>7. Held(x, row)
    BY <2>5, <2>6
  <2> QED
    BY <2>4, <2>7, Quiet DEF ScreenAndFlag
<1> QED
  BY <1>2, <1>3 DEF ScreenAndFlag

LEMMA SaveFlagStep ==
  ASSUME IInv, NEW r \in Requests, SaveFlag(r)
  PROVE  IInv' /\ RowStep(row, row')
<1>1. TypeOK /\ row \in Profile /\ req[r] \in Request /\ faults \in Nat
      /\ audit \in [Requests -> SUBSET AuditRows] /\ Earned(row)
  BY DEF IInv, TypeOK
<1>2. CASE End(r, "conflict") /\ row' = row
  BY <1>1, <1>2, EndIs DEF SaveFlag, RowStep
<1>3. ASSUME MaySave(req[r].copy), row' = req[r].copy, Goto(r, "auditMatch")
      PROVE  IInv' /\ RowStep(row, row')
  <2>1. PICK x \in Request : req' = [req EXCEPT ![r] = x] /\ x.pc = "auditMatch"
    BY <1>1, <1>3, GotoIs DEF Steps
  <2>2. PICK a \in SUBSET AuditRows : a = audit[r]
    BY <1>1
  <2>3. ~IsSanctionsFlagOpen(row) /\ row' = FlagForSanctionsReview(row)
    BY <1>3 DEF IInv, Held, SaveFlag, At, MaySave
  <2>4. RowStep(row, row')
    BY <2>3 DEF RowStep
  <2>5. Held(x, row')
    BY <2>1 DEF Held
  <2>6. \A n \in {2, 3} : Claims(x, a, n) =>
           Claims(req[r], audit[r], n) \/ (row.tier < n /\ row'.tier >= n)
    BY <2>1, <2>2 DEF Claims
  <2>7. \A n \in {2, 3} : x.pc = "publish" /\ x.to = n => TierRow(n) \in a
    BY <2>1
  <2>8. audit[r] \subseteq a /\ published \subseteq published'
         /\ audit' = [audit EXCEPT ![r] = a]
         /\ \A n \in published' : n \in published \/ TierRow(n) \in a
    BY <1>1, <2>2 DEF SaveFlag
  <2>9. published' \subseteq {2, 3} /\ faults' \in Nat
    BY <1>1 DEF SaveFlag, TypeOK
  <2>10. IInv'
    BY <2>1, <2>4, <2>5, <2>6, <2>7, <2>8, <2>9, OneMoves
  <2> QED
    BY <2>4, <2>10
<1> QED
  BY <1>2, <1>3 DEF SaveFlag

LEMMA ScreeningRowStep ==
  ASSUME IInv, NEW r \in Requests, ForSanctionsScreening(r)
  PROVE  IInv'
<1>1. TypeOK /\ row \in Profile /\ req[r] \in Request /\ faults \in Nat
      /\ audit \in [Requests -> SUBSET AuditRows] /\ Absent \in Profile
  BY MethodTypes DEF IInv, TypeOK
<1>2. PICK x \in Request : req' = [req EXCEPT ![r] = x] /\ x.pc = "ok"
  BY <1>1, HoldIs DEF ForSanctionsScreening, End, Steps
<1>3. PICK e \in {"CLEAN", "MATCH"} : audit' = [audit EXCEPT ![r] = @ \cup {e}]
  BY DEF ForSanctionsScreening, Write
<1>4. PICK a \in SUBSET AuditRows : a = audit[r] \cup {e}
  BY <1>1 DEF AuditRows
<1>5. audit' = [audit EXCEPT ![r] = a] /\ audit[r] \subseteq a
  BY <1>3, <1>4
<1>6. Held(x, row')
  BY <1>2 DEF Held
<1>7. \A n \in {2, 3} : Claims(x, a, n) =>
        Claims(req[r], audit[r], n) \/ (row.tier < n /\ row'.tier >= n)
  BY <1>2, <1>4 DEF Claims, TierRow
<1>8. \A n \in {2, 3} : x.pc = "publish" /\ x.to = n => TierRow(n) \in a
  BY <1>2
<1>9. RowStep(row, row') /\ published' \subseteq {2, 3} /\ faults' \in Nat
      /\ published \subseteq published'
      /\ \A n \in published' : n \in published \/ TierRow(n) \in a
  BY <1>1 DEF RowStep, TypeOK, ForSanctionsScreening
<1> QED
  BY <1>2, <1>5, <1>6, <1>7, <1>8, <1>9, OneMoves

LEMMA RegisteredStep ==
  ASSUME IInv, HandleUserRegistered
  PROVE  IInv' /\ RowStep(row, row')
<1>1. TypeOK /\ row \in Profile /\ Earned(row) /\ req \in [Requests -> Request]
  BY DEF IInv, TypeOK
<1>2. row.version = -1 /\ row' = CreateDefault
  BY <1>1 DEF HandleUserRegistered, MaySave, CreateDefault, Profile
<1>3. row = Absent
  BY <1>1, <1>2 DEF Earned
<1>4. RowStep(row, row')
  BY <1>2, <1>3 DEF RowStep
<1>5. row' \in Profile /\ (row' = row \/ row'.version = row.version + 1) /\ Earned(row')
      /\ row'.tier = row.tier
  BY <1>1, <1>2, <1>3, <1>4, RowMoves DEF Absent, CreateDefault
<1>6. TypeOK'
  BY <1>1, <1>5 DEF TypeOK, HandleUserRegistered
<1>7. \A r \in Requests : Held(req'[r], row')
  <2> TAKE r \in Requests
  <2>1. req[r] \in Request /\ Held(req[r], row) /\ req' = req
    BY <1>1 DEF IInv, HandleUserRegistered
  <2> QED
    BY <1>1, <1>5, <2>1, StillHeld
<1>8. Trail'
  BY <1>5 DEF Trail, IInv, HandleUserRegistered
<1> QED
  BY <1>4, <1>5, <1>6, <1>7, <1>8 DEF IInv

\* The four verification handlers, from the provider's answer on.
LEMMA VerifySteps ==
  ASSUME IInv, NEW r \in Requests, NEW d \in {"BVN", "NIN"}, At(r, "provider"),
         Submit(r, d) \/ Override(r, d), UNCHANGED <<row, audit, published, faults>>
  PROVE  IInv'
<1>1. faults \in Nat
  BY DEF IInv, TypeOK
<1>2. CASE NoRecord(r)
  BY <1>1, <1>2, EndIs DEF NoRecord
<1>3. CASE \E record \in Records : Verified(r, d, record)
  BY <1>3, VerifiedStep
<1>4. CASE Mismatch(r)
  BY <1>4, MismatchStep
<1> QED
  BY <1>2, <1>3, <1>4 DEF Submit, Override

\* Every step keeps the invariant and moves the row by one method at most.
LEMMA NextKeeps ==
  ASSUME IInv, [Next]_vars
  PROVE  IInv' /\ RowStep(row, row')
<1>1. CASE HandleUserRegistered
  BY <1>1, RegisteredStep
<1>2. ASSUME NEW r \in Requests, NEW kind \in Kinds, Receive(r, kind)
      PROVE  IInv' /\ RowStep(row, row')
  BY <1>2, ReceiveStep DEF Receive, RowStep
<1>3. ASSUME NEW r \in Requests, Step(r)
      PROVE  IInv' /\ RowStep(row, row')
  <2>1. CASE FindByUserId(r)
    BY <2>1, FindStep DEF FindByUserId, RowStep
  <2>2. CASE SubmitBvnVerification(r)
    BY <2>2, VerifySteps DEF SubmitBvnVerification, RowStep
  <2>3. CASE SubmitNinVerification(r)
    BY <2>3, VerifySteps DEF SubmitNinVerification, RowStep
  <2>4. CASE ManuallyVerifyBvn(r)
    BY <2>4, VerifySteps DEF ManuallyVerifyBvn, RowStep
  <2>5. CASE ManuallyVerifyNin(r)
    BY <2>5, VerifySteps DEF ManuallyVerifyNin, RowStep
  <2>6. CASE ClearFlag(r)
    BY <2>6, ClearStep DEF ClearFlag, RowStep
  <2>7. CASE Save(r)
    BY <2>7, SaveStep
  <2>8. CASE RecordAttempt(r)
    BY <2>8, AttemptStep DEF RecordAttempt, RowStep
  <2>9. CASE RecordTierChange(r)
    BY <2>9, TierChangeStep DEF RecordTierChange, RowStep
  <2>10. CASE Publish(r)
    BY <2>10, PublishStep DEF Publish, RowStep
  <2>11. CASE ScreenAndFlag(r)
    BY <2>11, ScreenStep DEF ScreenAndFlag, RowStep
  <2>12. CASE SaveFlag(r)
    BY <2>12, SaveFlagStep
  <2>13. CASE ForSanctionsScreening(r)
    BY <2>13, ScreeningRowStep DEF ForSanctionsScreening, RowStep
  <2> QED
    BY <1>3, <2>1, <2>2, <2>3, <2>4, <2>5, <2>6, <2>7, <2>8, <2>9, <2>10, <2>11, <2>12,
       <2>13 DEF Step
<1>4. ASSUME NEW r \in Requests, Fail(r)
      PROVE  IInv' /\ RowStep(row, row')
  <2>1. faults' \in Nat
    BY <1>4 DEF IInv, TypeOK, Fail
  <2> QED
    BY <1>4, <2>1, EndIs DEF Fail, RowStep
<1>5. CASE UNCHANGED vars
  <2>1. row' = row /\ req' = req /\ audit' = audit /\ published' = published /\ faults' = faults
    BY <1>5 DEF vars
  <2>2. TypeOK' /\ Trail' /\ Earned(row') /\ \A r \in Requests : Held(req'[r], row')
    BY <2>1 DEF IInv, TypeOK, Trail
  <2> QED
    BY <2>1, <2>2 DEF IInv, RowStep
<1> QED
  BY <1>1, <1>2, <1>3, <1>4, <1>5 DEF Next

LEMMA InitHolds ==
  ASSUME Init
  PROVE  IInv
<1>1. Absent \in Profile
  BY DEF Absent, Profile
<1>2. [pc |-> "idle", kind |-> "NONE", copy |-> Absent, outcome |-> "NONE", to |-> 0,
       name |-> {}] \in Request
  BY <1>1 DEF Request, Steps
<1>3. TypeOK
  BY <1>1, <1>2 DEF Init, TypeOK
<1>4. \A r \in Requests : req[r].pc = "idle" /\ req[r].to = 0 /\ audit[r] = {}
  BY DEF Init
<1>5. Earned(row)
  BY DEF Init, Earned, Absent
<1>6. \A r \in Requests : Held(req[r], row)
  BY <1>4 DEF Held
<1>7. Trail
  BY <1>4 DEF Trail, Claims, Init
<1> QED
  BY <1>3, <1>5, <1>6, <1>7 DEF IInv

-----------------------------------------------------------------------------
(***************************************************************************)
(* The theorems.                                                           *)
(***************************************************************************)
\* IInv is an invariant of the verification handlers, the staff commands and
\* the screening, however they interleave and fail.
THEOREM Inductive == Spec => []IInv
<1>1. Init => IInv
  BY InitHolds
<1>2. IInv /\ [Next]_vars => IInv'
  BY NextKeeps
<1> QED
  BY <1>1, <1>2, PTL DEF Spec

\* The row, the copies in memory and the audit rows keep their types.
THEOREM TypeCorrect == Spec => []TypeOK
<1>1. IInv => TypeOK
  BY DEF IInv
<1> QED
  BY <1>1, Inductive, PTL

\* Compliance implements the ladder: documents are verified once and for good,
\* and a tier is earned by the document that leads to it.
THEOREM ProfileClimbs == Spec => Climbs
<1>1. Init => Ladder!Init
  BY DEF Init, Ladder!Init, Absent, AlreadyPassed
<1>2. IInv /\ [Next]_vars => [Ladder!Next]_(Ladder!vars)
  <2> SUFFICES ASSUME IInv, [Next]_vars
               PROVE  [Ladder!Next]_(Ladder!vars)
    OBVIOUS
  <2>1. RowStep(row, row')
    BY NextKeeps
  <2>2. row \in Profile /\ Earned(row)
    BY DEF IInv, TypeOK
  <2>3. row.tier \in 1..3 /\ row.bvn \in BOOLEAN /\ row.nin \in BOOLEAN
    BY <2>2 DEF Profile
  <2>4. ASSUME row'.bvn = row.bvn, row'.nin = row.nin, row'.tier = row.tier
        PROVE  UNCHANGED Ladder!vars
    BY <2>4 DEF Ladder!vars, AlreadyPassed
  <2>5. CASE \E d \in {"BVN", "NIN"} : ~AlreadyPassed(d, row) /\ row' = Recorded(d, row)
    <3>1. CASE ~row.bvn /\ row' = RecordBvnVerified(row)
      <4>1. row'.bvn = TRUE /\ row'.nin = row.nin /\ row.tier = 1 /\ row'.tier = 2
        BY <2>2, <3>1 DEF RecordBvnVerified, Earned
      <4>2. Ladder!Verify("BVN")
        BY <3>1, <4>1 DEF Ladder!Verify, AlreadyPassed
      <4> QED
        BY <4>2 DEF Ladder!Next, Ladder!Documents
    <3>2. CASE ~row.nin /\ row' = RecordNinVerified(row)
      <4>1. row'.bvn = row.bvn /\ row'.nin = TRUE
            /\ row'.tier = (IF row.bvn THEN row.tier + 1 ELSE row.tier)
        BY <2>2, <2>3, <3>2 DEF RecordNinVerified, Earned
      <4>2. Ladder!Verify("NIN")
        BY <3>2, <4>1 DEF Ladder!Verify, AlreadyPassed
      <4> QED
        BY <4>2 DEF Ladder!Next, Ladder!Documents
    <3> QED
      BY <2>5, <3>1, <3>2 DEF Recorded, AlreadyPassed
  <2>6. CASE row' = row
    BY <2>4, <2>6
  <2>7. CASE row = Absent /\ row' = CreateDefault
    BY <2>4, <2>7 DEF Absent, CreateDefault
  <2>8. CASE row' = RecordVerificationFailed(row)
    BY <2>4, <2>8 DEF RecordVerificationFailed
  <2>9. CASE row' = ClearSanctionsFlag(row)
    BY <2>4, <2>9 DEF ClearSanctionsFlag
  <2>10. CASE ~IsSanctionsFlagOpen(row) /\ row' = FlagForSanctionsReview(row)
    BY <2>4, <2>10 DEF FlagForSanctionsReview
  <2> QED
    BY <2>1, <2>5, <2>6, <2>7, <2>8, <2>9, <2>10 DEF RowStep
<1> QED
  BY <1>1, <1>2, Inductive, PTL DEF Spec, Climbs, Ladder!Spec

\* The audit log tells of every tier at most once, only when it is stored, and
\* before the event is published.
THEOREM AuditIsTrue == Spec => []TrailIsTrue
<1>1. IInv => TrailIsTrue
  BY DEF IInv, Trail, TrailIsTrue, Claims
<1> QED
  BY <1>1, Inductive, PTL

\* A sanctions case is closed by a clear command that saw it, and never
\* overwritten by a second case.
THEOREM CasesAreExclusive == Spec => OneCaseAtATime
<1>1. IInv /\ [Next]_vars =>
        [/\ IsSanctionsFlagOpen(row) /\ ~IsSanctionsFlagOpen(row)' =>
              \E r \in Requests : /\ At(r, "save") /\ req[r].outcome = "CLEARED"
                                  /\ req[r].copy.flaggedAt = row.flaggedAt
         /\ IsSanctionsFlagOpen(row) => row'.flaggedAt = row.flaggedAt]_vars
  <2> SUFFICES ASSUME IInv, [Next]_vars, IsSanctionsFlagOpen(row)
               PROVE  /\ ~IsSanctionsFlagOpen(row') =>
                           \E r \in Requests : /\ At(r, "save") /\ req[r].outcome = "CLEARED"
                                               /\ req[r].copy.flaggedAt = row.flaggedAt
                      /\ row'.flaggedAt = row.flaggedAt
    BY DEF IsSanctionsFlagOpen
  <2>1. RowStep(row, row')
    BY NextKeeps
  <2>2. row'.flaggedAt = row.flaggedAt
    BY <2>1 DEF RowStep, IsSanctionsFlagOpen, Absent, Recorded, RecordBvnVerified,
                RecordNinVerified, RecordVerificationFailed, ClearSanctionsFlag
  <2>3. ASSUME ~IsSanctionsFlagOpen(row')
        PROVE  \E r \in Requests : /\ At(r, "save") /\ req[r].outcome = "CLEARED"
                                   /\ req[r].copy.flaggedAt = row.flaggedAt
    <3>1. row' # row
      BY <2>3
    <3>2. ~HandleUserRegistered
      BY DEF IInv, TypeOK, Earned, HandleUserRegistered, MaySave, CreateDefault, Profile,
             Absent, IsSanctionsFlagOpen
    <3>3. PICK r \in Requests : Save(r) \/ SaveFlag(r)
      BY <3>1, <3>2 DEF Next, vars, Receive, Step, FindByUserId, SubmitBvnVerification,
         SubmitNinVerification, ManuallyVerifyBvn, ManuallyVerifyNin, ClearFlag, RecordAttempt,
         RecordTierChange, Publish, ScreenAndFlag, ForSanctionsScreening, Fail
    <3>4. CASE SaveFlag(r)
      BY <3>1, <3>4 DEF SaveFlag, At, IInv, Held, MaySave
    <3>5. CASE Save(r)
      <4>1. At(r, "save") /\ row' = req[r].copy /\ Applied(req[r], row)
        BY <3>1, <3>5 DEF Save, At, IInv, Held, MaySave
      <4>2. row'.clearedAt # row.clearedAt
        BY <2>2, <2>3 DEF IsSanctionsFlagOpen
      <4>3. req[r].outcome = "CLEARED"
        BY <4>1, <4>2 DEF Applied, Recorded, RecordBvnVerified, RecordNinVerified,
                          RecordVerificationFailed
      <4> QED
        BY <2>2, <4>1, <4>3
    <3> QED
      BY <3>3, <3>4, <3>5
  <2> QED
    BY <2>2, <2>3
<1> QED
  BY <1>1, Inductive, PTL DEF Spec, OneCaseAtATime
=============================================================================
