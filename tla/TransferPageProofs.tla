------------------------- MODULE TransferPageProofs -------------------------
(***************************************************************************)
(* Proofs about the transfer screen, for any number of submissions, polls  *)
(* in flight and visits, and all amounts; and about the decimal strings in *)
(* which the screen and the backend exchange amounts.                      *)
(*                                                                         *)
(* The argument is about keys.  A key is drawn by the submission it is     *)
(* named after, at the first submission of a visit, and from then on it    *)
(* stands for that visit (KeyIsOfVisit): so all submissions of a visit     *)
(* carry one key, and no two visits share one.  A transfer is an orphan or *)
(* is what its key stands for (TransferKnows), so a key that is still free *)
(* has only orphans.  A poll in flight belongs to a submission of the      *)
(* visit on the screen, the transfer it asks for exists, and what it has   *)
(* seen of a settled transfer stays true (PollKnows).                      *)
(***************************************************************************)
EXTENDS TransferPage, TLAPS

USE DEF backend, Made

Sent(s) == sub[s].state # "idle"

\* The key of a submission is its own name or that of an earlier one of the
\* same visit, and the screen still holds it if the visit is not over.
KeyIsOfVisit(s) ==
  Sent(s) => /\ sub[s].key \in Submissions
             /\ Sent(sub[s].key)
             /\ sub[sub[s].key].key = sub[s].key
             /\ sub[sub[s].key].visit = sub[s].visit
             /\ sub[s].visit <= page.visit
             /\ sub[s].visit = page.visit => page.key = sub[s].key

PageKnows ==
  page.key # None => /\ Sent(page.key)
                     /\ sub[page.key].key = page.key
                     /\ sub[page.key].visit = page.visit

\* A visit has one key.
OneKey ==
  \A s1, s2 \in Submissions :
    Sent(s1) /\ Sent(s2) /\ sub[s1].visit = sub[s2].visit => sub[s1].key = sub[s2].key

\* A transfer was made for its own submission, and is an orphan or what the
\* key of that submission stands for.
TransferKnows(t) ==
  Made(t) => /\ Sent(t) /\ sub[t].state # "sent"
             /\ sub[t].visit = transfer[t].visit
             /\ t \in orphans \/ claim[sub[t].key] = t

\* A completed key stands for a transfer of a submission that carried it.
ClaimKnows(k) ==
  claim[k] # None => Made(claim[k]) /\ sub[claim[k]].key = k

\* The transfer that the answer to a submission named.
RefKnows(s) ==
  /\ Mine(s) /\ sub[s].ref \in Submissions
  /\ Made(sub[s].ref) /\ transfer[sub[s].ref].visit = sub[s].visit

PollKnows(s) ==
  /\ sub[s].state \in {"accepted", "polling"} => RefKnows(s)
  /\ sub[s].state = "error" => Mine(s)
  /\ \A n \in Slots :
       /\ poll[s][n] # "free" => Sent(s) /\ sub[s].state # "sent" /\ RefKnows(s)
       /\ poll[s][n] = "SUCCESSFUL" => transfer[sub[s].ref].status = "SUCCESSFUL"

KeyInv ==
  /\ PageKnows /\ OneKey
  /\ \A s \in Submissions : /\ KeyIsOfVisit(s) /\ TransferKnows(s)
                            /\ ClaimKnows(s) /\ PollKnows(s)

IInv == TypeOK /\ KeyInv /\ SuccessMeansPaid

-----------------------------------------------------------------------------
(***************************************************************************)
(* Amounts.                                                                *)
(***************************************************************************)
\* What the browser formats with toFixed(2), and what the backend formats
\* for the provider with toMajorUnitsString, is accepted by
\* Money.fromDecimalString and parsed to the same number of kobo.
THEOREM DecimalRoundTrip ==
  ASSUME NEW kobo \in Nat
  PROVE  WellFormed(ToFixed2(kobo)) /\ FromDecimalString(ToFixed2(kobo)) = kobo
<1> DEFINE d == ToFixed2(kobo)
<1>1. d.major = kobo \div 100 /\ d.minor = <<(kobo % 100) \div 10, kobo % 10>>
  BY DEF ToFixed2
<1>2. Len(d.minor) = 2 /\ d.minor[1] = (kobo % 100) \div 10 /\ d.minor[2] = kobo % 10
  BY <1>1
<1>3. kobo \div 100 \in Nat /\ (kobo % 100) \div 10 \in Nat /\ kobo % 10 \in Nat
  OBVIOUS
<1>4. (kobo \div 100) * 100 + ((kobo % 100) \div 10) * 10 + (kobo % 10) = kobo
  <2>1. \A q \in Nat, r \in 0..99 :
           kobo = 100 * q + r => q * 100 + (r \div 10) * 10 + (r % 10) = kobo
    OBVIOUS
  <2>2. \A q \in Nat, r \in 0..99 : kobo = 100 * q + r => r % 10 = kobo % 10
    OBVIOUS
  <2>3. kobo \div 100 \in Nat /\ kobo % 100 \in 0..99
        /\ kobo = 100 * (kobo \div 100) + (kobo % 100)
    OBVIOUS
  <2>4. (kobo \div 100) * 100 + ((kobo % 100) \div 10) * 10 + ((kobo % 100) % 10) = kobo
    BY <2>1, <2>3
  <2>5. (kobo % 100) % 10 = kobo % 10
    BY <2>2, <2>3
  <2> QED
    BY <2>4, <2>5
<1> HIDE DEF d
<1> QED
  BY <1>1, <1>2, <1>3, <1>4 DEF WellFormed, FromDecimalString, d

-----------------------------------------------------------------------------
(***************************************************************************)
(* Type correctness.  A poll reads the status of a transfer that exists,   *)
(* so the types need what the submissions know.                            *)
(***************************************************************************)
PageStep ==
  \/ LoadAccount \/ Back \/ Retry \/ SubmitNoAccount
  \/ \E r \in Recipients : SelectRecipient(r)
  \/ \E kobo \in Kobos : ConfirmAmount(kobo)

LEMMA NextCases ==
  ASSUME [Next]_vars
  PROVE  \/ PageStep \/ Leave
         \/ \E s \in Submissions : Submit(s) \/ Serve(s) \/ Answer(s)
         \/ \E k \in Submissions, status \in {"SUCCESSFUL", "REVERSED"} : Settle(k, status)
         \/ \E s \in Submissions, n \in Slots : Tick(s, n) \/ PollRead(s, n) \/ PollAnswer(s, n)
         \/ UNCHANGED vars
BY DEF Next, PageStep

LEMMA TypeInit == Init => TypeOK
BY MaxVisitsAssumption, MaxPollsAssumption
   DEF Init, TypeOK, Opened, Page, Submission, Statuses

\* The wizard changes the page, and nothing a transfer or its key depends on.
LEMMA PageType ==
  ASSUME TypeOK, PageStep
  PROVE  /\ TypeOK'
         /\ UNCHANGED <<sub, poll, backend>>
         /\ page'.visit = page.visit /\ page'.key = page.key
         /\ page'.result = "SUCCESSFUL" => page.result = "SUCCESSFUL" /\ page'.paid = page.paid
<1>1. page \in Page
  BY DEF TypeOK
<1>2. CASE LoadAccount
  BY <1>1, <1>2 DEF LoadAccount, TypeOK, Page
<1>3. CASE Back
  BY <1>1, <1>3 DEF Back, TypeOK, Page
<1>4. CASE Retry
  BY <1>1, <1>4 DEF Retry, TypeOK, Page
<1>5. CASE SubmitNoAccount
  BY <1>1, <1>5 DEF SubmitNoAccount, TypeOK, Page
<1>6. ASSUME NEW r \in Recipients, SelectRecipient(r)
      PROVE  /\ TypeOK' /\ UNCHANGED <<sub, poll, backend>>
             /\ page'.visit = page.visit /\ page'.key = page.key
             /\ page'.result = page.result /\ page'.paid = page.paid
  BY <1>1, <1>6 DEF SelectRecipient, TypeOK, Page
<1>7. ASSUME NEW kobo \in Kobos, ConfirmAmount(kobo)
      PROVE  /\ TypeOK' /\ UNCHANGED <<sub, poll, backend>>
             /\ page'.visit = page.visit /\ page'.key = page.key
             /\ page'.result = page.result /\ page'.paid = page.paid
  BY <1>1, <1>7, KobosAssumption DEF ConfirmAmount, TypeOK, Page
<1> QED BY <1>2, <1>3, <1>4, <1>5, <1>6, <1>7 DEF PageStep

LEMMA OpenedType ==
  ASSUME NEW visit \in 1..MaxVisits
  PROVE  Opened(visit) \in Page
BY DEF Opened, Page

LEMMA LeaveType ==
  ASSUME TypeOK, Leave
  PROVE  TypeOK'
<1>1. /\ sub \in [Submissions -> Submission] /\ MaxPolls \in Nat /\ MaxVisits \in Nat
      /\ page.visit \in 1..MaxVisits
  BY MaxPollsAssumption, MaxVisitsAssumption DEF TypeOK, Page
<1>2. page' \in Page
  <2>1. page.visit < MaxVisits /\ page' = Opened(page.visit + 1)
    BY Zenon DEF Leave
  <2>2. page.visit + 1 \in 1..MaxVisits
    BY <1>1, <2>1
  <2> QED BY <2>1, <2>2, OpenedType
<1>3. sub' \in [Submissions -> Submission]
  <2> SUFFICES ASSUME NEW q \in Submissions PROVE sub'[q] \in Submission
    BY DEF Leave
  <2>1. sub[q] \in Submission /\ 0 \in 0..MaxPolls
    BY <1>1
  <2>2. \/ sub'[q] = sub[q]
        \/ sub'[q] = [sub[q] EXCEPT !.state = "over", !.polls = 0]
    BY DEF Leave
  <2> QED BY <2>1, <2>2 DEF Submission
<1> QED BY <1>2, <1>3 DEF Leave, TypeOK

LEMMA SubmissionType ==
  ASSUME TypeOK, KeyInv, NEW s \in Submissions,
         \/ Submit(s) \/ Serve(s) \/ Answer(s)
         \/ \E status \in {"SUCCESSFUL", "REVERSED"} : Settle(s, status)
         \/ \E n \in Slots : Tick(s, n) \/ PollRead(s, n) \/ PollAnswer(s, n)
  PROVE  TypeOK'
<1>1. /\ page \in Page /\ sub[s] \in Submission /\ sub \in [Submissions -> Submission]
      /\ sub[s].polls \in 0..MaxPolls /\ MaxPolls \in Nat /\ MaxVisits \in Nat
      /\ page.visit \in 1..MaxVisits /\ page.kobo \in Nat
      /\ page.recipient \in Recipients \cup {None}
  BY MaxPollsAssumption, MaxVisitsAssumption DEF TypeOK, Page, Submission
<1>2. \A n \in Slots : poll[s][n] # "free" =>
        /\ Sent(s) /\ sub[s].ref \in Submissions
        /\ transfer[sub[s].ref].kobo \in Nat
        /\ transfer[sub[s].ref].status \in Statuses
  BY DEF KeyInv, PollKnows, RefKnows, TypeOK
<1>3. CASE Submit(s)
  <2>1. IdempotencyKey(s) \in Submissions
    BY <1>1 DEF IdempotencyKey, Page
  <2>2. page' \in Page
    BY <1>1, <1>3, <2>1 DEF Submit, Page
  <2>3. FromDecimalString(ToFixed2(page.kobo)) \in Nat
    BY <1>1, DecimalRoundTrip
  <2>4. sub' \in [Submissions -> Submission]
    BY <1>1, <1>3, <2>1, <2>3 DEF Submit, Submission
  <2> QED BY <1>3, <2>2, <2>4 DEF Submit, TypeOK
<1>4. CASE Serve(s)
  <2>1. sub[s].key \in Submissions /\ claim[sub[s].key] \in Submissions \cup {None}
    BY <1>4 DEF Serve, Sent, KeyInv, KeyIsOfVisit, TypeOK
  <2>2. PICK state \in {"accepted", "error", "over"}, ref \in Submissions \cup {None} :
          sub' = [sub EXCEPT ![s].state = state, ![s].ref = ref]
    BY <1>4, <2>1 DEF Serve, Initiate, Replay, ThrowOrDie, Refuse, Reply
  <2>3. sub' \in [Submissions -> Submission]
    BY <1>1, <2>2 DEF Submission
  <2>4. /\ sub[s].visit \in 0..MaxVisits /\ sub[s].to \in Recipients \cup {None}
        /\ sub[s].kobo \in Nat
    BY <1>1 DEF Submission
  <2>5. UNCHANGED transfer \/ \E status \in Statuses : Make(s, status)
    BY <1>4 DEF Serve, Initiate, Replay, ThrowOrDie, Refuse, Statuses
  <2>6. transfer' \in [Submissions -> [status: {"NONE"} \cup Statuses, visit: 0..MaxVisits,
                                       to: Recipients \cup {None}, kobo: Nat]]
    <3>1. CASE UNCHANGED transfer
      BY <3>1 DEF TypeOK
    <3>2. ASSUME NEW status \in Statuses, Make(s, status) PROVE <2>6!:
      <4>1. [status |-> status, visit |-> sub[s].visit, to |-> sub[s].to, kobo |-> sub[s].kobo]
              \in [status: {"NONE"} \cup Statuses, visit: 0..MaxVisits,
                   to: Recipients \cup {None}, kobo: Nat]
        BY <2>4
      <4> QED BY <3>2, <4>1 DEF Make, TypeOK
    <3> QED BY <2>5, <3>1, <3>2
  <2>7. claim' \in [Submissions -> Submissions \cup {None}] /\ orphans' \subseteq Submissions
    BY <1>4 DEF Serve, Initiate, Replay, ThrowOrDie, Refuse, TypeOK
  <2> QED BY <1>4, <2>3, <2>6, <2>7 DEF Serve, TypeOK
<1>5. CASE Answer(s)
  <2>1. [page EXCEPT !.result = "FAILED", !.loading = FALSE] \in Page
    BY <1>1 DEF Page
  <2>2. \A state \in {"polling", "over"} : [sub[s] EXCEPT !.state = state] \in Submission
    BY <1>1 DEF Submission
  <2> QED BY <1>5, <2>1, <2>2 DEF Answer, TypeOK
<1>6. ASSUME NEW status \in {"SUCCESSFUL", "REVERSED"}, Settle(s, status) PROVE TypeOK'
  BY <1>6 DEF Settle, TypeOK, Statuses
<1>7. ASSUME NEW n \in Slots, Tick(s, n) PROVE TypeOK'
  <2>1. (IF sub[s].polls < MaxPolls THEN sub[s].polls + 1 ELSE sub[s].polls) \in 0..MaxPolls
    BY <1>1
  <2>2. sub' \in [Submissions -> Submission]
    BY <1>1, <1>7, <2>1 DEF Tick, Submission
  <2> QED BY <1>7, <2>2 DEF Tick, TypeOK
<1>8. ASSUME NEW n \in Slots, PollRead(s, n) PROVE TypeOK'
  <2>1. transfer[sub[s].ref].status \in Statuses
    BY <1>2, <1>8 DEF PollRead
  <2> QED BY <1>8, <2>1 DEF PollRead, TypeOK
<1>9. ASSUME NEW n \in Slots, PollAnswer(s, n) PROVE TypeOK'
  <2>1. Sent(s) /\ transfer[sub[s].ref].kobo \in Nat
    BY <1>2, <1>9 DEF PollAnswer
  <2>2. ResultOf(s, n) \in {"SUCCESSFUL", "FAILED"}
    BY DEF ResultOf
  <2>3. page' \in Page /\ sub' \in [Submissions -> Submission]
    <3>1. CASE KeepPolling(s, n)
      BY <1>1, <1>9, <3>1 DEF PollAnswer
    <3>2. CASE Show(s, n, ResultOf(s, n))
      <4> DEFINE result == ResultOf(s, n)
                 paid == IF result = "SUCCESSFUL" THEN transfer[sub[s].ref].kobo ELSE 0
      <4>1. paid \in Nat
        BY <2>1
      <4>2. page' = [page EXCEPT !.result = result, !.loading = FALSE, !.paid = paid]
        BY <3>2 DEF Show
      <4>3. [sub[s] EXCEPT !.state = "over"] \in Submission
        BY <1>1 DEF Submission
      <4>4. sub' \in [Submissions -> Submission]
        BY <1>1, <3>2, <4>3 DEF Show
      <4> HIDE DEF result, paid
      <4>5. result \in {"SUCCESSFUL", "FAILED"}
        BY <2>2 DEF result
      <4>6. page' \in Page
        BY <1>1, <4>1, <4>2, <4>5 DEF Page
      <4> QED BY <4>4, <4>6
    <3> QED BY <1>9, <3>1, <3>2 DEF PollAnswer
  <2> QED BY <1>9, <2>3 DEF PollAnswer, TypeOK
<1> QED BY <1>3, <1>4, <1>5, <1>6, <1>7, <1>8, <1>9

-----------------------------------------------------------------------------
(***************************************************************************)
(* Keys.                                                                   *)
(***************************************************************************)
LEMMA KeyInit == Init => KeyInv /\ SuccessMeansPaid
BY DEF Init, Opened, KeyInv, PageKnows, OneKey, KeyIsOfVisit, TransferKnows, ClaimKnows, PollKnows, Sent,
       SuccessMeansPaid

\* What a transfer, once made, keeps.
TransfersKept ==
  \A k \in Submissions : transfer[k].status # "NONE" =>
    /\ transfer'[k].status # "NONE"
    /\ transfer[k].status = "SUCCESSFUL" => transfer'[k].status = "SUCCESSFUL"
    /\ transfer'[k].visit = transfer[k].visit /\ transfer'[k].kobo = transfer[k].kobo

\* A step within a visit that draws no key: submissions keep their key and
\* visit, a key keeps its transfer, and a new transfer is an orphan or gets
\* the key of its submission.
LEMMA KeysKept ==
  ASSUME TypeOK, KeyInv,
         page'.visit = page.visit, page'.key = page.key,
         \A s \in Submissions : /\ sub'[s].state = "idle" <=> sub[s].state = "idle"
                                /\ sub'[s].state = "sent" => sub[s].state = "sent"
                                /\ sub'[s].key = sub[s].key /\ sub'[s].visit = sub[s].visit,
         TransfersKept,
         orphans \subseteq orphans',
         \A k \in Submissions : claim[k] # None => claim'[k] = claim[k],
         \A k \in Submissions : claim[k] = None /\ claim'[k] # None
           => /\ claim'[k] \in Submissions /\ transfer'[claim'[k]].status # "NONE"
              /\ sub[claim'[k]].key = k,
         \A t \in Submissions : transfer[t].status = "NONE" /\ transfer'[t].status # "NONE"
           => /\ Sent(t) /\ sub'[t].state # "sent" /\ transfer'[t].visit = sub[t].visit
              /\ t \in orphans' \/ claim'[sub[t].key] = t,
         \A s \in Submissions : PollKnows(s)'
  PROVE  KeyInv'
<1>1. PageKnows'
  BY DEF KeyInv, PageKnows, Sent, TypeOK, Page
<1>2. OneKey'
  BY DEF KeyInv, OneKey, Sent
<1>3. ASSUME NEW s \in Submissions PROVE KeyIsOfVisit(s)'
  BY DEF KeyInv, KeyIsOfVisit, Sent
<1>4. ASSUME NEW t \in Submissions PROVE TransferKnows(t)'
  <2>1. CASE transfer[t].status # "NONE"
    <3>1. Sent(t) /\ sub[t].state # "sent" /\ sub[t].key \in Submissions /\ t # None
          /\ sub[t].visit = transfer[t].visit
      BY <2>1, NoneAssumption DEF KeyInv, TransferKnows, KeyIsOfVisit
    <3>2. t \in orphans' \/ claim'[sub[t].key] = t
      BY <2>1, <3>1 DEF KeyInv, TransferKnows
    <3> QED BY <2>1, <3>1, <3>2 DEF TransferKnows, TransfersKept, Sent
  <2>2. CASE transfer[t].status = "NONE" /\ transfer'[t].status # "NONE"
    BY <2>2 DEF TransferKnows, Sent
  <2> QED BY <2>1, <2>2 DEF TransferKnows
<1>5. ASSUME NEW k \in Submissions PROVE ClaimKnows(k)'
  <2>1. CASE claim[k] # None
    <3>1. claim[k] \in Submissions /\ claim'[k] = claim[k] /\ Made(claim[k]) /\ sub[claim[k]].key = k
      BY <2>1 DEF KeyInv, ClaimKnows, TypeOK
    <3> QED BY <3>1 DEF ClaimKnows, TransfersKept
  <2>2. CASE claim[k] = None
    BY <2>2 DEF ClaimKnows
  <2> QED BY <2>1, <2>2
<1> QED BY <1>1, <1>2, <1>3, <1>4, <1>5 DEF KeyInv

\* The same for a step that leaves the backend alone.
LEMMA BackendKept ==
  ASSUME TypeOK, KeyInv, UNCHANGED backend,
         page'.visit = page.visit, page'.key = page.key,
         \A s \in Submissions : /\ sub'[s].state = "idle" <=> sub[s].state = "idle"
                                /\ sub'[s].state = "sent" => sub[s].state = "sent"
                                /\ sub'[s].key = sub[s].key /\ sub'[s].visit = sub[s].visit,
         \A s \in Submissions : PollKnows(s)'
  PROVE  KeyInv' /\ TransfersKept
<1>1. TransfersKept
  BY DEF TransfersKept
<1> QED BY <1>1, KeysKept

\* A page that shows no new success still shows a true one.
LEMMA SuccessKept ==
  ASSUME SuccessMeansPaid, TransfersKept, page'.visit = page.visit,
         page'.result = "SUCCESSFUL" => page.result = "SUCCESSFUL" /\ page'.paid = page.paid
  PROVE  SuccessMeansPaid'
BY DEF SuccessMeansPaid, TransfersKept

LEMMA PageKeys ==
  ASSUME TypeOK, KeyInv, SuccessMeansPaid, PageStep
  PROVE  KeyInv' /\ SuccessMeansPaid'
<1>1. /\ UNCHANGED <<sub, poll, backend>> /\ page'.visit = page.visit /\ page'.key = page.key
      /\ page'.result = "SUCCESSFUL" => page.result = "SUCCESSFUL" /\ page'.paid = page.paid
  BY PageType
<1>2. TransfersKept
  BY <1>1 DEF TransfersKept
<1>3. \A s \in Submissions : PollKnows(s)'
  BY <1>1 DEF KeyInv, PollKnows, RefKnows, Mine, Sent
<1> QED BY <1>1, <1>2, <1>3, BackendKept, SuccessKept

\* A new visit: nothing of the old one is polled or shown any more.
LEMMA LeaveKeys ==
  ASSUME TypeOK, KeyInv, Leave
  PROVE  KeyInv' /\ SuccessMeansPaid'
<1>1. page' = Opened(page.visit + 1) /\ UNCHANGED backend
  BY Zenon DEF Leave
<1>2. page'.visit = page.visit + 1 /\ page'.key = None /\ page'.result = "NONE"
  BY <1>1 DEF Opened
<1>3. ASSUME NEW s \in Submissions
      PROVE  /\ sub'[s].state = "idle" <=> sub[s].state = "idle"
             /\ sub'[s].key = sub[s].key /\ sub'[s].visit = sub[s].visit
             /\ sub'[s].state \notin {"accepted", "error", "polling"}
             /\ sub'[s].state = "sent" => sub[s].state = "sent"
  <2>1. sub[s] \in Submission
    BY DEF TypeOK
  <2>2. CASE sub[s].state \in {"accepted", "error", "polling"}
    <3>1. sub'[s] = [sub[s] EXCEPT !.state = "over", !.polls = 0]
      BY <2>2 DEF Leave
    <3> QED BY <2>1, <2>2, <3>1 DEF Submission
  <2>3. CASE sub[s].state \notin {"accepted", "error", "polling"}
    <3>1. sub'[s] = sub[s]
      BY <2>3 DEF Leave
    <3> QED BY <2>3, <3>1
  <2> QED BY <2>2, <2>3
<1>4. \A s \in Submissions, n \in Slots : poll'[s][n] = "free"
  BY DEF Leave
<1>5. page.visit \in Nat /\ \A s \in Submissions : sub[s].visit \in Nat
  BY MaxVisitsAssumption DEF TypeOK, Page, Submission
<1>6. PageKnows' /\ OneKey'
  BY <1>2, <1>3 DEF KeyInv, PageKnows, OneKey, Sent
<1>7. ASSUME NEW s \in Submissions 
      PROVE  KeyIsOfVisit(s)' /\ TransferKnows(s)' /\ ClaimKnows(s)' /\ PollKnows(s)'
  <2>1. KeyIsOfVisit(s)'
    BY <1>2, <1>3, <1>5 DEF KeyInv, KeyIsOfVisit, Sent
  <2>2. TransferKnows(s)'
    BY <1>1, <1>3 DEF KeyInv, TransferKnows, Sent
  <2>3. PollKnows(s)'
    BY <1>3, <1>4 DEF PollKnows
  <2>4. ClaimKnows(s)'
    BY <1>1, <1>3 DEF KeyInv, ClaimKnows, TypeOK
  <2> QED BY <2>1, <2>2, <2>3, <2>4
<1> QED BY <1>2, <1>6, <1>7 DEF KeyInv, SuccessMeansPaid

\* The only step that may draw a key.
LEMMA SubmitKeys ==
  ASSUME TypeOK, KeyInv, SuccessMeansPaid, NEW s \in Submissions, Submit(s)
  PROVE  KeyInv' /\ SuccessMeansPaid'
<1> DEFINE k == IdempotencyKey(s)
<1>1. /\ page \in Page /\ sub \in [Submissions -> Submission]
      /\ page.visit \in Nat /\ None \notin Submissions
      /\ page.key \in Submissions \cup {None}
  BY NoneAssumption, MaxVisitsAssumption DEF TypeOK, Page
<1>2. ~Sent(s) /\ UNCHANGED <<poll, backend>>
  BY DEF Submit, Sent
<1>3. /\ page'.visit = page.visit /\ page'.key = k
      /\ page'.result = page.result /\ page'.paid = page.paid
  BY <1>1 DEF Submit, Page
<1>4. /\ sub'[s].state = "sent" /\ sub'[s].visit = page.visit /\ sub'[s].key = k
      /\ \A q \in Submissions \ {s} : sub'[q] = sub[q]
  BY <1>1 DEF Submit
<1>5. /\ k \in Submissions
      /\ page.key = None => k = s
      /\ page.key # None => k = page.key /\ k # s
  BY <1>1, <1>2 DEF IdempotencyKey, KeyInv, PageKnows
<1>6. \A q \in Submissions : Sent(q) => sub[q].key # s \/ s = q
  BY <1>2 DEF KeyInv, KeyIsOfVisit
<1> HIDE DEF k
<1>7. \A q \in Submissions : Sent(q)' <=> (Sent(q) \/ q = s)
  BY <1>4 DEF Sent
<1>8. PageKnows'
  BY <1>3, <1>4, <1>5, <1>7 DEF KeyInv, PageKnows
<1>9. ASSUME NEW q \in Submissions, Sent(q), sub[q].visit = page.visit PROVE sub[q].key = k
  BY <1>1, <1>5, <1>9 DEF KeyInv, KeyIsOfVisit
<1>10. OneKey'
  BY <1>4, <1>7, <1>9 DEF KeyInv, OneKey
<1>11. ASSUME NEW q \in Submissions PROVE KeyIsOfVisit(q)'
  <2>1. CASE q = s
    BY <1>1, <1>3, <1>4, <1>5, <1>7, <2>1 DEF KeyInv, KeyIsOfVisit, PageKnows
  <2>2. CASE q # s
    BY <1>3, <1>4, <1>6, <1>7, <1>9, <2>2 DEF KeyInv, KeyIsOfVisit
  <2> QED BY <2>1, <2>2
<1>12. ASSUME NEW q \in Submissions PROVE TransferKnows(q)' /\ ClaimKnows(q)'
  <2>1. Made(q) => q # s
    BY <1>2 DEF KeyInv, TransferKnows
  <2>2. claim[q] # None => claim[q] \in Submissions /\ claim[q] # s
    BY <1>2 DEF KeyInv, TransferKnows, ClaimKnows, TypeOK
  <2> QED BY <1>2, <1>4, <1>7, <2>1, <2>2 DEF KeyInv, TransferKnows, ClaimKnows
<1>13. ASSUME NEW q \in Submissions PROVE PollKnows(q)'
  <2>1. CASE q = s
    BY <1>2, <1>4, <2>1 DEF KeyInv, PollKnows
  <2>2. CASE q # s
    BY <1>2, <1>3, <1>4, <1>7, <2>2 DEF KeyInv, PollKnows, RefKnows, Mine
  <2> QED BY <2>1, <2>2
<1>14. TransfersKept
  BY <1>2 DEF TransfersKept
<1> QED BY <1>3, <1>8, <1>10, <1>11, <1>12, <1>13, <1>14, SuccessKept DEF KeyInv

\* A request is answered: a transfer is made and gets the key or becomes an
\* orphan, or none is made.
LEMMA ServeKeys ==
  ASSUME TypeOK, KeyInv, SuccessMeansPaid, NEW s \in Submissions, Serve(s)
  PROVE  KeyInv' /\ SuccessMeansPaid'
<1> DEFINE k == sub[s].key
<1>1. /\ sub \in [Submissions -> Submission] /\ sub[s] \in Submission /\ Sent(s)
      /\ k \in Submissions /\ UNCHANGED <<page, poll>> /\ sub[s].state = "sent"
      /\ claim \in [Submissions -> Submissions \cup {None}] /\ s # None /\ ~Made(s)
  BY NoneAssumption DEF TypeOK, Serve, Sent, KeyInv, KeyIsOfVisit, TransferKnows
<1>2. \/ UNCHANGED backend
      \/ /\ transfer'[s].status # "NONE" /\ transfer'[s].visit = sub[s].visit
         /\ \A t \in Submissions \ {s} : transfer'[t] = transfer[t]
         /\ claim[k] = None
         /\ \/ claim' = [claim EXCEPT ![k] = s] /\ orphans' = orphans
            \/ claim' = claim /\ orphans' = orphans \cup {s}
  <2>1. \A status \in Statuses : Make(s, status) =>
          /\ transfer'[s].status # "NONE" /\ transfer'[s].visit = sub[s].visit
          /\ \A t \in Submissions \ {s} : transfer'[t] = transfer[t]
    BY DEF Make, TypeOK, Statuses
  <2>2. "PROCESSING" \in Statuses
    BY DEF Statuses
  <2> QED BY <2>1, <2>2 DEF Serve, Initiate, Replay, ThrowOrDie, Refuse
<1>3. PICK state \in {"accepted", "error", "over"}, ref \in Submissions \cup {None} :
        /\ sub' = [sub EXCEPT ![s].state = state, ![s].ref = ref]
        /\ state # "over" => Mine(s)
        /\ state = "accepted" => /\ ref \in Submissions /\ transfer'[ref].status # "NONE"
                                 /\ transfer'[ref].visit = sub[s].visit
  <2>1. CASE Replay(s)
    <3>1. claim[k] \in Submissions /\ Made(claim[k]) /\ sub[claim[k]].key = k /\ UNCHANGED transfer
      BY <1>1, <2>1 DEF Replay, KeyInv, ClaimKnows
    <3>2. transfer[claim[k]].visit = sub[s].visit
      BY <1>1, <3>1 DEF KeyInv, TransferKnows, KeyIsOfVisit
    <3>3. Reply(s, "accepted", claim[k]) \/ Reply(s, "error", None)
      BY <2>1 DEF Replay
    <3> HIDE DEF k
    <3> QED BY <3>1, <3>2, <3>3 DEF Reply
  <2>2. CASE Initiate(s)
    <3>1. transfer'[s].status # "NONE" /\ transfer'[s].visit = sub[s].visit
      BY <2>2 DEF Initiate, Make, TypeOK
    <3> QED BY <2>2, <3>1 DEF Initiate, Reply
  <2>3. CASE ThrowOrDie(s) \/ Refuse(s)
    BY <2>3 DEF ThrowOrDie, Refuse, Reply
  <2> QED BY <2>1, <2>2, <2>3 DEF Serve
<1>4. /\ sub'[s].state = state /\ sub'[s].ref = ref
      /\ sub'[s].key = k /\ sub'[s].visit = sub[s].visit
      /\ \A q \in Submissions \ {s} : sub'[q] = sub[q]
  BY <1>1, <1>3 DEF Submission
<1> HIDE DEF k
<1>5. TransfersKept
  BY <1>1, <1>2 DEF TransfersKept
<1>6. ASSUME NEW q \in Submissions PROVE PollKnows(q)'
  <2>1. CASE q = s
    <3>1. Mine(s)' <=> Mine(s)
      BY <1>1, <1>4 DEF Mine
    <3>2. \A n \in Slots : poll[s][n] = "free"
      BY <1>1 DEF KeyInv, PollKnows
    <3>3. state = "accepted" => RefKnows(s)'
      BY <1>3, <1>4, <3>1 DEF RefKnows
    <3> QED BY <1>1, <1>3, <1>4, <2>1, <3>1, <3>2, <3>3 DEF PollKnows
  <2>2. CASE q # s
    <3>1. sub'[q] = sub[q] /\ (Mine(q)' <=> Mine(q)) /\ (Sent(q)' <=> Sent(q)) /\ PollKnows(q)
      BY <1>1, <1>4, <2>2 DEF Mine, Sent, KeyInv
    <3>2. RefKnows(q) => RefKnows(q)' /\ (transfer[sub[q].ref].status = "SUCCESSFUL"
                                            => transfer'[sub[q].ref].status = "SUCCESSFUL")
      BY <1>5, <3>1 DEF RefKnows, TransfersKept
    <3> QED BY <1>1, <3>1, <3>2 DEF PollKnows
  <2> QED BY <2>1, <2>2
<1>7. \A t \in Submissions : transfer[t].status = "NONE" /\ transfer'[t].status # "NONE"
        => /\ Sent(t) /\ sub'[t].state # "sent" /\ transfer'[t].visit = sub[t].visit
           /\ t \in orphans' \/ claim'[sub[t].key] = t
  BY <1>1, <1>2, <1>4 DEF k
<1>8. /\ orphans \subseteq orphans'
      /\ \A j \in Submissions : claim[j] # None => claim'[j] = claim[j]
      /\ \A j \in Submissions : claim[j] = None /\ claim'[j] # None
           => /\ claim'[j] \in Submissions /\ transfer'[claim'[j]].status # "NONE"
              /\ sub[claim'[j]].key = j
  BY <1>1, <1>2 DEF k
<1>9. \A q \in Submissions : /\ sub'[q].state = "idle" <=> sub[q].state = "idle"
                             /\ sub'[q].state = "sent" => sub[q].state = "sent"
                             /\ sub'[q].key = sub[q].key /\ sub'[q].visit = sub[q].visit
  BY <1>1, <1>4 DEF k
<1>10. page'.visit = page.visit /\ page'.key = page.key
       /\ (page'.result = "SUCCESSFUL" => page.result = "SUCCESSFUL" /\ page'.paid = page.paid)
  BY <1>1
<1>11. KeyInv'
  BY <1>5, <1>6, <1>7, <1>8, <1>9, <1>10, KeysKept
<1> QED BY <1>5, <1>10, <1>11, SuccessKept

\* The steps that change neither a transfer nor a key: an answer, a tick of
\* the interval, a poll read at the backend, and a poll that goes on.
LEMMA PollKeys ==
  ASSUME TypeOK, KeyInv, SuccessMeansPaid, NEW s \in Submissions, NEW n,
         Answer(s) \/ (n \in Slots /\ (Tick(s, n) \/ PollRead(s, n)))
  PROVE  KeyInv' /\ SuccessMeansPaid'
<1>1. /\ sub \in [Submissions -> Submission] /\ sub[s] \in Submission /\ page \in Page
      /\ poll \in [Submissions -> [Slots -> {"free", "sent", "error"} \cup Statuses]]
  BY DEF TypeOK
<1>2. UNCHANGED backend /\ TransfersKept
  BY DEF Answer, Tick, PollRead, TransfersKept
<1>3. /\ page'.visit = page.visit /\ page'.key = page.key
      /\ page'.result = "SUCCESSFUL" => page.result = "SUCCESSFUL" /\ page'.paid = page.paid
  BY <1>1 DEF Answer, Tick, PollRead, Page
<1>4. \A q \in Submissions : /\ sub'[q].state = "idle" <=> sub[q].state = "idle"
                             /\ sub'[q].state = "sent" => sub[q].state = "sent"
                             /\ sub'[q].key = sub[q].key /\ sub'[q].visit = sub[q].visit
                             /\ sub'[q].ref = sub[q].ref
                             /\ q # s => sub'[q] = sub[q]
  BY <1>1 DEF Answer, Tick, PollRead, Submission
<1>5. \A q \in Submissions, m \in Slots :
        q # s \/ m # n => poll'[q][m] = poll[q][m]
  BY <1>1 DEF Answer, Tick, PollRead
<1>6. /\ sub'[s].state \in {"accepted", "polling"} => sub[s].state \in {"accepted", "polling"}
      /\ sub'[s].state = "error" => sub[s].state = "error"
  BY <1>1 DEF Answer, Tick, PollRead, Submission
<1>7. ASSUME n \in Slots
      PROVE  /\ poll'[s][n] # "free" => poll[s][n] # "free" \/ sub[s].state = "polling"
             /\ poll'[s][n] = "SUCCESSFUL" => transfer[sub[s].ref].status = "SUCCESSFUL"
  <2>1. CASE Answer(s)
    BY <1>7, <2>1 DEF Answer, KeyInv, PollKnows
  <2>2. CASE Tick(s, n)
    BY <1>1, <1>7, <2>2 DEF Tick
  <2>3. CASE PollRead(s, n)
    BY <1>1, <1>7, <2>3 DEF PollRead
  <2> QED BY <2>1, <2>2, <2>3
<1>8. ASSUME NEW q \in Submissions PROVE PollKnows(q)'
  <2>1. (Mine(q)' <=> Mine(q)) /\ (Sent(q)' <=> Sent(q)) /\ transfer' = transfer
        /\ sub'[q].ref = sub[q].ref /\ (RefKnows(q)' <=> RefKnows(q)) /\ PollKnows(q)
    BY <1>2, <1>3, <1>4 DEF Mine, Sent, RefKnows, KeyInv
  <2>2. CASE q = s
    BY <1>4, <1>5, <1>6, <1>7, <2>1, <2>2 DEF PollKnows, Sent
  <2>3. CASE q # s
    BY <1>4, <1>5, <2>1, <2>3 DEF PollKnows
  <2> QED BY <2>2, <2>3
<1>9. KeyInv'
  BY <1>2, <1>3, <1>4, <1>8, BackendKept
<1> QED BY <1>2, <1>3, <1>9, SuccessKept

LEMMA SettleKeys ==
  ASSUME TypeOK, KeyInv, SuccessMeansPaid, NEW k \in Submissions,
         NEW status \in {"SUCCESSFUL", "REVERSED"}, Settle(k, status)
  PROVE  KeyInv' /\ SuccessMeansPaid'
<1>1. UNCHANGED <<page, sub, poll, claim, orphans>> /\ transfer[k].status = "PROCESSING"
  BY DEF Settle
<1>2. \A j \in Submissions : /\ transfer'[j].status = "NONE" <=> transfer[j].status = "NONE"
                             /\ transfer[j].status = "SUCCESSFUL" => transfer'[j] = transfer[j]
                             /\ transfer'[j].visit = transfer[j].visit
                             /\ transfer'[j].kobo = transfer[j].kobo
  BY DEF Settle, TypeOK
<1>3. TransfersKept
  BY <1>2 DEF TransfersKept
<1>4. ASSUME NEW q \in Submissions PROVE PollKnows(q)'
  <2>1. PollKnows(q) /\ (Mine(q)' <=> Mine(q)) /\ (Sent(q)' <=> Sent(q))
    BY <1>1 DEF KeyInv, Mine, Sent
  <2>2. RefKnows(q) => RefKnows(q)' /\ (transfer[sub[q].ref].status = "SUCCESSFUL"
                                          => transfer'[sub[q].ref].status = "SUCCESSFUL")
    BY <1>1, <1>2, <2>1 DEF RefKnows
  <2> QED BY <1>1, <2>1, <2>2 DEF PollKnows
<1>5. KeyInv'
  BY <1>1, <1>2, <1>3, <1>4, KeysKept
<1> QED BY <1>1, <1>3, <1>5, SuccessKept

\* A poll is answered: the screen goes on waiting, or shows what it saw.
LEMMA PollAnswerKeys ==
  ASSUME TypeOK, KeyInv, SuccessMeansPaid, NEW s \in Submissions, NEW n \in Slots,
         PollAnswer(s, n)
  PROVE  KeyInv' /\ SuccessMeansPaid'
<1> DEFINE k == sub[s].ref
<1>1. /\ sub \in [Submissions -> Submission] /\ sub[s] \in Submission /\ page \in Page
      /\ poll \in [Submissions -> [Slots -> {"free", "sent", "error"} \cup Statuses]]
      /\ UNCHANGED backend /\ TransfersKept
  BY DEF TypeOK, PollAnswer, TransfersKept
<1>2. Sent(s) /\ Mine(s) /\ k \in Submissions /\ transfer[k].visit = page.visit
      /\ sub[s].state # "sent"
  BY DEF PollAnswer, KeyInv, PollKnows, RefKnows, Mine
<1>3. /\ page'.visit = page.visit /\ page'.key = page.key
      /\ \/ page'.result = page.result /\ page'.paid = page.paid
         \/ page'.result # "SUCCESSFUL"
         \/ poll[s][n] = "SUCCESSFUL" /\ page'.paid = transfer[k].kobo
  BY <1>1 DEF PollAnswer, Show, ResultOf, Page
<1>4. \A q \in Submissions : /\ sub'[q].state = sub[q].state \/ (q = s /\ sub'[q].state = "over")
                             /\ sub'[q].key = sub[q].key /\ sub'[q].visit = sub[q].visit
                             /\ sub'[q].ref = sub[q].ref
  BY <1>1 DEF PollAnswer, Show, Submission
<1>5. \A q \in Submissions, m \in Slots : poll'[q][m] \in {poll[q][m], "free"}
  BY <1>1 DEF PollAnswer
<1>6. \A q \in Submissions : sub'[q].state = "idle" <=> sub[q].state = "idle"
  BY <1>2, <1>4 DEF Sent
<1>7. ASSUME NEW q \in Submissions PROVE PollKnows(q)'
  <2>1. (Mine(q)' <=> Mine(q)) /\ (Sent(q)' <=> Sent(q)) /\ (RefKnows(q)' <=> RefKnows(q))
        /\ PollKnows(q)
    BY <1>1, <1>3, <1>4, <1>6 DEF Mine, Sent, RefKnows, KeyInv
  <2> QED BY <1>1, <1>4, <1>5, <2>1 DEF PollKnows
<1>8. KeyInv'
  BY <1>1, <1>3, <1>4, <1>6, <1>7, BackendKept
<1>9. CASE poll[s][n] = "SUCCESSFUL" /\ page'.paid = transfer[k].kobo
  <2>1. transfer[k].status = "SUCCESSFUL"
    BY <1>9 DEF KeyInv, PollKnows
  <2> QED BY <1>1, <1>2, <1>3, <1>8, <1>9, <2>1 DEF SuccessMeansPaid
<1> QED BY <1>1, <1>3, <1>8, <1>9, SuccessKept

LEMMA KeyNext == IInv /\ [Next]_vars => IInv'
<1> SUFFICES ASSUME IInv, [Next]_vars PROVE IInv'
  OBVIOUS
<1>1. TypeOK /\ KeyInv /\ SuccessMeansPaid
  BY DEF IInv
<1>2. CASE PageStep
  BY <1>1, <1>2, PageType, PageKeys DEF IInv
<1>3. CASE Leave
  BY <1>1, <1>3, LeaveType, LeaveKeys DEF IInv
<1>4. ASSUME NEW s \in Submissions, Submit(s) \/ Serve(s) PROVE IInv'
  BY <1>1, <1>4, SubmissionType, SubmitKeys, ServeKeys DEF IInv
<1>5. ASSUME NEW s \in Submissions, Answer(s) PROVE IInv'
  <2>1. TypeOK'
    BY <1>1, <1>5, SubmissionType
  <2> QED BY <1>1, <1>5, <2>1, PollKeys DEF IInv
<1>6. ASSUME NEW k \in Submissions, NEW status \in {"SUCCESSFUL", "REVERSED"}, Settle(k, status)
      PROVE  IInv'
  BY <1>1, <1>6, SubmissionType, SettleKeys DEF IInv
<1>7. ASSUME NEW s \in Submissions, NEW n \in Slots,
             Tick(s, n) \/ PollRead(s, n) \/ PollAnswer(s, n)
      PROVE  IInv'
  BY <1>1, <1>7, SubmissionType, PollKeys, PollAnswerKeys DEF IInv
<1>8. CASE UNCHANGED vars
  BY <1>1, <1>8 DEF vars, IInv, TypeOK, KeyInv, PageKnows, OneKey, KeyIsOfVisit, TransferKnows,
     ClaimKnows, PollKnows, RefKnows, Mine, Sent, SuccessMeansPaid
<1> QED BY <1>2, <1>3, <1>4, <1>5, <1>6, <1>7, <1>8, NextCases

\* The inductive invariant, for all values of the constants.
THEOREM Inductive == Spec => []IInv
<1>1. Init => IInv
  BY TypeInit, KeyInit DEF IInv
<1> QED BY <1>1, KeyNext, PTL DEF Spec

\* The state of the screen, its submissions and polls keep their shape: no
\* poll ever reads a transfer that does not exist.
THEOREM TypeCorrect == Spec => []TypeOK
<1>1. IInv => TypeOK
  BY DEF IInv
<1> QED BY <1>1, Inductive, PTL

\* Try Again, after any edits and however many lost answers, makes a further
\* transfer within a visit only after orphans: the visit has one key, and a
\* handler that returned has completed it.
THEOREM VisitsPayOnce == Spec => OneTransferPerVisit
<1>1. ASSUME IInv, [Next]_vars, NEW s \in Submissions, NEW t \in Submissions,
             ~Made(s), Made(s)', Made(t), transfer[t].visit = sub[s].visit
      PROVE  t \in orphans
  <2>1. TypeOK /\ KeyInv
    BY <1>1 DEF IInv
  <2>2. PICK q \in Submissions : Serve(q) /\ transfer' # transfer
    <3>1. ASSUME NEW u \in Submissions, NEW status \in {"SUCCESSFUL", "REVERSED"}
          PROVE  ~Settle(u, status)
      BY <1>1, <2>1 DEF Settle, TypeOK
    <3>2. transfer' # transfer
      BY <1>1
    <3> QED BY <1>1, <3>1, <3>2, PageType, <2>1, NextCases
         DEF Leave, Submit, Answer, Tick, PollRead, PollAnswer, vars
  <2>3. \E status \in Statuses : Make(q, status)
    BY <2>2 DEF Serve, Initiate, Replay, ThrowOrDie, Refuse, Statuses
  <2>4. q = s
    BY <1>1, <2>1, <2>3 DEF Make, TypeOK
  <2>5. claim[sub[s].key] = None /\ sub[s].state = "sent"
    BY <2>2, <2>4 DEF Serve, Initiate, Replay, ThrowOrDie, Refuse
  <2>6. Sent(s) /\ Sent(t) /\ sub[t].visit = sub[s].visit
    BY <1>1, <2>1, <2>5 DEF Sent, KeyInv, TransferKnows
  <2>7. sub[t].key = sub[s].key
    BY <2>1, <2>6 DEF KeyInv, OneKey
  <2> QED BY <1>1, <2>1, <2>5, <2>7, NoneAssumption DEF KeyInv, TransferKnows
<1>2. IInv /\ [Next]_vars =>
        [\A s, t \in Submissions :
           /\ ~Made(s) /\ Made(s)'
           /\ Made(t) /\ transfer[t].visit = sub[s].visit
           => t \in orphans]_vars
  BY <1>1
<1> QED BY <1>2, Inductive, PTL DEF Spec, OneTransferPerVisit

\* A success on the screen is one at the backend, of this visit and with the
\* amount shown.
THEOREM SuccessIsTrue == Spec => []SuccessMeansPaid
<1>1. IInv => SuccessMeansPaid
  BY DEF IInv
<1> QED BY <1>1, Inductive, PTL
=============================================================================
