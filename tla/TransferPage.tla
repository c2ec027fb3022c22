---------------------------- MODULE TransferPage ----------------------------
(***************************************************************************)
(* The Send Money screen of the web client (Transfer.jsx with its four     *)
(* steps and api/transfer.js) against the backend it talks to: the wizard, *)
(* the submission, the polling of the transfer's status every three        *)
(* seconds, and Try Again.  Requests and polls are answered in any order,  *)
(* late, or with an error; leaving the screen forgets its state, and what  *)
(* was sent is still carried out.                                          *)
(*                                                                         *)
(* The backend is reduced to what the screen sees of it.  A request makes  *)
(* a transfer whose status moves from PROCESSING to SUCCESSFUL or REVERSED *)
(* (ExternalTransfer); if its handler returns, the idempotency key stands  *)
(* for that transfer, which is replayed to whoever presents the key again  *)
(* (Idempotency).  A handler that throws, after a rejected or timed out    *)
(* payout for example, gives the key back and may leave its transfer       *)
(* behind; a handler that dies leaves both, and the key is given back when *)
(* the claim is stale.  A key and a transfer are named after the           *)
(* submission that drew or made it.                                        *)
(*                                                                         *)
(* KeyPerCall, TimeoutIsSuccess and PollForever are plausible mistakes in  *)
(* the code of the definition that follows them; no behaviour uses them.   *)
(***************************************************************************)
EXTENDS Integers, Money

CONSTANTS
  Recipients,   \* bank, account number and name
  Kobos,        \* amounts typed
  MinKobo,      \* the smallest amount the screen accepts, 10000
  Submissions,  \* calls of handleSubmitTransfer
  Slots,        \* bound: polls of one submission in flight at once
  MaxPolls,     \* maxPolls
  MaxVisits,    \* bound: times the screen is opened
  None          \* null

ASSUME KobosAssumption == Kobos \subseteq Nat /\ MinKobo \in Nat
ASSUME MaxPollsAssumption == MaxPolls \in Nat \ {0}
ASSUME NoneAssumption == None \notin Submissions \cup Recipients
ASSUME MaxVisitsAssumption == MaxVisits \in Nat \ {0}

VARIABLES
  page,      \* the component's state, from one mount to the next
  sub,       \* the submissions: what each closure holds
  poll,      \* the polls in flight of each submission
  transfer,  \* the backend's transfers, by the submission that made them
  claim,     \* the transfer each idempotency key stands for
  orphans    \* transfers whose handler did not return

backend == <<transfer, claim, orphans>>

vars == <<page, sub, poll, transfer, claim, orphans>>

Page == [visit: 1..MaxVisits, step: {"recipient", "amount", "confirm", "status"},
         recipient: Recipients \cup {None}, kobo: Nat, account: BOOLEAN,
         loading: BOOLEAN, result: {"NONE", "SUCCESSFUL", "FAILED"},
         paid: Nat, key: Submissions \cup {None}]

\* to, kobo, key: what was posted; ref: the transfer the answer names; polls:
\* ticks of its interval.
Submission == [state: {"idle", "sent", "accepted", "error", "polling", "over"},
               visit: 0..MaxVisits, to: Recipients \cup {None}, kobo: Nat,
               key: Submissions \cup {None}, ref: Submissions \cup {None},
               polls: 0..MaxPolls]

Statuses == {"PENDING", "PROCESSING", "SUCCESSFUL", "REVERSED"}

TypeOK ==
  /\ page \in Page
  /\ sub \in [Submissions -> Submission]
  /\ poll \in [Submissions -> [Slots -> {"free", "sent", "error"} \cup Statuses]]
  /\ transfer \in [Submissions -> [status: {"NONE"} \cup Statuses, visit: 0..MaxVisits,
                                   to: Recipients \cup {None}, kobo: Nat]]
  /\ claim \in [Submissions -> Submissions \cup {None}]
  /\ orphans \subseteq Submissions

Opened(visit) ==
  [visit |-> visit, step |-> "recipient", recipient |-> None, kobo |-> 0,
   account |-> FALSE, loading |-> FALSE, result |-> "NONE", paid |-> 0, key |-> None]

Init ==
  /\ page = Opened(1)
  /\ sub = [s \in Submissions |-> [state |-> "idle", visit |-> 0, to |-> None, kobo |-> 0,
                                   key |-> None, ref |-> None, polls |-> 0]]
  /\ poll = [s \in Submissions |-> [n \in Slots |-> "free"]]
  /\ transfer = [t \in Submissions |-> [status |-> "NONE", visit |-> 0, to |-> None, kobo |-> 0]]
  /\ claim = [k \in Submissions |-> None]
  /\ orphans = {}

Mine(s) == sub[s].visit = page.visit

-----------------------------------------------------------------------------
(***************************************************************************)
(* The wizard.                                                             *)
(***************************************************************************)
\* The mount effect: GET /accounts/me; on a failure it stays null.
LoadAccount ==
  /\ ~page.account
  /\ page' = [page EXCEPT !.account = TRUE]
  /\ UNCHANGED <<sub, poll, backend>>

SelectRecipient(r) ==
  /\ page.step = "recipient"
  /\ page' = [page EXCEPT !.recipient = r, !.step = "amount"]
  /\ UNCHANGED <<sub, poll, backend>>

ConfirmAmount(kobo) ==
  /\ page.step = "amount" /\ kobo >= MinKobo
  /\ page' = [page EXCEPT !.kobo = kobo, !.step = "confirm"]
  /\ UNCHANGED <<sub, poll, backend>>

\* The back arrow, and Edit on the confirmation.
Back ==
  /\ page.step \in {"amount", "confirm"}
  /\ page' = [page EXCEPT !.step = IF @ = "amount" THEN "recipient" ELSE "amount"]
  /\ UNCHANGED <<sub, poll, backend>>

\* A spinner while the page is loading or has no result, else the result.
StatusStep(result) == page.step = "status" /\ ~page.loading /\ page.result = result

\* Try Again, offered under a failure.
Retry ==
  /\ StatusStep("FAILED")
  /\ page' = [page EXCEPT !.result = "NONE", !.paid = 0, !.step = "confirm"]
  /\ UNCHANGED <<sub, poll, backend>>

\* Go Home, Back to Home, the first back arrow or the navigation bar: the
\* component is unmounted, its timers run on and set nothing any more.
Leave ==
  /\ page.visit < MaxVisits
  /\ page' = Opened(page.visit + 1)
  /\ sub' = [s \in Submissions |->
       IF sub[s].state \in {"accepted", "error", "polling"}
       THEN [sub[s] EXCEPT !.state = "over", !.polls = 0] ELSE sub[s]]
  /\ poll' = [s \in Submissions |-> [n \in Slots |-> "free"]]
  /\ UNCHANGED backend

-----------------------------------------------------------------------------
(***************************************************************************)
(* handleSubmitTransfer and the request it sends.                          *)
(***************************************************************************)
KeyPerCall(s) == s

\* Drawn once, at the first submission after the screen was opened.
IdempotencyKey(s) == IF page.key = None THEN s ELSE page.key

\* Details for review, with the button that submits them.
ConfirmStep == page.step = "confirm"

SubmitNoAccount ==
  /\ ConfirmStep /\ ~page.account
  /\ page' = [page EXCEPT !.result = "FAILED", !.step = "status"]
  /\ UNCHANGED <<sub, poll, backend>>

Submit(s) ==
  /\ ConfirmStep /\ page.account
  /\ sub[s].state = "idle"
  /\ page' = [page EXCEPT !.loading = TRUE, !.step = "status", !.key = IdempotencyKey(s)]
  /\ sub' = [sub EXCEPT ![s] =
       [state |-> "sent", visit |-> page.visit, to |-> page.recipient,
        kobo |-> FromDecimalString(ToFixed2(page.kobo)), key |-> IdempotencyKey(s),
        ref |-> None, polls |-> 0]]
  /\ UNCHANGED <<poll, backend>>

\* The backend.  Leaving the screen does not recall a request, but nobody
\* awaits its answer any more.
Reply(s, state, ref) ==
  sub' = [sub EXCEPT ![s].state = IF Mine(s) THEN state ELSE "over", ![s].ref = ref]

Make(s, status) ==
  transfer' = [transfer EXCEPT ![s] = [status |-> status, visit |-> sub[s].visit,
                                       to |-> sub[s].to, kobo |-> sub[s].kobo]]

\* A free key makes a transfer, a completed one replays its transfer whatever
\* the body says; either answer may be lost.
Initiate(s) ==
  /\ claim[sub[s].key] = None
  /\ Make(s, "PROCESSING")
  /\ claim' = [claim EXCEPT ![sub[s].key] = s]
  /\ Reply(s, "accepted", s) \/ Reply(s, "error", None)
  /\ UNCHANGED orphans

Replay(s) ==
  /\ claim[sub[s].key] # None
  /\ Reply(s, "accepted", claim[sub[s].key]) \/ Reply(s, "error", None)
  /\ UNCHANGED backend

\* The handler throws or dies with its transfer stored: REVERSED after a
\* payout that was rejected or seemed to be, in any state when the
\* compensation failed too.  The key is free again.
ThrowOrDie(s) ==
  /\ claim[sub[s].key] = None
  /\ \E status \in Statuses : Make(s, status)
  /\ orphans' = orphans \cup {s}
  /\ Reply(s, "error", None)
  /\ UNCHANGED claim

\* Refused with nothing made: validation, limits, funds, the key in progress.
Refuse(s) == Reply(s, "error", None) /\ UNCHANGED backend

Serve(s) ==
  /\ sub[s].state = "sent"
  /\ Initiate(s) \/ Replay(s) \/ ThrowOrDie(s) \/ Refuse(s)
  /\ UNCHANGED <<page, poll>>

\* The provider's webhook, or the failure of the payout.
Settle(t, status) ==
  /\ transfer[t].status = "PROCESSING"
  /\ transfer' = [transfer EXCEPT ![t].status = status]
  /\ UNCHANGED <<page, sub, poll, claim, orphans>>

\* The answer to the submission: start polling, or show the failure.
Answer(s) ==
  /\ \/ /\ sub[s].state = "accepted"
        /\ sub' = [sub EXCEPT ![s].state = "polling"]
        /\ UNCHANGED page
     \/ /\ sub[s].state = "error"
        /\ sub' = [sub EXCEPT ![s].state = "over"]
        /\ page' = [page EXCEPT !.result = "FAILED", !.loading = FALSE]
  /\ UNCHANGED <<poll, backend>>

-----------------------------------------------------------------------------
(***************************************************************************)
(* pollStatus: an interval with an asynchronous callback, so a tick does   *)
(* not wait for the answer to the one before it.                           *)
(***************************************************************************)
Tick(s, n) ==
  /\ sub[s].state = "polling" /\ poll[s][n] = "free"
  /\ sub' = [sub EXCEPT ![s].polls = IF @ < MaxPolls THEN @ + 1 ELSE @]
  /\ poll' = [poll EXCEPT ![s][n] = "sent"]
  /\ UNCHANGED <<page, backend>>

\* GET /transfers/:reference, read at the backend, or failing on the way.
PollRead(s, n) ==
  /\ poll[s][n] = "sent"
  /\ \E seen \in {transfer[sub[s].ref].status, "error"} :
       poll' = [poll EXCEPT ![s][n] = seen]
  /\ UNCHANGED <<page, sub, backend>>

Show(s, n, result) ==
  /\ sub' = [sub EXCEPT ![s].state = "over"]
  /\ page' = [page EXCEPT !.result = result, !.loading = FALSE,
                          !.paid = IF result = "SUCCESSFUL" THEN transfer[sub[s].ref].kobo ELSE 0]

\* The interval is cleared when a result is shown; polls already in flight
\* are answered all the same.
TimeoutIsSuccess(s, n) ==
  IF poll[s][n] \in {"SUCCESSFUL", "PENDING", "PROCESSING"} THEN "SUCCESSFUL" ELSE "FAILED"

ResultOf(s, n) == IF poll[s][n] = "SUCCESSFUL" THEN "SUCCESSFUL" ELSE "FAILED"

PollForever(s, n) == poll[s][n] \in {"PENDING", "PROCESSING"}

KeepPolling(s, n) == poll[s][n] \in {"PENDING", "PROCESSING"} /\ sub[s].polls < MaxPolls

PollAnswer(s, n) ==
  /\ poll[s][n] \notin {"free", "sent"}
  /\ IF KeepPolling(s, n)
     THEN UNCHANGED <<page, sub>>
     ELSE Show(s, n, ResultOf(s, n))
  /\ poll' = [poll EXCEPT ![s][n] = "free"]
  /\ UNCHANGED backend

-----------------------------------------------------------------------------
Next ==
  \/ LoadAccount \/ Back \/ Retry \/ Leave \/ SubmitNoAccount
  \/ \E r \in Recipients : SelectRecipient(r)
  \/ \E kobo \in Kobos : ConfirmAmount(kobo)
  \/ \E s \in Submissions : Submit(s) \/ Serve(s) \/ Answer(s)
  \/ \E t \in Submissions, status \in {"SUCCESSFUL", "REVERSED"} : Settle(t, status)
  \/ \E s \in Submissions, n \in Slots : Tick(s, n) \/ PollRead(s, n) \/ PollAnswer(s, n)

Spec == Init /\ [][Next]_vars

\* The browser runs its timers and callbacks, and a request is answered or
\* fails; nobody need press a button and no webhook need arrive.
Fairness ==
  /\ \A s \in Submissions : WF_vars(Serve(s)) /\ WF_vars(Answer(s))
  /\ \A s \in Submissions, n \in Slots :
       WF_vars(Tick(s, n)) /\ WF_vars(PollRead(s, n)) /\ WF_vars(PollAnswer(s, n))

FairSpec == Spec /\ Fairness

-----------------------------------------------------------------------------
(***************************************************************************)
(* Properties.                                                             *)
(***************************************************************************)
Made(t) == transfer[t].status # "NONE"

\* However often the customer presses Try Again between opening the screen
\* and leaving it, and whatever is edited in between, a further transfer is
\* made only if no handler before it in this visit returned: a submission
\* whose answer was lost, whose polls ran out or which was reversed later is
\* not made again.  Transfer.jsx:33-34 says more, that "a retried submit
\* replays the original transfer's result"; the backend releases the key of a
\* handler that threw, and then a retry makes a second transfer.
OneTransferPerVisit ==
  [][\A s, t \in Submissions :
       /\ ~Made(s) /\ Made(s)'
       /\ Made(t) /\ transfer[t].visit = sub[s].visit
       => t \in orphans]_vars

\* A success screen stands for a transfer of this visit that the backend
\* holds as SUCCESSFUL, and shows its amount, although polls are answered
\* late and out of order and after further submissions (Transfer.jsx,
\* pollStatus; StatusStep.jsx).
SuccessMeansPaid ==
  page.result = "SUCCESSFUL"
    => \E t \in Submissions : /\ transfer[t].status = "SUCCESSFUL"
                              /\ transfer[t].visit = page.visit
                              /\ transfer[t].kobo = page.paid

\* The spinner does not turn for ever, even when no webhook ever arrives:
\* the submission fails, a poll reports an end, or the polls run out.
SpinnerEnds == page.loading ~> ~page.loading
=============================================================================
