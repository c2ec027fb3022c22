--------------------------- MODULE TransferLimits ---------------------------
(***************************************************************************)
(* What stands between a transfer request and its money, for one source    *)
(* account: the amount in the body is parsed, KycTransferLimitChecker      *)
(* holds it against the limits of the customer's tier, the fee schedule    *)
(* prices it, and PrismaLedgerRecorder books an external payout through    *)
(* the system accounts, whose running balance is read from their newest    *)
(* entry.  The checks read the database one query at a time and nothing    *)
(* locks what they read.                                                   *)
(*                                                                         *)
(* The customer's own account is the business of ExternalTransfer and      *)
(* InternalTransfer and is left out.  A handler may die or throw at every  *)
(* step after the transfer's row is written, the provider then delivers    *)
(* the webhook again, and two failure webhooks of a transfer may be served *)
(* at once.                                                                *)
(*                                                                         *)
(* History: `raced' and `overlapped' say whether a daily sum was read      *)
(* while another transfer had passed its check and did not count yet, and  *)
(* whether two postings to one system account overlapped; `lost' holds the *)
(* transfers a handler of which failed, `repeated' those whose failure was *)
(* served twice at once.                                                   *)
(*                                                                         *)
(* The names of the specification start with Limits because the proofs     *)
(* extend the executor's module too.                                       *)
(*                                                                         *)
(* DailyBefore, Unsigned and PostThenSave are plausible mistakes in the    *)
(* code of the definition that follows them; no behaviour uses them.       *)
(***************************************************************************)
EXTENDS Integers, FiniteSets, FiniteSetsExt, Money

CONSTANTS
  Requests,    \* transfer requests from this account
  Decimals,    \* amounts as they stand in the body
  Window,      \* ROLLING_WINDOW_MS, in ticks
  MaxClock,    \* bound: ticks
  MaxFailures  \* bound: handlers that fail, and webhooks served twice at once

\* A table has finitely many rows; a digit is a digit.
ASSUME RequestsAssumption == IsFiniteSet(Requests)
ASSUME DecimalsAssumption == Decimals \subseteq [major: Nat, minor: Seq(0..9)]

ASSUME WindowAssumption == Window \in Nat
ASSUME MaxClockAssumption == MaxClock \in Nat
ASSUME MaxFailuresAssumption == MaxFailures \in Nat

VARIABLES
  req,        \* the requests, with the transfer row each makes
  tier,       \* the profile's tier; 0 while there is no profile
  ledger,     \* each system account: its newest balanceAfter and what was posted
  booked,     \* the sum of the entries under each transfer's reference
  twin,       \* a second failure webhook of each transfer, served meanwhile
  clock,
  failures,   \* failed handlers and second deliveries so far
  raced, overlapped, lost, repeated

limitsVars ==
  <<req, tier, ledger, booked, twin, clock, failures, raced, overlapped, lost, repeated>>

\* What only a posting, a fault or a second delivery changes.
postings == <<ledger, booked, twin, failures, overlapped, lost, repeated>>

SystemAccounts == {"clearing", "settled", "revenue"}

Legs == [SystemAccounts -> Int]

RequestSteps == {"idle", "tier", "limit", "sum", "save", "read", "insert", "payout",
                 "processing", "mark", "done", "refused"}

\* The transfer row, and the posting under way: its legs, those whose balance
\* was read, the balances, and the status that follows it (NONE: the handler
\* throws instead).
Request == [pc: RequestSteps, type: {"INTERNAL", "EXTERNAL"}, kobo: Nat, tier: 0..3,
            status: {"NONE", "PENDING", "PROCESSING", "SUCCESSFUL", "REVERSED"},
            createdAt: Nat, legs: Legs, read: SUBSET SystemAccounts, seen: Legs,
            then: {"NONE", "PENDING", "SUCCESSFUL", "REVERSED"}]

LimitsTypeOK ==
  /\ req \in [Requests -> Request]
  /\ tier \in 0..3
  /\ ledger \in [SystemAccounts -> [newest: Int, posted: Int]]
  /\ booked \in [Requests -> Legs]
  /\ twin \in [Requests -> [pc: {"none", "read", "insert", "mark"}, seen: Int]]
  /\ clock \in Nat /\ failures \in Nat
  /\ raced \in BOOLEAN /\ overlapped \in BOOLEAN
  /\ lost \subseteq Requests /\ repeated \subseteq Requests

-----------------------------------------------------------------------------
(***************************************************************************)
(* The figures: kyc-tier-limits.policy.ts, flat-rate-fee-calculator.       *)
(***************************************************************************)
Naira(major) == FromDecimalString([major |-> major, minor |-> <<>>])

DefaultLimits ==
  <<[perTransaction |-> Naira(50000), daily |-> Naira(50000)],
    [perTransaction |-> Naira(200000), daily |-> Naira(200000)],
    [perTransaction |-> Naira(5000000), daily |-> Naira(5000000)]>>

ResolveTier == IF tier = 0 THEN 1 ELSE tier

Fee(kobo, type) ==
  IF type = "INTERNAL" THEN 0
  ELSE IF kobo <= Naira(5000) THEN Naira(10)
  ELSE IF kobo <= Naira(50000) THEN Naira(25)
  ELSE Naira(50)

TotalDebit(r) == req[r].kobo + Fee(req[r].kobo, req[r].type)

-----------------------------------------------------------------------------
(***************************************************************************)
(* The ledger: the legs of a posting on the system accounts, signed as     *)
(* computeRunningBalance does, a credit up and a debit down.               *)
(***************************************************************************)
NoLegs == [a \in SystemAccounts |-> 0]

HoldLegs(r) == [NoLegs EXCEPT !["clearing"] = TotalDebit(r)]

SettlementLegs(r) ==
  [NoLegs EXCEPT !["clearing"] = -TotalDebit(r), !["settled"] = req[r].kobo,
                 !["revenue"] = Fee(req[r].kobo, req[r].type)]

ReliefLegs(r) == [NoLegs EXCEPT !["clearing"] = -TotalDebit(r)]

TouchedBy(legs) == {a \in SystemAccounts : legs[a] # 0}

Unsigned(seen, delta) == seen + (IF delta > 0 THEN delta ELSE -delta)
RunningBalance(seen, delta) == seen + delta

-----------------------------------------------------------------------------
LimitsInit ==
  /\ req = [r \in Requests |-> [pc |-> "idle", type |-> "INTERNAL", kobo |-> 0, tier |-> 0,
                                status |-> "NONE", createdAt |-> 0, legs |-> NoLegs,
                                read |-> {}, seen |-> NoLegs, then |-> "PENDING"]]
  /\ tier \in {0, 1}
  /\ ledger = [a \in SystemAccounts |-> [newest |-> 0, posted |-> 0]]
  /\ booked = [r \in Requests |-> NoLegs]
  /\ twin = [r \in Requests |-> [pc |-> "none", seen |-> 0]]
  /\ clock = 0 /\ failures = 0
  /\ raced = FALSE /\ overlapped = FALSE
  /\ lost = {} /\ repeated = {}

Go(r, pc) == req' = [req EXCEPT ![r].pc = pc]

\* transfers.controller.ts; a malformed amount is refused.
Receive(r) ==
  /\ req[r].pc = "idle"
  /\ \E type \in {"INTERNAL", "EXTERNAL"}, decimal \in Decimals :
       req' = [req EXCEPT ![r].type = type,
                          ![r].kobo = IF WellFormed(decimal) THEN FromDecimalString(decimal) ELSE 0,
                          ![r].pc = IF WellFormed(decimal) THEN "tier" ELSE "refused"]
  /\ UNCHANGED <<tier, clock, raced, postings>>

-----------------------------------------------------------------------------
(***************************************************************************)
(* assertWithinLimits.                                                     *)
(***************************************************************************)
ReadTier(r) ==
  /\ req[r].pc = "tier"
  /\ req' = [req EXCEPT ![r].tier = ResolveTier, ![r].pc = "limit"]
  /\ UNCHANGED <<tier, clock, raced, postings>>

CheckTransaction(r) ==
  /\ req[r].pc = "limit"
  /\ Go(r, IF DefaultLimits[req[r].tier].perTransaction >= req[r].kobo THEN "sum" ELSE "refused")
  /\ UNCHANGED <<tier, clock, raced, postings>>

\* status IN (SUCCESSFUL, PROCESSING) AND created_at >= now - 24 h: a
\* PENDING transfer, its payout still under way, does not count.
Counts(r) == /\ req[r].status \in {"SUCCESSFUL", "PROCESSING"}
             /\ req[r].createdAt >= clock - Window

SumSourceAmountSince == MapThenSumSet(LAMBDA r : req[r].kobo, {r \in Requests : Counts(r)})

DailyBefore(r) == DefaultLimits[req[r].tier].daily >= SumSourceAmountSince
WithinDaily(r) == DefaultLimits[req[r].tier].daily >= SumSourceAmountSince + req[r].kobo

\* Past the check and not counted yet.
Unseen(r) == req[r].pc \in {"save", "read", "insert", "payout", "mark"}
               /\ req[r].status \in {"NONE", "PENDING"}

CheckDaily(r) ==
  /\ req[r].pc = "sum"
  /\ Go(r, IF WithinDaily(r) THEN "save" ELSE "refused")
  /\ raced' = (raced \/ \E q \in Requests \ {r} : Unseen(q))
  /\ UNCHANGED <<tier, clock, postings>>

-----------------------------------------------------------------------------
(***************************************************************************)
(* The transfer.  An internal one commits as SUCCESSFUL; an external one   *)
(* is saved PENDING, its hold posted, and its payout asked for.            *)
(***************************************************************************)
Save(r) ==
  /\ req[r].pc = "save"
  /\ IF req[r].type = "INTERNAL"
     THEN req' = [req EXCEPT ![r].status = "SUCCESSFUL", ![r].createdAt = clock, ![r].pc = "done"]
     ELSE req' = [req EXCEPT ![r].status = "PENDING", ![r].createdAt = clock,
                             ![r].legs = HoldLegs(r), ![r].then = "PENDING", ![r].pc = "read"]
  /\ UNCHANGED <<tier, clock, raced, postings>>

\* post: one query per leg for the newest entry, in this order.
LegOrder == <<"clearing", "settled", "revenue">>

PostRead(r) ==
  /\ req[r].pc = "read"
  /\ LET unread == TouchedBy(req[r].legs) \ req[r].read
         n == Min({i \in 1..3 : LegOrder[i] \in unread})
     IN  req' = [req EXCEPT ![r].read = @ \cup {LegOrder[n]},
                            ![r].seen[LegOrder[n]] = ledger[LegOrder[n]].newest,
                            ![r].pc = IF unread = {LegOrder[n]} THEN "insert" ELSE "read"]
  /\ UNCHANGED <<tier, clock, raced, postings>>

\* createMany: one insert of all the legs.  Others that read a balance before
\* it are overlapped by it.
Insert(r, legs, seen, readers) ==
  /\ ledger' = [a \in SystemAccounts |->
       IF a \in TouchedBy(legs)
       THEN [newest |-> RunningBalance(seen[a], legs[a]), posted |-> ledger[a].posted + legs[a]]
       ELSE ledger[a]]
  /\ booked' = [booked EXCEPT ![r] = [a \in SystemAccounts |-> @[a] + legs[a]]]
  /\ overlapped' = (overlapped \/ readers \cap TouchedBy(legs) # {})

ReadBy(handlers) == UNION {req[q].read : q \in handlers}
ReadByTwins(handlers) ==
  IF \E q \in handlers : twin[q].pc = "insert" THEN {"clearing"} ELSE {}

\* The end of a posting: no legs are left to write.
Posted(r, pc) ==
  req' = [req EXCEPT ![r].legs = NoLegs, ![r].read = {}, ![r].seen = NoLegs, ![r].pc = pc]

PostInsert(r) ==
  /\ req[r].pc = "insert"
  /\ Insert(r, req[r].legs, req[r].seen, ReadBy(Requests \ {r}) \cup ReadByTwins(Requests))
  /\ Posted(r, IF req[r].then = "PENDING" THEN "payout"
               ELSE IF req[r].then \in {"NONE", req[r].status} THEN "done" ELSE "mark")
  /\ UNCHANGED <<tier, clock, raced, twin, failures, lost, repeated>>

Book(r, legs, then) ==
  req' = [req EXCEPT ![r].legs = legs, ![r].then = then, ![r].read = {}, ![r].seen = NoLegs,
                     ![r].pc = "read"]

\* The provider settles at once, accepts for later, or refuses; a webhook
\* brings the outcome of what it accepted.  After a refusal the credit of the
\* account may throw (ExternalTransfer.SagaRefund): nothing is posted.
Payout(r) ==
  /\ req[r].pc = "payout"
  /\ \/ Book(r, SettlementLegs(r), "SUCCESSFUL")
     \/ Book(r, ReliefLegs(r), "REVERSED")
     \/ req' = [req EXCEPT ![r].status = "PROCESSING", ![r].pc = "processing"]
     \/ Go(r, "done")
  /\ UNCHANGED <<tier, clock, raced, postings>>

\* On a success the status is saved before the settlement is posted, on a
\* failure after the relief.  The provider repeats the outcome it brought first.
PostThenSave(r) ==
  /\ req[r].pc = "processing" /\ req[r].status = "PROCESSING"
  /\ \/ req[r].then # "REVERSED" /\ Book(r, SettlementLegs(r), "SUCCESSFUL")
     \/ Book(r, ReliefLegs(r), "REVERSED")
  /\ UNCHANGED <<tier, clock, raced, postings>>

Confirm(r) ==
  /\ req[r].pc = "processing" /\ req[r].status = "PROCESSING"
  /\ \/ /\ req[r].then # "REVERSED"
        /\ req' = [req EXCEPT ![r].status = "SUCCESSFUL", ![r].legs = SettlementLegs(r),
                              ![r].then = "SUCCESSFUL", ![r].pc = "read"]
     \/ Book(r, ReliefLegs(r), "REVERSED")
  /\ UNCHANGED <<tier, clock, raced, postings>>

\* The versioned save: it throws when another delivery has saved meanwhile.
StatusSaved(r, status) == IF req[r].status \in {"PENDING", "PROCESSING"} THEN status ELSE req[r].status

Mark(r) ==
  /\ req[r].pc = "mark"
  /\ req' = [req EXCEPT ![r].status = StatusSaved(r, req[r].then), ![r].pc = "done"]
  /\ UNCHANGED <<tier, clock, raced, postings>>

-----------------------------------------------------------------------------
(***************************************************************************)
(* A failure webhook delivered again while the first is served: its        *)
(* handler too finds the transfer PROCESSING, posts the relief and saves.  *)
(* A success delivered twice loses the save before it posts, and is left   *)
(* out.                                                                    *)
(***************************************************************************)
TwinGoes(r, pc, seen) == twin' = [twin EXCEPT ![r] = [pc |-> pc, seen |-> seen]]

Redeliver(r) ==
  /\ twin[r].pc = "none"
  /\ req[r].pc \in {"read", "insert", "mark"}
  /\ req[r].status = "PROCESSING" /\ req[r].then = "REVERSED"
  /\ failures < MaxFailures /\ failures' = failures + 1
  /\ TwinGoes(r, "read", 0)
  /\ repeated' = repeated \cup {r}
  /\ UNCHANGED <<req, tier, ledger, booked, clock, raced, overlapped, lost>>

TwinRead(r) ==
  /\ twin[r].pc = "read"
  /\ TwinGoes(r, "insert", ledger["clearing"].newest)
  /\ UNCHANGED <<req, tier, ledger, booked, clock, failures, raced, overlapped, lost, repeated>>

TwinInsert(r) ==
  /\ twin[r].pc = "insert"
  /\ Insert(r, ReliefLegs(r), [NoLegs EXCEPT !["clearing"] = twin[r].seen],
            ReadBy(Requests) \cup ReadByTwins(Requests \ {r}))
  /\ TwinGoes(r, "mark", 0)
  /\ UNCHANGED <<req, tier, clock, failures, raced, lost, repeated>>

TwinMark(r) ==
  /\ twin[r].pc = "mark"
  /\ req' = [req EXCEPT ![r].status = StatusSaved(r, "REVERSED")]
  /\ TwinGoes(r, "none", 0)
  /\ UNCHANGED <<tier, ledger, booked, clock, failures, raced, overlapped, lost, repeated>>

-----------------------------------------------------------------------------
(***************************************************************************)
(* A handler fails after the transfer's row is written.  (A save that is   *)
(* stored but not answered is ExternalTransfer.SagaSaveLost.)              *)
(***************************************************************************)
Fails(r) ==
  /\ failures < MaxFailures /\ failures' = failures + 1
  /\ lost' = lost \cup {r}

\* It dies, or throws where nothing catches it: only a PROCESSING transfer is
\* taken up again, by the next delivery of its webhook.
HandlerDies(r) ==
  /\ req[r].pc \in {"read", "insert", "payout", "mark"}
  /\ Fails(r)
  /\ Posted(r, IF req[r].status = "PROCESSING" THEN "processing" ELSE "done")
  /\ UNCHANGED <<tier, ledger, booked, twin, clock, raced, overlapped, repeated>>

\* The saga's try section throws after the provider took the payout: the
\* catch block posts the relief, and then throws itself, because the transfer
\* in memory is SUCCESSFUL already or ahead of its row.
TryThrows(r) ==
  /\ req[r].status = "PENDING"
  /\ \/ req[r].pc = "payout"
     \/ req[r].pc \in {"read", "insert", "mark"} /\ req[r].then = "SUCCESSFUL"
  /\ Fails(r)
  /\ Book(r, ReliefLegs(r), "NONE")
  /\ UNCHANGED <<tier, ledger, booked, twin, clock, raced, overlapped, repeated>>

TwinDies(r) ==
  /\ twin[r].pc # "none"
  /\ Fails(r)
  /\ TwinGoes(r, "none", 0)
  /\ UNCHANGED <<req, tier, ledger, booked, clock, raced, overlapped, repeated>>

-----------------------------------------------------------------------------
\* A verification succeeds (KycProfile): the tier only climbs.
Upgrade ==
  /\ tier < 2
  /\ tier' = IF tier = 0 THEN 1 ELSE 2
  /\ UNCHANGED <<req, clock, raced, postings>>

Tick ==
  /\ clock < MaxClock
  /\ clock' = clock + 1
  /\ UNCHANGED <<req, tier, raced, postings>>

LimitsNext ==
  \/ \E r \in Requests :
       \/ Receive(r) \/ ReadTier(r) \/ CheckTransaction(r) \/ CheckDaily(r) \/ Save(r)
       \/ PostRead(r) \/ PostInsert(r) \/ Payout(r) \/ Confirm(r) \/ Mark(r)
       \/ Redeliver(r) \/ TwinRead(r) \/ TwinInsert(r) \/ TwinMark(r)
       \/ HandlerDies(r) \/ TryThrows(r) \/ TwinDies(r)
  \/ Upgrade
  \/ Tick

LimitsSpec == LimitsInit /\ [][LimitsNext]_limitsVars

-----------------------------------------------------------------------------
(***************************************************************************)
(* Properties.                                                             *)
(***************************************************************************)
\* As long as no transfer was checked while another one had passed its check
\* without counting yet, the transfers of any rolling window stay within the
\* daily limit of the tier, whenever the tier climbs and the window moves
\* between a check and its transfer (kyc-transfer-limit-checker.service.ts;
\* its header names the gap that `raced' stands for).
DailyLimitUnlessRaced ==
  ~raced => SumSourceAmountSince <= DefaultLimits[ResolveTier].daily

\* The newest entry of a system account carries the sum of all that was
\* posted to it, unless two postings to it overlapped: nothing else in the
\* recorder lets a running balance drift (prisma-ledger-recorder.service.ts).
RunningBalanceIsSum ==
  ~overlapped => \A a \in SystemAccounts : ledger[a].newest = ledger[a].posted

\* Whichever handler of an external transfer dies, throws or is served twice,
\* its fee and its amount reach the fee and settled accounts at most once.
\* When no handler of it failed, they are there exactly when the transfer is
\* SUCCESSFUL; and when besides no two failure webhooks overlapped, a decided
\* transfer leaves nothing in clearing
\* (initiate-external-transfer.handler.ts:194-204,
\* confirm-external-transfer.handler.ts:70-95: what holds it is that the
\* webhook's status is saved before the settlement is posted).
Quiet(r) == req[r].pc \notin {"read", "insert", "mark"} /\ twin[r].pc = "none"

BookedRight(r) ==
  LET fee == Fee(req[r].kobo, "EXTERNAL")
      settled == booked[r]["settled"]
      revenue == booked[r]["revenue"]
  IN  /\ <<settled, revenue>> \in {<<0, 0>>, <<req[r].kobo, fee>>}
      /\ r \notin lost =>
           <<settled, revenue>>
             = IF req[r].status = "SUCCESSFUL" THEN <<req[r].kobo, fee>> ELSE <<0, 0>>
      /\ r \notin lost \cup repeated /\ req[r].status \in {"SUCCESSFUL", "REVERSED"} =>
           booked[r]["clearing"] = 0

FeesAreBooked ==
  \A r \in Requests : req[r].type = "EXTERNAL" /\ Quiet(r) => BookedRight(r)
=============================================================================
