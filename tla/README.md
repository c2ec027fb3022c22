# KUDI-AI: verification project

TLA+ models of KUDI-AI, from the database rows of its banking core to the web
application in front of it, TLC configurations that check them on small
instances, and TLAPS proofs of their main properties for every size.
File names below are relative to the repository root.

## 1. Inventory

KUDI-AI is a NestJS application over PostgreSQL (Prisma, READ COMMITTED), with
Flutterwave as payout and identity provider. Every command handler is an
asynchronous function: each `await` is a point where any other request, webhook
or event handler may run. Nothing is locked between a read and the write it
leads to, except inside the one interactive transaction of internal transfers.

| Component | State | Operations | Interacts with | What is hard |
|---|---|---|---|---|
| Accounts (`modules/accounts`) | row per account: balance, status, version | open, activate, credit, debit, freeze, unfreeze, close | KYC tier limits (max balance), `KycTierUpgradedEvent` | load and save are apart; guard on a stale balance; activation loop over a stale list |
| External transfers (`modules/transfers`, `integrations/.../flutterwave`) | row per transfer, journal, payouts at the provider | initiate (saga), confirm (webhook) | Accounts, ledger, provider, idempotency | non-atomic saga, timeouts, crashes, duplicated and overlapping webhooks, failing compensation |
| Internal transfers | two account rows and one transfer row in one transaction | initiate | Accounts, ledger | unlocked reads, lock order, failure row after a rollback |
| Idempotency (`shared/idempotency`) | row per (user, scope, key) | tryAcquire, markCompleted, release | transfer handlers | separate queries, stale claims, crash between effect and completion, a claim released after a throw that left something behind |
| Limits and fees (`modules/transfers`, `modules/compliance`) | none of their own: tier, transfers of the last 24 h | check a transfer, price it | Compliance, transfers | tier, limit and daily sum are separate reads; a transfer counts later than it is checked |
| Ledger (`shared/ledger`) | append-only entries | post | transfers | running balance of system accounts is read-then-write; a posting is apart from the status it belongs to |
| Compliance (`modules/compliance`) | KYC profile, tier, sanctions flag, audit rows | submit BVN or NIN, staff override of either, screen, clear flag | Accounts by events, Identity, provider | copies held across a slow provider call; save, audit, publish and screening not atomic; order of verifications |
| Identity (`modules/identity`) | users, lock, refresh tokens in families | register, login, refresh, logout, change password | Accounts (first wallet), Compliance by event, web client | whole-row saves without a version, rotation, reuse detection, a crash between two saves |
| Pure algorithms | none | fee schedule, NUBAN check digit, money parsing, name match, screening | | boundaries |
| Web client, session (`authStore.js`, `client.js`, `AppRouter.jsx`) | access token per tab, refresh token in localStorage | bootstrap, call, refresh, log in, log out | Identity | late 401s, one shared promise, reloads, tabs |
| Web client, transfer screen (`features/transfer`) | wizard, idempotency key, result | submit, poll, try again, leave | transfers, idempotency | lost answers, overlapping polls |
| Web client, other screens (`features/*`) | what each screen has loaded | navigate, load, verify documents, provision a wallet | all APIs, several of whose backend modules do not exist | requests that outlive their screen, promises that always reject |
| Gateway, Rust engines, deployment | none of their own | | | not modelled (section 8) |

What makes each correct: an account's balance is the sum of the operations that
reported success, within its cap, and moves only while ACTIVE; a transfer's
status tells the truth about refund and payout, money is returned exactly when
it was not paid out, and every transfer is resolved; an operation that returned
is not executed again under its key, and a replay is real; limits and running
balances are exact but for the races the code admits, and a fee is booked at
most once, for a payout that succeeded; a tier is what
the verifications say, is never lost, and the audit trail never runs ahead of
it; a lock holds and an ended session stays ended; the browser neither
submits twice, nor trips the reuse detection, nor shows what is not so, nor
waits for ever. `PROJECT.json` lists the
components and the hazards line by line.

## 2. Modules

| Module | Models | State and actions |
|---|---|---|
| `AccountEntity` | `account.entity.ts`, `save` of its repository | operators on rows: guards, mutators, the version test |
| `AccountRegister` | what Accounts promises (abstract) | atomic Open, Credit, Debit, SetStatus, Upgrade |
| `Accounts` | the seven handlers, the max-balance guard, the tier-upgrade handler | `rows`, `opened`, `tier` are stored; `req`, `events`, `todo` are memory and vanish in `Crash`. A request loads (`Receive`, `ActivateNext`), a credit reads the tier (`CheckLimit`), then one action per handler saves or `Reject`s. `QueryFails` and `ListFails` are database errors; `failed` is a history |
| `TransferEntity` | `transfer.entity.ts`, `save` of its repository | operators on rows: the status machine, update-or-create |
| `ExternalTransfer` | the saga, the provider, the webhook handler | `acct`, `xfer`, `journal` are stored, `payout` is the provider's; `saga` and `hook` hold what a handler remembers between awaits. One action per await; faults are `SagaPayTimeout`, `SagaSaveLost`, `SagaError`, `SagaCrash`, `HookFault` |
| `InternalTransfer` | the executor's transaction and its catch block | `rows`, `xfer` are committed state, `lock` the row locks, `tx` the requests. `DeadlockVictim`, `Abort`, `CommitLost`, `Crash` come from the database and the process |
| `Idempotency` | guard and repository for one key | `row`, the attempts `req`, the `effects` that happened, and which attempts had `thrown`. One action per query; `Execute` returns, throws with nothing done or throws after its effect; `GrowStale` is the two-minute window, a fault if the claim is still held |
| `KycLadder` | what Compliance promises (abstract) | verified documents and the tier they earn, rung by rung |
| `KycProfile` | the profile aggregate, the five commands, audit recorder, screening service, identity provider | `row`, `audit` are stored, `published` is what left the module; `req` holds each handler's copy of the profile between its awaits. `FindByUserId`, one action per command, `Save`, the audit rows, `Publish`, `ScreenAndFlag`, `SaveFlag`; `Fail` is a crash or database error |
| `Sessions` | `user.entity.ts`, `refresh-token.entity.ts`, the five commands of `auth.controller.ts` | `user`, `token`, `account` are stored; `req` holds copies. One action per query; `Tick` and `Expire` are time, `Fail` a crash. `stale` and `ended` are histories |
| `Money` | `money.vo.ts` parsing and formatting, `toFixed(2)` of the browser | operators |
| `Nuban` | the check digit of account numbers | operators |
| `TransferLimits` | limit checker, tier resolver, fee schedule, ledger recorder | `req` are transfers with their posting under way, `tier`, `ledger` the system accounts, `booked` the entries by transfer, `twin` a second failure webhook of a transfer, `clock`. One action per query; `HandlerDies`, `TryThrows` and `TwinDies` are faults |
| `ClientSession` | `authStore.js`, `client.js`, `AuthExpiredHandler`, bootstrap | `tab` is each tab's memory, `storage` the localStorage, `server` the tokens; `Rotate` is Sessions as the tab sees it |
| `TransferPage` | `Transfer.jsx`, its four steps, `api/transfer.js` | `page` is the component, `sub` the closures of `handleSubmitTransfer`, `poll` the polls in flight; `transfer`, `claim` and `orphans` are the backend (`Serve`, `Settle`): the transfers, the one whose handler returned under each key, and those whose handler threw or died |
| `WebApp` | routes, guards, the other screens, their API clients | `store`, `path`, `view` are the tab, `calls` the requests under way, with those that outlived their screen; `Visible` is what is shown |
| `*Proofs` | theorems about the module of that name | `AccountsProofs` also about `Nuban`, `InternalTransferProofs` about `TransferLimits`, `SessionsProofs` about `ClientSession`, `TransferPageProofs` about `Money` |
| `MC*` | constants for TLC | |

The transfer modules use the atomic account operations (`OtherCredit`,
`OtherFreeze`, ...) for the rest of the system: that every Accounts handler is
atomic at its save is what `ImplementsRegister` shows. `Accounts!Upgrade` and
`TransferLimits!Upgrade` are Compliance as its neighbours see it, a tier that
climbs, which is what `Climbs` shows of `KycProfile`. `ClientSession` talks to a
reduced `Sessions`, `TransferPage` to a reduced `Idempotency` and
`ExternalTransfer`: a handler that returns claims its key for its transfer and
later requests replay it; one that throws or dies leaves its transfer in any
status and the key free. (Two handlers that both return under one key, which
takes an execution of over two minutes, are in `Idempotency` only.) Histories
(`net`, `book` of the transfer modules, `failed`, `refunds`, `effects`,
`thrown`, `orphans`, `booked`, `raced`, `overlapped`, `repeated`, `stale`,
`ended`, `reused`, `excused`, `lost`) record what really happened; no guard
reads them. The
specifications of `TransferLimits` and `ClientSession` carry a prefix
(`LimitsSpec`, `ClientSpec`), because a proofs module extends them beside another
module.

Definitions named in the module headers as mistakes (`MaySaveAnyVersion`, ...)
are the faulty variants with which `PROJECT.json` "mutants" tests that each
property notices a bug in the code it speaks about.

## 3. What is abstracted

Amounts are small naturals in minor units (the code's are BigInt, so nothing
overflows), and in `TransferLimits` the real figures in kobo; amount and fee of
an external transfer are one total in `ExternalTransfer`, two in
`TransferLimits`, and the fee of internal ones is zero by the schedule. A check that reads only the request or
other tables (ownership, parsing, KYC transfer limits, recipient) is a refusal
that may always happen (`SagaRefuse`, `Refuse`, `WrongDestination`). A journal
posting is counted per transfer and kind. Domain events without a handler are
left out. The branches of the two refunds for an account that cannot be found
(`initiate-external-transfer.handler.ts:246-250`,
`confirm-external-transfer.handler.ts:138-142`) are left out, because no code
deletes an account. `resourceId`s are named after the attempt that created them. A
webhook without a matching row, for a terminal transfer, with a bad signature or
another event type changes nothing and is no action. The 30 s gateway timeout
answers the client while the handler runs on, so no model ties a handler to its
client.

A name is the set of its normalised tokens: the provider's match compares first
and last name, the screening asks whether the candidate's tokens are among an
entry's. A decimal string is its digits as numbers; a malformed one is refused.
Time stamps of a profile are the versions they were set at. Passwords are what
their hashes tell apart. The lock counts to `MaxAttempts`, 2 in the run and 5 in
the code. Tokens are named after the request that issues them. The audit row of
an attempt, an override and a clearance differ in text only. In the browser, a
component's local text fields, validation messages and pictures are left out,
and so are language and persona, which are stored and never read; a form that
does not pass its validation sends nothing. The three setters of a log-in are
one step, since nothing of the tab runs between them, and a refused log-in is
one error, also when it carried a leftover access token
(`client.js:50`). Paths `/bills` and `/bills/airtime`
show one screen. A posting's leg on the customer's account is the business of
the transfer modules; `TransferLimits` has the legs on system accounts.

## 4. Runs

| Run | Instance | Shows |
|---|---|---|
| `accounts` | 1 account, 2 requests, amounts 1 and 2, caps 3 and 4, 3 saves, 1 crash | no lost update, caps, refinement of `AccountRegister` |
| `activation` | 2 accounts, 2 requests of staff and of the two loops, 1 crash, any number of failing queries | an account pending at an upgrade is activated, whatever happens to the other, unless the process crashes or its own activation fails |
| `external` | 1 transfer, 2 concurrent webhooks, 2 other operations, 2 faults | statuses, journal and payouts agree; paid and refunded only after an error of the saga that asked for the payout; clearing nets to zero; edges of the status machine; processing transfers are resolved |
| `external_double_refund` | 1 transfer, 2 concurrent webhooks | violated: see below |
| `internal` | 3 accounts, 3 transfers (two cross, one chains), 1 other operation, 1 fault | conservation, cap; failures leave a FAILED row; every request ends: a conflict or a deadlock is reported, not retried |
| `idempotency` | 4 attempts, 2 faults | until the first fault nothing that returned is executed again; with faults, replays are real and attempts end |
| `kyc` | 3 requests, 3 provider records (a match, a match with a middle name that is on the watchlist, a mismatch), a watchlist, 1 fault | the profile climbs `KycLadder`, the trail is true, one sanctions case at a time, tiers are announced |
| `sessions` | 3 requests, 2 passwords, a lock after 2 failures for 1 tick, 1 fault | one usable generation per token, ended families stay ended, the lock's fields agree and it holds against everything but a stale save |
| `limits` | 2 transfers, amounts around the daily limit of tier 1 and above all limits, 2 ticks of which a window holds one, 2 failing handlers or webhooks served twice at once | daily limit; a fee is booked at most once, and exactly for a success when no handler failed; running balances |
| `client` | 2 tabs with 2 calls each, 3 tokens, 2 loads | no self-inflicted reuse, logged in means able to refresh, access comes back |
| `transfer_page` | 2 submissions, 2 recipients, 3 amounts (one below the minimum), 2 overlapping polls, 2 visits | no second transfer in a visit once a handler returned, truthful success, no endless spinner |
| `screens` | every route, wallet and document state; one request that outlives its screen | documents asked for once and in order, screens settle, the wallet is opened |

Bounds. Races here are between two holders of a snapshot of one row, so two
requests, sagas or webhooks exhibit each of them; three transfers give the lock
cycles and chains, and three requests a verification, a second one and a
clearance, or a rotation, a reuse and a log-out. One fault reaches every
half-done state, since each fault ends its handler; two in `external` let a
saga and a webhook fail in turn, and two in `limits` a webhook be served twice
and one of its handlers die. A second saga on the account of `external`
would change its row as the two other operations do. An account is activated by
its first save, and two more fill it to the tier-2 cap, or fill and freeze it,
while another request still holds an old snapshot; in `activation` one save is
enough, because it takes an account out of PENDING_VERIFICATION. Three tokens give a log-in, a
rotation and one of the next; two loads give a second tab or a reload. Two
submissions are one Try Again. The theorems of section 6 remove the bounds for
every safety property of the passing runs. Deadlock checking is off
where requests are finite and bounded, and on in `screens`, where the user can
always navigate. `TypeOK` says what each variable ranges over;
it is proved on the way to the other invariants and no run lists it.

### Disagreements between code and documentation

One run is violated by what the code does, and `PROJECT.json` quotes both sides:
in `external_double_refund` overlapping deliveries of one failure webhook refund
twice, although the handler's header says that a duplicate delivery "must never
double-compensate". `ClearingIsRelieved` is therefore stated for transfers that
were refunded at most once. The models show more, which the properties respect
by their wording:

* The idempotency guard releases its key after any throw, and the external saga
  throws after the debit, with a REVERSED transfer, an account still debited, or
  a payout that was accepted before the request timed out
  (`initiate-external-transfer.handler.ts:211-263`); a retry under the key does
  it all again, without any crash. `idempotency-guard.service.ts:63-68` says a
  throw leaves nothing "that a retry could duplicate" and knows one gap, a crash.
  `ExecutedOnce` says what remains: nothing that returned is executed again.
* The same seen from the screen: Try Again after a failure can make a second
  transfer under the key, whereas `Transfer.jsx:33-34` says it replays the
  first. `OneTransferPerVisit` says what remains.
* When the account does not load, the dashboard renders the history it never
  asked for as "No transactions yet" (`RecentTransactions.jsx:23-32`), also while
  a Retry is under way; `Dashboard.jsx:15-16` says that it renders an explicit
  pending state.
* An account opened after the tier upgrade was handled stays pending for ever
  (`open-account.handler.ts:16` says such accounts are activated at TIER_2);
  `PendingIsActivated` speaks of those pending at the upgrade.
* The activation loop activates an account frozen after the loop listed it.
  Freezing and unfreezing a pending account makes it ACTIVE without KYC
  (`account.entity.ts:146`), whereas `accounts/application/README.md:23-25` says
  accounts only become usable once the owner's identity is confirmed.
* A refund skips the max-balance guard and may exceed the cap if a credit used
  the room (`confirm-external-transfer.handler.ts:108-111` says it cannot).
  `InternalTransfer!WithinCap` assumes that the other credits respect the cap.
* A rejected payout whose compensation fails (account frozen, saved by somebody
  else) leaves the customer debited, and nothing takes it up again.
* A fault between the saved SUCCESSFUL and the settlement posting
  (`confirm-external-transfer.handler.ts:70`, `:95`) loses fee and settlement
  for good, since the repeated webhook finds a terminal transfer; two failure
  webhooks at once relieve clearing twice. `FeesAreBooked` says what remains:
  never a second fee, nothing missing without such a fault, and clearing empty
  without such an overlap.
* A database error in the activation of an account, or in the listing, is logged
  and never retried: the account stays pending (`PendingIsActivated` excuses
  that account, and no other).
* A payout request that timed out may have been accepted, and is refunded; so is
  one whose acceptance could not be stored. `NotPaidAndRefunded` excuses the
  transfer whose saga met such an error (`lost`), and no other fault.
* A stale claim can be reclaimed by several attempts one after the other: the
  staleness is computed from `createdAt`, which a reclaim leaves alone
  (`prisma-idempotency-key.repository.ts:55-57`). `ExecutedOnce` holds up to the
  first crash, database error or overlong execution.
* An abort after `markSuccessful` leaves no FAILED row, because `markFailed`
  refuses the transfer it finds in memory
  (`prisma-internal-transfer-executor.service.ts:52-58`). `AuditedUntilFault`
  holds up to the first abort, lost commit answer or crash.
* A verification may be stored and never screened: a conflict, a crash or, for a
  match, a flag that is open already ends the handler in between. What holds is
  `OneCaseAtATime` and `TrailIsTrue`.
* A NIN verified before the BVN leaves the customer at TIER_2 for good; the web
  client prevents the order (`NinWaitsForBvn`), the backend does not.
* A rotation under way when its family is revoked adds a live token to it
  afterwards; and a log-out with a token that was rotated revokes nothing.
  `EndedStaysEnded` speaks of families ended with no rotation under way. The web
  client never calls `POST /auth/logout` at all.
* A login that loaded the user before a password change writes the old hash
  back, and one that loaded before a lock lifts it (`LockHolds` says: nobody
  else does). Concurrent failures lose counts.
* A registration whose wallet cannot be opened leaves a user without a profile,
  whom no event will give one; the wallet is opened at the next log-in.
* Two tabs that share a refresh token end each other's session (`NoSelfReuse`
  excuses them), and a rotation in flight across a log-out puts its token into
  the tab that has logged out.
* Try Again after an edit presents the old key: the backend replays the first
  transfer, and the screen shows its result beside the new recipient
  (`Transfer.jsx:70`). `OneTransferPerVisit` is the other side of that coin.
* `Login.jsx:48-49` says the dashboard never meets an empty state; it is mounted
  by `PublicRoute` before the wallet is provisioned, shows an error with a zero
  balance until Retry, and the handler's last line may pull the customer off
  another screen. Two log-ins may both provision a wallet. A failing
  `handleCreate` of Savings tells nobody.
* The daily limit and the running balances have the races their comments name;
  `DailyLimitUnlessRaced` and `RunningBalanceIsSum` say that nothing else is
  wrong with them.

## 5. Fairness

A started handler goes on: Node resumes every await of a live process (weak
fairness of `Finish`, `SagaStep`, `HookStep`, `Step`). An event published in a
live process is handled (`HandleUpgrade`), and its loop gets its turn
(`ActivateNext`, strongly fair because a request slot of the model is taken and
freed again and again). The provider decides what it accepted, and repeats a
webhook until it gets a 2xx answer
(`flutterwave-transfer-webhook.controller.ts:41`), hence strong fairness of
`Deliver`. PostgreSQL's deadlock detector acts (`DeadlockVictim`). The handlers of
Compliance go on likewise (`Step` of `KycProfile`). In the browser, timers fire,
callbacks run, and a request is answered or fails: `Serve`, `Answer`, `Tick`,
`PollRead` and `PollAnswer` of each submission and poll in `TransferPage`, a
tab's `RefreshStep` in `ClientSession`, the reads of a screen and the two
requests of a log-in in `WebApp`. There `LoadingEnds` allows for a customer who
keeps leaving before a screen has settled. No client, staff or fault action is
fair, no button is ever pressed by necessity, and `SpinnerEnds` needs no webhook.

## 6. Proofs

Every invariant, every action property and both refinements that a passing run
checks are theorems, for all constants that satisfy the named assumptions of
the modules: any number of accounts, transfers, requests, tabs, webhook
deliveries and faults. The assumptions are types, caps that grow with the tier,
and finiteness of the sets that are summed over (`AccountsAssumption`,
`RequestsAssumption`: a table has finitely many rows). Only two theorems assume
more, and say so in their statement (below).

A property alone is hardly ever inductive, because it depends on what a handler
remembers between two awaits. The invariants add what that memory is worth.

* `AccountsProofs`: `Fresh` says a snapshot is outdated by version or is the
  stored row, so the version test makes each save an operation on the current
  row; `Checked` carries the guard's verdict from the limit check to the save,
  using that caps grow with the tier (`LimitsGrowWithTier`, as in
  `kyc-tier-limits.policy.ts`). From it follow `TypeOK`, `NoLostUpdate`,
  `ClosedIsEmpty`, `BalanceWithinLimit`, `OnlyActiveMoves` and the refinement
  `ImplementsRegister`. Of `Nuban`: every generated number passes the check, and
  a single wrong digit never does, because each weight is prime to 10.
* `ExternalTransferProofs`: `SnapsBehind` is the same for account snapshots,
  `RowsBehind` for transfer rows in webhook handlers, and `SagaKnows` says for
  each step how far row, journal and payout have come. From it: `TypeOK`,
  `BalanceIsBook`, `ReversedIsRefunded`, `SuccessfulIsPaid`, `SettledOnce`,
  `PayoutIsCovered`, `StatusFollowsEdges`. `ReversalIsBacked` counts: the
  reversal entries of a transfer and the handlers that have credited and not
  posted yet together are at most its refunds. `NotPaidAndRefunded`
  follows from what the catch block knows unless its transfer is `lost`: the
  payout was refused and the row is as it was recorded; a webhook handler finds
  the saga ended. `ClearingIsRelieved` holds from both sides: the counts above
  bound the entries, and without faults a credit or a SUCCESSFUL row without its
  entry has a handler that will post it.
* `InternalTransferProofs`: `Knows` adds the locks: from the conditional update
  to the commit the row is locked and equals the aggregate that was checked.
  From it: `TypeOK`, `BalanceIsBook`, `WithinCap`, `OnlyActiveMoves`. `AuditInv`
  says that before its commit a transfer is PENDING in memory and has no row,
  and gives `AuditedUntilFault`; `FaultsGrow` is why faulty steps drop out.
  `Conservation` rests on the lemmas about sums: a commit takes from one current
  row what it adds to another.
  Of `TransferLimits`, `LimitsInv`: what a transfer has booked follows from its
  step, its status and whether a handler of it failed or was doubled
  (`BookingRight`: settled once its settlement is inserted, which happens only
  after a status or a step that nobody else can be at); a request weighs on the
  daily limit from its check on (`Weight`), and the weights stay within it;
  balances read for a posting are current until an overlap; until a check is
  raced at most one request waits to be counted. From it: `RunningBalanceIsSum`,
  `DailyLimitUnlessRaced`, `FeesAreBooked`.
* `IdempotencyProofs`: `ReplayIsReal` without restriction;
  `OneHolderUntilFault`, `ExecutedOnce` and `CompletedStays` from an invariant
  on who may hold the claim before the first fault, and on what an attempt that
  gave it up has left (`QInv`).
* `KycProfileProofs`: a copy in hand is older than the row or is the row, and a
  copy about to be saved is one method of the aggregate applied to the row,
  unless the version test will refuse it; a tier is written into the trail by
  the one request that stored it. From it: `TypeOK`, the refinement `Climbs`,
  `TrailIsTrue` and `OneCaseAtATime`.
* `SessionsProofs`: there is no version to rely on. Instead: a token row its
  request has not written does not exist, a rotation past its look-up holds a
  token whose family is not among the ended ones, and every copy of the user,
  stale or not, has lock fields that agree. From it: `SuccessorMeansRevoked`,
  `EndedStaysEnded`, `LockAgrees`, and the action property `LockHolds`. Of
  `ClientSession`, `ClientInv`: a flag never outlives its token, in a tab or in
  storage; and unless excused no two tabs hold one token and what a tab holds
  or presents is live at the backend. From it: `NoSelfReuse` and
  `LoggedInCanRefresh`.
* `TransferPageProofs`: all submissions of a visit carry one key, a key belongs
  to one visit, a transfer is an orphan or what its key stands for, and a poll
  in flight is about a transfer of its own visit.
  From it: `OneTransferPerVisit` and `SuccessMeansPaid`. Of `Money`: what the
  browser formats the backend parses back to the same number of kobo.
* `WebAppProofs`: what the mounted screen can have been told (`ViewRight`) and
  what a request under way presupposes (`CallsRight`), relative to the documents
  the backend has verified, which only grow. From it: `KycAsksOnce` and
  `NinWaitsForBvn`.

Sums. `MapThenSumSet` is a recursive function over the subsets of a finite set.
The library's induction theorems cannot be instantiated by the installed
provers, so `SubsetInduction` takes a subset of least cardinality that violates
the claim and removes the element the fold would take. From it follow that the
function exists (`SumExists`), is unique, may take its elements in any order
(`SumRemove`), and how it changes with one term, with smaller terms and with
terms left out (`SumPoint`, `SumMono`, `SumFilter`).

Only model-checked: the liveness properties `PendingIsActivated`,
`ProcessingResolves`, `EveryTransferEnds`, `EveryAttemptEnds`, `TierIsAnnounced`,
`AccessIsRestored`, `SpinnerEnds`, `LoadingEnds` and `WalletIsOpened` (fairness
and ENABLED are out of the prover's reach). `RefundedOnce` is violated by the
code.

## 7. Plan

Done: the modules above and the safety proofs about all of them. Next:

1. `RefundedOnce` where the code does guarantee it, without overlapping
   deliveries.
2. `ClientSession!Rotate` and the backend half of `TransferPage` shown to be what
   `Sessions` and `Idempotency` promise, as abstract specifications of those.
3. `KycProfile` composed with `Accounts` in place of `Upgrade`, and `Idempotency`
   around the external saga.

## 8. Not modelled

* Gateway (guards, filters, interceptors), configuration, deployment, module
  wiring, DTOs and their decorators: stateless or declarative. Authorisation of
  staff commands is taken as given.
* Query handlers and read models, except where a modelled handler reads.
* Rust engines: placeholders. Redis and RabbitMQ are configured but not used by
  the modelled code.
* Web client: handlers behind data of backend modules that do not exist (paying
  bills, applying for loans, freezing cards, redeeming points, topping up), which
  no behaviour reaches; `VerifyOtp` and `SetupPin`, which no route shows;
  beneficiaries, whose API always rejects and is ignored; a tab closed or
  reloaded while a log-in provisions the wallet (the next log-in does); styles
  and layout.
* The collision retry of the NUBAN generator, `assertBalanced` of the ledger and
  currencies other than NGN.
* Phone, e-mail and password formats: a request that fails them changes nothing.
