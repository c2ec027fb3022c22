------------------------------- MODULE WebApp -------------------------------
(***************************************************************************)
(* One tab of the web application: the routes and their guards, and what   *)
(* each screen asks the backend for, shows and lets the customer do.       *)
(* Screens are mounted and unmounted while their requests are under way;   *)
(* an answer sets nothing on a screen that is gone, but the code after an  *)
(* await still runs, and may navigate.  Several backend modules are not    *)
(* built: their API methods always reject, and the screens say so.         *)
(*                                                                         *)
(* The session's tokens are in ClientSession, the wizard of the transfer   *)
(* screen in TransferPage.  Handlers behind data of a module that is not   *)
(* built (paying a bill, applying for a loan, freezing a card, redeeming   *)
(* points) cannot be reached and are left out.  A pending method rejects   *)
(* in the microtask after its call; here other steps may come first.       *)
(* Language and persona are stored and never read, and are left out.       *)
(*                                                                         *)
(* A reload or a typed URL starts a new behaviour: Init has every path     *)
(* with every store that persist may bring back.  One request of a kind    *)
(* that outlived its screen is kept, a second is taken for lost.           *)
(*                                                                         *)
(* NoCatch, UngatedNin, FloatingAll and AbortOnUnmount are plausible       *)
(* mistakes in the code of the definition that follows them; no behaviour  *)
(* uses them.                                                              *)
(***************************************************************************)
EXTENDS Naturals, FiniteSets

CONSTANTS
  History,    \* bound: routes that the browser's Back and Forward lead to
  MaxOrphans  \* bound: requests that outlive their screens, when one is left

ASSUME MaxOrphansAssumption == MaxOrphans \in Nat

VARIABLES
  store,   \* authStore: isLoggedIn, onboardingDone
  path,    \* the route shown
  view,    \* the state of the mounted screen
  calls,   \* requests under way: <<name, its screen is mounted>>
  server,  \* the customer's wallet and verified documents
  lost     \* history: provisioning met an error or the end of the session

vars == <<store, path, view, calls, server, lost>>

-----------------------------------------------------------------------------
(***************************************************************************)
(* The API clients that screens read through, one name for each method.    *)
(***************************************************************************)
AccountsApi == {"account"}
KycApi == {"kyc"}
ProfileApi == {"profile"}
NotificationsApi == {"notifications", "markRead"}
LedgerApi == {"ledger"}
SavingsApi == {"savings", "goal"}
CardsApi == {"cards"}
LoansApi == {"offers", "active"}
RewardsApi == {"rewards"}
BillsApi == {"probe", "billers"}

Live == AccountsApi \cup KycApi \cup ProfileApi

Unbuilt == NotificationsApi \cup LedgerApi \cup SavingsApi \cup CardsApi
             \cup LoansApi \cup RewardsApi \cup BillsApi

Reads == Live \cup Unbuilt

Documents == {"bvn", "nin"}

Writes == {"login", "provision", "create", "register"} \cup Documents

\* FeatureNotAvailableError, whatever is asked.
PendingEndpoint(s) == {"pending"}

GetMyAccounts == {"error", IF ~server.wallet THEN "empty" ELSE "value"}

Outcome(s) == IF s \in Unbuilt THEN PendingEndpoint(s)
              ELSE IF s = "account" THEN GetMyAccounts
              ELSE {"value", "error"}

-----------------------------------------------------------------------------
(***************************************************************************)
(* Routes.                                                                 *)
(***************************************************************************)
Public == {"login", "signup"}

Protected == {"dashboard", "cards", "loans", "rewards", "profile", "transfer",
              "bills", "savings", "kyc"}

Paths == {"splash", "onboarding", "language", "persona"} \cup Public \cup Protected

ProtectedRoute(p, s) == IF p \in Protected /\ ~s.loggedIn THEN "login" ELSE p

PublicRoute(p, s) == IF p \in Public /\ s.loggedIn THEN "dashboard" ELSE p

Route(p, s) == PublicRoute(ProtectedRoute(p, s), s)

\* What the screens ask for when they are mounted.
DashboardEffect == {"account"}
TransferEffect == {"account"}
ProfileEffect == {"profile", "notifications", "kyc", "account"}
KycEffect == {"kyc"}
CardsEffect == {"cards"}
LoansEffect == {"offers", "active"}
RewardsEffect == {"rewards"}
SavingsEffect == {"savings"}
BillsEffect == {"account", "probe"}

Loads(p) ==
  CASE p = "dashboard" -> DashboardEffect
    [] p = "transfer" -> TransferEffect
    [] p = "profile" -> ProfileEffect
    [] p = "kyc" -> KycEffect
    [] p = "cards" -> CardsEffect
    [] p = "loans" -> LoansEffect
    [] p = "rewards" -> RewardsEffect
    [] p = "savings" -> SavingsEffect
    [] p = "bills" -> BillsEffect
    [] OTHER -> {}

\* got: the answers; slide, open: a slide, an open category or dialogue;
\* busy: forms sent; shown: the documents of the status answered last.
\* was: the store at mount.  asof, history: the documents verified then.
View == [got: [Reads -> {"idle", "wait", "again", "value", "empty", "error", "pending"}],
         slide: 1..3, open: BOOLEAN, busy: SUBSET Writes,
         shown: SUBSET Documents, was: [loggedIn: BOOLEAN, onboardingDone: BOOLEAN],
         asof: SUBSET Documents]

TypeOK ==
  /\ store \in [loggedIn: BOOLEAN, onboardingDone: BOOLEAN]
  /\ path \in Paths
  /\ view \in View
  /\ calls \subseteq (Reads \cup Writes) \X BOOLEAN
  /\ server \in [wallet: BOOLEAN, kyc: SUBSET Documents]
  /\ lost \in BOOLEAN

Mounted(p, s) ==
  [got |-> [r \in Reads |-> IF r \in Loads(p) THEN "wait" ELSE "idle"], slide |-> 1,
   open |-> FALSE, busy |-> {}, shown |-> {}, was |-> s, asof |-> server.kyc]

Init ==
  /\ store \in [loggedIn: BOOLEAN, onboardingDone: BOOLEAN]
  /\ server \in [wallet: BOOLEAN, kyc: {{}, {"bvn"}, Documents}]
  /\ path \in {p \in Paths : Route(p, store) = p}
  /\ view = Mounted(path, store)
  /\ calls = Loads(path) \X {TRUE}
  /\ lost = FALSE

\* An unmounted screen's reads are of no more use; its writes go on.
Orphaned(cs) == {<<c[1], FALSE>> : c \in {d \in cs : d[1] \in Writes}}

MayLeave == Cardinality(Orphaned(calls)) <= MaxOrphans

\* navigate(p) with store s: a link to the route shown mounts nothing.
Navigate(p, s, cs) ==
  LET q == Route(p, s)
  IN  IF p = path /\ q = path
      THEN calls' = cs /\ UNCHANGED <<path, view>>
      ELSE /\ path' = q
           /\ view' = Mounted(q, s)
           /\ calls' = Orphaned(cs) \cup (Loads(q) \X {TRUE})

-----------------------------------------------------------------------------
(***************************************************************************)
(* What is on the screen: spinners, sections with data, sections that are  *)
(* empty or not available, errors and forms.                               *)
(***************************************************************************)
Waits(s) == view.got[s] = "wait"

Section(s) ==
  IF view.got[s] = "pending" THEN {<<"pending", s>>}
  ELSE IF Waits(s) THEN {<<"spinner", s>>}
  ELSE IF view.got[s] = "value" THEN {<<"data", s>>} ELSE {}

Cards == Section("cards")

Rewards == Section("rewards")

Savings == Section("savings") \cup (IF view.got["goal"] = "value" THEN {<<"data", "goal">>} ELSE {})

\* Nothing spins, and what getActive answers is not shown.
Loans == Section("offers") \ {<<"spinner", "offers">>}

Bills ==
  IF "pending" \in {view.got["probe"], view.got["billers"]} THEN {<<"pending", "billers">>}
  ELSE IF view.open THEN Section("billers") \ {<<"spinner", "billers">>}
  ELSE {<<"form", "category">>}

\* Without an account the balance reads 0.00.
BalanceCard ==
  IF view.got["account"] \in {"wait", "value"} THEN Section("account")
  ELSE {<<"zero", "account">>}

\* Savings and history are settled together, after the account.  Once the
\* account has failed to load the flags are down for good, and a section
\* without rows is rendered until a later attempt has settled.
Settling == \E s \in {"account", "savings", "ledger"} : Waits(s)
Settled == \A s \in {"savings", "ledger"} : view.got[s] \notin {"idle", "wait", "again"}

RecentTransactions ==
  IF Settling THEN {<<"spinner", "ledger">>}
  ELSE IF Settled THEN Section("ledger") ELSE {<<"empty", "ledger">>}

SavingsGoals ==
  IF Settling THEN {<<"spinner", "savings">>}
  ELSE IF Settled THEN Section("savings") ELSE {}

Dashboard ==
  BalanceCard \cup RecentTransactions \cup SavingsGoals
    \cup (IF view.got["account"] \in {"empty", "error"} THEN {<<"error", "account">>} ELSE {})

FloatingAll ==
  IF \E s \in {"profile", "notifications", "kyc", "account"} : view.got[s] # "value"
  THEN {<<"spinner", "profile">>}
  ELSE {<<"data", "profile">>}

Profile ==
  LET parts == {"profile", "notifications", "kyc", "account"}
  IN  IF \E s \in parts : Waits(s) THEN {<<"spinner", "profile">>}
      ELSE UNION {Section(s) : s \in parts}

NoCatch(d) == view.got["kyc"] \in {"value", "error"} /\ d \notin view.shown
                /\ (d = "nin" => "bvn" \in view.shown)
UngatedNin(d) == view.got["kyc"] = "value" /\ d \notin view.shown

KycForm(d) == /\ view.got["kyc"] = "value"
              /\ d \notin view.shown
              /\ d = "nin" => "bvn" \in view.shown

Kyc == Section("kyc") \cup {<<"form", d>> : d \in {e \in Documents : KycForm(e)}}

Visible ==
  CASE path = "dashboard" -> Dashboard
    [] path = "profile" -> Profile
    [] path = "kyc" -> Kyc
    [] path = "cards" -> Cards
    [] path = "loans" -> Loans
    [] path = "rewards" -> Rewards
    [] path = "savings" -> Savings
    [] path = "bills" -> Bills
    [] OTHER -> {}

-----------------------------------------------------------------------------
(***************************************************************************)
(* Before the log-in.                                                      *)
(***************************************************************************)
\* The timer's callback sees the store as it was at mount.
SplashTimer ==
  /\ path = "splash"
  /\ Navigate(IF view.was.loggedIn THEN "dashboard"
              ELSE IF view.was.onboardingDone THEN "login" ELSE "onboarding", store, calls)
  /\ UNCHANGED <<store, server, lost>>

OnboardingSlide(n) ==
  /\ path = "onboarding" /\ n # view.slide
  /\ view' = [view EXCEPT !.slide = n]
  /\ UNCHANGED <<store, path, calls, server, lost>>

\* Skip, or Get Started on the last slide.
OnboardingDone ==
  /\ path = "onboarding"
  /\ Navigate("language", store, calls)
  /\ UNCHANGED <<store, server, lost>>

LanguageContinue ==
  /\ path = "language"
  /\ Navigate("persona", store, calls)
  /\ UNCHANGED <<store, server, lost>>

PersonaContinue ==
  /\ path = "persona"
  /\ store' = [store EXCEPT !.onboardingDone = TRUE]
  /\ Navigate("login", store', calls)
  /\ UNCHANGED <<server, lost>>

\* Fields and a button, which takes no second press before the answer.
LoginForm == path = "login" /\ "login" \notin view.busy
SignupForm == path = "signup" /\ "register" \notin view.busy

\* A form that passed its validation: busy until it is answered.
Send(form) ==
  /\ view' = [view EXCEPT !.busy = @ \cup {form}]
  /\ calls' = calls \cup {<<form, TRUE>>}
  /\ UNCHANGED <<store, path, server, lost>>

\* The form, if it is still there, shows an error and may be sent again.
Failed(c) ==
  /\ calls' = calls \ {c}
  /\ view' = IF c[2] THEN [view EXCEPT !.busy = @ \ {c[1]}] ELSE view

SignupSubmit == SignupForm /\ Send("register")

SignupAnswer(c) ==
  /\ c \in calls /\ c[1] = "register"
  /\ \/ Failed(c) /\ UNCHANGED path
     \/ Navigate("login", store, calls \ {c})
  /\ UNCHANGED <<store, server, lost>>

-----------------------------------------------------------------------------
(***************************************************************************)
(* Login.jsx.  setUser makes PublicRoute replace the page at once; the     *)
(* rest of handleSubmit, which opens a wallet for a customer without one,  *)
(* runs on behind the dashboard and ends by navigating to it.              *)
(***************************************************************************)
LoginSubmit == LoginForm /\ Send("login")

LoginAnswer(c) ==
  /\ c \in calls /\ c[1] = "login"
  /\ \/ Failed(c) /\ UNCHANGED <<store, path>>
     \/ /\ store' = [store EXCEPT !.loggedIn = TRUE]
        /\ Navigate(path, store', (calls \ {c}) \cup {<<"provision", c[2]>>})
  /\ lost' = (lost /\ ~store'.loggedIn)
  /\ UNCHANGED server

AbortOnUnmount(c) ==
  /\ c \in calls /\ c[1] = "provision"
  /\ \E answer \in GetMyAccounts :
       /\ IF answer = "empty" /\ c[2]
          THEN calls' = (calls \ {c}) \cup {<<"create", c[2]>>} /\ UNCHANGED <<path, view>>
          ELSE Navigate("dashboard", store, calls \ {c})
       /\ lost' = (lost \/ answer = "error")
  /\ UNCHANGED <<store, server>>

ProvisionAnswer(c) ==
  /\ c \in calls /\ c[1] = "provision"
  /\ \E answer \in GetMyAccounts :
       /\ IF answer = "empty"
          THEN calls' = (calls \ {c}) \cup {<<"create", c[2]>>} /\ UNCHANGED <<path, view>>
          ELSE Navigate("dashboard", store, calls \ {c})
       /\ lost' = (lost \/ answer = "error")
  /\ UNCHANGED <<store, server>>

\* POST /accounts opens one wallet more, or fails.
CreateAnswer(c) ==
  /\ c \in calls /\ c[1] = "create"
  /\ \/ server' = [server EXCEPT !.wallet = TRUE] /\ UNCHANGED lost
     \/ lost' = TRUE /\ UNCHANGED server
  /\ Navigate("dashboard", store, calls \ {c})
  /\ UNCHANGED store

-----------------------------------------------------------------------------
(***************************************************************************)
(* Moving about.                                                           *)
(***************************************************************************)
NavItems == {"dashboard", "cards", "loans", "rewards", "profile"}

\* Send, Savings, and Bills with Airtime, two paths to one screen.
QuickActions == {"transfer", "bills", "savings"}

Links ==
  (IF path \in Protected THEN NavItems ELSE {})
    \cup (IF path = "dashboard" THEN QuickActions ELSE {})
    \cup (IF path = "profile" /\ <<"data", "kyc">> \in Visible THEN {"kyc"} ELSE {})
    \cup (IF path \in Public THEN Public ELSE {})

FollowLink(p) ==
  /\ p \in Links \ {path} /\ MayLeave
  /\ Navigate(p, store, calls)
  /\ UNCHANGED <<store, server, lost>>

\* navigate(-1) and the browser's buttons, over History.  An entry that a
\* guard sends back here mounts the screen anew, as leaving it would.
Back(p) ==
  /\ p \in History /\ Route(p, store) # path /\ MayLeave
  /\ Navigate(p, store, calls)
  /\ UNCHANGED <<store, server, lost>>

\* The button stands below the profile, once that is loaded.
Logout ==
  /\ path = "profile" /\ <<"spinner", "profile">> \notin Visible
  /\ store' = [store EXCEPT !.loggedIn = FALSE]
  /\ Navigate("splash", store', calls)
  /\ lost' = (lost \/ \E c \in calls : c[1] \in {"provision", "create"})
  /\ UNCHANGED server

\* A 401 whose rotation fails: AuthExpiredHandler.  The call itself is
\* answered with an error.
SessionLost ==
  /\ store.loggedIn
  /\ \E c \in calls : c[1] \in Live \cup Documents \cup {"provision", "create"}
  /\ store' = [store EXCEPT !.loggedIn = FALSE]
  /\ Navigate("login", store', calls)
  /\ lost' = TRUE
  /\ UNCHANGED server

-----------------------------------------------------------------------------
(***************************************************************************)
(* The screens behind the log-in.                                          *)
(***************************************************************************)
\* The dashboard asks for the rest once it has an account, after a Retry
\* without raising the loading flags again.
Answer(s) ==
  /\ <<s, TRUE>> \in calls /\ s \in Reads
  /\ \E answer \in Outcome(s) :
       LET next == IF path = "dashboard" /\ s = "account" /\ answer = "value"
                   THEN {"savings", "ledger"} ELSE {}
       IN  /\ view' = [view EXCEPT
                !.got = [r \in Reads |-> IF r = s THEN answer
                                         ELSE IF r \in next THEN view.got[s] ELSE view.got[r]],
                !.shown = IF s = "kyc" /\ answer = "value" THEN server.kyc ELSE @]
           /\ calls' = (calls \ {<<s, TRUE>>}) \cup (next \X {TRUE})
  /\ UNCHANGED <<store, path, server, lost>>

Ask(s, as) ==
  /\ view' = [view EXCEPT !.got[s] = as]
  /\ calls' = calls \cup {<<s, TRUE>>}
  /\ UNCHANGED <<store, path, server, lost>>

\* The loading flags stay down while loadDashboard runs again.
DashboardRetry ==
  /\ path = "dashboard" /\ <<"error", "account">> \in Visible
  /\ Ask("account", "again")

BillsCategory ==
  /\ path = "bills" /\ <<"form", "category">> \in Visible
  /\ view' = [view EXCEPT !.open = TRUE, !.got["billers"] = "wait"]
  /\ calls' = calls \cup {<<"billers", TRUE>>}
  /\ UNCHANGED <<store, path, server, lost>>

\* The dialogue for a new goal, the list of notifications, an open category.
Toggle ==
  /\ path \in {"savings", "profile", "bills"}
  /\ ~view.open => path # "bills" /\ (path = "savings" => view.got["savings"] # "pending")
  /\ view' = [view EXCEPT !.open = ~@]
  /\ UNCHANGED <<store, path, calls, server, lost>>

\* handleCreate awaits its method outside any try: a rejection changes nothing.
SavingsCreate ==
  /\ path = "savings" /\ view.open /\ <<"goal", TRUE>> \notin calls
  /\ Ask("goal", "again")

ProfileMarkAllRead ==
  /\ path = "profile" /\ view.open /\ view.got["notifications"] # "pending"
  /\ <<"markRead", TRUE>> \notin calls
  /\ Ask("markRead", "again")

KycVerify(d) == path = "kyc" /\ KycForm(d) /\ d \notin view.busy /\ Send(d)

\* Verified; refused; or verified with the answer lost.
KycVerifyAnswer(c) ==
  /\ c \in calls /\ c[1] \in Documents
  /\ \/ Failed(c) /\ UNCHANGED server
     \/ Failed(c) /\ server' = [server EXCEPT !.kyc = @ \cup {c[1]}]
     \/ /\ server' = [server EXCEPT !.kyc = @ \cup {c[1]}]
        /\ calls' = calls \ {c}
        /\ view' = IF c[2] THEN [view EXCEPT !.busy = @ \ {c[1]}, !.shown = server'.kyc] ELSE view
  /\ UNCHANGED <<store, path, lost>>

-----------------------------------------------------------------------------
Answers ==
  \/ \E s \in Reads : Answer(s)
  \/ \E c \in calls :
       SignupAnswer(c) \/ LoginAnswer(c) \/ ProvisionAnswer(c) \/ CreateAnswer(c)
         \/ KycVerifyAnswer(c)

Next ==
  \/ SplashTimer \/ OnboardingDone \/ LanguageContinue \/ PersonaContinue
  \/ \E n \in 1..3 : OnboardingSlide(n)
  \/ SignupSubmit \/ LoginSubmit \/ Logout \/ SessionLost
  \/ \E p \in Paths : FollowLink(p) \/ Back(p)
  \/ DashboardRetry \/ BillsCategory \/ Toggle \/ SavingsCreate \/ ProfileMarkAllRead
  \/ \E d \in Documents : KycVerify(d)
  \/ Answers

Spec == Init /\ [][Next]_vars

\* Requests are answered or fail, those of a log-in however busy the
\* customer is; nobody need press anything.
Fairness ==
  /\ WF_vars(\E s \in Reads \ {"goal", "markRead"} : Answer(s))
  /\ WF_vars(\E c \in calls : ProvisionAnswer(c))
  /\ WF_vars(\E c \in calls : CreateAnswer(c))

FairSpec == Spec /\ Fairness

-----------------------------------------------------------------------------
(***************************************************************************)
(* Properties.                                                             *)
(***************************************************************************)
\* The KYC screen never invites a customer to submit a document that was
\* verified before the screen was opened, whatever fails to load and whatever
\* an earlier visit left under way (Kyc.jsx, the comment on its mount effect).
KycAsksOnce ==
  path = "kyc" => \A d \in Documents : <<"form", d>> \in Visible => d \notin view.asof

\* A NIN is on its way only once the backend has verified the BVN, so that no
\* customer is stuck below tier 3 by the order of the two (Kyc.jsx; see
\* KycLadder for what the other order costs).
NinWaitsForBvn ==
  \A c \in calls : c[1] = "nin" => "bvn" \in server.kyc

\* No screen spins for ever: it settles, failed and pending requests
\* included, unless the customer keeps leaving before it does (the finally
\* and allSettled of the screens' mount effects).
LoadingEnds ==
  \/ []<>(\A s \in Reads : <<"spinner", s>> \notin Visible)
  \/ []<><<path' # path>>_path

\* A customer who logs in without a wallet gets one although the login page
\* is gone before its handler goes on, unless one of the two requests fails
\* or the session ends (Login.jsx, handleSubmit).
WalletIsOpened ==
  (~lost /\ \E c \in calls : c[1] = "provision") ~> (lost \/ server.wallet)
=============================================================================
