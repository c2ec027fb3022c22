---------------------------- MODULE WebAppProofs ----------------------------
(***************************************************************************)
(* Proofs about WebApp, for every history of the browser and every number  *)
(* of requests that outlive their screens.                                 *)
(*                                                                         *)
(* What a screen shows depends on what was answered to it, and when.  The  *)
(* inductive invariant says what the mounted screen can have been told     *)
(* (ViewRight), and what a request under way presupposes (CallsRight),     *)
(* both relative to the documents the backend has verified, which only     *)
(* grow.  A screen that is mounted anew starts without answers, and a      *)
(* request of the one before it keeps only what it was sent for.           *)
(***************************************************************************)
EXTENDS WebApp, TLAPS

Store == [loggedIn: BOOLEAN, onboardingDone: BOOLEAN]

AllCalls == (Reads \cup Writes) \X BOOLEAN

\* A mounted screen, k being the documents verified.
ViewRight(v, k) ==
  /\ v \in View
  /\ v.asof \subseteq k /\ v.shown \subseteq k
  /\ v.got["kyc"] = "value" => v.asof \subseteq v.shown

\* The requests under way.
CallsRight(cs, k) ==
  /\ cs \subseteq AllCalls
  /\ \A c \in cs : c[1] = "nin" => "bvn" \in k

IInv ==
  /\ store \in Store
  /\ path \in Paths
  /\ server \in [wallet: BOOLEAN, kyc: SUBSET Documents]
  /\ lost \in BOOLEAN
  /\ ViewRight(view, server.kyc)
  /\ CallsRight(calls, server.kyc)

-----------------------------------------------------------------------------
(***************************************************************************)
(* Routes, mounting and navigating.                                        *)
(***************************************************************************)
LEMMA Names ==
  /\ "nin" \notin Reads /\ "kyc" \in Reads /\ "kyc" \notin Unbuilt /\ Unbuilt \subseteq Reads
  /\ {"account", "goal", "markRead", "billers", "savings", "ledger"} \subseteq Reads
  /\ {"login", "provision", "create", "register", "bvn", "nin"} \subseteq Writes
  /\ Documents \subseteq Writes
BY DEF Reads, Live, Unbuilt, AccountsApi, KycApi, ProfileApi, NotificationsApi, LedgerApi,
   SavingsApi, CardsApi, LoansApi, RewardsApi, BillsApi, Writes, Documents

LEMMA LoadsReads == ASSUME NEW p PROVE Loads(p) \subseteq Reads
BY DEF Loads, DashboardEffect, TransferEffect, ProfileEffect, KycEffect, CardsEffect,
   LoansEffect, RewardsEffect, SavingsEffect, BillsEffect, Reads, Live, Unbuilt, AccountsApi,
   KycApi, ProfileApi, NotificationsApi, LedgerApi, SavingsApi, CardsApi, LoansApi,
   RewardsApi, BillsApi

LEMMA RoutePaths == ASSUME NEW p \in Paths, NEW s PROVE Route(p, s) \in Paths
BY DEF Route, PublicRoute, ProtectedRoute, Paths, Public, Protected

LEMMA MountedRight ==
  ASSUME NEW p, NEW s \in Store, server.kyc \subseteq Documents
  PROVE  ViewRight(Mounted(p, s), server.kyc)
<1> DEFINE m == Mounted(p, s)
<1>1. /\ m.got = [r \in Reads |-> IF r \in Loads(p) THEN "wait" ELSE "idle"]
      /\ m.asof = server.kyc /\ m.shown = {}
  BY DEF Mounted
<1>2. m \in View
  BY DEF Mounted, View, Store
<1>3. \A r \in Reads : m.got[r] # "value"
  BY <1>1
<1> QED BY <1>1, <1>2, <1>3, Names DEF ViewRight

LEMMA MountedCalls ==
  ASSUME NEW cs, NEW k, CallsRight(cs, k), NEW p
  PROVE  CallsRight(Orphaned(cs) \cup (Loads(p) \X {TRUE}), k)
<1>1. \A c \in cs : c = <<c[1], c[2]>> /\ c[1] \in Reads \cup Writes /\ c[2] \in BOOLEAN
  BY DEF CallsRight, AllCalls
<1>2. ASSUME NEW c \in Orphaned(cs) PROVE c \in AllCalls /\ (c[1] = "nin" => "bvn" \in k)
  <2>1. PICK d \in cs : d[1] \in Writes /\ c = <<d[1], FALSE>>
    BY DEF Orphaned
  <2> QED BY <1>1, <2>1 DEF AllCalls, CallsRight
<1>3. ASSUME NEW c \in Loads(p) \X {TRUE} PROVE c \in AllCalls /\ c[1] # "nin"
  BY LoadsReads, Names DEF AllCalls
<1> QED BY <1>2, <1>3 DEF CallsRight

\* navigate keeps a screen or mounts one; either is right.
LEMMA NavigateRight ==
  ASSUME IInv, NEW p \in Paths, NEW s \in Store, NEW cs, CallsRight(cs, server.kyc),
         Navigate(p, s, cs)
  PROVE  path' \in Paths /\ ViewRight(view', server.kyc) /\ CallsRight(calls', server.kyc)
<1> DEFINE q == Route(p, s)
<1>1. CASE p = path /\ q = path
  BY <1>1 DEF Navigate, IInv
<1>2. CASE ~(p = path /\ q = path)
  <2>1. path' = q /\ view' = Mounted(q, s) /\ calls' = Orphaned(cs) \cup (Loads(q) \X {TRUE})
    BY <1>2 DEF Navigate
  <2>2. server.kyc \subseteq Documents
    BY DEF IInv
  <2> QED BY <2>1, <2>2, RoutePaths, MountedRight, MountedCalls
<1> QED BY <1>1, <1>2

\* Requests that are answered, and new ones other than a NIN.
LEMMA CallsChange ==
  ASSUME NEW cs, NEW k, CallsRight(cs, k), NEW new \in SUBSET AllCalls,
         \A c \in new : c[1] # "nin", NEW old
  PROVE  CallsRight((cs \ old) \cup new, k) /\ CallsRight(cs \ old, k) /\ CallsRight(cs \cup new, k)
BY DEF CallsRight

\* The backend forgets no document.
LEMMA VerifiedGrows ==
  ASSUME NEW k, NEW j, k \subseteq j, NEW v, NEW cs
  PROVE  /\ ViewRight(v, k) => ViewRight(v, j)
         /\ CallsRight(cs, k) => CallsRight(cs, j)
BY DEF ViewRight, CallsRight

\* A change of the form's and the dialogue's state.
LEMMA SameAnswers ==
  ASSUME NEW v, NEW k, ViewRight(v, k), NEW w \in View, w.got = v.got, w.asof = v.asof,
         w.shown = v.shown
  PROVE  ViewRight(w, k)
BY DEF ViewRight

-----------------------------------------------------------------------------
LEMMA InitRight == Init => IInv
<1> SUFFICES ASSUME Init PROVE IInv
  OBVIOUS
<1>1. store \in Store /\ path \in Paths /\ lost \in BOOLEAN
  BY DEF Init, Store
<1>2. server \in [wallet: BOOLEAN, kyc: SUBSET Documents]
  BY DEF Init, Documents
<1>3. ViewRight(view, server.kyc)
  BY <1>1, <1>2, MountedRight DEF Init
<1>4. CallsRight({}, server.kyc)
  BY DEF CallsRight
<1>5. Orphaned({}) = {}
  BY DEF Orphaned
<1>6. CallsRight(calls, server.kyc)
  <2>1. CallsRight(Orphaned({}) \cup (Loads(path) \X {TRUE}), server.kyc)
    BY <1>4, MountedCalls
  <2>2. calls = Loads(path) \X {TRUE}
    BY DEF Init
  <2>3. calls = Orphaned({}) \cup (Loads(path) \X {TRUE})
    BY <1>5, <2>2
  <2> QED BY <2>1, <2>3
<1> QED BY <1>1, <1>2, <1>3, <1>6 DEF IInv

\* The steps that only navigate.
LEMMA MovesRight ==
  ASSUME IInv,
         \/ SplashTimer \/ OnboardingDone \/ LanguageContinue \/ PersonaContinue \/ Logout
         \/ SessionLost \/ \E p \in Paths : FollowLink(p) \/ Back(p)
  PROVE  IInv'
<1>1. /\ store \in Store /\ view \in View /\ CallsRight(calls, server.kyc)
      /\ server \in [wallet: BOOLEAN, kyc: SUBSET Documents] /\ lost \in BOOLEAN
  BY DEF IInv, ViewRight
<1>2. /\ [store EXCEPT !.onboardingDone = TRUE] \in Store
      /\ [store EXCEPT !.loggedIn = FALSE] \in Store
  BY <1>1 DEF Store
<1>3. {"dashboard", "login", "onboarding", "language", "persona", "splash"} \subseteq Paths
  BY DEF Paths, Public, Protected
<1>4. PICK p \in Paths, s \in Store :
        Navigate(p, s, calls) /\ store' \in Store /\ lost' \in BOOLEAN /\ server' = server
  <2>1. CASE SplashTimer \/ OnboardingDone \/ LanguageContinue
    BY <1>1, <1>3, <2>1 DEF SplashTimer, OnboardingDone, LanguageContinue
  <2>2. CASE PersonaContinue
    BY <1>1, <1>2, <1>3, <2>2 DEF PersonaContinue
  <2>3. CASE Logout
    BY <1>1, <1>2, <1>3, <2>3 DEF Logout
  <2>4. CASE SessionLost
    BY <1>1, <1>2, <1>3, <2>4 DEF SessionLost
  <2>5. CASE \E p \in Paths : FollowLink(p) \/ Back(p)
    BY <1>1, <2>5 DEF FollowLink, Back
  <2> QED BY <2>1, <2>2, <2>3, <2>4, <2>5
<1>5. path' \in Paths /\ ViewRight(view', server.kyc) /\ CallsRight(calls', server.kyc)
  BY <1>1, <1>4, NavigateRight
<1> QED BY <1>1, <1>4, <1>5 DEF IInv

\* A form is sent; a NIN only from the form that a verified BVN brings up.
LEMMA SendRight ==
  ASSUME IInv, NEW form \in Writes, form = "nin" => "bvn" \in server.kyc, Send(form)
  PROVE  IInv'
<1>1. view \in View /\ ViewRight(view, server.kyc) /\ CallsRight(calls, server.kyc)
  BY DEF IInv, ViewRight
<1>2. /\ view' \in View /\ view'.got = view.got /\ view'.asof = view.asof
      /\ view'.shown = view.shown
  BY <1>1 DEF Send, View
<1>3. ViewRight(view', server.kyc)
  BY <1>1, <1>2, SameAnswers
<1>4. CallsRight(calls', server.kyc)
  <2>1. calls' = calls \cup {<<form, TRUE>>}
    BY DEF Send
  <2>2. <<form, TRUE>> \in AllCalls /\ <<form, TRUE>>[1] = form
    BY DEF AllCalls
  <2> QED BY <1>1, <2>1, <2>2 DEF CallsRight
<1> QED BY <1>3, <1>4 DEF IInv, Send

\* A form's request failed.
LEMMA FailedRight ==
  ASSUME IInv, NEW c \in calls, Failed(c)
  PROVE  ViewRight(view', server.kyc) /\ CallsRight(calls', server.kyc)
<1>1. view \in View /\ ViewRight(view, server.kyc) /\ CallsRight(calls, server.kyc)
  BY DEF IInv, ViewRight
<1>2. /\ view' \in View /\ view'.got = view.got /\ view'.asof = view.asof
      /\ view'.shown = view.shown
  BY <1>1 DEF Failed, View
<1>3. CallsRight(calls', server.kyc)
  BY <1>1 DEF Failed, CallsRight
<1> QED BY <1>1, <1>2, <1>3, SameAnswers

LEMMA LoginRight ==
  ASSUME IInv, NEW c \in calls,
         SignupAnswer(c) \/ LoginAnswer(c) \/ ProvisionAnswer(c) \/ CreateAnswer(c)
  PROVE  IInv'
<1>1. /\ store \in Store /\ path \in Paths /\ CallsRight(calls, server.kyc)
      /\ server \in [wallet: BOOLEAN, kyc: SUBSET Documents] /\ lost \in BOOLEAN
  BY DEF IInv
<1>2. c \in AllCalls
  BY <1>1 DEF CallsRight
<1>3. c[2] \in BOOLEAN
  BY <1>2 DEF AllCalls
<1>4. ASSUME NEW w \in {"provision", "create"}
      PROVE  CallsRight((calls \ {c}) \cup {<<w, c[2]>>}, server.kyc)
  <2>1. {<<w, c[2]>>} \in SUBSET AllCalls /\ \A d \in {<<w, c[2]>>} : d[1] # "nin"
    BY <1>3, Names DEF AllCalls
  <2> QED BY <1>1, <2>1, CallsChange
<1>5. CallsRight(calls \ {c}, server.kyc)
  BY <1>1 DEF CallsRight
<1>6. {"login", "dashboard"} \subseteq Paths
  BY DEF Paths, Public, Protected
<1>7. CASE SignupAnswer(c)
  <2>1. CASE Failed(c) /\ UNCHANGED path
    BY <1>7, <2>1, FailedRight DEF SignupAnswer, IInv
  <2>2. CASE Navigate("login", store, calls \ {c})
    <3>1. path' \in Paths /\ ViewRight(view', server.kyc) /\ CallsRight(calls', server.kyc)
      BY <1>1, <1>5, <1>6, <2>2, NavigateRight
    <3> QED BY <1>7, <3>1 DEF SignupAnswer, IInv
  <2> QED BY <1>7, <2>1, <2>2 DEF SignupAnswer
<1>8. CASE LoginAnswer(c)
  <2>1. CASE Failed(c) /\ UNCHANGED <<store, path>>
    BY <1>8, <2>1, FailedRight DEF LoginAnswer, IInv, Store
  <2>2. CASE /\ store' = [store EXCEPT !.loggedIn = TRUE]
             /\ Navigate(path, store', (calls \ {c}) \cup {<<"provision", c[2]>>})
    <3>1. store' \in Store
      BY <1>1, <2>2 DEF Store
    <3>2. path' \in Paths /\ ViewRight(view', server.kyc) /\ CallsRight(calls', server.kyc)
      BY <1>1, <1>4, <2>2, <3>1, NavigateRight
    <3> QED BY <1>1, <1>8, <3>1, <3>2 DEF LoginAnswer, IInv
  <2> QED BY <1>8, <2>1, <2>2 DEF LoginAnswer
<1>9. CASE ProvisionAnswer(c)
  <2>1. PICK answer \in GetMyAccounts :
          /\ IF answer = "empty"
             THEN calls' = (calls \ {c}) \cup {<<"create", c[2]>>} /\ UNCHANGED <<path, view>>
             ELSE Navigate("dashboard", store, calls \ {c})
          /\ lost' = (lost \/ answer = "error")
    BY <1>9 DEF ProvisionAnswer
  <2>2. path' \in Paths /\ ViewRight(view', server.kyc) /\ CallsRight(calls', server.kyc)
    <3>1. CASE answer = "empty"
      BY <1>4, <2>1, <3>1 DEF IInv
    <3>2. CASE answer # "empty"
      BY <1>1, <1>5, <1>6, <2>1, <3>2, NavigateRight
    <3> QED BY <3>1, <3>2
  <2> QED BY <1>1, <1>9, <2>1, <2>2 DEF ProvisionAnswer, IInv
<1>10. CASE CreateAnswer(c)
  <2>1. path' \in Paths /\ ViewRight(view', server.kyc) /\ CallsRight(calls', server.kyc)
    BY <1>1, <1>5, <1>6, <1>10, NavigateRight DEF CreateAnswer
  <2>2. /\ server' \in [wallet: BOOLEAN, kyc: SUBSET Documents] /\ server'.kyc = server.kyc
        /\ lost' \in BOOLEAN /\ store' = store
    BY <1>1, <1>10 DEF CreateAnswer
  <2> QED BY <1>1, <2>1, <2>2 DEF IInv
<1> QED BY <1>7, <1>8, <1>9, <1>10

\* An API method that is not built never answers with a value, and the
\* status of the documents is what the backend holds when it answers.
LEMMA AnswerRight ==
  ASSUME IInv, NEW s \in Reads, Answer(s)
  PROVE  IInv'
<1> DEFINE k == server.kyc
<1>1. view \in View /\ ViewRight(view, k) /\ CallsRight(calls, k) /\ k \subseteq Documents
  BY DEF IInv, ViewRight
<1> DEFINE after(a) == IF path = "dashboard" /\ s = "account" /\ a = "value"
                       THEN {"savings", "ledger"} ELSE {}
<1>2. PICK answer \in Outcome(s) :
        /\ view' = [view EXCEPT
             !.got = [r \in Reads |-> IF r = s THEN answer
                                      ELSE IF r \in after(answer) THEN view.got[s]
                                      ELSE view.got[r]],
             !.shown = IF s = "kyc" /\ answer = "value" THEN server.kyc ELSE @]
        /\ calls' = (calls \ {<<s, TRUE>>}) \cup (after(answer) \X {TRUE})
  BY Zenon DEF Answer
<1> DEFINE next == after(answer)
<1>0. next \subseteq {"savings", "ledger"}
  OBVIOUS
<1> HIDE DEF after
<1>3. answer \in {"value", "empty", "error", "pending"}
  BY DEF Outcome, PendingEndpoint, GetMyAccounts
<1>4. CallsRight(calls', k)
  <2>1. ASSUME NEW c \in next \X {TRUE} PROVE c \in AllCalls /\ c[1] # "nin"
    BY <1>0, Names DEF AllCalls
  <2> QED BY <1>1, <1>2, <2>1, CallsChange
<1>5. /\ view.got \in [Reads -> {"idle", "wait", "again", "value", "empty", "error", "pending"}]
      /\ view.shown \subseteq Documents
  BY <1>1 DEF View
<1>6. /\ view'.got = [r \in Reads |-> IF r = s THEN answer
                                      ELSE IF r \in next THEN view.got[s] ELSE view.got[r]]
      /\ view'.shown = IF s = "kyc" /\ answer = "value" THEN k ELSE view.shown
      /\ view'.asof = view.asof
  BY <1>1, <1>2 DEF View
<1>7. view' \in View
  BY <1>1, <1>2, <1>3, <1>5 DEF View
<1>9. view'.got["kyc"] = "value" =>
        (s = "kyc" /\ answer = "value") \/ (s # "kyc" /\ view.got["kyc"] = "value")
  BY <1>0, <1>6, Names
<1>10. ViewRight(view', k)
  BY <1>1, <1>6, <1>7, <1>9 DEF ViewRight
<1> QED BY <1>4, <1>10 DEF IInv, Answer

\* A read is repeated, or made for a dialogue.
LEMMA AskRight ==
  ASSUME IInv, NEW s \in Reads, s # "kyc", NEW as \in {"wait", "again"}, NEW open \in BOOLEAN,
         view' = [view EXCEPT !.open = open, !.got[s] = as],
         calls' = calls \cup {<<s, TRUE>>}, UNCHANGED <<store, path, server, lost>>
  PROVE  IInv'
<1>1. view \in View /\ ViewRight(view, server.kyc) /\ CallsRight(calls, server.kyc)
  BY DEF IInv, ViewRight
<1>2. view.got \in [Reads -> {"idle", "wait", "again", "value", "empty", "error", "pending"}]
  BY <1>1 DEF View
<1>3. /\ view'.got = [view.got EXCEPT ![s] = as]
      /\ view'.shown = view.shown /\ view'.asof = view.asof
  BY <1>1 DEF View
<1>4. view' \in View
  BY <1>1, <1>2 DEF View
<1>5. ViewRight(view', server.kyc)
  BY <1>1, <1>2, <1>3, <1>4, Names DEF ViewRight
<1>6. {<<s, TRUE>>} \in SUBSET AllCalls /\ \A c \in {<<s, TRUE>>} : c[1] # "nin"
  <2>1. <<s, TRUE>> \in AllCalls /\ <<s, TRUE>>[1] = s /\ s # "nin"
    BY Names DEF AllCalls
  <2> QED BY <2>1
<1>7. CallsRight(calls', server.kyc)
  BY <1>1, <1>6, CallsChange
<1> QED BY <1>5, <1>7 DEF IInv

LEMMA ScreensRight ==
  ASSUME IInv,
         \/ DashboardRetry \/ BillsCategory \/ Toggle \/ SavingsCreate \/ ProfileMarkAllRead
         \/ \E n \in 1..3 : OnboardingSlide(n)
  PROVE  IInv'
<1>1. view \in View /\ ViewRight(view, server.kyc)
  BY DEF IInv, ViewRight
<1>2. view.open \in BOOLEAN
  BY <1>1 DEF View
<1>3. ASSUME NEW s \in {"account", "goal", "markRead"}, Ask(s, "again") PROVE IInv'
  <2>1. view' = [view EXCEPT !.open = view.open, !.got[s] = "again"]
    BY <1>1, <1>3 DEF Ask, View
  <2> QED BY <1>2, <1>3, <2>1, AskRight, Names DEF Ask
<1>4. CASE BillsCategory
  BY <1>4, AskRight, Names DEF BillsCategory
<1>5. CASE Toggle
  <2>1. view' \in View /\ view'.got = view.got /\ view'.asof = view.asof /\ view'.shown = view.shown
    BY <1>1, <1>2, <1>5 DEF Toggle, View
  <2> QED BY <1>1, <1>5, <2>1, SameAnswers DEF Toggle, IInv
<1>6. ASSUME NEW n \in 1..3, OnboardingSlide(n) PROVE IInv'
  <2>1. view' \in View /\ view'.got = view.got /\ view'.asof = view.asof /\ view'.shown = view.shown
    BY <1>1, <1>6 DEF OnboardingSlide, View
  <2> QED BY <1>1, <1>6, <2>1, SameAnswers DEF OnboardingSlide, IInv
<1> QED BY <1>3, <1>4, <1>5, <1>6 DEF DashboardRetry, SavingsCreate, ProfileMarkAllRead

LEMMA VerifyRight ==
  ASSUME IInv, NEW c \in calls, KycVerifyAnswer(c)
  PROVE  IInv'
<1> DEFINE k == server.kyc
           j == server.kyc \cup {c[1]}
<1>1. /\ view \in View /\ ViewRight(view, k) /\ CallsRight(calls, k)
      /\ server \in [wallet: BOOLEAN, kyc: SUBSET Documents] /\ c[1] \in Documents
  BY DEF IInv, ViewRight, KycVerifyAnswer
<1>2. ASSUME server' = [server EXCEPT !.kyc = @ \cup {c[1]}]
      PROVE  server' \in [wallet: BOOLEAN, kyc: SUBSET Documents] /\ server'.kyc = j
  BY <1>1, <1>2
<1>3. ASSUME Failed(c), server' = server \/ server' = [server EXCEPT !.kyc = @ \cup {c[1]}]
      PROVE  IInv'
  <2>1. ViewRight(view', k) /\ CallsRight(calls', k)
    BY <1>3, FailedRight
  <2>2. k \subseteq server'.kyc /\ server' \in [wallet: BOOLEAN, kyc: SUBSET Documents]
    BY <1>1, <1>2, <1>3
  <2>3. ViewRight(view', server'.kyc) /\ CallsRight(calls', server'.kyc)
    BY <2>1, <2>2, VerifiedGrows
  <2> QED BY <2>2, <2>3 DEF IInv, KycVerifyAnswer
<1>4. ASSUME server' = [server EXCEPT !.kyc = @ \cup {c[1]}], calls' = calls \ {c},
             view' = IF c[2] THEN [view EXCEPT !.busy = @ \ {c[1]}, !.shown = server'.kyc] ELSE view
      PROVE  IInv'
  <2>1. server' \in [wallet: BOOLEAN, kyc: SUBSET Documents] /\ server'.kyc = j
    BY <1>2, <1>4
  <2>2. j \subseteq Documents /\ k \subseteq j
    BY <1>1
  <2> HIDE DEF j, k
  <2>3. ViewRight(view, j) /\ CallsRight(calls, j)
    BY <1>1, <2>2, VerifiedGrows
  <2>4. CallsRight(calls', j)
    BY <1>4, <2>3 DEF CallsRight
  <2>5. ViewRight(view', j)
    <3>1. CASE c[2]
      <4>1. /\ view' \in View /\ view'.got = view.got /\ view'.asof = view.asof
            /\ view'.shown = j
        BY <1>1, <1>4, <2>1, <2>2, <3>1 DEF View
      <4> QED BY <2>3, <4>1 DEF ViewRight
    <3>2. CASE ~c[2]
      BY <1>4, <2>3, <3>2
    <3> QED BY <3>1, <3>2
  <2> QED BY <2>1, <2>4, <2>5 DEF IInv, KycVerifyAnswer
<1> QED BY <1>3, <1>4 DEF KycVerifyAnswer

LEMMA NextRight == IInv /\ [Next]_vars => IInv'
<1> SUFFICES ASSUME IInv, [Next]_vars PROVE IInv'
  OBVIOUS
<1>1. CASE UNCHANGED vars
  BY <1>1 DEF IInv, vars
<1>2. CASE SignupSubmit \/ LoginSubmit
  BY <1>2, SendRight, Names DEF SignupSubmit, LoginSubmit
<1>3. ASSUME NEW d \in Documents, KycVerify(d) PROVE IInv'
  BY <1>3, SendRight, Names DEF KycVerify, KycForm, IInv, ViewRight
<1> QED BY <1>1, <1>2, <1>3, MovesRight, ScreensRight, AnswerRight, LoginRight, VerifyRight
        DEF Next, Answers

-----------------------------------------------------------------------------
(***************************************************************************)
(* The theorems.                                                           *)
(***************************************************************************)

\* What the screens, the requests and the backend hold stays consistent,
\* however the customer moves about while requests are under way.
THEOREM Inductive == Spec => []IInv
BY InitRight, NextRight, PTL DEF Spec

\* Type correctness of the screens and their requests.
THEOREM TypeCorrect == Spec => []TypeOK
<1>1. IInv => TypeOK
  BY DEF IInv, TypeOK, ViewRight, CallsRight, AllCalls, Store
<1> QED BY <1>1, Inductive, PTL

\* The KYC screen asks for no document that was verified when it was opened.
THEOREM KycIsAskedOnce == Spec => []KycAsksOnce
<1>1. IInv => KycAsksOnce
  <2> SUFFICES ASSUME IInv, path = "kyc", NEW d \in Documents, <<"form", d>> \in Visible
               PROVE  d \notin view.asof
    BY DEF KycAsksOnce
  <2>1. <<"form", d>> \in Kyc
    BY DEF Visible
  <2>2. KycForm(d)
    BY <2>1 DEF Kyc, Section
  <2> QED BY <2>2 DEF KycForm, IInv, ViewRight
<1> QED BY <1>1, Inductive, PTL

\* A NIN is under way only when the backend has verified the BVN.
THEOREM NinFollowsBvn == Spec => []NinWaitsForBvn
<1>1. IInv => NinWaitsForBvn
  BY DEF IInv, CallsRight, NinWaitsForBvn
<1> QED BY <1>1, Inductive, PTL
=============================================================================
