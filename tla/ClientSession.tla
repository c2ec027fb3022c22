--------------------------- MODULE ClientSession ----------------------------
(***************************************************************************)
(* The web client's session (authStore.js, api/client.js, AppRouter.jsx,   *)
(* and the log-in and log-out of Login.jsx and Profile.jsx): an access     *)
(* token in the memory of a tab, a refresh token in the store of the tab   *)
(* and, through zustand's persist, in the localStorage all tabs share.  An *)
(* expired access token makes the tab rotate its refresh token; answers    *)
(* arrive late, or not at all, and a reload forgets what was in flight.    *)
(*                                                                         *)
(* The backend is reduced to what the tab sees of Sessions: a refresh      *)
(* token works once, and one presented again ends its family.  Tokens are  *)
(* numbered as issued, an access token after the refresh token issued with *)
(* it; 0 is null.  `reused' and `excused' are history: whether a revoked   *)
(* token was presented, and whether a rotation's answer was lost or two    *)
(* tabs came to hold one token.                                            *)
(*                                                                         *)
(* The names of the specification start with Client because the proofs     *)
(* extend both sides of the session.                                       *)
(*                                                                         *)
(* NoSharing, ForgottenEvent and LogoutKeepsFlag are plausible mistakes in *)
(* the code of the definition that follows them; no behaviour uses them.   *)
(***************************************************************************)
EXTENDS Integers

CONSTANTS
  Tabs,       \* browser tabs
  Calls,      \* API calls of one tab in flight at once
  MaxTokens,  \* bound: refresh tokens issued
  MaxReloads  \* bound: reloads

ASSUME MaxTokensAssumption == MaxTokens \in Nat
ASSUME MaxReloadsAssumption == MaxReloads \in Nat

VARIABLES
  tab,      \* each tab's memory
  storage,  \* localStorage: what persist wrote last
  server,   \* the refresh tokens the backend issued
  issued,   \* how many
  expired,  \* access tokens past their fifteen minutes
  reloads,  \* reloads so far
  reused, excused

clientVars == <<tab, storage, server, issued, expired, reloads, reused, excused>>

Id == 0..MaxTokens

\* refreshing: the requests behind refreshPromise, as [presented, answer];
\* the code never has two.  call: the API calls, with the token they carry.
Tab == [open: BOOLEAN, loggedIn: BOOLEAN, access: Id, refresh: Id, loggingIn: BOOLEAN,
        refreshing: SUBSET [presented: Id, answer: Id \cup {-1, -2}],
        call: [Calls -> Id \cup {-1}]]

ClientTypeOK ==
  /\ tab \in [Tabs -> Tab]
  /\ storage \in [loggedIn: BOOLEAN, refresh: Id]
  /\ server \in [1..MaxTokens -> [state: {"none", "live", "revoked"}, family: Id]]
  /\ issued \in Id /\ expired \subseteq Id /\ reloads \in Nat
  /\ reused \in BOOLEAN /\ excused \in BOOLEAN

\* Answers of a rotation that has none yet, and of one that failed.
Waiting == -1
Refused == -2

Closed == [open |-> FALSE, loggedIn |-> FALSE, access |-> 0, refresh |-> 0,
           loggingIn |-> FALSE, refreshing |-> {}, call |-> [c \in Calls |-> -1]]

ClientInit ==
  /\ tab = [t \in Tabs |-> Closed]
  /\ storage = [loggedIn |-> FALSE, refresh |-> 0]
  /\ server = [n \in 1..MaxTokens |-> [state |-> "none", family |-> 0]]
  /\ issued = 0 /\ expired = {} /\ reloads = 0
  /\ reused = FALSE /\ excused = FALSE

-----------------------------------------------------------------------------
(***************************************************************************)
(* The store's actions, as functions of the tab.  A set() persists what    *)
(* this tab holds, over what another one may have written.                 *)
(***************************************************************************)
Persisted(m) == [loggedIn |-> m.loggedIn, refresh |-> m.refresh]

Becomes(t, m) == tab' = [tab EXCEPT ![t] = m] /\ storage' = Persisted(m)

LogoutKeepsFlag(m) == [m EXCEPT !.access = 0, !.refresh = 0]

\* Of the browser alone: POST /auth/logout is never sent.
LocalLogout(m) == [m EXCEPT !.access = 0, !.refresh = 0, !.loggedIn = FALSE]

NoSharing(m) == FALSE

\* if (refreshPromise) return refreshPromise
SharesRefresh(m) == m.refreshing # {}

RefreshAccessToken(m) ==
  IF SharesRefresh(m) THEN m
  ELSE IF m.refresh = 0 THEN LocalLogout(m)
  ELSE [m EXCEPT !.refreshing = @ \cup {[presented |-> m.refresh, answer |-> Waiting]}]

-----------------------------------------------------------------------------
\* A tab is opened or reloaded: the store is rehydrated, and bootstrap
\* exchanges the refresh token before any route renders.
Load(t) ==
  /\ reloads < MaxReloads
  /\ reloads' = reloads + 1
  /\ LET m == [Closed EXCEPT !.open = TRUE, !.loggedIn = storage.loggedIn,
                             !.refresh = storage.refresh]
     IN  Becomes(t, IF m.refresh = 0 THEN m ELSE RefreshAccessToken(m))
  /\ excused' = (excused \/ tab[t].refreshing # {}
                   \/ \E u \in Tabs \ {t} : tab[u].refresh # 0 /\ tab[u].refresh = storage.refresh)
  /\ UNCHANGED <<server, issued, expired, reused>>

\* Log in: the page is shown to nobody who is logged in.
LoginSubmit(t) ==
  /\ tab[t].open /\ ~tab[t].loggedIn /\ ~tab[t].loggingIn
  /\ issued < MaxTokens
  /\ tab' = [tab EXCEPT ![t].loggingIn = TRUE]
  /\ UNCHANGED <<storage, server, issued, expired, reloads, reused, excused>>

\* The three setters run in one turn of the event loop, so no other step of
\* the tab comes between them.  A refused login is one error on the form, also
\* when the request carried a leftover access token and its 401 is taken for
\* an expired session: that clears what a tab without a session holds anyway.
LoginAnswer(t) ==
  /\ tab[t].loggingIn
  /\ \/ /\ issued < MaxTokens
        /\ issued' = issued + 1
        /\ server' = [server EXCEPT ![issued + 1] = [state |-> "live", family |-> issued + 1]]
        /\ Becomes(t, [tab[t] EXCEPT !.loggingIn = FALSE, !.loggedIn = TRUE,
                                     !.access = issued + 1, !.refresh = issued + 1])
     \/ /\ tab' = [tab EXCEPT ![t].loggingIn = FALSE]
        /\ UNCHANGED <<storage, server, issued>>
  /\ UNCHANGED <<expired, reloads, reused, excused>>

Logout(t) ==
  /\ tab[t].open /\ tab[t].loggedIn
  /\ Becomes(t, LocalLogout(tab[t]))
  /\ UNCHANGED <<server, issued, expired, reloads, reused, excused>>

-----------------------------------------------------------------------------
(***************************************************************************)
(* apiClient: a call carries the access token of the moment it is sent; a  *)
(* 401 to one that carried a token clears whatever token the tab has now   *)
(* and dispatches auth:expired, which rotates.                             *)
(***************************************************************************)
Call(t, c) ==
  /\ tab[t].open /\ tab[t].loggedIn /\ tab[t].call[c] = -1
  /\ tab[t].access # 0
  /\ tab' = [tab EXCEPT ![t].call[c] = tab[t].access]
  /\ UNCHANGED <<storage, server, issued, expired, reloads, reused, excused>>

ForgottenEvent(m) == [m EXCEPT !.access = 0]

Expired(m) == RefreshAccessToken([m EXCEPT !.access = 0])

CallAnswer(t, c) ==
  /\ tab[t].call[c] # -1
  /\ LET m == [tab[t] EXCEPT !.call[c] = -1]
         after == IF tab[t].call[c] \in expired THEN Expired(m) ELSE m
     IN  /\ tab' = [tab EXCEPT ![t] = after]
         /\ storage' = IF tab[t].call[c] \in expired /\ ~SharesRefresh(m)
                       THEN Persisted(after) ELSE storage
  /\ UNCHANGED <<server, issued, expired, reloads, reused, excused>>

AccessExpires(n) ==
  /\ n \in 1..issued /\ n \notin expired
  /\ expired' = expired \cup {n}
  /\ UNCHANGED <<tab, storage, server, issued, reloads, reused, excused>>

-----------------------------------------------------------------------------
(***************************************************************************)
(* The rotation: at the backend, and its answer in the tab.                *)
(***************************************************************************)
Answered(t, q, answer) ==
  tab' = [tab EXCEPT ![t].refreshing = (@ \ {q}) \cup {[presented |-> q.presented, answer |-> answer]}]

Rotate(t, q) ==
  /\ q \in tab[t].refreshing /\ q.answer = Waiting
  /\ IF server[q.presented].state = "live"
     THEN /\ issued < MaxTokens
          /\ issued' = issued + 1
          /\ server' = [server EXCEPT ![q.presented].state = "revoked",
                          ![issued + 1] = [state |-> "live", family |-> server[q.presented].family]]
          /\ \/ Answered(t, q, issued + 1) /\ UNCHANGED excused
             \/ Answered(t, q, Refused) /\ excused' = TRUE
          /\ UNCHANGED reused
     ELSE /\ server' = [n \in DOMAIN server |->
               IF server[n].family = server[q.presented].family
               THEN [state |-> "revoked", family |-> server[n].family] ELSE server[n]]
          /\ reused' = TRUE
          /\ Answered(t, q, Refused)
          /\ UNCHANGED <<issued, excused>>
  /\ UNCHANGED <<storage, expired, reloads>>

\* The request never reached the backend, or the token's family, user or
\* expiry made it refuse.
RotateFails(t, q) ==
  /\ q \in tab[t].refreshing /\ q.answer = Waiting
  /\ Answered(t, q, Refused)
  /\ UNCHANGED <<storage, server, issued, expired, reloads, reused, excused>>

\* then, catch and finally of refreshAccessToken.  It looks neither at who
\* is logged in by now nor at which token the tab holds.
RefreshAnswer(t, q) ==
  /\ q \in tab[t].refreshing /\ q.answer # Waiting
  /\ LET m == [tab[t] EXCEPT !.refreshing = @ \ {q}]
     IN  Becomes(t, IF q.answer = Refused THEN LocalLogout(m)
                    ELSE [m EXCEPT !.access = q.answer, !.refresh = q.answer])
  /\ UNCHANGED <<server, issued, expired, reloads, reused, excused>>

-----------------------------------------------------------------------------
RefreshStep(t) ==
  \E q \in tab[t].refreshing : Rotate(t, q) \/ RotateFails(t, q) \/ RefreshAnswer(t, q)

ClientNext ==
  \/ \E t \in Tabs :
       \/ Load(t) \/ LoginSubmit(t) \/ LoginAnswer(t) \/ Logout(t) \/ RefreshStep(t)
       \/ \E c \in Calls : Call(t, c) \/ CallAnswer(t, c)
  \/ \E n \in 1..MaxTokens : AccessExpires(n)

ClientSpec == ClientInit /\ [][ClientNext]_clientVars

\* A rotation is answered or fails, and its answer is handled.
ClientFairSpec == ClientSpec /\ \A t \in Tabs : WF_clientVars(RefreshStep(t))

-----------------------------------------------------------------------------
(***************************************************************************)
(* Properties.                                                             *)
(***************************************************************************)
\* The client never makes the backend believe that its token was stolen: a
\* rotated token is presented again only after an answer was lost or after
\* two tabs shared one token, although log-outs, log-ins and late 401s come
\* between (authStore.js, refreshPromise).
NoSelfReuse == reused => excused

\* A protected screen is shown only to a tab that can renew its access: the
\* flag ProtectedRoute reads never outlives the refresh token, in a tab or
\* in what a reload would find (authStore.js, AppRouter.jsx).
LoggedInCanRefresh ==
  /\ \A t \in Tabs : tab[t].loggedIn => tab[t].refresh # 0
  /\ storage.loggedIn => storage.refresh # 0

\* A tab that is logged in without an access token does not stay so: it gets
\* one or is sent to the login page, whichever answers come late
\* (client.js, AppRouter.jsx AuthExpiredHandler).
AccessIsRestored ==
  \A t \in Tabs : (tab[t].loggedIn /\ tab[t].access = 0) ~> (~tab[t].loggedIn \/ tab[t].access # 0)
=============================================================================
