------------------------------ MODULE Sessions ------------------------------
(***************************************************************************)
(* The Identity module around one e-mail address: the user row with its    *)
(* password, lockout counter and lock, the refresh tokens of its sessions, *)
(* and the handlers that register, log in, rotate a token, log out and     *)
(* change the password.  A handler is cut at its database queries.  Users  *)
(* and tokens are saved whole and unversioned, so what a handler loaded    *)
(* may be stale when it is written back.                                   *)
(*                                                                         *)
(* A token is named after the request that issues it; Seed is one from a   *)
(* login in the past, and a token nobody issued is named after the request *)
(* that presents it.  `stale' marks a request that loaded the user before  *)
(* another one saved it, and `ended' remembers which families were revoked *)
(* while no rotation of them was under way: history, which no guard reads. *)
(*                                                                         *)
(* UnlockOnly, LoginUnchecked, RevokeMember and IssueFirst are plausible   *)
(* mistakes in the code of the definition that follows them; no behaviour  *)
(* uses them.                                                              *)
(***************************************************************************)
EXTENDS Integers

CONSTANTS
  Requests,     \* HTTP requests about this user
  Seed,         \* the token of an earlier login
  Passwords,    \* passwords, as what their hashes tell apart
  MaxAttempts,  \* MAX_FAILED_LOGIN_ATTEMPTS
  Lockout,      \* LOCKOUT_DURATION_MS, in ticks
  MaxClock,     \* bound: ticks
  MaxFaults     \* bound: crashes and database errors

ASSUME SeedAssumption == Seed \notin Requests
ASSUME MaxAttemptsAssumption == MaxAttempts \in Nat \ {0}
ASSUME LockoutAssumption == Lockout \in Nat \ {0}
ASSUME MaxClockAssumption == MaxClock \in Nat
ASSUME MaxFaultsAssumption == MaxFaults \in Nat

VARIABLES
  user,       \* the users row
  token,      \* the refresh_tokens rows
  account,    \* the wallet account is open
  announced,  \* UserRegisteredEvent was published
  req,        \* the requests: next step and what each holds in memory
  clock,      \* time, for the lock
  faults,     \* faults so far
  ended       \* history: families revoked with no rotation under way

vars == <<user, token, account, announced, req, clock, faults, ended>>

Tokens == Requests \cup {Seed}

\* SUSPENDED and DEACTIVATED stand in the enum, and nothing sets them.
Statuses == {"ABSENT", "PENDING_VERIFICATION", "ACTIVE", "LOCKED"}

User == [password: Passwords, status: Statuses, failed: Nat, lockedUntil: Nat]

\* revoked: revokedAt is set.  parent: the token this one replaced, itself
\* for the first of a family.
Token == [state: {"none", "live", "revoked"}, expired: BOOLEAN,
          family: Tokens, parent: Tokens]

Kinds == {"REGISTER", "LOGIN", "REFRESH", "LOGOUT", "CHANGE"}

Steps == {"idle", "find", "load", "save", "open", "issue", "revokeOld",
          "revokeFamily", "revokeAll", "ok", "refused", "failed"}

\* given: the password in the body; presented: the token in the body;
\* copy: the user in memory; stale: the row was saved since it was loaded.
Request == [pc: Steps, kind: Kinds \cup {"NONE"}, given: Passwords,
            presented: Tokens, copy: User, stale: BOOLEAN]

TypeOK ==
  /\ user \in User
  /\ token \in [Tokens -> Token]
  /\ account \in BOOLEAN /\ announced \in BOOLEAN
  /\ req \in [Requests -> Request]
  /\ clock \in Nat /\ faults \in Nat
  /\ ended \subseteq Tokens

-----------------------------------------------------------------------------
(***************************************************************************)
(* The User aggregate, user.entity.ts.                                     *)
(***************************************************************************)
Register(p) ==
  [password |-> p, status |-> "PENDING_VERIFICATION", failed |-> 0, lockedUntil |-> 0]

Barred(u) == u.status = "LOCKED" /\ u.lockedUntil > clock

UnlockOnly(u) ==
  IF u.status = "LOCKED"
  THEN [password |-> u.password, status |-> "ACTIVE", failed |-> u.failed, lockedUntil |-> 0]
  ELSE u

\* What is left of assertCanAttemptLogin when it does not throw.
AssertCanAttemptLogin(u) ==
  IF u.status = "LOCKED"
  THEN [password |-> u.password, status |-> "ACTIVE", failed |-> 0, lockedUntil |-> 0]
  ELSE u

RecordSuccessfulLogin(u) ==
  [password |-> u.password, status |-> IF u.status = "LOCKED" THEN "ACTIVE" ELSE u.status,
   failed |-> 0, lockedUntil |-> 0]

RecordFailedLogin(u) ==
  IF u.failed + 1 >= MaxAttempts
  THEN [password |-> u.password, status |-> "LOCKED", failed |-> u.failed + 1,
        lockedUntil |-> clock + Lockout]
  ELSE [password |-> u.password, status |-> u.status, failed |-> u.failed + 1,
        lockedUntil |-> u.lockedUntil]

UserChangePassword(u, p) ==
  [password |-> p, status |-> u.status, failed |-> u.failed, lockedUntil |-> u.lockedUntil]

(***************************************************************************)
(* The RefreshToken entity.                                                *)
(***************************************************************************)
Issue(family, parent) ==
  [state |-> "live", expired |-> FALSE, family |-> family, parent |-> parent]

\* Saved whole: a token that was revoked meanwhile stays revoked.
Revoke(t) == [token EXCEPT ![t].state = "revoked"]

NoToken(t) == [state |-> "none", expired |-> FALSE, family |-> t, parent |-> t]

-----------------------------------------------------------------------------
Someone(p) == [password |-> p, status |-> "ABSENT", failed |-> 0, lockedUntil |-> 0]

\* Either nobody has registered, or a customer is logged in on one device.
Init ==
  /\ \/ /\ user \in {Someone(p) : p \in Passwords}
        /\ token = [t \in Tokens |-> NoToken(t)]
        /\ account = FALSE /\ announced = FALSE
     \/ /\ user \in {Register(p) : p \in Passwords}
        /\ token = [t \in Tokens |-> IF t = Seed THEN Issue(Seed, Seed) ELSE NoToken(t)]
        /\ account = TRUE /\ announced = TRUE
  /\ req \in {[r \in Requests |-> [pc |-> "idle", kind |-> "NONE", given |-> user.password,
                                   presented |-> Seed, copy |-> user, stale |-> FALSE]]}
  /\ clock = 0 /\ faults = 0
  /\ ended = {}

At(r, kind, pc) == req[r].kind = kind /\ req[r].pc = pc

Go(r, pc) == req' = [req EXCEPT ![r].pc = pc]

\* An upsert of the whole row.
SaveUser(r, u, pc) ==
  /\ user' = u
  /\ req' = [q \in Requests |->
       IF q = r THEN [req[q] EXCEPT !.pc = pc, !.copy = u, !.stale = FALSE]
       ELSE [req[q] EXCEPT !.stale = @ \/ (req[q].pc = "save" /\ req[q].kind # "REGISTER")]]

\* auth.controller.ts: one command per request.
Receive(r) ==
  /\ req[r].pc = "idle"
  /\ \/ \E kind \in {"REGISTER", "LOGIN", "CHANGE"}, p \in Passwords :
          req' = [req EXCEPT ![r].kind = kind, ![r].given = p, ![r].pc = "load"]
     \/ \E kind \in {"REFRESH", "LOGOUT"}, t \in {s \in Tokens : token[s].state # "none"} \cup {r} :
          req' = [req EXCEPT ![r].kind = kind, ![r].presented = t, ![r].pc = "find"]
  /\ UNCHANGED <<user, token, account, announced, clock, faults, ended>>

-----------------------------------------------------------------------------
(***************************************************************************)
(* RegisterUserHandler.  The e-mail is unique in the schema, so the second *)
(* of two that both found it free fails on its save.                       *)
(***************************************************************************)
RegisterExists(r) ==
  /\ At(r, "REGISTER", "load")
  /\ Go(r, IF user.status = "ABSENT" THEN "save" ELSE "refused")
  /\ UNCHANGED <<user, token, account, announced, clock, faults, ended>>

RegisterSave(r) ==
  /\ At(r, "REGISTER", "save")
  /\ IF user.status = "ABSENT"
     THEN SaveUser(r, Register(req[r].given), "open")
     ELSE UNCHANGED user /\ Go(r, "failed")
  /\ UNCHANGED <<token, account, announced, clock, faults, ended>>

\* OpenAccountCommand is awaited, and the event is published after it: a
\* failure (see Fail) leaves a user with neither.
RegisterOpen(r) ==
  /\ At(r, "REGISTER", "open")
  /\ account' = TRUE /\ announced' = TRUE
  /\ Go(r, "ok")
  /\ UNCHANGED <<user, token, clock, faults, ended>>

-----------------------------------------------------------------------------
(***************************************************************************)
(* LoginHandler.                                                           *)
(***************************************************************************)
LoginUnchecked(r) ==
  /\ At(r, "LOGIN", "load")
  /\ req' = [req EXCEPT ![r].pc = IF user.status = "ABSENT" THEN "refused" ELSE "save",
                        ![r].copy = user]
  /\ UNCHANGED <<user, token, account, announced, clock, faults, ended>>

LoginLoad(r) ==
  /\ At(r, "LOGIN", "load")
  /\ req' = [req EXCEPT
       ![r].pc = IF user.status = "ABSENT" \/ Barred(user) THEN "refused" ELSE "save",
       ![r].copy = AssertCanAttemptLogin(user)]
  /\ UNCHANGED <<user, token, account, announced, clock, faults, ended>>

\* The comparison reads the copy alone, so it is one step with the save.
LoginSave(r) ==
  /\ At(r, "LOGIN", "save")
  /\ IF req[r].given = req[r].copy.password
     THEN SaveUser(r, RecordSuccessfulLogin(req[r].copy), "issue")
     ELSE SaveUser(r, RecordFailedLogin(req[r].copy), "refused")
  /\ UNCHANGED <<token, account, announced, clock, faults, ended>>

LoginIssue(r) ==
  /\ At(r, "LOGIN", "issue")
  /\ token' = [token EXCEPT ![r] = Issue(r, r)]
  /\ Go(r, "ok")
  /\ UNCHANGED <<user, account, announced, clock, faults, ended>>

-----------------------------------------------------------------------------
(***************************************************************************)
(* RefreshAccessTokenHandler: find the token, check the user, save the old *)
(* token revoked, save its successor.                                      *)
(***************************************************************************)
Presented(r) == token[req[r].presented]

RefreshFind(r) ==
  /\ At(r, "REFRESH", "find")
  /\ Go(r, IF Presented(r).state = "revoked" THEN "revokeFamily"
           ELSE IF Presented(r).state = "none" \/ Presented(r).expired THEN "refused"
           ELSE "load")
  /\ UNCHANGED <<user, token, account, announced, clock, faults, ended>>

\* The user is only looked at: an unlock stays unsaved.
RefreshLoad(r) ==
  /\ At(r, "REFRESH", "load")
  /\ Go(r, IF Barred(user) THEN "refused" ELSE "revokeOld")
  /\ UNCHANGED <<user, token, account, announced, clock, faults, ended>>

IssueFirst(r) ==
  /\ At(r, "REFRESH", "revokeOld")
  /\ token' = [token EXCEPT ![r] = Issue(Presented(r).family, req[r].presented)]
  /\ Go(r, "issue")
  /\ UNCHANGED <<user, account, announced, clock, faults, ended>>

RefreshRevokeOld(r) ==
  /\ At(r, "REFRESH", "revokeOld")
  /\ token' = Revoke(req[r].presented)
  /\ Go(r, "issue")
  /\ UNCHANGED <<user, account, announced, clock, faults, ended>>

RefreshIssue(r) ==
  /\ At(r, "REFRESH", "issue")
  /\ token' = [token EXCEPT ![r] = Issue(Presented(r).family, req[r].presented)]
  /\ Go(r, "ok")
  /\ UNCHANGED <<user, account, announced, clock, faults, ended>>

-----------------------------------------------------------------------------
(***************************************************************************)
(* Ending sessions: LogoutHandler, the reuse branch of the rotation, and   *)
(* ChangePasswordHandler.                                                  *)
(***************************************************************************)
Rotating(f) ==
  \E r \in Requests : /\ req[r].kind = "REFRESH"
                      /\ req[r].pc \in {"load", "revokeOld", "issue"}
                      /\ Presented(r).family = f

RevokeMember(f) ==
  [token EXCEPT ![f].state = IF @ = "live" THEN "revoked" ELSE @]

\* UPDATE ... WHERE family = f AND revoked_at IS NULL
RevokeFamily(f) ==
  [t \in Tokens |-> IF token[t].family = f /\ token[t].state = "live"
                    THEN [state |-> "revoked", expired |-> token[t].expired,
                          family |-> f, parent |-> token[t].parent]
                    ELSE token[t]]

RevokeAllForUser ==
  [t \in Tokens |-> IF token[t].state = "live"
                    THEN [state |-> "revoked", expired |-> token[t].expired,
                          family |-> token[t].family, parent |-> token[t].parent]
                    ELSE token[t]]

LogoutFind(r) ==
  /\ At(r, "LOGOUT", "find")
  /\ Go(r, IF Presented(r).state = "live" THEN "revokeFamily" ELSE "ok")
  /\ UNCHANGED <<user, token, account, announced, clock, faults, ended>>

EndFamily(r) ==
  /\ req[r].pc = "revokeFamily"
  /\ LET f == Presented(r).family
     IN  /\ token' = RevokeFamily(f)
         /\ ended' = IF Rotating(f) THEN ended ELSE ended \cup {f}
  /\ Go(r, IF req[r].kind = "LOGOUT" THEN "ok" ELSE "refused")
  /\ UNCHANGED <<user, account, announced, clock, faults>>

ChangeLoad(r) ==
  /\ At(r, "CHANGE", "load")
  /\ req' = [req EXCEPT
       ![r].pc = IF user.status = "ABSENT" \/ req[r].given # user.password
                 THEN "refused" ELSE "save",
       ![r].copy = user]
  /\ UNCHANGED <<user, token, account, announced, clock, faults, ended>>

ChangeSave(r) ==
  /\ At(r, "CHANGE", "save")
  /\ \E p \in Passwords : SaveUser(r, UserChangePassword(req[r].copy, p), "revokeAll")
  /\ UNCHANGED <<token, account, announced, clock, faults, ended>>

ChangeRevoke(r) ==
  /\ At(r, "CHANGE", "revokeAll")
  /\ token' = RevokeAllForUser
  /\ ended' = ended \cup {f \in Tokens : token[f].state # "none" /\ ~Rotating(f)}
  /\ Go(r, "ok")
  /\ UNCHANGED <<user, account, announced, clock, faults>>

-----------------------------------------------------------------------------
(***************************************************************************)
(* The environment: time, expiry, and a crash or database error that stops *)
(* a request where it stands.                                              *)
(***************************************************************************)
Tick ==
  /\ clock < MaxClock
  /\ clock' = clock + 1
  /\ UNCHANGED <<user, token, account, announced, req, faults, ended>>

\* Nothing looks at the expiry of a revoked token.
Expire(t) ==
  /\ token[t].state = "live" /\ ~token[t].expired
  /\ token' = [token EXCEPT ![t].expired = TRUE]
  /\ UNCHANGED <<user, account, announced, req, clock, faults, ended>>

Fail(r) ==
  /\ req[r].pc \notin {"idle", "ok", "refused", "failed"}
  /\ faults < MaxFaults
  /\ faults' = faults + 1
  /\ Go(r, "failed")
  /\ UNCHANGED <<user, token, account, announced, clock, ended>>

Next ==
  \/ \E r \in Requests :
       \/ Receive(r)
       \/ RegisterExists(r) \/ RegisterSave(r) \/ RegisterOpen(r)
       \/ LoginLoad(r) \/ LoginSave(r) \/ LoginIssue(r)
       \/ RefreshFind(r) \/ RefreshLoad(r) \/ RefreshRevokeOld(r) \/ RefreshIssue(r)
       \/ LogoutFind(r) \/ EndFamily(r)
       \/ ChangeLoad(r) \/ ChangeSave(r) \/ ChangeRevoke(r)
       \/ Fail(r)
  \/ Tick
  \/ \E t \in Tokens : Expire(t)

Spec == Init /\ [][Next]_vars

-----------------------------------------------------------------------------
(***************************************************************************)
(* Properties.                                                             *)
(***************************************************************************)
\* A stored successor means that the token it replaced is already revoked:
\* the rotation saves the old token first, so neither a crash nor another
\* request between its two saves can leave two usable generations
\* (refresh-token.handler.ts).
SuccessorMeansRevoked ==
  \A t \in Tokens : token[t].state # "none" /\ token[t].parent # t
                      => token[token[t].parent].state = "revoked"

\* A session family ended by a logout, a reused token or a password change
\* while no rotation of it was under way has no usable token ever after,
\* whatever is presented later (refresh-token.handler.ts, logout.handler.ts).
EndedStaysEnded ==
  \A t \in Tokens : token[t].family \in ended => token[t].state # "live"

\* The three fields of the lock agree in the row although handlers save the
\* whole row from a stale copy: LOCKED exactly when the counter is at its
\* limit, and exactly then with an end (user.entity.ts).
LockAgrees ==
  LET locked == user.status = "LOCKED"
  IN  /\ locked <=> user.failed >= MaxAttempts
      /\ locked <=> user.lockedUntil # 0
      /\ user.failed <= MaxAttempts

\* A lock in force is lifted early only by a request that loaded the user
\* before another save of the row; nothing that saw the lock lifts it
\* (login.handler.ts, change-password.handler.ts).
LockHolds ==
  [][Barred(user) /\ user'.status # "LOCKED"
       => \E r \in Requests : req[r].stale /\ req'[r].pc # req[r].pc]_vars
=============================================================================
