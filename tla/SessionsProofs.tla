--------------------------- MODULE SessionsProofs ---------------------------
(***************************************************************************)
(* Proofs about the two sides of a session: Sessions, for any number of    *)
(* requests, all passwords, every lockout policy, and all bounds on time   *)
(* and faults; then ClientSession, for any number of tabs and calls.       *)
(*                                                                         *)
(* Users and tokens carry no version, so nothing like "the copy is behind  *)
(* the row" helps.  What does help: a row a request has not issued does    *)
(* not exist, a revoked token never lives again, a rotation under way      *)
(* holds a token whose family has not ended (Knows), and every copy of the *)
(* user, stale or not, has a lock whose fields agree (Agrees).             *)
(***************************************************************************)
EXTENDS Sessions, ClientSession, TLAPS

\* The row of a token that its request has not issued yet.
OwnRow == \A r \in Requests : token[r].state # "none" => req[r].pc = "ok"

\* A row that is absent is nobody's successor; the first token of a family
\* was stored before the others.
Rows ==
  \A t \in Tokens :
    /\ token[t].state = "none" => token[t].family = t /\ token[t].parent = t
    /\ token[t].state # "none" => token[token[t].family].state # "none"

\* What a request that holds a token knows of it between two queries.
Knows(r) ==
  /\ req[r].kind = "REFRESH" /\ req[r].pc \in {"load", "revokeOld", "issue"} =>
       Presented(r).state # "none" /\ Presented(r).family \notin ended
  /\ req[r].kind = "REFRESH" /\ req[r].pc = "issue" => Presented(r).state = "revoked"
  /\ req[r].pc = "revokeFamily" => Presented(r).state # "none"

EndedKnown == \A f \in ended : token[f].state # "none"

TokenInv ==
  /\ OwnRow /\ Rows /\ EndedKnown
  /\ \A r \in Requests : Knows(r)
  /\ SuccessorMeansRevoked /\ EndedStaysEnded

\* LockAgrees, of any copy of the user.
Agrees(u) ==
  /\ u.status = "LOCKED" <=> u.failed >= MaxAttempts
  /\ u.status = "LOCKED" <=> u.lockedUntil # 0
  /\ u.failed <= MaxAttempts

LockInv ==
  /\ Agrees(user)
  /\ \A r \in Requests :
       /\ Agrees(req[r].copy)
       /\ At(r, "LOGIN", "save") => req[r].copy.status # "LOCKED"

\* A copy that is not stale: a login saw no lock in force, and a change of
\* password holds the row as it is.
Fresh(r) ==
  req[r].pc = "save" /\ ~req[r].stale =>
    /\ req[r].kind = "LOGIN" => ~Barred(user)
    /\ req[r].kind = "CHANGE" => req[r].copy = user

IInv == TypeOK /\ TokenInv /\ LockInv /\ \A r \in Requests : Fresh(r)

-----------------------------------------------------------------------------
(***************************************************************************)
(* The actions of one request.                                             *)
(***************************************************************************)
RequestStep(r) ==
  \/ Receive(r)
  \/ RegisterExists(r) \/ RegisterSave(r) \/ RegisterOpen(r)
  \/ LoginLoad(r) \/ LoginSave(r) \/ LoginIssue(r)
  \/ RefreshFind(r) \/ RefreshLoad(r) \/ RefreshRevokeOld(r) \/ RefreshIssue(r)
  \/ LogoutFind(r) \/ EndFamily(r)
  \/ ChangeLoad(r) \/ ChangeSave(r) \/ ChangeRevoke(r)
  \/ Fail(r)

LEMMA NextCases ==
  ASSUME [Next]_vars
  PROVE  \/ \E r \in Requests : RequestStep(r)
         \/ Tick
         \/ \E t \in Tokens : Expire(t)
         \/ UNCHANGED vars
BY DEF Next, RequestStep

-----------------------------------------------------------------------------
(***************************************************************************)
(* Type correctness.                                                       *)
(***************************************************************************)
LEMMA UserTypes ==
  ASSUME NEW u \in User, NEW p \in Passwords, clock \in Nat
  PROVE  /\ Register(p) \in User
         /\ AssertCanAttemptLogin(u) \in User
         /\ RecordSuccessfulLogin(u) \in User
         /\ RecordFailedLogin(u) \in User
         /\ UserChangePassword(u, p) \in User
<1>1. u.password \in Passwords /\ u.status \in Statuses /\ u.failed \in Nat /\ u.lockedUntil \in Nat
  BY DEF User
<1>2. clock + Lockout \in Nat /\ u.failed + 1 \in Nat
  BY <1>1, LockoutAssumption
<1>3. {"ACTIVE", "LOCKED", "PENDING_VERIFICATION"} \subseteq Statuses
  BY DEF Statuses
<1>4. Register(p) \in User
  BY <1>3 DEF Register, User
<1>5. AssertCanAttemptLogin(u) \in User
  BY <1>1, <1>3 DEF AssertCanAttemptLogin, User
<1>6. RecordSuccessfulLogin(u) \in User
  BY <1>1, <1>3 DEF RecordSuccessfulLogin, User
<1>7. RecordFailedLogin(u) \in User
  BY <1>1, <1>2, <1>3 DEF RecordFailedLogin, User
<1>8. UserChangePassword(u, p) \in User
  BY <1>1 DEF UserChangePassword, User
<1> QED BY <1>4, <1>5, <1>6, <1>7, <1>8

LEMMA GoType ==
  ASSUME TypeOK, NEW r \in Requests, NEW pc \in Steps, Go(r, pc)
  PROVE  req' \in [Requests -> Request]
<1>1. req[r] \in Request
  BY DEF TypeOK
<1> QED BY <1>1 DEF TypeOK, Go, Request

LEMMA SaveUserType ==
  ASSUME TypeOK, NEW r \in Requests, NEW u \in User, NEW pc \in Steps, SaveUser(r, u, pc)
  PROVE  user' \in User /\ req' \in [Requests -> Request]
<1>1. user' \in User
  BY DEF SaveUser
<1>2. ASSUME NEW q \in Requests PROVE req'[q] \in Request
  <2>1. req[q] \in Request
    BY DEF TypeOK
  <2>2. CASE q = r
    <3>1. req'[q] = [req[q] EXCEPT !.pc = pc, !.copy = u, !.stale = FALSE]
      BY <2>2 DEF SaveUser
    <3> QED BY <2>1, <3>1 DEF Request
  <2>3. CASE q # r
    <3>1. req'[q] = [req[q] EXCEPT !.stale = @ \/ (req[q].pc = "save" /\ req[q].kind # "REGISTER")]
      BY <2>3 DEF SaveUser
    <3>2. (req[q].stale \/ (req[q].pc = "save" /\ req[q].kind # "REGISTER")) \in BOOLEAN
      OBVIOUS
    <3> QED BY <2>1, <3>1, <3>2, Zenon DEF Request
  <2> QED BY <2>2, <2>3
<1>3. req' = [q \in Requests |-> req'[q]]
  BY DEF SaveUser
<1> QED BY <1>1, <1>2, <1>3

\* Every row a token action writes is a Token.
LEMMA TokenTypes ==
  ASSUME TypeOK
  PROVE  /\ \A f, p \in Tokens : Issue(f, p) \in Token
         /\ \A t \in Tokens : Revoke(t) \in [Tokens -> Token]
         /\ \A f \in Tokens : RevokeFamily(f) \in [Tokens -> Token]
         /\ RevokeAllForUser \in [Tokens -> Token]
<1>1. \A f, p \in Tokens : Issue(f, p) \in Token
  BY DEF Issue, Token
<1>2. \A t \in Tokens : Revoke(t) \in [Tokens -> Token]
  BY DEF TypeOK, Revoke, Token
<1>3. \A t \in Tokens : /\ token[t] \in Token /\ token[t].expired \in BOOLEAN
                        /\ token[t].family \in Tokens /\ token[t].parent \in Tokens
  BY DEF TypeOK, Token
<1>4. ASSUME NEW f \in Tokens PROVE RevokeFamily(f) \in [Tokens -> Token]
  BY <1>3 DEF RevokeFamily, Token
<1>5. RevokeAllForUser \in [Tokens -> Token]
  BY <1>3 DEF RevokeAllForUser, Token
<1> QED BY <1>1, <1>2, <1>4, <1>5

LEMMA RequestType ==
  ASSUME TypeOK, NEW r \in Requests, RequestStep(r)
  PROVE  TypeOK'
<1>1. req[r] \in Request /\ user \in User /\ clock \in Nat
  BY DEF TypeOK
<1>2. /\ req[r].given \in Passwords /\ req[r].presented \in Tokens /\ req[r].copy \in User
      /\ r \in Tokens /\ Presented(r) \in Token
  BY <1>1 DEF TypeOK, Request, Tokens, Presented
<1>3. Presented(r).family \in Tokens
  BY <1>2 DEF Token
<1>4. {"idle", "find", "load", "save", "open", "issue", "revokeOld", "revokeFamily",
       "revokeAll", "ok", "refused", "failed"} \subseteq Steps
  BY DEF Steps
<1> USE <1>4
<1>5. CASE Receive(r)
  <2>1. ASSUME NEW kind \in Kinds, NEW p \in Passwords,
               req' = [req EXCEPT ![r].kind = kind, ![r].given = p, ![r].pc = "load"]
        PROVE  req' \in [Requests -> Request]
    BY <1>1, <2>1 DEF TypeOK, Request
  <2>2. ASSUME NEW kind \in Kinds, NEW t \in Tokens,
               req' = [req EXCEPT ![r].kind = kind, ![r].presented = t, ![r].pc = "find"]
        PROVE  req' \in [Requests -> Request]
    BY <1>1, <2>2 DEF TypeOK, Request
  <2>3. req' \in [Requests -> Request]
    BY <1>2, <1>5, <2>1, <2>2 DEF Receive, Kinds
  <2> QED BY <1>5, <2>3 DEF Receive, TypeOK
<1>6. CASE RegisterExists(r)
  BY <1>6, GoType DEF RegisterExists, TypeOK
<1>7. CASE RegisterSave(r)
  <2>1. user' \in User /\ req' \in [Requests -> Request]
    BY <1>1, <1>2, <1>7, GoType, SaveUserType, UserTypes DEF RegisterSave
  <2> QED BY <1>7, <2>1 DEF RegisterSave, TypeOK
<1>8. CASE RegisterOpen(r)
  BY <1>8, GoType DEF RegisterOpen, TypeOK
<1>9. CASE LoginLoad(r)
  <2>1. AssertCanAttemptLogin(user) \in User
    BY <1>1, <1>2, UserTypes
  <2> QED BY <1>1, <1>9, <2>1 DEF LoginLoad, TypeOK, Request
<1>10. CASE LoginSave(r)
  <2>1. user' \in User /\ req' \in [Requests -> Request]
    BY <1>1, <1>2, <1>10, SaveUserType, UserTypes DEF LoginSave
  <2> QED BY <1>10, <2>1 DEF LoginSave, TypeOK
<1>11. CASE LoginIssue(r)
  BY <1>2, <1>11, GoType, TokenTypes DEF LoginIssue, TypeOK
<1>12. CASE RefreshFind(r)
  BY <1>12, GoType DEF RefreshFind, TypeOK
<1>13. CASE RefreshLoad(r)
  BY <1>13, GoType DEF RefreshLoad, TypeOK
<1>14. CASE RefreshRevokeOld(r)
  BY <1>2, <1>14, GoType, TokenTypes DEF RefreshRevokeOld, TypeOK
<1>15. CASE RefreshIssue(r)
  BY <1>2, <1>3, <1>15, GoType, TokenTypes DEF RefreshIssue, TypeOK
<1>16. CASE LogoutFind(r)
  BY <1>16, GoType DEF LogoutFind, TypeOK
<1>17. CASE EndFamily(r)
  <2>1. req' \in [Requests -> Request]
    BY <1>17, GoType DEF EndFamily
  <2>2. token' \in [Tokens -> Token] /\ ended' \subseteq Tokens
    BY <1>3, <1>17, TokenTypes DEF EndFamily, TypeOK
  <2> QED BY <1>17, <2>1, <2>2 DEF EndFamily, TypeOK
<1>18. CASE ChangeLoad(r)
  BY <1>1, <1>18 DEF ChangeLoad, TypeOK, Request
<1>19. CASE ChangeSave(r)
  <2>1. user' \in User /\ req' \in [Requests -> Request]
    BY <1>1, <1>2, <1>19, SaveUserType, UserTypes DEF ChangeSave
  <2> QED BY <1>19, <2>1 DEF ChangeSave, TypeOK
<1>20. CASE ChangeRevoke(r)
  <2>1. req' \in [Requests -> Request]
    BY <1>20, GoType DEF ChangeRevoke
  <2> QED BY <1>20, <2>1, TokenTypes DEF ChangeRevoke, TypeOK
<1>21. CASE Fail(r)
  <2>1. faults' \in Nat
    BY <1>21 DEF Fail, TypeOK
  <2> QED BY <1>21, <2>1, GoType DEF Fail, TypeOK
<1> QED
  BY <1>5, <1>6, <1>7, <1>8, <1>9, <1>10, <1>11, <1>12, <1>13, <1>14, <1>15, <1>16,
     <1>17, <1>18, <1>19, <1>20, <1>21 DEF RequestStep

LEMMA TypeInit == Init => TypeOK
<1> SUFFICES ASSUME Init PROVE TypeOK
  OBVIOUS
<1>1. user \in User
  BY DEF Init, Someone, Register, User, Statuses
<1>2. \A t \in Tokens : NoToken(t) \in Token /\ Issue(t, t) \in Token
  BY DEF NoToken, Issue, Token
<1>3. token \in [Tokens -> Token]
  <2>1. CASE token = [t \in Tokens |-> NoToken(t)]
    BY <1>2, <2>1
  <2>2. CASE token = [t \in Tokens |-> IF t = Seed THEN Issue(Seed, Seed) ELSE NoToken(t)]
    BY <1>2, <2>2
  <2> QED BY <2>1, <2>2 DEF Init
<1>4. user.password \in Passwords /\ Seed \in Tokens /\ "idle" \in Steps
  BY <1>1 DEF User, Tokens, Steps
<1>5. req = [r \in Requests |-> [pc |-> "idle", kind |-> "NONE", given |-> user.password,
                                presented |-> Seed, copy |-> user, stale |-> FALSE]]
  BY DEF Init
<1>6. req \in [Requests -> Request]
  BY <1>1, <1>4, <1>5 DEF Request
<1> QED BY <1>1, <1>3, <1>6 DEF Init, TypeOK

LEMMA TypeNext == TypeOK /\ [Next]_vars => TypeOK'
<1> SUFFICES ASSUME TypeOK, [Next]_vars PROVE TypeOK'
  OBVIOUS
<1>1. CASE Tick
  BY <1>1 DEF Tick, TypeOK
<1>2. ASSUME NEW t \in Tokens, Expire(t) PROVE TypeOK'
  <2>1. token[t] \in Token
    BY DEF TypeOK
  <2> QED BY <1>2, <2>1 DEF Expire, TypeOK, Token
<1>3. CASE UNCHANGED vars
  BY <1>3 DEF vars, TypeOK
<1> QED BY <1>1, <1>2, <1>3, NextCases, RequestType

\* Every row of the Identity module and every copy of one in a handler's
\* memory keeps its shape.
THEOREM TypeCorrect == Spec => []TypeOK
BY TypeInit, TypeNext, PTL DEF Spec

-----------------------------------------------------------------------------
(***************************************************************************)
(* The tokens.                                                             *)
(***************************************************************************)
LEMMA TokenInit == Init => TokenInv
<1> SUFFICES ASSUME Init PROVE TokenInv
  OBVIOUS
<1>1. ended = {} /\ \A r \in Requests : r \in Tokens /\ r # Seed /\ req[r].pc = "idle"
  BY SeedAssumption DEF Init, Tokens
<1>2. \A t \in Tokens : token[t] = NoToken(t) \/ (t = Seed /\ token[t] = Issue(Seed, Seed))
  <2>1. CASE token = [t \in Tokens |-> NoToken(t)]
    BY <2>1
  <2>2. CASE token = [t \in Tokens |-> IF t = Seed THEN Issue(Seed, Seed) ELSE NoToken(t)]
    BY <2>2
  <2> QED BY <2>1, <2>2 DEF Init
<1>3. \A t \in Tokens :
        /\ token[t].family = t /\ token[t].parent = t
        /\ t # Seed => token[t].state = "none"
  <2> TAKE t \in Tokens
  <2>1. CASE token[t] = NoToken(t)
    BY <2>1 DEF NoToken
  <2>2. CASE t = Seed /\ token[t] = Issue(Seed, Seed)
    BY <2>2 DEF Issue
  <2> QED BY <1>2, <2>1, <2>2
<1> QED BY <1>1, <1>3 DEF TokenInv, OwnRow, Rows, EndedKnown, Knows, SuccessorMeansRevoked,
                          EndedStaysEnded

\* A step that leaves the tokens alone need only keep what each request knows.
LEMMA TokensKept ==
  ASSUME TypeOK, TokenInv, UNCHANGED <<token, ended>>,
         \A q \in Requests : /\ req[q].pc = "ok" => req'[q].pc = "ok"
                             /\ Knows(q)'
  PROVE  TokenInv'
BY DEF TokenInv, OwnRow, Rows, EndedKnown, SuccessorMeansRevoked, EndedStaysEnded

\* A request of which a step changes neither command, step nor token knows
\* what it knew, as long as the step left the tokens alone.
LEMMA KnowsKept ==
  ASSUME TokenInv, UNCHANGED <<token, ended>>, NEW q \in Requests,
         req'[q].kind = req[q].kind, req'[q].pc = req[q].pc,
         req'[q].presented = req[q].presented
  PROVE  Knows(q)'
BY DEF TokenInv, Knows, Presented

\* Go changes the step of one request.
LEMMA GoFrame ==
  ASSUME TypeOK, NEW r \in Requests, NEW pc, Go(r, pc)
  PROVE  /\ req'[r].pc = pc /\ req'[r].kind = req[r].kind
         /\ req'[r].presented = req[r].presented
         /\ req'[r].copy = req[r].copy /\ req'[r].stale = req[r].stale
         /\ \A q \in Requests \ {r} : req'[q] = req[q]
<1>1. req[r] \in Request /\ req \in [Requests -> Request]
  BY DEF TypeOK
<1> QED BY <1>1 DEF Go, Request

LEMMA SaveUserFrame ==
  ASSUME TypeOK, NEW r \in Requests, NEW u, NEW pc, SaveUser(r, u, pc)
  PROVE  /\ user' = u
         /\ req'[r].pc = pc /\ req'[r].kind = req[r].kind /\ req'[r].copy = u
         /\ req'[r].presented = req[r].presented
         /\ \A q \in Requests \ {r} :
              /\ req'[q].pc = req[q].pc /\ req'[q].kind = req[q].kind
              /\ req'[q].copy = req[q].copy /\ req'[q].presented = req[q].presented
              /\ req[q].pc = "save" /\ req[q].kind # "REGISTER" => req'[q].stale
<1>1. req[r] \in Request /\ req \in [Requests -> Request]
  BY DEF TypeOK
<1>2. user' = u
  BY DEF SaveUser
<1>3. req'[r] = [req[r] EXCEPT !.pc = pc, !.copy = u, !.stale = FALSE]
  BY DEF SaveUser
<1>4. ASSUME NEW q \in Requests \ {r}
      PROVE  req'[q] = [req[q] EXCEPT
                          !.stale = @ \/ (req[q].pc = "save" /\ req[q].kind # "REGISTER")]
  BY DEF SaveUser
<1>5. ASSUME NEW q \in Requests \ {r}
      PROVE  /\ req'[q].pc = req[q].pc /\ req'[q].kind = req[q].kind
             /\ req'[q].copy = req[q].copy /\ req'[q].presented = req[q].presented
             /\ req[q].pc = "save" /\ req[q].kind # "REGISTER" => req'[q].stale
  <2>1. req[q] \in Request
    BY <1>1
  <2> QED BY <1>4, <2>1 DEF Request
<1> QED BY <1>1, <1>2, <1>3, <1>5 DEF Request

\* The steps of a request that leave the tokens alone.
LEMMA QuietTokenInv ==
  ASSUME TypeOK, TokenInv, NEW r \in Requests,
         \/ Receive(r) \/ RegisterExists(r) \/ RegisterSave(r) \/ RegisterOpen(r)
         \/ LoginLoad(r) \/ LoginSave(r) \/ RefreshFind(r) \/ RefreshLoad(r)
         \/ LogoutFind(r) \/ ChangeLoad(r) \/ ChangeSave(r) \/ Fail(r)
  PROVE  TokenInv'
<1>1. UNCHANGED <<token, ended>>
  BY DEF Receive, RegisterExists, RegisterSave, RegisterOpen, LoginLoad, LoginSave,
         RefreshFind, RefreshLoad, LogoutFind, ChangeLoad, ChangeSave, Fail
<1>2. req[r] \in Request /\ req \in [Requests -> Request] /\ Knows(r)
  BY DEF TypeOK, TokenInv
<1>3. SUFFICES /\ req[r].pc # "ok" /\ Knows(r)'
               /\ \A q \in Requests \ {r} : /\ req'[q].kind = req[q].kind
                                            /\ req'[q].pc = req[q].pc
                                            /\ req'[q].presented = req[q].presented
  BY <1>1, KnowsKept, TokensKept
<1>4. CASE Receive(r)
  <2>1. ASSUME NEW kind, kind # "REFRESH", NEW p,
               req' = [req EXCEPT ![r].kind = kind, ![r].given = p, ![r].pc = "load"]
        PROVE  /\ Knows(r)'
               /\ \A q \in Requests \ {r} : req'[q] = req[q]
    BY <1>2, <2>1 DEF Request, Knows
  <2>2. ASSUME NEW kind, NEW t,
               req' = [req EXCEPT ![r].kind = kind, ![r].presented = t, ![r].pc = "find"]
        PROVE  /\ Knows(r)'
               /\ \A q \in Requests \ {r} : req'[q] = req[q]
    BY <1>2, <2>2 DEF Request, Knows
  <2> QED BY <1>4, <2>1, <2>2 DEF Receive
<1>5. CASE RegisterExists(r)
  BY <1>1, <1>2, <1>5, GoFrame DEF RegisterExists, At, Knows
<1>6. CASE RegisterSave(r)
  BY <1>1, <1>2, <1>6, GoFrame, SaveUserFrame DEF RegisterSave, At, Knows
<1>7. CASE RegisterOpen(r)
  BY <1>1, <1>2, <1>7, GoFrame DEF RegisterOpen, At, Knows
<1>8. CASE LoginLoad(r)
  BY <1>1, <1>2, <1>8 DEF LoginLoad, At, Knows, Request
<1>9. CASE LoginSave(r)
  BY <1>1, <1>2, <1>9, SaveUserFrame DEF LoginSave, At, Knows
<1>10. CASE RefreshFind(r)
  <2>1. Presented(r).state = "live" => Presented(r).family \notin ended
    BY <1>2 DEF TokenInv, EndedStaysEnded, Presented, Request
  <2>2. Presented(r)' = Presented(r) /\ ended' = ended
    BY <1>1, <1>10, GoFrame DEF RefreshFind, Presented
  <2>3. Presented(r).state \in {"none", "live", "revoked"}
    BY <1>2 DEF TypeOK, Presented, Request, Token
  <2> QED BY <1>10, <2>1, <2>2, <2>3, GoFrame DEF RefreshFind, At, Knows
<1>11. CASE RefreshLoad(r)
  <2>1. Presented(r)' = Presented(r) /\ ended' = ended
    BY <1>1, <1>11, GoFrame DEF RefreshLoad, Presented
  <2> QED BY <1>2, <1>11, <2>1, GoFrame DEF RefreshLoad, At, Knows
<1>12. CASE LogoutFind(r)
  <2>1. Presented(r)' = Presented(r) /\ ended' = ended
    BY <1>1, <1>12, GoFrame DEF LogoutFind, Presented
  <2> QED BY <1>12, <2>1, GoFrame DEF LogoutFind, At, Knows
<1>13. CASE ChangeLoad(r)
  BY <1>1, <1>2, <1>13 DEF ChangeLoad, At, Knows, Request
<1>14. CASE ChangeSave(r)
  BY <1>1, <1>2, <1>14, SaveUserFrame DEF ChangeSave, At, Knows
<1>15. CASE Fail(r)
  BY <1>1, <1>2, <1>15, GoFrame DEF Fail, Knows
<1> QED BY <1>4, <1>5, <1>6, <1>7, <1>8, <1>9, <1>10, <1>11, <1>12, <1>13, <1>14, <1>15

\* Storing a token that did not exist: the first of its family, or the
\* successor of a revoked one in a family that has not ended.
LEMMA IssueTokenInv ==
  ASSUME TypeOK, TokenInv, NEW r \in Requests, LoginIssue(r) \/ RefreshIssue(r)
  PROVE  TokenInv'
<1>1. /\ req[r] \in Request /\ r \in Tokens /\ token[r].state = "none"
      /\ req[r].presented \in Tokens /\ token \in [Tokens -> Token]
  BY DEF TypeOK, TokenInv, OwnRow, LoginIssue, RefreshIssue, At, Request, Tokens
<1>2. PICK f \in Tokens, p \in Tokens :
        /\ token' = [token EXCEPT ![r] = Issue(f, p)]
        /\ f = r \/ token[f].state # "none"
        /\ p = r \/ token[p].state = "revoked"
        /\ f \notin ended
  <2>1. CASE LoginIssue(r)
    BY <1>1, <2>1 DEF LoginIssue, TokenInv, EndedKnown
  <2>2. CASE RefreshIssue(r)
    <3>1. /\ Presented(r).state = "revoked" /\ Presented(r).family \notin ended
          /\ Presented(r) = token[req[r].presented]
      BY <2>2 DEF RefreshIssue, TokenInv, Knows, At, Presented
    <3>2. Presented(r).family \in Tokens /\ token[Presented(r).family].state # "none"
      BY <1>1, <3>1 DEF TokenInv, Rows, Token
    <3> QED BY <1>1, <2>2, <3>1, <3>2 DEF RefreshIssue
  <2> QED BY <2>1, <2>2
<1>3. /\ token'[r].state = "live" /\ token'[r].family = f /\ token'[r].parent = p
      /\ \A t \in Tokens \ {r} : token'[t] = token[t]
  BY <1>1, <1>2 DEF Issue
<1>4. ended' = ended /\ ended \subseteq Tokens /\ Go(r, "ok")
  BY DEF LoginIssue, RefreshIssue, TypeOK
<1>5. OwnRow'
  BY <1>3, <1>4, GoFrame DEF TokenInv, OwnRow, Tokens
<1>6. \A t \in Tokens : token[t].family \in Tokens /\ token[t].parent \in Tokens
  BY <1>1 DEF Token
<1>7. Rows'
  BY <1>1, <1>2, <1>3, <1>6 DEF TokenInv, Rows
<1>8. EndedKnown'
  BY <1>3, <1>4 DEF TokenInv, EndedKnown
<1>9. ASSUME NEW q \in Requests PROVE Knows(q)'
  <2>1. req[q].presented \in Tokens
    BY DEF TypeOK, Request
  <2>2. CASE q = r
    BY <1>4, <2>2, GoFrame DEF Knows
  <2>3. CASE q # r
    <3>1. req'[q] = req[q] /\ Knows(q)
      BY <1>4, <2>3, GoFrame DEF TokenInv
    <3> QED BY <1>1, <1>3, <1>4, <2>1, <3>1 DEF Knows, Presented
  <2> QED BY <2>2, <2>3
<1>10. SuccessorMeansRevoked'
  BY <1>1, <1>2, <1>3, <1>6 DEF TokenInv, SuccessorMeansRevoked
<1>11. EndedStaysEnded'
  BY <1>2, <1>3, <1>4 DEF TokenInv, EndedStaysEnded
<1> QED BY <1>5, <1>7, <1>8, <1>9, <1>10, <1>11 DEF TokenInv

\* A step that revokes some tokens and ends some families, none of which has
\* a token left or a rotation under way.
LEMMA RevokeTokenInv ==
  ASSUME TypeOK, TypeOK', TokenInv, NEW r \in Requests, NEW pc,
         req[r].pc # "ok", pc \in {"ok", "refused", "issue"}, Go(r, pc),
         pc = "issue" /\ req[r].kind = "REFRESH" =>
           /\ token'[req[r].presented].state = "revoked"
           /\ token[req[r].presented].state # "none"
           /\ token[req[r].presented].family \notin ended',
         \A t \in Tokens : /\ token'[t].family = token[t].family
                           /\ token'[t].parent = token[t].parent
                           /\ token'[t].state = token[t].state
                              \/ (token[t].state # "none" /\ token'[t].state = "revoked"),
         ended \subseteq ended',
         \A f \in ended' \ ended :
            /\ token[f].state # "none" /\ ~Rotating(f)
            /\ \A t \in Tokens : token[t].family = f => token'[t].state # "live"
  PROVE  TokenInv'
<1>1. \A t \in Tokens : token[t].family \in Tokens /\ token[t].parent \in Tokens
  BY DEF TypeOK, Token
<1>2. Requests \subseteq Tokens /\ ended' \subseteq Tokens
  BY DEF TypeOK, Tokens
<1>3. OwnRow'
  BY <1>2, GoFrame DEF TokenInv, OwnRow
<1>4. Rows'
  BY <1>1 DEF TokenInv, Rows
<1>5. EndedKnown'
  BY <1>2 DEF TokenInv, EndedKnown
<1>6. ASSUME NEW q \in Requests PROVE Knows(q)'
  <2>1. req[q].presented \in Tokens
    BY DEF TypeOK, Request
  <2>2. CASE q = r
    BY <2>1, <2>2, GoFrame DEF Knows, Presented
  <2>3. CASE q # r
    <3>1. req'[q] = req[q] /\ Knows(q)
      BY <2>3, GoFrame DEF TokenInv
    <3>2. /\ req[q].kind = "REFRESH" /\ req[q].pc \in {"load", "revokeOld", "issue"}
              => Rotating(Presented(q).family)
      BY DEF Rotating
    <3> QED BY <2>1, <3>1, <3>2 DEF Knows, Presented
  <2> QED BY <2>2, <2>3
<1>7. SuccessorMeansRevoked'
  BY <1>1 DEF TokenInv, SuccessorMeansRevoked
<1>8. EndedStaysEnded'
  BY DEF TokenInv, EndedStaysEnded
<1> QED BY <1>3, <1>4, <1>5, <1>6, <1>7, <1>8 DEF TokenInv

LEMMA RequestTokenInv ==
  ASSUME TypeOK, TypeOK', TokenInv, NEW r \in Requests, RequestStep(r)
  PROVE  TokenInv'
<1>1. CASE LoginIssue(r) \/ RefreshIssue(r)
  BY <1>1, IssueTokenInv
<1>2. /\ req[r] \in Request /\ req[r].presented \in Tokens
      /\ \A t \in Tokens : token[t] \in Token
  BY DEF TypeOK, Request
<1>3. CASE RefreshRevokeOld(r)
  <2>1. /\ token'[req[r].presented].state = "revoked"
        /\ \A t \in Tokens : /\ token'[t].family = token[t].family
                             /\ token'[t].parent = token[t].parent
                             /\ t # req[r].presented => token'[t].state = token[t].state
    BY <1>2, <1>3 DEF RefreshRevokeOld, Revoke, TypeOK, Token
  <2>2. token[req[r].presented].state # "none" /\ token[req[r].presented].family \notin ended
    BY <1>3 DEF RefreshRevokeOld, At, TokenInv, Knows, Presented
  <2> QED BY <1>2, <1>3, <2>1, <2>2, RevokeTokenInv DEF RefreshRevokeOld, At
<1>4. CASE EndFamily(r)
  <2> DEFINE f == Presented(r).family
  <2>1. /\ f \in Tokens /\ token[f].state # "none"
    BY <1>2, <1>4 DEF EndFamily, TokenInv, Knows, Rows, Presented, Token
  <2>2. \A t \in Tokens :
          /\ token'[t].family = token[t].family
          /\ token'[t].parent = token[t].parent
          /\ token'[t].state = token[t].state
             \/ (token[t].state # "none" /\ token'[t].state = "revoked")
          /\ token[t].family = f => token'[t].state # "live"
    <3>1. token' = RevokeFamily(f)
      BY <1>4 DEF EndFamily
    <3> QED BY <1>2, <3>1 DEF RevokeFamily, Token
  <2>3. ended' = IF Rotating(f) THEN ended ELSE ended \cup {f}
    BY <1>4 DEF EndFamily
  <2>4. PICK pc \in {"ok", "refused"} : Go(r, pc)
    BY <1>4 DEF EndFamily
  <2> HIDE DEF f
  <2> QED BY <1>4, <2>1, <2>2, <2>3, <2>4, RevokeTokenInv DEF EndFamily
<1>5. CASE ChangeRevoke(r)
  <2>1. \A t \in Tokens :
          /\ token'[t].family = token[t].family
          /\ token'[t].parent = token[t].parent
          /\ token'[t].state = token[t].state
             \/ (token[t].state # "none" /\ token'[t].state = "revoked")
          /\ token'[t].state # "live"
    BY <1>2, <1>5 DEF ChangeRevoke, RevokeAllForUser, Token
  <2> QED BY <1>5, <2>1, RevokeTokenInv DEF ChangeRevoke, At
<1> QED BY <1>1, <1>3, <1>4, <1>5, QuietTokenInv DEF RequestStep

LEMMA TokenNext == TypeOK /\ TokenInv /\ [Next]_vars => TokenInv'
<1> SUFFICES ASSUME TypeOK, TokenInv, [Next]_vars PROVE TokenInv'
  OBVIOUS
<1>1. TypeOK'
  BY TypeNext
<1>2. CASE Tick
  BY <1>2, KnowsKept, TokensKept DEF Tick
<1>3. ASSUME NEW t \in Tokens, Expire(t) PROVE TokenInv'
  <2>1. \A s \in Tokens : /\ token'[s].family = token[s].family
                          /\ token'[s].parent = token[s].parent
                          /\ token'[s].state = token[s].state
    BY <1>3 DEF Expire, TypeOK, Token
  <2>2. /\ UNCHANGED <<req, ended>> /\ ended \subseteq Tokens /\ Requests \subseteq Tokens
        /\ \A r \in Requests : req[r].presented \in Tokens
        /\ \A s \in Tokens : token[s].family \in Tokens /\ token[s].parent \in Tokens
    BY <1>3 DEF Expire, TypeOK, Request, Token, Tokens
  <2>3. OwnRow' /\ Rows' /\ EndedKnown' /\ SuccessorMeansRevoked' /\ EndedStaysEnded'
    BY <2>1, <2>2 DEF TokenInv, OwnRow, Rows, EndedKnown, SuccessorMeansRevoked, EndedStaysEnded
  <2>4. \A r \in Requests : Knows(r)'
    BY <2>1, <2>2 DEF TokenInv, Knows, Presented
  <2> QED BY <2>3, <2>4 DEF TokenInv
<1>4. CASE UNCHANGED vars
  BY <1>4, KnowsKept, TokensKept DEF vars
<1> QED BY <1>1, <1>2, <1>3, <1>4, NextCases, RequestTokenInv

LEMMA TokensHold == Spec => []TokenInv
BY TypeCorrect, TokenInit, TokenNext, PTL DEF Spec

\* refresh-token.handler.ts saves the old token revoked before it stores the
\* successor: whatever crashes, and whoever rotates or ends the family in
\* between, two generations of one token are never usable together.
THEOREM RotationIsOrdered == Spec => []SuccessorMeansRevoked
<1>1. TokenInv => SuccessorMeansRevoked
  BY DEF TokenInv
<1> QED BY <1>1, TokensHold, PTL

\* After a log-out, a reuse or a change of password that met no rotation of
\* the family, none of its tokens ever works again.
THEOREM EndedIsFinal == Spec => []EndedStaysEnded
<1>1. TokenInv => EndedStaysEnded
  BY DEF TokenInv
<1> QED BY <1>1, TokensHold, PTL

-----------------------------------------------------------------------------
(***************************************************************************)
(* The lock.                                                               *)
(***************************************************************************)
\* The mutators of the User keep the fields of the lock in agreement.
LEMMA UsersAgree ==
  ASSUME NEW u \in User, Agrees(u), NEW p \in Passwords, clock \in Nat
  PROVE  /\ Agrees(Register(p))
         /\ Agrees(AssertCanAttemptLogin(u))
         /\ AssertCanAttemptLogin(u).status # "LOCKED"
         /\ Agrees(RecordSuccessfulLogin(u))
         /\ u.status # "LOCKED" => Agrees(RecordFailedLogin(u))
         /\ Agrees(UserChangePassword(u, p))
         /\ UserChangePassword(u, p).status = u.status
<1>1. u.failed \in Nat /\ u.lockedUntil \in Nat
  BY DEF User
<1>2. Agrees(Register(p))
  BY MaxAttemptsAssumption DEF Agrees, Register
<1>3. Agrees(AssertCanAttemptLogin(u)) /\ AssertCanAttemptLogin(u).status # "LOCKED"
  BY MaxAttemptsAssumption DEF Agrees, AssertCanAttemptLogin
<1>4. Agrees(RecordSuccessfulLogin(u))
  BY MaxAttemptsAssumption DEF Agrees, RecordSuccessfulLogin
<1>5. ASSUME u.status # "LOCKED" PROVE Agrees(RecordFailedLogin(u))
  BY <1>1, <1>5, MaxAttemptsAssumption, LockoutAssumption DEF Agrees, RecordFailedLogin
<1>6. Agrees(UserChangePassword(u, p)) /\ UserChangePassword(u, p).status = u.status
  BY DEF Agrees, UserChangePassword
<1> QED BY <1>2, <1>3, <1>4, <1>5, <1>6

LEMMA LockInit == Init => LockInv /\ \A r \in Requests : Fresh(r)
<1> SUFFICES ASSUME Init PROVE LockInv /\ \A r \in Requests : Fresh(r)
  OBVIOUS
<1>1. user.status # "LOCKED" /\ user.failed = 0 /\ user.lockedUntil = 0
  BY DEF Init, Someone, Register
<1>2. req = [r \in Requests |-> [pc |-> "idle", kind |-> "NONE", given |-> user.password,
                                presented |-> Seed, copy |-> user, stale |-> FALSE]]
  BY DEF Init
<1>3. \A r \in Requests : req[r].copy = user /\ req[r].pc = "idle"
  BY <1>2
<1> QED BY <1>1, <1>3, MaxAttemptsAssumption DEF LockInv, Agrees, Fresh, At

\* A step that leaves the user alone and moves one request away from its
\* save, or not at all.
LEMMA LockKept ==
  ASSUME TypeOK, LockInv, \A q \in Requests : Fresh(q), UNCHANGED <<user, clock>>,
         NEW r \in Requests, NEW pc, Go(r, pc), pc # "save" \/ req[r].kind = "REGISTER"
  PROVE  LockInv' /\ \A q \in Requests : Fresh(q)'
<1>1. LockInv'
  BY GoFrame DEF LockInv, At
<1>2. ASSUME NEW q \in Requests PROVE Fresh(q)'
  BY GoFrame DEF Fresh, Barred
<1> QED BY <1>1, <1>2

\* A save: what is written agrees, and everybody else at a save is stale.
LEMMA LockSaved ==
  ASSUME TypeOK, LockInv, NEW r \in Requests, NEW u, NEW pc, SaveUser(r, u, pc),
         Agrees(u), pc # "save"
  PROVE  LockInv' /\ \A q \in Requests : Fresh(q)'
<1>1. LockInv'
  BY SaveUserFrame DEF LockInv, At
<1>2. ASSUME NEW q \in Requests PROVE Fresh(q)'
  BY SaveUserFrame DEF Fresh
<1> QED BY <1>1, <1>2

\* A load: the copy is the row, unlocked for a login if its time is over.
LEMMA LockLoaded ==
  ASSUME TypeOK, LockInv, \A q \in Requests : Fresh(q), UNCHANGED <<user, clock>>,
         NEW r \in Requests, LoginLoad(r) \/ ChangeLoad(r)
  PROVE  LockInv' /\ \A q \in Requests : Fresh(q)'
<1>1. req[r] \in Request /\ req \in [Requests -> Request] /\ user \in User /\ clock \in Nat
  BY DEF TypeOK
<1>2. user.password \in Passwords
  BY <1>1 DEF User
<1>3. \A q \in Requests \ {r} : req'[q] = req[q]
  BY <1>1 DEF LoginLoad, ChangeLoad
<1>4. /\ Agrees(user) /\ Agrees(AssertCanAttemptLogin(user))
      /\ AssertCanAttemptLogin(user).status # "LOCKED"
  BY <1>1, <1>2, UsersAgree DEF LockInv
<1>5. CASE LoginLoad(r)
  <2>1. /\ req'[r].copy = AssertCanAttemptLogin(user) /\ req'[r].kind = "LOGIN"
        /\ req'[r].pc = "save" => ~Barred(user)
    BY <1>1, <1>5 DEF LoginLoad, At, Request
  <2>2. LockInv'
    BY <1>3, <1>4, <2>1 DEF LockInv, At
  <2>3. \A q \in Requests : Fresh(q)'
    BY <1>3, <2>1 DEF Fresh, Barred
  <2> QED BY <2>2, <2>3
<1>6. CASE ChangeLoad(r)
  <2>1. req'[r].copy = user /\ req'[r].kind = "CHANGE"
    BY <1>1, <1>6 DEF ChangeLoad, At, Request
  <2>2. LockInv'
    BY <1>3, <1>4, <2>1 DEF LockInv, At
  <2>3. \A q \in Requests : Fresh(q)'
    BY <1>3, <2>1 DEF Fresh, Barred
  <2> QED BY <2>2, <2>3
<1> QED BY <1>5, <1>6

LEMMA RequestLockInv ==
  ASSUME TypeOK, LockInv, \A q \in Requests : Fresh(q), NEW r \in Requests, RequestStep(r)
  PROVE  LockInv' /\ \A q \in Requests : Fresh(q)'
<1>1. /\ req[r] \in Request /\ req \in [Requests -> Request] /\ clock \in Nat
      /\ req[r].copy \in User /\ req[r].given \in Passwords /\ Agrees(req[r].copy)
  BY DEF TypeOK, Request, LockInv
<1>2. CASE Receive(r)
  <2>1. /\ \A q \in Requests \ {r} : req'[q] = req[q]
        /\ req'[r].pc # "save" /\ req'[r].copy = req[r].copy
    <3>1. ASSUME NEW kind, NEW p,
                 req' = [req EXCEPT ![r].kind = kind, ![r].given = p, ![r].pc = "load"]
          PROVE  /\ \A q \in Requests \ {r} : req'[q] = req[q]
                 /\ req'[r].pc # "save" /\ req'[r].copy = req[r].copy
      BY <1>1, <3>1 DEF Request
    <3>2. ASSUME NEW kind, NEW t,
                 req' = [req EXCEPT ![r].kind = kind, ![r].presented = t, ![r].pc = "find"]
          PROVE  /\ \A q \in Requests \ {r} : req'[q] = req[q]
                 /\ req'[r].pc # "save" /\ req'[r].copy = req[r].copy
      BY <1>1, <3>2 DEF Request
    <3> QED BY <1>2, <3>1, <3>2 DEF Receive
  <2> QED BY <1>2, <2>1 DEF Receive, LockInv, At, Fresh, Barred
<1>3. CASE RegisterSave(r) \/ LoginSave(r) \/ ChangeSave(r)
  <2>1. CASE RegisterSave(r)
    BY <1>1, <2>1, UsersAgree, LockKept, LockSaved DEF RegisterSave
  <2>2. CASE LoginSave(r)
    <3>1. req[r].copy.status # "LOCKED"
      BY <2>2 DEF LoginSave, LockInv
    <3> QED BY <1>1, <2>2, <3>1, UsersAgree, LockSaved DEF LoginSave
  <2>3. CASE ChangeSave(r)
    BY <1>1, <2>3, UsersAgree, LockSaved DEF ChangeSave
  <2> QED BY <1>3, <2>1, <2>2, <2>3
<1>4. CASE LoginLoad(r) \/ ChangeLoad(r)
  BY <1>4, LockLoaded DEF LoginLoad, ChangeLoad
<1>5. CASE RegisterExists(r)
  BY <1>5, LockKept DEF RegisterExists, At
<1>6. CASE \/ RegisterOpen(r) \/ LoginIssue(r) \/ RefreshFind(r) \/ RefreshLoad(r)
           \/ RefreshRevokeOld(r) \/ RefreshIssue(r) \/ LogoutFind(r) \/ EndFamily(r)
           \/ ChangeRevoke(r) \/ Fail(r)
  <2>1. UNCHANGED <<user, clock>> /\ \E pc : pc # "save" /\ Go(r, pc)
    BY <1>6 DEF RegisterOpen, LoginIssue, RefreshFind, RefreshLoad, RefreshRevokeOld,
       RefreshIssue, LogoutFind, EndFamily, ChangeRevoke, Fail
  <2> QED BY <2>1, LockKept
<1> QED BY <1>2, <1>3, <1>4, <1>5, <1>6 DEF RequestStep

LEMMA LockNext ==
  ASSUME TypeOK, LockInv, \A q \in Requests : Fresh(q), [Next]_vars
  PROVE  LockInv' /\ \A q \in Requests : Fresh(q)'
<1>1. CASE Tick
  <2>1. Barred(user)' => Barred(user)
    BY <1>1 DEF Tick, Barred, TypeOK, User
  <2>2. UNCHANGED <<user, req>>
    BY <1>1 DEF Tick
  <2> QED BY <2>1, <2>2 DEF LockInv, At, Fresh
<1>2. CASE (\E t \in Tokens : Expire(t)) \/ UNCHANGED vars
  <2>1. UNCHANGED <<user, req, clock>>
    BY <1>2 DEF Expire, vars
  <2> QED BY <2>1 DEF LockInv, At, Fresh, Barred
<1> QED BY <1>1, <1>2, NextCases, RequestLockInv

\* The inductive invariant, for all values of the constants.
THEOREM Inductive == Spec => []IInv
<1>1. Init => IInv
  BY TypeInit, TokenInit, LockInit DEF IInv
<1>2. IInv /\ [Next]_vars => IInv'
  BY TypeNext, TokenNext, LockNext DEF IInv
<1> QED BY <1>1, <1>2, PTL DEF Spec

\* Although three handlers write the whole user back from a copy that may be
\* stale, status, counter and end of the lock never contradict each other.
THEOREM LockFieldsAgree == Spec => []LockAgrees
<1>1. IInv => LockAgrees
  BY DEF IInv, LockInv, Agrees, LockAgrees
<1> QED BY <1>1, Inductive, PTL

\* One step from a state of the invariant, for LockHolds.
LEMMA LockStep ==
  ASSUME IInv, [Next]_vars, Barred(user), user'.status # "LOCKED"
  PROVE  \E r \in Requests : req[r].stale /\ req'[r].pc # req[r].pc
<1>1. TypeOK /\ user.status = "LOCKED" /\ user' # user
  BY DEF IInv, Barred
<1>2. PICK r \in Requests : RegisterSave(r) \/ LoginSave(r) \/ ChangeSave(r)
  BY <1>1, NextCases DEF RequestStep, Tick, Expire, vars, Receive, RegisterExists, RegisterOpen,
     LoginLoad, LoginIssue, RefreshFind, RefreshLoad, RefreshRevokeOld, RefreshIssue,
     LogoutFind, EndFamily, ChangeLoad, ChangeRevoke, Fail
<1>3. req[r].pc = "save" /\ Fresh(r) /\ req[r] \in Request /\ req[r].copy \in User
  BY <1>1, <1>2 DEF IInv, RegisterSave, LoginSave, ChangeSave, At, TypeOK, Request
<1>4. CASE RegisterSave(r)
  BY <1>1, <1>4 DEF RegisterSave
<1>5. CASE LoginSave(r)
  <2>1. req[r].stale
    BY <1>3, <1>5 DEF LoginSave, At, Fresh
  <2>2. req'[r].pc \in {"issue", "refused"}
    BY <1>1, <1>5, SaveUserFrame DEF LoginSave
  <2> QED BY <1>3, <2>1, <2>2
<1>6. CASE ChangeSave(r)
  <2>1. PICK p \in Passwords : SaveUser(r, UserChangePassword(req[r].copy, p), "revokeAll")
    BY <1>6 DEF ChangeSave
  <2>2. user'.status = req[r].copy.status /\ req'[r].pc = "revokeAll"
    BY <1>1, <2>1, SaveUserFrame DEF UserChangePassword
  <2>3. req[r].stale
    BY <1>1, <1>3, <1>6, <2>2 DEF ChangeSave, At, Fresh
  <2> QED BY <1>3, <2>2, <2>3
<1> QED BY <1>2, <1>4, <1>5, <1>6

\* A lock in force ends early only through a save from a copy that was loaded
\* before somebody else's save: no handler that saw the lock lifts it.
THEOREM LocksHold == Spec => LockHolds
<1>1. IInv /\ [Next]_vars
        => [Barred(user) /\ user'.status # "LOCKED"
              => \E r \in Requests : req[r].stale /\ req'[r].pc # req[r].pc]_vars
  BY LockStep
<1> QED BY <1>1, Inductive, PTL DEF Spec, LockHolds

-----------------------------------------------------------------------------
(***************************************************************************)
(* The client's side: ClientSession, for any number of tabs, calls, tokens *)
(* and reloads.  Unless an answer was lost or two tabs came to hold one    *)
(* token, each token the client may still present has one tab with a hand  *)
(* on it and is live at the backend; only a rotation by that tab revokes   *)
(* it, and refreshPromise keeps the tab from presenting it again.          *)
(***************************************************************************)
\* The tokens a tab has a hand on: the one it holds, the one it is exchanging
\* and the one it was given for it.
Claims(m, n) ==
  n = m.refresh \/ \E q \in m.refreshing : n = q.presented \/ n = q.answer

\* A tab exchanges one token at a time, and tokens in it were issued.
TabRight(m, n) ==
  /\ m.refresh <= n
  /\ \A q \in m.refreshing : /\ q.presented \in 1..n
                             /\ q.answer \in {Waiting, Refused} \cup (1..n)
  /\ \A q, r \in m.refreshing : q = r
  /\ m.loggedIn => m.refresh # 0

\* What a tab may still present, or is about to store, is not revoked.
TabLive(m, srv) ==
  /\ m.refreshing = {} /\ m.refresh # 0 => srv[m.refresh].state = "live"
  /\ \A q \in m.refreshing : q.answer = Waiting => srv[q.presented].state = "live"
  /\ \A q \in m.refreshing : q.answer > 0 => srv[q.answer].state = "live"

\* What persist wrote last is what some tab holds.
StorageRight ==
  /\ storage.loggedIn => storage.refresh # 0
  /\ storage.refresh # 0 => \E u \in Tabs : tab[u].refresh = storage.refresh

\* No two tabs have a hand on one token.
Apart ==
  \A u, v \in Tabs : u # v =>
    \A n \in 1..MaxTokens : ~(Claims(tab[u], n) /\ Claims(tab[v], n))

ClientInv ==
  /\ ClientTypeOK
  /\ \A u \in Tabs : TabRight(tab[u], issued)
  /\ StorageRight
  /\ reused => excused
  /\ ~excused => Apart /\ \A u \in Tabs : TabLive(tab[u], server)

LEMMA TabFacts ==
  ASSUME ClientInv, NEW t \in Tabs
  PROVE  /\ tab[t] \in Tab /\ tab[t].refresh \in Id /\ tab[t].loggedIn \in BOOLEAN
         /\ tab[t].refreshing \subseteq [presented: Id, answer: Id \cup {-1, -2}]
         /\ tab[t].call \in [Calls -> Id \cup {-1}]
         /\ TabRight(tab[t], issued)
         /\ issued \in Id /\ issued \in Nat /\ MaxTokens \in Nat
         /\ ~excused => TabLive(tab[t], server)
BY MaxTokensAssumption DEF ClientInv, ClientTypeOK, Tab, Id

\* One tab moves on from its record to m.  The backend may issue a token
\* and revoke tokens the tab has a hand on.
LEMMA TabStep ==
  ASSUME ClientInv, NEW t \in Tabs, NEW m \in Tab, tab' = [tab EXCEPT ![t] = m],
         issued' \in Id, issued <= issued', TabRight(m, issued'),
         server' \in [1..MaxTokens -> [state: {"none", "live", "revoked"}, family: Id]],
         expired' \subseteq Id, reloads' \in Nat, reused' \in BOOLEAN, excused' \in BOOLEAN,
         storage' = Persisted(m) \/ (storage' = storage /\ m.refresh = tab[t].refresh),
         reused' => excused', excused => excused',
         ~excused' => TabLive(m, server'),
         ~excused' => \A n \in 1..issued : Claims(m, n) => Claims(tab[t], n),
         ~excused' => \A n \in 1..issued : server[n].state = "live" =>
                        server'[n].state = "live" \/ Claims(tab[t], n)
  PROVE  ClientInv'
<1>1. /\ tab \in [Tabs -> Tab] /\ issued \in Nat /\ issued' \in Nat /\ MaxTokens \in Nat
      /\ storage \in [loggedIn: BOOLEAN, refresh: Id]
  BY MaxTokensAssumption DEF ClientInv, ClientTypeOK, Id
<1>2. tab'[t] = m /\ \A u \in Tabs : u # t => tab'[u] = tab[u]
  BY <1>1
<1>3. m.refresh \in Id /\ m.loggedIn \in BOOLEAN
  BY DEF Tab
<1>4. ClientTypeOK'
  <2>1. Persisted(m) \in [loggedIn: BOOLEAN, refresh: Id]
    BY <1>3 DEF Persisted
  <2>2. Id' = Id /\ Tab' = Tab
    BY DEF Id, Tab
  <2> QED BY <1>1, <2>1 DEF ClientTypeOK, Tab, Id
<1>5. ASSUME NEW u \in Tabs PROVE TabRight(tab[u], issued)'
  <2>1. CASE u = t
    BY <1>2, <2>1 DEF TabRight, Waiting, Refused
  <2>2. CASE u # t
    <3>1. TabRight(tab[u], issued) /\ tab[u].refresh \in Id
      BY TabFacts
    <3>2. tab[u].refresh \in Nat
      BY <1>1, <3>1 DEF Id
    <3>3. \A n \in 1..issued : n \in 1..issued'
      BY <1>1
    <3>4. TabRight(tab[u], issued')
      BY <1>1, <3>1, <3>2, <3>3 DEF TabRight
    <3> QED BY <1>2, <2>2, <3>4 DEF TabRight, Waiting, Refused
  <2> QED BY <2>1, <2>2
<1>6. StorageRight'
  <2>1. CASE storage' = Persisted(m)
    BY <1>2, <2>1 DEF StorageRight, Persisted, TabRight
  <2>2. CASE storage' = storage /\ m.refresh = tab[t].refresh
    BY <1>2, <2>2 DEF StorageRight, ClientInv
  <2> QED BY <2>1, <2>2
<1>7. ASSUME ~excused', NEW u \in Tabs PROVE TabLive(tab[u], server)'
  <2>1. CASE u = t
    BY <1>2, <1>7, <2>1 DEF TabLive, Waiting
  <2>2. CASE u # t
    <3>1. TabLive(tab[u], server) /\ TabRight(tab[u], issued) /\ tab[u].refresh \in Id
      BY <1>7, TabFacts
    <3>2. \A n \in 1..issued : Claims(tab[u], n) => ~Claims(tab[t], n)
      <4>1. \A n \in 1..issued : n \in 1..MaxTokens
        BY <1>1 DEF ClientInv, ClientTypeOK, Id
      <4> QED BY <1>7, <2>2, <4>1 DEF ClientInv, Apart
    <3>3. \A n \in 1..issued : Claims(tab[u], n) /\ server[n].state = "live"
                                  => server'[n].state = "live"
      BY <1>7, <3>2
    <3>4. tab[u].refresh # 0 => tab[u].refresh \in 1..issued
      BY <1>1, <3>1 DEF TabRight, Id
    <3>5. \A q \in tab[u].refreshing : q.answer > 0 => q.answer \in 1..issued
      BY <3>1 DEF TabRight, Waiting, Refused
    <3>6. TabLive(tab[u], server')
      <4>1. tab[u].refreshing = {} /\ tab[u].refresh # 0 => server'[tab[u].refresh].state = "live"
        BY <3>1, <3>3, <3>4 DEF TabLive, Claims
      <4>2. ASSUME NEW q \in tab[u].refreshing, q.answer = Waiting
            PROVE  server'[q.presented].state = "live"
        BY <3>1, <3>3, <4>2 DEF TabLive, TabRight, Claims
      <4>3. ASSUME NEW q \in tab[u].refreshing, q.answer > 0
            PROVE  server'[q.answer].state = "live"
        BY <3>1, <3>3, <3>5, <4>3 DEF TabLive, Claims
      <4> QED BY <4>1, <4>2, <4>3 DEF TabLive
    <3> QED BY <1>2, <2>2, <3>6 DEF TabLive, Waiting
  <2> QED BY <2>1, <2>2
<1>8. ASSUME ~excused' PROVE Apart'
  <2>1. ASSUME NEW u \in Tabs, NEW n \in 1..MaxTokens, Claims(tab[u], n) PROVE n <= issued
    <3>1. TabRight(tab[u], issued)
      BY TabFacts
    <3>2. \A q \in tab[u].refreshing : n = q.answer => n \in 1..issued
      BY <3>1 DEF TabRight, Waiting, Refused
    <3>3. \A q \in tab[u].refreshing : n = q.presented => n \in 1..issued
      BY <3>1 DEF TabRight
    <3>4. n = tab[u].refresh => n <= issued
      BY <3>1 DEF TabRight
    <3> QED BY <1>1, <2>1, <3>2, <3>3, <3>4 DEF Claims
  <2>2. ASSUME NEW u \in Tabs, u # t, NEW n \in 1..MaxTokens, Claims(tab[u], n), Claims(m, n)
        PROVE  FALSE
    <3>1. n \in 1..issued
      BY <1>1, <2>1, <2>2
    <3>2. Claims(tab[t], n)
      BY <1>8, <2>2, <3>1
    <3> QED BY <1>8, <2>2, <3>2 DEF ClientInv, Apart
  <2>3. ASSUME NEW u \in Tabs, NEW v \in Tabs, u # v, NEW n \in 1..MaxTokens,
               Claims(tab'[u], n), Claims(tab'[v], n)
        PROVE  FALSE
    <3>1. CASE u = t
      BY <1>2, <2>2, <2>3, <3>1
    <3>2. CASE v = t
      BY <1>2, <2>2, <2>3, <3>2
    <3>3. CASE u # t /\ v # t
      BY <1>2, <1>8, <2>3, <3>3 DEF ClientInv, Apart
    <3> QED BY <3>1, <3>2, <3>3
  <2> QED BY <2>3 DEF Apart, Claims
<1> QED
  BY <1>4, <1>5, <1>6, <1>7, <1>8 DEF ClientInv

LEMMA LogoutTab ==
  ASSUME NEW m \in Tab
  PROVE  /\ LocalLogout(m) \in Tab /\ LocalLogout(m).refresh = 0
         /\ LocalLogout(m).refreshing = m.refreshing /\ LocalLogout(m).loggedIn = FALSE
<1>1. 0 \in Id
  BY MaxTokensAssumption DEF Id
<1> QED BY <1>1 DEF LocalLogout, Tab

\* refreshAccessToken, on the record of a tab.
LEMMA RefreshRight ==
  ASSUME NEW m \in Tab, NEW n \in Id, TabRight(m, n)
  PROVE  LET w == RefreshAccessToken(m)
         IN  /\ w \in Tab /\ TabRight(w, n)
             /\ SharesRefresh(m) => w = m
             /\ \A k : Claims(w, k) => Claims(m, k) \/ k = 0 \/ k = Waiting
             /\ \A srv : TabLive(m, srv) => TabLive(w, srv)
<1> DEFINE w == RefreshAccessToken(m)
           q0 == [presented |-> m.refresh, answer |-> Waiting]
<1>1. /\ m.refresh \in Id /\ m.loggedIn \in BOOLEAN
      /\ n \in Nat /\ MaxTokens \in Nat
      /\ m.refreshing \subseteq [presented: Id, answer: Id \cup {-1, -2}]
  BY MaxTokensAssumption DEF Tab, Id
<1>2. CASE SharesRefresh(m)
  BY <1>2 DEF RefreshAccessToken
<1>3. CASE ~SharesRefresh(m) /\ m.refresh = 0
  <2>1. w = LocalLogout(m) /\ m.refreshing = {}
    BY <1>3 DEF RefreshAccessToken, SharesRefresh
  <2>2. /\ LocalLogout(m) \in Tab /\ LocalLogout(m).refresh = 0
        /\ LocalLogout(m).refreshing = m.refreshing /\ LocalLogout(m).loggedIn = FALSE
    BY LogoutTab
  <2>3. TabRight(LocalLogout(m), n)
    BY <1>1, <2>1, <2>2 DEF TabRight
  <2>4. \A k : Claims(LocalLogout(m), k) => k = 0
    BY <2>1, <2>2 DEF Claims
  <2>5. \A srv : TabLive(LocalLogout(m), srv)
    BY <2>1, <2>2 DEF TabLive
  <2> QED BY <1>3, <2>1, <2>2, <2>3, <2>4, <2>5
<1>4. CASE ~SharesRefresh(m) /\ m.refresh # 0
  <2>1. w = [m EXCEPT !.refreshing = {q0}] /\ m.refreshing = {}
    BY <1>4 DEF RefreshAccessToken, SharesRefresh
  <2>2. q0 \in [presented: Id, answer: Id \cup {-1, -2}]
    BY <1>1 DEF Waiting
  <2>3. /\ w \in Tab /\ w.refresh = m.refresh /\ w.loggedIn = m.loggedIn
        /\ w.refreshing = {q0}
    BY <1>1, <2>1, <2>2 DEF Tab
  <2>4. q0.presented = m.refresh /\ q0.answer = Waiting /\ ~(q0.answer > 0)
    BY DEF Waiting
  <2>5. m.refresh \in 1..n
    BY <1>1, <1>4 DEF TabRight, Id
  <2> HIDE DEF w, q0
  <2>6. TabRight(w, n)
    BY <1>1, <2>3, <2>4, <2>5 DEF TabRight
  <2>7. \A k : Claims(w, k) => Claims(m, k) \/ k = 0 \/ k = Waiting
    BY <2>3, <2>4 DEF Claims
  <2>8. \A srv : TabLive(m, srv) => TabLive(w, srv)
    BY <1>4, <2>1, <2>3, <2>4 DEF TabLive
  <2> QED BY <1>4, <2>3, <2>6, <2>7, <2>8 DEF w
<1> QED BY <1>2, <1>3, <1>4

LEMMA ClientStarts == ClientInit => ClientInv
<1> SUFFICES ASSUME ClientInit PROVE ClientInv
  OBVIOUS
<1>1. MaxTokens \in Nat /\ 0 \in Id
  BY MaxTokensAssumption DEF Id
<1>2. /\ Closed \in Tab /\ Closed.refreshing = {} /\ Closed.refresh = 0
      /\ Closed.loggedIn = FALSE
  BY <1>1 DEF Closed, Tab
<1>3. \A u \in Tabs : tab[u] = Closed
  BY DEF ClientInit
<1>4. ClientTypeOK
  BY <1>1, <1>2 DEF ClientInit, ClientTypeOK
<1>5. TabRight(Closed, 0) /\ TabLive(Closed, server)
  BY <1>2 DEF TabRight, TabLive
<1>6. Apart
  <2>1. \A n \in 1..MaxTokens : ~Claims(Closed, n)
    BY <1>1, <1>2 DEF Claims
  <2> QED BY <1>3, <2>1 DEF Apart
<1> QED BY <1>3, <1>4, <1>5, <1>6 DEF ClientInit, ClientInv, StorageRight

LEMMA LoadStep ==
  ASSUME ClientInv, NEW t \in Tabs, Load(t)
  PROVE  ClientInv'
<1> DEFINE m == [Closed EXCEPT !.open = TRUE, !.loggedIn = storage.loggedIn,
                               !.refresh = storage.refresh]
           w == IF m.refresh = 0 THEN m ELSE RefreshAccessToken(m)
<1>1. /\ storage.refresh \in Id /\ storage.loggedIn \in BOOLEAN /\ issued \in Id
      /\ issued \in Nat /\ MaxTokens \in Nat /\ 0 \in Id
      /\ storage.loggedIn => storage.refresh # 0
      /\ excused \in BOOLEAN /\ reused \in BOOLEAN
      /\ reused => excused
  BY MaxTokensAssumption DEF ClientInv, ClientTypeOK, StorageRight, Id
<1>2. /\ m \in Tab /\ m.refresh = storage.refresh /\ m.loggedIn = storage.loggedIn
      /\ m.refreshing = {}
  BY <1>1 DEF Closed, Tab
<1>3. storage.refresh <= issued
  <2>1. CASE storage.refresh = 0
    BY <1>1, <2>1
  <2>2. CASE storage.refresh # 0
    BY <2>2 DEF ClientInv, StorageRight, TabRight
  <2> QED BY <2>1, <2>2
<1>4. TabRight(m, issued)
  BY <1>1, <1>2, <1>3 DEF TabRight
<1> HIDE DEF m
<1>5. /\ w \in Tab /\ TabRight(w, issued)
      /\ \A k \in 1..issued : Claims(w, k) => Claims(m, k)
      /\ TabLive(m, server) => TabLive(w, server)
  <2>1. \A k \in 1..issued : k # 0 /\ k # Waiting
    BY <1>1 DEF Waiting
  <2> QED BY <1>1, <1>2, <1>4, <2>1, RefreshRight
<1> HIDE DEF w
<1>6. /\ tab' = [tab EXCEPT ![t] = w] /\ storage' = Persisted(w)
      /\ server' = server /\ issued' = issued /\ expired' = expired /\ reused' = reused
      /\ reloads' = reloads + 1
  BY DEF Load, Becomes, m, w
<1>7. /\ excused' \in BOOLEAN
      /\ excused => excused'
      /\ ~excused' => /\ ~excused /\ tab[t].refreshing = {}
                      /\ \A u \in Tabs \ {t} : tab[u].refresh = storage.refresh => storage.refresh = 0
  BY <1>1 DEF Load
<1>8. ASSUME ~excused', storage.refresh # 0 PROVE storage.refresh = tab[t].refresh
  BY <1>7, <1>8 DEF ClientInv, StorageRight
<1>9. ASSUME ~excused' PROVE TabLive(m, server)
  <2>1. TabLive(tab[t], server)
    BY <1>7, <1>9, TabFacts
  <2> QED BY <1>2, <1>7, <1>8, <1>9, <2>1 DEF TabLive
<1>10. ASSUME ~excused', NEW k \in 1..issued, Claims(w, k) PROVE Claims(tab[t], k)
  <2>1. k = storage.refresh /\ storage.refresh # 0
    BY <1>1, <1>2, <1>5, <1>10 DEF Claims
  <2> QED BY <1>8, <1>10, <2>1 DEF Claims
<1>11. /\ server \in [1..MaxTokens -> [state: {"none", "live", "revoked"}, family: Id]]
       /\ expired \subseteq Id /\ reloads + 1 \in Nat
  BY DEF ClientInv, ClientTypeOK
<1>12. /\ issued' \in Id /\ issued <= issued' /\ TabRight(w, issued')
       /\ server' \in [1..MaxTokens -> [state: {"none", "live", "revoked"}, family: Id]]
       /\ expired' \subseteq Id /\ reloads' \in Nat /\ reused' \in BOOLEAN
  BY <1>1, <1>5, <1>6, <1>11
<1>13. /\ reused' => excused'
       /\ ~excused' => TabLive(w, server')
  BY <1>1, <1>5, <1>6, <1>7, <1>9
<1>14. ~excused' => \A n \in 1..issued : Claims(w, n) => Claims(tab[t], n)
  BY <1>10
<1>15. \A n \in 1..issued : server[n].state = "live" => server'[n].state = "live"
  BY <1>6
<1> QED
  BY <1>5, <1>6, <1>7, <1>12, <1>13, <1>14, <1>15, TabStep

\* A step of one tab that the backend does not see.
LEMMA QuietStep ==
  ASSUME ClientInv, NEW t \in Tabs, NEW m \in Tab, tab' = [tab EXCEPT ![t] = m],
         UNCHANGED <<server, issued, expired, reloads, reused, excused>>,
         TabRight(m, issued),
         storage' = Persisted(m) \/ (storage' = storage /\ m.refresh = tab[t].refresh),
         TabLive(tab[t], server) => TabLive(m, server),
         \A n \in 1..issued : Claims(m, n) => Claims(tab[t], n)
  PROVE  ClientInv'
<1>1. /\ issued \in Id /\ issued \in Nat
      /\ server \in [1..MaxTokens -> [state: {"none", "live", "revoked"}, family: Id]]
      /\ expired \subseteq Id /\ reloads \in Nat /\ reused \in BOOLEAN /\ excused \in BOOLEAN
      /\ reused => excused
  BY MaxTokensAssumption DEF ClientInv, ClientTypeOK, Id
<1>2. ~excused => TabLive(m, server)
  BY TabFacts
<1>3. /\ issued' \in Id /\ issued <= issued' /\ TabRight(m, issued')
      /\ server' \in [1..MaxTokens -> [state: {"none", "live", "revoked"}, family: Id]]
      /\ expired' \subseteq Id /\ reloads' \in Nat /\ reused' \in BOOLEAN /\ excused' \in BOOLEAN
      /\ reused' => excused'
      /\ excused => excused'
      /\ ~excused' => TabLive(m, server')
      /\ \A n \in 1..issued : server[n].state = "live" => server'[n].state = "live"
  BY <1>1, <1>2
<1> QED
  BY <1>3, TabStep

LEMMA PageSteps ==
  ASSUME ClientInv, NEW t \in Tabs,
         LoginSubmit(t) \/ Logout(t) \/ (\E c \in Calls : Call(t, c))
  PROVE  ClientInv'
<1>1. /\ tab[t] \in Tab /\ tab[t].refresh \in Id /\ TabRight(tab[t], issued)
      /\ tab[t].call \in [Calls -> Id \cup {-1}] /\ tab[t].access \in Id
  BY TabFacts DEF Tab
<1>2. CASE LoginSubmit(t)
  <2> DEFINE m == [tab[t] EXCEPT !.loggingIn = TRUE]
  <2>1. /\ m \in Tab /\ m.refresh = tab[t].refresh /\ m.refreshing = tab[t].refreshing
        /\ m.loggedIn = tab[t].loggedIn
    BY <1>1 DEF Tab
  <2>2. tab' = [tab EXCEPT ![t] = m]
    BY <1>2 DEF LoginSubmit
  <2> HIDE DEF m
  <2>3. /\ TabRight(m, issued)
        /\ TabLive(tab[t], server) => TabLive(m, server)
        /\ \A n \in 1..issued : Claims(m, n) => Claims(tab[t], n)
    BY <1>1, <2>1 DEF TabRight, TabLive, Claims
  <2> QED BY <1>2, <2>1, <2>2, <2>3, QuietStep DEF LoginSubmit
<1>3. ASSUME NEW c \in Calls, Call(t, c) PROVE ClientInv'
  <2> DEFINE m == [tab[t] EXCEPT !.call[c] = tab[t].access]
  <2>1. /\ m \in Tab /\ m.refresh = tab[t].refresh /\ m.refreshing = tab[t].refreshing
        /\ m.loggedIn = tab[t].loggedIn
    BY <1>1 DEF Tab
  <2>2. tab' = [tab EXCEPT ![t] = m]
    BY <1>3 DEF Call
  <2> HIDE DEF m
  <2>3. /\ TabRight(m, issued)
        /\ TabLive(tab[t], server) => TabLive(m, server)
        /\ \A n \in 1..issued : Claims(m, n) => Claims(tab[t], n)
    BY <1>1, <2>1 DEF TabRight, TabLive, Claims
  <2> QED BY <1>3, <2>1, <2>2, <2>3, QuietStep DEF Call
<1>4. CASE Logout(t)
  <2> DEFINE m == LocalLogout(tab[t])
  <2>1. /\ m \in Tab /\ m.refresh = 0 /\ m.refreshing = tab[t].refreshing
        /\ m.loggedIn = FALSE
    BY <1>1, LogoutTab
  <2> HIDE DEF m
  <2>2. TabRight(m, issued)
    <3>1. 0 <= issued
      BY TabFacts
    <3> QED BY <1>1, <2>1, <3>1 DEF TabRight
  <2>3. /\ TabLive(tab[t], server) => TabLive(m, server)
        /\ \A n \in 1..issued : Claims(m, n) => Claims(tab[t], n)
    BY <2>1, TabFacts DEF TabLive, Claims
  <2> QED BY <1>4, <2>1, <2>2, <2>3, QuietStep DEF Logout, Becomes, m
<1> QED BY <1>2, <1>3, <1>4

\* A late 401 clears the token of the moment and rotates, or shares the
\* rotation under way.
LEMMA CallAnswerStep ==
  ASSUME ClientInv, NEW t \in Tabs, NEW c \in Calls, CallAnswer(t, c)
  PROVE  ClientInv'
<1>1. /\ tab[t] \in Tab /\ tab[t].refresh \in Id /\ TabRight(tab[t], issued)
      /\ issued \in Id /\ issued \in Nat /\ tab[t].call \in [Calls -> Id \cup {-1}]
  BY TabFacts
<1> DEFINE m == [tab[t] EXCEPT !.call[c] = -1]
           z == [m EXCEPT !.access = 0]
           w == RefreshAccessToken(z)
<1>2. /\ m \in Tab /\ m.refresh = tab[t].refresh /\ m.refreshing = tab[t].refreshing
      /\ m.loggedIn = tab[t].loggedIn
  BY <1>1 DEF Tab
<1>3. /\ TabRight(m, issued)
      /\ TabLive(tab[t], server) => TabLive(m, server)
      /\ \A n \in 1..issued : Claims(m, n) => Claims(tab[t], n)
  BY <1>1, <1>2 DEF TabRight, TabLive, Claims
<1>4. /\ z \in Tab /\ z.refresh = m.refresh /\ z.refreshing = m.refreshing
      /\ z.loggedIn = m.loggedIn
  <2>1. 0 \in Id
    BY MaxTokensAssumption DEF Id
  <2> HIDE DEF m
  <2> QED BY <1>2, <2>1 DEF Tab
<1>5. CASE tab[t].call[c] \notin expired
  <2>1. tab' = [tab EXCEPT ![t] = m] /\ storage' = storage
    BY <1>5 DEF CallAnswer
  <2> HIDE DEF m, z, w
  <2> QED BY <1>2, <1>3, <2>1, QuietStep DEF CallAnswer
<1>6. CASE tab[t].call[c] \in expired
  <2>1. /\ tab' = [tab EXCEPT ![t] = w]
        /\ storage' = IF ~SharesRefresh(m) THEN Persisted(w) ELSE storage
    BY <1>6 DEF CallAnswer, Expired
  <2> HIDE DEF m, z, w
  <2>2. /\ TabRight(z, issued)
        /\ TabLive(tab[t], server) => TabLive(z, server)
        /\ \A n \in 1..issued : Claims(z, n) => Claims(tab[t], n)
    BY <1>3, <1>4 DEF TabRight, TabLive, Claims
  <2>3. /\ w \in Tab /\ TabRight(w, issued)
        /\ SharesRefresh(z) => w = z
        /\ \A k : Claims(w, k) => Claims(z, k) \/ k = 0 \/ k = Waiting
        /\ TabLive(z, server) => TabLive(w, server)
    BY <1>1, <1>4, <2>2, RefreshRight DEF w
  <2>4. \A n \in 1..issued : Claims(w, n) => Claims(tab[t], n)
    <3>1. \A k \in 1..issued : k # 0 /\ k # Waiting
      BY <1>1 DEF Waiting
    <3> QED BY <2>2, <2>3, <3>1
  <2>5. storage' = Persisted(w) \/ (storage' = storage /\ w.refresh = tab[t].refresh)
    BY <1>2, <1>4, <2>1, <2>3 DEF SharesRefresh
  <2> QED BY <2>1, <2>2, <2>3, <2>4, <2>5, QuietStep DEF CallAnswer
<1> QED BY <1>5, <1>6

LEMMA ServerType ==
  ASSUME ClientInv
  PROVE  /\ server \in [1..MaxTokens -> [state: {"none", "live", "revoked"}, family: Id]]
         /\ expired \subseteq Id /\ reloads \in Nat /\ reused \in BOOLEAN /\ excused \in BOOLEAN
         /\ reused => excused
BY DEF ClientInv, ClientTypeOK

LEMMA LoginAnswerStep ==
  ASSUME ClientInv, NEW t \in Tabs, LoginAnswer(t)
  PROVE  ClientInv'
<1>1. /\ tab[t] \in Tab /\ TabRight(tab[t], issued)
      /\ issued \in Id /\ issued \in Nat /\ MaxTokens \in Nat
      /\ ~excused => TabLive(tab[t], server)
  BY TabFacts
<1>2. CASE tab' = [tab EXCEPT ![t].loggingIn = FALSE] /\ UNCHANGED <<storage, server, issued>>
  <2> DEFINE m == [tab[t] EXCEPT !.loggingIn = FALSE]
  <2>1. /\ m \in Tab /\ m.refresh = tab[t].refresh /\ m.refreshing = tab[t].refreshing
        /\ m.loggedIn = tab[t].loggedIn
    BY <1>1 DEF Tab
  <2>2. tab' = [tab EXCEPT ![t] = m]
    BY <1>2
  <2> HIDE DEF m
  <2>3. /\ TabRight(m, issued)
        /\ TabLive(tab[t], server) => TabLive(m, server)
        /\ \A n \in 1..issued : Claims(m, n) => Claims(tab[t], n)
    BY <1>1, <2>1 DEF TabRight, TabLive, Claims
  <2> QED BY <1>2, <2>1, <2>2, <2>3, QuietStep DEF LoginAnswer
<1>3. CASE /\ issued < MaxTokens
           /\ issued' = issued + 1
           /\ server' = [server EXCEPT ![issued + 1] = [state |-> "live", family |-> issued + 1]]
           /\ Becomes(t, [tab[t] EXCEPT !.loggingIn = FALSE, !.loggedIn = TRUE,
                                        !.access = issued + 1, !.refresh = issued + 1])
  <2> DEFINE k == issued + 1
             m == [tab[t] EXCEPT !.loggingIn = FALSE, !.loggedIn = TRUE,
                                 !.access = k, !.refresh = k]
  <2>1. k \in Id /\ k \in 1..MaxTokens /\ k \in Nat /\ issued < k /\ k # 0
    BY <1>1, <1>3 DEF Id
  <2>2. tab' = [tab EXCEPT ![t] = m] /\ storage' = Persisted(m) /\ issued' = k
    BY <1>3 DEF Becomes
  <2>3. server' = [server EXCEPT ![k] = [state |-> "live", family |-> k]]
    BY <1>3
  <2> HIDE DEF k
  <2>4. /\ m \in Tab /\ m.refresh = k /\ m.refreshing = tab[t].refreshing
        /\ m.loggedIn = TRUE
    BY <1>1, <2>1 DEF Tab
  <2> HIDE DEF m
  <2>5. /\ server' \in [1..MaxTokens -> [state: {"none", "live", "revoked"}, family: Id]]
        /\ server'[k].state = "live"
        /\ \A n \in 1..MaxTokens : n # k => server'[n] = server[n]
    BY <2>1, <2>3, ServerType
  <2>6. \A n \in 1..issued : n # k /\ n \in 1..k /\ n \in 1..MaxTokens
    BY <1>1, <1>3, <2>1
  <2>7. TabRight(m, k)
    BY <1>1, <2>1, <2>4, <2>6 DEF TabRight
  <2>8. ASSUME ~excused PROVE TabLive(m, server')
    <3>1. \A q \in tab[t].refreshing : q.presented \in 1..issued
      BY <1>1 DEF TabRight
    <3>2. \A q \in tab[t].refreshing : q.answer > 0 => q.answer \in 1..issued
      BY <1>1 DEF TabRight, Waiting, Refused
    <3> QED BY <1>1, <2>4, <2>5, <2>6, <2>8, <3>1, <3>2 DEF TabLive
  <2>9. \A n \in 1..issued : Claims(m, n) => Claims(tab[t], n)
    BY <2>4, <2>6 DEF Claims
  <2>10. UNCHANGED <<expired, reloads, reused, excused>>
    BY DEF LoginAnswer
  <2>11. /\ issued' \in Id /\ issued <= issued' /\ TabRight(m, issued')
         /\ expired' \subseteq Id /\ reloads' \in Nat /\ reused' \in BOOLEAN /\ excused' \in BOOLEAN
         /\ reused' => excused'
         /\ excused => excused'
         /\ ~excused' => TabLive(m, server')
         /\ \A n \in 1..issued : server[n].state = "live" => server'[n].state = "live"
    BY <1>1, <2>1, <2>2, <2>5, <2>6, <2>7, <2>8, <2>10, ServerType
  <2> QED BY <2>2, <2>4, <2>5, <2>9, <2>11, TabStep
<1> QED BY <1>2, <1>3 DEF LoginAnswer

LEMMA ExpiryStep ==
  ASSUME ClientInv, NEW n \in 1..MaxTokens, AccessExpires(n)
  PROVE  ClientInv'
<1>1. expired' \subseteq Id
  BY ServerType, MaxTokensAssumption DEF AccessExpires, Id
<1> QED
  BY <1>1 DEF AccessExpires, ClientInv, ClientTypeOK, StorageRight, Apart, TabRight, TabLive, Claims,
     Id, Tab, Waiting, Refused

\* The request q of a tab gets its answer.
LEMMA AnsweredTab ==
  ASSUME ClientInv, NEW t \in Tabs, NEW q \in tab[t].refreshing,
         NEW a \in Id \cup {-1, -2}, Answered(t, q, a)
  PROVE  \E m \in Tab :
           /\ tab' = [tab EXCEPT ![t] = m]
           /\ m.refresh = tab[t].refresh /\ m.loggedIn = tab[t].loggedIn
           /\ m.refreshing = {[presented |-> q.presented, answer |-> a]}
<1>1. /\ tab[t] \in Tab /\ TabRight(tab[t], issued)
      /\ tab[t].refreshing \subseteq [presented: Id, answer: Id \cup {-1, -2}]
  BY TabFacts
<1> DEFINE w == [presented |-> q.presented, answer |-> a]
           m == [tab[t] EXCEPT !.refreshing = {w}]
<1>2. w \in [presented: Id, answer: Id \cup {-1, -2}]
  BY <1>1
<1>3. tab[t].refreshing = {q}
  BY <1>1 DEF TabRight
<1>4. (tab[t].refreshing \ {q}) \cup {w} = {w}
  BY <1>3
<1>5. tab' = [tab EXCEPT ![t] = m]
  <2>1. tab' = [tab EXCEPT ![t] = [tab[t] EXCEPT !.refreshing = (tab[t].refreshing \ {q}) \cup {w}]]
    BY DEF Answered
  <2> QED BY <1>4, <2>1
<1>6. m \in Tab /\ m.refresh = tab[t].refresh /\ m.loggedIn = tab[t].loggedIn /\ m.refreshing = {w}
  <2> HIDE DEF w
  <2> QED BY <1>1, <1>2 DEF Tab
<1> QED BY <1>5, <1>6

LEMMA RotateStep ==
  ASSUME ClientInv, NEW t \in Tabs, NEW q \in tab[t].refreshing, Rotate(t, q)
  PROVE  ClientInv'
<1>1. /\ tab[t] \in Tab /\ TabRight(tab[t], issued)
      /\ issued \in Id /\ issued \in Nat /\ MaxTokens \in Nat /\ tab[t].refresh \in Id
      /\ ~excused => TabLive(tab[t], server)
  BY TabFacts
<1>2. q.presented \in 1..issued /\ q.presented \in 1..MaxTokens /\ q.answer = Waiting
  BY <1>1 DEF TabRight, Rotate, Id
<1>3. Claims(tab[t], q.presented)
  BY DEF Claims
<1>4. storage' = storage /\ expired' = expired /\ reloads' = reloads
  BY DEF Rotate
<1> DEFINE k == issued + 1
<1>5. CASE server[q.presented].state = "live"
  <2>1. k \in Id /\ k \in 1..MaxTokens /\ k \in Nat /\ issued < k /\ k # 0 /\ issued' = k
    BY <1>1, <1>5 DEF Id, Rotate
  <2>2. server' = [server EXCEPT ![q.presented].state = "revoked",
                     ![k] = [state |-> "live", family |-> server[q.presented].family]]
    BY <1>5 DEF Rotate
  <2> HIDE DEF k
  <2>3. /\ server' \in [1..MaxTokens -> [state: {"none", "live", "revoked"}, family: Id]]
        /\ server'[k].state = "live"
        /\ \A n \in 1..MaxTokens : n # k /\ n # q.presented => server'[n] = server[n]
    BY <1>2, <2>1, <2>2, ServerType
  <2>4. \A n \in 1..issued : n # k /\ n \in 1..k /\ n \in 1..MaxTokens
    BY <1>1, <2>1
  <2>5. \A n \in 1..issued : server[n].state = "live" =>
          server'[n].state = "live" \/ Claims(tab[t], n)
    BY <1>3, <2>3, <2>4
  <2>6. ASSUME NEW a \in {k, Refused}, Answered(t, q, a), a = k => excused' = excused,
               a = Refused => excused' = TRUE, reused' = reused
        PROVE  ClientInv'
    <3>1. a \in Id \cup {-1, -2} /\ a # Waiting
      BY <2>1 DEF Refused, Waiting
    <3>2. PICK m \in Tab :
            /\ tab' = [tab EXCEPT ![t] = m]
            /\ m.refresh = tab[t].refresh /\ m.loggedIn = tab[t].loggedIn
            /\ m.refreshing = {[presented |-> q.presented, answer |-> a]}
      BY <2>6, <3>1, AnsweredTab
    <3>3. TabRight(m, k)
      <4>1. tab[t].refresh <= k
        BY <1>1, <2>1 DEF TabRight, Id
      <4>2. a \in {Waiting, Refused} \cup 1..k
        BY <2>1, <2>6
      <4> QED BY <1>1, <1>2, <2>4, <3>2, <4>1, <4>2 DEF TabRight
    <3>4. a = k => TabLive(m, server')
      <4>1. m.refreshing # {} /\ \A x \in m.refreshing : x.answer = a
        BY <3>2
      <4> QED BY <2>3, <3>1, <4>1 DEF TabLive
    <3>5. \A n \in 1..issued : Claims(m, n) => Claims(tab[t], n)
      <4>1. \A n \in 1..issued : n # a
        BY <2>4, <2>6 DEF Refused
      <4> QED BY <1>3, <3>2, <4>1 DEF Claims
    <3>6. Refused # k
      BY <2>1 DEF Refused
    <3>7. /\ excused' \in BOOLEAN
          /\ excused => excused'
          /\ reused' => excused'
          /\ ~excused' => a = k
      <4>1. CASE a = k
        <5>1. excused' = excused /\ reused' = reused
          BY <2>6, <4>1
        <5> QED BY <4>1, <5>1, ServerType
      <4>2. CASE a = Refused
        <5>1. excused' = TRUE
          BY <2>6, <4>2
        <5> QED BY <5>1
      <4> QED BY <4>1, <4>2
    <3>8. /\ issued' \in Id /\ issued <= issued' /\ TabRight(m, issued')
          /\ expired' \subseteq Id /\ reloads' \in Nat /\ reused' \in BOOLEAN
      BY <1>1, <1>4, <2>1, <2>6, <3>3, ServerType
    <3> QED BY <1>4, <2>3, <2>5, <3>2, <3>4, <3>5, <3>7, <3>8, TabStep
  <2>7. reused' = reused
        /\ ((Answered(t, q, k) /\ excused' = excused) \/ (Answered(t, q, Refused) /\ excused' = TRUE))
    BY <1>5 DEF Rotate, k
  <2>8. Refused # k
    BY <2>1 DEF Refused
  <2> QED BY <2>6, <2>7, <2>8
<1>6. CASE server[q.presented].state # "live"
  <2>1. excused
    BY <1>1, <1>2, <1>6 DEF TabLive
  <2>2. /\ server' = [n \in DOMAIN server |->
               IF server[n].family = server[q.presented].family
               THEN [state |-> "revoked", family |-> server[n].family] ELSE server[n]]
        /\ reused' = TRUE /\ Answered(t, q, Refused) /\ issued' = issued /\ excused' = excused
    BY <1>6 DEF Rotate
  <2>3. server' \in [1..MaxTokens -> [state: {"none", "live", "revoked"}, family: Id]]
    BY <2>2, ServerType
  <2>4. Refused \in Id \cup {-1, -2}
    BY DEF Refused
  <2>5. PICK m \in Tab :
          /\ tab' = [tab EXCEPT ![t] = m]
          /\ m.refresh = tab[t].refresh /\ m.loggedIn = tab[t].loggedIn
          /\ m.refreshing = {[presented |-> q.presented, answer |-> Refused]}
    BY <2>2, <2>4, AnsweredTab
  <2>6. TabRight(m, issued)
    BY <1>1, <1>2, <2>5 DEF TabRight
  <2>7. /\ issued' \in Id /\ issued <= issued' /\ TabRight(m, issued')
        /\ expired' \subseteq Id /\ reloads' \in Nat /\ reused' \in BOOLEAN
        /\ excused' \in BOOLEAN
    BY <1>1, <1>4, <2>2, <2>6, ServerType
  <2>8. excused'
    BY <2>1, <2>2
  <2> QED BY <1>4, <2>3, <2>5, <2>7, <2>8, TabStep
<1> QED BY <1>5, <1>6

LEMMA RotateFailsStep ==
  ASSUME ClientInv, NEW t \in Tabs, NEW q \in tab[t].refreshing, RotateFails(t, q)
  PROVE  ClientInv'
<1>1. TabRight(tab[t], issued)
  BY TabFacts
<1>2. Refused \in Id \cup {-1, -2} /\ Refused # Waiting /\ ~(Refused > 0)
  BY DEF Refused, Waiting
<1>3. PICK m \in Tab :
        /\ tab' = [tab EXCEPT ![t] = m]
        /\ m.refresh = tab[t].refresh /\ m.loggedIn = tab[t].loggedIn
        /\ m.refreshing = {[presented |-> q.presented, answer |-> Refused]}
  BY <1>2, AnsweredTab DEF RotateFails
<1>4. TabRight(m, issued)
  BY <1>1, <1>3 DEF TabRight
<1>5. TabLive(m, server)
  <2>1. m.refreshing # {} /\ \A x \in m.refreshing : x.answer = Refused
    BY <1>3
  <2> QED BY <1>2, <2>1 DEF TabLive
<1>6. \A n \in 1..issued : Claims(m, n) => Claims(tab[t], n)
  <2>1. \A n \in 1..issued : n # Refused
    BY TabFacts DEF Refused
  <2> QED BY <1>3, <2>1 DEF Claims
<1> QED BY <1>3, <1>4, <1>5, <1>6, QuietStep DEF RotateFails

LEMMA RefreshAnswerStep ==
  ASSUME ClientInv, NEW t \in Tabs, NEW q \in tab[t].refreshing, RefreshAnswer(t, q)
  PROVE  ClientInv'
<1>1. /\ tab[t] \in Tab /\ TabRight(tab[t], issued) /\ issued \in Nat /\ issued \in Id
      /\ tab[t].refreshing \subseteq [presented: Id, answer: Id \cup {-1, -2}]
  BY TabFacts
<1>2. tab[t].refreshing \ {q} = {} /\ q.answer # Waiting
  BY <1>1 DEF TabRight, RefreshAnswer
<1> DEFINE m == [tab[t] EXCEPT !.refreshing = {}]
           w == IF q.answer = Refused THEN LocalLogout(m)
                ELSE [m EXCEPT !.access = q.answer, !.refresh = q.answer]
<1>3. m \in Tab /\ m.refreshing = {} /\ m.loggedIn = tab[t].loggedIn
  BY <1>1 DEF Tab
<1>4. tab' = [tab EXCEPT ![t] = w] /\ storage' = Persisted(w)
  BY <1>2 DEF RefreshAnswer, Becomes
<1> HIDE DEF m
<1>5. CASE q.answer = Refused
  <2>1. w \in Tab /\ w.refresh = 0 /\ w.refreshing = {} /\ w.loggedIn = FALSE
    BY <1>3, <1>5, LogoutTab
  <2> HIDE DEF w
  <2>2. TabRight(w, issued) /\ TabLive(w, server)
    BY <1>1, <2>1 DEF TabRight, TabLive
  <2>3. \A n \in 1..issued : Claims(w, n) => Claims(tab[t], n)
    BY <1>1, <2>1 DEF Claims
  <2> QED BY <1>4, <2>1, <2>2, <2>3, QuietStep DEF RefreshAnswer
<1>6. CASE q.answer # Refused
  <2>1. q.answer \in 1..issued /\ q.answer \in Id
    BY <1>1, <1>2, <1>6 DEF TabRight, Id
  <2>2. w \in Tab /\ w.refresh = q.answer /\ w.refreshing = {} /\ w.loggedIn = m.loggedIn
    BY <1>3, <1>6, <2>1 DEF Tab
  <2> HIDE DEF w
  <2>3. TabRight(w, issued)
    BY <1>1, <2>1, <2>2 DEF TabRight
  <2>4. TabLive(tab[t], server) => TabLive(w, server)
    <3>1. q.answer > 0
      BY <1>1, <2>1
    <3> QED BY <2>2, <3>1 DEF TabLive
  <2>5. \A n \in 1..issued : Claims(w, n) => Claims(tab[t], n)
    BY <2>2 DEF Claims
  <2> QED BY <1>4, <2>2, <2>3, <2>4, <2>5, QuietStep DEF RefreshAnswer
<1> QED BY <1>5, <1>6

\* Every step of a tab, of the backend and of time keeps the invariant.
THEOREM ClientInductive == ClientSpec => []ClientInv
<1>1. ClientInit => ClientInv
  BY ClientStarts
<1>2. ClientInv /\ [ClientNext]_clientVars => ClientInv'
  <2> SUFFICES ASSUME ClientInv, [ClientNext]_clientVars PROVE ClientInv'
    OBVIOUS
  <2>1. CASE UNCHANGED clientVars
    BY <2>1 DEF clientVars, ClientInv, ClientTypeOK, StorageRight, Apart, TabRight, TabLive, Claims,
       Id, Tab, Waiting, Refused
  <2>2. ASSUME NEW t \in Tabs, Load(t) \/ LoginSubmit(t) \/ LoginAnswer(t) \/ Logout(t)
        PROVE  ClientInv'
    BY <2>2, LoadStep, PageSteps, LoginAnswerStep
  <2>3. ASSUME NEW t \in Tabs, RefreshStep(t) PROVE ClientInv'
    BY <2>3, RotateStep, RotateFailsStep, RefreshAnswerStep DEF RefreshStep
  <2>4. ASSUME NEW t \in Tabs, NEW c \in Calls, Call(t, c) \/ CallAnswer(t, c) PROVE ClientInv'
    BY <2>4, PageSteps, CallAnswerStep
  <2>5. ASSUME NEW n \in 1..MaxTokens, AccessExpires(n) PROVE ClientInv'
    BY <2>5, ExpiryStep
  <2> QED BY <2>1, <2>2, <2>3, <2>4, <2>5 DEF ClientNext
<1> QED BY <1>1, <1>2, PTL DEF ClientSpec

\* The client alone never sets off the reuse detection of refresh-token.handler:
\* refreshPromise and what persist writes keep every token it may present
\* live, unless an answer was lost or two tabs were given one token.
THEOREM ClientIsNotAThief == ClientSpec => []NoSelfReuse
<1>1. ClientInv => NoSelfReuse
  BY DEF ClientInv, NoSelfReuse
<1> QED BY <1>1, ClientInductive, PTL

\* ProtectedRoute's flag never outlives the refresh token, in a tab or in
\* localStorage.
THEOREM ProtectedCanRefresh == ClientSpec => []LoggedInCanRefresh
<1>1. ClientInv => LoggedInCanRefresh
  BY DEF ClientInv, LoggedInCanRefresh, TabRight, StorageRight
<1> QED BY <1>1, ClientInductive, PTL
=============================================================================
