--------------------------- MODULE AccountsLocks ---------------------------
(***************************************************************************)
(* What the row locks of Accounts achieve, for every value of the          *)
(* constants: any number of requests, accounts, sessions and links.        *)
(*                                                                         *)
(* ImplementsStore   the statements, interleaved, implement the atomic     *)
(*                   operations of CredentialStore.                        *)
(* SignOutIsComplete, OldLinksAreSpent, LogoutEndsSession                  *)
(*                   whoever signs an account out, replaces a link or logs *)
(*                   out ends everything that was live on arrival.         *)
(*                                                                         *)
(* All of them follow from LockInv: two transactions never hold the same   *)
(* row, the rows a transaction holds are still as it found them, belong to *)
(* its account, and between its snapshot, its locks and its commit the     *)
(* rows it has to end are in the snapshot, locked, or ended by another.    *)
(***************************************************************************)
EXTENDS AccountsProofs

-----------------------------------------------------------------------------
\* Statement x of the transaction of r is done.
Past(r, x) ==
    /\ phase[r] = "running"
    /\ \E k \in DOMAIN Script[op(r)] : k < pc[r] /\ Script[op(r)][k] = x

\* The endpoints that spend older links when they issue a new one, and those
\* that spend them because the password changes.
IssuingOps == {"register", "forgot_password", "update_me"}
InvalidatingOps == IssuingOps \cup {"change_password", "reset_password"}

\* Whoever runs presented a credential of the account it is about.
Owns(r) ==
    phase[r] # "idle" =>
        /\ op(r) \in SessionOps \ ModerationOps =>
              /\ jti(r) \in Jtis
              /\ sessions[jti(r)].state # "none"
              /\ sessions[jti(r)].user = uid[r]
        /\ op(r) \in TokenOps =>
              /\ call[r].tok \in Toks
              /\ tokens[call[r].tok].state # "none"
              /\ tokens[call[r].tok].user = uid[r]

\* What was there when the request arrived still is.
Remembers(r) ==
    /\ \A j \in openAt[r] : sessions[j].state # "none"
    /\ \A t \in unusedAt[r] : tokens[t].state # "none"

\* The rows a transaction has locked are still as it found them, belong to
\* its account, and are of the kinds its endpoint deals in.
Holds(r) ==
    /\ \A j \in rev[r] : sessions[j].state = "open"
                         /\ sessions[j].user = uid[r]
    /\ \A t \in spend[r] : tokens[t].state = "unused"
                           /\ tokens[t].user = uid[r]
    /\ rev[r] # {} =>
          op(r) \in {"refresh", "logout", "revoke_session"} \cup SignOutOps
    /\ op(r) = "refresh" => rev[r] \subseteq {jti(r)}
    /\ spend[r] # {} => op(r) \in TokenOps \cup InvalidatingOps
    /\ op(r) \in IssuingOps =>
          \A t \in spend[r] : tokens[t].purpose = PurposeOf(op(r))
    /\ phase[r] = "idle" => pc[r] = 1
    /\ phase[r] \in {"idle", "running"} /\ pc[r] = 1 =>
          rev[r] = {} /\ spend[r] = {}

\* What the UPDATE in progress found belongs to the account.
Found(r) ==
    /\ At(r, "RevokeJti") /\ op(r) = "revoke_session" =>
          /\ call[r].sid \in Jtis
          /\ sessions[call[r].sid].state # "none"
          /\ sessions[call[r].sid].user = uid[r]
    /\ At(r, "RevokeAll") =>
          \A j \in scan[r] : j \in Jtis /\ sessions[j].state # "none"
                                        /\ sessions[j].user = uid[r]
    /\ At(r, "Invalidate") =>
          \A t \in scan[r] : t \in Toks /\ tokens[t].state # "none"
                             /\ tokens[t].user = uid[r]
                             /\ tokens[t].purpose = PurposeOf(op(r))

\* Two transactions never hold the same row.
RowLocks ==
    \A r, s \in Requests : r # s =>
        rev[r] \cap rev[s] = {} /\ spend[r] \cap spend[s] = {}

\* The sessions a sign-out has to end, the links a request has to spend.
ToEnd(r) == {j \in openAt[r] : sessions[j].user = uid[r] /\ ~Kept(r, j)}
ToSpend(r) == {t \in unusedAt[r] : /\ tokens[t].user = uid[r]
                                   /\ tokens[t].purpose = PurposeOf(op(r))}
Replaces(r) == op(r) = "update_me" => IssuesLink(r)

\* The sign-out has found, then locked, then ended all of them.
Covers(r) ==
    /\ At(r, "RevokeAll") => \A j \in ToEnd(r) :
          j \in scan[r] \/ sessions[j].state = "revoked"
    /\ Past(r, "RevokeAll") => \A j \in ToEnd(r) :
          j \in rev[r] \/ sessions[j].state = "revoked"
    /\ op(r) \in SignOutOps /\ audit[r] # None => \A j \in ToEnd(r) :
          sessions[j].state = "revoked"

\* The same of the links.
CoversLinks(r) ==
    /\ At(r, "Invalidate") /\ Replaces(r) => \A t \in ToSpend(r) :
          t \in scan[r] \/ tokens[t].state = "used"
    /\ Past(r, "Invalidate") /\ Replaces(r) => \A t \in ToSpend(r) :
          t \in spend[r] \/ tokens[t].state = "used"
    /\ \/ op(r) \in {"change_password", "reset_password"} /\ audit[r] # None
       \/ tokens[r].state # "none"
       => \A t \in ToSpend(r) : tokens[t].state = "used"

\* A rotation and a logout end the session that was presented.
EndsOwn(r) ==
    /\ Past(r, "RevokeJti") /\ op(r) \in {"refresh", "logout"} =>
          jti(r) \in rev[r] \/ sessions[jti(r)].state = "revoked"
    /\ op(r) = "logout" =>
          /\ phase[r] # "mailing"
          /\ phase[r] = "ok" =>
                sessions[jti(r)].state = "revoked" \/ sessions[jti(r)].age > 0

ReqInv(r) ==
    /\ Owns(r) /\ Remembers(r) /\ Holds(r) /\ Found(r)
    /\ Covers(r) /\ CoversLinks(r) /\ EndsOwn(r)

LockInv == RowLocks /\ \A r \in Requests : ReqInv(r)

-----------------------------------------------------------------------------
(***************************************************************************)
(* The order of the statements in the use cases.                           *)
(***************************************************************************)
LEMMA EndpointNames ==
    Endpoints = {"register", "login", "refresh", "logout", "verify_email",
                 "forgot_password", "reset_password", "me", "update_me",
                 "change_password", "delete_me", "revoke_session",
                 "revoke_all", "revoke_others", "ban", "unban"}
BY DEF Endpoints, Script

LEMMA ScriptDomain ==
    \A o \in Endpoints : /\ Len(Script[o]) \in Nat \ {0}
                         /\ DOMAIN Script[o] = 1..Len(Script[o])
BY EndpointNames DEF Script, Authenticate, RegisterUser,
       Login, RefreshToken, Logout, VerifyEmail, ForgotPassword,
       ResetPassword, UpdateUser, ChangePassword, DeleteUser,
       RevokeUserSession, RevokeAllSessions, BanUser, UnbanUser

\* What comes right before a statement that waits for locks.
LEMMA ScriptBefore ==
    ASSUME NEW o \in Endpoints, NEW k \in DOMAIN Script[o]
    PROVE  /\ Script[o][k] = "RevokeAll" =>
                 k - 1 \in DOMAIN Script[o] /\ Script[o][k-1] = "ScanSessions"
           /\ Script[o][k] = "Invalidate" =>
                 k - 1 \in DOMAIN Script[o] /\ Script[o][k-1] = "ScanTokens"
           /\ Script[o][k] = "RevokeJti" =>
                 /\ k - 1 \in DOMAIN Script[o]
                 /\ o = "revoke_session" => Script[o][k-1] = "ReadOwnSession"
BY EndpointNames DEF Script, Authenticate, RegisterUser,
       Login, RefreshToken, Logout, VerifyEmail, ForgotPassword,
       ResetPassword, UpdateUser, ChangePassword, DeleteUser,
       RevokeUserSession, RevokeAllSessions, BanUser, UnbanUser

\* Which use cases contain a statement.
LEMMA ScriptOwners ==
    ASSUME NEW o \in Endpoints, NEW k \in DOMAIN Script[o]
    PROVE  /\ Script[o][k] = "RevokeAll" => o \in SignOutOps
           /\ Script[o][k] = "MarkUsed" => o \in TokenOps
           /\ Script[o][k] = "Invalidate" => o \in InvalidatingOps
           /\ Script[o][k] = "RevokeJti" =>
                 o \in {"refresh", "logout", "revoke_session"}
           /\ Script[o][k] = "LoginRead" => o = "login"
           /\ Script[o][k] = "ForgotRead" => o = "forgot_password"
           /\ Script[o][k] \in {"LoginRead", "ForgotRead"} => k = 1
           /\ Script[o][k] \in {"ScanSessions", "RevokeAll", "ScanTokens",
                                "Invalidate", "RevokeJti", "MarkUsed"} => k > 1
BY EndpointNames DEF SignOutOps, TokenOps, InvalidatingOps, IssuingOps,
       Script, Authenticate, RegisterUser,
       Login, RefreshToken, Logout, VerifyEmail, ForgotPassword,
       ResetPassword, UpdateUser, ChangePassword, DeleteUser,
       RevokeUserSession, RevokeAllSessions, BanUser, UnbanUser

\* What a transaction has behind it when it commits.
LEMMA ScriptCommits ==
    ASSUME NEW o \in Endpoints, NEW k \in DOMAIN Script[o],
           Script[o][k] = "Commit"
    PROVE  /\ o \in SignOutOps =>
                 \E i \in DOMAIN Script[o] : i < k /\ Script[o][i] = "RevokeAll"
           /\ o \in InvalidatingOps =>
                 \E i \in DOMAIN Script[o] :
                    i < k /\ Script[o][i] = "Invalidate"
           /\ o \in {"refresh", "logout"} =>
                 \E i \in DOMAIN Script[o] : i < k /\ Script[o][i] = "RevokeJti"
BY EndpointNames DEF SignOutOps, InvalidatingOps, IssuingOps,
       Script, Authenticate, RegisterUser,
       Login, RefreshToken, Logout, VerifyEmail, ForgotPassword,
       ResetPassword, UpdateUser, ChangePassword, DeleteUser,
       RevokeUserSession, RevokeAllSessions, BanUser, UnbanUser

\* The jump of an email verification passes none of the statements that
\* wait for sessions, a profile update that has spent the older links only
\* has its commit left, and a logout ends with its commit.
LEMMA ScriptEnds ==
    /\ \A k \in DOMAIN Script["verify_email"] :
          Script["verify_email"][k] \notin
              {"RevokeAll", "Invalidate", "RevokeJti"}
    /\ \A i, k \in DOMAIN Script["update_me"] :
          i < k /\ Script["update_me"][i] = "Invalidate" =>
              Script["update_me"][k] \in {"Commit", "Send"}
    /\ \A k \in DOMAIN Script["logout"] :
          /\ Script["logout"][k] \in {"AuthSession", "AuthUser", "Decode",
                                      "RevokeJti", "Commit"}
          /\ Script["logout"][k] # "Commit" => k + 1 <= Len(Script["logout"])
          /\ Script["logout"][k] = "Commit" => k = Len(Script["logout"])
BY DEF Script, VerifyEmail, UpdateUser, Logout

-----------------------------------------------------------------------------
(***************************************************************************)
(* How a transaction moves.                                                *)
(***************************************************************************)
\* A transaction that is still running after its statement has gone one
\* statement further, or jumped inside an email verification.
LEMMA Moves ==
    ASSUME TypeOK, NEW r \in Requests,
           Step(r) \/ Crash(r) \/ DeadlockVictim(r), phase'[r] = "running"
    PROVE  /\ Step(r) /\ phase[r] = "running"
           /\ pc[r] \in DOMAIN Script[op(r)]
           /\ pc'[r] \in DOMAIN Script[op(r)]
           /\ \/ pc'[r] = pc[r] + 1
              \/ op(r) = "verify_email" /\ pc'[r] > pc[r]
<1>0. op(r) \in Endpoints /\ pc[r] \in Nat
  BY CallFields DEF op, TypeOK
<1>1. ASSUME NEW n \in Nat \ {0}, Jump(r, n), \E x : At(r, x)
      PROVE  /\ pc[r] \in DOMAIN Script[op(r)] /\ pc'[r] = pc[r] + n
             /\ pc'[r] \in DOMAIN Script[op(r)]
  <2>1. pc[r] \in DOMAIN Script[op(r)]
    BY <1>1 DEF At
  <2>2. pc'[r] = pc[r] + n /\ ~(pc[r] + n > Len(Script[op(r)]))
    BY <1>1 DEF Jump, TypeOK
  <2>. QED BY <1>0, <2>1, <2>2, ScriptDomain
<1>2. CASE Crash(r) \/ DeadlockVictim(r)
  BY <1>2 DEF Crash, DeadlockVictim, Leave, TypeOK
<1>3. CASE Commit(r) \/ Send(r)
  BY <1>3 DEF Commit, Send, TypeOK
<1>4. CASE MarkUsed(r)
  <2>1. At(r, "MarkUsed") /\ phase[r] = "running"
    BY <1>4 DEF MarkUsed, At
  <2>2. CASE Jump(r, 3) /\ op(r) = "verify_email"
    BY <1>0, <1>1, <1>4, <2>1, <2>2 DEF Step
  <2>3. CASE Jump(r, 1)
    BY <1>1, <1>4, <2>1, <2>3 DEF Step
  <2>. QED BY <1>4, <2>2, <2>3 DEF MarkUsed
<1>5. CASE Step(r) /\ Jump(r, 1) /\ (\E x : At(r, x))
  BY <1>1, <1>5 DEF At
<1>6. CASE \/ AuthSession(r) \/ AuthUser(r) \/ RefreshReadSession(r)
           \/ ReadOwnSession(r) \/ ReadToken(r) \/ RegisterCheck(r)
           \/ CheckEmail(r) \/ Decode(r)
  <2>1. Jump(r, 1) /\ (\E x : At(r, x))
    BY <1>6 DEF TypeOK, AuthSession, AuthUser, RefreshReadSession,
              ReadOwnSession, ReadToken, RegisterCheck, CheckEmail, Decode,
              Advance, Deny, Leave
  <2>. QED BY <1>5, <1>6, <2>1 DEF Step
<1>7. CASE \/ RefreshReadUser(r) \/ ReadTokenUser(r) \/ ChangeRead(r)
           \/ UpdateRead(r) \/ DeleteRead(r) \/ BanRead(r) \/ UnbanRead(r)
           \/ LoginRead(r) \/ ForgotRead(r)
  <2>1. Jump(r, 1) /\ (\E x : At(r, x))
    BY <1>7 DEF TypeOK, RefreshReadUser, ReadTokenUser, ChangeRead,
              UpdateRead, DeleteRead, BanRead, UnbanRead, LoginRead,
              ForgotRead, Load, Advance, Deny, Leave
  <2>. QED BY <1>5, <1>7, <2>1 DEF Step
<1>8. CASE \/ Reload(r) \/ UpdateRow(r) \/ InsertUser(r)
           \/ UpdatePassword(r) \/ RevokeJti(r) \/ ScanSessions(r)
           \/ RevokeAll(r) \/ ScanTokens(r) \/ Invalidate(r)
  <2>1. Jump(r, 1) /\ (\E x : At(r, x))
    BY <1>8 DEF TypeOK, Reload, UpdateRow, InsertUser, UpdatePassword,
              RevokeJti, ScanSessions, RevokeAll, ScanTokens, Invalidate,
              Advance, Leave
  <2>. QED BY <1>5, <1>8, <2>1 DEF Step
<1>. QED BY <1>2, <1>3, <1>4, <1>6, <1>7, <1>8 DEF Step

\* Each of these statements is the only step of a transaction at its place.
LEMMA OnlyStatement ==
    ASSUME NEW r \in Requests, Step(r), phase[r] = "running"
    PROVE  /\ At(r, "ScanSessions") => ScanSessions(r)
           /\ At(r, "RevokeAll") => RevokeAll(r)
           /\ At(r, "ScanTokens") => ScanTokens(r)
           /\ At(r, "Invalidate") => Invalidate(r)
           /\ At(r, "RevokeJti") => RevokeJti(r)
           /\ At(r, "ReadOwnSession") => ReadOwnSession(r)
<1>1. \A x, y : At(r, x) /\ At(r, y) => x = y
  BY DEF At
<1>2. ~Send(r)
  BY DEF Send
<1>. QED BY <1>1, <1>2, StatementAt DEF Step

\* How a transaction gets to a statement that waits for locks.
LEMMA Arrival ==
    ASSUME TypeOK, NEW r \in Requests,
           Step(r) \/ Crash(r) \/ DeadlockVictim(r)
    PROVE  /\ At(r, "RevokeAll")' => ScanSessions(r)
           /\ At(r, "Invalidate")' => ScanTokens(r)
           /\ At(r, "RevokeJti")' /\ op(r) = "revoke_session" =>
                 ReadOwnSession(r)
<1>0. op(r) \in Endpoints /\ op(r)' = op(r)
  BY CallFields, StepKeepsCall DEF op
<1>1. ASSUME NEW x \in {"RevokeAll", "Invalidate", "RevokeJti"}, At(r, x)'
      PROVE  /\ Step(r) /\ phase[r] = "running"
             /\ pc[r] \in DOMAIN Script[op(r)] /\ pc'[r] = pc[r] + 1
             /\ pc'[r] \in DOMAIN Script[op(r)] /\ Script[op(r)][pc'[r]] = x
  <2>1. /\ phase'[r] = "running" /\ pc'[r] \in DOMAIN Script[op(r)]
        /\ Script[op(r)][pc'[r]] = x
    BY <1>0, <1>1 DEF At
  <2>. QED BY <1>1, <2>1, Moves, ScriptEnds
<1>2. ASSUME NEW x \in {"RevokeAll", "Invalidate", "RevokeJti"}, At(r, x)',
             NEW y, Script[op(r)][pc'[r] - 1] = y
      PROVE  At(r, y) /\ Step(r) /\ phase[r] = "running"
  BY <1>0, <1>1, <1>2 DEF At, TypeOK
<1>3. At(r, "RevokeAll")' => At(r, "ScanSessions")
  BY <1>0, <1>1, <1>2, ScriptBefore
<1>4. At(r, "Invalidate")' => At(r, "ScanTokens")
  BY <1>0, <1>1, <1>2, ScriptBefore
<1>5. At(r, "RevokeJti")' /\ op(r) = "revoke_session" =>
          At(r, "ReadOwnSession")
  BY <1>0, <1>1, <1>2, ScriptBefore
<1>. QED BY <1>1, <1>3, <1>4, <1>5, OnlyStatement

\* How a statement gets behind a transaction.
LEMMA Passing ==
    ASSUME TypeOK, NEW r \in Requests,
           Step(r) \/ Crash(r) \/ DeadlockVictim(r)
    PROVE  /\ Past(r, "RevokeAll")' => Past(r, "RevokeAll") \/ RevokeAll(r)
           /\ Past(r, "Invalidate")' =>
                 Past(r, "Invalidate") \/ Invalidate(r)
           /\ Past(r, "RevokeJti")' => Past(r, "RevokeJti") \/ RevokeJti(r)
<1>0. op(r) \in Endpoints /\ op(r)' = op(r) /\ pc[r] \in Nat
  BY CallFields, StepKeepsCall DEF op, TypeOK
<1>1. ASSUME NEW x \in {"RevokeAll", "Invalidate", "RevokeJti"}, Past(r, x)'
      PROVE  Past(r, x) \/ (At(r, x) /\ Step(r) /\ phase[r] = "running")
  <2>1. PICK k \in DOMAIN Script[op(r)] :
             k < pc'[r] /\ Script[op(r)][k] = x
    BY <1>0, <1>1 DEF Past
  <2>2. phase'[r] = "running"
    BY <1>1 DEF Past
  <2>3. /\ Step(r) /\ phase[r] = "running"
        /\ pc[r] \in DOMAIN Script[op(r)] /\ pc'[r] = pc[r] + 1
    BY <2>1, <2>2, Moves, ScriptEnds
  <2>4. k \in Nat
    BY <1>0, ScriptDomain
  <2>5. k < pc[r] \/ k = pc[r]
    BY <1>0, <2>1, <2>3, <2>4
  <2>. QED BY <2>1, <2>3, <2>5 DEF Past, At
<1>. QED BY <1>1, OnlyStatement

LEMMA CommitPast ==
    ASSUME TypeOK, NEW r \in Requests, Commit(r)
    PROVE  /\ op(r) \in SignOutOps => Past(r, "RevokeAll")
           /\ op(r) \in InvalidatingOps => Past(r, "Invalidate")
           /\ op(r) \in {"refresh", "logout"} => Past(r, "RevokeJti")
<1>1. op(r) \in Endpoints /\ phase[r] = "running"
      /\ pc[r] \in DOMAIN Script[op(r)] /\ Script[op(r)][pc[r]] = "Commit"
  BY CallFields DEF op, Commit, At
<1>. QED BY <1>1, ScriptCommits DEF Past

-----------------------------------------------------------------------------
(***************************************************************************)
(* LockInv is inductive.                                                   *)
(***************************************************************************)
\* What a step may do to the rows without disturbing a transaction q: rows
\* end and get older, except that those q holds stay as they are.
RowsFor(q) ==
    /\ \A j \in Jtis : sessions[j].state # "none" =>
          /\ sessions'[j].user = sessions[j].user
          /\ sessions'[j].state \in {sessions[j].state, "revoked"}
          /\ sessions'[j].age >= sessions[j].age
          /\ j \in rev[q] => sessions'[j].state = sessions[j].state
    /\ \A t \in Toks : tokens[t].state # "none" =>
          /\ tokens'[t].user = tokens[t].user
          /\ tokens'[t].purpose = tokens[t].purpose
          /\ tokens'[t].state \in {tokens[t].state, "used"}
          /\ t \in spend[q] => tokens'[t].state = tokens[t].state
    /\ tokens[q].state = "none" => tokens'[q].state = "none"

SameRequest(q) ==
    /\ call'[q] = call[q] /\ phase'[q] = phase[q] /\ pc'[q] = pc[q]
    /\ uid'[q] = uid[q] /\ snap'[q] = snap[q]
    /\ rev'[q] = rev[q] /\ spend'[q] = spend[q] /\ scan'[q] = scan[q]
    /\ openAt'[q] = openAt[q] /\ unusedAt'[q] = unusedAt[q]
    /\ audit'[q] = audit[q]

LEMMA ReqTypes ==
    ASSUME TypeInv, NEW q \in Requests
    PROVE  /\ rev[q] \subseteq Jtis /\ spend[q] \subseteq Toks
           /\ openAt[q] \subseteq Jtis /\ unusedAt[q] \subseteq Toks
           /\ q \in Jtis /\ q \in Toks
BY DEF TypeInv, TypeOK, Jtis, Toks

\* A request that does not move keeps its part of the invariant.
LEMMA Frame ==
    ASSUME TypeInv, TypeInv', NEW q \in Requests, RowsFor(q), SameRequest(q),
           ReqInv(q)
    PROVE  ReqInv(q)'
<1>0. /\ op(q)' = op(q) /\ jti(q)' = jti(q)
      /\ \A x : At(q, x)' = At(q, x) /\ Past(q, x)' = Past(q, x)
      /\ IssuesLink(q)' = IssuesLink(q) /\ Replaces(q)' = Replaces(q)
      /\ \A j : Kept(q, j)' = Kept(q, j)
  BY DEF SameRequest, op, jti, At, Past, IssuesLink, Replaces, Kept
<1>1. Owns(q)'
  BY <1>0 DEF ReqInv, Owns, RowsFor, SameRequest
<1>2. Remembers(q)'
  BY ReqTypes DEF ReqInv, Remembers, RowsFor, SameRequest
<1>3. Holds(q)'
  BY <1>0, ReqTypes DEF ReqInv, Holds, RowsFor, SameRequest
<1>4. Found(q)'
  BY <1>0 DEF ReqInv, Found, RowsFor, SameRequest
<1>5. Covers(q)'
  <2>1. ToEnd(q)' = ToEnd(q)
    BY <1>0, ReqTypes DEF ReqInv, Remembers, ToEnd, RowsFor, SameRequest
  <2>2. \A j \in ToEnd(q) : j \in Jtis /\ sessions[j].state # "none"
    BY ReqTypes DEF ToEnd, ReqInv, Remembers
  <2>. QED BY <1>0, <2>1, <2>2 DEF ReqInv, Covers, RowsFor, SameRequest
<1>6. CoversLinks(q)'
  <2>1. ToSpend(q)' = ToSpend(q)
    BY <1>0, ReqTypes DEF ReqInv, Remembers, ToSpend, RowsFor, SameRequest
  <2>2. \A t \in ToSpend(q) : t \in Toks /\ tokens[t].state # "none"
    BY ReqTypes DEF ToSpend, ReqInv, Remembers
  <2>. QED BY <1>0, <2>1, <2>2 DEF ReqInv, CoversLinks, RowsFor, SameRequest
<1>7. EndsOwn(q)'
  <2>1. Past(q, "RevokeJti") \/ phase[q] = "ok" => phase[q] # "idle"
    BY DEF Past
  <2>2. op(q) \in {"refresh", "logout"} /\ phase[q] # "idle" =>
           /\ jti(q) \in Jtis /\ sessions[jti(q)].state # "none"
    BY DEF ReqInv, Owns, SessionOps, ModerationOps, Endpoints, Script
  <2>3. \A j \in Jtis : sessions[j].age \in Nat /\ sessions'[j].age \in Nat
    <3>1. \A j \in Jtis : sessions[j] \in SessionRow
                          /\ sessions'[j] \in SessionRow
      BY DEF TypeInv, TypeOK
    <3>. QED BY <3>1 DEF SessionRow
  <2>. QED BY <1>0, <2>1, <2>2, <2>3 DEF ReqInv, EndsOwn, RowsFor, SameRequest
<1>. QED BY <1>1, <1>2, <1>3, <1>4, <1>5, <1>6, <1>7 DEF ReqInv

\* The entity of a request is changed by its own reads only, and from the
\* statement that stages the spent links on it is left alone.
LEMMA StepEntities ==
    ASSUME TypeOK, NEW r \in Requests,
           Step(r) \/ Crash(r) \/ DeadlockVictim(r)
    PROVE  \A q \in Requests \ {r} : snap'[q] = snap[q] /\ base'[q] = base[q]
<1>1. CASE Crash(r) \/ DeadlockVictim(r) \/ Commit(r) \/ Send(r)
  BY <1>1 DEF TypeOK, Crash, DeadlockVictim, Commit, Send, Leave, Discard,
              entity
<1>2. CASE \/ AuthSession(r) \/ AuthUser(r) \/ RefreshReadSession(r)
           \/ ReadOwnSession(r) \/ ReadToken(r) \/ RegisterCheck(r)
           \/ CheckEmail(r) \/ Decode(r)
  BY <1>2 DEF TypeOK, AuthSession, AuthUser, RefreshReadSession,
              ReadOwnSession, ReadToken, RegisterCheck, CheckEmail, Decode,
              Deny, Leave, Discard, entity
<1>3. CASE \/ RefreshReadUser(r) \/ ReadTokenUser(r) \/ ChangeRead(r)
           \/ UpdateRead(r) \/ DeleteRead(r) \/ BanRead(r) \/ UnbanRead(r)
           \/ LoginRead(r) \/ ForgotRead(r)
  BY <1>3 DEF TypeOK, RefreshReadUser, ReadTokenUser, ChangeRead, UpdateRead,
              DeleteRead, BanRead, UnbanRead, LoginRead, ForgotRead, Load,
              Deny, Leave, Discard, entity
<1>4. CASE \/ Reload(r) \/ UpdateRow(r) \/ InsertUser(r)
           \/ UpdatePassword(r) \/ RevokeJti(r) \/ ScanSessions(r)
           \/ RevokeAll(r) \/ MarkUsed(r) \/ ScanTokens(r) \/ Invalidate(r)
  BY <1>4 DEF TypeOK, Reload, UpdateRow, InsertUser, UpdatePassword,
              RevokeJti, ScanSessions, RevokeAll, MarkUsed, ScanTokens,
              Invalidate, Leave, Discard, entity
<1>. QED BY <1>1, <1>2, <1>3, <1>4 DEF Step

\* The account of a request is found by a login or a reset request at its
\* first statement and never changes otherwise.
LEMMA StepSubject ==
    ASSUME TypeOK, NEW r \in Requests,
           Step(r) \/ Crash(r) \/ DeadlockVictim(r)
    PROVE  \/ UNCHANGED uid
           \/ /\ op(r) \in {"login", "forgot_password"} /\ pc[r] = 1
              /\ UNCHANGED <<rev, spend>>
              /\ LoginRead(r) \/ ForgotRead(r)
<1>0. op(r) \in Endpoints
  BY CallFields DEF op
<1>1. CASE Crash(r) \/ DeadlockVictim(r) \/ Commit(r) \/ Send(r)
  BY <1>1 DEF Crash, DeadlockVictim, Commit, Send, Leave, request
<1>2. CASE \/ AuthSession(r) \/ AuthUser(r) \/ RefreshReadSession(r)
           \/ ReadOwnSession(r) \/ ReadToken(r) \/ RegisterCheck(r)
           \/ CheckEmail(r) \/ Decode(r)
  BY <1>2 DEF AuthSession, AuthUser, RefreshReadSession,
              ReadOwnSession, ReadToken, RegisterCheck, CheckEmail, Decode,
              Deny, Leave, request
<1>3. CASE \/ RefreshReadUser(r) \/ ReadTokenUser(r) \/ ChangeRead(r)
           \/ UpdateRead(r) \/ DeleteRead(r) \/ BanRead(r) \/ UnbanRead(r)
  BY <1>3 DEF RefreshReadUser, ReadTokenUser, ChangeRead, UpdateRead,
              DeleteRead, BanRead, UnbanRead, Deny, Leave, request
<1>4. CASE LoginRead(r) \/ ForgotRead(r)
  <2>1. op(r) \in {"login", "forgot_password"} /\ pc[r] = 1
    BY <1>0, <1>4, StatementAt, ScriptOwners DEF At
  <2>2. UNCHANGED uid \/ UNCHANGED <<rev, spend>>
    BY <1>4 DEF LoginRead, ForgotRead, Load, Leave, staged, request
  <2>. QED BY <1>4, <2>1, <2>2
<1>5. CASE \/ Reload(r) \/ UpdateRow(r) \/ InsertUser(r)
           \/ UpdatePassword(r) \/ RevokeJti(r) \/ ScanSessions(r)
           \/ RevokeAll(r) \/ MarkUsed(r) \/ ScanTokens(r) \/ Invalidate(r)
  BY <1>5 DEF Reload, UpdateRow, InsertUser, UpdatePassword,
              RevokeJti, ScanSessions, RevokeAll, MarkUsed, ScanTokens,
              Invalidate, Leave, request
<1>. QED BY <1>1, <1>2, <1>3, <1>4, <1>5 DEF Step

\* What a statement adds to the rows its transaction holds.
LEMMA StepStages ==
    ASSUME TypeOK, NEW r \in Requests,
           Step(r) \/ Crash(r) \/ DeadlockVictim(r)
    PROVE  \/ /\ rev'[r] \in {rev[r], {}}
              /\ spend'[r] \in {spend[r], {}}
              /\ phase'[r] = "running" =>
                    rev'[r] = rev[r] /\ spend'[r] = spend[r]
           \/ RevokeJti(r) \/ RevokeAll(r) \/ MarkUsed(r) \/ Invalidate(r)
<1>1. CASE Crash(r) \/ DeadlockVictim(r) \/ Commit(r) \/ Send(r)
  BY <1>1 DEF TypeOK, Crash, DeadlockVictim, Commit, Send, Leave, Discard,
              staged
<1>2. CASE \/ AuthSession(r) \/ AuthUser(r) \/ RefreshReadSession(r)
           \/ ReadOwnSession(r) \/ ReadToken(r) \/ RegisterCheck(r)
           \/ CheckEmail(r) \/ Decode(r)
  BY <1>2 DEF TypeOK, AuthSession, AuthUser, RefreshReadSession,
              ReadOwnSession, ReadToken, RegisterCheck, CheckEmail, Decode,
              Deny, Leave, Discard, staged
<1>3. CASE \/ RefreshReadUser(r) \/ ReadTokenUser(r) \/ ChangeRead(r)
           \/ UpdateRead(r) \/ DeleteRead(r) \/ BanRead(r) \/ UnbanRead(r)
           \/ LoginRead(r) \/ ForgotRead(r)
  BY <1>3 DEF TypeOK, RefreshReadUser, ReadTokenUser, ChangeRead, UpdateRead,
              DeleteRead, BanRead, UnbanRead, LoginRead, ForgotRead, Load,
              Deny, Leave, Discard, staged
<1>4. CASE \/ Reload(r) \/ UpdateRow(r) \/ InsertUser(r)
           \/ UpdatePassword(r) \/ ScanSessions(r) \/ ScanTokens(r)
  BY <1>4 DEF TypeOK, Reload, UpdateRow, InsertUser, UpdatePassword,
              ScanSessions, ScanTokens, Leave, Discard, staged
<1>. QED BY <1>1, <1>2, <1>3, <1>4 DEF Step

LEMMA RowsSame ==
    ASSUME TypeOK, UNCHANGED <<sessions, tokens>>, NEW q \in Requests
    PROVE  RowsFor(q)
<1>1. \A j \in Jtis : sessions[j].age \in Nat
  <2>1. \A j \in Jtis : sessions[j] \in SessionRow
    BY DEF TypeOK
  <2>. QED BY <2>1 DEF SessionRow
<1>. QED BY <1>1 DEF RowsFor

LEMMA LockStart ==
    ASSUME RowInv, TypeInv', LockInv, NEW r \in Requests, NEW c \in Calls,
           Start(r, c)
    PROVE  LockInv'
<1>0. /\ TypeInv /\ TypeOK /\ Minting /\ MailedExist /\ ReqInv(r) /\ c \in Call
      /\ c.op \in Endpoints
  BY CallsAssumption DEF RowInv, TypeInv, LockInv, Call
<1>1. /\ phase[r] = "idle" /\ Presentable(c)
      /\ call' = [call EXCEPT ![r] = c]
      /\ uid' = [uid EXCEPT ![r] = Subject(r, c)]
      /\ phase' = [phase EXCEPT ![r] = "running"]
      /\ openAt' = [openAt EXCEPT ![r] =
                     {j \in Jtis : sessions[j].state = "open"}]
      /\ unusedAt' = [unusedAt EXCEPT ![r] =
                     {t \in Toks : tokens[t].state = "unused"}]
      /\ UNCHANGED <<users, sessions, tokens, audit, mailed, pc, snap, base,
                     write, rev, spend, scan>>
  BY DEF Start, tables, entity, staged
<1>2. RowLocks'
  BY <1>1 DEF LockInv, RowLocks
<1>3. ASSUME NEW q \in Requests, q # r PROVE ReqInv(q)'
  <2>1. SameRequest(q)
    BY <1>0, <1>1, <1>3 DEF SameRequest, TypeOK
  <2>2. RowsFor(q) /\ ReqInv(q)
    BY <1>0, <1>1, RowsSame DEF LockInv
  <2>. QED BY <1>0, <2>1, <2>2, Frame
<1>4. ReqInv(r)'
  <2>1. /\ op(r)' = c.op /\ jti(r)' = c.jti /\ call'[r] = c
        /\ uid'[r] = Subject(r, c) /\ phase'[r] = "running" /\ pc'[r] = 1
        /\ rev'[r] = {} /\ spend'[r] = {}
        /\ openAt'[r] = {j \in Jtis : sessions[j].state = "open"}
        /\ unusedAt'[r] = {t \in Toks : tokens[t].state = "unused"}
        /\ audit'[r] = None /\ tokens'[r].state = "none"
    BY <1>0, <1>1 DEF TypeOK, op, jti, ReqInv, Holds, Minting
  <2>2. /\ ~At(r, "RevokeAll")' /\ ~At(r, "Invalidate")'
        /\ ~At(r, "RevokeJti")'
    BY <1>0, <2>1, ScriptOwners DEF At
  <2>3. \A x : ~Past(r, x)'
    BY <1>0, <2>1, ScriptDomain DEF Past
  <2>4. Owns(r)'
    <3>1. c.op \in SessionOps \ ModerationOps =>
             c.op \notin TokenOps /\ Subject(r, c) = sessions[c.jti].user
      BY DEF Subject, SessionOps, TokenOps
    <3>2. c.op \in TokenOps => Subject(r, c) = tokens[c.tok].user
      BY DEF Subject, SessionOps, TokenOps, ModerationOps
    <3>3. mailed \subseteq Toks
      BY <1>0 DEF TypeOK
    <3>. QED BY <1>0, <1>1, <2>1, <3>1, <3>2, <3>3
            DEF Owns, Presentable, MailedExist
  <2>5. Remembers(r)'
    BY <1>1, <2>1 DEF Remembers
  <2>6. Holds(r)' /\ Found(r)' /\ Covers(r)' /\ CoversLinks(r)' /\ EndsOwn(r)'
    BY <2>1, <2>2, <2>3 DEF Holds, Found, Covers, CoversLinks, EndsOwn
  <2>. QED BY <2>4, <2>5, <2>6 DEF ReqInv
<1>. QED BY <1>2, <1>3, <1>4 DEF LockInv

LEMMA LockAging ==
    ASSUME RowInv, TypeInv', LockInv,
           \/ \E j \in Jtis : SessionAges(j)
           \/ \E t \in Toks : TokenExpires(t)
    PROVE  LockInv'
<1>0. TypeInv /\ TypeOK
  BY DEF RowInv, TypeInv
<1>1. UNCHANGED <<audit, phase, pc, snap, rev, spend, scan, call, uid, openAt,
                  unusedAt>>
  BY <1>0, AgingRows DEF entity, staged, request
<1>2. RowLocks'
  BY <1>1 DEF LockInv, RowLocks
<1>3. ASSUME NEW q \in Requests PROVE ReqInv(q)'
  <2>1. SameRequest(q)
    BY <1>1 DEF SameRequest
  <2>2. RowsFor(q)
    BY <1>0, AgingRows DEF RowsFor, Toks
  <2>. QED BY <1>0, <2>1, <2>2, Frame DEF LockInv
<1>. QED BY <1>2, <1>3 DEF LockInv

LEMMA LockCommit ==
    ASSUME RowInv, TypeInv', LockInv, NEW r \in Requests, Commit(r)
    PROVE  LockInv'
<1>0. /\ TypeInv /\ TypeOK /\ Minting /\ StagedExist /\ ReqInv(r)
      /\ r \in Jtis /\ r \in Toks
  BY DEF RowInv, TypeInv, LockInv, Jtis, Toks
<1>1. RowLocks'
  BY <1>0, CommitRows DEF LockInv, RowLocks
<1>2. ASSUME NEW q \in Requests, q # r PROVE ReqInv(q)'
  <2>1. SameRequest(q)
    BY <1>0, <1>2, CommitRows, StepEntities DEF SameRequest, Step
  <2>2. RowsFor(q)
    <3>1. rev[q] \cap rev[r] = {} /\ spend[q] \cap spend[r] = {}
      BY <1>2 DEF LockInv, RowLocks
    <3>2. ASSUME NEW j \in Jtis, sessions[j].state # "none"
          PROVE  /\ sessions'[j].user = sessions[j].user
                 /\ sessions'[j].state \in {sessions[j].state, "revoked"}
                 /\ sessions'[j].age >= sessions[j].age
                 /\ j \in rev[q] => sessions'[j].state = sessions[j].state
      <4>1. sessions[j] \in SessionRow
        BY <1>0 DEF TypeOK
      <4>2. sessions[j].age \in Nat
        BY <4>1 DEF SessionRow
      <4>3. j # r
        BY <1>0, <3>2, CommitRows DEF Minting
      <4>. QED BY <1>0, <3>1, <3>2, <4>2, <4>3, CommitRows
    <3>3. ASSUME NEW t \in Toks, tokens[t].state # "none"
          PROVE  /\ tokens'[t].user = tokens[t].user
                 /\ tokens'[t].purpose = tokens[t].purpose
                 /\ tokens'[t].state \in {tokens[t].state, "used"}
                 /\ t \in spend[q] => tokens'[t].state = tokens[t].state
      <4>1. t # r
        BY <1>0, <3>3, CommitRows DEF Minting
      <4>. QED BY <1>0, <3>1, <3>3, <4>1, CommitRows
    <3>4. tokens[q].state = "none" => tokens'[q].state = "none"
      BY <1>0, <1>2, CommitRows DEF StagedExist, Toks
    <3>. QED BY <3>2, <3>3, <3>4 DEF RowsFor
  <2>. QED BY <1>0, <2>1, <2>2, Frame DEF LockInv
<1>3. ReqInv(r)'
  <2>1. /\ op(r)' = op(r) /\ jti(r)' = jti(r) /\ call'[r] = call[r]
        /\ uid'[r] = uid[r] /\ openAt'[r] = openAt[r]
        /\ unusedAt'[r] = unusedAt[r] /\ phase'[r] \in {"ok", "mailing"}
        /\ rev'[r] = {} /\ spend'[r] = {} /\ phase[r] = "running"
    BY <1>0, CommitRows DEF op, jti
  <2>2. \A x : ~At(r, x)' /\ ~Past(r, x)'
    BY <2>1 DEF At, Past
  <2>3. Owns(r)'
    BY <1>0, <2>1, CommitRows DEF ReqInv, Owns
  <2>4. Remembers(r)'
    BY <1>0, <2>1, ReqTypes, CommitRows DEF ReqInv, Remembers
  <2>5. Holds(r)' /\ Found(r)'
    BY <2>1, <2>2 DEF Holds, Found
  <2>6. Covers(r)'
    <3>1. ToEnd(r)' = ToEnd(r)
      BY <1>0, <2>1, ReqTypes, CommitRows DEF ToEnd, ReqInv, Remembers, Kept
    <3>2. op(r) \in SignOutOps => \A j \in ToEnd(r) :
             j \in rev[r] \/ sessions[j].state = "revoked"
      BY <1>0, CommitPast DEF ReqInv, Covers
    <3>3. \A j \in ToEnd(r) : j \in Jtis
      BY <1>0, ReqTypes DEF ToEnd
    <3>. QED BY <1>0, <2>1, <2>2, <3>1, <3>2, <3>3, CommitRows DEF Covers
  <2>7. CoversLinks(r)'
    <3>1. ToSpend(r)' = ToSpend(r)
      BY <1>0, <2>1, ReqTypes, CommitRows DEF ToSpend, ReqInv, Remembers
    <3>2. r \notin spend[r] /\ tokens[r].state = "none"
      BY <1>0, <2>1 DEF StagedExist, Minting
    <3>3. tokens'[r].state # "none" => IssuesLink(r)
      BY <1>0, <3>2 DEF Commit, TokenAfter
    <3>4. IssuesLink(r) => op(r) \in IssuingOps /\ Replaces(r)
      BY DEF IssuesLink, Replaces, IssuingOps
    <3>5. op(r) \in {"change_password", "reset_password"} => Replaces(r)
      BY DEF Replaces
    <3>6. op(r) \in InvalidatingOps /\ Replaces(r) => \A t \in ToSpend(r) :
             t \in spend[r] \/ tokens[t].state = "used"
      BY <1>0, CommitPast DEF ReqInv, CoversLinks
    <3>7. \A t \in ToSpend(r) : t \in Toks
      BY <1>0, ReqTypes DEF ToSpend
    <3>. QED BY <1>0, <2>1, <2>2, <3>1, <3>3, <3>4, <3>5, <3>6, <3>7,
                CommitRows DEF CoversLinks, InvalidatingOps
  <2>8. EndsOwn(r)'
    <3>1. op(r) = "logout" => pc[r] = Len(Script[op(r)])
      BY ScriptEnds DEF Commit, At
    <3>2. op(r) = "logout" => phase'[r] = "ok"
      BY <1>0, <3>1 DEF Commit, TypeOK
    <3>3. op(r) = "logout" =>
             /\ jti(r) \in Jtis
             /\ jti(r) \in rev[r] \/ sessions[jti(r)].state = "revoked"
      <4>1. op(r) = "logout" => op(r) \in SessionOps \ ModerationOps
        BY DEF SessionOps, ModerationOps, Endpoints, Script
      <4>. QED BY <1>0, <2>1, <4>1, CommitPast DEF ReqInv, Owns, EndsOwn
    <3>. QED BY <1>0, <2>1, <2>2, <3>2, <3>3, CommitRows DEF EndsOwn
  <2>. QED BY <2>3, <2>4, <2>5, <2>6, <2>7, <2>8 DEF ReqInv
<1>. QED BY <1>1, <1>2, <1>3 DEF LockInv

\* Where a transaction stands when it finds its account, nothing is locked
\* and no scan is behind it or ahead.
LEMMA FirstMove ==
    ASSUME TypeOK, NEW r \in Requests, pc[r] = 1
    PROVE  /\ \A x : ~Past(r, x)
           /\ ~ScanSessions(r) /\ ~ScanTokens(r) /\ ~RevokeAll(r)
           /\ ~Invalidate(r) /\ ~RevokeJti(r) /\ ~MarkUsed(r)
<1>1. op(r) \in Endpoints
  BY CallFields DEF op
<1>2. \A x : ~Past(r, x)
  BY <1>1, ScriptDomain DEF Past
<1>3. \A x \in {"ScanSessions", "RevokeAll", "ScanTokens", "Invalidate",
                "RevokeJti", "MarkUsed"} : ~At(r, x)
  BY <1>1, ScriptOwners DEF At
<1>. QED BY <1>2, <1>3, StatementAt

LEMMA LockStatement ==
    ASSUME RowInv, TypeInv', LockInv, NEW r \in Requests,
           Step(r) \/ Crash(r) \/ DeadlockVictim(r), ~Commit(r)
    PROVE  LockInv'
<1>0. /\ TypeInv /\ TypeOK /\ Minting /\ ReqInv(r) /\ op(r) \in Endpoints
      /\ op(r)' = op(r) /\ jti(r)' = jti(r) /\ call'[r] = call[r]
      /\ openAt'[r] = openAt[r] /\ unusedAt'[r] = unusedAt[r]
      /\ UNCHANGED <<sessions, tokens>>
      /\ phase'[r] # "idle" /\ phase[r] # "idle"
  BY StepKeepsCall, StepEffects, CallFields DEF RowInv, TypeInv, LockInv, op,
     jti
<1>0a. \/ rev'[r] \in {rev[r], {}} /\ spend'[r] \in {spend[r], {}}
       \/ RevokeJti(r) \/ RevokeAll(r) \/ MarkUsed(r) \/ Invalidate(r)
  BY <1>0, StepStages
<1>0b. RevokeJti(r) =>
         /\ op(r) \in {"refresh", "logout", "revoke_session"} /\ Unblocked(r)
         /\ rev'[r] = rev[r] \cup {j \in Jtis : j = RevokeTarget(r) /\
                                                 sessions[j].state = "open"}
         /\ UNCHANGED <<uid, snap, spend>> /\ At(r, "RevokeJti")
  BY <1>0, ScriptOwners DEF RevokeJti, At, TypeOK, entity, request
<1>0c. RevokeAll(r) =>
         /\ op(r) \in SignOutOps /\ Unblocked(r)
         /\ rev'[r] = rev[r] \cup {j \in Jtis : j \in scan[r] /\
                                                 sessions[j].state = "open"}
         /\ UNCHANGED <<uid, snap, spend>> /\ At(r, "RevokeAll")
  BY <1>0, ScriptOwners DEF RevokeAll, At, TypeOK, entity, request
<1>0d. MarkUsed(r) =>
         /\ op(r) \in TokenOps /\ Unblocked(r)
         /\ spend'[r] = spend[r] \cup {t \in Toks : t = call[r].tok /\
                                             tokens[t].state = "unused"}
         /\ UNCHANGED <<uid, snap, rev>> /\ At(r, "MarkUsed")
  BY <1>0, ScriptOwners DEF MarkUsed, At, TypeOK, entity, request
<1>0e. Invalidate(r) =>
         /\ op(r) \in InvalidatingOps /\ Unblocked(r)
         /\ spend'[r] = spend[r] \cup {t \in Toks : t \in scan[r] /\
                                             tokens[t].state = "unused"}
         /\ UNCHANGED <<uid, snap, rev>> /\ At(r, "Invalidate")
  BY <1>0, ScriptOwners DEF Invalidate, At, TypeOK, entity, request
<1>0f. phase'[r] = "running" => rev[r] \subseteq rev'[r]
                                /\ spend[r] \subseteq spend'[r]
  BY <1>0, <1>0b, <1>0c, <1>0d, <1>0e, StepStages
<1>1. RowLocks'
  <2>1. ASSUME NEW s \in Requests, s # r
        PROVE  rev'[r] \cap rev[s] = {} /\ spend'[r] \cap spend[s] = {}
    <3>1. rev[r] \cap rev[s] = {} /\ spend[r] \cap spend[s] = {}
      BY <2>1 DEF LockInv, RowLocks
    <3>2. RevokeJti(r) => RevokeTarget(r) \notin rev[s]
      BY <1>0b, <2>1 DEF Unblocked, Conflict
    <3>3. RevokeAll(r) => scan[r] \cap rev[s] = {}
      BY <1>0c, <2>1 DEF Unblocked, Conflict
    <3>4. MarkUsed(r) => call[r].tok \notin spend[s]
      BY <1>0d, <2>1 DEF Unblocked, Conflict
    <3>5. Invalidate(r) => scan[r] \cap spend[s] = {}
      BY <1>0e, <2>1 DEF Unblocked, Conflict
    <3>. QED BY <1>0a, <1>0b, <1>0c, <1>0d, <1>0e,
                <3>1, <3>2, <3>3, <3>4, <3>5
  <2>2. \A s \in Requests \ {r} : rev'[s] = rev[s] /\ spend'[s] = spend[s]
    BY <1>0, StepEffects
  <2>. QED BY <2>1, <2>2 DEF LockInv, RowLocks
<1>2. ASSUME NEW q \in Requests, q # r PROVE ReqInv(q)'
  <2>1. SameRequest(q)
    BY <1>0, <1>2, StepEffects, StepEntities, StepKeepsCall
       DEF SameRequest, TypeOK
  <2>2. RowsFor(q)
    BY <1>0, RowsSame
  <2>. QED BY <1>0, <2>1, <2>2, Frame DEF LockInv
<1>3. ReqInv(r)'
  <2>0. \/ uid'[r] = uid[r]
        \/ /\ op(r) \in {"login", "forgot_password"} /\ pc[r] = 1
           /\ rev'[r] = {} /\ spend'[r] = {} /\ phase[r] = "running"
    <3>1. LoginRead(r) \/ ForgotRead(r) => phase[r] = "running"
      BY StatementAt DEF At
    <3>. QED BY <1>0, <3>1, StepSubject DEF ReqInv, Holds
  <2>1. Owns(r)'
    <3>1. {"login", "forgot_password"} \cap (SessionOps \cup TokenOps) = {}
      BY DEF SessionOps, TokenOps
    <3>. QED BY <1>0, <2>0, <3>1 DEF ReqInv, Owns
  <2>2. Remembers(r)'
    BY <1>0 DEF ReqInv, Remembers
  <2>3. Holds(r)'
    <3>1. phase'[r] = "running" => pc'[r] # 1
      <4>1. DOMAIN Script[op(r)] = 1..Len(Script[op(r)])
            /\ Len(Script[op(r)]) \in Nat
        BY <1>0, ScriptDomain
      <4>. QED BY <1>0, <4>1, Moves
    <3>2. CASE rev'[r] \in {rev[r], {}} /\ spend'[r] \in {spend[r], {}}
      BY <1>0, <2>0, <3>1, <3>2 DEF ReqInv, Holds
    <3>3. CASE RevokeJti(r)
      <4>1. \A j \in Jtis : j = RevokeTarget(r) => sessions[j].user = uid[r]
        <5>1. {"refresh", "logout"} \subseteq SessionOps \ ModerationOps
          BY DEF SessionOps, ModerationOps, Endpoints, Script
        <5>. QED BY <1>0, <1>0b, <3>3, <5>1
                DEF ReqInv, Owns, Found, RevokeTarget
      <4>. QED BY <1>0, <1>0b, <3>1, <3>3, <4>1
              DEF ReqInv, Holds, RevokeTarget, SignOutOps
    <3>4. CASE RevokeAll(r)
      BY <1>0, <1>0c, <3>1, <3>4 DEF ReqInv, Holds, Found, SignOutOps
    <3>5. CASE MarkUsed(r)
      BY <1>0, <1>0d, <3>1, <3>5 DEF ReqInv, Holds, Owns, TokenOps, IssuingOps
    <3>6. CASE Invalidate(r)
      BY <1>0, <1>0e, <3>1, <3>6 DEF ReqInv, Holds, Found
    <3>. QED BY <1>0a, <3>2, <3>3, <3>4, <3>5, <3>6
  <2>4. Found(r)'
    <3>1. At(r, "RevokeJti")' /\ op(r) = "revoke_session" =>
             /\ call[r].sid \in Jtis
             /\ sessions[call[r].sid].state # "none"
             /\ sessions[call[r].sid].user = uid'[r]
      <4>1. ReadOwnSession(r) /\ phase'[r] = "running" =>
               /\ call[r].sid \in Jtis
               /\ sessions[call[r].sid].state # "none"
               /\ sessions[call[r].sid].user = uid'[r]
        BY <1>0 DEF ReadOwnSession, Deny, Leave, TypeOK, request
      <4>. QED BY <1>0, <4>1, Arrival DEF At
    <3>2. ScanSessions(r) => \A j \in scan'[r] :
             j \in Jtis /\ sessions[j].state # "none"
                        /\ sessions[j].user = uid'[r]
      BY <1>0 DEF ScanSessions, TypeOK, request
    <3>3. ScanTokens(r) => \A t \in scan'[r] :
             t \in Toks /\ tokens[t].state # "none"
                        /\ tokens[t].user = uid'[r]
                        /\ tokens[t].purpose = PurposeOf(op(r))
      BY <1>0 DEF ScanTokens, TypeOK, request
    <3>. QED BY <1>0, <3>1, <3>2, <3>3, Arrival DEF Found
  <2>5. Covers(r)'
    <3>0. uid'[r] = uid[r] \/ ~(\/ At(r, "RevokeAll")' \/ op(r) \in SignOutOps
                                \/ Past(r, "RevokeAll")')
      BY <1>0, <2>0, Arrival, Passing, FirstMove DEF SignOutOps
    <3>1. uid'[r] = uid[r] => ToEnd(r)' = ToEnd(r)
      BY <1>0 DEF ToEnd, Kept
    <3>2. \A j \in ToEnd(r) : /\ j \in Jtis
                              /\ sessions[j].state \in {"open", "revoked"}
                              /\ sessions[j].user = uid[r] /\ ~Kept(r, j)
      <4>1. \A j \in ToEnd(r) : /\ j \in Jtis /\ sessions[j].state # "none"
                                /\ sessions[j].user = uid[r] /\ ~Kept(r, j)
        BY <1>0, ReqTypes DEF ToEnd, ReqInv, Remembers
      <4>2. \A j \in Jtis : sessions[j] \in SessionRow
        BY <1>0 DEF TypeOK
      <4>. QED BY <4>1, <4>2 DEF SessionRow
    <3>3. ScanSessions(r) => \A j \in ToEnd(r) :
             j \in scan'[r] \/ sessions[j].state = "revoked"
      BY <1>0, <3>2 DEF ScanSessions, TypeOK, Kept
    <3>4. RevokeAll(r) => \A j \in ToEnd(r) :
             j \in rev'[r] \/ sessions[j].state = "revoked"
      BY <1>0, <1>0c, <3>2 DEF ReqInv, Covers
    <3>5. Past(r, "RevokeAll")' /\ Past(r, "RevokeAll") =>
             \A j \in ToEnd(r) : j \in rev'[r] \/ sessions[j].state = "revoked"
      BY <1>0, <1>0f DEF ReqInv, Covers, Past
    <3>6. op(r) \in SignOutOps => audit'[r] = audit[r]
      <4>1. At(r, "LoginRead") => op(r) = "login"
        BY <1>0, ScriptOwners DEF At
      <4>. QED BY <1>0, <4>1, StepEffects DEF SignOutOps
    <3>. QED BY <1>0, <3>0, <3>1, <3>3, <3>4, <3>5, <3>6, Arrival, Passing
            DEF ReqInv, Covers
  <2>6. CoversLinks(r)'
    <3>0. \/ uid'[r] = uid[r]
          \/ ~(\/ At(r, "Invalidate")' \/ Past(r, "Invalidate")'
               \/ op(r) \in {"change_password", "reset_password"}
               \/ tokens[r].state # "none")
      BY <1>0, <2>0, Arrival, Passing, FirstMove DEF Minting
    <3>1. uid'[r] = uid[r] => ToSpend(r)' = ToSpend(r)
      BY <1>0 DEF ToSpend
    <3>2. \A t \in ToSpend(r) : /\ t \in Toks
                                /\ tokens[t].state \in {"unused", "used"}
                                /\ tokens[t].user = uid[r]
                                /\ tokens[t].purpose = PurposeOf(op(r))
      <4>1. \A t \in ToSpend(r) : /\ t \in Toks /\ tokens[t].state # "none"
                                  /\ tokens[t].user = uid[r]
                                  /\ tokens[t].purpose = PurposeOf(op(r))
        BY <1>0, ReqTypes DEF ToSpend, ReqInv, Remembers
      <4>2. \A t \in Toks : tokens[t] \in TokenRow
        BY <1>0 DEF TypeOK
      <4>. QED BY <4>1, <4>2 DEF TokenRow
    <3>3. ScanTokens(r) => /\ Replaces(r)' = Replaces(r)
                           /\ Replaces(r) => \A t \in ToSpend(r) :
                                 t \in scan'[r] \/ tokens[t].state = "used"
      BY <1>0, <3>2 DEF ScanTokens, TypeOK, Replaces, IssuesLink, entity
    <3>4. Invalidate(r) => /\ Replaces(r)' = Replaces(r)
                           /\ Replaces(r) => \A t \in ToSpend(r) :
                                 t \in spend'[r] \/ tokens[t].state = "used"
      BY <1>0, <1>0e, <3>2 DEF ReqInv, CoversLinks, Replaces, IssuesLink
    <3>5. Past(r, "Invalidate")' /\ Past(r, "Invalidate") =>
             op(r) # "update_me"
      <4> SUFFICES ASSUME Past(r, "Invalidate")', Past(r, "Invalidate"),
                          op(r) = "update_me"
                   PROVE  FALSE
        OBVIOUS
      <4>1. /\ Step(r) /\ phase[r] = "running"
            /\ pc[r] \in DOMAIN Script[op(r)]
        BY <1>0, Moves DEF Past
      <4>2. At(r, "Commit") \/ At(r, "Send")
        BY <4>1, ScriptEnds DEF Past, At
      <4>3. \A x, y : At(r, x) /\ At(r, y) => x = y
        BY DEF At
      <4>. QED BY <4>1, <4>2, <4>3, StatementAt DEF Step, Send
    <3>6. Past(r, "Invalidate")' /\ Past(r, "Invalidate") =>
             \A t \in ToSpend(r) : t \in spend'[r] \/ tokens[t].state = "used"
      BY <1>0, <1>0f, <3>5 DEF ReqInv, CoversLinks, Past, Replaces
    <3>7. op(r) \in {"change_password", "reset_password"} =>
             audit'[r] = audit[r]
      <4>1. At(r, "LoginRead") => op(r) = "login"
        BY <1>0, ScriptOwners DEF At
      <4>. QED BY <1>0, <4>1, StepEffects
    <3>. QED BY <1>0, <3>0, <3>1, <3>3, <3>4, <3>6, <3>7, Arrival, Passing
            DEF ReqInv, CoversLinks
  <2>7. EndsOwn(r)'
    <3>1. op(r) \in {"refresh", "logout"} => jti(r) \in Jtis
      BY <1>0 DEF ReqInv, Owns, SessionOps, ModerationOps, Endpoints, Script
    <3>2. \A j \in Jtis : sessions[j].state \in {"none", "open", "revoked"}
      <4>1. \A j \in Jtis : sessions[j] \in SessionRow
        BY <1>0 DEF TypeOK
      <4>. QED BY <4>1 DEF SessionRow
    <3>3. op(r) \in {"refresh", "logout"} => sessions[jti(r)].state # "none"
      BY <1>0 DEF ReqInv, Owns, SessionOps, ModerationOps, Endpoints, Script
    <3>4. RevokeJti(r) /\ op(r) \in {"refresh", "logout"} =>
             jti(r) \in rev'[r] \/ sessions[jti(r)].state = "revoked"
      BY <1>0b, <3>1, <3>2, <3>3 DEF RevokeTarget
    <3>5. Past(r, "RevokeJti")' /\ op(r) \in {"refresh", "logout"} =>
             jti(r) \in rev'[r] \/ sessions[jti(r)].state = "revoked"
      BY <1>0, <1>0f, <3>4, Passing DEF ReqInv, EndsOwn, Past
    <3>6. op(r) = "logout" =>
             /\ phase'[r] # "mailing"
             /\ phase'[r] = "ok" => sessions[jti(r)].age > 0
      <4> SUFFICES ASSUME op(r) = "logout"
                   PROVE  /\ phase'[r] # "mailing"
                          /\ phase'[r] = "ok" => sessions[jti(r)].age > 0
        OBVIOUS
      <4>1. CASE Crash(r) \/ DeadlockVictim(r)
        BY <1>0, <4>1 DEF Crash, DeadlockVictim, Leave, TypeOK
      <4>2. CASE Step(r)
        <5>1. ~Send(r)
          BY <1>0 DEF ReqInv, EndsOwn, Send
        <5>2. \E x : At(r, x)
          BY <4>2, <5>1, StatementAt DEF Step
        <5>3. /\ pc[r] \in DOMAIN Script["logout"] /\ phase[r] = "running"
              /\ \A x : At(r, x) => x = Script["logout"][pc[r]]
          BY <5>2 DEF At
        <5>4. Script["logout"][pc[r]] \in {"AuthSession", "AuthUser", "Decode",
                                           "RevokeJti", "Commit"}
          BY <5>3, ScriptEnds
        <5>5. \/ AuthSession(r) \/ AuthUser(r) \/ Decode(r) \/ RevokeJti(r)
          BY <4>2, <5>1, <5>3, <5>4, StatementAt DEF Step
        <5>6. Script["logout"][pc[r]] # "Commit"
          BY <5>3, <5>5, StatementAt
        <5>7. pc[r] + 1 <= Len(Script[op(r)]) /\ Len(Script[op(r)]) \in Nat
          BY <1>0, <5>3, <5>6, ScriptEnds, ScriptDomain
        <5>8. Jump(r, 1) => phase'[r] = "running"
          BY <1>0, <5>3, <5>7 DEF Jump, TypeOK
        <5>. QED BY <1>0, <5>5, <5>8 DEF AuthSession, AuthUser, Decode,
                RevokeJti, Advance, Deny, Leave, TypeOK
      <4>. QED BY <4>1, <4>2
    <3>. QED BY <1>0, <3>5, <3>6 DEF EndsOwn
  <2>. QED BY <2>1, <2>2, <2>3, <2>4, <2>5, <2>6, <2>7 DEF ReqInv
<1>. QED BY <1>1, <1>2, <1>3 DEF LockInv

LEMMA LockInvInit == Init => LockInv
<1> SUFFICES ASSUME Init PROVE LockInv
  OBVIOUS
<1>1. RowLocks
  BY DEF Init, RowLocks
<1>2. ASSUME NEW r \in Requests PROVE ReqInv(r)
  <2>1. /\ call[r] = NoCall /\ phase[r] = "idle" /\ pc[r] = 1
        /\ rev[r] = {} /\ spend[r] = {} /\ openAt[r] = {} /\ unusedAt[r] = {}
        /\ op(r) = "me"
    BY DEF Init, op, NoCall
  <2>. QED BY <2>1 DEF ReqInv, Owns, Remembers, Holds, Found, Covers,
          CoversLinks, EndsOwn, At, Past, ToEnd, ToSpend, IssuingOps
<1>. QED BY <1>1, <1>2 DEF LockInv

LEMMA LockInvStep == RowInv /\ LockInv /\ [Next]_vars => LockInv'
<1> SUFFICES ASSUME RowInv, LockInv, [Next]_vars PROVE LockInv'
  OBVIOUS
<1>0. TypeInv /\ TypeInv'
  BY TypeInvStep DEF RowInv
<1>1. ASSUME UNCHANGED vars PROVE LockInv'
  <2>1. ASSUME NEW q \in Requests PROVE ReqInv(q)'
    <3>1. RowsFor(q) /\ SameRequest(q)
      BY <1>0, <1>1, RowsSame
         DEF SameRequest, TypeInv, vars, tables, entity, staged, request
    <3>. QED BY <1>0, <3>1, Frame DEF LockInv
  <2>2. RowLocks'
    BY <1>1 DEF LockInv, RowLocks, vars, staged
  <2>. QED BY <2>1, <2>2 DEF LockInv
<1>2. CASE Next
  BY <1>0, <1>1, <1>2, LockStart, LockAging, LockCommit, LockStatement
     DEF Next, Quiet
<1>. QED BY <1>1, <1>2

LEMMA LockInvariant == Spec => []LockInv
BY LockInvInit, LockInvStep, RowInvariant, PTL DEF Spec

\* Whoever changes or resets a password, deletes or bans an account or logs
\* out everywhere ends every session of the account that was open on
\* arrival, whatever rotates, revokes or commits beside it.
THEOREM SignOutIsComplete == Spec => []SignOutComplete
<1>1. LockInv => SignOutComplete
  BY DEF LockInv, ReqInv, Covers, SignOutComplete, ToEnd
<1>. QED BY <1>1, LockInvariant, PTL

\* A password change or reset, and the issue of a new link, spend every link
\* of that purpose that was live on arrival.
THEOREM OldLinksAreSpent == Spec => []OldLinksSpent
<1>1. LockInv => OldLinksSpent
  BY DEF LockInv, ReqInv, CoversLinks, OldLinksSpent, ToSpend
<1>. QED BY <1>1, LockInvariant, PTL

\* A logout answered with success has ended the session it was called with,
\* unless the access token ran out meanwhile, also when a rotation, another
\* logout or a sign-out runs beside it.
THEOREM LogoutEndsSession == Spec => []LogoutRevokes
<1>1. LockInv => LogoutRevokes
  BY DEF LockInv, ReqInv, EndsOwn, LogoutRevokes
<1>. QED BY <1>1, LockInvariant, PTL

-----------------------------------------------------------------------------
(***************************************************************************)
(* The refinement of CredentialStore.                                      *)
(***************************************************************************)
LEMMA StoreInit == Init => Store!Init
<1> SUFFICES ASSUME Init PROVE Store!Init
  OBVIOUS
<1>1. TypeOK /\ MailedExist
  BY RowInvInit DEF RowInv, TypeInv
<1>2. /\ \A j \in Jtis : /\ sessions[j].state \in Store!SessionStates
                         /\ sessions[j].user \in Users
      /\ \A t \in Toks : /\ tokens[t].state \in Store!LinkStates
                         /\ tokens[t].user \in Users
                         /\ tokens[t].purpose \in Purposes
  <2>1. /\ \A j \in Jtis : sessions[j] \in SessionRow
        /\ \A t \in Toks : tokens[t] \in TokenRow
    BY <1>1 DEF TypeOK
  <2>. QED BY <2>1 DEF SessionRow, TokenRow, Store!SessionStates,
                       Store!LinkStates
<1>3. mailed \subseteq Toks
  BY <1>1 DEF TypeOK
<1>. QED BY <1>1, <1>2, <1>3 DEF Store!Init, MailedExist

\* A commit, column by column, as the abstract store sees it.
LEMMA CommitView ==
    ASSUME RowInv, NEW r \in Requests, Commit(r)
    PROVE  /\ \A j \in Jtis :
                 [state |-> sessions'[j].state, user |-> sessions'[j].user] =
                 IF j \in rev[r]
                 THEN [state |-> "revoked", user |-> sessions[j].user]
                 ELSE IF j = r /\ OpensSession(r)
                 THEN [state |-> "open", user |-> uid[r]]
                 ELSE [state |-> sessions[j].state, user |-> sessions[j].user]
           /\ \A t \in Toks :
                 [state |-> tokens'[t].state, user |-> tokens'[t].user,
                  purpose |-> tokens'[t].purpose] =
                 IF t \in spend[r]
                 THEN [state |-> "used", user |-> tokens[t].user,
                       purpose |-> tokens[t].purpose]
                 ELSE IF t = r /\ IssuesLink(r)
                 THEN [state |-> "unused", user |-> uid[r],
                       purpose |-> PurposeOf(op(r))]
                 ELSE [state |-> tokens[t].state, user |-> tokens[t].user,
                       purpose |-> tokens[t].purpose]
<1>0. TypeOK
  BY DEF RowInv, TypeInv
<1>1. /\ \A j \in Jtis : sessions[j] \in SessionRow
      /\ \A t \in Toks : tokens[t] \in TokenRow
  BY <1>0 DEF TypeOK
<1>2. /\ \A j \in Jtis : sessions'[j] = SessionAfter(r, j)
      /\ \A t \in Toks : tokens'[t] = TokenAfter(r, t)
  BY DEF Commit
<1>3. /\ NewSession(r).state = "open" /\ NewSession(r).user = uid[r]
      /\ NewToken(r).state = "unused" /\ NewToken(r).user = uid[r]
      /\ NewToken(r).purpose = PurposeOf(op(r))
  BY DEF NewSession, NewToken
<1>4. ASSUME NEW j \in Jtis
      PROVE  LET row == [sessions[j] EXCEPT !.state = "revoked"]
             IN row.state = "revoked" /\ row.user = sessions[j].user
  BY <1>1 DEF SessionRow
<1>5. ASSUME NEW t \in Toks
      PROVE  LET row == [tokens[t] EXCEPT !.state = "used"]
             IN /\ row.state = "used" /\ row.user = tokens[t].user
                /\ row.purpose = tokens[t].purpose
  BY <1>1 DEF TokenRow
<1>. QED BY <1>2, <1>3, <1>4, <1>5 DEF SessionAfter, TokenAfter

LEMMA IssueIsNext ==
    ASSUME NEW u \in Users, NEW L \in SUBSET Store!UnusedOf(u),
           NEW p \in Purposes, NEW t \in Toks, Store!Issue(u, p, t, L)
    PROVE  Store!Next
BY DEF Store!Next

LEMMA EndIsNext ==
    ASSUME NEW u \in Users, NEW R \in SUBSET Store!OpenOf(u),
           NEW L \in SUBSET Store!UnusedOf(u), Store!End(u, R, L)
    PROVE  Store!Next
BY DEF Store!Next

LEMMA StoreCommit ==
    ASSUME RowInv, LockInv, NEW r \in Requests, Commit(r)
    PROVE  Store!Next
<1> DEFINE S == [j \in Jtis |-> [state |-> sessions[j].state,
                                 user |-> sessions[j].user]]
           K == [t \in Toks |-> [state |-> tokens[t].state,
                                 user |-> tokens[t].user,
                                 purpose |-> tokens[t].purpose]]
<1>0. /\ TypeInv /\ TypeOK /\ Minting /\ StagedExist /\ ReqInv(r)
      /\ r \in Jtis /\ r \in Toks /\ uid[r] \in Users
      /\ rev[r] \subseteq Jtis /\ spend[r] \subseteq Toks
      /\ phase[r] = "running" /\ mailed' = mailed
  BY CommitRows DEF RowInv, TypeInv, LockInv, Jtis, Toks, TypeOK
<1>1. sessions[r].state = "none" /\ tokens[r].state = "none"
  BY <1>0 DEF Minting
<1>2. r \notin rev[r] /\ r \notin spend[r]
  BY <1>0, <1>1 DEF StagedExist
<1>3. /\ rev[r] \in SUBSET Store!OpenOf(uid[r])
      /\ spend[r] \in SUBSET Store!UnusedOf(uid[r])
  BY <1>0 DEF ReqInv, Holds, Store!OpenOf, Store!UnusedOf
<1>4. PurposeOf(op(r)) \in Purposes
  BY DEF PurposeOf, Purposes
<1>5. CASE op(r) = "login"
  <2>1. rev[r] = {} /\ spend[r] = {} /\ OpensSession(r) /\ ~IssuesLink(r)
    BY <1>0, <1>5 DEF ReqInv, Holds, OpensSession, IssuesLink, SignOutOps,
       TokenOps, InvalidatingOps, IssuingOps
  <2>2. S' = [S EXCEPT ![r] = [state |-> "open", user |-> uid[r]]]
    BY <1>0, <2>1, CommitView
  <2>3. K' = K
    BY <2>1, CommitView
  <2>4. Store!Login(uid[r], r)
    BY <1>0, <1>1, <2>2, <2>3 DEF Store!Login
  <2>. QED BY <1>0, <2>4 DEF Store!Next
<1>6. CASE op(r) = "refresh"
  <2>0. /\ jti(r) \in Jtis /\ sessions[jti(r)].state # "none"
        /\ sessions[jti(r)].user = uid[r]
    BY <1>0, <1>6 DEF ReqInv, Owns, SessionOps, ModerationOps, Endpoints,
       Script
  <2>1. /\ rev[r] \subseteq {jti(r)} /\ spend[r] = {} /\ OpensSession(r)
        /\ ~IssuesLink(r)
    BY <1>0, <1>6 DEF ReqInv, Holds, OpensSession, IssuesLink,
       TokenOps, InvalidatingOps, IssuingOps
  <2>2. jti(r) \in rev[r] \/ sessions[jti(r)].state = "revoked"
    BY <1>0, <1>6, CommitPast DEF ReqInv, EndsOwn
  <2>3. S' = [Store!Revoked({jti(r)}) EXCEPT
                 ![r] = [state |-> "open", user |-> S[jti(r)].user]]
    <3>1. jti(r) # r
      BY <1>1, <2>0
    <3>2. Store!Revoked({jti(r)}) =
            [j \in Jtis |-> IF j = jti(r)
                            THEN [state |-> "revoked", user |-> sessions[j].user]
                            ELSE [state |-> sessions[j].state,
                                  user |-> sessions[j].user]]
      BY DEF Store!Revoked
    <3>3. [Store!Revoked({jti(r)}) EXCEPT
             ![r] = [state |-> "open", user |-> S[jti(r)].user]] =
            [j \in Jtis |->
               IF j = r THEN [state |-> "open", user |-> uid[r]]
               ELSE IF j = jti(r)
               THEN [state |-> "revoked", user |-> sessions[j].user]
               ELSE [state |-> sessions[j].state, user |-> sessions[j].user]]
      BY <1>0, <2>0, <3>2
    <3>4. \A j \in Jtis : S'[j] =
               IF j = r THEN [state |-> "open", user |-> uid[r]]
               ELSE IF j = jti(r)
               THEN [state |-> "revoked", user |-> sessions[j].user]
               ELSE [state |-> sessions[j].state, user |-> sessions[j].user]
      BY <1>2, <2>1, <2>2, <3>1, CommitView
    <3>. QED BY <3>3, <3>4
  <2>4. K' = K
    BY <2>1, CommitView
  <2>5. Store!Rotate(jti(r), r)
    BY <1>0, <1>1, <2>0, <2>3, <2>4 DEF Store!Rotate
  <2>. QED BY <1>0, <2>0, <2>5 DEF Store!Next
<1>7. Store!Revoked(rev[r]) =
        [j \in Jtis |-> IF j \in rev[r]
                        THEN [state |-> "revoked", user |-> sessions[j].user]
                        ELSE [state |-> sessions[j].state,
                              user |-> sessions[j].user]]
  BY DEF Store!Revoked
<1>8. Store!Used(spend[r]) =
        [t \in Toks |-> IF t \in spend[r]
                        THEN [state |-> "used", user |-> tokens[t].user,
                              purpose |-> tokens[t].purpose]
                        ELSE [state |-> tokens[t].state,
                              user |-> tokens[t].user,
                              purpose |-> tokens[t].purpose]]
  BY DEF Store!Used
<1>9. CASE IssuesLink(r)
  <2>1. op(r) \in IssuingOps /\ rev[r] = {} /\ ~OpensSession(r)
    BY <1>0, <1>9 DEF ReqInv, Holds, OpensSession, IssuesLink, IssuingOps,
       SignOutOps
  <2>2. S' = S
    BY <2>1, CommitView
  <2>3. K' = [Store!Used(spend[r]) EXCEPT
                 ![r] = [state |-> "unused", user |-> uid[r],
                         purpose |-> PurposeOf(op(r))]]
    <3>1. [Store!Used(spend[r]) EXCEPT
             ![r] = [state |-> "unused", user |-> uid[r],
                     purpose |-> PurposeOf(op(r))]] =
            [t \in Toks |->
               IF t = r THEN [state |-> "unused", user |-> uid[r],
                              purpose |-> PurposeOf(op(r))]
               ELSE IF t \in spend[r]
               THEN [state |-> "used", user |-> tokens[t].user,
                     purpose |-> tokens[t].purpose]
               ELSE [state |-> tokens[t].state, user |-> tokens[t].user,
                     purpose |-> tokens[t].purpose]]
      BY <1>0, <1>8
    <3>2. \A t \in Toks : K'[t] =
               IF t = r THEN [state |-> "unused", user |-> uid[r],
                              purpose |-> PurposeOf(op(r))]
               ELSE IF t \in spend[r]
               THEN [state |-> "used", user |-> tokens[t].user,
                     purpose |-> tokens[t].purpose]
               ELSE [state |-> tokens[t].state, user |-> tokens[t].user,
                     purpose |-> tokens[t].purpose]
      BY <1>2, <1>9, CommitView
    <3>. QED BY <3>1, <3>2
  <2>4. \A t \in spend[r] : K[t].purpose = PurposeOf(op(r))
    BY <1>0, <2>1 DEF ReqInv, Holds
  <2>5. PICK u \in Users, p \in Purposes, L \in SUBSET Store!UnusedOf(uid[r]) :
             u = uid[r] /\ p = PurposeOf(op(r)) /\ L = spend[r]
    BY <1>0, <1>3, <1>4
  <2>6. L \in SUBSET Store!UnusedOf(u) /\ Store!Issue(u, p, r, L)
    BY <1>0, <1>1, <2>2, <2>3, <2>4, <2>5 DEF Store!Issue, Store!UnusedOf
  <2>. QED BY <1>0, <2>6, IssueIsNext
<1>10. CASE ~OpensSession(r) /\ ~IssuesLink(r)
  <2>1. S' = Store!Revoked(rev[r])
    BY <1>7, <1>10, CommitView
  <2>2. K' = Store!Used(spend[r])
    BY <1>8, <1>10, CommitView
  <2>3. PICK u \in Users, R \in SUBSET Store!OpenOf(uid[r]),
             L \in SUBSET Store!UnusedOf(uid[r]) :
             u = uid[r] /\ R = rev[r] /\ L = spend[r]
    BY <1>0, <1>3
  <2>4. /\ R \in SUBSET Store!OpenOf(u) /\ L \in SUBSET Store!UnusedOf(u)
        /\ Store!End(u, R, L)
    BY <1>0, <2>1, <2>2, <2>3 DEF Store!End, Store!OpenOf, Store!UnusedOf
  <2>. QED BY <2>4, EndIsNext
<1>. QED BY <1>5, <1>6, <1>9, <1>10 DEF OpensSession

LEMMA StoreStep ==
    RowInv /\ LockInv /\ [Next]_vars => [Store!Next]_(Store!svars)
<1> SUFFICES ASSUME RowInv, LockInv, [Next]_vars
             PROVE  Store!Next \/ UNCHANGED Store!svars
  OBVIOUS
<1>0. TypeOK
  BY DEF RowInv, TypeInv
<1>1. ASSUME UNCHANGED <<sessions, tokens, mailed>>
      PROVE  UNCHANGED Store!svars
  BY <1>1 DEF Store!svars
<1>2. ASSUME NEW r \in Requests, NEW c \in Calls, Start(r, c)
      PROVE  UNCHANGED <<sessions, tokens, mailed>>
  BY <1>2 DEF Start, tables
<1>3. ASSUME NEW r \in Requests, Send(r)
      PROVE  Store!Next \/ UNCHANGED Store!svars
  <2>1. UNCHANGED <<sessions, tokens>>
    BY <1>3 DEF Send, tables
  <2>2. \/ mailed' = mailed
        \/ mailed' = mailed \cup {r} /\ tokens[r].state # "none"
    <3>1. PICK delivered \in BOOLEAN :
               mailed' = IF delivered /\ tokens[r].state # "none"
                         THEN mailed \cup {r} ELSE mailed
      BY <1>3 DEF Send
    <3>. QED BY <3>1, Zenon
  <2>3. r \in Toks
    BY DEF Toks
  <2>4. mailed' = mailed \cup {r} /\ tokens[r].state # "none" => Store!Mail(r)
    BY <2>1, <2>3 DEF Store!Mail
  <2>. QED BY <1>1, <2>1, <2>2, <2>3, <2>4 DEF Store!Next
<1>4. ASSUME NEW r \in Requests, ~Commit(r), ~Send(r),
             Step(r) \/ Crash(r) \/ DeadlockVictim(r)
      PROVE  UNCHANGED <<sessions, tokens, mailed>>
  BY <1>0, <1>4, StepEffects, OtherStepsSendNothing
<1>5. ASSUME \/ \E j \in Jtis : SessionAges(j)
             \/ \E t \in Toks : TokenExpires(t)
      PROVE  UNCHANGED Store!svars
  BY <1>0, <1>5, AgingRows DEF Store!svars
<1>6. ASSUME UNCHANGED vars PROVE UNCHANGED <<sessions, tokens, mailed>>
  BY <1>6 DEF vars, tables
<1>. QED BY <1>1, <1>2, <1>3, <1>4, <1>5, <1>6, StoreCommit DEF Next, Quiet

\* The statements of the use cases, interleaved and interrupted in any way,
\* implement the atomic operations of CredentialStore.
THEOREM ImplementsStore == Spec => StoreSpec
<1>. QED BY StoreInit, StoreStep, RowInvariant, LockInvariant, PTL
        DEF Spec, StoreSpec, Store!Spec

====
