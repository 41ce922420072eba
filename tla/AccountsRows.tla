---------------------------- MODULE AccountsRows ----------------------------
(***************************************************************************)
(* What happens to the rows of table users in Accounts, for every value of *)
(* the constants.                                                          *)
(*                                                                         *)
(* PasswordsNotClobbered  no write of a profile, ban or verification       *)
(*                        brings an old password back.                     *)
(* ReactivationsExplained an inactive account becomes active only through  *)
(*                        an unban or through the stale entity of a        *)
(*                        profile update or a verification.                *)
(* CommitsAreAudited      rows and audit rows are there together or not at *)
(*                        all.                                             *)
(*                                                                         *)
(* They follow from UserInv: the row lock keeps versions of one row apart, *)
(* so what a transaction's version adds to the row below it is known until *)
(* it commits.                                                             *)
(***************************************************************************)
EXTENDS AccountsLocks

-----------------------------------------------------------------------------
\* The statements that stage a version of a user row, and the use cases that
\* set a password.
WriteStatements == {"UpdateRow", "InsertUser", "UpdatePassword"}
PasswordOps == {"register", "change_password", "reset_password"}

\* A salt tells a row that was ever written from one that was not.
Exists(u) == users[u].hash.salt # None

\* The accounts behind the rows: an account that does not exist has no row
\* at all, one that r created is backed by r's audit row, and nobody holds a
\* session or a link of an account that does not exist.
AccountRows ==
    /\ \A u \in Users : Exists(u) \/ users[u] = NoRow
    /\ \A j \in Jtis : sessions[j].state # "none" => Exists(sessions[j].user)
    /\ \A t \in Toks : tokens[t].state # "none" => Exists(tokens[t].user)

\* Two transactions never hold versions of the same user row.
UserLocks ==
    \A r, s \in Requests : r # s /\ write[r] # NoRow /\ write[s] # NoRow =>
        uid[r] # uid[s]

\* The version a transaction holds: which columns can differ from the row
\* below it, and why.
Version(r) ==
    write[r] # NoRow =>
        /\ \E x \in WriteStatements : Past(r, x)
        /\ op(r) \in PasswordOps => write[r].hash.salt = r
        /\ op(r) \in PasswordOps \ {"register"} =>
              /\ write[r].active = users[uid[r]].active
              /\ write[r].email = users[uid[r]].email
              /\ write[r].verified = users[uid[r]].verified
        /\ op(r) = "register" => ~write[r].verified
        /\ op(r) \notin PasswordOps =>
              /\ write[r].hash = users[uid[r]].hash
              /\ write[r].email = IF snap[r].email # base[r].email
                                  THEN snap[r].email
                                  ELSE users[uid[r]].email
              /\ write[r].verified = IF snap[r].verified # base[r].verified
                                     THEN snap[r].verified
                                     ELSE users[uid[r]].verified
              /\ \/ write[r].active = users[uid[r]].active
                 \/ /\ write[r].active = snap[r].active
                    /\ snap[r].active # base[r].active
        /\ op(r) # "register" => Exists(uid[r])

\* A registration is about the account it creates, every other request that
\* has looked at its account is about one that exists, and a ban or a
\* deletion holds an inactive entity.
Subjects(r) ==
    /\ op(r) = "register" /\ phase[r] # "idle" => uid[r] = r
    /\ op(r) = "register" /\ Past(r, "InsertUser") => write[r] # NoRow
    /\ /\ phase[r] = "running" /\ op(r) # "register"
       /\ op(r) \in {"login", "forgot_password"} => pc[r] > 1
       /\ op(r) \in ModerationOps => pc[r] > 3
       => Exists(uid[r])
    /\ op(r) \in {"ban", "delete_me"} \/ phase[r] = "idle" => ~snap[r].active

\* What a committed use case left behind.
Backed(r) ==
    /\ \A u \in Users : users[u].hash.salt = r => audit[r] \in PasswordEntries
    /\ sessions[r].state # "none" => op(r) = "refresh" \/ audit[r] = "LOGIN"
    /\ Exists(r) <=> audit[r] = "REGISTER"
    /\ audit[r] = "LOGIN" => sessions[r].state # "none"
    /\ phase[r] = "denied" => audit[r] \in {None, "LOGIN_FAILED"}

UserInv ==
    /\ AccountRows /\ UserLocks
    /\ \A r \in Requests : Version(r) /\ Subjects(r) /\ Backed(r)

-----------------------------------------------------------------------------
(***************************************************************************)
(* The statements, as the user rows see them.                              *)
(***************************************************************************)
LoadStatements == {"LoginRead", "RefreshReadUser", "ReadTokenUser",
                   "ChangeRead", "ForgotRead", "UpdateRead", "DeleteRead",
                   "BanRead", "UnbanRead"}

\* Where the use cases write their user row.
LEMMA WritePlaces ==
    ASSUME NEW o \in Endpoints, NEW k \in DOMAIN Script[o]
    PROVE  /\ Script[o][k] = "UpdateRow" =>
                 \/ o \in {"verify_email", "delete_me", "ban", "unban"} /\ k = 5
                 \/ o = "update_me" /\ k = 6
           /\ Script[o][k] = "InsertUser" => o = "register" /\ k = 2
           /\ Script[o][k] = "UpdatePassword" =>
                 \/ o = "change_password" /\ k = 4
                 \/ o = "reset_password" /\ k = 3
BY EndpointNames DEF Script, Authenticate, RegisterUser,
       Login, RefreshToken, Logout, VerifyEmail, ForgotPassword,
       ResetPassword, UpdateUser, ChangePassword, DeleteUser,
       RevokeUserSession, RevokeAllSessions, BanUser, UnbanUser

\* A use case writes its user row once, after all its reads of it, and goes
\* on to a commit.
LEMMA ScriptAfterWrite ==
    ASSUME NEW o \in Endpoints, NEW i \in DOMAIN Script[o],
           Script[o][i] \in WriteStatements
    PROVE  /\ i + 1 <= Len(Script[o])
           /\ \A k \in DOMAIN Script[o] : i < k =>
                 /\ Script[o][k] \notin WriteStatements \cup LoadStatements
                 /\ Script[o][k] # "Reload"
                 /\ Script[o][k] \notin {"Commit", "Send"} =>
                       k + 1 <= Len(Script[o])
                 /\ Script[o][k] = "MarkUsed" => o = "reset_password"
<1>0. \/ o \in {"verify_email", "delete_me", "ban", "unban"} /\ i = 5
      \/ o = "update_me" /\ i = 6
      \/ o = "register" /\ i = 2
      \/ o = "change_password" /\ i = 4
      \/ o = "reset_password" /\ i = 3
  BY WritePlaces DEF WriteStatements
<1>1. CASE o = "verify_email"
  BY <1>0, <1>1 DEF Script, VerifyEmail, WriteStatements, LoadStatements
<1>2. CASE o = "delete_me"
  BY <1>0, <1>2 DEF Script, DeleteUser, WriteStatements, LoadStatements
<1>3. CASE o = "ban"
  BY <1>0, <1>3 DEF Script, BanUser, WriteStatements, LoadStatements
<1>4. CASE o = "unban"
  BY <1>0, <1>4 DEF Script, UnbanUser, WriteStatements, LoadStatements
<1>5. CASE o = "update_me"
  BY <1>0, <1>5 DEF Script, UpdateUser, WriteStatements, LoadStatements
<1>6. CASE o = "register"
  BY <1>0, <1>6 DEF Script, RegisterUser, WriteStatements, LoadStatements
<1>7. CASE o = "change_password"
  BY <1>0, <1>7 DEF Script, ChangePassword, WriteStatements, LoadStatements
<1>8. CASE o = "reset_password"
  BY <1>0, <1>8 DEF Script, ResetPassword, WriteStatements, LoadStatements
<1>. QED BY <1>0, <1>1, <1>2, <1>3, <1>4, <1>5, <1>6, <1>7, <1>8

LEMMA ScriptReads ==
    ASSUME NEW o \in Endpoints, NEW k \in DOMAIN Script[o]
    PROVE  /\ o \in {"ban", "delete_me"} /\ Script[o][k] \in LoadStatements =>
                 Script[o][k] \in {"BanRead", "DeleteRead"}
           /\ o = "ban" /\ k = 3 => Script[o][k] = "BanRead"
           /\ o = "unban" /\ k = 3 => Script[o][k] = "UnbanRead"
           /\ o = "login" /\ k = 1 => Script[o][k] = "LoginRead"
           /\ o = "forgot_password" /\ k = 1 => Script[o][k] = "ForgotRead"
           /\ Script[o][k] = "Commit" =>
                 /\ k > 1
                 /\ o \in ModerationOps => k > 3
                 /\ o = "register" => \E i \in DOMAIN Script[o] :
                       i < k /\ Script[o][i] = "InsertUser"
BY EndpointNames DEF LoadStatements, ModerationOps,
       Script, Authenticate, RegisterUser,
       Login, RefreshToken, Logout, VerifyEmail, ForgotPassword,
       ResetPassword, UpdateUser, ChangePassword, DeleteUser,
       RevokeUserSession, RevokeAllSessions, BanUser, UnbanUser

\* The ways a statement other than the commit can end.
LEMMA StepKinds ==
    ASSUME NEW r \in Requests, Step(r) \/ Crash(r) \/ DeadlockVictim(r),
           ~Commit(r)
    PROVE  \/ \E how : Leave(r, how)
           \/ Send(r) \/ LoginRead(r) \/ MarkUsed(r)
           \/ Jump(r, 1) /\ \E x : At(r, x) /\ x \notin {"Commit", "Send"}
<1>1. CASE Crash(r) \/ DeadlockVictim(r) \/ Send(r) \/ LoginRead(r)
           \/ MarkUsed(r)
  BY <1>1 DEF Crash, DeadlockVictim
<1>2. CASE \/ AuthSession(r) \/ AuthUser(r) \/ RefreshReadSession(r)
           \/ ReadOwnSession(r) \/ ReadToken(r) \/ RegisterCheck(r)
           \/ CheckEmail(r) \/ Decode(r)
  BY <1>2 DEF AuthSession, AuthUser, RefreshReadSession, ReadOwnSession,
              ReadToken, RegisterCheck, CheckEmail, Decode, Advance, Deny
<1>3. CASE \/ RefreshReadUser(r) \/ ReadTokenUser(r) \/ ChangeRead(r)
           \/ UpdateRead(r) \/ DeleteRead(r) \/ BanRead(r) \/ UnbanRead(r)
           \/ ForgotRead(r)
  BY <1>3 DEF RefreshReadUser, ReadTokenUser, ChangeRead, UpdateRead,
              DeleteRead, BanRead, UnbanRead, ForgotRead, Load, Advance, Deny
<1>4. CASE \/ Reload(r) \/ UpdateRow(r) \/ InsertUser(r)
           \/ UpdatePassword(r) \/ RevokeJti(r) \/ ScanSessions(r)
           \/ RevokeAll(r) \/ ScanTokens(r) \/ Invalidate(r)
  BY <1>4 DEF Reload, UpdateRow, InsertUser, UpdatePassword, RevokeJti,
              ScanSessions, RevokeAll, ScanTokens, Invalidate, Advance
<1>. QED BY <1>1, <1>2, <1>3, <1>4 DEF Step

\* What a statement does to the version its transaction holds.
LEMMA StepWrites ==
    ASSUME TypeOK, NEW r \in Requests,
           Step(r) \/ Crash(r) \/ DeadlockVictim(r)
    PROVE  \/ /\ write'[r] \in {write[r], NoRow}
              /\ phase'[r] = "running" => write'[r] = write[r]
           \/ UpdateRow(r) \/ InsertUser(r) \/ UpdatePassword(r)
<1>1. CASE Crash(r) \/ DeadlockVictim(r) \/ Commit(r) \/ Send(r)
  BY <1>1 DEF TypeOK, Crash, DeadlockVictim, Commit, Send, Leave, Discard,
              staged
<1>2. CASE \/ AuthSession(r) \/ AuthUser(r) \/ RefreshReadSession(r)
           \/ ReadOwnSession(r) \/ ReadToken(r) \/ RegisterCheck(r)
           \/ CheckEmail(r) \/ Decode(r)
  BY <1>2 DEF TypeOK, AuthSession, AuthUser, RefreshReadSession,
              ReadOwnSession, ReadToken, RegisterCheck, CheckEmail, Decode,
              Deny, Leave, Discard, staged
<1>3. CASE \/ RefreshReadUser(r) \/ ReadTokenUser(r) \/ ChangeRead(r)
           \/ UpdateRead(r) \/ DeleteRead(r) \/ BanRead(r) \/ UnbanRead(r)
           \/ LoginRead(r) \/ ForgotRead(r)
  BY <1>3 DEF TypeOK, RefreshReadUser, ReadTokenUser, ChangeRead, UpdateRead,
              DeleteRead, BanRead, UnbanRead, LoginRead, ForgotRead, Load,
              Deny, Leave, Discard, staged
<1>4. CASE \/ Reload(r) \/ RevokeJti(r) \/ ScanSessions(r) \/ RevokeAll(r)
           \/ MarkUsed(r) \/ ScanTokens(r) \/ Invalidate(r)
  BY <1>4 DEF TypeOK, Reload, RevokeJti, ScanSessions, RevokeAll, MarkUsed,
              ScanTokens, Invalidate, staged
<1>. QED BY <1>1, <1>2, <1>3, <1>4 DEF Step

\* What a statement does to the entity its request holds.
LEMMA StepLoads ==
    ASSUME TypeOK, NEW r \in Requests,
           Step(r) \/ Crash(r) \/ DeadlockVictim(r)
    PROVE  \/ snap'[r] = NoRow
           \/ snap'[r] = snap[r] /\ base'[r] = base[r]
           \/ snap'[r] = snap[r] /\ At(r, "Reload")
           \/ \E x \in LoadStatements : At(r, x)
<1>1. CASE Crash(r) \/ DeadlockVictim(r) \/ Commit(r) \/ Send(r)
  BY <1>1 DEF TypeOK, Crash, DeadlockVictim, Commit, Send, Leave, Discard,
              entity
<1>2. CASE \/ AuthSession(r) \/ AuthUser(r) \/ RefreshReadSession(r)
           \/ ReadOwnSession(r) \/ ReadToken(r) \/ RegisterCheck(r)
           \/ CheckEmail(r) \/ Decode(r)
  BY <1>2 DEF TypeOK, AuthSession, AuthUser, RefreshReadSession,
              ReadOwnSession, ReadToken, RegisterCheck, CheckEmail, Decode,
              Deny, Leave, Discard, entity
<1>3. CASE \/ RefreshReadUser(r) \/ ReadTokenUser(r) \/ ChangeRead(r)
           \/ UpdateRead(r) \/ DeleteRead(r) \/ BanRead(r) \/ UnbanRead(r)
           \/ LoginRead(r) \/ ForgotRead(r)
  BY <1>3, StatementAt DEF LoadStatements
<1>4. CASE \/ Reload(r) \/ UpdateRow(r) \/ InsertUser(r)
           \/ UpdatePassword(r) \/ RevokeJti(r) \/ ScanSessions(r)
           \/ RevokeAll(r) \/ MarkUsed(r) \/ ScanTokens(r) \/ Invalidate(r)
  BY <1>4 DEF TypeOK, Reload, UpdateRow, InsertUser, UpdatePassword,
              RevokeJti, ScanSessions, RevokeAll, MarkUsed, ScanTokens,
              Invalidate, Leave, Discard, entity
<1>. QED BY <1>1, <1>2, <1>3, <1>4 DEF Step

\* What is behind a running transaction stays behind it.
LEMMA PastStays ==
    ASSUME TypeOK, NEW r \in Requests,
           Step(r) \/ Crash(r) \/ DeadlockVictim(r), phase'[r] = "running"
    PROVE  \A x : Past(r, x) \/ At(r, x) => Past(r, x)'
<1>0. op(r) \in Endpoints /\ op(r)' = op(r) /\ pc[r] \in Nat
  BY CallFields, StepKeepsCall DEF op, TypeOK
<1>1. pc'[r] > pc[r] /\ pc'[r] \in Nat
  BY <1>0, Moves, ScriptDomain
<1>2. DOMAIN Script[op(r)] \subseteq Nat
  BY <1>0, ScriptDomain
<1>3. \A k \in Nat : k <= pc[r] => k < pc'[r]
  BY <1>0, <1>1
<1>. QED BY <1>0, <1>1, <1>2, <1>3 DEF Past, At

\* The version held is lost or its transaction goes on.
LEMMA EndsClean ==
    ASSUME TypeOK, NEW r \in Requests,
           Step(r) \/ Crash(r) \/ DeadlockVictim(r), ~Commit(r), Version(r),
           phase'[r] # "running"
    PROVE  write'[r] = NoRow
<1>0. op(r) \in Endpoints /\ pc[r] \in Nat
  BY CallFields DEF op, TypeOK
<1>1. CASE \E how : Leave(r, how)
  BY <1>1 DEF Leave, Discard, TypeOK
<1>2. ASSUME phase[r] = "running", NEW x, At(r, x), Jump(r, 1),
             x \notin {"Commit", "Send"}
      PROVE  write'[r] = NoRow
  <2>1. pc[r] \in DOMAIN Script[op(r)] /\ Script[op(r)][pc[r]] = x
    BY <1>2 DEF At
  <2>2. pc[r] + 1 > Len(Script[op(r)])
    BY <1>2 DEF Jump, TypeOK
  <2>3. x \notin WriteStatements
    BY <1>0, <2>1, <2>2, ScriptDomain, ScriptAfterWrite
  <2>4. \A y \in WriteStatements : ~Past(r, y)
    BY <1>0, <1>2, <2>1, <2>2, ScriptDomain, ScriptAfterWrite DEF Past
  <2>5. write[r] = NoRow
    BY <2>4 DEF Version
  <2>6. ~UpdateRow(r) /\ ~InsertUser(r) /\ ~UpdatePassword(r)
    BY <1>2, <2>3, StatementAt DEF At, WriteStatements
  <2>. QED BY <2>5, <2>6, StepWrites
<1>3. CASE Send(r)
  <2>1. write[r] = NoRow
    BY <1>3 DEF Send, Version, Past
  <2>. QED BY <1>3, <2>1 DEF Send, staged
<1>4. CASE LoginRead(r)
  <2>1. pc[r] = 1
    BY <1>0, <1>4, StatementAt, ScriptOwners DEF At
  <2>2. write[r] = NoRow
    BY <2>1, FirstMove DEF Version
  <2>3. write' = write
    BY <1>4 DEF LoginRead, Load, staged
  <2>. QED BY <2>2, <2>3
<1>5. CASE MarkUsed(r)
  <2>1. /\ At(r, "MarkUsed") /\ phase[r] = "running" /\ write' = write
        /\ pc[r] \in DOMAIN Script[op(r)]
        /\ Script[op(r)][pc[r]] = "MarkUsed"
    BY <1>5 DEF MarkUsed, At
  <2>2. CASE op(r) = "verify_email"
    <3>1. \A y \in WriteStatements : ~Past(r, y)
      BY <1>0, <2>1, <2>2, ScriptAfterWrite DEF Past
    <3>. QED BY <2>1, <3>1 DEF Version
  <2>3. CASE op(r) # "verify_email"
    BY <1>2, <1>5, <2>1, <2>3 DEF MarkUsed
  <2>. QED BY <2>2, <2>3
<1>. QED BY <1>1, <1>2, <1>3, <1>4, <1>5, StepKinds DEF At

-----------------------------------------------------------------------------
(***************************************************************************)
(* UserInv is inductive.                                                   *)
(***************************************************************************)
LEMMA RowTypes ==
    ASSUME TypeOK, NEW r \in Requests
    PROVE  /\ uid[r] \in Users /\ users[uid[r]] \in UserRow
           /\ write[r] \in UserRow /\ snap[r] \in UserRow
           /\ base[r] \in UserRow
BY DEF TypeOK

LEMMA UserStart ==
    ASSUME RowInv, LockInv, UserInv, NEW r \in Requests, NEW c \in Calls,
           Start(r, c)
    PROVE  UserInv'
<1>0. /\ TypeOK /\ Minting /\ MailedExist /\ AccountRows /\ UserLocks
      /\ c \in Call /\ c.op \in Endpoints
  BY CallsAssumption DEF RowInv, TypeInv, UserInv, Call
<1>1. /\ phase[r] = "idle" /\ Presentable(c)
      /\ call' = [call EXCEPT ![r] = c]
      /\ uid' = [uid EXCEPT ![r] = Subject(r, c)]
      /\ phase' = [phase EXCEPT ![r] = "running"]
      /\ UNCHANGED <<users, sessions, tokens, audit, mailed, pc, snap, base,
                     write>>
  BY DEF Start, tables, entity, staged
<1>2. /\ op(r)' = c.op /\ uid'[r] = Subject(r, c) /\ phase'[r] = "running"
      /\ pc'[r] = 1 /\ write[r] = NoRow /\ ~snap[r].active
  <2>1. pc[r] = 1
    BY <1>1 DEF LockInv, ReqInv, Holds
  <2>2. write[r] = NoRow
    BY <1>1 DEF UserInv, Version, Past
  <2>3. ~snap[r].active
    BY <1>1 DEF UserInv, Subjects
  <2>. QED BY <1>0, <1>1, <2>1, <2>2, <2>3 DEF TypeOK, op
<1>3. AccountRows'
  BY <1>0, <1>1 DEF AccountRows, Exists
<1>4. UserLocks'
  BY <1>0, <1>1, <1>2 DEF UserLocks, TypeOK
<1>5. ASSUME NEW q \in Requests, q # r
      PROVE  (Version(q) /\ Subjects(q) /\ Backed(q))'
  <2>1. /\ op(q)' = op(q) /\ uid'[q] = uid[q] /\ phase'[q] = phase[q]
        /\ \A x : Past(q, x)' = Past(q, x)
    BY <1>0, <1>1, <1>5 DEF TypeOK, op, Past
  <2>. QED BY <1>1, <2>1 DEF UserInv, Version, Subjects, Backed, Exists
<1>6. (Version(r) /\ Subjects(r) /\ Backed(r))'
  <2>1. \A x : ~Past(r, x)'
    BY <1>0, <1>2, ScriptDomain DEF Past
  <2>2. c.op = "register" => Subject(r, c) = r
    BY DEF Subject, SessionOps, TokenOps, ModerationOps
  <2>3. /\ c.op # "register" /\ c.op \notin {"login", "forgot_password"}
        /\ c.op \notin ModerationOps
        => Exists(Subject(r, c))
    <3>1. c.op \in TokenOps => /\ c.tok \in Toks /\ tokens[c.tok].state # "none"
                               /\ Subject(r, c) = tokens[c.tok].user
      <4>1. mailed \subseteq Toks
        BY <1>0 DEF TypeOK
      <4>. QED BY <1>0, <1>1, <4>1 DEF Presentable, MailedExist, Subject,
              SessionOps, TokenOps, ModerationOps
    <3>2. c.op \in SessionOps \ ModerationOps =>
             /\ c.jti \in Jtis /\ sessions[c.jti].state # "none"
             /\ Subject(r, c) = sessions[c.jti].user
      BY <1>1 DEF Presentable, Subject, SessionOps, TokenOps
    <3>3. /\ c.op # "register" /\ c.op \notin {"login", "forgot_password"}
          /\ c.op \notin ModerationOps
          => c.op \in TokenOps \cup (SessionOps \ ModerationOps)
      BY <1>0 DEF SessionOps, TokenOps
    <3>. QED BY <1>0, <3>1, <3>2, <3>3 DEF AccountRows
  <2>4. Subjects(r)'
    BY <1>1, <1>2, <2>1, <2>2, <2>3 DEF Subjects, Exists
  <2>5. Version(r)'
    BY <1>1, <1>2 DEF Version
  <2>6. Backed(r)'
    <3>1. sessions[r].state = "none" /\ Backed(r)
      BY <1>0, <1>1 DEF Minting, UserInv
    <3>. QED BY <1>1, <1>2, <3>1 DEF Backed, Exists
  <2>. QED BY <2>4, <2>5, <2>6
<1>. QED BY <1>3, <1>4, <1>5, <1>6 DEF UserInv

LEMMA UserAging ==
    ASSUME RowInv, UserInv,
           \/ \E j \in Jtis : SessionAges(j)
           \/ \E t \in Toks : TokenExpires(t)
    PROVE  UserInv'
<1>0. TypeOK
  BY DEF RowInv, TypeInv
<1>1. UNCHANGED <<users, audit, phase, pc, snap, base, write, call, uid>>
  BY <1>0, AgingRows DEF entity, staged, request
<1>2. AccountRows' /\ UserLocks'
  BY <1>0, <1>1, AgingRows DEF UserInv, AccountRows, UserLocks, Exists
<1>3. ASSUME NEW q \in Requests
      PROVE  (Version(q) /\ Subjects(q) /\ Backed(q))'
  <2>1. op(q)' = op(q) /\ \A x : Past(q, x)' = Past(q, x)
    BY <1>1 DEF op, Past
  <2>2. sessions'[q].state = sessions[q].state
    BY <1>0, AgingRows DEF Jtis
  <2>. QED BY <1>1, <2>1, <2>2 DEF UserInv, Version, Subjects, Backed, Exists
<1>. QED BY <1>2, <1>3 DEF UserInv

LEMMA EntryFacts ==
    ASSUME NEW o \in Endpoints
    PROVE  /\ o \in PasswordOps => Entry(o) \in PasswordEntries
           /\ Entry(o) = "LOGIN" <=> o = "login"
           /\ Entry(o) = "REGISTER" <=> o = "register"
BY NamesAssumption, EndpointNames
   DEF Entry, PasswordOps, PasswordEntries, AuditAction

LEMMA UserCommit ==
    ASSUME RowInv, TypeOK', LockInv, UserInv, NEW r \in Requests, Commit(r)
    PROVE  UserInv'
<1>0. /\ TypeOK /\ Minting /\ StagedExist /\ AccountRows /\ UserLocks
      /\ Version(r) /\ Subjects(r) /\ Backed(r)
      /\ op(r) \in Endpoints /\ r \in Users /\ r \in Jtis /\ r \in Toks
      /\ uid[r] \in Users /\ write[r] \in UserRow
      /\ phase[r] = "running" /\ phase'[r] \in {"ok", "mailing"}
  BY CallFields, RowTypes, CommitRows
     DEF RowInv, TypeInv, UserInv, op, Users, Jtis, Toks
<1>1. /\ audit[r] = None /\ sessions[r].state = "none"
      /\ None \notin AuditAction /\ r # None
      /\ r \notin rev[r] /\ r \notin spend[r] /\ tokens[r].state = "none"
  BY <1>0, NamesAssumption DEF Minting, StagedExist, Users
<1>2. /\ ~Exists(r) /\ \A u \in Users : users[u].hash.salt # r
  BY <1>0, <1>1 DEF Backed, PasswordEntries, AuditAction
<1>3. pc[r] > 1 /\ (op(r) \in ModerationOps => pc[r] > 3)
  BY <1>0, ScriptReads DEF Commit, At
<1>4. op(r) # "register" => Exists(uid[r])
  BY <1>0, <1>3 DEF Subjects
<1>5. op(r) = "register" => uid[r] = r /\ write[r] # NoRow
  <2>1. op(r) = "register" => Past(r, "InsertUser")
    BY <1>0, ScriptReads DEF Commit, At, Past
  <2>. QED BY <1>0, <2>1 DEF Subjects
<1>6. /\ \A u \in Users \ {uid[r]} : users'[u] = users[u]
      /\ users'[uid[r]] = IF write[r] = NoRow THEN users[uid[r]] ELSE write[r]
  BY <1>0 DEF Commit, TypeOK
<1>7. write[r] # NoRow => write[r].hash.salt # None
  BY <1>0, <1>1, <1>4 DEF Version, Exists, PasswordOps
<1>8. \A u \in Users : Exists(u) => Exists(u)'
  BY <1>6, <1>7 DEF Exists
<1>9. users'[uid[r]].hash.salt # None
  BY <1>0, <1>4, <1>5, <1>6, <1>7 DEF Exists
<1>10. \A u \in Users : Exists(u)' =>
          Exists(u) \/ (u = r /\ op(r) = "register")
  <2>1. ASSUME NEW u \in Users, users'[u].hash.salt # None, ~Exists(u)
        PROVE  u = r /\ op(r) = "register"
    <3>1. users'[u] # users[u]
      BY <2>1 DEF Exists
    <3>2. u = uid[r]
      BY <1>6, <3>1
    <3>. QED BY <1>4, <1>5, <2>1, <3>2 DEF Exists
  <2>. QED BY <2>1 DEF Exists
<1>11. AccountRows'
  <2>1. \A u \in Users : (Exists(u) \/ users[u] = NoRow)'
    BY <1>0, <1>6, <1>7 DEF AccountRows, Exists
  <2>2. ASSUME NEW j \in Jtis, sessions'[j].state # "none"
        PROVE  Exists(sessions[j].user)'
    <3>1. CASE sessions[j].state # "none"
      <4>1. sessions'[j].user = sessions[j].user /\ Exists(sessions[j].user)
        BY <1>0, <3>1, CommitRows DEF AccountRows
      <4>2. sessions[j].user \in Users
        <5>1. sessions[j] \in SessionRow
          BY <1>0 DEF TypeOK
        <5>. QED BY <5>1 DEF SessionRow
      <4>. QED BY <1>8, <4>1, <4>2 DEF Exists
    <3>2. CASE sessions[j].state = "none"
      <4>1. j \notin rev[r]
        BY <1>0, <3>2 DEF StagedExist
      <4>2. j = r /\ sessions'[j] = NewSession(r)
        BY <2>2, <3>2, <4>1 DEF Commit, SessionAfter
      <4>. QED BY <1>9, <4>2 DEF NewSession, Exists
    <3>. QED BY <3>1, <3>2
  <2>3. ASSUME NEW t \in Toks, tokens'[t].state # "none"
        PROVE  Exists(tokens[t].user)'
    <3>1. CASE tokens[t].state # "none"
      <4>1. tokens'[t].user = tokens[t].user /\ Exists(tokens[t].user)
        BY <1>0, <3>1, CommitRows DEF AccountRows
      <4>2. tokens[t].user \in Users
        <5>1. tokens[t] \in TokenRow
          BY <1>0 DEF TypeOK
        <5>. QED BY <5>1 DEF TokenRow
      <4>. QED BY <1>8, <4>1, <4>2 DEF Exists
    <3>2. CASE tokens[t].state = "none"
      <4>1. t \notin spend[r]
        BY <1>0, <3>2 DEF StagedExist
      <4>2. t = r /\ tokens'[t] = NewToken(r)
        BY <2>3, <3>2, <4>1 DEF Commit, TokenAfter
      <4>. QED BY <1>9, <4>2 DEF NewToken, Exists
    <3>. QED BY <3>1, <3>2
  <2>. QED BY <2>1, <2>2, <2>3 DEF AccountRows
<1>12. UserLocks'
  BY <1>0, CommitRows DEF UserLocks
<1>13. ASSUME NEW q \in Requests, q # r
       PROVE  (Version(q) /\ Subjects(q) /\ Backed(q))'
  <2>0. Version(q) /\ Subjects(q) /\ Backed(q) /\ q \in Users /\ q \in Jtis
        /\ uid[q] \in Users
    BY <1>0, RowTypes DEF UserInv, Users, Jtis
  <2>1. /\ op(q)' = op(q) /\ uid'[q] = uid[q] /\ phase'[q] = phase[q]
        /\ pc'[q] = pc[q] /\ write'[q] = write[q] /\ audit'[q] = audit[q]
        /\ snap'[q] = snap[q] /\ base'[q] = base[q]
        /\ \A x : Past(q, x)' = Past(q, x)
    BY <1>0, <1>13, CommitRows, StepEntities DEF op, Past, Step
  <2>2. write[q] # NoRow => users'[uid[q]] = users[uid[q]]
    BY <1>0, <1>6, <1>13, <2>0 DEF UserLocks
  <2>3. Version(q)'
    BY <2>0, <2>1, <2>2 DEF Version, Exists
  <2>4. Subjects(q)'
    BY <1>8, <2>0, <2>1 DEF Subjects, Exists
  <2>5. Backed(q)'
    <3>1. \A u \in Users : users'[u].hash.salt = q => users[u].hash.salt = q
      BY <1>0, <1>6, <1>13 DEF Version
    <3>2. sessions'[q].state # "none" <=> sessions[q].state # "none"
      BY <1>0, <1>13, <2>0, CommitRows DEF StagedExist
    <3>3. Exists(q)' <=> Exists(q)
      BY <1>8, <1>10, <1>13, <2>0
    <3>. QED BY <2>0, <2>1, <3>1, <3>2, <3>3 DEF Backed
  <2>. QED BY <2>3, <2>4, <2>5
<1>14. (Version(r) /\ Subjects(r) /\ Backed(r))'
  <2>1. /\ op(r)' = op(r) /\ uid'[r] = uid[r] /\ write'[r] = NoRow
        /\ ~snap'[r].active /\ audit'[r] = Entry(op(r))
    <3>1. snap'[r] = NoRow /\ audit'[r] = Entry(op(r))
      BY <1>0 DEF Commit, Discard, TypeOK
    <3>2. ~NoRow.active
      BY DEF NoRow
    <3>. QED BY <1>0, <3>1, <3>2, CommitRows DEF op
  <2>2. Version(r)' /\ Subjects(r)'
    BY <1>0, <2>1 DEF Version, Subjects, Past
  <2>3. Backed(r)'
    <3>1. \A u \in Users : users'[u].hash.salt = r => op(r) \in PasswordOps
      BY <1>0, <1>2, <1>6 DEF Version
    <3>2. sessions'[r] = IF OpensSession(r) THEN NewSession(r) ELSE sessions[r]
      BY <1>0, <1>1 DEF Commit, SessionAfter
    <3>3. sessions'[r].state # "none" <=> op(r) \in {"login", "refresh"}
      BY <1>1, <3>2 DEF OpensSession, NewSession
    <3>4. Exists(r)' <=> op(r) = "register"
      BY <1>0, <1>2, <1>5, <1>9, <1>10 DEF Exists
    <3>. QED BY <1>0, <2>1, <3>1, <3>3, <3>4, EntryFacts DEF Backed
  <2>. QED BY <2>2, <2>3
<1>. QED BY <1>11, <1>12, <1>13, <1>14 DEF UserInv

LEMMA UserStatement ==
    ASSUME RowInv, TypeOK', LockInv, UserInv, NEW r \in Requests,
           Step(r) \/ Crash(r) \/ DeadlockVictim(r), ~Commit(r)
    PROVE  UserInv'
<1>0. /\ TypeOK /\ Minting /\ AccountRows /\ UserLocks
      /\ Version(r) /\ Subjects(r) /\ Backed(r)
      /\ op(r) \in Endpoints /\ op(r)' = op(r) /\ r \in Users
      /\ UNCHANGED <<users, sessions, tokens>>
      /\ phase'[r] # "idle" /\ pc[r] \in Nat
  BY CallFields, StepKeepsCall, StepEffects
     DEF RowInv, TypeInv, UserInv, op, Users, TypeOK
<1>0a. r # None
  BY NamesAssumption DEF Users
<1>1. \/ uid'[r] = uid[r]
      \/ /\ op(r) \in {"login", "forgot_password"} /\ pc[r] = 1
         /\ write'[r] = NoRow
         /\ phase'[r] = "running" => Exists(uid[r])'
  <2>1. CASE LoginRead(r) \/ ForgotRead(r)
    <3>1. op(r) \in {"login", "forgot_password"} /\ pc[r] = 1
      BY <1>0, <2>1, StatementAt, ScriptOwners DEF At
    <3>2. write[r] = NoRow
      BY <1>0, <3>1, FirstMove DEF Version
    <3>3. ~UpdateRow(r) /\ ~InsertUser(r) /\ ~UpdatePassword(r)
      BY <2>1, StatementAt DEF At
    <3>4. write'[r] = NoRow
      BY <1>0, <3>2, <3>3, StepWrites
    <3>5. phase'[r] = "running" => \E u \in Users : users[u].active
                                       /\ uid' = [uid EXCEPT ![r] = u]
      BY <1>0, <2>1 DEF LoginRead, ForgotRead, Leave, get_by_email, TypeOK
    <3>6. \A u \in Users : users[u].active => Exists(u)
      BY <1>0 DEF AccountRows, NoRow
    <3>. QED BY <1>0, <3>1, <3>4, <3>5, <3>6 DEF Exists, TypeOK
  <2>2. CASE ~(LoginRead(r) \/ ForgotRead(r))
    BY <1>0, <2>2, StepSubject
  <2>. QED BY <2>1, <2>2
<1>2. write'[r] # NoRow => phase'[r] = "running"
  BY <1>0, EndsClean
<1>3. ASSUME write[r] # NoRow, phase'[r] = "running"
      PROVE  /\ write'[r] = write[r] /\ snap'[r] = snap[r]
             /\ base'[r] = base[r] /\ uid'[r] = uid[r]
             /\ \E x \in WriteStatements : Past(r, x)'
  <2>1. PICK x \in WriteStatements : Past(r, x)
    BY <1>0, <1>3 DEF Version
  <2>2. /\ Step(r) /\ phase[r] = "running" /\ pc[r] \in DOMAIN Script[op(r)]
    BY <1>0, <1>3, Moves
  <2>3. /\ Script[op(r)][pc[r]] \notin WriteStatements \cup LoadStatements
        /\ Script[op(r)][pc[r]] # "Reload"
    BY <1>0, <2>1, <2>2, ScriptAfterWrite DEF Past
  <2>4. \A y \in WriteStatements \cup LoadStatements \cup {"Reload"} :
           ~At(r, y)
    BY <2>3 DEF At
  <2>5. ~UpdateRow(r) /\ ~InsertUser(r) /\ ~UpdatePassword(r)
        /\ ~LoginRead(r) /\ ~ForgotRead(r)
    BY <2>4, StatementAt DEF WriteStatements, LoadStatements
  <2>6. write'[r] = write[r] /\ uid'[r] = uid[r]
    BY <1>0, <1>3, <2>5, StepWrites, StepSubject
  <2>7. (snap'[r] = snap[r] /\ base'[r] = base[r]) \/ snap'[r] = NoRow
    BY <1>0, <2>4, StepLoads
  <2>8. snap'[r] = snap[r] /\ base'[r] = base[r]
    <3>1. \/ AuthSession(r) \/ AuthUser(r) \/ Decode(r)
          \/ RefreshReadSession(r) \/ ReadOwnSession(r) \/ ReadToken(r)
          \/ RegisterCheck(r) \/ CheckEmail(r) \/ RevokeJti(r)
          \/ ScanSessions(r) \/ RevokeAll(r) \/ MarkUsed(r)
          \/ ScanTokens(r) \/ Invalidate(r)
      <4>1. ~Send(r)
        BY <2>2 DEF Send
      <4>. QED BY <2>2, <2>4, <4>1, StatementAt
              DEF Step, WriteStatements, LoadStatements
    <3>. QED BY <1>0, <1>3, <3>1 DEF AuthSession, AuthUser, Decode,
            RefreshReadSession, ReadOwnSession, ReadToken, RegisterCheck,
            CheckEmail, RevokeJti, ScanSessions, RevokeAll, MarkUsed,
            ScanTokens, Invalidate, Deny, Leave, entity, TypeOK
  <2>9. Past(r, x)'
    BY <1>0, <1>3, <2>1, PastStays
  <2>. QED BY <2>1, <2>6, <2>8, <2>9
<1>4. ASSUME write[r] = NoRow, write'[r] # NoRow
      PROVE  \/ UpdateRow(r) \/ InsertUser(r) \/ UpdatePassword(r)
  BY <1>0, <1>4, StepWrites
<1>5. AccountRows'
  BY <1>0 DEF AccountRows, Exists
<1>6. UserLocks'
  <2>1. ASSUME NEW s \in Requests, s # r, write'[r] # NoRow, write[s] # NoRow
        PROVE  uid'[r] # uid[s]
    <3>1. CASE write[r] # NoRow
      BY <1>0, <1>2, <1>3, <2>1, <3>1 DEF UserLocks
    <3>2. CASE write[r] = NoRow
      <4>1. WritesUser(r) /\ Unblocked(r)
        BY <1>0, <1>4, <2>1, <3>2 DEF UpdateRow, InsertUser,
           UpdatePassword, WritesUser, Leave, Discard, staged,
           TypeOK
      <4>. QED BY <1>1, <2>1, <4>1 DEF Unblocked, Conflict
    <3>. QED BY <3>1, <3>2
  <2>2. \A s \in Requests \ {r} : write'[s] = write[s] /\ uid'[s] = uid[s]
    BY <1>0, StepEffects
  <2>. QED BY <1>0, <2>1, <2>2 DEF UserLocks
<1>7. ASSUME NEW q \in Requests, q # r
      PROVE  (Version(q) /\ Subjects(q) /\ Backed(q))'
  <2>1. /\ op(q)' = op(q) /\ uid'[q] = uid[q] /\ phase'[q] = phase[q]
        /\ pc'[q] = pc[q] /\ write'[q] = write[q] /\ audit'[q] = audit[q]
        /\ snap'[q] = snap[q] /\ base'[q] = base[q]
        /\ \A x : Past(q, x)' = Past(q, x)
    BY <1>0, <1>7, StepEffects, StepEntities, StepKeepsCall
       DEF op, Past, TypeOK
  <2>. QED BY <1>0, <2>1 DEF UserInv, Version, Subjects, Backed, Exists
<1>8. Version(r)'
  <2>1. CASE write'[r] = NoRow
    BY <2>1 DEF Version
  <2>2. CASE write'[r] # NoRow /\ write[r] # NoRow
    BY <1>0, <1>2, <1>3, <2>2 DEF Version, Exists
  <2>3. CASE write'[r] # NoRow /\ write[r] = NoRow
    <3>0. /\ phase'[r] = "running" /\ uid'[r] = uid[r]
          /\ users[uid[r]] \in UserRow
      BY <1>0, <1>1, <1>2, <2>3, RowTypes
    <3>1. CASE UpdateRow(r)
      <4>1. /\ op(r) \in {"verify_email", "update_me", "delete_me", "ban",
                          "unban"}
            /\ pc[r] > 3 /\ At(r, "UpdateRow") /\ phase[r] = "running"
        BY <1>0, <3>1, StatementAt, WritePlaces DEF At
      <4>2. /\ write'[r] = Merged(r, users[uid[r]])
            /\ snap'[r] = snap[r] /\ base'[r] = base[r]
        BY <1>0, <2>3, <3>0, <3>1
           DEF UpdateRow, Leave, Discard, entity, staged, TypeOK
      <4>3. /\ write'[r].hash = users[uid[r]].hash
            /\ write'[r].active = IF snap[r].active # base[r].active
                                  THEN snap[r].active
                                  ELSE users[uid[r]].active
            /\ write'[r].email = IF snap[r].email # base[r].email
                                 THEN snap[r].email
                                 ELSE users[uid[r]].email
            /\ write'[r].verified = IF snap[r].verified # base[r].verified
                                    THEN snap[r].verified
                                    ELSE users[uid[r]].verified
        BY <3>0, <4>2 DEF Merged, UserRow
      <4>4. Exists(uid[r])
        BY <1>0, <4>1 DEF Subjects
      <4>5. Past(r, "UpdateRow")'
        BY <1>0, <3>0, <4>1, PastStays
      <4>. QED BY <1>0, <3>0, <4>1, <4>2, <4>3, <4>4, <4>5
              DEF Version, PasswordOps, WriteStatements, Exists
    <3>2. CASE InsertUser(r)
      <4>1. op(r) = "register" /\ At(r, "InsertUser")
        BY <1>0, <3>2, StatementAt, WritePlaces DEF At
      <4>2. write'[r].hash.salt = r /\ ~write'[r].verified
        BY <1>0, <2>3, <3>2 DEF InsertUser, Leave, Discard, TypeOK
      <4>3. Past(r, "InsertUser")'
        BY <1>0, <3>0, <4>1, PastStays
      <4>. QED BY <1>0, <4>1, <4>2, <4>3
              DEF Version, PasswordOps, WriteStatements
    <3>3. CASE UpdatePassword(r)
      <4>1. /\ op(r) \in {"change_password", "reset_password"}
            /\ At(r, "UpdatePassword") /\ phase[r] = "running"
        BY <1>0, <3>3, StatementAt, WritePlaces DEF At
      <4>2. write'[r] = [users[uid[r]] EXCEPT
                            !.hash = [pw |-> call[r].new, salt |-> r]]
        BY <1>0, <3>3 DEF UpdatePassword, TypeOK
      <4>3. /\ write'[r].hash.salt = r
            /\ write'[r].active = users[uid[r]].active
            /\ write'[r].email = users[uid[r]].email
            /\ write'[r].verified = users[uid[r]].verified
        BY <3>0, <4>2 DEF UserRow
      <4>4. Exists(uid[r])
        BY <1>0, <4>1 DEF Subjects, ModerationOps
      <4>5. Past(r, "UpdatePassword")'
        BY <1>0, <3>0, <4>1, PastStays
      <4>. QED BY <1>0, <3>0, <4>1, <4>3, <4>4, <4>5
              DEF Version, PasswordOps, WriteStatements, Exists
    <3>. QED BY <1>4, <2>3, <3>1, <3>2, <3>3
  <2>. QED BY <2>1, <2>2, <2>3
<1>9. Subjects(r)'
  <2>1. op(r) = "register" => uid'[r] = r
    <3>1. phase[r] # "idle"
      BY StepKeepsCall
    <3>. QED BY <1>0, <1>1, <3>1 DEF Subjects
  <2>2. ASSUME op(r) = "register", Past(r, "InsertUser")'
        PROVE  write'[r] # NoRow
    <3>0. phase'[r] = "running"
      BY <2>2 DEF Past
    <3>1. Past(r, "InsertUser") \/ At(r, "InsertUser")
      <4>1. /\ phase[r] = "running" /\ pc[r] \in DOMAIN Script[op(r)]
            /\ pc'[r] = pc[r] + 1
        BY <1>0, <2>2, <3>0, Moves
      <4>2. PICK k \in DOMAIN Script[op(r)] :
                 k < pc'[r] /\ Script[op(r)][k] = "InsertUser"
        BY <1>0, <2>2 DEF Past
      <4>3. k \in Nat /\ (k < pc[r] \/ k = pc[r])
        BY <1>0, <4>1, <4>2, ScriptDomain
      <4>. QED BY <4>1, <4>2, <4>3 DEF Past, At
    <3>2. CASE Past(r, "InsertUser")
      BY <1>0, <1>3, <2>2, <3>0, <3>2 DEF Subjects
    <3>3. CASE At(r, "InsertUser")
      <4>1. Step(r) /\ phase[r] = "running"
        BY <1>0, <3>0, Moves
      <4>2. InsertUser(r)
        <5>1. \A x : At(r, x) => x = "InsertUser"
          BY <3>3 DEF At
        <5>2. ~Send(r)
          BY <4>1 DEF Send
        <5>. QED BY <4>1, <5>1, <5>2, StatementAt DEF Step
      <4>3. write'[r].hash.salt = r
        BY <1>0, <3>0, <4>2 DEF InsertUser, Leave, Discard, TypeOK
      <4>. QED BY <1>0a, <4>3 DEF NoRow
    <3>. QED BY <3>1, <3>2, <3>3
  <2>3. ASSUME phase'[r] = "running", op(r) # "register",
               op(r) \in {"login", "forgot_password"} => pc'[r] > 1,
               op(r) \in ModerationOps => pc'[r] > 3
        PROVE  Exists(uid[r])'
    <3>0. /\ Step(r) /\ phase[r] = "running" /\ pc[r] \in DOMAIN Script[op(r)]
          /\ pc[r] >= 1
      BY <1>0, <2>3, Moves, ScriptDomain
    <3>1. CASE uid'[r] # uid[r]
      BY <1>1, <2>3, <3>1
    <3>2. CASE uid'[r] = uid[r] /\ op(r) \in {"login", "forgot_password"}
               /\ pc[r] = 1
      <4>1. LoginRead(r) \/ ForgotRead(r)
        <5>1. \A x : At(r, x) => x \in {"LoginRead", "ForgotRead"}
          BY <1>0, <3>0, <3>2, ScriptReads DEF At
        <5>2. ~Send(r)
          BY <3>0 DEF Send
        <5>. QED BY <3>0, <5>1, <5>2, StatementAt DEF Step
      <4>2. \E u \in Users : users[u].active /\ uid' = [uid EXCEPT ![r] = u]
        BY <1>0, <2>3, <4>1
           DEF LoginRead, ForgotRead, Leave, get_by_email, TypeOK
      <4>3. \A u \in Users : users[u].active => Exists(u)
        BY <1>0 DEF AccountRows, NoRow
      <4>. QED BY <1>0, <4>2, <4>3 DEF Exists, TypeOK
    <3>3. CASE uid'[r] = uid[r] /\ op(r) \in ModerationOps /\ ~(pc[r] > 3)
      <4>1. pc[r] = 3
        BY <1>0, <2>3, <3>0, <3>3, Moves DEF ModerationOps
      <4>2. BanRead(r) \/ UnbanRead(r)
        <5>1. \A x : At(r, x) => x \in {"BanRead", "UnbanRead"}
          BY <1>0, <3>0, <3>3, <4>1, ScriptReads DEF At, ModerationOps
        <5>2. ~Send(r)
          BY <3>0 DEF Send
        <5>. QED BY <3>0, <5>1, <5>2, StatementAt DEF Step
      <4>3. users[uid[r]] # NoRow
        BY <1>0, <2>3, <4>2 DEF BanRead, UnbanRead, Deny, Leave, TypeOK
      <4>. QED BY <1>0, <3>3, <4>3, RowTypes DEF AccountRows, Exists
    <3>4. CASE /\ uid'[r] = uid[r]
               /\ op(r) \in {"login", "forgot_password"} => pc[r] > 1
               /\ op(r) \in ModerationOps => pc[r] > 3
      BY <1>0, <2>3, <3>0, <3>4 DEF Subjects, Exists
    <3>. QED BY <1>0, <3>0, <3>1, <3>2, <3>3, <3>4
  <2>4. op(r) \in {"ban", "delete_me"} => ~snap'[r].active
    <3> SUFFICES ASSUME op(r) \in {"ban", "delete_me"}
                 PROVE  ~snap'[r].active
      OBVIOUS
    <3>1. ~NoRow.active /\ ~snap[r].active
      BY <1>0 DEF Subjects, NoRow
    <3>2. CASE \E x \in LoadStatements : At(r, x)
      <4>1. At(r, "BanRead") \/ At(r, "DeleteRead")
        BY <1>0, <3>2, ScriptReads DEF At
      <4>2. phase[r] = "running" /\ \A x : At(r, x) => x \in {"BanRead", "DeleteRead"}
        BY <4>1 DEF At
      <4>3. \/ BanRead(r) \/ DeleteRead(r) \/ Crash(r) \/ DeadlockVictim(r)
        <5>1. ~Send(r)
          BY <4>2 DEF Send
        <5>. QED BY <4>2, <5>1, StatementAt DEF Step
      <4>4. users[uid[r]] \in UserRow
        BY <1>0, RowTypes
      <4>5. ~[users[uid[r]] EXCEPT !.active = FALSE].active
        BY <4>4 DEF UserRow
      <4>6. \/ snap' = [snap EXCEPT ![r] = NoRow]
            \/ snap' = [snap EXCEPT
                  ![r] = [users[uid[r]] EXCEPT !.active = FALSE]]
        BY <4>3 DEF BanRead, DeleteRead, Crash, DeadlockVictim, Load, Deny,
           Leave, Discard
      <4>7. snap \in [Requests -> UserRow]
        BY <1>0 DEF TypeOK
      <4>. QED BY <3>1, <4>5, <4>6, <4>7
    <3>. QED BY <1>0, <3>1, <3>2, StepLoads
  <2>. QED BY <1>0, <2>1, <2>2, <2>3, <2>4 DEF Subjects
<1>10. Backed(r)'
  <2>1. audit'[r] = audit[r] \/
        (audit'[r] = "LOGIN_FAILED" /\ phase[r] = "running"
           /\ phase'[r] = "denied")
    BY <1>0, StepEffects DEF At, TypeOK
  <2>2. phase'[r] = "denied" => phase[r] = "running"
    <3>1. CASE Crash(r) \/ DeadlockVictim(r) \/ Send(r)
      BY <1>0, <3>1 DEF Crash, DeadlockVictim, Send, Leave, TypeOK
    <3>2. CASE Step(r) /\ ~Send(r)
      BY <3>2, StatementAt DEF Step, At
    <3>. QED BY <3>1, <3>2
  <2>3. phase[r] = "running" =>
           audit[r] = None /\ sessions[r].state = "none" /\ ~Exists(r)
           /\ \A u \in Users : users[u].hash.salt # r
    BY <1>0, NamesAssumption DEF Minting, Backed, PasswordEntries, AuditAction
  <2>. QED BY <1>0, <2>1, <2>2, <2>3 DEF Backed, Exists
<1>. QED BY <1>5, <1>6, <1>7, <1>8, <1>9, <1>10 DEF UserInv

LEMMA UserInvInit == Init => UserInv
<1> SUFFICES ASSUME Init PROVE UserInv
  OBVIOUS
<1>1. /\ NoRow.hash.salt = None /\ ~NoRow.active /\ None \notin AuditAction
      /\ None \notin Users
  BY NamesAssumption DEF NoRow
<1>2. /\ \A u \in SeedUsers : users[u].hash.salt = u
      /\ \A u \in Users \ SeedUsers : users[u] = NoRow
      /\ SeedUsers \subseteq Users /\ SeedUsers \cap Requests = {}
      /\ Requests \subseteq Users \ SeedUsers
  BY NamesAssumption DEF Init, Users
<1>3. \A u \in SeedUsers : Exists(u)
  BY <1>1, <1>2 DEF Exists
<1>4. AccountRows
  <2>1. \A j \in Jtis :
           sessions[j].state # "none" => sessions[j].user \in SeedUsers
    BY SeedAssumption DEF Init
  <2>2. \A t \in Toks :
           tokens[t].state # "none" => tokens[t].user \in SeedUsers
    BY SeedAssumption DEF Init
  <2>. QED BY <1>2, <1>3, <2>1, <2>2 DEF AccountRows
<1>5. /\ \A r \in Requests : /\ write[r] = NoRow /\ snap[r] = NoRow
                             /\ phase[r] = "idle" /\ op(r) = "me"
                             /\ audit[r] = None
                             /\ r \in Jtis
      /\ UserLocks
  BY DEF Init, UserLocks, op, NoCall, Jtis
<1>6. \A r \in Requests : sessions[r].state = "none"
  BY NamesAssumption, <1>5 DEF Init
<1>7. ASSUME NEW r \in Requests PROVE Version(r) /\ Subjects(r) /\ Backed(r)
  <2>1. ~Exists(r) /\ \A u \in Users : users[u].hash.salt # r
    BY <1>1, <1>2 DEF Exists
  <2>. QED BY <1>1, <1>5, <1>6, <2>1
           DEF Version, Subjects, Backed, Past, AuditAction
<1>. QED BY <1>4, <1>5, <1>7 DEF UserInv

LEMMA UserInvStep == RowInv /\ LockInv /\ UserInv /\ [Next]_vars => UserInv'
<1> SUFFICES ASSUME RowInv, LockInv, UserInv, [Next]_vars PROVE UserInv'
  OBVIOUS
<1>0. TypeOK'
  BY TypeInvStep DEF RowInv, TypeInv
<1>1. ASSUME UNCHANGED vars PROVE UserInv'
  BY <1>1 DEF UserInv, AccountRows, UserLocks, Version, Subjects, Backed,
              Exists, Past, op, vars, tables, entity, staged, request
<1>2. CASE Next
  BY <1>0, <1>1, <1>2, UserStart, UserAging, UserCommit, UserStatement
     DEF Next, Quiet
<1>. QED BY <1>1, <1>2

LEMMA UserInvariant == Spec => []UserInv
BY UserInvInit, UserInvStep, LockInvariant, RowInvariant, PTL DEF Spec

-----------------------------------------------------------------------------
\* Only a commit changes a user row, and only that of its own account.
LEMMA WhoWrites ==
    ASSUME RowInv, UserInv, Next, NEW u \in Users, users'[u] # users[u]
    PROVE  \E r \in Requests :
              /\ Commit(r) /\ uid[r] = u
              /\ write[r] # NoRow /\ users'[u] = write[r]
<1>0. TypeOK
  BY DEF RowInv, TypeInv
<1>1. ASSUME NEW r \in Requests, NEW c \in Calls, Start(r, c) PROVE FALSE
  BY <1>1 DEF Start, tables
<1>2. ASSUME \/ \E j \in Jtis : SessionAges(j)
             \/ \E t \in Toks : TokenExpires(t)
      PROVE  FALSE
  BY <1>2 DEF SessionAges, TokenExpires
<1>3. ASSUME NEW r \in Requests, Step(r) \/ Crash(r) \/ DeadlockVictim(r),
             ~Commit(r)
      PROVE  FALSE
  BY <1>0, <1>3, StepEffects
<1>4. CASE Quiet
  BY <1>4 DEF Quiet, vars, tables
<1>5. PICK r \in Requests : Commit(r)
  BY <1>1, <1>2, <1>3, <1>4 DEF Next
<1>6. uid[r] = u /\ write[r] # NoRow /\ users'[u] = write[r]
  BY <1>0, <1>5 DEF Commit, TypeOK
<1>. QED BY <1>5, <1>6

\* A password hash changes only with the audit row of a registration, a
\* change or a reset of that account: no profile, ban or verification write
\* brings an old password back.
THEOREM PasswordsNotClobbered == Spec => PasswordNotClobbered
<1> DEFINE Explained ==
      \A u \in Users : users'[u].hash # users[u].hash =>
            \E r \in Requests : /\ uid[r] = u
                                /\ audit[r] = None
                                /\ audit'[r] \in PasswordEntries
<1>1. RowInv /\ UserInv /\ [Next]_vars => [Explained]_vars
  <2> SUFFICES ASSUME RowInv, UserInv, Next, NEW u \in Users,
                      users'[u].hash # users[u].hash
               PROVE  \E r \in Requests : /\ uid[r] = u
                                          /\ audit[r] = None
                                          /\ audit'[r] \in PasswordEntries
    OBVIOUS
  <2>1. PICK r \in Requests : /\ Commit(r) /\ uid[r] = u
                              /\ write[r] # NoRow /\ users'[u] = write[r]
    BY WhoWrites
  <2>2. TypeOK /\ Minting /\ Version(r) /\ op(r) \in Endpoints
    BY CallFields DEF RowInv, TypeInv, UserInv, op
  <2>3. op(r) \in PasswordOps
    BY <2>1, <2>2 DEF Version
  <2>4. audit[r] = None
    BY <2>1, <2>2, CommitRows DEF Minting
  <2>5. audit'[r] = Entry(op(r))
    BY <2>1, <2>2 DEF Commit, TypeOK
  <2>6. audit'[r] \in PasswordEntries
    BY <2>2, <2>3, <2>5, EntryFacts
  <2>. QED BY <2>1, <2>4, <2>6
<1>. QED BY <1>1, UserInvariant, RowInvariant, PTL
         DEF Spec, PasswordNotClobbered

\* An inactive account becomes active again only when an unban commits, or a
\* profile update or verification whose entity was read before the
\* deactivation and whose row was fetched again after it.
THEOREM ReactivationsExplained == Spec => ReactivationExplained
<1> DEFINE Explained ==
      \A u \in Users :
            users[u] # NoRow /\ ~users[u].active /\ users'[u].active =>
            \E r \in Requests :
                /\ uid[r] = u /\ At(r, "Commit")
                /\ snap[r].active /\ ~base[r].active
                /\ op(r) \in {"unban", "update_me", "verify_email"}
<1>1. RowInv /\ UserInv /\ [Next]_vars => [Explained]_vars
  <2> SUFFICES ASSUME RowInv, UserInv, Next, NEW u \in Users,
                      users[u] # NoRow, ~users[u].active, users'[u].active
               PROVE  \E r \in Requests :
                        /\ uid[r] = u /\ At(r, "Commit")
                        /\ snap[r].active /\ ~base[r].active
                        /\ op(r) \in {"unban", "update_me", "verify_email"}
    OBVIOUS
  <2>1. PICK r \in Requests : /\ Commit(r) /\ uid[r] = u
                              /\ write[r] # NoRow /\ users'[u] = write[r]
    BY WhoWrites
  <2>2. /\ TypeOK /\ Minting /\ AccountRows /\ Version(r) /\ Subjects(r)
        /\ Backed(r) /\ op(r) \in Endpoints
        /\ snap[r].active \in BOOLEAN /\ base[r].active \in BOOLEAN
    <3>1. TypeOK
      BY DEF RowInv, TypeInv
    <3>2. snap[r] \in UserRow /\ base[r] \in UserRow
      BY <3>1, RowTypes
    <3>. QED BY <3>1, <3>2, CallFields DEF RowInv, UserInv, op, UserRow
  <2>3. phase[r] = "running" /\ At(r, "Commit") /\ audit[r] = None
    <3>1. At(r, "Commit")
      BY <2>1 DEF Commit
    <3>. QED BY <2>2, <3>1 DEF Minting, At
  <2>4. op(r) # "register"
    <3>1. Exists(u) /\ ~Exists(r)
      BY <2>2, <2>3, NamesAssumption DEF AccountRows, Backed, AuditAction
    <3>. QED BY <2>1, <2>2, <2>3, <3>1 DEF Subjects
  <2>5. op(r) \notin PasswordOps
    BY <2>1, <2>2, <2>4 DEF Version
  <2>6. write[r].active = snap[r].active /\ snap[r].active # base[r].active
    BY <2>1, <2>2, <2>5 DEF Version
  <2>7. snap[r].active /\ ~base[r].active
    BY <2>1, <2>2, <2>6
  <2>8. op(r) \in {"unban", "update_me", "verify_email"}
    <3>1. op(r) \notin {"ban", "delete_me"}
      BY <2>2, <2>7 DEF Subjects
    <3>2. \E x \in WriteStatements : Past(r, x)
      BY <2>1, <2>2 DEF Version
    <3>3. \E k \in DOMAIN Script[op(r)] : Script[op(r)][k] \in WriteStatements
      BY <3>2 DEF Past
    <3>. QED BY <2>2, <2>5, <3>1, <3>3, WritePlaces
             DEF WriteStatements, PasswordOps
  <2>. QED BY <2>1, <2>3, <2>7, <2>8
<1>. QED BY <1>1, UserInvariant, RowInvariant, PTL
         DEF Spec, ReactivationExplained

\* A password, a session and an account are in the tables together with the
\* audit row of the request that made them, or not at all, whatever crashed.
THEOREM CommitsAreAudited == Spec => []EffectsAudited
<1>1. UserInv => EffectsAudited
  <2>1. ASSUME UserInv, NEW r \in Requests
        PROVE  Backed(r) /\ (users[r] # NoRow <=> Exists(r))
    <3>1. NoRow.hash.salt = None /\ r \in Users
      BY DEF NoRow, Users
    <3>2. Backed(r) /\ (Exists(r) \/ users[r] = NoRow)
      BY <2>1, <3>1 DEF UserInv, AccountRows
    <3>. QED BY <3>1, <3>2 DEF Exists
  <2>. QED BY <2>1 DEF EffectsAudited, Backed
<1>. QED BY <1>1, UserInvariant, PTL

====
