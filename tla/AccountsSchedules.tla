------------------------- MODULE AccountsSchedules -------------------------
(***************************************************************************)
(* What the transactions of Accounts can do to each other, for every value *)
(* of the constants and every schedule.                                    *)
(*                                                                         *)
(* DeadlocksAreKnown      two transactions wait for each other only in the *)
(*                        three ways OppositeOrder lists.                  *)
(* DeadlocksArePairs      every deadlock, of whatever length, contains     *)
(*                        such a pair.                                     *)
(* CredentialsAreConsumed a refresh token exchanged and a link followed    *)
(*                        are worthless afterwards.                        *)
(* UnsoundSessionsExplained, UnprovenAddressesExplained                    *)
(*                        where the documentation's promises about         *)
(*                        sessions and verified addresses give way, it is  *)
(*                        in the overlaps these properties name and in no  *)
(*                        other.                                           *)
(*                                                                         *)
(* The first two follow from the order in which the use cases take their   *)
(* locks (HoldInv), the others from what a transaction has seen and still  *)
(* holds when it commits (UseInv, LinkInv).                                *)
(***************************************************************************)
EXTENDS AccountsRows

-----------------------------------------------------------------------------
\* What a transaction holds, it has locked by a statement behind it: the
\* sessions and links it ends and the row of a password it sets; and the
\* links it spends are of the purpose its endpoint looks links up with.
Locked(r) ==
    /\ rev[r] # {} => Past(r, "RevokeJti") \/ Past(r, "RevokeAll")
    /\ spend[r] # {} => Past(r, "MarkUsed") \/ Past(r, "Invalidate")
    /\ \A t \in spend[r] : tokens[t].purpose = PurposeOf(op(r))
    /\ Past(r, "ReadToken") =>
          tokens[call[r].tok].purpose = PurposeOf(op(r))
    /\ Past(r, "UpdatePassword") => write[r] # NoRow

HoldInv == \A r \in Requests : Locked(r)

Waiting(r) == \E s \in Requests \ {r} : Conflict(r, s)

\* How far a transaction that waits has come: it holds nothing yet, it needs
\* the account, or it has the account and needs its own link, the other
\* links, or sessions.
Rank(r) ==
    IF At(r, "Commit") \/ \E x \in WriteStatements : At(r, x) THEN 1
    ELSE IF write[r] = NoRow THEN 0
    ELSE IF At(r, "MarkUsed") THEN 2
    ELSE IF At(r, "Invalidate") THEN 3 ELSE 4

\* Each of these transactions waits for another of them: what a deadlock is,
\* whatever its length.
Stuck(D) == D # {} /\ \A r \in D : \E s \in D \ {r} : Conflict(r, s)

\* Two of them wait for each other.
PairIn(D) ==
    \E r, s \in D : Conflict(r, s) /\ Conflict(s, r) /\ OppositeOrder(r, s)

\* What DeadlockVictim relies on when it looks at pairs only.
EveryDeadlockHasPair == \A D \in SUBSET Requests : Stuck(D) => PairIn(D)

-----------------------------------------------------------------------------
(***************************************************************************)
(* The order of the statements, once more.                                 *)
(***************************************************************************)
LockStatements == WriteStatements \cup {"RevokeJti", "RevokeAll", "MarkUsed",
                                        "Invalidate"}

\* Which locks a use case can have taken before a statement that waits.
LEMMA LockOrder ==
    ASSUME NEW o \in Endpoints,
           NEW i \in DOMAIN Script[o], NEW k \in DOMAIN Script[o], i < k
    PROVE  /\ Script[o][i] \in {"RevokeJti", "RevokeAll"} =>
                 Script[o][k] \notin LockStatements
           /\ Script[o][k] = "RevokeJti" => Script[o][i] \notin LockStatements
           /\ Script[o][k] \in WriteStatements
                 /\ Script[o][i] \in LockStatements =>
                 Script[o][i] = "MarkUsed" /\ o = "verify_email"
           /\ Script[o][k] = "MarkUsed" =>
                 Script[o][i] \notin {"MarkUsed", "Invalidate"}
           /\ Script[o][k] \in {"Invalidate", "RevokeAll"}
                 /\ Script[o][i] \in {"MarkUsed", "Invalidate"} =>
                 o \in PasswordChanges
<1> USE DEF LockStatements, WriteStatements, PasswordChanges
<1>1. CASE o \in {"register", "login", "refresh", "logout", "verify_email",
                  "forgot_password"}
  BY <1>1 DEF Script, RegisterUser, Login, RefreshToken, Logout, VerifyEmail,
              ForgotPassword
<1>2. CASE o \in {"reset_password", "change_password"}
  BY <1>2 DEF Script, ResetPassword, ChangePassword
<1>3. CASE o \in {"me", "update_me", "delete_me"}
  BY <1>3 DEF Script, Authenticate, UpdateUser, DeleteUser
<1>4. CASE o \in {"revoke_session", "revoke_all", "revoke_others", "ban",
                  "unban"}
  BY <1>4 DEF Script, RevokeUserSession, RevokeAllSessions, BanUser, UnbanUser
<1>. QED BY <1>1, <1>2, <1>3, <1>4, EndpointNames

\* What a use case has done before it spends, revokes or commits.
LEMMA ScriptFirst ==
    ASSUME NEW o \in Endpoints, NEW k \in DOMAIN Script[o]
    PROVE  /\ Script[o][k] \in {"MarkUsed", "Commit"} /\ o \in TokenOps =>
                 \E i \in DOMAIN Script[o] :
                    i < k /\ Script[o][i] = "ReadToken"
           /\ Script[o][k] = "Commit" /\ o \in TokenOps =>
                 \E i \in DOMAIN Script[o] :
                    i < k /\ Script[o][i] = "MarkUsed"
           /\ Script[o][k] \in {"Invalidate", "RevokeAll", "Commit"}
                 /\ o \in PasswordChanges =>
                 \E i \in DOMAIN Script[o] :
                    i < k /\ Script[o][i] = "UpdatePassword"
<1>0. k \in Nat
  BY ScriptDomain
<1>1. CASE o = "verify_email"
  <2>1. /\ 1 \in DOMAIN Script[o] /\ Script[o][1] = "ReadToken"
        /\ 3 \in DOMAIN Script[o] /\ Script[o][3] = "MarkUsed"
    BY <1>1 DEF Script, VerifyEmail
  <2>2. /\ Script[o][k] \in {"MarkUsed", "Commit"} => k > 1
        /\ Script[o][k] = "Commit" => k > 3
    BY <1>1 DEF Script, VerifyEmail
  <2>. QED BY <1>0, <1>1, <2>1, <2>2 DEF PasswordChanges
<1>2. CASE o = "reset_password"
  <2>1. /\ 1 \in DOMAIN Script[o] /\ Script[o][1] = "ReadToken"
        /\ 3 \in DOMAIN Script[o] /\ Script[o][3] = "UpdatePassword"
        /\ 4 \in DOMAIN Script[o] /\ Script[o][4] = "MarkUsed"
    BY <1>2 DEF Script, ResetPassword
  <2>2. /\ Script[o][k] \in {"MarkUsed", "Commit"} => k > 1
        /\ Script[o][k] \in {"Invalidate", "RevokeAll", "Commit"} => k > 3
        /\ Script[o][k] = "Commit" => k > 4
    BY <1>2 DEF Script, ResetPassword
  <2>. QED BY <1>0, <1>2, <2>1, <2>2
<1>3. CASE o = "change_password"
  <2>1. /\ 4 \in DOMAIN Script[o] /\ Script[o][4] = "UpdatePassword"
        /\ Script[o][k] \in {"Invalidate", "RevokeAll", "Commit"} => k > 4
    BY <1>3 DEF Script, ChangePassword
  <2>. QED BY <1>0, <1>3, <2>1 DEF TokenOps
<1>. QED BY <1>1, <1>2, <1>3 DEF TokenOps, PasswordChanges

\* Who accepts a link or a session, and who locks links or an account before
\* it revokes sessions.
LEMMA ScriptRoles ==
    ASSUME NEW o \in Endpoints, NEW k \in DOMAIN Script[o]
    PROVE  /\ Script[o][k] = "ReadToken" => o \in TokenOps
           /\ Script[o][k] = "RefreshReadSession" => o = "refresh"
           /\ Script[o][k] = "RevokeAll" => o \in SignOutOps
           /\ Script[o][k] = "RevokeJti" =>
                 o \in {"refresh", "logout", "revoke_session"}
           /\ Script[o][k] \in WriteStatements =>
                 o \in PasswordOps \cup {"verify_email", "update_me",
                                         "delete_me", "ban", "unban"}
           /\ Script[o][k] \in {"MarkUsed", "Invalidate"} =>
                 o \in TokenOps \cup InvalidatingOps
BY EndpointNames DEF SignOutOps, WriteStatements, PasswordOps, TokenOps,
   InvalidatingOps, IssuingOps, Script, Authenticate,
   RegisterUser, Login, RefreshToken, Logout, VerifyEmail, ForgotPassword,
   ResetPassword, UpdateUser, ChangePassword, DeleteUser,
   RevokeUserSession, RevokeAllSessions, BanUser, UnbanUser

\* Only the endpoint that changes nothing ends without a commit.
LEMMA ScriptLast ==
    ASSUME NEW o \in Endpoints, NEW k \in DOMAIN Script[o]
    PROVE  /\ Script[o][k] = "MarkUsed" => k + 1 \in DOMAIN Script[o]
           /\ Script[o][k] = "MarkUsed" /\ o = "verify_email" =>
                 k + 3 \in DOMAIN Script[o]
           /\ Script[o][k] \notin {"Commit", "Send"} /\ o # "me" =>
                 k + 1 \in DOMAIN Script[o]
           /\ o = "me" => Script[o][k] \notin LockStatements
BY EndpointNames DEF LockStatements, WriteStatements, Script, Authenticate,
   RegisterUser, Login, RefreshToken, Logout, VerifyEmail, ForgotPassword,
   ResetPassword, UpdateUser, ChangePassword, DeleteUser,
   RevokeUserSession, RevokeAllSessions, BanUser, UnbanUser

\* A statement gets behind a transaction when it is executed, except that a
\* verification of an address already verified skips the write.
LEMMA Passed ==
    ASSUME TypeOK, NEW r \in Requests,
           Step(r) \/ Crash(r) \/ DeadlockVictim(r), NEW x, Past(r, x)',
           op(r) # "verify_email" \/ x \notin {"Reload", "UpdateRow"}
    PROVE  /\ Past(r, x) \/ At(r, x)
           /\ Step(r) /\ phase[r] = "running" /\ phase'[r] = "running"
<1>0. op(r) \in Endpoints /\ op(r)' = op(r) /\ pc[r] \in Nat
  BY CallFields, StepKeepsCall DEF op, TypeOK
<1>1. phase'[r] = "running"
  BY DEF Past
<1>2. PICK k \in DOMAIN Script[op(r)] : k < pc'[r] /\ Script[op(r)][k] = x
  BY <1>0 DEF Past
<1>3. /\ Step(r) /\ phase[r] = "running" /\ pc[r] \in DOMAIN Script[op(r)]
      /\ pc'[r] \in DOMAIN Script[op(r)]
  BY <1>1, Moves
<1>4. k \in Nat
  BY <1>0, ScriptDomain
<1>5. ASSUME k < pc[r] \/ k = pc[r]
      PROVE  Past(r, x) \/ At(r, x)
  BY <1>2, <1>3, <1>5 DEF Past, At
<1>6. CASE pc'[r] = pc[r] + 1
  BY <1>0, <1>1, <1>2, <1>3, <1>4, <1>5, <1>6
<1>7. CASE op(r) = "verify_email" /\ pc'[r] # pc[r] + 1
  <2>1. MarkUsed(r)
    <3>1. \/ Send(r) \/ LoginRead(r) \/ MarkUsed(r) \/ Commit(r)
          \/ \E how : Leave(r, how)
          \/ Jump(r, 1)
      BY <1>3, StepKinds
    <3>2. ~Send(r) /\ ~Commit(r)
      BY <1>0, <1>1, <1>3 DEF Send, Commit, TypeOK
    <3>3. ~LoginRead(r)
      BY <1>0, <1>7, StatementAt, ScriptOwners DEF At
    <3>4. ~Jump(r, 1)
      BY <1>7 DEF Jump, TypeOK
    <3>5. (\E how : Leave(r, how)) => pc' = pc
      BY DEF Leave
    <3>6. pc'[r] > pc[r]
      BY <1>1, <1>7, Moves
    <3>. QED BY <1>0, <3>1, <3>2, <3>3, <3>4, <3>5, <3>6
  <2>2. /\ At(r, "MarkUsed")
        /\ pc'[r] = pc[r] + 3 \/ pc'[r] = pc[r] + 1
    BY <2>1 DEF MarkUsed, Jump, TypeOK
  <2>3. pc[r] = 3 /\ pc'[r] = 6
    BY <1>0, <1>3, <1>7, <2>2 DEF At, Script, VerifyEmail
  <2>4. Script["verify_email"][4] = "Reload"
        /\ Script["verify_email"][5] = "UpdateRow"
    BY DEF Script, VerifyEmail
  <2>5. k < pc[r] \/ k = pc[r] \/ k = 4 \/ k = 5
    BY <1>2, <1>4, <2>3
  <2>6. k # 4 /\ k # 5
    BY <1>2, <1>7, <2>4
  <2>. QED BY <1>1, <1>3, <1>5, <2>5, <2>6
<1>. QED BY <1>1, <1>3, <1>6, <1>7, Moves

\* Each statement is the only step of a transaction at its place.
LEMMA TheStatement ==
    ASSUME NEW r \in Requests, Step(r), phase[r] = "running"
    PROVE  /\ At(r, "ReadToken") => ReadToken(r)
           /\ At(r, "RefreshReadSession") => RefreshReadSession(r)
           /\ At(r, "MarkUsed") => MarkUsed(r)
           /\ At(r, "UpdatePassword") => UpdatePassword(r)
           /\ At(r, "UpdateRow") => UpdateRow(r)
           /\ (\E x \in LoadStatements : At(r, x)) =>
                 \/ LoginRead(r) \/ RefreshReadUser(r) \/ ReadTokenUser(r)
                 \/ ChangeRead(r) \/ ForgotRead(r) \/ UpdateRead(r)
                 \/ DeleteRead(r) \/ BanRead(r) \/ UnbanRead(r)
<1>1. \A x, y : At(r, x) /\ At(r, y) => x = y
  BY DEF At
<1>2. ~Send(r)
  BY DEF Send
<1>. QED BY <1>1, <1>2, StatementAt DEF Step, LoadStatements

-----------------------------------------------------------------------------
(***************************************************************************)
(* HoldInv is inductive.                                                   *)
(***************************************************************************)
LEMMA LockedFrame ==
    ASSUME RowInv, LockInv, NEW q \in Requests, Locked(q),
           SameRequest(q), write'[q] = write[q],
           \A t \in Toks : tokens[t].state # "none" =>
               tokens'[t].purpose = tokens[t].purpose
    PROVE  Locked(q)'
<1>0. op(q)' = op(q) /\ \A x : Past(q, x)' = Past(q, x)
  BY DEF SameRequest, op, Past
<1>1. \A t \in spend[q] : t \in Toks /\ tokens[t].state # "none"
  BY ReqTypes DEF RowInv, StagedExist
<1>2. Past(q, "ReadToken") =>
         call[q].tok \in Toks /\ tokens[call[q].tok].state # "none"
  <2>1. op(q) \in Endpoints
    BY CallFields DEF RowInv, TypeInv, op
  <2>2. Past(q, "ReadToken") => op(q) \in TokenOps /\ phase[q] # "idle"
    BY <2>1, ScriptRoles DEF Past
  <2>. QED BY <2>2 DEF LockInv, ReqInv, Owns
<1>. QED BY <1>0, <1>1, <1>2 DEF Locked, SameRequest

\* A transaction that ends holds nothing any more.
LEMMA EndsEmpty ==
    ASSUME TypeOK, LockInv, NEW r \in Requests, Locked(r),
           Step(r) \/ Crash(r) \/ DeadlockVictim(r), ~Commit(r),
           phase'[r] # "running"
    PROVE  rev'[r] = {} /\ spend'[r] = {}
<1>0. op(r) \in Endpoints /\ pc[r] \in Nat
  BY CallFields DEF op, TypeOK
<1>1. CASE \E how : Leave(r, how)
  BY <1>1 DEF Leave, Discard, TypeOK
<1>2. ASSUME NEW x, At(r, x), x \notin {"Commit", "Send"},
             Jump(r, 1) \/ MarkUsed(r)
      PROVE  rev'[r] = {} /\ spend'[r] = {}
  <2>1. /\ pc[r] \in DOMAIN Script[op(r)] /\ Script[op(r)][pc[r]] = x
        /\ phase[r] = "running"
    BY <1>2 DEF At
  <2>2. ~MarkUsed(r)
    <3> SUFFICES ASSUME MarkUsed(r) PROVE FALSE
      OBVIOUS
    <3>1. Script[op(r)][pc[r]] = "MarkUsed"
      BY DEF MarkUsed, At
    <3>2. \/ op(r) = "verify_email" /\ Jump(r, 3)
          \/ Jump(r, 1)
      BY DEF MarkUsed
    <3>3. \/ op(r) = "verify_email" /\ pc[r] + 3 > Len(Script[op(r)])
          \/ pc[r] + 1 > Len(Script[op(r)])
      BY <2>1, <3>2 DEF Jump, TypeOK
    <3>. QED BY <1>0, <2>1, <3>1, <3>3, ScriptDomain, ScriptLast
  <2>3. pc[r] + 1 > Len(Script[op(r)])
    BY <1>2, <2>1, <2>2 DEF Jump, TypeOK
  <2>4. op(r) = "me"
    BY <1>0, <1>2, <2>1, <2>3, ScriptDomain, ScriptLast
  <2>5. \A y \in LockStatements : ~Past(r, y) /\ ~At(r, y)
    BY <1>0, <2>4, ScriptLast DEF Past, At
  <2>6. rev[r] = {} /\ spend[r] = {}
    BY <2>5 DEF Locked, LockStatements
  <2>7. ~RevokeJti(r) /\ ~RevokeAll(r) /\ ~Invalidate(r)
    BY <2>5, StatementAt DEF LockStatements
  <2>. QED BY <2>2, <2>6, <2>7, StepStages
<1>3. CASE Send(r)
  <2>1. rev[r] = {} /\ spend[r] = {}
    BY <1>3 DEF Send, Locked, Past
  <2>. QED BY <1>3, <2>1 DEF Send, staged
<1>4. CASE LoginRead(r)
  <2>1. pc[r] = 1 /\ phase[r] = "running"
    BY <1>0, <1>4, StatementAt, ScriptOwners DEF At
  <2>2. rev[r] = {} /\ spend[r] = {}
    BY <2>1 DEF LockInv, ReqInv, Holds
  <2>3. UNCHANGED <<rev, spend>>
    BY <1>4 DEF LoginRead, Load, staged
  <2>. QED BY <2>2, <2>3
<1>5. CASE MarkUsed(r)
  <2>1. At(r, "MarkUsed")
    BY <1>5 DEF MarkUsed
  <2>. QED BY <1>2, <1>5, <2>1
<1>. QED BY <1>1, <1>2, <1>3, <1>4, <1>5, StepKinds

LEMMA HoldStatement ==
    ASSUME RowInv, LockInv, UserInv, NEW r \in Requests, Locked(r),
           Step(r) \/ Crash(r) \/ DeadlockVictim(r), ~Commit(r)
    PROVE  Locked(r)'
<1>0. /\ TypeOK /\ op(r) \in Endpoints /\ op(r)' = op(r)
      /\ call'[r] = call[r] /\ UNCHANGED tokens
      /\ ReqInv(r) /\ r # None
  BY CallFields, StepKeepsCall, StepEffects, NamesAssumption
     DEF RowInv, TypeInv, LockInv, op, Users
<1>1. CASE phase'[r] # "running"
  <2>1. \A x : ~Past(r, x)'
    BY <1>1 DEF Past
  <2>. QED BY <1>0, <1>1, <2>1, EndsEmpty DEF Locked
<1>2. CASE phase'[r] = "running"
  <2>0. /\ Step(r) /\ phase[r] = "running" /\ pc[r] \in DOMAIN Script[op(r)]
        /\ \A x : Past(r, x) \/ At(r, x) => Past(r, x)'
    BY <1>0, <1>2, Moves, PastStays
  <2>1. rev'[r] # {} => (Past(r, "RevokeJti") \/ Past(r, "RevokeAll"))'
    <3>1. CASE RevokeJti(r) \/ RevokeAll(r)
      BY <2>0, <3>1, StatementAt
    <3>2. CASE ~(RevokeJti(r) \/ RevokeAll(r))
      <4>1. rev'[r] = rev[r]
        BY <1>0, <1>2, <3>2, StepStages DEF MarkUsed, Invalidate
      <4>. QED BY <2>0, <4>1 DEF Locked
    <3>. QED BY <3>1, <3>2
  <2>2. spend'[r] # {} => (Past(r, "MarkUsed") \/ Past(r, "Invalidate"))'
    <3>1. CASE MarkUsed(r) \/ Invalidate(r)
      BY <2>0, <3>1, StatementAt
    <3>2. CASE ~(MarkUsed(r) \/ Invalidate(r))
      <4>1. spend'[r] = spend[r]
        BY <1>0, <1>2, <3>2, StepStages DEF RevokeJti, RevokeAll
      <4>. QED BY <2>0, <4>1 DEF Locked
    <3>. QED BY <3>1, <3>2
  <2>3. \A t \in spend'[r] : tokens[t].purpose = PurposeOf(op(r))
    <3>1. CASE MarkUsed(r)
      <4>1. At(r, "MarkUsed") /\ op(r) \in TokenOps
        BY <1>0, <3>1, StatementAt, ScriptOwners DEF At
      <4>2. Past(r, "ReadToken")
        BY <1>0, <2>0, <4>1, ScriptFirst DEF At, Past
      <4>3. \A t \in spend'[r] : t \in spend[r] \/ t = call[r].tok
        BY <1>0, <3>1 DEF MarkUsed, TypeOK
      <4>. QED BY <4>2, <4>3 DEF Locked
    <3>2. CASE Invalidate(r)
      <4>1. \A t \in spend'[r] : t \in spend[r] \/ t \in scan[r]
        BY <1>0, <3>2 DEF Invalidate, TypeOK
      <4>. QED BY <1>0, <3>2, <4>1 DEF Locked, ReqInv, Found, Invalidate
    <3>3. CASE ~(MarkUsed(r) \/ Invalidate(r))
      <4>1. spend'[r] = spend[r]
        BY <1>0, <1>2, <3>3, StepStages DEF RevokeJti, RevokeAll
      <4>. QED BY <4>1 DEF Locked
    <3>. QED BY <3>1, <3>2, <3>3
  <2>4. Past(r, "ReadToken")' =>
           tokens[call[r].tok].purpose = PurposeOf(op(r))
    <3> SUFFICES ASSUME Past(r, "ReadToken")'
                 PROVE  tokens[call[r].tok].purpose = PurposeOf(op(r))
      OBVIOUS
    <3>1. Past(r, "ReadToken") \/ At(r, "ReadToken")
      BY <1>0, Passed
    <3>2. ASSUME At(r, "ReadToken")
          PROVE  tokens[call[r].tok].purpose = PurposeOf(op(r))
      BY <1>0, <1>2, <2>0, <3>2, TheStatement
         DEF ReadToken, Deny, Leave, TypeOK
    <3>. QED BY <3>1, <3>2 DEF Locked
  <2>5. Past(r, "UpdatePassword")' => write'[r] # NoRow
    <3> SUFFICES ASSUME Past(r, "UpdatePassword")' PROVE write'[r] # NoRow
      OBVIOUS
    <3>1. Past(r, "UpdatePassword") \/ At(r, "UpdatePassword")
      BY <1>0, Passed
    <3>2. CASE Past(r, "UpdatePassword")
      <4>1. Script[op(r)][pc[r]] \notin WriteStatements
        BY <1>0, <2>0, <3>2, ScriptAfterWrite DEF Past, WriteStatements
      <4>2. ~UpdateRow(r) /\ ~InsertUser(r) /\ ~UpdatePassword(r)
        BY <4>1, StatementAt DEF At, WriteStatements
      <4>3. write'[r] = write[r]
        BY <1>0, <1>2, <4>2, StepWrites
      <4>. QED BY <3>2, <4>3 DEF Locked
    <3>3. CASE At(r, "UpdatePassword")
      <4>1. write'[r] = [users[uid[r]] EXCEPT
                            !.hash = [pw |-> call[r].new, salt |-> r]]
        BY <1>0, <2>0, <3>3, TheStatement DEF UpdatePassword, TypeOK
      <4>2. users[uid[r]] \in UserRow
        BY <1>0, RowTypes
      <4>3. write'[r].hash.salt = r
        BY <4>1, <4>2 DEF UserRow
      <4>. QED BY <1>0, <4>3 DEF NoRow
    <3>. QED BY <3>1, <3>2, <3>3
  <2>. QED BY <1>0, <2>1, <2>2, <2>3, <2>4, <2>5 DEF Locked
<1>. QED BY <1>1, <1>2

\* A step of r leaves the other requests as they are.
LEMMA OthersStay ==
    ASSUME TypeOK, Minting, NEW r \in Requests, NEW q \in Requests \ {r},
           Step(r) \/ Crash(r) \/ DeadlockVictim(r)
    PROVE  SameRequest(q) /\ write'[q] = write[q] /\ base'[q] = base[q]
<1>1. snap'[q] = snap[q] /\ base'[q] = base[q]
      /\ UNCHANGED <<call, openAt, unusedAt>>
  BY StepEntities, StepKeepsCall
<1>2. CASE Commit(r)
  BY <1>1, <1>2, CommitRows DEF SameRequest
<1>3. CASE ~Commit(r)
  BY <1>1, <1>3, StepEffects DEF SameRequest, TypeOK
<1>. QED BY <1>2, <1>3

LEMMA HoldStep ==
    RowInv /\ LockInv /\ UserInv /\ HoldInv /\ [Next]_vars => HoldInv'
<1> SUFFICES ASSUME RowInv, LockInv, UserInv, HoldInv, [Next]_vars,
                    NEW q \in Requests
             PROVE  Locked(q)'
  BY DEF HoldInv
<1>0. TypeOK /\ Minting /\ Locked(q)
  BY DEF RowInv, TypeInv, HoldInv
<1>1. ASSUME NEW r \in Requests, NEW c \in Calls, Start(r, c)
      PROVE  Locked(q)'
  <2>1. /\ phase[r] = "idle" /\ phase' = [phase EXCEPT ![r] = "running"]
        /\ call' = [call EXCEPT ![r] = c]
        /\ UNCHANGED <<tokens, pc, write, rev, spend>>
    BY <1>1 DEF Start, tables, staged
  <2>2. CASE q = r
    <3>1. pc[r] = 1 /\ rev[r] = {} /\ spend[r] = {}
      BY <2>1 DEF LockInv, ReqInv, Holds
    <3>2. \A x : ~Past(r, x)'
      <4>1. op(r)' \in Endpoints
        BY <1>0, <2>1, CallsAssumption DEF op, TypeOK, Call
      <4>. QED BY <2>1, <3>1, <4>1, ScriptDomain DEF Past
    <3>. QED BY <2>1, <2>2, <3>1, <3>2 DEF Locked
  <2>3. CASE q # r
    <3>1. op(q)' = op(q) /\ call'[q] = call[q] /\ \A x : Past(q, x)' = Past(q, x)
      BY <1>0, <2>1, <2>3 DEF op, Past, TypeOK
    <3>. QED BY <1>0, <2>1, <3>1 DEF Locked
  <2>. QED BY <2>2, <2>3
<1>2. ASSUME NEW r \in Requests, Step(r) \/ Crash(r) \/ DeadlockVictim(r)
      PROVE  Locked(q)'
  <2>1. CASE q # r
    <3>1. \A t \in Toks : tokens[t].state # "none" =>
             tokens'[t].purpose = tokens[t].purpose
      BY <1>0, <1>2, CommitRows, StepEffects
    <3>. QED BY <1>0, <1>2, <2>1, <3>1, OthersStay, LockedFrame
  <2>2. CASE q = r /\ Commit(r)
    <3>1. rev'[r] = {} /\ spend'[r] = {} /\ phase'[r] # "running"
      BY <1>0, <2>2, CommitRows
    <3>. QED BY <2>2, <3>1 DEF Locked, Past
  <2>3. CASE q = r /\ ~Commit(r)
    BY <1>0, <1>2, <2>3, HoldStatement
  <2>. QED BY <2>1, <2>2, <2>3
<1>3. ASSUME \/ \E j \in Jtis : SessionAges(j)
             \/ \E t \in Toks : TokenExpires(t)
      PROVE  Locked(q)'
  <2>1. SameRequest(q) /\ write'[q] = write[q]
    BY <1>0, <1>3, AgingRows DEF SameRequest, entity, staged, request
  <2>. QED BY <1>0, <1>3, <2>1, AgingRows, LockedFrame
<1>4. ASSUME UNCHANGED vars PROVE Locked(q)'
  BY <1>0, <1>4 DEF Locked, Past, op, vars, tables, staged, request
<1>. QED BY <1>1, <1>2, <1>3, <1>4 DEF Next, Quiet

LEMMA HoldInvariant == Spec => []HoldInv
<1>1. Init => HoldInv
  BY DEF Init, HoldInv, Locked, Past
<1>. QED BY <1>1, HoldStep, RowInvariant, LockInvariant, UserInvariant, PTL
         DEF Spec

-----------------------------------------------------------------------------
(***************************************************************************)
(* Who waits for whom.                                                     *)
(***************************************************************************)
\* The wait of r for s, and what s holds that r waits for.
LEMMA WaitsFor ==
    ASSUME NEW r \in Requests, NEW s \in Requests, Conflict(r, s)
    PROVE  \/ /\ \E x \in WriteStatements : At(r, x)
              /\ write[s] # NoRow
           \/ At(r, "RevokeJti") /\ RevokeTarget(r) \in rev[s]
           \/ At(r, "RevokeAll") /\ \E j : j \in scan[r] /\ j \in rev[s]
           \/ At(r, "MarkUsed") /\ call[r].tok \in spend[s]
           \/ At(r, "Invalidate") /\ \E t : t \in scan[r] /\ t \in spend[s]
           \/ /\ At(r, "Commit") /\ ChangesKey(s) /\ uid[s] = uid[r]
              /\ write[s] # NoRow
<1>1. NewEmail(r) # {} => \E x \in WriteStatements : At(r, x)
  BY DEF NewEmail, WriteStatements
<1>2. TouchedEmails(s) # {} => write[s] # NoRow
  BY DEF TouchedEmails
<1>3. NewEmail(r) \cap TouchedEmails(s) # {} =>
         NewEmail(r) # {} /\ TouchedEmails(s) # {}
  OBVIOUS
<1>4. WritesUser(r) => \E x \in WriteStatements : At(r, x)
  BY DEF WritesUser, WriteStatements
<1>. QED BY <1>1, <1>2, <1>3, <1>4 DEF Conflict, ChangesKey

\* What a transaction that waits may hold, by the statement it waits at.
LEMMA HeldWhileWaiting ==
    ASSUME RowInv, LockInv, UserInv, HoldInv, NEW r \in Requests,
           NEW x \in LockStatements, At(r, x)
    PROVE  /\ rev[r] = {}
           /\ x \in WriteStatements =>
                 /\ write[r] = NoRow
                 /\ spend[r] # {} => op(r) = "verify_email"
           /\ x = "MarkUsed" => spend[r] = {} /\ op(r) \in TokenOps
                                /\ Past(r, "ReadToken")
           /\ x = "MarkUsed" /\ write[r] # NoRow => op(r) = "reset_password"
           /\ x \in {"Invalidate", "RevokeJti", "RevokeAll"} =>
                 (spend[r] # {} => write[r] # NoRow)
           /\ x = "Invalidate" => op(r) \in InvalidatingOps
           /\ x \in {"RevokeJti", "RevokeAll"} /\ write[r] # NoRow =>
                 op(r) \in PasswordChanges \cup {"ban", "delete_me"}
<1>0. /\ op(r) \in Endpoints /\ phase[r] = "running"
      /\ pc[r] \in DOMAIN Script[op(r)] /\ Script[op(r)][pc[r]] = x
      /\ Locked(r) /\ Version(r)
  BY CallFields DEF RowInv, TypeInv, UserInv, HoldInv, op, At
<1>1. /\ ~Past(r, "RevokeJti") /\ ~Past(r, "RevokeAll")
      /\ x \in WriteStatements => \A y \in LockStatements : Past(r, y) =>
            y = "MarkUsed" /\ op(r) = "verify_email"
      /\ x = "MarkUsed" => ~Past(r, "MarkUsed") /\ ~Past(r, "Invalidate")
      /\ x = "RevokeJti" => \A y \in LockStatements : ~Past(r, y)
      /\ x \in {"Invalidate", "RevokeAll"} =>
            \A y \in {"MarkUsed", "Invalidate"} : Past(r, y) =>
               op(r) \in PasswordChanges
  BY <1>0, LockOrder DEF Past
<1>2. rev[r] = {}
  BY <1>0, <1>1 DEF Locked
<1>3. x \in WriteStatements =>
         write[r] = NoRow /\ (spend[r] # {} => op(r) = "verify_email")
  <2>1. x \in WriteStatements => \A y \in WriteStatements : ~Past(r, y)
    BY <1>1 DEF LockStatements, WriteStatements
  <2>2. x \in WriteStatements => write[r] = NoRow
    BY <1>0, <2>1 DEF Version
  <2>. QED BY <1>0, <1>1, <2>2 DEF Locked, LockStatements
<1>4. x = "MarkUsed" => spend[r] = {} /\ op(r) \in TokenOps
                        /\ Past(r, "ReadToken")
  <2>1. x = "MarkUsed" => op(r) \in TokenOps
    BY <1>0, ScriptOwners
  <2>. QED BY <1>0, <1>1, <2>1, ScriptFirst DEF Locked, Past
<1>5. x \in {"Invalidate", "RevokeJti", "RevokeAll"} =>
         (spend[r] # {} => write[r] # NoRow)
  <2> SUFFICES ASSUME x \in {"Invalidate", "RevokeJti", "RevokeAll"},
                      spend[r] # {}
               PROVE  write[r] # NoRow
    OBVIOUS
  <2>1. Past(r, "MarkUsed") \/ Past(r, "Invalidate")
    BY <1>0 DEF Locked
  <2>2. x \in {"Invalidate", "RevokeAll"} /\ op(r) \in PasswordChanges
    BY <1>1, <2>1 DEF LockStatements
  <2>3. Past(r, "UpdatePassword")
    BY <1>0, <2>2, ScriptFirst DEF Past
  <2>. QED BY <1>0, <2>3 DEF Locked
<1>6. x = "MarkUsed" /\ write[r] # NoRow => op(r) = "reset_password"
  <2>1. ASSUME x = "MarkUsed", NEW y \in WriteStatements, Past(r, y)
        PROVE  op(r) = "reset_password"
    BY <1>0, <2>1, ScriptAfterWrite DEF Past
  <2>. QED BY <1>0, <2>1 DEF Version
<1>7. x = "Invalidate" => op(r) \in InvalidatingOps
  BY <1>0, ScriptOwners
<1>8. x \in {"RevokeJti", "RevokeAll"} /\ write[r] # NoRow =>
         op(r) \in PasswordChanges \cup {"ban", "delete_me"}
  <2>1. ASSUME x \in {"RevokeJti", "RevokeAll"}, NEW y \in WriteStatements,
               Past(r, y)
        PROVE  op(r) \in PasswordChanges \cup {"ban", "delete_me"}
    <3>1. x = "RevokeAll"
      BY <1>1, <2>1 DEF LockStatements
    <3>2. op(r) \in SignOutOps
      BY <1>0, <3>1, ScriptRoles
    <3>3. op(r) \in PasswordOps \cup {"verify_email", "update_me",
                                      "delete_me", "ban", "unban"}
      BY <1>0, <2>1, ScriptRoles DEF Past
    <3>. QED BY <3>2, <3>3 DEF SignOutOps, PasswordOps, PasswordChanges
  <2>. QED BY <1>0, <2>1 DEF Version
<1>. QED BY <1>2, <1>3, <1>4, <1>5, <1>6, <1>7, <1>8

\* A transaction that waits to insert a row has not written the account, and
\* so it neither sets a password nor registers; it waits for whoever has
\* written the account, and that one changes the address.
LEMMA WaitsToInsert ==
    ASSUME RowInv, LockInv, UserInv, HoldInv, NEW s \in Requests,
           Waiting(s), At(s, "Commit")
    PROVE  /\ write[s] = NoRow /\ op(s) \notin PasswordChanges
           /\ \A r \in Requests \ {s} :
                 write[r] # NoRow /\ uid[r] = uid[s] =>
                    ChangesKey(r) /\ Conflict(s, r)
<1>0. /\ op(s) \in Endpoints /\ phase[s] = "running"
      /\ pc[s] \in DOMAIN Script[op(s)] /\ Script[op(s)][pc[s]] = "Commit"
      /\ Locked(s)
  BY CallFields DEF RowInv, TypeInv, HoldInv, op, At
<1>1. PICK k \in Requests \ {s} : Conflict(s, k)
  BY DEF Waiting
<1>2. \A x : At(s, x) => x = "Commit"
  BY DEF At
<1>3. ChangesKey(k) /\ uid[k] = uid[s] /\ write[k] # NoRow
  BY <1>1, <1>2, WaitsFor DEF WriteStatements
<1>4. InsertsRow(s)
  <2>1. ~WritesUser(s) /\ NewEmail(s) = {}
    BY <1>2 DEF WritesUser, NewEmail
  <2>2. NewEmail(s) \cap TouchedEmails(k) = {}
    BY <2>1
  <2>. QED BY <1>1, <1>2, <2>1, <2>2 DEF Conflict
<1>5. write[s] = NoRow
  BY <1>1, <1>3 DEF UserInv, UserLocks
<1>6. op(s) \notin PasswordChanges
  <2>1. op(s) \in PasswordChanges => Past(s, "UpdatePassword")
    BY <1>0, ScriptFirst DEF Past
  <2>. QED BY <1>0, <1>5, <2>1 DEF Locked
<1>7. ASSUME NEW r \in Requests \ {s}, write[r] # NoRow, uid[r] = uid[s]
      PROVE  ChangesKey(r) /\ Conflict(s, r)
  <2>1. r = k
    BY <1>1, <1>3, <1>7 DEF UserInv, UserLocks
  <2>. QED BY <1>1, <1>3, <2>1
<1>. QED BY <1>5, <1>6, <1>7

\* An account that is being registered has no link yet.
LEMMA NotRegistering ==
    ASSUME RowInv, UserInv, NEW r \in Requests, phase[r] = "running",
           NEW t \in Toks, tokens[t].state # "none", tokens[t].user = uid[r]
    PROVE  op(r) # "register"
<1> SUFFICES ASSUME op(r) = "register" PROVE FALSE
  OBVIOUS
<1>1. uid[r] = r
  BY DEF UserInv, Subjects
<1>2. Exists(r)
  BY <1>1 DEF UserInv, AccountRows
<1>3. audit[r] = "REGISTER"
  BY <1>2 DEF UserInv, Backed
<1>4. audit[r] = None
  BY DEF RowInv, Minting
<1>. QED BY <1>3, <1>4, NamesAssumption DEF AuditAction

\* Only an endpoint that changes or writes back an address locks the key.
LEMMA WhoChangesKey ==
    ASSUME UserInv, NEW r \in Requests, ChangesKey(r)
    PROVE  /\ op(r) \notin PasswordChanges
           /\ op(r) # "register" => write[r].email = snap[r].email
<1>1. write[r] # NoRow /\ write[r].email # users[uid[r]].email
  BY DEF ChangesKey, TouchedEmails
<1>. QED BY <1>1 DEF UserInv, Version, PasswordOps, PasswordChanges

-----------------------------------------------------------------------------
(***************************************************************************)
(* How far transactions that wait have come.                               *)
(***************************************************************************)
LEMMA RankValues ==
    ASSUME NEW r \in Requests
    PROVE  /\ Rank(r) \in 0..4
           /\ \A x \in WriteStatements \cup {"Commit"} : At(r, x) =>
                 Rank(r) = 1
           /\ At(r, "MarkUsed") =>
                 Rank(r) = IF write[r] = NoRow THEN 0 ELSE 2
           /\ At(r, "Invalidate") =>
                 Rank(r) = IF write[r] = NoRow THEN 0 ELSE 3
           /\ At(r, "RevokeJti") \/ At(r, "RevokeAll") =>
                 Rank(r) = IF write[r] = NoRow THEN 0 ELSE 4
<1>1. \A x, y : At(r, x) /\ At(r, y) => x = y
  BY DEF At
<1>2. Rank(r) \in 0..4
  BY DEF Rank
<1>3. \A x \in WriteStatements \cup {"Commit"} : At(r, x) => Rank(r) = 1
  BY DEF Rank
<1>4. \A x \in {"RevokeJti", "RevokeAll", "MarkUsed", "Invalidate"} :
         At(r, x) => \A y \in WriteStatements \cup {"Commit"} : ~At(r, y)
  BY <1>1 DEF WriteStatements
<1>5. At(r, "RevokeJti") \/ At(r, "RevokeAll") =>
         Rank(r) = IF write[r] = NoRow THEN 0 ELSE 4
  BY <1>1, <1>4 DEF Rank
<1>6. At(r, "MarkUsed") => Rank(r) = IF write[r] = NoRow THEN 0 ELSE 2
  BY <1>1, <1>4 DEF Rank
<1>7. At(r, "Invalidate") => Rank(r) = IF write[r] = NoRow THEN 0 ELSE 3
  BY <1>1, <1>4 DEF Rank
<1>. QED BY <1>2, <1>3, <1>5, <1>6, <1>7

\* Along a chain of waits the rank increases, except where two transactions
\* that take their locks in opposite order wait for each other.
LEMMA RankIncreases ==
    ASSUME RowInv, LockInv, UserInv, HoldInv,
           NEW r \in Requests, NEW s \in Requests, r # s,
           Conflict(r, s), Waiting(s)
    PROVE  Rank(r) < Rank(s) \/ (Conflict(s, r) /\ OppositeOrder(r, s))
<1>1. PICK y \in LockStatements \cup {"Commit"} : At(s, y)
  BY WaitsFor DEF Waiting, LockStatements
<1>2. /\ y # "Commit" => rev[s] = {}
      /\ y \in WriteStatements =>
            write[s] = NoRow /\ (spend[s] # {} => op(s) = "verify_email")
      /\ y = "MarkUsed" => spend[s] = {}
      /\ y \in {"Invalidate", "RevokeJti", "RevokeAll"} =>
            (spend[s] # {} => write[s] # NoRow)
  BY <1>1, HeldWhileWaiting DEF LockStatements, WriteStatements
<1>3. /\ y \in WriteStatements \cup {"Commit"} => Rank(s) = 1
      /\ y = "MarkUsed" => Rank(s) = IF write[s] = NoRow THEN 0 ELSE 2
      /\ y = "Invalidate" => Rank(s) = IF write[s] = NoRow THEN 0 ELSE 3
      /\ y \in {"RevokeJti", "RevokeAll"} =>
            Rank(s) = IF write[s] = NoRow THEN 0 ELSE 4
  BY <1>1, RankValues
<1>4. /\ y \in WriteStatements \cup {"Commit", "RevokeJti", "RevokeAll",
                                     "MarkUsed", "Invalidate"}
      /\ "Commit" \notin WriteStatements
  BY DEF LockStatements, WriteStatements
<1>5. /\ Locked(r) /\ Locked(s) /\ ReqInv(s) /\ ReqInv(r)
      /\ op(r) \in Endpoints
  BY CallFields DEF HoldInv, LockInv, RowInv, TypeInv, op
<1>6. y = "Commit" =>
         /\ write[s] = NoRow /\ op(s) \notin PasswordChanges
         /\ write[r] # NoRow /\ uid[r] = uid[s] =>
               ChangesKey(r) /\ Conflict(s, r)
  BY <1>1, WaitsToInsert
<1>7. CASE /\ write[s] # NoRow
           /\ At(r, "Commit") \/ \E x \in WriteStatements : At(r, x)
  <2>1. Rank(r) = 1
    BY <1>7, RankValues
  <2>. QED BY <1>2, <1>3, <1>4, <1>6, <1>7, <2>1
<1>8. CASE At(r, "MarkUsed") /\ call[r].tok \in spend[s]
  <2>1. Rank(r) = IF write[r] = NoRow THEN 0 ELSE 2
    BY <1>8, RankValues
  <2>2. ASSUME y \in WriteStatements \cup {"Commit"}, write[r] # NoRow
        PROVE  FALSE
    <3>1. op(r) = "reset_password" /\ Past(r, "ReadToken")
      BY <1>8, <2>2, HeldWhileWaiting DEF LockStatements
    <3>2. CASE y \in WriteStatements
      <4>1. tokens[call[r].tok].purpose = "password_reset"
        BY <1>5, <3>1 DEF Locked, PurposeOf
      <4>2. tokens[call[r].tok].purpose = "email_verification"
        BY <1>2, <1>5, <1>8, <3>2 DEF Locked, PurposeOf
      <4>. QED BY <4>1, <4>2
    <3>3. CASE y = "Commit"
      <4>1. uid[r] = uid[s]
        BY <1>5, <1>8, <3>1 DEF ReqInv, Owns, Holds, At, TokenOps
      <4>2. ChangesKey(r)
        BY <1>6, <2>2, <3>3, <4>1
      <4>. QED BY <3>1, <4>2, WhoChangesKey DEF PasswordChanges
    <3>. QED BY <2>2, <3>2, <3>3
  <2>. QED BY <1>2, <1>3, <1>4, <1>8, <2>1, <2>2
<1>9. CASE At(r, "Invalidate") /\ \E t : t \in scan[r] /\ t \in spend[s]
  <2>0. PICK t : t \in scan[r] /\ t \in spend[s]
    BY <1>9
  <2>1. Rank(r) = IF write[r] = NoRow THEN 0 ELSE 3
    BY <1>9, RankValues
  <2>2. /\ t \in Toks /\ tokens[t].state # "none" /\ tokens[t].user = uid[r]
        /\ tokens[t].purpose = PurposeOf(op(r)) /\ phase[r] = "running"
        /\ op(r) \in InvalidatingOps
    BY <1>5, <1>9, <2>0, HeldWhileWaiting
       DEF ReqInv, Found, At, LockStatements
  <2>3. /\ tokens[t].user = uid[s] /\ phase[s] = "running"
        /\ tokens[t].purpose = PurposeOf(op(s))
        /\ op(s) \in TokenOps \cup InvalidatingOps
    BY <1>1, <1>5, <2>0 DEF ReqInv, Holds, Locked, At
  <2>4. ASSUME y \in {"Invalidate", "RevokeJti", "RevokeAll"},
               write[r] # NoRow
        PROVE  FALSE
    <3>1. write[s] # NoRow
      BY <1>2, <2>0, <2>4
    <3>. QED BY <2>2, <2>3, <2>4, <3>1 DEF UserInv, UserLocks
  <2>5. op(r) # "register" /\ op(s) # "register"
    BY <2>2, <2>3, NotRegistering
  <2>6. ASSUME y \in WriteStatements, write[r] # NoRow
        PROVE  Conflict(s, r) /\ OppositeOrder(r, s)
    <3>1. op(s) = "verify_email" /\ write[s] = NoRow
      BY <1>2, <2>0, <2>6
    <3>2. op(r) = "update_me"
      BY <2>2, <2>3, <2>5, <3>1 DEF PurposeOf, InvalidatingOps, IssuingOps
    <3>3. WritesUser(s)
      BY <1>1, <2>6 DEF WritesUser, WriteStatements
    <3>4. Conflict(s, r)
      BY <2>2, <2>3, <2>6, <3>3 DEF Conflict
    <3>. QED BY <3>1, <3>2, <3>4 DEF OppositeOrder
  <2>7. ASSUME y = "Commit", write[r] # NoRow
        PROVE  Conflict(s, r) /\ OppositeOrder(r, s)
    <3>1. write[s] = NoRow /\ ChangesKey(r) /\ Conflict(s, r)
      BY <1>6, <2>2, <2>3, <2>7
    <3>2. op(r) \notin PasswordChanges
      BY <3>1, WhoChangesKey
    <3>3. op(r) # "forgot_password"
      <4>1. PICK x \in WriteStatements : Past(r, x)
        BY <2>7 DEF UserInv, Version
      <4>. QED BY <1>5, <4>1, ScriptRoles DEF Past, PasswordOps
    <3>4. op(r) = "update_me"
      BY <2>2, <2>5, <3>2, <3>3
         DEF InvalidatingOps, IssuingOps, PasswordChanges
    <3>5. op(s) \in {"verify_email", "update_me"}
      BY <2>2, <2>3, <2>5, <3>4
         DEF PurposeOf, TokenOps, InvalidatingOps, IssuingOps
    <3>. QED BY <3>1, <3>4, <3>5 DEF OppositeOrder
  <2>. QED BY <1>2, <1>3, <1>4, <2>0, <2>1, <2>4, <2>6, <2>7
<1>10. CASE \/ At(r, "RevokeJti") /\ RevokeTarget(r) \in rev[s]
            \/ At(r, "RevokeAll") /\ \E j : j \in scan[r] /\ j \in rev[s]
  <2>1. /\ Rank(r) = IF write[r] = NoRow THEN 0 ELSE 4
        /\ rev[s] # {}
    BY <1>10, RankValues
  <2>2. y = "Commit" /\ Rank(s) = 1
    BY <1>2, <1>3, <2>1
  <2>3. uid[r] = uid[s]
    <3>1. CASE At(r, "RevokeAll")
      <4>1. PICK j : j \in scan[r] /\ j \in rev[s]
        BY <1>10, <3>1 DEF At
      <4>. QED BY <1>5, <3>1, <4>1 DEF ReqInv, Found, Holds
    <3>2. CASE At(r, "RevokeJti")
      <4>1. RevokeTarget(r) \in rev[s]
        BY <1>10, <3>2 DEF At
      <4>2. op(r) \in {"refresh", "logout", "revoke_session"}
        BY <1>5, <3>2, ScriptRoles DEF At
      <4>3. sessions[RevokeTarget(r)].user = uid[r]
        BY <1>5, <3>2, <4>2, EndpointNames
           DEF ReqInv, Found, Owns, RevokeTarget, SessionOps, ModerationOps,
               At
      <4>. QED BY <1>5, <4>1, <4>3 DEF ReqInv, Holds
    <3>. QED BY <1>10, <3>1, <3>2
  <2>4. ASSUME write[r] # NoRow
        PROVE  Conflict(s, r) /\ OppositeOrder(r, s)
    <3>1. write[s] = NoRow /\ ChangesKey(r) /\ Conflict(s, r)
          /\ op(s) \notin PasswordChanges
      BY <1>6, <2>2, <2>3, <2>4
    <3>2. op(r) \in {"ban", "delete_me"}
      <4>1. op(r) \in PasswordChanges \cup {"ban", "delete_me"}
        BY <1>10, <2>4, HeldWhileWaiting DEF LockStatements
      <4>. QED BY <3>1, <4>1, WhoChangesKey
    <3>3. write[r].email = snap[r].email
      BY <3>1, <3>2, WhoChangesKey
    <3>4. op(s) \in SessionEnders
      BY <1>5, <2>1, <3>1
         DEF ReqInv, Holds, SignOutOps, SessionEnders, PasswordChanges
    <3>. QED BY <3>1, <3>2, <3>3, <3>4 DEF OppositeOrder
  <2>. QED BY <2>1, <2>2, <2>4
<1>. QED BY <1>7, <1>8, <1>9, <1>10, WaitsFor

LEMMA CyclesExplained ==
    RowInv /\ LockInv /\ UserInv /\ HoldInv => DeadlocksExplained
<1> SUFFICES ASSUME RowInv, LockInv, UserInv, HoldInv,
                    NEW r \in Requests, NEW s \in Requests, r # s,
                    Conflict(r, s), Conflict(s, r)
             PROVE  OppositeOrder(r, s) \/ OppositeOrder(s, r)
  BY DEF DeadlocksExplained
<1>1. Waiting(r) /\ Waiting(s)
  BY DEF Waiting
<1>2. Rank(r) < Rank(s) \/ OppositeOrder(r, s)
  BY <1>1, RankIncreases
<1>3. Rank(s) < Rank(r) \/ OppositeOrder(s, r)
  BY <1>1, RankIncreases
<1>4. Rank(r) \in 0..4 /\ Rank(s) \in 0..4
  BY RankValues
<1>. QED BY <1>2, <1>3, <1>4

\* However many requests run, two transactions wait for each other only in
\* the three ways DeadlocksExplained names: every other pair of use cases
\* takes its locks in the same order, accounts before links before sessions,
\* and the reference to an account last, which only a change of its address
\* can make wait.
THEOREM DeadlocksAreKnown == Spec => []DeadlocksExplained
BY CyclesExplained, RowInvariant, LockInvariant, UserInvariant,
   HoldInvariant, PTL

LEMMA PairsInAll ==
    RowInv /\ LockInv /\ UserInv /\ HoldInv => EveryDeadlockHasPair
<1> SUFFICES ASSUME RowInv, LockInv, UserInv, HoldInv,
                    NEW D \in SUBSET Requests, Stuck(D), ~PairIn(D)
             PROVE  FALSE
  BY DEF EveryDeadlockHasPair
<1>1. \A r \in D : Waiting(r) /\ Rank(r) \in 0..4
  BY RankValues DEF Stuck, Waiting
<1>2. \A r \in D : \E s \in D : Rank(r) < Rank(s)
  <2> SUFFICES ASSUME NEW r \in D PROVE \E s \in D : Rank(r) < Rank(s)
    OBVIOUS
  <2>1. PICK s \in D \ {r} : Conflict(r, s)
    BY DEF Stuck
  <2>. QED BY <1>1, <2>1, RankIncreases DEF PairIn
<1>3. \A r \in D : Rank(r) < 4
  BY <1>1, <1>2
<1>4. \A r \in D : Rank(r) < 3
  BY <1>1, <1>2, <1>3
<1>5. \A r \in D : Rank(r) < 2
  BY <1>1, <1>2, <1>4
<1>6. \A r \in D : Rank(r) < 1
  BY <1>1, <1>2, <1>5
<1>. QED BY <1>1, <1>2, <1>6 DEF Stuck

\* Transactions that wait in a circle, of whatever length, always include two
\* that wait for each other, in one of the ways DeadlocksExplained names:
\* ending one of such a pair, as DeadlockVictim does, ends every deadlock.
THEOREM DeadlocksArePairs == Spec => []EveryDeadlockHasPair
BY PairsInAll, RowInvariant, LockInvariant, UserInvariant, HoldInvariant,
   PTL

-----------------------------------------------------------------------------
(***************************************************************************)
(* What a committing transaction has made sure of.                         *)
(***************************************************************************)
\* The link a request presents is spent by it or by somebody else once it
\* has tried to; a verification and an unban hold an active entity; and what
\* was exchanged or followed is worthless.
Uses(r) ==
    /\ Past(r, "MarkUsed") =>
          call[r].tok \in spend[r] \/ tokens[call[r].tok].state = "used"
    /\ Past(r, "ReadTokenUser") \/ Past(r, "UnbanRead") => snap[r].active
    /\ op(r) = "refresh" /\ sessions[r].state # "none" =>
          sessions[jti(r)].state = "revoked"
    /\ op(r) \in TokenOps /\ audit[r] # None =>
          tokens[call[r].tok].state = "used"

UseInv == \A r \in Requests : Uses(r)

\* A use case reads its account once.
LEMMA OneLoad ==
    ASSUME NEW o \in Endpoints,
           NEW i \in DOMAIN Script[o], NEW k \in DOMAIN Script[o], i < k,
           Script[o][i] \in LoadStatements
    PROVE  Script[o][k] \notin LoadStatements
<1> USE DEF LoadStatements
<1>1. CASE o \in {"register", "login", "refresh", "logout", "verify_email",
                  "forgot_password"}
  BY <1>1 DEF Script, RegisterUser, Login, RefreshToken, Logout, VerifyEmail,
              ForgotPassword
<1>2. CASE o \in {"reset_password", "change_password"}
  BY <1>2 DEF Script, ResetPassword, ChangePassword
<1>3. CASE o \in {"me", "update_me", "delete_me"}
  BY <1>3 DEF Script, Authenticate, UpdateUser, DeleteUser
<1>4. CASE o \in {"revoke_session", "revoke_all", "revoke_others", "ban",
                  "unban"}
  BY <1>4 DEF Script, RevokeUserSession, RevokeAllSessions, BanUser, UnbanUser
<1>. QED BY <1>1, <1>2, <1>3, <1>4, EndpointNames

\* The entity of a transaction that goes on is changed by its read, and the
\* row it is compared with by the read and the second fetch.
LEMMA EntityStays ==
    ASSUME TypeOK, NEW r \in Requests, Step(r), phase[r] = "running",
           phase'[r] = "running", ~(\E x \in LoadStatements : At(r, x))
    PROVE  /\ snap'[r] = snap[r]
           /\ base'[r] = base[r] \/ (Reload(r) /\ base'[r] = users[uid[r]])
<1>1. CASE Commit(r) \/ Send(r)
  BY <1>1 DEF TypeOK, Commit, Send
<1>2. CASE \/ AuthSession(r) \/ AuthUser(r) \/ RefreshReadSession(r)
           \/ ReadOwnSession(r) \/ ReadToken(r) \/ RegisterCheck(r)
           \/ CheckEmail(r) \/ Decode(r)
  BY <1>2 DEF TypeOK, AuthSession, AuthUser, RefreshReadSession,
              ReadOwnSession, ReadToken, RegisterCheck, CheckEmail, Decode,
              Deny, Leave, entity
<1>3. CASE \/ RefreshReadUser(r) \/ ReadTokenUser(r) \/ ChangeRead(r)
           \/ UpdateRead(r) \/ DeleteRead(r) \/ BanRead(r) \/ UnbanRead(r)
           \/ LoginRead(r) \/ ForgotRead(r)
  BY <1>3, StatementAt DEF LoadStatements
<1>4. CASE \/ UpdateRow(r) \/ InsertUser(r)
           \/ UpdatePassword(r) \/ RevokeJti(r) \/ ScanSessions(r)
           \/ RevokeAll(r) \/ MarkUsed(r) \/ ScanTokens(r) \/ Invalidate(r)
  BY <1>4 DEF TypeOK, UpdateRow, InsertUser, UpdatePassword,
              RevokeJti, ScanSessions, RevokeAll, MarkUsed, ScanTokens,
              Invalidate, Leave, entity
<1>5. CASE Reload(r)
  BY <1>5 DEF TypeOK, Reload
<1>. QED BY <1>1, <1>2, <1>3, <1>4, <1>5 DEF Step

\* Which credential a request that is past its first statements presented.
LEMMA Presents ==
    ASSUME RowInv, LockInv, NEW q \in Requests
    PROVE  /\ Past(q, "MarkUsed") => op(q) \in TokenOps
           /\ op(q) \in TokenOps /\ phase[q] # "idle" =>
                 call[q].tok \in Toks /\ tokens[call[q].tok].state # "none"
           /\ op(q) = "refresh" /\ phase[q] # "idle" =>
                 jti(q) \in Jtis /\ sessions[jti(q)].state # "none"
           /\ phase[q] \in {"idle", "running"} =>
                 sessions[q].state = "none" /\ audit[q] = None
<1>0. op(q) \in Endpoints /\ Minting
  BY CallFields DEF op, RowInv, TypeInv
<1>1. Past(q, "MarkUsed") => op(q) \in TokenOps
  BY <1>0, ScriptOwners DEF Past
<1>2. op(q) = "refresh" => op(q) \in SessionOps \ ModerationOps
  BY <1>0 DEF SessionOps, ModerationOps
<1>. QED BY <1>0, <1>1, <1>2 DEF LockInv, ReqInv, Owns, Minting

LEMMA UsesFrame ==
    ASSUME RowInv, LockInv, NEW q \in Requests, Uses(q), SameRequest(q),
           \A j \in Jtis : sessions[j].state = "revoked" =>
               sessions'[j].state = "revoked",
           \A t \in Toks : tokens[t].state = "used" =>
               tokens'[t].state = "used",
           sessions[q].state = "none" => sessions'[q].state = "none"
    PROVE  Uses(q)'
<1>0. op(q)' = op(q) /\ jti(q)' = jti(q) /\ \A x : Past(q, x)' = Past(q, x)
  BY DEF SameRequest, op, jti, Past
<1>1. Past(q, "MarkUsed") => phase[q] # "idle"
  BY DEF Past
<1>2. /\ sessions[q].state # "none" => phase[q] # "idle"
      /\ audit[q] # None => phase[q] # "idle"
  BY Presents
<1>. QED BY <1>0, <1>1, <1>2, Presents DEF Uses, SameRequest

LEMMA UsesStatement ==
    ASSUME RowInv, LockInv, HoldInv, NEW r \in Requests, Uses(r),
           Step(r) \/ Crash(r) \/ DeadlockVictim(r), ~Commit(r)
    PROVE  Uses(r)'
<1>0. /\ TypeOK /\ op(r) \in Endpoints /\ op(r)' = op(r) /\ jti(r)' = jti(r)
      /\ call'[r] = call[r] /\ UNCHANGED <<sessions, tokens>>
      /\ ReqInv(r) /\ Locked(r)
  BY CallFields, StepKeepsCall, StepEffects
     DEF RowInv, TypeInv, LockInv, HoldInv, op, jti
<1>1. op(r) \in TokenOps => audit'[r] = audit[r]
  <2>1. At(r, "LoginRead") => op(r) \notin TokenOps
    BY <1>0, ScriptOwners DEF At, TokenOps
  <2>. QED BY <1>0, <2>1, StepEffects DEF TypeOK
<1>2. Past(r, "MarkUsed")' =>
         call[r].tok \in spend'[r] \/ tokens[call[r].tok].state = "used"
  <2> SUFFICES ASSUME Past(r, "MarkUsed")'
               PROVE  \/ call[r].tok \in spend'[r]
                      \/ tokens[call[r].tok].state = "used"
    OBVIOUS
  <2>1. /\ Past(r, "MarkUsed") \/ At(r, "MarkUsed")
        /\ Step(r) /\ phase[r] = "running" /\ phase'[r] = "running"
    BY <1>0, Passed
  <2>2. CASE At(r, "MarkUsed")
    <3>1. op(r) \in TokenOps
      BY <1>0, <2>2, ScriptOwners DEF At
    <3>2. /\ call[r].tok \in Toks
          /\ tokens[call[r].tok].state \in {"none", "unused", "used"}
      BY <1>0, <2>1, <3>1, Presents DEF TypeOK, TokenRow
    <3>3. tokens[call[r].tok].state # "none"
      BY <2>1, <3>1, Presents
    <3>4. spend'[r] = spend[r] \cup {t \in Toks : /\ t = call[r].tok
                                                  /\ tokens[t].state = "unused"}
      BY <1>0, <2>1, <2>2, TheStatement DEF MarkUsed, TypeOK
    <3>. QED BY <3>2, <3>3, <3>4
  <2>3. CASE Past(r, "MarkUsed")
    <3>1. spend[r] \subseteq spend'[r]
      <4>1. CASE MarkUsed(r)
        BY <1>0, <4>1 DEF MarkUsed, TypeOK
      <4>2. CASE Invalidate(r)
        BY <1>0, <4>2 DEF Invalidate, TypeOK
      <4>3. CASE RevokeJti(r) \/ RevokeAll(r)
        BY <4>3 DEF RevokeJti, RevokeAll
      <4>. QED BY <1>0, <2>1, <4>1, <4>2, <4>3, StepStages
    <3>. QED BY <2>3, <3>1 DEF Uses
  <2>. QED BY <2>1, <2>2, <2>3
<1>3. ASSUME NEW x \in {"ReadTokenUser", "UnbanRead"}, Past(r, x)'
      PROVE  snap'[r].active
  <2>1. /\ Past(r, x) \/ At(r, x)
        /\ Step(r) /\ phase[r] = "running" /\ phase'[r] = "running"
    BY <1>0, <1>3, Passed
  <2>2. CASE At(r, x)
    <3>1. ReadTokenUser(r) \/ UnbanRead(r)
      <4>1. \A y, z : At(r, y) /\ At(r, z) => y = z
        BY DEF At
      <4>2. ~Send(r)
        BY <2>1 DEF Send
      <4>. QED BY <2>1, <2>2, <4>1, <4>2, StatementAt DEF Step
    <3>2. users[uid[r]] \in UserRow
      BY <1>0, RowTypes
    <3>3. CASE ReadTokenUser(r)
      <4>1. /\ users[uid[r]].active
            /\ \/ snap'[r] = users[uid[r]]
               \/ snap'[r] = [users[uid[r]] EXCEPT !.verified = TRUE]
        BY <1>0, <2>1, <3>3 DEF ReadTokenUser, Load, Deny, Leave, TypeOK
      <4>. QED BY <3>2, <4>1 DEF UserRow
    <3>4. CASE UnbanRead(r)
      <4>1. snap'[r] = [users[uid[r]] EXCEPT !.active = TRUE]
        BY <1>0, <2>1, <3>4 DEF UnbanRead, Load, Deny, Leave, TypeOK
      <4>. QED BY <3>2, <4>1 DEF UserRow
    <3>. QED BY <3>1, <3>3, <3>4
  <2>3. CASE Past(r, x)
    <3>1. ~(\E y \in LoadStatements : At(r, y))
      BY <1>0, <2>3, OneLoad DEF Past, At, LoadStatements
    <3>2. snap'[r] = snap[r]
      BY <1>0, <2>1, <3>1, EntityStays
    <3>. QED BY <1>3, <2>3, <3>2 DEF Uses
  <2>. QED BY <2>1, <2>2, <2>3
<1>. QED BY <1>0, <1>1, <1>2, <1>3 DEF Uses

LEMMA UsesCommit ==
    ASSUME RowInv, LockInv, NEW r \in Requests, Uses(r), Commit(r)
    PROVE  Uses(r)'
<1>0. /\ TypeOK /\ Minting /\ op(r) \in Endpoints /\ op(r)' = op(r)
      /\ jti(r)' = jti(r) /\ call'[r] = call[r] /\ At(r, "Commit")
      /\ phase[r] = "running" /\ phase'[r] # "running" /\ EndsOwn(r)
  <2>1. TypeOK /\ Minting /\ EndsOwn(r) /\ At(r, "Commit")
    BY DEF RowInv, TypeInv, LockInv, ReqInv, Commit
  <2>. QED BY <2>1, CommitRows, CallFields DEF op, jti
<1>1. \A x : ~Past(r, x)'
  BY <1>0 DEF Past
<1>2. op(r) = "refresh" => sessions'[jti(r)].state = "revoked"
  <2> SUFFICES ASSUME op(r) = "refresh"
               PROVE  sessions'[jti(r)].state = "revoked"
    OBVIOUS
  <2>1. jti(r) \in rev[r] \/ sessions[jti(r)].state = "revoked"
    BY <1>0, CommitPast DEF EndsOwn
  <2>2. jti(r) \in Jtis /\ sessions[jti(r)].state # "none"
    BY <1>0, Presents
  <2>. QED BY <1>0, <2>1, <2>2, CommitRows
<1>3. op(r) \in TokenOps => tokens'[call[r].tok].state = "used"
  <2> SUFFICES ASSUME op(r) \in TokenOps
               PROVE  tokens'[call[r].tok].state = "used"
    OBVIOUS
  <2>1. Past(r, "MarkUsed")
    BY <1>0, ScriptFirst DEF At, Past
  <2>2. call[r].tok \in Toks /\ tokens[call[r].tok].state # "none"
    BY <1>0, Presents
  <2>. QED BY <1>0, <2>1, <2>2, CommitRows DEF Uses
<1>. QED BY <1>0, <1>1, <1>2, <1>3 DEF Uses

LEMMA UseStep ==
    RowInv /\ LockInv /\ HoldInv /\ UseInv /\ [Next]_vars => UseInv'
<1> SUFFICES ASSUME RowInv, LockInv, HoldInv, UseInv, [Next]_vars,
                    NEW q \in Requests
             PROVE  Uses(q)'
  BY DEF UseInv
<1>0. TypeOK /\ Minting /\ Uses(q) /\ q \in Jtis
  BY DEF RowInv, TypeInv, UseInv, Jtis
<1>1. ASSUME NEW r \in Requests, NEW c \in Calls, Start(r, c)
      PROVE  Uses(q)'
  <2>1. /\ phase[r] = "idle" /\ phase' = [phase EXCEPT ![r] = "running"]
        /\ call' = [call EXCEPT ![r] = c]
        /\ UNCHANGED <<sessions, tokens, audit, pc, snap, spend>>
    BY <1>1 DEF Start, tables, staged, entity
  <2>2. CASE q = r
    <3>1. pc[r] = 1 /\ sessions[r].state = "none" /\ audit[r] = None
      BY <1>0, <2>1 DEF LockInv, ReqInv, Holds, Minting
    <3>2. \A x : ~Past(r, x)'
      <4>1. op(r)' \in Endpoints
        BY <1>0, <2>1, CallsAssumption DEF op, TypeOK, Call
      <4>. QED BY <2>1, <3>1, <4>1, ScriptDomain DEF Past
    <3>. QED BY <2>1, <2>2, <3>1, <3>2 DEF Uses
  <2>3. CASE q # r
    <3>1. /\ op(q)' = op(q) /\ call'[q] = call[q] /\ jti(q)' = jti(q)
          /\ \A x : Past(q, x)' = Past(q, x)
      BY <1>0, <2>1, <2>3 DEF op, jti, Past, TypeOK
    <3>. QED BY <1>0, <2>1, <3>1 DEF Uses
  <2>. QED BY <2>2, <2>3
<1>2. ASSUME NEW r \in Requests, Step(r) \/ Crash(r) \/ DeadlockVictim(r)
      PROVE  Uses(q)'
  <2>1. CASE q # r
    <3>1. /\ \A j \in Jtis : sessions[j].state = "revoked" =>
                sessions'[j].state = "revoked"
          /\ \A t \in Toks : tokens[t].state = "used" =>
                tokens'[t].state = "used"
      BY <1>0, <1>2, CommitRows, StepEffects
    <3>2. sessions[q].state = "none" => sessions'[q].state = "none"
      <4>1. CASE Commit(r)
        <5>1. \A j \in rev[r] : sessions[j].state # "none"
          BY DEF RowInv, StagedExist
        <5>. QED BY <1>0, <2>1, <4>1, <5>1, CommitRows
      <4>2. CASE ~Commit(r)
        BY <1>0, <1>2, <4>2, StepEffects
      <4>. QED BY <4>1, <4>2
    <3>. QED BY <1>0, <1>2, <2>1, <3>1, <3>2, OthersStay, UsesFrame
  <2>2. CASE q = r /\ Commit(r)
    BY <1>0, <2>2, UsesCommit
  <2>3. CASE q = r /\ ~Commit(r)
    BY <1>0, <1>2, <2>3, UsesStatement
  <2>. QED BY <2>1, <2>2, <2>3
<1>3. ASSUME \/ \E j \in Jtis : SessionAges(j)
             \/ \E t \in Toks : TokenExpires(t)
      PROVE  Uses(q)'
  <2>1. SameRequest(q)
    BY <1>0, <1>3, AgingRows DEF SameRequest, entity, staged, request
  <2>. QED BY <1>0, <1>3, <2>1, AgingRows, UsesFrame
<1>4. ASSUME UNCHANGED vars PROVE Uses(q)'
  BY <1>0, <1>4 DEF Uses, Past, op, jti, vars, tables, entity, staged, request
<1>. QED BY <1>1, <1>2, <1>3, <1>4 DEF Next, Quiet

LEMMA UseInvariant == Spec => []UseInv
<1>1. Init => UseInv
  <2> SUFFICES ASSUME Init, NEW r \in Requests PROVE Uses(r)
    BY DEF UseInv
  <2>1. op(r) = "me" /\ \A x : ~Past(r, x)
    BY DEF Init, op, NoCall, Past
  <2>. QED BY <2>1 DEF Uses, TokenOps
<1>. QED BY <1>1, UseStep, RowInvariant, LockInvariant, HoldInvariant, PTL
         DEF Spec

\* A refresh token that was exchanged and a mailed link that took effect are
\* worthless from then on, whatever ran beside the exchange.
THEOREM CredentialsAreConsumed == Spec => []CredentialConsumed
<1>1. UseInv => CredentialConsumed
  BY DEF UseInv, Uses, CredentialConsumed
<1>. QED BY <1>1, UseInvariant, PTL

-----------------------------------------------------------------------------
(***************************************************************************)
(* Sessions that outlive their password or their account.                  *)
(***************************************************************************)
LosesFooting(j) == Sound(j) /\ ~Sound(j)'

\* What time and the statements before a commit do not touch.
LEMMA OnlyCommitUnsettles ==
    ASSUME RowInv, Next, NEW j \in Jtis, LosesFooting(j)
    PROVE  \E r \in Requests : Commit(r)
<1>0. TypeOK
  BY DEF RowInv, TypeInv
<1>1. ASSUME NEW r \in Requests, NEW c \in Calls, Start(r, c) PROVE FALSE
  BY <1>1 DEF Start, tables, LosesFooting, Sound
<1>2. ASSUME NEW k \in Jtis, SessionAges(k) PROVE FALSE
  <2>1. /\ sessions[j] \in SessionRow /\ UNCHANGED users
        /\ \/ sessions'[j] = sessions[j]
           \/ sessions'[j] = [sessions[j] EXCEPT !.age = @ + 1]
    BY <1>0, <1>2 DEF SessionAges, TypeOK
  <2>2. /\ sessions'[j].state = sessions[j].state
        /\ sessions'[j].user = sessions[j].user
        /\ sessions'[j].cred = sessions[j].cred
    BY <2>1 DEF SessionRow
  <2>. QED BY <2>1, <2>2 DEF LosesFooting, Sound
<1>3. ASSUME NEW t \in Toks, TokenExpires(t) PROVE FALSE
  BY <1>3 DEF TokenExpires, LosesFooting, Sound
<1>4. ASSUME NEW r \in Requests, Step(r) \/ Crash(r) \/ DeadlockVictim(r),
             ~Commit(r)
      PROVE  FALSE
  BY <1>0, <1>4, StepEffects DEF LosesFooting, Sound
<1>5. CASE Quiet
  BY <1>5 DEF Quiet, vars, tables, LosesFooting, Sound
<1>. QED BY <1>1, <1>2, <1>3, <1>4, <1>5 DEF Next

\* A sign-out has ended the sessions that were open when it arrived.
LEMMA SignOutLeavesNone ==
    ASSUME RowInv, LockInv, NEW r \in Requests, Commit(r),
           op(r) \in SignOutOps \ {"revoke_others"}, NEW j \in openAt[r],
           sessions[j].user = uid[r], sessions[j].state = "open"
    PROVE  j \in rev[r]
<1>1. TypeOK /\ Covers(r)
  BY DEF RowInv, TypeInv, LockInv, ReqInv
<1>2. Past(r, "RevokeAll")
  BY <1>1, CommitPast
<1>3. j \in ToEnd(r)
  BY DEF ToEnd, Kept
<1>. QED BY <1>1, <1>2, <1>3 DEF Covers

\* Which requests write an account, and which of them hold an active entity.
LEMMA WriterOps ==
    ASSUME RowInv, UserInv, UseInv, NEW r \in Requests, Commit(r),
           write[r] # NoRow
    PROVE  /\ op(r) \in PasswordOps \cup {"verify_email", "update_me",
                                          "delete_me", "ban", "unban"}
           /\ op(r) \in {"verify_email", "unban"} => snap[r].active
<1>1. /\ Version(r) /\ Uses(r) /\ op(r) \in Endpoints
      /\ phase[r] = "running" /\ pc[r] \in DOMAIN Script[op(r)]
      /\ Script[op(r)][pc[r]] = "Commit"
  <2>1. At(r, "Commit")
    BY DEF Commit
  <2>. QED BY <2>1, CallFields DEF RowInv, TypeInv, UserInv, UseInv, op, At
<1>2. PICK x \in WriteStatements : Past(r, x)
  BY <1>1 DEF Version
<1>3. op(r) \in PasswordOps \cup {"verify_email", "update_me",
                                  "delete_me", "ban", "unban"}
  BY <1>1, <1>2, ScriptRoles DEF Past
<1>4. ASSUME op(r) = "verify_email" PROVE Past(r, "ReadTokenUser")
  <2>1. /\ 2 \in DOMAIN Script["verify_email"]
        /\ Script["verify_email"][2] = "ReadTokenUser" /\ pc[r] = 6
    BY <1>1, <1>4 DEF Script, VerifyEmail
  <2>. QED BY <1>1, <1>4, <2>1 DEF Past
<1>5. ASSUME op(r) = "unban" PROVE Past(r, "UnbanRead")
  <2>1. /\ 3 \in DOMAIN Script["unban"]
        /\ Script["unban"][3] = "UnbanRead" /\ pc[r] = 6
    BY <1>1, <1>5 DEF Script, UnbanUser
  <2>. QED BY <1>1, <1>5, <2>1 DEF Past
<1>. QED BY <1>1, <1>3, <1>4, <1>5 DEF Uses

\* An open session outlives its password or its account only if it was
\* opened after the request that changed one of them had arrived, if a
\* profile update restores a stale inactive flag, or if its own login or
\* refresh rests on a read that the commit no longer bears out.
THEOREM UnsoundSessionsExplained == Spec => UnsoundSessionExplained
<1> DEFINE Why(r, j) ==
      /\ At(r, "Commit") /\ uid[r] = sessions'[j].user
      /\ \/ /\ op(r) \in PasswordChanges \cup {"ban", "delete_me"}
            /\ j \notin openAt[r]
         \/ /\ op(r) = "update_me"
            /\ ~snap[r].active /\ base[r].active
         \/ /\ j = r /\ op(r) = "login"
            /\ \/ ~users[uid[r]].active
               \/ snap[r].hash # users[uid[r]].hash
         \/ /\ j = r /\ op(r) = "refresh"
            /\ jti(r) \notin rev[r] \/ ~Sound(jti(r))
<1> DEFINE Explained ==
      \A j \in Jtis : Sound(j) /\ ~Sound(j)' => \E r \in Requests : Why(r, j)
<1>1. RowInv /\ LockInv /\ UserInv /\ UseInv /\ [Next]_vars
      => [Explained]_vars
  <2> SUFFICES ASSUME RowInv, LockInv, UserInv, UseInv, Next, NEW j \in Jtis,
                      Sound(j), ~Sound(j)'
               PROVE  \E r \in Requests : Why(r, j)
    OBVIOUS
  <2>1. PICK r \in Requests : Commit(r)
    BY OnlyCommitUnsettles DEF LosesFooting
  <2>2. /\ TypeOK /\ Minting /\ AccountRows /\ Version(r) /\ Subjects(r)
        /\ Backed(r) /\ Holds(r) /\ Owns(r) /\ op(r) \in Endpoints
        /\ At(r, "Commit") /\ phase[r] = "running" /\ audit[r] = None
        /\ uid[r] \in Users
    <3>1. At(r, "Commit") /\ phase[r] = "running"
      BY <2>1 DEF Commit, At
    <3>2. TypeOK
      BY DEF RowInv, TypeInv
    <3>. QED BY <3>1, <3>2, CallFields, RowTypes
             DEF RowInv, UserInv, LockInv, ReqInv, op, Minting
  <2>3. /\ sessions'[j] = SessionAfter(r, j)
        /\ users' = [users EXCEPT ![uid[r]] =
                        IF write[r] = NoRow THEN @ ELSE write[r]]
    BY <2>1 DEF Commit
  <2>4. /\ sessions'[j].state = "open" /\ j \notin rev[r]
        /\ \/ ~users'[sessions'[j].user].active
           \/ sessions'[j].cred # users'[sessions'[j].user].hash
    <3>1. j \in rev[r] => sessions'[j].state = "revoked"
      BY <2>1, <2>2, CommitRows
    <3>. QED BY <3>1 DEF Sound
  <2>5. CASE sessions'[j] = sessions[j]
    <3> DEFINE u == sessions[j].user
    <3>1. /\ u \in Users /\ sessions[j].state = "open" /\ Exists(u)
          /\ users[u].active /\ sessions[j].cred = users[u].hash
      <4>1. sessions[j] \in SessionRow /\ sessions[j].state = "open"
        BY <2>2, <2>4, <2>5 DEF TypeOK
      <4>. QED BY <2>2, <4>1 DEF AccountRows, SessionRow, Sound
    <3>2. /\ uid[r] = u /\ write[r] # NoRow
          /\ ~write[r].active \/ write[r].hash # users[u].hash
      BY <2>2, <2>3, <2>4, <2>5, <3>1 DEF TypeOK
    <3>3. op(r) # "register"
      <4>1. ~Exists(r)
        BY <2>2, NamesAssumption DEF Backed, AuditAction
      <4>. QED BY <2>2, <3>1, <3>2, <4>1 DEF Subjects
    <3>4. op(r) \in SignOutOps \ {"revoke_others"} => j \notin openAt[r]
      BY <2>1, <2>4, <3>1, <3>2, SignOutLeavesNone
    <3>5. CASE op(r) \in PasswordChanges
      BY <2>2, <2>5, <3>2, <3>4, <3>5 DEF SignOutOps, PasswordChanges
    <3>6. CASE op(r) \notin PasswordChanges
      <4>1. op(r) \notin PasswordOps
        BY <3>3, <3>6 DEF PasswordOps, PasswordChanges
      <4>2. ~write[r].active /\ write[r].active = snap[r].active
            /\ snap[r].active # base[r].active
        BY <2>2, <3>1, <3>2, <4>1 DEF Version
      <4>3. base[r].active \in BOOLEAN /\ snap[r].active \in BOOLEAN
        BY <2>2, RowTypes DEF UserRow
      <4>4. ~snap[r].active /\ base[r].active
        BY <4>2, <4>3
      <4>5. op(r) \in {"update_me", "delete_me", "ban"}
        BY <2>1, <3>2, <4>1, <4>4, WriterOps
      <4>. QED BY <2>2, <2>5, <3>2, <3>4, <4>4, <4>5 DEF SignOutOps
    <3>. QED BY <3>5, <3>6
  <2>6. CASE sessions'[j] # sessions[j]
    <3>1. j = r /\ OpensSession(r) /\ sessions'[j] = NewSession(r)
      BY <2>3, <2>4, <2>6 DEF SessionAfter
    <3>2. /\ sessions'[j].user = uid[r]
          /\ sessions'[j].cred = IF op(r) = "refresh"
                                 THEN sessions[jti(r)].cred ELSE snap[r].hash
      BY <3>1 DEF NewSession
    <3>3. write[r] = NoRow
      BY <2>1, <3>1, WriterOps DEF OpensSession, PasswordOps
    <3>4. users'[uid[r]] = users[uid[r]]
      BY <2>2, <2>3, <3>3 DEF TypeOK
    <3>5. CASE op(r) = "login"
      BY <2>2, <2>4, <3>1, <3>2, <3>4, <3>5
    <3>6. CASE op(r) = "refresh"
      <4>1. ASSUME jti(r) \in rev[r], Sound(jti(r)) PROVE FALSE
        <5>1. sessions[jti(r)].state = "open" /\ sessions[jti(r)].user = uid[r]
          BY <2>2, <4>1 DEF Holds
        <5>. QED BY <2>4, <3>2, <3>4, <3>6, <4>1, <5>1 DEF Sound
      <4>. QED BY <2>2, <3>1, <3>2, <3>6, <4>1
    <3>. QED BY <3>1, <3>5, <3>6 DEF OpensSession
  <2>. QED BY <2>5, <2>6
<1>. QED BY <1>1, RowInvariant, LockInvariant, UserInvariant, UseInvariant,
            PTL DEF Spec, UnsoundSessionExplained

-----------------------------------------------------------------------------
(***************************************************************************)
(* Verified addresses nobody has proven to own.                            *)
(***************************************************************************)
Loaded(q) == \E x \in LoadStatements : Past(q, x)

\* A verification link that no profile update issued and nobody has spent.
Original(t) == t \in SeedToks \/ op(t) = "register"
Live(t) ==
    /\ tokens[t].state = "unused" /\ tokens[t].purpose = "email_verification"
    /\ Original(t)

\* The update issues a link of its own, so it spends the others.
Changing(q) == op(q) = "update_me" /\ ~snap[q].verified

\* As long as such a link is live the account has the address it was mailed
\* to, and so has every entity read from it, but for those of profile
\* updates that will spend the link.
LinkOf(t) ==
    /\ users[tokens[t].user].email = tokens[t].to
    /\ \A q \in Requests :
          phase[q] = "running" /\ uid[q] = tokens[t].user =>
             /\ Loaded(q) => /\ base[q].email = tokens[t].to
                             /\ snap[q].email = tokens[t].to \/ Changing(q)
             /\ op(q) = "update_me" => t \in unusedAt[q]

\* Who issues which links, and who verifies.
Issuer(r) ==
    /\ tokens[r].state # "none" =>
          op(r) \in IssuingOps /\ tokens[r].purpose = PurposeOf(op(r))
    /\ op(r) = "register" /\ write[r] # NoRow => write[r].email = call[r].email
    /\ audit[r] = "EMAIL_VERIFIED" => op(r) = "verify_email"

IssueInv == \A r \in Requests : Issuer(r)
LinkInv == \A t \in Toks : Live(t) => LinkOf(t)

\* A mailed link stays addressed to whom it was.
LEMMA ToStays ==
    ASSUME RowInv, [Next]_vars, NEW t \in Toks, tokens[t].state # "none"
    PROVE  tokens'[t].to = tokens[t].to
<1>0. TypeOK /\ Minting /\ tokens[t] \in TokenRow
  BY DEF RowInv, TypeInv, TypeOK
<1>1. ASSUME NEW r \in Requests, Commit(r) PROVE tokens'[t].to = tokens[t].to
  <2>1. tokens'[t] = TokenAfter(r, t) /\ tokens[r].state = "none"
    <3>1. tokens'[t] = TokenAfter(r, t)
      BY <1>1 DEF Commit
    <3>2. phase[r] = "running"
      BY <1>1 DEF Commit, At
    <3>. QED BY <1>0, <3>1, <3>2 DEF Minting
  <2>2. t # r
    BY <2>1
  <2>3. \/ tokens'[t] = tokens[t]
        \/ tokens'[t] = [tokens[t] EXCEPT !.state = "used"]
    BY <2>1, <2>2 DEF TokenAfter
  <2>. QED BY <1>0, <2>3 DEF TokenRow
<1>2. ASSUME NEW r \in Requests, ~Commit(r),
             Step(r) \/ Crash(r) \/ DeadlockVictim(r)
      PROVE  tokens'[t].to = tokens[t].to
  BY <1>0, <1>2, StepEffects
<1>3. ASSUME NEW w \in Toks, TokenExpires(w)
      PROVE  tokens'[t].to = tokens[t].to
  <2>1. \/ tokens'[t] = tokens[t]
        \/ tokens'[t] = [tokens[t] EXCEPT !.expired = TRUE]
    BY <1>0, <1>3 DEF TokenExpires, TypeOK
  <2>. QED BY <1>0, <2>1 DEF TokenRow
<1>4. ASSUME \/ \E j \in Jtis : SessionAges(j)
             \/ \E r \in Requests : \E c \in Calls : Start(r, c)
             \/ UNCHANGED vars
      PROVE  tokens'[t].to = tokens[t].to
  BY <1>4 DEF SessionAges, Start, vars, tables
<1>. QED BY <1>1, <1>2, <1>3, <1>4 DEF Next, Quiet

LEMMA IssueStep ==
    RowInv /\ LockInv /\ UserInv /\ IssueInv /\ [Next]_vars => IssueInv'
<1> SUFFICES ASSUME RowInv, LockInv, UserInv, IssueInv, [Next]_vars,
                    NEW q \in Requests
             PROVE  Issuer(q)'
  BY DEF IssueInv
<1>0. TypeOK /\ Minting /\ Issuer(q) /\ q \in Toks
  BY DEF RowInv, TypeInv, IssueInv, Toks
<1>1. ASSUME call'[q] = call[q], audit'[q] = audit[q], write'[q] = write[q],
             tokens[q].state = "none" => tokens'[q].state = "none",
             tokens[q].state # "none" => tokens'[q].purpose = tokens[q].purpose
      PROVE  Issuer(q)'
  BY <1>0, <1>1 DEF Issuer, op
<1>2. ASSUME NEW r \in Requests, NEW c \in Calls, Start(r, c)
      PROVE  Issuer(q)'
  <2>1. /\ phase[r] = "idle" /\ call' = [call EXCEPT ![r] = c]
        /\ UNCHANGED <<tokens, audit, write>>
    BY <1>2 DEF Start, tables, staged
  <2>2. CASE q = r
    <3>1. tokens[r].state = "none" /\ audit[r] = None /\ write[r] = NoRow
      BY <1>0, <2>1 DEF Minting, UserInv, Version, Past
    <3>. QED BY <2>1, <2>2, <3>1, NamesAssumption DEF Issuer, AuditAction
  <2>3. CASE q # r
    BY <1>0, <1>1, <2>1, <2>3 DEF TypeOK
  <2>. QED BY <2>2, <2>3
<1>3. ASSUME NEW r \in Requests, Step(r) \/ Crash(r) \/ DeadlockVictim(r),
             q # r
      PROVE  Issuer(q)'
  <2>1. call'[q] = call[q] /\ audit'[q] = audit[q] /\ write'[q] = write[q]
    BY <1>0, <1>3, OthersStay DEF SameRequest
  <2>2. CASE Commit(r)
    <3>1. \A t \in spend[r] : tokens[t].state # "none"
      BY DEF RowInv, StagedExist
    <3>. QED BY <1>0, <1>1, <1>3, <2>1, <2>2, <3>1, CommitRows
  <2>3. CASE ~Commit(r)
    BY <1>0, <1>1, <1>3, <2>1, <2>3, StepEffects
  <2>. QED BY <2>2, <2>3
<1>4. CASE Commit(q)
  <2>1. /\ tokens[q].state = "none" /\ call'[q] = call[q] /\ write'[q] = NoRow
        /\ tokens'[q] = TokenAfter(q, q) /\ audit'[q] = Entry(op(q))
        /\ op(q) \in Endpoints
    <3>1. tokens'[q] = TokenAfter(q, q) /\ audit'[q] = Entry(op(q))
      BY <1>0, <1>4 DEF Commit, TypeOK
    <3>. QED BY <1>0, <1>4, <3>1, CommitRows, CallFields DEF Minting, op
  <2>2. q \notin spend[q]
    BY <2>1 DEF RowInv, StagedExist
  <2>3. tokens'[q].state # "none" =>
           op(q) \in IssuingOps /\ tokens'[q].purpose = PurposeOf(op(q))
    BY <2>1, <2>2 DEF TokenAfter, IssuesLink, IssuingOps, NewToken
  <2>4. Entry(op(q)) = "EMAIL_VERIFIED" => op(q) = "verify_email"
    BY <2>1, NamesAssumption DEF Entry, AuditAction
  <2>. QED BY <2>1, <2>3, <2>4 DEF Issuer, op
<1>5. ASSUME Step(q) \/ Crash(q) \/ DeadlockVictim(q), ~Commit(q)
      PROVE  Issuer(q)'
  <2>1. /\ UNCHANGED tokens /\ call'[q] = call[q] /\ op(q) \in Endpoints
        /\ audit'[q] = audit[q] \/ audit'[q] = "LOGIN_FAILED"
    BY <1>0, <1>5, StepEffects, StepKeepsCall, CallFields DEF op, TypeOK
  <2>2. CASE write'[q] \in {write[q], NoRow}
    BY <1>0, <2>1, <2>2 DEF Issuer, op
  <2>3. CASE UpdateRow(q) \/ UpdatePassword(q)
    <3>1. op(q) # "register"
      <4>1. At(q, "UpdateRow") \/ At(q, "UpdatePassword")
        BY <2>3, StatementAt
      <4>. QED BY <2>1, <4>1, WritePlaces DEF At
    <3>. QED BY <1>0, <2>1, <3>1 DEF Issuer, op
  <2>4. CASE InsertUser(q)
    <3>1. write'[q] = NoRow \/ write'[q].email = call[q].email
      BY <1>0, <2>4 DEF InsertUser, Leave, Discard, TypeOK
    <3>. QED BY <1>0, <2>1, <3>1 DEF Issuer, op
  <2>. QED BY <1>0, <1>5, <2>2, <2>3, <2>4, StepWrites
<1>6. ASSUME \/ \E j \in Jtis : SessionAges(j)
             \/ \E t \in Toks : TokenExpires(t)
      PROVE  Issuer(q)'
  <2>1. UNCHANGED <<audit, call, write>>
    BY <1>0, <1>6, AgingRows DEF staged, request
  <2>. QED BY <1>0, <1>1, <1>6, <2>1, AgingRows
<1>7. ASSUME UNCHANGED vars PROVE Issuer(q)'
  BY <1>1, <1>7 DEF vars, tables, staged, request
<1>. QED BY <1>2, <1>3, <1>4, <1>5, <1>6, <1>7 DEF Next, Quiet, Step

LEMMA IssueInvariant == Spec => []IssueInv
<1>1. Init => IssueInv
  <2> SUFFICES ASSUME Init, NEW r \in Requests PROVE Issuer(r)
    BY DEF IssueInv
  <2>1. op(r) = "me" /\ audit[r] = None /\ r \in Toks /\ r \notin SeedToks
    BY NamesAssumption DEF Init, op, NoCall, Toks
  <2>. QED BY <2>1, NamesAssumption DEF Init, Issuer, AuditAction
<1>. QED BY <1>1, IssueStep, RowInvariant, LockInvariant, UserInvariant, PTL
         DEF Spec

\* Where the use cases read their account, and that they do before they
\* write it.
LEMMA LoadOwners ==
    ASSUME NEW o \in Endpoints, NEW k \in DOMAIN Script[o],
           Script[o][k] \in LoadStatements
    PROVE  /\ Script[o][k] = "UpdateRead" => o = "update_me"
           /\ o # "register"
           /\ o \in ModerationOps => k = 3
BY EndpointNames DEF LoadStatements, ModerationOps, Script, Authenticate,
   RegisterUser, Login, RefreshToken, Logout, VerifyEmail, ForgotPassword,
   ResetPassword, UpdateUser, ChangePassword, DeleteUser,
   RevokeUserSession, RevokeAllSessions, BanUser, UnbanUser

LEMMA WriteAfterLoad ==
    ASSUME NEW o \in Endpoints, o # "register", NEW k \in DOMAIN Script[o],
           Script[o][k] \in WriteStatements
    PROVE  \E i \in DOMAIN Script[o] :
              i < k /\ Script[o][i] \in LoadStatements
<1>0. \/ o \in {"verify_email", "delete_me", "ban", "unban"} /\ k = 5
      \/ o = "update_me" /\ k = 6
      \/ o = "change_password" /\ k = 4
      \/ o = "reset_password" /\ k = 3
  BY WritePlaces DEF WriteStatements
<1>1. CASE o \in {"verify_email", "reset_password"}
  <2>1. 2 \in DOMAIN Script[o] /\ Script[o][2] = "ReadTokenUser"
    BY <1>1 DEF Script, VerifyEmail, ResetPassword
  <2>. QED BY <1>0, <1>1, <2>1 DEF LoadStatements
<1>2. CASE o \in {"delete_me", "ban", "unban", "update_me",
                  "change_password"}
  <2>1. /\ 3 \in DOMAIN Script[o]
        /\ Script[o][3] \in {"DeleteRead", "BanRead", "UnbanRead",
                             "UpdateRead", "ChangeRead"}
    BY <1>2 DEF Script, DeleteUser, BanUser, UnbanUser, UpdateUser,
                ChangePassword
  <2>. QED BY <1>0, <1>2, <2>1 DEF LoadStatements
<1>. QED BY <1>0, <1>1, <1>2

\* What a read leaves in the hands of a transaction that goes on.
LEMMA LoadEffect ==
    ASSUME TypeOK, NEW r \in Requests, Step(r), phase[r] = "running",
           phase'[r] = "running", \E x \in LoadStatements : At(r, x)
    PROVE  /\ base'[r] = users[uid'[r]]
           /\ \/ snap'[r].email = users[uid'[r]].email
              \/ op(r) = "update_me" /\ ~snap'[r].verified
<1>0. users[uid[r]] \in UserRow
  BY RowTypes
<1>1. CASE LoginRead(r) \/ ForgotRead(r)
  BY <1>1 DEF LoginRead, ForgotRead, Load, Leave, TypeOK
<1>2. CASE RefreshReadUser(r) \/ ChangeRead(r)
  BY <1>2 DEF RefreshReadUser, ChangeRead, Load, Deny, Leave, TypeOK, request
<1>3. CASE ReadTokenUser(r)
  <2>1. /\ base'[r] = users[uid[r]] /\ UNCHANGED uid
        /\ \/ snap'[r] = users[uid[r]]
           \/ snap'[r] = [users[uid[r]] EXCEPT !.verified = TRUE]
    BY <1>3 DEF ReadTokenUser, Load, Deny, Leave, TypeOK, request
  <2>. QED BY <1>0, <2>1 DEF UserRow
<1>4. CASE DeleteRead(r) \/ BanRead(r)
  <2>1. /\ base'[r] = users[uid[r]] /\ UNCHANGED uid
        /\ snap'[r] = [users[uid[r]] EXCEPT !.active = FALSE]
    BY <1>4 DEF DeleteRead, BanRead, Load, Deny, Leave, TypeOK, request
  <2>. QED BY <1>0, <2>1 DEF UserRow
<1>5. CASE UnbanRead(r)
  <2>1. /\ base'[r] = users[uid[r]] /\ UNCHANGED uid
        /\ snap'[r] = [users[uid[r]] EXCEPT !.active = TRUE]
    BY <1>5 DEF UnbanRead, Load, Deny, Leave, TypeOK, request
  <2>. QED BY <1>0, <2>1 DEF UserRow
<1>6. CASE UpdateRead(r)
  <2>1. op(r) = "update_me"
    <3>1. op(r) \in Endpoints
      BY CallFields DEF op
    <3>2. At(r, "UpdateRead")
      BY <1>6, StatementAt
    <3>. QED BY <3>1, <3>2, LoadOwners DEF At
  <2>2. /\ base'[r] = users[uid[r]] /\ UNCHANGED uid
        /\ \/ snap'[r] = users[uid[r]]
           \/ snap'[r] = [users[uid[r]] EXCEPT !.email = call[r].email,
                                               !.verified = FALSE]
    BY <1>6 DEF UpdateRead, Load, TypeOK, request
  <2>. QED BY <1>0, <2>1, <2>2 DEF UserRow
<1>. QED BY <1>1, <1>2, <1>3, <1>4, <1>5, <1>6, TheStatement

\* Who has read an account, has one that exists.
LEMMA LoadedExists ==
    ASSUME RowInv, UserInv, NEW q \in Requests, phase[q] = "running",
           Loaded(q) \/ op(q) = "update_me"
    PROVE  op(q) # "register" /\ Exists(uid[q])
<1>0. op(q) \in Endpoints /\ pc[q] \in Nat /\ Subjects(q)
  BY CallFields DEF op, RowInv, TypeInv, TypeOK, UserInv
<1>1. CASE op(q) = "update_me"
  BY <1>0, <1>1 DEF Subjects, ModerationOps
<1>2. CASE Loaded(q)
  <2>1. PICK k \in DOMAIN Script[op(q)] :
           k < pc[q] /\ Script[op(q)][k] \in LoadStatements
    BY <1>2 DEF Loaded, Past
  <2>2. k \in Nat /\ k >= 1
    BY <1>0, ScriptDomain
  <2>3. /\ op(q) # "register"
        /\ op(q) \in ModerationOps => k = 3
    BY <1>0, <2>1, LoadOwners
  <2>4. pc[q] > 1 /\ (op(q) \in ModerationOps => pc[q] > 3)
    BY <1>0, <2>1, <2>2, <2>3
  <2>. QED BY <1>0, <2>3, <2>4 DEF Subjects
<1>. QED BY <1>1, <1>2

\* A commit that rewrites the row of a live link's account leaves the
\* address as it is, or spends the link.
LEMMA CommitKeepsAddress ==
    ASSUME RowInv, LockInv, UserInv, NEW r \in Requests, Commit(r),
           write[r] # NoRow, NEW t \in Toks, Live(t), LinkOf(t),
           uid[r] = tokens[t].user, t \notin spend[r]
    PROVE  write[r].email = tokens[t].to
<1>0. /\ TypeOK /\ op(r) \in Endpoints /\ At(r, "Commit")
      /\ phase[r] = "running" /\ audit[r] = None
      /\ Version(r) /\ Subjects(r) /\ Backed(r) /\ AccountRows /\ ReqInv(r)
  <2>1. At(r, "Commit") /\ phase[r] = "running"
    BY DEF Commit, At
  <2>. QED BY <2>1, CallFields
           DEF RowInv, TypeInv, UserInv, LockInv, op, Minting
<1>1. op(r) # "register"
  <2>1. Exists(tokens[t].user)
    BY <1>0 DEF AccountRows, Live
  <2>2. ~Exists(r)
    BY <1>0, NamesAssumption DEF Backed, AuditAction
  <2>. QED BY <1>0, <2>1, <2>2 DEF Subjects
<1>2. CASE op(r) \in PasswordOps
  BY <1>0, <1>1, <1>2 DEF Version, LinkOf
<1>3. CASE op(r) \notin PasswordOps
  <2>1. Loaded(r)
    <3>1. PICK x \in WriteStatements : Past(r, x)
      BY <1>0 DEF Version
    <3>2. PICK k \in DOMAIN Script[op(r)] :
             k < pc[r] /\ Script[op(r)][k] \in WriteStatements
      BY <3>1 DEF Past
    <3>3. PICK i \in DOMAIN Script[op(r)] :
             i < k /\ Script[op(r)][i] \in LoadStatements
      BY <1>0, <1>1, <3>2, WriteAfterLoad
    <3>4. i < pc[r]
      <4>1. i \in Nat /\ k \in Nat /\ pc[r] \in Nat
        BY <1>0, ScriptDomain DEF TypeOK
      <4>. QED BY <3>2, <3>3, <4>1
    <3>. QED BY <1>0, <3>3, <3>4 DEF Loaded, Past
  <2>2. /\ users[uid[r]].email = tokens[t].to
        /\ base[r].email = tokens[t].to
        /\ snap[r].email = tokens[t].to \/ Changing(r)
        /\ op(r) = "update_me" => t \in unusedAt[r]
    BY <1>0, <2>1 DEF LinkOf
  <2>3. ~Changing(r)
    <3> SUFFICES ASSUME Changing(r) PROVE FALSE
      OBVIOUS
    <3>1. /\ op(r) = "update_me" /\ Replaces(r) /\ Past(r, "Invalidate")
      BY <1>0, CommitPast
         DEF Changing, Replaces, IssuesLink, InvalidatingOps, IssuingOps
    <3>2. t \in ToSpend(r)
      BY <2>2, <3>1 DEF ToSpend, Live, PurposeOf
    <3>. QED BY <1>0, <3>1, <3>2 DEF ReqInv, CoversLinks, Live
  <2>. QED BY <1>0, <1>3, <2>2, <2>3 DEF Version
<1>. QED BY <1>2, <1>3

\* A live link of a request that does not move, or moves without committing.
LEMMA LinkRequest ==
    ASSUME RowInv, LockInv, UserInv, NEW t \in Toks, Live(t), LinkOf(t),
           NEW r \in Requests, Step(r), phase[r] = "running",
           phase'[r] = "running", uid'[r] = tokens[t].user
    PROVE  /\ Loaded(r)' => /\ base'[r].email = tokens[t].to
                            /\ snap'[r].email = tokens[t].to \/ Changing(r)'
           /\ op(r) = "update_me" => t \in unusedAt'[r]
<1>0. /\ TypeOK /\ op(r) \in Endpoints /\ op(r)' = op(r)
      /\ UNCHANGED unusedAt /\ users[tokens[t].user].email = tokens[t].to
  BY CallFields, StepKeepsCall DEF RowInv, TypeInv, op, LinkOf
<1>1. CASE \E x \in LoadStatements : At(r, x)
  <2>1. /\ base'[r].email = tokens[t].to
        /\ snap'[r].email = tokens[t].to \/ Changing(r)'
    BY <1>0, <1>1, LoadEffect DEF Changing
  <2>2. op(r) = "update_me" => uid'[r] = uid[r]
    BY <1>0, StepSubject
  <2>. QED BY <1>0, <2>1, <2>2 DEF LinkOf
<1>2. CASE ~(\E x \in LoadStatements : At(r, x))
  <2>1. uid'[r] = uid[r]
    <3>1. ~LoginRead(r) /\ ~ForgotRead(r)
      BY <1>2, StatementAt DEF LoadStatements
    <3>. QED BY <1>0, <3>1, StepSubject
  <2>2. Loaded(r)' => Loaded(r)
    <3>1. ASSUME NEW x \in LoadStatements, Past(r, x)' PROVE Past(r, x)
      BY <1>0, <1>2, <3>1, Passed DEF LoadStatements
    <3>. QED BY <3>1 DEF Loaded
  <2>3. /\ snap'[r] = snap[r] /\ Changing(r)' = Changing(r)
        /\ base'[r] = base[r] \/ base'[r] = users[uid[r]]
    BY <1>0, <1>2, EntityStays DEF Changing
  <2>. QED BY <1>0, <2>1, <2>2, <2>3 DEF LinkOf
<1>. QED BY <1>1, <1>2

\* A link that is live after a step was live before it, or is that of the
\* registration that commits.
LEMMA LiveBefore ==
    ASSUME RowInv, IssueInv, [Next]_vars, NEW t \in Toks, Live(t)'
    PROVE  \/ /\ Live(t) /\ tokens'[t].user = tokens[t].user
              /\ tokens'[t].to = tokens[t].to
              /\ \A r \in Requests : Commit(r) => t \notin spend[r]
           \/ t \in Requests /\ Commit(t) /\ op(t) = "register"
<1>0. TypeOK /\ Minting
  BY DEF RowInv, TypeInv
<1>1. ASSUME tokens[t].state = "unused",
             tokens'[t].user = tokens[t].user,
             tokens'[t].purpose = tokens[t].purpose,
             t \in Requests => call'[t] = call[t]
      PROVE  /\ Live(t) /\ tokens'[t].user = tokens[t].user
             /\ tokens'[t].to = tokens[t].to
  <2>1. t \in SeedToks \/ t \in Requests
    BY DEF Toks
  <2>2. Original(t)
    BY <1>1, <2>1 DEF Live, Original, op
  <2>. QED BY <1>1, <2>2, ToStays DEF Live
<1>2. ASSUME NEW r \in Requests, NEW c \in Calls, Start(r, c)
      PROVE  /\ Live(t) /\ tokens'[t].user = tokens[t].user
             /\ tokens'[t].to = tokens[t].to
  <2>1. UNCHANGED tokens /\ phase[r] = "idle"
        /\ call' = [call EXCEPT ![r] = c]
    BY <1>2 DEF Start, tables
  <2>2. t # r
    BY <1>0, <2>1 DEF Live, Minting
  <2>. QED BY <1>0, <1>1, <2>1, <2>2 DEF Live, TypeOK
<1>3. ASSUME NEW r \in Requests, Step(r) \/ Crash(r) \/ DeadlockVictim(r),
             ~Commit(r)
      PROVE  /\ Live(t) /\ tokens'[t].user = tokens[t].user
             /\ tokens'[t].to = tokens[t].to
  BY <1>0, <1>1, <1>3, StepEffects, StepKeepsCall DEF Live
<1>4. ASSUME NEW r \in Requests, Commit(r)
      PROVE  \/ /\ Live(t) /\ tokens'[t].user = tokens[t].user
                /\ tokens'[t].to = tokens[t].to /\ t \notin spend[r]
             \/ t = r /\ op(t) = "register"
  <2>1. t \notin spend[r]
    BY <1>0, <1>4, CommitRows DEF Live
  <2>2. CASE t # r
    BY <1>0, <1>1, <1>4, <2>1, <2>2, CommitRows DEF Live
  <2>3. CASE t = r
    <3>1. t \notin SeedToks /\ op(t)' = op(t)
      BY <1>0, <1>4, <2>3, CommitRows, NamesAssumption DEF op
    <3>. QED BY <2>3, <3>1 DEF Live, Original
  <2>. QED BY <2>2, <2>3
<1>5. ASSUME \/ \E j \in Jtis : SessionAges(j)
             \/ \E w \in Toks : TokenExpires(w)
      PROVE  /\ Live(t) /\ tokens'[t].user = tokens[t].user
             /\ tokens'[t].to = tokens[t].to
  BY <1>0, <1>1, <1>5, AgingRows DEF Live, request
<1>6. ASSUME UNCHANGED vars
      PROVE  /\ Live(t) /\ tokens'[t].user = tokens[t].user
             /\ tokens'[t].to = tokens[t].to
  BY <1>1, <1>6 DEF Live, vars, tables, request
<1>7. ASSUME NEW r \in Requests, Commit(r), t \in spend[r] PROVE FALSE
  BY <1>0, <1>7, CommitRows DEF Live
<1>. QED BY <1>2, <1>3, <1>4, <1>5, <1>6, <1>7 DEF Next, Quiet, Step

\* The first link of a new account.
LEMMA LinkBorn ==
    ASSUME RowInv, LockInv, UserInv, IssueInv, NEW r \in Requests, Commit(r),
           op(r) = "register", Live(r)'
    PROVE  LinkOf(r)'
<1>0. /\ TypeOK /\ Minting /\ op(r) \in Endpoints /\ At(r, "Commit")
      /\ phase[r] = "running" /\ pc[r] \in DOMAIN Script[op(r)]
      /\ Script[op(r)][pc[r]] = "Commit" /\ audit[r] = None
      /\ Subjects(r) /\ Backed(r) /\ Issuer(r) /\ r \in Toks /\ r \in Users
  <2>1. At(r, "Commit")
    BY DEF Commit
  <2>2. phase[r] = "running" /\ TypeOK
    BY <2>1 DEF At, RowInv, TypeInv
  <2>. QED BY <2>1, <2>2, CallFields
           DEF RowInv, UserInv, IssueInv, op, At, Toks, Users, Minting
<1>1. uid[r] = r /\ ~Exists(r)
  BY <1>0, NamesAssumption DEF Subjects, Backed, AuditAction
<1>2. write[r] # NoRow /\ write[r].email = call[r].email
  <2>1. Past(r, "InsertUser")
    BY <1>0, ScriptReads DEF Past
  <2>. QED BY <1>0, <2>1 DEF Subjects, Issuer
<1>3. users'[r].email = call[r].email
  <2>1. users'[r] = write[r]
    BY <1>0, <1>1, <1>2 DEF Commit, TypeOK
  <2>. QED BY <1>2, <2>1
<1>4. tokens'[r].user = r /\ tokens'[r].to = call[r].email
  <2>1. tokens'[r] = TokenAfter(r, r)
    BY <1>0 DEF Commit
  <2>2. r \notin spend[r]
    BY <1>0 DEF RowInv, StagedExist, Minting
  <2>3. tokens'[r] = NewToken(r)
    BY <2>1, <2>2 DEF TokenAfter, IssuesLink
  <2>. QED BY <1>1, <2>3 DEF NewToken
<1>5. ASSUME NEW q \in Requests, phase'[q] = "running", uid'[q] = r,
             Loaded(q)' \/ op(q)' = "update_me"
      PROVE  FALSE
  <2>1. q # r
    BY <1>0, <1>5, CommitRows
  <2>2. SameRequest(q)
    BY <1>0, <2>1, OthersStay DEF Step
  <2>3. /\ phase[q] = "running" /\ uid[q] = r
        /\ Loaded(q) \/ op(q) = "update_me"
    BY <1>5, <2>2 DEF SameRequest, Loaded, Past, op
  <2>. QED BY <1>1, <2>3, LoadedExists
<1>. QED BY <1>3, <1>4, <1>5 DEF LinkOf

LEMMA LinkStep ==
    RowInv /\ LockInv /\ UserInv /\ IssueInv /\ LinkInv /\ [Next]_vars
    => LinkInv'
<1> SUFFICES ASSUME RowInv, LockInv, UserInv, IssueInv, LinkInv, [Next]_vars,
                    NEW t \in Toks, Live(t)'
             PROVE  LinkOf(t)'
  BY DEF LinkInv
<1>0. TypeOK /\ Minting
  BY DEF RowInv, TypeInv
<1>1. CASE t \in Requests /\ Commit(t) /\ op(t) = "register"
  BY <1>1, LinkBorn
<1>2. CASE /\ Live(t) /\ tokens'[t].user = tokens[t].user
           /\ tokens'[t].to = tokens[t].to
           /\ \A r \in Requests : Commit(r) => t \notin spend[r]
  <2> DEFINE u == tokens[t].user
             e == tokens[t].to
  <2>0. LinkOf(t) /\ users[u].email = e /\ u \in Users
    <3>1. tokens[t] \in TokenRow
      BY <1>0 DEF TypeOK
    <3>. QED BY <1>2, <3>1 DEF LinkInv, LinkOf, TokenRow
  <2>1. users'[u].email = e
    <3>1. CASE users'[u] = users[u]
      BY <2>0, <3>1
    <3>2. CASE users'[u] # users[u]
      <4>1. Next
        BY <3>2 DEF vars, tables
      <4>2. PICK r \in Requests : /\ Commit(r) /\ uid[r] = u
                                  /\ write[r] # NoRow /\ users'[u] = write[r]
        BY <2>0, <3>2, <4>1, WhoWrites
      <4>. QED BY <1>2, <2>0, <4>2, CommitKeepsAddress
    <3>. QED BY <3>1, <3>2
  <2>2. ASSUME NEW q \in Requests, phase'[q] = "running", uid'[q] = u
        PROVE  /\ Loaded(q)' => /\ base'[q].email = e
                                /\ snap'[q].email = e \/ Changing(q)'
               /\ op(q)' = "update_me" => t \in unusedAt'[q]
    <3>1. ASSUME SameRequest(q), base'[q] = base[q]
          PROVE  /\ Loaded(q)' => /\ base'[q].email = e
                                  /\ snap'[q].email = e \/ Changing(q)'
                 /\ op(q)' = "update_me" => t \in unusedAt'[q]
      <4>1. /\ Loaded(q)' = Loaded(q) /\ Changing(q)' = Changing(q)
            /\ op(q)' = op(q) /\ phase[q] = "running" /\ uid[q] = u
        BY <2>2, <3>1 DEF SameRequest, Loaded, Past, Changing, op
      <4>. QED BY <2>0, <3>1, <4>1 DEF LinkOf, SameRequest
    <3>2. ASSUME NEW r \in Requests, NEW c \in Calls, Start(r, c), q = r
          PROVE  ~Loaded(q)' /\ t \in unusedAt'[q]
      <4>1. /\ phase[r] = "idle" /\ call' = [call EXCEPT ![r] = c]
            /\ UNCHANGED pc
            /\ unusedAt'[r] = {w \in Toks : tokens[w].state = "unused"}
        BY <1>0, <3>2 DEF Start, TypeOK
      <4>2. pc'[r] = 1 /\ op(r)' \in Endpoints
        BY <1>0, <4>1, CallsAssumption
           DEF LockInv, ReqInv, Holds, op, TypeOK, Call
      <4>. QED BY <1>2, <3>2, <4>1, <4>2, ScriptDomain DEF Loaded, Past, Live
    <3>3. ASSUME NEW r \in Requests, NEW c \in Calls, Start(r, c), q # r
          PROVE  SameRequest(q) /\ base'[q] = base[q]
      BY <1>0, <3>3
         DEF Start, SameRequest, TypeOK, tables, entity, staged
    <3>4. ASSUME NEW r \in Requests, Step(r) \/ Crash(r) \/ DeadlockVictim(r),
                 q # r
          PROVE  SameRequest(q) /\ base'[q] = base[q]
      BY <1>0, <3>4, OthersStay
    <3>5. ASSUME Step(q) \/ Crash(q) \/ DeadlockVictim(q)
          PROVE  /\ Loaded(q)' => /\ base'[q].email = e
                                  /\ snap'[q].email = e \/ Changing(q)'
                 /\ op(q)' = "update_me" => t \in unusedAt'[q]
      <4>1. Step(q) /\ phase[q] = "running" /\ op(q)' = op(q)
        BY <1>0, <2>2, <3>5, Moves, StepKeepsCall DEF op
      <4>. QED BY <1>2, <2>0, <2>2, <4>1, LinkRequest
    <3>6. ASSUME \/ \E j \in Jtis : SessionAges(j)
                 \/ \E w \in Toks : TokenExpires(w)
          PROVE  SameRequest(q) /\ base'[q] = base[q]
      BY <1>0, <3>6, AgingRows DEF SameRequest, entity, staged, request
    <3>7. ASSUME UNCHANGED vars PROVE SameRequest(q) /\ base'[q] = base[q]
      BY <3>7 DEF SameRequest, vars, tables, entity, staged, request
    <3>. QED BY <3>1, <3>2, <3>3, <3>4, <3>5, <3>6, <3>7 DEF Next, Quiet
  <2>. QED BY <1>2, <2>1, <2>2 DEF LinkOf
<1>. QED BY <1>1, <1>2, LiveBefore

LEMMA LinkInvariant == Spec => []LinkInv
<1>1. Init => LinkInv
  <2> SUFFICES ASSUME Init, NEW t \in Toks, Live(t) PROVE LinkOf(t)
    BY DEF LinkInv
  <2>1. /\ t \in SeedToks /\ Link[t].user \in SeedUsers
        /\ tokens[t].user = Link[t].user
        /\ tokens[t].to = Address[Link[t].user]
    BY SeedAssumption DEF Init, Live
  <2>2. users[tokens[t].user].email = tokens[t].to
    BY <2>1 DEF Init, Users
  <2>. QED BY <2>2 DEF Init, LinkOf
<1>. QED BY <1>1, LinkStep, RowInvariant, LockInvariant, UserInvariant,
            IssueInvariant, PTL DEF Spec

\* An address shown to be somebody's stays shown.
LEMMA ShownStays ==
    ASSUME RowInv, LockInv, IssueInv, Next, NEW u \in Users, NEW e
    PROVE  Shown(u, e) => Shown(u, e)'
<1>0. TypeOK /\ Minting
  BY DEF RowInv, TypeInv
<1>1. ASSUME NEW q \in Requests, audit[q] = "EMAIL_VERIFIED"
      PROVE  /\ audit'[q] = audit[q] /\ uid'[q] = uid[q]
             /\ call'[q] = call[q]
             /\ tokens'[call[q].tok].to = tokens[call[q].tok].to
  <2>1. phase[q] \notin {"idle", "running"}
    BY <1>0, <1>1, NamesAssumption DEF Minting, AuditAction
  <2>2. call[q].tok \in Toks /\ tokens[call[q].tok].state # "none"
    BY <1>1, <2>1, Presents DEF IssueInv, Issuer, TokenOps
  <2>3. tokens'[call[q].tok].to = tokens[call[q].tok].to
    BY <2>2, ToStays
  <2>4. audit'[q] = audit[q] /\ uid'[q] = uid[q] /\ call'[q] = call[q]
    <3>1. ASSUME NEW r \in Requests, NEW c \in Calls, Start(r, c)
          PROVE  audit'[q] = audit[q] /\ uid'[q] = uid[q] /\ call'[q] = call[q]
      BY <1>0, <2>1, <3>1 DEF Start, TypeOK, tables
    <3>2. ASSUME NEW r \in Requests, Step(r) \/ Crash(r) \/ DeadlockVictim(r),
                 r # q
          PROVE  audit'[q] = audit[q] /\ uid'[q] = uid[q] /\ call'[q] = call[q]
      BY <1>0, <3>2, OthersStay DEF SameRequest
    <3>3. ASSUME Step(q) \/ Crash(q) \/ DeadlockVictim(q)
          PROVE  audit'[q] = audit[q] /\ uid'[q] = uid[q] /\ call'[q] = call[q]
      <4>1. \A x : ~At(q, x)
        BY <2>1 DEF At
      <4>2. ~Commit(q) /\ ~LoginRead(q) /\ ~ForgotRead(q)
        BY <4>1, StatementAt
      <4>3. UNCHANGED audit
        BY <1>0, <3>3, <4>1, <4>2, StepEffects
      <4>. QED BY <1>0, <3>3, <4>2, <4>3, StepSubject, StepKeepsCall
    <3>4. ASSUME \/ \E j \in Jtis : SessionAges(j)
                 \/ \E w \in Toks : TokenExpires(w)
          PROVE  audit'[q] = audit[q] /\ uid'[q] = uid[q] /\ call'[q] = call[q]
      BY <1>0, <3>4, AgingRows DEF request
    <3>. QED BY <3>1, <3>2, <3>3, <3>4 DEF Next, Quiet, vars, tables, request
  <2>. QED BY <2>3, <2>4
<1>2. ASSUME Shown(u, e) PROVE Shown(u, e)'
  <2>1. CASE u \in SeedUsers /\ SeedVerified(u) /\ e = Address[u]
    BY <2>1 DEF Shown, SeedVerified
  <2>2. CASE \E r \in Requests : /\ audit[r] = "EMAIL_VERIFIED" /\ uid[r] = u
                                 /\ tokens[call[r].tok].to = e
    BY <1>1, <2>2 DEF Shown
  <2>. QED BY <1>2, <2>1, <2>2 DEF Shown
<1>. QED BY <1>2

\* The commit of a verification proves the address its link was mailed to.
LEMMA VerificationShows ==
    ASSUME RowInv, LockInv, NEW r \in Requests, Commit(r),
           op(r) = "verify_email"
    PROVE  /\ Shown(uid[r], tokens[call[r].tok].to)'
           /\ uid'[r] = uid[r] /\ call'[r] = call[r]
           /\ tokens'[call[r].tok].to = tokens[call[r].tok].to
<1>0. TypeOK /\ Minting /\ phase[r] = "running" /\ Next
  BY DEF RowInv, TypeInv, Commit, At, Next, Step
<1>1. audit'[r] = "EMAIL_VERIFIED"
  BY <1>0 DEF Commit, Entry, TypeOK
<1>2. uid'[r] = uid[r] /\ call'[r] = call[r]
  BY <1>0, CommitRows
<1>3. call[r].tok \in Toks /\ tokens[call[r].tok].state # "none"
  BY <1>0, Presents DEF TokenOps
<1>. QED BY <1>0, <1>1, <1>2, <1>3, ToStays DEF Shown

\* A verification that spends a link no profile update issued writes the
\* address the link was mailed to.
LEMMA VerifiesItsAddress ==
    ASSUME RowInv, LockInv, UserInv, HoldInv, IssueInv, LinkInv,
           NEW r \in Requests, Commit(r), op(r) = "verify_email",
           write[r] # NoRow, call[r].tok \in spend[r],
           ~\E s \in Requests : call[r].tok = s /\ op(s) = "update_me"
    PROVE  write[r].email = tokens[call[r].tok].to
<1> DEFINE t == call[r].tok
<1>0. /\ TypeOK /\ op(r) \in Endpoints /\ At(r, "Commit")
      /\ phase[r] = "running" /\ Version(r) /\ ReqInv(r) /\ Locked(r)
      /\ t \in Toks
  <2>1. At(r, "Commit") /\ phase[r] = "running" /\ TypeOK
    BY DEF Commit, At, RowInv, TypeInv
  <2>2. t \in Toks
    BY <2>1, Presents DEF TokenOps
  <2>. QED BY <2>1, <2>2, CallFields DEF UserInv, LockInv, HoldInv, op
<1>1. /\ tokens[t].state = "unused" /\ tokens[t].user = uid[r]
      /\ tokens[t].purpose = "email_verification"
  BY <1>0 DEF ReqInv, Holds, Locked, PurposeOf
<1>2. Original(t)
  <2>1. CASE t \in SeedToks
    BY <2>1 DEF Original
  <2>2. CASE t \in Requests
    <3>1. op(t) \in IssuingOps /\ PurposeOf(op(t)) = "email_verification"
      BY <1>1, <2>2 DEF IssueInv, Issuer
    <3>. QED BY <2>2, <3>1 DEF IssuingOps, PurposeOf, Original
  <2>. QED BY <1>0, <2>1, <2>2 DEF Toks
<1>3. Live(t) /\ LinkOf(t)
  BY <1>0, <1>1, <1>2 DEF Live, LinkInv
<1>4. Loaded(r)
  <2>1. /\ 2 \in DOMAIN Script["verify_email"]
        /\ Script["verify_email"][2] = "ReadTokenUser"
        /\ pc[r] = 6
    BY <1>0 DEF At, Script, VerifyEmail
  <2>. QED BY <1>0, <2>1 DEF Loaded, Past, LoadStatements
<1>5. /\ users[uid[r]].email = tokens[t].to /\ base[r].email = tokens[t].to
      /\ snap[r].email = tokens[t].to
  BY <1>0, <1>1, <1>3, <1>4 DEF LinkOf, Changing
<1>. QED BY <1>0, <1>5 DEF Version, PasswordOps

\* An address nobody has proven to own becomes verified only by a
\* verification whose link somebody else has spent or a profile update has
\* issued, by a write over a row that has changed since it was compared, or
\* by one that restores what was unproven when it was read.
THEOREM UnprovenAddressesExplained == Spec => UnprovenAddressExplained
<1> DEFINE Why(r, u) ==
      /\ At(r, "Commit") /\ uid[r] = u
      /\ \/ /\ op(r) = "verify_email"
            /\ tokens[call[r].tok].to # write[r].email
            /\ \/ call[r].tok \notin spend[r]
               \/ \E s \in Requests : call[r].tok = s /\ op(s) = "update_me"
         \/ /\ op(r) \in {"update_me", "delete_me", "ban", "unban"}
            /\ \/ base[r].email # users[u].email
               \/ base[r].verified # users[u].verified
               \/ ~Proven(u, snap[r])
<1> DEFINE Explained ==
      \A u \in Users : Proven(u, users[u]) /\ ~Proven(u, users[u])' =>
          \E r \in Requests : Why(r, u)
<1>1. RowInv /\ LockInv /\ UserInv /\ HoldInv /\ UseInv /\ IssueInv /\ LinkInv
      /\ [Next]_vars => [Explained]_vars
  <2> SUFFICES ASSUME RowInv, LockInv, UserInv, HoldInv, UseInv, IssueInv,
                      LinkInv, Next, NEW u \in Users,
                      Proven(u, users[u]), ~Proven(u, users[u])'
               PROVE  \E r \in Requests : Why(r, u)
    OBVIOUS
  <2>1. users'[u].verified /\ ~Shown(u, users[u].email)'
    BY DEF Proven
  <2>2. \A e : Shown(u, e) => Shown(u, e)'
    BY ShownStays
  <2>3. users'[u] # users[u]
    BY <2>1, <2>2 DEF Proven
  <2>4. PICK r \in Requests : /\ Commit(r) /\ uid[r] = u
                              /\ write[r] # NoRow /\ users'[u] = write[r]
    BY <2>3, WhoWrites
  <2>5. /\ Version(r) /\ At(r, "Commit")
        /\ op(r) \in PasswordOps \cup {"verify_email", "update_me",
                                       "delete_me", "ban", "unban"}
    BY <2>4, WriterOps DEF UserInv, Commit
  <2>6. op(r) \notin PasswordOps
    <3>1. op(r) # "register"
      BY <2>1, <2>4, <2>5 DEF Version, PasswordOps
    <3>2. ASSUME op(r) \in PasswordOps PROVE FALSE
      <4>1. /\ write[r].verified = users[u].verified
            /\ write[r].email = users[u].email
        BY <2>4, <2>5, <3>1, <3>2 DEF Version
      <4>2. Shown(u, users[u].email)
        BY <2>1, <2>4, <4>1 DEF Proven
      <4>. QED BY <2>1, <2>2, <2>4, <4>1, <4>2
    <3>. QED BY <3>2
  <2>7. CASE op(r) = "verify_email"
    <3>1. tokens[call[r].tok].to # write[r].email
      <4>1. /\ Shown(uid[r], tokens[call[r].tok].to)'
            /\ uid'[r] = uid[r] /\ call'[r] = call[r]
            /\ tokens'[call[r].tok].to = tokens[call[r].tok].to
        BY <2>4, <2>7, VerificationShows
      <4>. QED BY <2>1, <2>4, <4>1
    <3>. QED BY <2>4, <2>5, <2>7, <3>1, VerifiesItsAddress
  <2>8. CASE op(r) # "verify_email"
    <3>1. ASSUME base[r].email = users[u].email,
                 base[r].verified = users[u].verified, Proven(u, snap[r])
          PROVE  FALSE
      <4>1. /\ write[r].email = snap[r].email
            /\ write[r].verified = snap[r].verified
        BY <2>4, <2>5, <2>6, <3>1 DEF Version
      <4>. QED BY <2>1, <2>2, <2>4, <3>1, <4>1 DEF Proven
    <3>. QED BY <2>4, <2>5, <2>6, <2>8, <3>1
  <2>. QED BY <2>7, <2>8
<1>. QED BY <1>1, RowInvariant, LockInvariant, UserInvariant, HoldInvariant,
            UseInvariant, IssueInvariant, LinkInvariant, PTL
         DEF Spec, UnprovenAddressExplained

=============================================================================
