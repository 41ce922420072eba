--------------------------- MODULE AccountsProofs ---------------------------
(***************************************************************************)
(* Proofs about Accounts, for every value of its constants.                *)
(*                                                                         *)
(* TypeCorrect        TypeOK is an invariant; it is inductive together     *)
(*                    with Presented: whoever runs presented a session or  *)
(*                    a link that exists.                                  *)
(* RevocationIsFinal  from RowInv: the identifiers a request mints are     *)
(*                    unused until it commits, and what a transaction has  *)
(*                    staged exists.                                       *)
(* DeadCredentialsRefused  from DeadInv: a credential that is dead when    *)
(*                    the request arrives stays dead, and the request      *)
(*                    stays at its first statement until it is refused.    *)
(***************************************************************************)
EXTENDS Accounts, TLAPS

-----------------------------------------------------------------------------
LEMMA NoRowType == NoRow \in UserRow /\ NoRow.hash \in Hashes
BY DEF NoRow, UserRow, Hashes

LEMMA RowEdits ==
    ASSUME NEW row \in UserRow
    PROVE  /\ \A x \in BOOLEAN : [row EXCEPT !.active = x] \in UserRow
           /\ \A x \in BOOLEAN : [row EXCEPT !.verified = x] \in UserRow
           /\ \A x \in Hashes : [row EXCEPT !.hash = x] \in UserRow
           /\ \A x \in Emails, y \in BOOLEAN :
                 [row EXCEPT !.email = x, !.verified = y] \in UserRow
BY DEF UserRow

LEMMA CallFields ==
    ASSUME TypeOK, NEW r \in Requests
    PROVE  /\ call[r].op \in Endpoints
           /\ call[r].jti \in Jtis \cup {None}
           /\ call[r].sid \in Jtis \cup {None}
           /\ call[r].tok \in Toks \cup {None}
           /\ call[r].user \in Users \cup {None}
           /\ call[r].email \in Emails \cup {None}
           /\ call[r].password \in Passwords \cup {None}
           /\ call[r].new \in Passwords \cup {None}
BY DEF TypeOK, Call

LEMMA InitType == Init => TypeOK
BY NamesAssumption, SeedAssumption
   DEF Init, SeedVerified, TypeOK, Users, Jtis, Toks, UserRow, NoRow, Hashes, SessionRow,
       TokenRow, Purposes, Phases, Call, NoCall, Endpoints, Script

LEMMA LeaveType ==
    ASSUME TypeOK, NEW r \in Requests, NEW how \in Phases, Leave(r, how)
    PROVE  TypeOK'
BY NoRowType DEF TypeOK, Leave, Discard, tables, request

LEMMA DenyType ==
    ASSUME TypeOK, NEW r \in Requests, Deny(r)
    PROVE  TypeOK'
BY LeaveType DEF Deny, Phases

LEMMA JumpType ==
    ASSUME TypeOK, NEW r \in Requests, NEW n \in Nat, Jump(r, n)
    PROVE  pc' \in [Requests -> Nat] /\ phase' \in [Requests -> Phases]
BY DEF TypeOK, Jump, Phases

LEMMA AdvanceType ==
    ASSUME TypeOK, NEW r \in Requests, Advance(r)
    PROVE  pc' \in [Requests -> Nat] /\ phase' \in [Requests -> Phases]
BY JumpType DEF Advance

LEMMA PassType ==
    ASSUME TypeOK, NEW r \in Requests, Advance(r),
           UNCHANGED <<tables, mailed, entity, staged, request>>
    PROVE  TypeOK'
BY AdvanceType DEF TypeOK, tables, entity, staged, request

LEMMA LoadType ==
    ASSUME TypeOK, NEW r \in Requests, NEW row \in UserRow,
           NEW edited \in UserRow, Load(r, row, edited),
           uid' \in [Requests -> Users],
           UNCHANGED <<call, openAt, unusedAt, liveAt>>
    PROVE  TypeOK'
BY AdvanceType DEF TypeOK, Load, tables, staged

LEMMA AuthSessionType ==
    ASSUME TypeOK, NEW r \in Requests, AuthSession(r) PROVE TypeOK'
BY PassType, DenyType DEF AuthSession

LEMMA LoginReadType ==
    ASSUME TypeOK, NEW r \in Requests, LoginRead(r) PROVE TypeOK'
<1> DEFINE valid == {u \in get_by_email(call[r].email) :
               users[u].active /\ users[u].hash.pw = call[r].password}
<1>1. CASE \E u \in valid :
                /\ uid' = [uid EXCEPT ![r] = u]
                /\ Load(r, users[u], users[u])
                /\ UNCHANGED <<call, openAt, unusedAt, liveAt>>
  <2>1. PICK u \in Users :
                /\ uid' = [uid EXCEPT ![r] = u]
                /\ Load(r, users[u], users[u])
                /\ UNCHANGED <<call, openAt, unusedAt, liveAt>>
    BY <1>1 DEF get_by_email
  <2>2. users[u] \in UserRow /\ uid' \in [Requests -> Users]
    BY <2>1 DEF TypeOK
  <2>. QED BY <2>1, <2>2, LoadType
<1>2. CASE /\ audit' = [audit EXCEPT ![r] = "LOGIN_FAILED"]
           /\ phase' = [phase EXCEPT ![r] = "denied"]
           /\ UNCHANGED <<users, sessions, tokens, mailed, pc, entity,
                            staged, request>>
  BY <1>2 DEF TypeOK, entity, staged, request, AuditAction, Phases
<1>. QED BY <1>1, <1>2 DEF LoginRead

LEMMA AuthUserType ==
    ASSUME TypeOK, NEW r \in Requests, AuthUser(r) PROVE TypeOK'
BY PassType, DenyType DEF AuthUser

LEMMA RefreshReadSessionType ==
    ASSUME TypeOK, NEW r \in Requests, RefreshReadSession(r) PROVE TypeOK'
BY PassType, DenyType DEF RefreshReadSession

\* The row of the account a request is about, and its type.
LEMMA SubjectRow ==
    ASSUME TypeOK, NEW r \in Requests
    PROVE  uid[r] \in Users /\ users[uid[r]] \in UserRow
BY DEF TypeOK

LEMMA LoadSubjectType ==
    ASSUME TypeOK, NEW r \in Requests, NEW row \in UserRow,
           NEW edited \in UserRow, Load(r, row, edited), UNCHANGED request
    PROVE  TypeOK'
BY LoadType DEF TypeOK, request

LEMMA RefreshReadUserType ==
    ASSUME TypeOK, NEW r \in Requests, RefreshReadUser(r) PROVE TypeOK'
BY SubjectRow, LoadSubjectType, DenyType DEF RefreshReadUser

LEMMA ReadOwnSessionType ==
    ASSUME TypeOK, NEW r \in Requests, ReadOwnSession(r) PROVE TypeOK'
BY PassType, DenyType DEF ReadOwnSession

LEMMA ReadTokenType ==
    ASSUME TypeOK, NEW r \in Requests, ReadToken(r) PROVE TypeOK'
BY PassType, DenyType DEF ReadToken

LEMMA ReadTokenUserType ==
    ASSUME TypeOK, NEW r \in Requests, ReadTokenUser(r) PROVE TypeOK'
<1>1. (IF op(r) = "verify_email" THEN [users[uid[r]] EXCEPT !.verified = TRUE]
       ELSE users[uid[r]]) \in UserRow
  BY SubjectRow, RowEdits
<1>. QED BY <1>1, SubjectRow, LoadSubjectType, DenyType DEF ReadTokenUser

LEMMA ChangeReadType ==
    ASSUME TypeOK, NEW r \in Requests, ChangeRead(r) PROVE TypeOK'
BY SubjectRow, LoadSubjectType, DenyType DEF ChangeRead

LEMMA ForgotReadType ==
    ASSUME TypeOK, NEW r \in Requests, ForgotRead(r) PROVE TypeOK'
<1>1. CASE \E u \in {u \in get_by_email(call[r].email) : users[u].active} :
                /\ uid' = [uid EXCEPT ![r] = u]
                /\ Load(r, users[u], users[u])
                /\ UNCHANGED <<call, openAt, unusedAt, liveAt>>
  <2>1. PICK u \in Users :
                /\ uid' = [uid EXCEPT ![r] = u]
                /\ Load(r, users[u], users[u])
                /\ UNCHANGED <<call, openAt, unusedAt, liveAt>>
    BY <1>1 DEF get_by_email
  <2>2. users[u] \in UserRow /\ uid' \in [Requests -> Users]
    BY <2>1 DEF TypeOK
  <2>. QED BY <2>1, <2>2, LoadType
<1>2. CASE Leave(r, "ok")
  BY <1>2, LeaveType DEF Phases
<1>. QED BY <1>1, <1>2 DEF ForgotRead

LEMMA RegisterCheckType ==
    ASSUME TypeOK, NEW r \in Requests, RegisterCheck(r) PROVE TypeOK'
BY PassType, DenyType DEF RegisterCheck

LEMMA UpdateReadType ==
    ASSUME TypeOK, NEW r \in Requests, UpdateRead(r) PROVE TypeOK'
<1>1. (IF call[r].email \in {None, users[uid[r]].email} THEN users[uid[r]]
       ELSE [users[uid[r]] EXCEPT !.email = call[r].email, !.verified = FALSE])
      \in UserRow
  BY SubjectRow, RowEdits, CallFields
<1>. QED BY <1>1, SubjectRow, LoadSubjectType DEF UpdateRead

LEMMA CheckEmailType ==
    ASSUME TypeOK, NEW r \in Requests, CheckEmail(r) PROVE TypeOK'
BY PassType, DenyType DEF CheckEmail

LEMMA DecodeType ==
    ASSUME TypeOK, NEW r \in Requests, Decode(r) PROVE TypeOK'
BY PassType, LeaveType DEF Decode, Phases

LEMMA DeleteReadType ==
    ASSUME TypeOK, NEW r \in Requests, DeleteRead(r) PROVE TypeOK'
<1>1. [users[uid[r]] EXCEPT !.active = FALSE] \in UserRow
  BY SubjectRow, RowEdits
<1>. QED BY <1>1, SubjectRow, LoadSubjectType DEF DeleteRead

LEMMA BanReadType ==
    ASSUME TypeOK, NEW r \in Requests, BanRead(r) PROVE TypeOK'
<1>1. [users[uid[r]] EXCEPT !.active = FALSE] \in UserRow
  BY SubjectRow, RowEdits
<1>2. \/ Deny(r)
      \/ Leave(r, "ok")
      \/ /\ Load(r, users[uid[r]], [users[uid[r]] EXCEPT !.active = FALSE])
         /\ UNCHANGED request
  BY DEF BanRead
<1>. QED BY <1>1, <1>2, SubjectRow, LoadSubjectType, DenyType, LeaveType
        DEF Phases

LEMMA UnbanReadType ==
    ASSUME TypeOK, NEW r \in Requests, UnbanRead(r) PROVE TypeOK'
<1>1. [users[uid[r]] EXCEPT !.active = TRUE] \in UserRow
  BY SubjectRow, RowEdits
<1>2. \/ Deny(r)
      \/ Leave(r, "ok")
      \/ /\ Load(r, users[uid[r]], [users[uid[r]] EXCEPT !.active = TRUE])
         /\ UNCHANGED request
  BY DEF UnbanRead
<1>. QED BY <1>1, <1>2, SubjectRow, LoadSubjectType, DenyType, LeaveType
        DEF Phases

LEMMA ReloadType ==
    ASSUME TypeOK, NEW r \in Requests, Reload(r) PROVE TypeOK'
<1>1. base' \in [Requests -> UserRow]
  BY SubjectRow DEF Reload, TypeOK
<1>2. Advance(r) /\ UNCHANGED <<tables, mailed, snap, staged, request>>
  BY DEF Reload
<1>. QED BY <1>1, <1>2, AdvanceType DEF TypeOK, tables, staged, request

\* A write that stages one row version, revocation or spending and goes on.
LEMMA StageType ==
    ASSUME TypeOK, NEW r \in Requests,
           pc' \in [Requests -> Nat], phase' \in [Requests -> Phases],
           write' \in [Requests -> UserRow],
           rev' \in [Requests -> SUBSET Jtis],
           spend' \in [Requests -> SUBSET Toks],
           scan' \in [Requests -> SUBSET (Jtis \cup Toks)],
           UNCHANGED <<tables, mailed, entity, request>>
    PROVE  TypeOK'
BY DEF TypeOK, tables, entity, request

LEMMA MergedType ==
    ASSUME TypeOK, NEW r \in Requests, NEW row \in UserRow
    PROVE  Merged(r, row) \in UserRow
BY DEF TypeOK, Merged, UserRow

LEMMA UpdateRowType ==
    ASSUME TypeOK, NEW r \in Requests, UpdateRow(r) PROVE TypeOK'
<1> DEFINE row == Merged(r, users[uid[r]])
<1>1. row \in UserRow
  BY SubjectRow, MergedType
<1>2. CASE Leave(r, "error")
  BY <1>2, LeaveType DEF Phases
<1>3. CASE /\ write' = [write EXCEPT ![r] = row]
           /\ Advance(r)
           /\ UNCHANGED <<tables, mailed, entity, rev, spend, scan, request>>
  <2> HIDE DEF row
  <2>1. /\ write' \in [Requests -> UserRow]
        /\ rev' \in [Requests -> SUBSET Jtis]
        /\ spend' \in [Requests -> SUBSET Toks]
        /\ scan' \in [Requests -> SUBSET (Jtis \cup Toks)]
    BY <1>1, <1>3 DEF TypeOK
  <2>. QED BY <1>3, <2>1, AdvanceType, StageType
<1>4. CASE /\ Advance(r)
           /\ UNCHANGED <<tables, mailed, entity, staged, request>>
  BY <1>4, AdvanceType, StageType DEF staged, TypeOK
<1>. QED BY <1>2, <1>3, <1>4 DEF UpdateRow

LEMMA InsertUserType ==
    ASSUME TypeOK, NEW r \in Requests, InsertUser(r) PROVE TypeOK'
<1> DEFINE row == [email |-> call[r].email, active |-> TRUE,
                   verified |-> FALSE,
                   hash |-> [pw |-> call[r].password, salt |-> r]]
<1>1. row \in UserRow
  BY CallFields DEF UserRow, Hashes, Users
<1>2. CASE Leave(r, "error")
  BY <1>2, LeaveType DEF Phases
<1>3. CASE /\ write' = [write EXCEPT ![r] = row]
           /\ Advance(r)
           /\ UNCHANGED <<tables, mailed, entity, rev, spend, scan, request>>
  <2> HIDE DEF row
  <2>1. /\ write' \in [Requests -> UserRow]
        /\ rev' \in [Requests -> SUBSET Jtis]
        /\ spend' \in [Requests -> SUBSET Toks]
        /\ scan' \in [Requests -> SUBSET (Jtis \cup Toks)]
    BY <1>1, <1>3 DEF TypeOK
  <2>. QED BY <1>3, <2>1, AdvanceType, StageType
<1>. QED BY <1>2, <1>3 DEF InsertUser

LEMMA UpdatePasswordType ==
    ASSUME TypeOK, NEW r \in Requests, UpdatePassword(r) PROVE TypeOK'
<1>1. [pw |-> call[r].new, salt |-> r] \in Hashes
  BY CallFields DEF Hashes, Users
<1>2. [users[uid[r]] EXCEPT !.hash = [pw |-> call[r].new, salt |-> r]]
      \in UserRow
  BY <1>1, SubjectRow, RowEdits
<1>3. /\ write' \in [Requests -> UserRow]
      /\ rev' \in [Requests -> SUBSET Jtis]
      /\ spend' \in [Requests -> SUBSET Toks]
      /\ scan' \in [Requests -> SUBSET (Jtis \cup Toks)]
  BY <1>2 DEF UpdatePassword, TypeOK
<1>4. Advance(r) /\ UNCHANGED <<tables, mailed, entity, request>>
  BY DEF UpdatePassword
<1>. QED BY <1>3, <1>4, AdvanceType, StageType

\* The remaining writes: the staged sets stay typed, and the rest of the
\* step is an Advance.
LEMMA RevokeJtiType ==
    ASSUME TypeOK, NEW r \in Requests, RevokeJti(r) PROVE TypeOK'
<1>1. /\ write' \in [Requests -> UserRow]
      /\ rev' \in [Requests -> SUBSET Jtis]
      /\ spend' \in [Requests -> SUBSET Toks]
      /\ scan' \in [Requests -> SUBSET (Jtis \cup Toks)]
  BY DEF RevokeJti, TypeOK
<1>2. Advance(r) /\ UNCHANGED <<tables, mailed, entity, request>>
  BY DEF RevokeJti
<1>. QED BY <1>1, <1>2, AdvanceType, StageType

LEMMA ScanSessionsType ==
    ASSUME TypeOK, NEW r \in Requests, ScanSessions(r) PROVE TypeOK'
<1>1. /\ write' \in [Requests -> UserRow]
      /\ rev' \in [Requests -> SUBSET Jtis]
      /\ spend' \in [Requests -> SUBSET Toks]
      /\ scan' \in [Requests -> SUBSET (Jtis \cup Toks)]
  BY DEF ScanSessions, TypeOK
<1>2. Advance(r) /\ UNCHANGED <<tables, mailed, entity, request>>
  BY DEF ScanSessions
<1>. QED BY <1>1, <1>2, AdvanceType, StageType

LEMMA RevokeAllType ==
    ASSUME TypeOK, NEW r \in Requests, RevokeAll(r) PROVE TypeOK'
<1>1. /\ write' \in [Requests -> UserRow]
      /\ rev' \in [Requests -> SUBSET Jtis]
      /\ spend' \in [Requests -> SUBSET Toks]
      /\ scan' \in [Requests -> SUBSET (Jtis \cup Toks)]
  BY DEF RevokeAll, TypeOK
<1>2. Advance(r) /\ UNCHANGED <<tables, mailed, entity, request>>
  BY DEF RevokeAll
<1>. QED BY <1>1, <1>2, AdvanceType, StageType

LEMMA ScanTokensType ==
    ASSUME TypeOK, NEW r \in Requests, ScanTokens(r) PROVE TypeOK'
<1>1. /\ write' \in [Requests -> UserRow]
      /\ rev' \in [Requests -> SUBSET Jtis]
      /\ spend' \in [Requests -> SUBSET Toks]
      /\ scan' \in [Requests -> SUBSET (Jtis \cup Toks)]
  BY DEF ScanTokens, TypeOK
<1>2. Advance(r) /\ UNCHANGED <<tables, mailed, entity, request>>
  BY DEF ScanTokens
<1>. QED BY <1>1, <1>2, AdvanceType, StageType

LEMMA InvalidateType ==
    ASSUME TypeOK, NEW r \in Requests, Invalidate(r) PROVE TypeOK'
<1>1. /\ write' \in [Requests -> UserRow]
      /\ rev' \in [Requests -> SUBSET Jtis]
      /\ spend' \in [Requests -> SUBSET Toks]
      /\ scan' \in [Requests -> SUBSET (Jtis \cup Toks)]
  BY DEF Invalidate, TypeOK
<1>2. Advance(r) /\ UNCHANGED <<tables, mailed, entity, request>>
  BY DEF Invalidate
<1>. QED BY <1>1, <1>2, AdvanceType, StageType

LEMMA MarkUsedType ==
    ASSUME TypeOK, NEW r \in Requests, MarkUsed(r) PROVE TypeOK'
<1>1. /\ write' \in [Requests -> UserRow]
      /\ rev' \in [Requests -> SUBSET Jtis]
      /\ spend' \in [Requests -> SUBSET Toks]
      /\ scan' \in [Requests -> SUBSET (Jtis \cup Toks)]
  BY DEF MarkUsed, TypeOK
<1>2. pc' \in [Requests -> Nat] /\ phase' \in [Requests -> Phases]
  BY JumpType DEF MarkUsed
<1>3. UNCHANGED <<tables, mailed, entity, request>>
  BY DEF MarkUsed
<1>. QED BY <1>1, <1>2, <1>3, StageType

\* The credentials of a call that is being served name rows that exist;
\* without this the type of a rotated session cannot be established.
Presented ==
    \A r \in Requests : phase[r] # "idle" =>
        /\ op(r) \in SessionOps => jti(r) \in Jtis
        /\ op(r) \in TokenOps => call[r].tok \in Toks

TypeInv == TypeOK /\ Presented

LEMMA EntryType == \A o \in Endpoints : Entry(o) \in AuditAction \cup {None}
BY DEF Entry, AuditAction

LEMMA NewSessionType ==
    ASSUME TypeInv, NEW r \in Requests, phase[r] # "idle"
    PROVE  NewSession(r) \in SessionRow
<1>1. op(r) = "refresh" => jti(r) \in Jtis
  BY DEF TypeInv, Presented, SessionOps, Endpoints, Script
<1>2. (IF op(r) = "refresh" THEN sessions[jti(r)].cred ELSE snap[r].hash)
      \in Hashes
  BY <1>1 DEF TypeInv, TypeOK, SessionRow, UserRow
<1>3. uid[r] \in Users
  BY DEF TypeInv, TypeOK
<1>. QED BY <1>2, <1>3 DEF NewSession, SessionRow

LEMMA NewTokenType ==
    ASSUME TypeOK, NEW r \in Requests
    PROVE  NewToken(r) \in TokenRow
<1>1. (IF op(r) = "update_me" THEN snap[r].email ELSE call[r].email)
      \in Emails \cup {None}
  BY CallFields DEF TypeOK, UserRow
<1>2. PurposeOf(op(r)) \in Purposes
  BY DEF PurposeOf, Purposes
<1>. QED BY <1>1, <1>2, SubjectRow DEF NewToken, TokenRow

LEMMA CommitType ==
    ASSUME TypeInv, NEW r \in Requests, Commit(r) PROVE TypeOK'
<1>0. TypeOK /\ phase[r] = "running" /\ op(r) \in Endpoints
  BY CallFields DEF TypeInv, Commit, At, op
<1>1. users' \in [Users -> UserRow]
  BY <1>0, SubjectRow DEF Commit, TypeOK
<1>2. sessions' \in [Jtis -> SessionRow]
  <2>1. \A j \in Jtis : sessions[j] \in SessionRow
    BY <1>0 DEF TypeOK
  <2>2. \A j \in Jtis : [sessions[j] EXCEPT !.state = "revoked"] \in SessionRow
    BY <2>1 DEF SessionRow
  <2>3. NewSession(r) \in SessionRow
    BY <1>0, NewSessionType
  <2>. QED BY <2>1, <2>2, <2>3 DEF Commit, SessionAfter
<1>3. tokens' \in [Toks -> TokenRow]
  <2>1. \A t \in Toks : tokens[t] \in TokenRow
    BY <1>0 DEF TypeOK
  <2>2. \A t \in Toks : [tokens[t] EXCEPT !.state = "used"] \in TokenRow
    BY <2>1 DEF TokenRow
  <2>3. NewToken(r) \in TokenRow
    BY <1>0, NewTokenType
  <2>. QED BY <2>1, <2>2, <2>3 DEF Commit, TokenAfter
<1>4. audit' \in [Requests -> AuditAction \cup {None}]
  BY <1>0, EntryType DEF Commit, TypeOK
<1>5. pc' \in [Requests -> Nat] /\ phase' \in [Requests -> Phases]
  BY <1>0 DEF Commit, TypeOK, Phases
<1>6. /\ snap' \in [Requests -> UserRow] /\ base' \in [Requests -> UserRow]
      /\ write' \in [Requests -> UserRow]
      /\ rev' \in [Requests -> SUBSET Jtis]
      /\ spend' \in [Requests -> SUBSET Toks]
      /\ scan' \in [Requests -> SUBSET (Jtis \cup Toks)]
  BY <1>0, NoRowType DEF Commit, Discard, TypeOK
<1>7. UNCHANGED <<mailed, request>>
  BY DEF Commit
<1>. QED BY <1>0, <1>1, <1>2, <1>3, <1>4, <1>5, <1>6, <1>7
        DEF TypeOK, request

LEMMA StartType ==
    ASSUME TypeOK, NEW r \in Requests, NEW c \in Calls, Start(r, c)
    PROVE  TypeOK'
<1>1. c \in Call
  BY CallsAssumption
<1>2. Subject(r, c) \in Users
  <2>1. c.op \in ModerationOps => c.user \in Users
    BY DEF Start, Presentable
  <2>2. c.op \in TokenOps => tokens[c.tok].user \in Users
    BY DEF Start, Presentable, TypeOK, TokenRow
  <2>3. c.op \in SessionOps \ ModerationOps => sessions[c.jti].user \in Users
    BY DEF Start, Presentable, TypeOK, SessionRow
  <2>4. r \in Users
    BY DEF Users
  <2>. QED BY <2>1, <2>2, <2>3, <2>4 DEF Subject
<1>3. CredentialGood(c) \in BOOLEAN
  BY DEF CredentialGood
<1>4. uid' \in [Requests -> Users] /\ call' \in [Requests -> Call]
  BY <1>1, <1>2 DEF Start, TypeOK
<1>5. phase' \in [Requests -> Phases]
  BY DEF Start, TypeOK, Phases
<1>6. /\ openAt' \in [Requests -> SUBSET Jtis]
      /\ unusedAt' \in [Requests -> SUBSET Toks]
      /\ liveAt' \in [Requests -> BOOLEAN]
  BY <1>3 DEF Start, TypeOK
<1>7. UNCHANGED <<tables, mailed, pc, entity, staged>>
  BY DEF Start
<1>. QED BY <1>4, <1>5, <1>6, <1>7 DEF TypeOK, tables, entity, staged

LEMMA SendType ==
    ASSUME TypeOK, NEW r \in Requests, Send(r) PROVE TypeOK'
BY DEF Send, TypeOK, tables, entity, staged, request, Phases, Toks

LEMMA AgingType ==
    ASSUME TypeOK, \/ \E j \in Jtis : SessionAges(j)
                   \/ \E t \in Toks : TokenExpires(t)
    PROVE  TypeOK'
<1>1. ASSUME NEW j \in Jtis, SessionAges(j) PROVE TypeOK'
  <2>1. sessions[j] \in SessionRow
    BY DEF TypeOK
  <2>2. [sessions[j] EXCEPT !.age = @ + 1] \in SessionRow
    BY <1>1, <2>1 DEF SessionAges, SessionRow
  <2>3. sessions' \in [Jtis -> SessionRow]
    BY <1>1, <2>2 DEF SessionAges, TypeOK
  <2>. QED BY <1>1, <2>3
          DEF SessionAges, TypeOK, entity, staged, request
<1>2. ASSUME NEW t \in Toks, TokenExpires(t) PROVE TypeOK'
  <2>1. tokens[t] \in TokenRow
    BY DEF TypeOK
  <2>2. [tokens[t] EXCEPT !.expired = TRUE] \in TokenRow
    BY <2>1 DEF TokenRow
  <2>3. tokens' \in [Toks -> TokenRow]
    BY <1>2, <2>2 DEF TokenExpires, TypeOK
  <2>. QED BY <1>2, <2>3
          DEF TokenExpires, TypeOK, entity, staged, request
<1>. QED BY <1>1, <1>2

LEMMA StepType ==
    ASSUME TypeInv, NEW r \in Requests, Step(r) PROVE TypeOK'
BY AuthSessionType, AuthUserType, LoginReadType, RefreshReadSessionType,
   RefreshReadUserType, ReadOwnSessionType, ReadTokenType, ReadTokenUserType,
   ChangeReadType, ForgotReadType, RegisterCheckType, UpdateReadType,
   CheckEmailType, DecodeType, DeleteReadType, BanReadType, UnbanReadType, ReloadType,
   UpdateRowType, InsertUserType, UpdatePasswordType, RevokeJtiType,
   ScanSessionsType, RevokeAllType, MarkUsedType, ScanTokensType,
   InvalidateType, CommitType, SendType
   DEF Step, TypeInv

\* A statement leaves the call alone and belongs to a request in flight.
LEMMA StepKeepsCall ==
    ASSUME NEW r \in Requests,
           Step(r) \/ Crash(r) \/ DeadlockVictim(r)
    PROVE  /\ UNCHANGED <<call, openAt, unusedAt, liveAt>>
           /\ phase[r] # "idle"
           /\ \E p : phase' = [phase EXCEPT ![r] = p]
<1>1. CASE Crash(r)
  BY <1>1 DEF Crash, Leave, request, InFlight
<1>2. CASE DeadlockVictim(r)
  BY <1>2 DEF DeadlockVictim, Leave, request
<1>3. CASE \/ AuthSession(r) \/ AuthUser(r) \/ RefreshReadSession(r)
           \/ ReadOwnSession(r) \/ ReadToken(r) \/ RegisterCheck(r)
           \/ CheckEmail(r) \/ Decode(r)
  BY <1>3 DEF AuthSession, AuthUser, RefreshReadSession, ReadOwnSession,
              ReadToken, RegisterCheck, CheckEmail, Decode, At, Advance, Jump, Deny,
              Leave, request
<1>4. CASE \/ RefreshReadUser(r) \/ ReadTokenUser(r) \/ ChangeRead(r)
           \/ UpdateRead(r) \/ DeleteRead(r) \/ BanRead(r) \/ UnbanRead(r)
  BY <1>4 DEF RefreshReadUser, ReadTokenUser, ChangeRead, UpdateRead,
              DeleteRead, BanRead, UnbanRead, At, Load, Advance, Jump, Deny,
              Leave, request
<1>5. CASE LoginRead(r) \/ ForgotRead(r)
  BY <1>5 DEF LoginRead, ForgotRead, At, Load, Advance, Jump, Leave, request
<1>6. CASE \/ Reload(r) \/ UpdateRow(r) \/ InsertUser(r)
           \/ UpdatePassword(r) \/ RevokeJti(r) \/ ScanSessions(r)
           \/ RevokeAll(r) \/ MarkUsed(r) \/ ScanTokens(r) \/ Invalidate(r)
  BY <1>6 DEF Reload, UpdateRow, InsertUser, UpdatePassword, RevokeJti,
              ScanSessions, RevokeAll, MarkUsed, ScanTokens, Invalidate, At,
              Advance, Jump, Leave, request
<1>7. CASE Commit(r) \/ Send(r)
  BY <1>7 DEF Commit, Send, At, request
<1>. QED BY <1>1, <1>2, <1>3, <1>4, <1>5, <1>6, <1>7 DEF Step

LEMMA TypeInvStep == TypeInv /\ [Next]_vars => TypeInv'
<1> SUFFICES ASSUME TypeInv, [Next]_vars PROVE TypeInv'
  OBVIOUS
<1>0. TypeOK
  BY DEF TypeInv
<1>1. ASSUME NEW r \in Requests, NEW c \in Calls, Start(r, c) PROVE TypeInv'
  <2>1. TypeOK'
    BY <1>0, <1>1, StartType
  <2>2. Presented'
    <3>1. /\ c.op \in SessionOps => c.jti \in Jtis
          /\ c.op \in TokenOps => c.tok \in Toks
      BY <1>0, <1>1 DEF Start, Presentable, TypeOK
    <3>2. /\ call' = [call EXCEPT ![r] = c]
          /\ phase' = [phase EXCEPT ![r] = "running"]
      BY <1>1 DEF Start
    <3>. QED BY <1>0, <3>1, <3>2 DEF TypeInv, Presented, TypeOK, op, jti
  <2>. QED BY <2>1, <2>2 DEF TypeInv
<1>2. ASSUME NEW r \in Requests, Step(r) \/ Crash(r) \/ DeadlockVictim(r)
      PROVE  TypeInv'
  <2>1. TypeOK'
    BY <1>0, <1>2, StepType, LeaveType DEF Crash, DeadlockVictim, Phases
  <2>2. Presented'
    BY <1>0, <1>2, StepKeepsCall DEF TypeInv, Presented, TypeOK, op, jti
  <2>. QED BY <2>1, <2>2 DEF TypeInv
<1>3. ASSUME \/ \E j \in Jtis : SessionAges(j)
             \/ \E t \in Toks : TokenExpires(t)
      PROVE  TypeInv'
  <2>1. TypeOK'
    BY <1>0, <1>3, AgingType
  <2>2. UNCHANGED <<phase, call>>
    BY <1>3 DEF SessionAges, TokenExpires, request
  <2>. QED BY <2>1, <2>2 DEF TypeInv, Presented, op, jti
<1>4. ASSUME UNCHANGED vars PROVE TypeInv'
  <2>1. TypeOK'
    BY <1>0, <1>4 DEF vars, tables, entity, staged, request, TypeOK
  <2>2. UNCHANGED <<phase, call>>
    BY <1>4 DEF vars, request
  <2>. QED BY <2>1, <2>2 DEF TypeInv, Presented, op, jti
<1>. QED BY <1>1, <1>2, <1>3, <1>4 DEF Next, Quiet

\* The tables and the transactions always have their types, for any number
\* of requests, accounts and links.
THEOREM TypeCorrect == Spec => []TypeOK
<1>1. Init => TypeInv
  BY InitType DEF Init, TypeInv, Presented
<1>2. TypeInv => TypeOK
  BY DEF TypeInv
<1>. QED BY <1>1, <1>2, TypeInvStep, PTL DEF Spec

-----------------------------------------------------------------------------
\* What a statement other than Commit does to the rows: nothing, except that
\* a refused login writes its audit row; it stages only rows it saw open or
\* unused; and it never reopens a transaction.
LEMMA StepEffects ==
    ASSUME TypeOK, NEW r \in Requests,
           Step(r) \/ Crash(r) \/ DeadlockVictim(r), ~Commit(r)
    PROVE  /\ UNCHANGED <<users, sessions, tokens>>
           /\ phase'[r] # "idle"
           /\ phase'[r] = "running" => phase[r] = "running"
           /\ \/ UNCHANGED audit
              \/ /\ audit' = [audit EXCEPT ![r] = "LOGIN_FAILED"]
                 /\ phase'[r] = "denied" /\ At(r, "LoginRead")
           /\ \A q \in Requests \ {r} :
                 /\ phase'[q] = phase[q] /\ pc'[q] = pc[q] /\ uid'[q] = uid[q]
                 /\ rev'[q] = rev[q] /\ spend'[q] = spend[q]
                 /\ scan'[q] = scan[q] /\ write'[q] = write[q]
           /\ \A j \in rev'[r] : j \in rev[r] \/ sessions[j].state = "open"
           /\ \A t \in spend'[r] : t \in spend[r] \/ tokens[t].state = "unused"
<1>1. CASE Crash(r)
  BY <1>1 DEF TypeOK, Crash, Leave, Discard, tables, request
<1>2. CASE DeadlockVictim(r)
  BY <1>2 DEF TypeOK, DeadlockVictim, Leave, Discard, tables, request
<1>3. CASE \/ AuthSession(r) \/ AuthUser(r) \/ RefreshReadSession(r)
           \/ ReadOwnSession(r) \/ ReadToken(r) \/ RegisterCheck(r)
           \/ CheckEmail(r) \/ Decode(r)
  BY <1>3 DEF TypeOK, AuthSession, AuthUser, RefreshReadSession,
              ReadOwnSession, ReadToken, RegisterCheck, CheckEmail, Decode, At,
              Advance, Jump, Deny, Leave, Discard, tables, request, staged
<1>4. CASE \/ RefreshReadUser(r) \/ ReadTokenUser(r) \/ ChangeRead(r)
           \/ UpdateRead(r) \/ DeleteRead(r) \/ BanRead(r) \/ UnbanRead(r)
  BY <1>4 DEF TypeOK, RefreshReadUser, ReadTokenUser, ChangeRead, UpdateRead,
              DeleteRead, BanRead, UnbanRead, At, Load, Advance, Jump, Deny,
              Leave, Discard, tables, request, staged
<1>5. CASE LoginRead(r)
  BY <1>5 DEF TypeOK, LoginRead, At, Load, Advance, Jump, tables, request,
              staged
<1>6. CASE ForgotRead(r)
  BY <1>6 DEF TypeOK, ForgotRead, At, Load, Advance, Jump, Leave, Discard,
              tables, request, staged
<1>7. CASE Reload(r) \/ UpdateRow(r) \/ InsertUser(r) \/ UpdatePassword(r)
  BY <1>7 DEF TypeOK, Reload, UpdateRow, InsertUser, UpdatePassword, At,
              Advance, Jump, Leave, Discard, tables, request, staged
<1>8. CASE \/ RevokeJti(r) \/ ScanSessions(r) \/ RevokeAll(r)
           \/ ScanTokens(r) \/ Invalidate(r)
  BY <1>8 DEF TypeOK, RevokeJti, ScanSessions, RevokeAll, ScanTokens,
              Invalidate, At, Advance, Jump, tables, request
<1>9. CASE MarkUsed(r)
  BY <1>9 DEF TypeOK, MarkUsed, At, Jump, tables, request
<1>10. CASE Send(r)
  BY <1>10 DEF TypeOK, Send, tables, request, staged
<1>. QED BY <1>1, <1>2, <1>3, <1>4, <1>5, <1>6, <1>7, <1>8, <1>9, <1>10
         DEF Step

-----------------------------------------------------------------------------
\* The identifiers a request mints are unused until it commits, and the rows
\* staged by a transaction exist.
Minting ==
    \A r \in Requests : phase[r] \in {"idle", "running"} =>
        /\ sessions[r].state = "none"
        /\ tokens[r].state = "none"
        /\ audit[r] = None

StagedExist ==
    \A r \in Requests :
        /\ \A j \in rev[r] : sessions[j].state # "none"
        /\ \A t \in spend[r] : tokens[t].state # "none"

MailedExist == \A t \in mailed : tokens[t].state # "none"

RowInv == TypeInv /\ Minting /\ StagedExist /\ MailedExist

\* A commit as the other rows see it.
LEMMA CommitRows ==
    ASSUME TypeOK, NEW r \in Requests, Commit(r), Minting
    PROVE  /\ phase[r] = "running"
           /\ phase'[r] \in {"ok", "mailing"}
           /\ \A q \in Requests \ {r} :
                 /\ phase'[q] = phase[q] /\ pc'[q] = pc[q]
                 /\ rev'[q] = rev[q] /\ spend'[q] = spend[q]
                 /\ scan'[q] = scan[q] /\ write'[q] = write[q]
                 /\ audit'[q] = audit[q]
           /\ write'[r] = NoRow /\ rev'[r] = {} /\ spend'[r] = {}
           /\ scan'[r] = {}
           /\ UNCHANGED <<mailed, call, uid, openAt, unusedAt, liveAt>>
           /\ \A j \in Jtis :
                 /\ j \in rev[r] => sessions'[j].state = "revoked"
                 /\ j \notin rev[r] /\ j # r => sessions'[j] = sessions[j]
                 /\ sessions[j].state # "none" =>
                       /\ sessions'[j].user = sessions[j].user
                       /\ sessions'[j].age = sessions[j].age
                       /\ sessions'[j].state \in {sessions[j].state, "revoked"}
           /\ \A t \in Toks :
                 /\ t \in spend[r] => tokens'[t].state = "used"
                 /\ t \notin spend[r] /\ t # r => tokens'[t] = tokens[t]
                 /\ tokens[t].state # "none" =>
                       /\ tokens'[t].user = tokens[t].user
                       /\ tokens'[t].purpose = tokens[t].purpose
                       /\ tokens'[t].expired = tokens[t].expired
                       /\ tokens'[t].state \in {tokens[t].state, "used"}
<1>1. phase[r] = "running" /\ phase'[r] \in {"ok", "mailing"}
  BY DEF Commit, At, TypeOK
<1>2. /\ \A q \in Requests \ {r} :
            /\ phase'[q] = phase[q] /\ pc'[q] = pc[q]
            /\ rev'[q] = rev[q] /\ spend'[q] = spend[q]
            /\ scan'[q] = scan[q] /\ write'[q] = write[q]
            /\ audit'[q] = audit[q]
      /\ write'[r] = NoRow /\ rev'[r] = {} /\ spend'[r] = {}
      /\ scan'[r] = {}
      /\ UNCHANGED <<mailed, call, uid, openAt, unusedAt, liveAt>>
  BY DEF Commit, Discard, TypeOK, request
<1>3. sessions[r].state = "none" /\ tokens[r].state = "none"
  BY <1>1 DEF Minting
<1>4. ASSUME NEW j \in Jtis
      PROVE  /\ j \in rev[r] => sessions'[j].state = "revoked"
             /\ j \notin rev[r] /\ j # r => sessions'[j] = sessions[j]
             /\ sessions[j].state # "none" =>
                   /\ sessions'[j].user = sessions[j].user
                   /\ sessions'[j].age = sessions[j].age
                   /\ sessions'[j].state \in {sessions[j].state, "revoked"}
  <2>1. sessions'[j] = SessionAfter(r, j)
    BY DEF Commit
  <2>2. sessions[j] \in SessionRow
    BY DEF TypeOK
  <2>. QED BY <1>3, <2>1, <2>2 DEF SessionAfter, SessionRow
<1>5. ASSUME NEW t \in Toks
      PROVE  /\ t \in spend[r] => tokens'[t].state = "used"
             /\ t \notin spend[r] /\ t # r => tokens'[t] = tokens[t]
             /\ tokens[t].state # "none" =>
                   /\ tokens'[t].user = tokens[t].user
                   /\ tokens'[t].purpose = tokens[t].purpose
                   /\ tokens'[t].expired = tokens[t].expired
                   /\ tokens'[t].state \in {tokens[t].state, "used"}
  <2>1. tokens'[t] = TokenAfter(r, t)
    BY DEF Commit
  <2>2. tokens[t] \in TokenRow
    BY DEF TypeOK
  <2>. QED BY <1>3, <2>1, <2>2 DEF TokenAfter, TokenRow
<1>. QED BY <1>1, <1>2, <1>4, <1>5

\* Time moves deadlines only.
LEMMA AgingRows ==
    ASSUME TypeOK, \/ \E j \in Jtis : SessionAges(j)
                   \/ \E t \in Toks : TokenExpires(t)
    PROVE  /\ \A j \in Jtis : /\ sessions'[j].state = sessions[j].state
                              /\ sessions'[j].user = sessions[j].user
                              /\ sessions'[j].age >= sessions[j].age
           /\ \A t \in Toks : /\ tokens'[t].state = tokens[t].state
                              /\ tokens'[t].user = tokens[t].user
                              /\ tokens'[t].purpose = tokens[t].purpose
                              /\ tokens[t].expired => tokens'[t].expired
           /\ UNCHANGED <<users, audit, mailed, phase, pc, entity, staged,
                          request>>
<1>1. ASSUME NEW k \in Jtis, SessionAges(k), NEW j \in Jtis
      PROVE  /\ sessions'[j].state = sessions[j].state
             /\ sessions'[j].user = sessions[j].user
             /\ sessions'[j].age >= sessions[j].age
  <2>1. sessions[j] \in SessionRow /\ sessions[k] \in SessionRow
    BY DEF TypeOK
  <2>2. sessions' = [sessions EXCEPT ![k].age = @ + 1]
    BY <1>1 DEF SessionAges
  <2>. QED BY <2>1, <2>2 DEF TypeOK, SessionRow
<1>2. ASSUME NEW w \in Toks, TokenExpires(w), NEW t \in Toks
      PROVE  /\ tokens'[t].state = tokens[t].state
             /\ tokens'[t].user = tokens[t].user
             /\ tokens'[t].purpose = tokens[t].purpose
             /\ tokens[t].expired => tokens'[t].expired
  <2>1. tokens[t] \in TokenRow /\ tokens[w] \in TokenRow
    BY DEF TypeOK
  <2>2. \/ tokens'[t] = tokens[t]
        \/ tokens'[t] = [tokens[t] EXCEPT !.expired = TRUE]
    BY <1>2 DEF TokenExpires, TypeOK
  <2>. QED BY <2>1, <2>2 DEF TokenRow
<1>3. CASE \E k \in Jtis : SessionAges(k)
  <2>1. PICK k \in Jtis : SessionAges(k)
    BY <1>3
  <2>. QED BY <2>1, <1>1 DEF SessionAges
<1>4. CASE \E w \in Toks : TokenExpires(w)
  <2>1. PICK w \in Toks : TokenExpires(w)
    BY <1>4
  <2>2. ASSUME NEW j \in Jtis PROVE sessions[j].age >= sessions[j].age
    <3>1. sessions[j] \in SessionRow
      BY DEF TypeOK
    <3>. QED BY <3>1 DEF SessionRow
  <2>. QED BY <2>1, <2>2, <1>2 DEF TokenExpires
<1>. QED BY <1>3, <1>4

\* Only Send touches the mailboxes.
LEMMA OtherStepsSendNothing ==
    ASSUME NEW r \in Requests, ~Send(r),
           Step(r) \/ Crash(r) \/ DeadlockVictim(r)
    PROVE  UNCHANGED mailed
BY DEF Step, Crash, DeadlockVictim, AuthSession, AuthUser, LoginRead,
       RefreshReadSession, RefreshReadUser, ReadOwnSession, ReadToken,
       ReadTokenUser, ChangeRead, ForgotRead, RegisterCheck, UpdateRead,
       CheckEmail, Decode, DeleteRead, BanRead, UnbanRead, Reload, UpdateRow,
       InsertUser, UpdatePassword, RevokeJti, ScanSessions, RevokeAll,
       MarkUsed, ScanTokens, Invalidate, Commit, Deny, Leave, Load

LEMMA RowInvStep == RowInv /\ [Next]_vars => RowInv'
<1> SUFFICES ASSUME RowInv, [Next]_vars PROVE RowInv'
  OBVIOUS
<1>0. TypeInv /\ TypeInv' /\ TypeOK /\ Minting /\ StagedExist /\ MailedExist
  BY TypeInvStep DEF RowInv, TypeInv
<1>0a. Requests \subseteq Jtis /\ Requests \subseteq Toks
  BY DEF Jtis, Toks
<1>0b. /\ \A r \in Requests : rev[r] \subseteq Jtis /\ spend[r] \subseteq Toks
       /\ mailed \subseteq Toks
  BY <1>0 DEF TypeOK
<1>1. ASSUME NEW r \in Requests, NEW c \in Calls, Start(r, c) PROVE RowInv'
  <2>1. /\ UNCHANGED <<tables, mailed, staged>> /\ phase[r] = "idle"
        /\ \A q \in Requests \ {r} : phase'[q] = phase[q]
    BY <1>0, <1>1 DEF Start, TypeOK
  <2>. QED BY <1>0, <2>1
          DEF RowInv, Minting, StagedExist, MailedExist, tables, staged
<1>2. ASSUME NEW r \in Requests, Commit(r) PROVE RowInv'
  <2>1. Minting'
    BY <1>0, <1>0a, <1>2, CommitRows DEF Minting, StagedExist
  <2>2. StagedExist'
    BY <1>0, <1>0b, <1>2, CommitRows DEF StagedExist
  <2>3. MailedExist'
    BY <1>0, <1>0b, <1>2, CommitRows DEF MailedExist
  <2>. QED BY <1>0, <2>1, <2>2, <2>3 DEF RowInv
<1>3. ASSUME NEW r \in Requests, ~Commit(r),
             Step(r) \/ Crash(r) \/ DeadlockVictim(r)
      PROVE  RowInv'
  <2>1. Minting'
    <3>1. audit'[r] = audit[r] \/ phase'[r] = "denied"
      BY <1>0, <1>3, StepEffects
    <3>2. \A q \in Requests \ {r} :
             audit'[q] = audit[q] /\ phase'[q] = phase[q]
      BY <1>0, <1>3, StepEffects DEF TypeOK
    <3>. QED BY <1>0, <1>3, <3>1, <3>2, StepEffects DEF Minting
  <2>2. StagedExist'
    BY <1>0, <1>3, StepEffects DEF StagedExist
  <2>3. MailedExist'
    <3>1. CASE Send(r)
      BY <1>0, <3>1 DEF Send, MailedExist, tables
    <3>2. CASE ~Send(r)
      BY <1>0, <1>3, <3>2, StepEffects, OtherStepsSendNothing DEF MailedExist
    <3>. QED BY <3>1, <3>2
  <2>. QED BY <1>0, <2>1, <2>2, <2>3 DEF RowInv
<1>4. ASSUME \/ \E j \in Jtis : SessionAges(j)
             \/ \E t \in Toks : TokenExpires(t)
      PROVE  RowInv'
  BY <1>0, <1>0a, <1>0b, <1>4, AgingRows
     DEF RowInv, Minting, StagedExist, MailedExist, staged
<1>5. ASSUME UNCHANGED vars PROVE RowInv'
  BY <1>0, <1>5
     DEF RowInv, Minting, StagedExist, MailedExist, vars, tables, staged
<1>. QED BY <1>1, <1>2, <1>3, <1>4, <1>5 DEF Next, Quiet

LEMMA RowInvInit == Init => RowInv
<1> SUFFICES ASSUME Init PROVE RowInv
  OBVIOUS
<1>1. TypeInv
  BY InitType DEF Init, TypeInv, Presented
<1>2. Minting
  BY NamesAssumption DEF Init, Minting, Jtis, Toks
<1>3. StagedExist /\ MailedExist
  BY DEF Init, StagedExist, MailedExist, Toks
<1>. QED BY <1>1, <1>2, <1>3 DEF RowInv

LEMMA RowInvariant == Spec => []RowInv
BY RowInvInit, RowInvStep, PTL DEF Spec

\* A revoked session is never open again and a used link never usable again,
\* in any interleaving of any number of requests.
THEOREM RevocationIsFinal == Spec => SpentForever
<1> DEFINE Kept2 ==
      /\ \A j \in Jtis : sessions[j].state = "revoked" =>
            /\ sessions'[j].state = "revoked"
            /\ sessions'[j].user = sessions[j].user
      /\ \A t \in Toks : tokens[t].state = "used" =>
            tokens'[t].state = "used" /\ tokens'[t].user = tokens[t].user
<1>1. RowInv /\ [Next]_vars => [Kept2]_vars
  <2> SUFFICES ASSUME RowInv, Next PROVE Kept2
    OBVIOUS
  <2>0. TypeOK /\ Minting
    BY DEF RowInv, TypeInv
  <2>1. ASSUME NEW r \in Requests, NEW c \in Calls, Start(r, c) PROVE Kept2
    BY <2>1 DEF Start, tables
  <2>2. ASSUME NEW r \in Requests, Commit(r) PROVE Kept2
    BY <2>0, <2>2, CommitRows
  <2>3. ASSUME NEW r \in Requests, ~Commit(r),
               Step(r) \/ Crash(r) \/ DeadlockVictim(r)
        PROVE  Kept2
    BY <2>0, <2>3, StepEffects
  <2>4. ASSUME \/ \E j \in Jtis : SessionAges(j)
               \/ \E t \in Toks : TokenExpires(t)
        PROVE  Kept2
    BY <2>0, <2>4, AgingRows
  <2>5. CASE Quiet
    BY <2>5 DEF Quiet, vars, tables
  <2>. QED BY <2>1, <2>2, <2>3, <2>4, <2>5 DEF Next
<1>. QED BY <1>1, RowInvariant, PTL DEF Spec, SpentForever

-----------------------------------------------------------------------------
\* Every statement but Send runs at its own place in the use case.
LEMMA StatementAt ==
    ASSUME NEW r \in Requests
    PROVE
           /\ AuthSession(r) => At(r, "AuthSession")
           /\ AuthUser(r) => At(r, "AuthUser")
           /\ LoginRead(r) => At(r, "LoginRead")
           /\ RefreshReadSession(r) => At(r, "RefreshReadSession")
           /\ RefreshReadUser(r) => At(r, "RefreshReadUser")
           /\ ReadOwnSession(r) => At(r, "ReadOwnSession")
           /\ ReadToken(r) => At(r, "ReadToken")
           /\ ReadTokenUser(r) => At(r, "ReadTokenUser")
           /\ ChangeRead(r) => At(r, "ChangeRead")
           /\ ForgotRead(r) => At(r, "ForgotRead")
           /\ RegisterCheck(r) => At(r, "RegisterCheck")
           /\ UpdateRead(r) => At(r, "UpdateRead")
           /\ CheckEmail(r) => At(r, "CheckEmail")
           /\ Decode(r) => At(r, "Decode")
           /\ DeleteRead(r) => At(r, "DeleteRead")
           /\ BanRead(r) => At(r, "BanRead")
           /\ UnbanRead(r) => At(r, "UnbanRead")
           /\ Reload(r) => At(r, "Reload")
           /\ UpdateRow(r) => At(r, "UpdateRow")
           /\ InsertUser(r) => At(r, "InsertUser")
           /\ UpdatePassword(r) => At(r, "UpdatePassword")
           /\ RevokeJti(r) => At(r, "RevokeJti")
           /\ ScanSessions(r) => At(r, "ScanSessions")
           /\ RevokeAll(r) => At(r, "RevokeAll")
           /\ MarkUsed(r) => At(r, "MarkUsed")
           /\ ScanTokens(r) => At(r, "ScanTokens")
           /\ Invalidate(r) => At(r, "Invalidate")
           /\ Commit(r) => At(r, "Commit")
BY DEF AuthSession, AuthUser, LoginRead, RefreshReadSession, RefreshReadUser,
       ReadOwnSession, ReadToken, ReadTokenUser, ChangeRead, ForgotRead,
       RegisterCheck, UpdateRead, CheckEmail, Decode, DeleteRead, BanRead,
       UnbanRead, Reload, UpdateRow, InsertUser, UpdatePassword, RevokeJti,
       ScanSessions, RevokeAll, MarkUsed, ScanTokens, Invalidate, Commit

LEMMA FirstStatement ==
    /\ \A o \in SessionOps \ {"refresh"} : Script[o][1] = "AuthSession"
    /\ Script["refresh"][1] = "RefreshReadSession"
    /\ \A o \in TokenOps : Script[o][1] = "ReadToken"
BY DEF SessionOps, TokenOps, Endpoints, Script, Authenticate, RegisterUser,
       Login, RefreshToken, Logout, VerifyEmail, ForgotPassword,
       ResetPassword, UpdateUser, ChangePassword, DeleteUser,
       RevokeUserSession, RevokeAllSessions, BanUser, UnbanUser

\* A credential that can never be good again.
DeadSession(c) ==
    /\ c.op \in SessionOps /\ c.jti \in Jtis
    /\ \/ sessions[c.jti].state = "revoked"
       \/ sessions[c.jti].state # "none" /\ sessions[c.jti].age >= 2
       \/ /\ c.op # "refresh"
          /\ sessions[c.jti].state # "none" /\ sessions[c.jti].age > 0

DeadLink(c) ==
    /\ c.op \in TokenOps /\ c.tok \in Toks
    /\ \/ tokens[c.tok].state = "used"
       \/ tokens[c.tok].state # "none" /\ tokens[c.tok].expired

Dead(c) == DeadSession(c) \/ DeadLink(c)

\* A request whose credential is dead can only be refused.
LEMMA DeadStep ==
    ASSUME TypeOK, NEW r \in Requests, Step(r), Dead(call[r]), pc[r] = 1,
           phase[r] # "mailing"
    PROVE  Deny(r)
<1>1. ~Send(r)
  BY DEF Send
<1>2. \A x : At(r, x) => x = Script[op(r)][1]
  BY DEF At
<1>3. CASE DeadSession(call[r]) /\ op(r) # "refresh"
  <2>1. Script[op(r)][1] = "AuthSession"
    BY <1>3, FirstStatement DEF DeadSession, op
  <2>2. AuthSession(r)
    BY <1>1, <1>2, <2>1, StatementAt DEF Step
  <2>3. sessions[jti(r)] \in SessionRow
    BY <1>3 DEF DeadSession, jti, TypeOK
  <2>4. ~is_valid(jti(r)) \/ sessions[jti(r)].age > 0
    BY <1>3, <2>3 DEF DeadSession, is_valid, jti, op, SessionRow
  <2>. QED BY <2>2, <2>3, <2>4 DEF AuthSession, SessionRow
<1>4. CASE DeadSession(call[r]) /\ op(r) = "refresh"
  <2>1. RefreshReadSession(r)
    BY <1>1, <1>2, <1>4, FirstStatement, StatementAt DEF Step
  <2>2. sessions[jti(r)] \in SessionRow
    BY <1>4 DEF DeadSession, jti, TypeOK
  <2>3. ~is_valid(jti(r))
    BY <1>4, <2>2 DEF DeadSession, is_valid, jti, op, SessionRow
  <2>. QED BY <2>1, <2>3 DEF RefreshReadSession
<1>5. CASE DeadLink(call[r])
  <2>1. Script[op(r)][1] = "ReadToken"
    BY <1>5, FirstStatement DEF DeadLink, op
  <2>2. ReadToken(r)
    BY <1>1, <1>2, <2>1, StatementAt DEF Step
  <2>3. ~is_usable(call[r].tok)
    BY <1>5 DEF DeadLink, is_usable
  <2>. QED BY <2>2, <2>3 DEF ReadToken
<1>. QED BY <1>3, <1>4, <1>5 DEF Dead

\* Dead credentials stay dead.
LEMMA DeadForever ==
    ASSUME RowInv, Next
    PROVE  \A c : Dead(c) => Dead(c)'
<1>. SUFFICES ASSUME NEW c, Dead(c) PROVE Dead(c)'
  OBVIOUS
<1>0. TypeOK /\ Minting /\ TypeOK'
  BY TypeInvStep DEF RowInv, TypeInv
<1>1. ASSUME NEW j \in Jtis, sessions[j].state # "none"
      PROVE  /\ sessions'[j].state # "none"
             /\ sessions'[j].age >= sessions[j].age
             /\ sessions[j].state = "revoked" => sessions'[j].state = "revoked"
  <2>0. sessions[j].age \in Nat
    <3>1. sessions[j] \in SessionRow
      BY <1>0 DEF TypeOK
    <3>. QED BY <3>1 DEF SessionRow
  <2>1. ASSUME NEW r \in Requests, NEW d \in Calls, Start(r, d)
        PROVE  sessions'[j] = sessions[j]
    BY <2>1 DEF Start, tables
  <2>2. ASSUME NEW r \in Requests, Commit(r)
        PROVE  /\ sessions'[j].age = sessions[j].age
               /\ sessions'[j].state \in {sessions[j].state, "revoked"}
    BY <1>0, <1>1, <2>2, CommitRows
  <2>3. ASSUME NEW r \in Requests, ~Commit(r),
               Step(r) \/ Crash(r) \/ DeadlockVictim(r)
        PROVE  sessions'[j] = sessions[j]
    BY <1>0, <2>3, StepEffects
  <2>4. ASSUME \/ \E k \in Jtis : SessionAges(k)
               \/ \E t \in Toks : TokenExpires(t)
        PROVE  /\ sessions'[j].state = sessions[j].state
               /\ sessions'[j].age >= sessions[j].age
    BY <1>0, <2>4, AgingRows
  <2>5. CASE Quiet
    BY <1>1, <2>0, <2>5 DEF Quiet, vars, tables
  <2>. QED BY <1>1, <2>0, <2>1, <2>2, <2>3, <2>4, <2>5 DEF Next
<1>2. ASSUME NEW t \in Toks, tokens[t].state # "none"
      PROVE  /\ tokens'[t].state # "none"
             /\ tokens[t].expired => tokens'[t].expired
             /\ tokens[t].state = "used" => tokens'[t].state = "used"
  <2>1. ASSUME NEW r \in Requests, NEW d \in Calls, Start(r, d)
        PROVE  tokens'[t] = tokens[t]
    BY <2>1 DEF Start, tables
  <2>2. ASSUME NEW r \in Requests, Commit(r)
        PROVE  /\ tokens'[t].expired = tokens[t].expired
               /\ tokens'[t].state \in {tokens[t].state, "used"}
    BY <1>0, <1>2, <2>2, CommitRows
  <2>3. ASSUME NEW r \in Requests, ~Commit(r),
               Step(r) \/ Crash(r) \/ DeadlockVictim(r)
        PROVE  tokens'[t] = tokens[t]
    BY <1>0, <2>3, StepEffects
  <2>4. ASSUME \/ \E k \in Jtis : SessionAges(k)
               \/ \E w \in Toks : TokenExpires(w)
        PROVE  /\ tokens'[t].state = tokens[t].state
               /\ tokens[t].expired => tokens'[t].expired
    BY <1>0, <2>4, AgingRows
  <2>5. CASE Quiet
    BY <1>2, <2>5 DEF Quiet, vars, tables
  <2>. QED BY <1>2, <2>1, <2>2, <2>3, <2>4, <2>5 DEF Next
<1>3. CASE DeadSession(c)
  <2>1. sessions[c.jti] \in SessionRow /\ sessions'[c.jti] \in SessionRow
    BY <1>0, <1>3 DEF DeadSession, TypeOK
  <2>. QED BY <1>1, <1>3, <2>1 DEF Dead, DeadSession, SessionRow
<1>4. CASE DeadLink(c)
  BY <1>2, <1>4 DEF Dead, DeadLink
<1>. QED BY <1>3, <1>4 DEF Dead

DeadInv ==
    \A r \in Requests :
        /\ phase[r] = "idle" => pc[r] = 1 /\ liveAt[r]
        /\ ~liveAt[r] => /\ Dead(call[r]) /\ pc[r] = 1
                         /\ phase[r] # "mailing" /\ phase[r] # "idle"
                         /\ audit[r] = None /\ sessions[r].state = "none"

LEMMA DeadInvStep == RowInv /\ DeadInv /\ [Next]_vars => DeadInv'
<1> SUFFICES ASSUME RowInv, DeadInv, [Next]_vars PROVE DeadInv'
  OBVIOUS
<1>0. TypeInv /\ TypeOK /\ Minting /\ StagedExist /\ MailedExist
  BY DEF RowInv, TypeInv
<1>1. ASSUME NEW r \in Requests, NEW c \in Calls, Start(r, c) PROVE DeadInv'
  <2>1. /\ UNCHANGED <<tables, pc>> /\ phase[r] = "idle"
        /\ phase' = [phase EXCEPT ![r] = "running"]
        /\ call' = [call EXCEPT ![r] = c]
        /\ liveAt' = [liveAt EXCEPT ![r] = CredentialGood(c)]
    BY <1>1 DEF Start
  <2>2. ~CredentialGood(c) => Dead(c)
    <3>1. c.op \in SessionOps => /\ c.jti \in Jtis
                                 /\ sessions[c.jti].state # "none"
                                 /\ sessions[c.jti] \in SessionRow
      BY <1>0, <1>1 DEF Start, Presentable, TypeOK
    <3>2. c.op \in TokenOps => /\ c.tok \in Toks
                               /\ tokens[c.tok].state # "none"
                               /\ tokens[c.tok] \in TokenRow
      BY <1>0, <1>1 DEF Start, Presentable, TypeOK, MailedExist
    <3>. QED BY <3>1, <3>2 DEF CredentialGood, Dead, DeadSession, DeadLink,
                SessionRow, TokenRow
  <2>3. ASSUME NEW q \in Requests PROVE
          /\ phase'[q] = "idle" => pc'[q] = 1 /\ liveAt'[q]
          /\ ~liveAt'[q] => /\ Dead(call[q])' /\ pc'[q] = 1
                            /\ phase'[q] # "mailing" /\ phase'[q] # "idle"
                            /\ audit'[q] = None /\ sessions'[q].state = "none"
    <3>2. CASE q = r
      <4>1. /\ call'[q] = c /\ phase'[q] = "running"
            /\ liveAt'[q] = CredentialGood(c)
        BY <1>0, <2>1, <3>2 DEF TypeOK
      <4>2. /\ pc'[q] = 1 /\ audit'[q] = None /\ sessions'[q].state = "none"
        BY <1>0, <2>1, <3>2 DEF DeadInv, Minting, tables
      <4>3. ~liveAt'[q] => Dead(call[q])'
        BY <2>1, <2>2, <4>1 DEF Dead, DeadSession, DeadLink, tables
      <4>. QED BY <4>1, <4>2, <4>3
    <3>3. CASE q # r
      <4>1. /\ call'[q] = call[q] /\ phase'[q] = phase[q]
            /\ liveAt'[q] = liveAt[q] /\ pc'[q] = pc[q]
            /\ audit'[q] = audit[q] /\ sessions'[q] = sessions[q]
        BY <1>0, <2>1, <3>3 DEF TypeOK, tables
      <4>2. Dead(call[q]) => Dead(call[q])'
        BY <2>1, <4>1 DEF Dead, DeadSession, DeadLink, tables
      <4>. QED BY <4>1, <4>2 DEF DeadInv
    <3>. QED BY <3>2, <3>3
  <2>. QED BY <2>3 DEF DeadInv
<1>2. ASSUME NEW r \in Requests, Step(r) \/ Crash(r) \/ DeadlockVictim(r)
      PROVE  DeadInv'
  <2>1. /\ UNCHANGED <<call, liveAt>> /\ phase[r] # "idle"
        /\ phase'[r] # "idle"
    BY <1>0, <1>2, StepKeepsCall, StepEffects, CommitRows
  <2>2. ASSUME NEW q \in Requests, ~liveAt[q] PROVE Dead(call[q])'
    <3>1. Next
      BY <1>2 DEF Next
    <3>2. Dead(call[q])
      BY <2>2 DEF DeadInv
    <3>3. \A c : Dead(c) => Dead(c)'
      BY <3>1, DeadForever
    <3>. QED BY <2>1, <3>2, <3>3 DEF Dead, DeadSession, DeadLink
  <2>3. ASSUME NEW q \in Requests \ {r}
        PROVE  /\ phase'[q] = phase[q] /\ pc'[q] = pc[q] /\ audit'[q] = audit[q]
               /\ sessions[q].state = "none" => sessions'[q].state = "none"
    <3>1. CASE Commit(r)
      BY <1>0, <3>1, CommitRows DEF StagedExist, Jtis
    <3>2. CASE ~Commit(r)
      BY <1>0, <1>2, <3>2, StepEffects DEF TypeOK
    <3>. QED BY <3>1, <3>2
  <2>4. ASSUME ~liveAt[r]
        PROVE  /\ pc'[r] = 1 /\ phase'[r] # "mailing"
               /\ audit'[r] = None /\ sessions'[r].state = "none"
    <3>1. /\ Dead(call[r]) /\ pc[r] = 1 /\ phase[r] # "mailing"
          /\ audit[r] = None /\ sessions[r].state = "none"
      BY <2>4 DEF DeadInv
    <3>2. \E how \in {"denied", "failed", "error"} : Leave(r, how)
      BY <1>0, <1>2, <3>1, DeadStep DEF Deny, Crash, DeadlockVictim
    <3>. QED BY <1>0, <3>1, <3>2 DEF Leave, tables, TypeOK
  <2>. QED BY <2>1, <2>2, <2>3, <2>4 DEF DeadInv
<1>3. ASSUME \/ \E j \in Jtis : SessionAges(j)
             \/ \E t \in Toks : TokenExpires(t)
      PROVE  DeadInv'
  <2>1. /\ \A r \in Requests : sessions'[r].state = sessions[r].state
        /\ UNCHANGED <<audit, phase, pc, call, liveAt>>
    BY <1>0, <1>3, AgingRows DEF request, Jtis
  <2>2. ASSUME NEW q \in Requests, ~liveAt[q] PROVE Dead(call[q])'
    <3>1. Next
      BY <1>3 DEF Next
    <3>2. Dead(call[q])
      BY <2>2 DEF DeadInv
    <3>3. \A c : Dead(c) => Dead(c)'
      BY <3>1, DeadForever
    <3>. QED BY <2>1, <3>2, <3>3 DEF Dead, DeadSession, DeadLink
  <2>. QED BY <2>1, <2>2 DEF DeadInv
<1>4. ASSUME UNCHANGED vars PROVE DeadInv'
  BY <1>4 DEF DeadInv, Dead, DeadSession, DeadLink, vars, tables, request
<1>. QED BY <1>1, <1>2, <1>3, <1>4 DEF Next, Quiet

\* A request that arrives with a revoked or expired session, or with a used
\* or expired link, is refused at its first statement and leaves nothing
\* behind, whatever runs beside it.
THEOREM DeadCredentialsRefused == Spec => []DeadCredentialStaysOut
<1>1. Init => DeadInv
  BY DEF Init, DeadInv
<1>2. DeadInv => DeadCredentialStaysOut
  BY DEF DeadInv, DeadCredentialStaysOut
<1>. QED BY <1>1, <1>2, DeadInvStep, RowInvariant, PTL DEF Spec

====
