------------------------------ MODULE Accounts ------------------------------
(***************************************************************************)
(* The account use cases of users_service at the granularity of their SQL  *)
(* statements.  Every HTTP request is one member of Requests.  It runs the *)
(* statements of its use case one by one inside its own transaction, under *)
(* PostgreSQL's default READ COMMITTED isolation: a statement sees what    *)
(* was committed before it started, a written row stays locked until the   *)
(* transaction ends, and the writes of a transaction appear together when  *)
(* it commits or not at all.                                               *)
(*                                                                         *)
(* Identifiers are minted from the request: the account, the session (jti) *)
(* and the one-time token that request r creates are all called r (the     *)
(* code draws them from sequences, uuid4 and secrets).  The configuration  *)
(* modelled here has no Redis, so the user is read from the database on    *)
(* every request (NullCache); a request refused by a rate limit never      *)
(* starts.                                                                 *)
(*                                                                         *)
(* Definitions with a suffix (BanUserKeepsSessions, is_valid_Unrevoked,    *)
(* ...) are faulty variants of the definition that follows them; nothing   *)
(* uses them, they show that the properties can fail.                      *)
(***************************************************************************)
EXTENDS Naturals, Sequences, FiniteSets

CONSTANTS
    Requests,      \* HTTP requests, each used once
    SeedUsers,     \* accounts that exist when the model starts
    SeedJtis,      \* sessions that exist when the model starts
    SeedToks,      \* mailed links that exist when the model starts
    Emails,        \* addresses
    Passwords,     \* plaintext passwords
    Address,       \* [SeedUsers -> Emails]
    Secret,        \* [SeedUsers -> Passwords]
    Owner,         \* [SeedJtis -> SeedUsers]
    Link,          \* [SeedToks -> [user : SeedUsers, purpose : Purposes]]
    Moderators,    \* accounts holding the permission users.ban
    Superusers,    \* accounts with is_superuser
    Calls,         \* the calls clients may make in this instance
    Faults,        \* which faults happen: "crash"
    Ageing,        \* the sessions and links whose time can run out
    MaxInFlight,   \* bound on the requests being served at the same time
    None           \* SQL NULL, and an argument that is not given

Users == SeedUsers \cup Requests
Jtis  == SeedJtis \cup Requests
Toks  == SeedToks \cup Requests

Purposes == {"email_verification", "password_reset"}

\* The argon2 hash of a password: verify succeeds for the same plaintext
\* only, and the random salt makes every hash() result a new value.
Hashes == [pw : Passwords \cup {None}, salt : Users \cup {None}]

UserRow == [email : Emails \cup {None}, active : BOOLEAN,
            verified : BOOLEAN, hash : Hashes]
NoRow == [email |-> None, active |-> FALSE, verified |-> FALSE,
          hash |-> [pw |-> None, salt |-> None]]

\* age counts the two deadlines a session passes: 1 when its access token
\* has expired, 2 when the refresh token and the row itself have.
\* cred is the password hash the login behind the session was checked
\* against; the table has no such column, it is there for the properties.
SessionRow == [state : {"none", "open", "revoked"}, user : Users,
               cred : Hashes, age : 0..2]

\* to is the address the link is mailed to; not a column either.
TokenRow == [state : {"none", "unused", "used"}, user : Users,
             purpose : Purposes, to : Emails \cup {None}, expired : BOOLEAN]

AuditAction == {"REGISTER", "LOGIN", "LOGIN_FAILED", "LOGOUT",
                "PASSWORD_CHANGED", "PASSWORD_RESET", "EMAIL_VERIFIED",
                "SESSION_REVOKED", "USER_BANNED", "USER_UNBANNED"}

-----------------------------------------------------------------------------
(***************************************************************************)
(* The use cases, as the statements they execute.  Commit ends the         *)
(* transaction; the rows a use case inserts and its audit row become       *)
(* visible there.  ScanX and X are the two halves of one UPDATE ... WHERE: *)
(* its snapshot is taken when it starts, the rows it then finds locked are *)
(* waited for and re-checked.                                              *)
(***************************************************************************)
Authenticate == <<"AuthSession", "AuthUser">>
RegisterUser ==
    <<"RegisterCheck", "InsertUser", "ScanTokens", "Invalidate", "Commit",
      "Send">>
Login == <<"LoginRead", "Commit">>
RefreshTokenNoRotation ==
    <<"RefreshReadSession", "RefreshReadUser", "Commit">>
RefreshToken ==
    <<"RefreshReadSession", "RefreshReadUser", "RevokeJti", "Commit">>
LogoutForgetsSession == <<"AuthSession", "AuthUser", "Decode", "Commit">>
Logout == <<"AuthSession", "AuthUser", "Decode", "RevokeJti", "Commit">>
VerifyEmailKeepsToken ==
    <<"ReadToken", "ReadTokenUser", "Reload", "UpdateRow", "Commit">>
VerifyEmail ==
    <<"ReadToken", "ReadTokenUser", "MarkUsed", "Reload", "UpdateRow",
      "Commit">>
ForgotPassword ==
    <<"ForgotRead", "ScanTokens", "Invalidate", "Commit", "Send">>
ResetPassword ==
    <<"ReadToken", "ReadTokenUser", "UpdatePassword", "MarkUsed",
      "ScanTokens", "Invalidate", "ScanSessions", "RevokeAll", "Commit">>
UpdateUserKeepsLinks ==
    <<"AuthSession", "AuthUser", "UpdateRead", "CheckEmail", "Reload",
      "UpdateRow", "Commit", "Send">>
UpdateUser ==
    <<"AuthSession", "AuthUser", "UpdateRead", "CheckEmail", "Reload",
      "UpdateRow", "ScanTokens", "Invalidate", "Commit", "Send">>
ChangePasswordKeepsLinks ==
    <<"AuthSession", "AuthUser", "ChangeRead", "UpdatePassword",
      "ScanSessions", "RevokeAll", "Commit">>
ChangePasswordKeepsSessions ==
    <<"AuthSession", "AuthUser", "ChangeRead", "UpdatePassword",
      "ScanTokens", "Invalidate", "Commit">>
ChangePasswordLocksLate ==
    <<"AuthSession", "AuthUser", "ChangeRead", "ScanTokens", "Invalidate",
      "ScanSessions", "RevokeAll", "UpdatePassword", "Commit">>
ChangePassword ==
    <<"AuthSession", "AuthUser", "ChangeRead", "UpdatePassword",
      "ScanTokens", "Invalidate", "ScanSessions", "RevokeAll", "Commit">>
DeleteUserKeepsSessions ==
    <<"AuthSession", "AuthUser", "DeleteRead", "Reload", "UpdateRow",
      "Commit">>
DeleteUser ==
    <<"AuthSession", "AuthUser", "DeleteRead", "Reload", "UpdateRow",
      "ScanSessions", "RevokeAll", "Commit">>
RevokeUserSession ==
    <<"AuthSession", "AuthUser", "ReadOwnSession", "RevokeJti", "Commit">>
RevokeAllSessions ==
    <<"AuthSession", "AuthUser", "Decode", "ScanSessions", "RevokeAll",
      "Commit">>
BanUserKeepsSessions ==
    <<"AuthSession", "AuthUser", "BanRead", "Reload", "UpdateRow",
      "Commit">>
BanUser ==
    <<"AuthSession", "AuthUser", "BanRead", "Reload", "UpdateRow",
      "ScanSessions", "RevokeAll", "Commit">>
UnbanUser ==
    <<"AuthSession", "AuthUser", "UnbanRead", "Reload", "UpdateRow",
      "Commit">>

\* The endpoints of the routers and the use case each one runs.
Script ==
    [register       |-> RegisterUser,
     login          |-> Login,
     refresh        |-> RefreshToken,
     logout         |-> Logout,
     verify_email   |-> VerifyEmail,
     forgot_password |-> ForgotPassword,
     reset_password |-> ResetPassword,
     me             |-> Authenticate,
     update_me      |-> UpdateUser,
     change_password |-> ChangePassword,
     delete_me      |-> DeleteUser,
     revoke_session |-> RevokeUserSession,
     revoke_all     |-> RevokeAllSessions,
     revoke_others  |-> RevokeAllSessions,
     ban            |-> BanUser,
     unban          |-> UnbanUser]

Endpoints == DOMAIN Script

SessionOps == Endpoints \ {"register", "login", "forgot_password",
                           "verify_email", "reset_password"}
TokenOps == {"verify_email", "reset_password"}
ModerationOps == {"ban", "unban"}

\* jti: the session whose token is presented; sid: the session named in the
\* URL; tok: the one-time token; user: the account a moderator names.
Call == [op : Endpoints, jti : Jtis \cup {None}, sid : Jtis \cup {None},
         tok : Toks \cup {None}, user : Users \cup {None},
         email : Emails \cup {None}, password : Passwords \cup {None},
         new : Passwords \cup {None}]
NoCall == [op |-> "me", jti |-> None, sid |-> None, tok |-> None,
           user |-> None, email |-> None, password |-> None, new |-> None]

\* Seeds carry other names than requests, and None is nobody's name.
ASSUME NamesAssumption ==
    /\ (SeedUsers \cup SeedJtis \cup SeedToks) \cap Requests = {}
    /\ None \notin Users \cup Jtis \cup Toks \cup Emails \cup Passwords
    /\ None \notin AuditAction

\* The seeds are an account table, its sessions and its mailed links.
ASSUME SeedAssumption ==
    /\ Address \in [SeedUsers -> Emails]
    /\ \A u, v \in SeedUsers : Address[u] = Address[v] => u = v
    /\ Secret \in [SeedUsers -> Passwords]
    /\ Owner \in [SeedJtis -> SeedUsers]
    /\ Link \in [SeedToks -> [user : SeedUsers, purpose : Purposes]]

\* The calls are well-formed.
ASSUME CallsAssumption == Calls \subseteq Call

-----------------------------------------------------------------------------
VARIABLES
    users,      \* table users
    sessions,   \* table sessions
    tokens,     \* table security_tokens
    audit,      \* table audit_log: the row request r committed, or None
    mailed,     \* one-time tokens whose plaintext reached a mailbox
    call,       \* the call request r serves
    phase,      \* idle; running, its transaction open; mailing, committed
                \* with a mail to send; or how the request ended
    pc,         \* position of the next statement in the use case
    uid,        \* the account the use case is about
    snap,       \* the User entity the use case holds and edits
    base,       \* the row the ORM compares that entity with
    write,      \* uncommitted version of the row uid, NoRow if none
    rev,        \* sessions revoked by the uncommitted transaction
    spend,      \* tokens spent by the uncommitted transaction
    scan,       \* rows the UPDATE in progress found
    openAt,     \* history: sessions not revoked when the request started
    unusedAt,   \* history: tokens not used when the request started
    liveAt      \* history: the credential presented was good at that time

tables  == <<users, sessions, tokens, audit>>
entity  == <<snap, base>>
staged  == <<write, rev, spend, scan>>
request == <<call, uid, openAt, unusedAt, liveAt>>
vars == <<tables, mailed, phase, pc, entity, staged, request>>

Phases == {"idle", "running", "mailing", "ok", "denied", "error", "failed"}

TypeOK ==
    /\ users \in [Users -> UserRow]
    /\ sessions \in [Jtis -> SessionRow]
    /\ tokens \in [Toks -> TokenRow]
    /\ audit \in [Requests -> AuditAction \cup {None}]
    /\ mailed \subseteq Toks
    /\ call \in [Requests -> Call]
    /\ phase \in [Requests -> Phases]
    /\ pc \in [Requests -> Nat]
    /\ uid \in [Requests -> Users]
    /\ snap \in [Requests -> UserRow]
    /\ base \in [Requests -> UserRow]
    /\ write \in [Requests -> UserRow]
    /\ rev \in [Requests -> SUBSET Jtis]
    /\ spend \in [Requests -> SUBSET Toks]
    /\ scan \in [Requests -> SUBSET (Jtis \cup Toks)]
    /\ openAt \in [Requests -> SUBSET Jtis]
    /\ unusedAt \in [Requests -> SUBSET Toks]
    /\ liveAt \in [Requests -> BOOLEAN]

\* A seeded account is verified unless its verification link is still out.
SeedVerified(u) ==
    \A t \in SeedToks :
        Link[t] # [user |-> u, purpose |-> "email_verification"]

Init ==
    /\ users = [u \in Users |->
          IF u \in SeedUsers
          THEN [email |-> Address[u], active |-> TRUE,
                verified |-> SeedVerified(u),
                hash |-> [pw |-> Secret[u], salt |-> u]]
          ELSE NoRow]
    /\ sessions = [j \in Jtis |->
          IF j \in SeedJtis
          THEN [state |-> "open", user |-> Owner[j], age |-> 0,
                cred |-> [pw |-> Secret[Owner[j]], salt |-> Owner[j]]]
          ELSE [state |-> "none", user |-> j, age |-> 0,
                cred |-> NoRow.hash]]
    /\ tokens = [t \in Toks |->
          IF t \in SeedToks
          THEN [state |-> "unused", user |-> Link[t].user,
                purpose |-> Link[t].purpose, to |-> Address[Link[t].user],
                expired |-> FALSE]
          ELSE [state |-> "none", user |-> t,
                purpose |-> "password_reset", to |-> None,
                expired |-> FALSE]]
    /\ audit = [r \in Requests |-> None]
    /\ mailed = SeedToks
    /\ call = [r \in Requests |-> NoCall]
    /\ phase = [r \in Requests |-> "idle"]
    /\ pc = [r \in Requests |-> 1]
    /\ uid = [r \in Requests |-> r]
    /\ snap = [r \in Requests |-> NoRow]
    /\ base = [r \in Requests |-> NoRow]
    /\ write = [r \in Requests |-> NoRow]
    /\ rev = [r \in Requests |-> {}]
    /\ spend = [r \in Requests |-> {}]
    /\ scan = [r \in Requests |-> {}]
    /\ openAt = [r \in Requests |-> {}]
    /\ unusedAt = [r \in Requests |-> {}]
    /\ liveAt = [r \in Requests |-> TRUE]

-----------------------------------------------------------------------------
(***************************************************************************)
(* Rows and locks.                                                         *)
(***************************************************************************)
op(r) == call[r].op

\* The session the request authenticates with.
jti(r) == call[r].jti

At(r, statement) ==
    /\ phase[r] = "running"
    /\ pc[r] \in DOMAIN Script[op(r)]
    /\ Script[op(r)][pc[r]] = statement

InFlight == {r \in Requests : phase[r] \in {"running", "mailing"}}

is_valid_Unrevoked(j) == sessions[j].age < 2

\* AuthSession.is_valid: neither revoked nor past expires_at.
is_valid(j) == sessions[j].state = "open" /\ sessions[j].age < 2

\* SecurityToken.is_usable: neither spent nor past expires_at.
is_usable(t) == tokens[t].state = "unused" /\ ~tokens[t].expired

\* The account get_by_email finds, {} if there is none.
get_by_email(e) == {u \in Users : users[u].email = e}

MergedWithHash(r, row) ==
    [row EXCEPT !.email = IF snap[r].email # base[r].email
                          THEN snap[r].email ELSE @,
                !.hash = IF snap[r].hash # base[r].hash
                         THEN snap[r].hash ELSE @]

MergedWhole(r, row) ==
    [row EXCEPT !.email = snap[r].email, !.active = snap[r].active,
                !.verified = snap[r].verified]

\* UserRepository.update assigns every profile column of the entity; the
\* ORM sends the columns that differ from the row it loaded (base).
\* password_hash is not among them.
Merged(r, row) ==
    [row EXCEPT !.email = IF snap[r].email # base[r].email
                          THEN snap[r].email ELSE @,
                !.active = IF snap[r].active # base[r].active
                           THEN snap[r].active ELSE @,
                !.verified = IF snap[r].verified # base[r].verified
                             THEN snap[r].verified ELSE @]

\* That update surely sends an UPDATE.  If no column of the model differs,
\* it depends on display_name and username, which are not modelled.
Emits(r) == Merged(r, base[r]) # base[r]

WritesUser(r) ==
    At(r, "UpdatePassword") \/ At(r, "InsertUser") \/ At(r, "UpdateRow")

\* The email a pending statement of r enters into the unique index.
NewEmail(r) ==
    IF At(r, "InsertUser") THEN {call[r].email}
    ELSE IF At(r, "UpdateRow") /\ snap[r].email # base[r].email
         THEN {snap[r].email} ELSE {}

\* The emails whose index entries an uncommitted transaction added or
\* removed.
TouchedEmails(s) ==
    IF write[s] = NoRow \/ write[s].email = users[uid[s]].email THEN {}
    ELSE {write[s].email, users[uid[s]].email}

\* The session named by a revoke(jti) statement.
RevokeTarget(r) == IF op(r) = "revoke_session" THEN call[r].sid ELSE jti(r)

\* UpdateUserUseCase issues a link only to an unverified address.
IssuesLink(r) ==
    \/ op(r) \in {"register", "forgot_password"}
    \/ op(r) = "update_me" /\ ~snap[r].verified

EntryOfSignupOnly(o) == IF o = "register" THEN "REGISTER" ELSE None

\* The audit row appended by each use case before it commits.
Entry(o) ==
    CASE o = "register"        -> "REGISTER"
      [] o = "login"           -> "LOGIN"
      [] o = "logout"          -> "LOGOUT"
      [] o = "change_password" -> "PASSWORD_CHANGED"
      [] o = "reset_password"  -> "PASSWORD_RESET"
      [] o = "verify_email"    -> "EMAIL_VERIFIED"
      [] o \in {"revoke_session", "revoke_all", "revoke_others"}
                               -> "SESSION_REVOKED"
      [] o \in {"ban", "delete_me"} -> "USER_BANNED"
      [] o = "unban"           -> "USER_UNBANNED"
      [] OTHER                 -> None

OpensSession(r) == op(r) \in {"login", "refresh"}

\* Before it commits, a use case inserts its session, its link or its audit
\* row; each references the account, and the foreign key check locks that
\* row of users FOR KEY SHARE.
InsertsRow(r) == OpensSession(r) \/ IssuesLink(r) \/ Entry(op(r)) # None

\* An UPDATE that changes the unique column email locks the row FOR UPDATE,
\* the only lock KEY SHARE has to wait for; every other one locks it FOR NO
\* KEY UPDATE.
ChangesKey(s) == TouchedEmails(s) # {}

\* The pending statement of r has to wait for a row written by s.
Conflict(r, s) ==
    \/ WritesUser(r) /\ write[s] # NoRow /\ uid[s] = uid[r]
    \/ NewEmail(r) \cap TouchedEmails(s) # {}
    \/ At(r, "RevokeJti") /\ RevokeTarget(r) \in rev[s]
    \/ At(r, "RevokeAll") /\ scan[r] \cap rev[s] # {}
    \/ At(r, "MarkUsed") /\ call[r].tok \in spend[s]
    \/ At(r, "Invalidate") /\ scan[r] \cap spend[s] # {}
    \/ At(r, "Commit") /\ InsertsRow(r) /\ ChangesKey(s) /\ uid[s] = uid[r]

Unblocked(r) == \A s \in Requests \ {r} : ~Conflict(r, s)

-----------------------------------------------------------------------------
(***************************************************************************)
(* Control.                                                                *)
(***************************************************************************)
\* Go on with the statement n positions further down.
Jump(r, n) ==
    /\ pc' = [pc EXCEPT ![r] = @ + n]
    /\ phase' = [phase EXCEPT
           ![r] = IF pc[r] + n > Len(Script[op(r)]) THEN "ok" ELSE @]

Advance(r) == Jump(r, 1)

DiscardHoldsLocks(r) ==
    /\ snap' = [snap EXCEPT ![r] = NoRow]
    /\ base' = [base EXCEPT ![r] = NoRow]
    /\ UNCHANGED staged

\* The end of the unit of work without a commit: everything staged is lost.
Discard(r) ==
    /\ snap' = [snap EXCEPT ![r] = NoRow]
    /\ base' = [base EXCEPT ![r] = NoRow]
    /\ write' = [write EXCEPT ![r] = NoRow]
    /\ rev' = [rev EXCEPT ![r] = {}]
    /\ spend' = [spend EXCEPT ![r] = {}]
    /\ scan' = [scan EXCEPT ![r] = {}]

Leave(r, how) ==
    /\ phase' = [phase EXCEPT ![r] = how]
    /\ Discard(r)
    /\ UNCHANGED <<tables, mailed, pc, request>>

Deny(r) == Leave(r, "denied")

\* A read that succeeds leaves the entity it produced.
Load(r, row, edited) ==
    /\ base' = [base EXCEPT ![r] = row]
    /\ snap' = [snap EXCEPT ![r] = edited]
    /\ Advance(r)
    /\ UNCHANGED <<tables, mailed, staged>>

\* A client can only present a session or link that was handed out to it.
Presentable(c) ==
    /\ c.op \in SessionOps =>
          c.jti \in Jtis /\ sessions[c.jti].state # "none"
    /\ c.op \in TokenOps => c.tok \in mailed
    /\ c.op \in ModerationOps => c.user \in Users

\* The credential of a call is good: the session neither revoked nor expired
\* (for an access token, the shorter deadline), the link neither used nor
\* expired.  Stated on the rows, not on the checks the code makes.
CredentialGood(c) ==
    /\ c.op \in SessionOps =>
          /\ sessions[c.jti].state = "open"
          /\ sessions[c.jti].age < IF c.op = "refresh" THEN 2 ELSE 1
    /\ c.op \in TokenOps =>
          tokens[c.tok].state = "unused" /\ ~tokens[c.tok].expired

\* The account a call is about; login and forgot_password find it later.
Subject(r, c) ==
    CASE c.op \in ModerationOps -> c.user
      [] c.op \in TokenOps -> tokens[c.tok].user
      [] c.op \in SessionOps \ ModerationOps -> sessions[c.jti].user
      [] OTHER -> r

Start(r, c) ==
    /\ phase[r] = "idle"
    /\ Cardinality(InFlight) < MaxInFlight
    /\ Presentable(c)
    /\ call' = [call EXCEPT ![r] = c]
    /\ uid' = [uid EXCEPT ![r] = Subject(r, c)]
    /\ phase' = [phase EXCEPT ![r] = "running"]
    /\ openAt' = [openAt EXCEPT ![r] =
                     {j \in Jtis : sessions[j].state = "open"}]
    /\ unusedAt' = [unusedAt EXCEPT ![r] =
                     {t \in Toks : tokens[t].state = "unused"}]
    /\ liveAt' = [liveAt EXCEPT ![r] = CredentialGood(c)]
    /\ UNCHANGED <<tables, mailed, pc, entity, staged>>

-----------------------------------------------------------------------------
(***************************************************************************)
(* AuthenticateUseCase, run by every endpoint that takes an access token.  *)
(***************************************************************************)
\* The access token must not have expired and its session must be valid.
AuthSession(r) ==
    /\ At(r, "AuthSession")
    /\ \/ /\ is_valid(jti(r)) /\ sessions[jti(r)].age = 0
          /\ Advance(r)
          /\ UNCHANGED <<tables, mailed, entity, staged, request>>
       \/ /\ ~is_valid(jti(r)) \/ sessions[jti(r)].age > 0
          /\ Deny(r)

\* The account must be active; require_permission then looks for users.ban,
\* which a superuser always has.
MayAct(r, actor) ==
    /\ users[actor].active
    /\ op(r) \in ModerationOps => actor \in Moderators \cup Superusers

AuthUser(r) ==
    /\ At(r, "AuthUser")
    /\ LET actor == sessions[jti(r)].user
       IN \/ /\ MayAct(r, actor)
             /\ Advance(r)
             /\ UNCHANGED <<tables, mailed, entity, staged, request>>
          \/ ~MayAct(r, actor) /\ Deny(r)

\* The endpoints that need the jti decode the access token once more.  If it
\* expires in between, get_current_jti refuses; LogoutUseCase swallows the
\* error and answers as if it had logged out.
Decode(r) ==
    /\ At(r, "Decode")
    /\ \/ /\ sessions[jti(r)].age = 0
          /\ Advance(r)
          /\ UNCHANGED <<tables, mailed, entity, staged, request>>
       \/ /\ sessions[jti(r)].age > 0
          /\ Leave(r, IF op(r) = "logout" THEN "ok" ELSE "denied")

-----------------------------------------------------------------------------
(***************************************************************************)
(* The reads the use cases begin with, and what they decide.               *)
(***************************************************************************)
\* LoginUseCase: unknown, inactive and wrong password are refused alike,
\* and the refusal commits an audit row of its own (with this read: it holds
\* no lock others wait for while its INSERT waits for the account's row).
LoginRead(r) ==
    /\ At(r, "LoginRead")
    /\ LET valid == {u \in get_by_email(call[r].email) :
                        users[u].active /\ users[u].hash.pw = call[r].password}
       IN \/ \E u \in valid :
                /\ uid' = [uid EXCEPT ![r] = u]
                /\ Load(r, users[u], users[u])
                /\ UNCHANGED <<call, openAt, unusedAt, liveAt>>
          \/ /\ valid = {}
             /\ audit' = [audit EXCEPT ![r] = "LOGIN_FAILED"]
             /\ phase' = [phase EXCEPT ![r] = "denied"]
             /\ UNCHANGED <<users, sessions, tokens, mailed, pc, entity,
                            staged, request>>

RefreshReadSession(r) ==
    /\ At(r, "RefreshReadSession")
    /\ \/ /\ is_valid(jti(r))
          /\ Advance(r)
          /\ UNCHANGED <<tables, mailed, entity, staged, request>>
       \/ ~is_valid(jti(r)) /\ Deny(r)

RefreshReadUser(r) ==
    /\ At(r, "RefreshReadUser")
    /\ \/ users[uid[r]].active /\ Load(r, users[uid[r]], users[uid[r]])
             /\ UNCHANGED request
       \/ ~users[uid[r]].active /\ Deny(r)

\* RevokeUserSessionUseCase: only the owner's sessions can be named.
ReadOwnSession(r) ==
    /\ At(r, "ReadOwnSession")
    /\ LET s == call[r].sid
           mine == s \in Jtis /\ sessions[s].state # "none"
                              /\ sessions[s].user = uid[r]
       IN \/ /\ mine
             /\ Advance(r)
             /\ UNCHANGED <<tables, mailed, entity, staged, request>>
          \/ ~mine /\ Deny(r)

PurposeOfMisnamed(o) == IF o \in {"verify_email", "register", "update_me"}
                        THEN "email_verification" ELSE "reset"

\* The purpose an endpoint looks its token up with.
PurposeOf(o) == IF o \in {"verify_email", "register", "update_me"}
                THEN "email_verification" ELSE "password_reset"

ReadToken(r) ==
    /\ At(r, "ReadToken")
    /\ LET t == call[r].tok
           good == is_usable(t) /\ tokens[t].purpose = PurposeOf(op(r))
       IN \/ /\ good
             /\ Advance(r)
             /\ UNCHANGED <<tables, mailed, entity, staged, request>>
          \/ ~good /\ Deny(r)

\* VerifyEmailUseCase stamps email_verified_at, ResetPasswordUseCase the
\* new hash (which update_password writes).
ReadTokenUser(r) ==
    /\ At(r, "ReadTokenUser")
    /\ LET row == users[uid[r]]
       IN \/ /\ row.active
             /\ Load(r, row, IF op(r) = "verify_email"
                             THEN [row EXCEPT !.verified = TRUE] ELSE row)
             /\ UNCHANGED request
          \/ ~row.active /\ Deny(r)

\* ChangePasswordUseCase: the current password must match and the new one
\* must differ.
ChangeRead(r) ==
    /\ At(r, "ChangeRead")
    /\ LET row == users[uid[r]]
           allowed == /\ row.hash.pw = call[r].password
                      /\ call[r].new # call[r].password
       IN \/ allowed /\ Load(r, row, row) /\ UNCHANGED request
          \/ ~allowed /\ Deny(r)

\* ForgotPasswordUseCase: an unknown or inactive account gets the same
\* answer as a known one, and nothing happens.
ForgotRead(r) ==
    /\ At(r, "ForgotRead")
    /\ LET known == {u \in get_by_email(call[r].email) : users[u].active}
       IN \/ \E u \in known :
                /\ uid' = [uid EXCEPT ![r] = u]
                /\ Load(r, users[u], users[u])
                /\ UNCHANGED <<call, openAt, unusedAt, liveAt>>
          \/ known = {} /\ Leave(r, "ok")

\* RegisterUserUseCase: the address must be free when it is looked up.
RegisterCheck(r) ==
    /\ At(r, "RegisterCheck")
    /\ \/ /\ get_by_email(call[r].email) = {}
          /\ Advance(r)
          /\ UNCHANGED <<tables, mailed, entity, staged, request>>
       \/ get_by_email(call[r].email) # {} /\ Deny(r)

\* UpdateUserUseCase: a new address arrives unverified.
UpdateRead(r) ==
    /\ At(r, "UpdateRead")
    /\ LET row == users[uid[r]]
           e == call[r].email
       IN Load(r, row, IF e \in {None, row.email} THEN row
                       ELSE [row EXCEPT !.email = e, !.verified = FALSE])
    /\ UNCHANGED request

CheckEmail(r) ==
    /\ At(r, "CheckEmail")
    /\ LET clash == /\ snap[r].email # base[r].email
                    /\ get_by_email(snap[r].email) # {}
       IN \/ /\ ~clash
             /\ Advance(r)
             /\ UNCHANGED <<tables, mailed, entity, staged, request>>
          \/ clash /\ Deny(r)

DeleteRead(r) ==
    /\ At(r, "DeleteRead")
    /\ LET row == users[uid[r]]
       IN Load(r, row, [row EXCEPT !.active = FALSE])
    /\ UNCHANGED request

\* BanUserUseCase: not oneself, not a missing account, not a superuser; an
\* account already inactive is left alone.
BanRead(r) ==
    /\ At(r, "BanRead")
    /\ LET row == users[uid[r]]
           refused == \/ uid[r] = sessions[jti(r)].user
                      \/ row = NoRow
                      \/ uid[r] \in Superusers
       IN \/ refused /\ Deny(r)
          \/ ~refused /\ ~row.active /\ Leave(r, "ok")
          \/ /\ ~refused /\ row.active
             /\ Load(r, row, [row EXCEPT !.active = FALSE])
             /\ UNCHANGED request

UnbanRead(r) ==
    /\ At(r, "UnbanRead")
    /\ LET row == users[uid[r]]
       IN \/ row = NoRow /\ Deny(r)
          \/ row # NoRow /\ row.active /\ Leave(r, "ok")
          \/ /\ row # NoRow /\ ~row.active
             /\ Load(r, row, [row EXCEPT !.active = TRUE])
             /\ UNCHANGED request

-----------------------------------------------------------------------------
(***************************************************************************)
(* The writes.  Each waits until no other transaction holds its rows.      *)
(***************************************************************************)
\* The address is already in the unique index: IntegrityError.
Duplicate(r, e) == get_by_email(e) \ {uid[r]} # {}

\* UserRepository.update first fetches the row again: from the identity map
\* if the object is still alive there, from the database if it is not.
Reload(r) ==
    /\ At(r, "Reload")
    /\ \E row \in {base[r], users[uid[r]]} :
          base' = [base EXCEPT ![r] = row]
    /\ Advance(r)
    /\ UNCHANGED <<tables, mailed, snap, staged, request>>

UpdateRow(r) ==
    /\ At(r, "UpdateRow")
    /\ LET row == Merged(r, users[uid[r]])
       IN \/ Unblocked(r) /\ Duplicate(r, row.email) /\ Leave(r, "error")
          \/ /\ Unblocked(r) /\ ~Duplicate(r, row.email)
             /\ write' = [write EXCEPT ![r] = row]
             /\ Advance(r)
             /\ UNCHANGED <<tables, mailed, entity, rev, spend, scan, request>>
          \/ /\ ~Emits(r)
             /\ Advance(r)
             /\ UNCHANGED <<tables, mailed, entity, staged, request>>

InsertUser(r) ==
    /\ At(r, "InsertUser")
    /\ Unblocked(r)
    /\ \/ Duplicate(r, call[r].email) /\ Leave(r, "error")
       \/ /\ ~Duplicate(r, call[r].email)
          /\ write' = [write EXCEPT ![r] =
                [email |-> call[r].email, active |-> TRUE, verified |-> FALSE,
                 hash |-> [pw |-> call[r].password, salt |-> r]]]
          /\ Advance(r)
          /\ UNCHANGED <<tables, mailed, entity, rev, spend, scan, request>>

\* UserRepository.update_password sends the one column.
UpdatePassword(r) ==
    /\ At(r, "UpdatePassword")
    /\ Unblocked(r)
    /\ write' = [write EXCEPT ![r] =
          [users[uid[r]] EXCEPT !.hash = [pw |-> call[r].new, salt |-> r]]]
    /\ Advance(r)
    /\ UNCHANGED <<tables, mailed, entity, rev, spend, scan, request>>

\* SessionRepository.revoke: WHERE jti = ... AND revoked_at IS NULL; that
\* no row may match is not noticed.
RevokeJti(r) ==
    /\ At(r, "RevokeJti")
    /\ Unblocked(r)
    /\ rev' = [rev EXCEPT ![r] = @ \cup
          {j \in Jtis : j = RevokeTarget(r) /\ sessions[j].state = "open"}]
    /\ Advance(r)
    /\ UNCHANGED <<tables, mailed, entity, write, spend, scan, request>>

ScanSessionsOfEveryone(r) ==
    /\ At(r, "ScanSessions")
    /\ scan' = [scan EXCEPT ![r] =
          {j \in Jtis : sessions[j].state = "open" /\ j # jti(r)}]
    /\ Advance(r)
    /\ UNCHANGED <<tables, mailed, entity, write, rev, spend, request>>

\* SessionRepository.revoke_all_for_user, the snapshot: the rows of the user
\* not revoked, except_jti left out.
ScanSessions(r) ==
    /\ At(r, "ScanSessions")
    /\ scan' = [scan EXCEPT ![r] =
          {j \in Jtis : /\ sessions[j].state = "open"
                        /\ sessions[j].user = uid[r]
                        /\ ~(op(r) = "revoke_others" /\ j = jti(r))}]
    /\ Advance(r)
    /\ UNCHANGED <<tables, mailed, entity, write, rev, spend, request>>

\* ... and the update of the rows that still match once they are free.
RevokeAll(r) ==
    /\ At(r, "RevokeAll")
    /\ Unblocked(r)
    /\ rev' = [rev EXCEPT ![r] = @ \cup
          {j \in Jtis : j \in scan[r] /\ sessions[j].state = "open"}]
    /\ scan' = [scan EXCEPT ![r] = {}]
    /\ Advance(r)
    /\ UNCHANGED <<tables, mailed, entity, write, spend, request>>

\* SecurityTokenRepository.mark_used.  VerifyEmailUseCase goes straight on
\* to the commit if the account is verified already.
MarkUsed(r) ==
    /\ At(r, "MarkUsed")
    /\ Unblocked(r)
    /\ spend' = [spend EXCEPT ![r] = @ \cup
          {t \in Toks : t = call[r].tok /\ tokens[t].state = "unused"}]
    /\ Jump(r, IF op(r) = "verify_email" /\ base[r].verified THEN 3 ELSE 1)
    /\ UNCHANGED <<tables, mailed, entity, write, rev, scan, request>>

\* SecurityTokenRepository.invalidate_for_user, the snapshot.
ScanTokens(r) ==
    /\ At(r, "ScanTokens")
    /\ scan' = [scan EXCEPT ![r] =
          {t \in Toks : /\ tokens[t].state = "unused"
                        /\ tokens[t].user = uid[r]
                        /\ tokens[t].purpose = PurposeOf(op(r))
                        /\ op(r) = "update_me" => IssuesLink(r)}]
    /\ Advance(r)
    /\ UNCHANGED <<tables, mailed, entity, write, rev, spend, request>>

Invalidate(r) ==
    /\ At(r, "Invalidate")
    /\ Unblocked(r)
    /\ spend' = [spend EXCEPT ![r] = @ \cup
          {t \in Toks : t \in scan[r] /\ tokens[t].state = "unused"}]
    /\ scan' = [scan EXCEPT ![r] = {}]
    /\ Advance(r)
    /\ UNCHANGED <<tables, mailed, entity, write, rev, request>>

-----------------------------------------------------------------------------
(***************************************************************************)
(* The end of a request.                                                   *)
(***************************************************************************)
\* A login records the hash it checked; a rotation inherits.
NewSession(r) ==
    [state |-> "open", user |-> uid[r], age |-> 0,
     cred |-> IF op(r) = "refresh" THEN sessions[jti(r)].cred
              ELSE snap[r].hash]

NewToken(r) ==
    [state |-> "unused", user |-> uid[r], purpose |-> PurposeOf(op(r)),
     to |-> IF op(r) = "update_me" THEN snap[r].email ELSE call[r].email,
     expired |-> FALSE]

SessionAfterRotatingInPlace(r, j) ==
    IF op(r) = "refresh" /\ j = jti(r)
    THEN [sessions[j] EXCEPT !.state = "open"]
    ELSE IF j \in rev[r] THEN [sessions[j] EXCEPT !.state = "revoked"]
    ELSE sessions[j]

\* A row as the commit of r leaves it.
SessionAfter(r, j) ==
    IF j \in rev[r] THEN [sessions[j] EXCEPT !.state = "revoked"]
    ELSE IF j = r /\ OpensSession(r) THEN NewSession(r)
    ELSE sessions[j]

TokenAfter(r, t) ==
    IF t \in spend[r] THEN [tokens[t] EXCEPT !.state = "used"]
    ELSE IF t = r /\ IssuesLink(r) THEN NewToken(r)
    ELSE tokens[t]

\* The INSERTs and the commit in one step: the INSERTs are the last thing
\* that can wait, and nothing sees them before the commit.
Commit(r) ==
    /\ At(r, "Commit")
    /\ Unblocked(r)
    /\ users' = [users EXCEPT
          ![uid[r]] = IF write[r] = NoRow THEN @ ELSE write[r]]
    /\ sessions' = [j \in Jtis |-> SessionAfter(r, j)]
    /\ tokens' = [t \in Toks |-> TokenAfter(r, t)]
    /\ audit' = [audit EXCEPT ![r] = Entry(op(r))]
    /\ phase' = [phase EXCEPT
          ![r] = IF pc[r] = Len(Script[op(r)]) THEN "ok" ELSE "mailing"]
    /\ pc' = [pc EXCEPT ![r] = @ + 1]
    /\ Discard(r)
    /\ UNCHANGED <<mailed, request>>

\* The link goes out after the commit; a failing mail server is logged and
\* the mail is lost.
Send(r) ==
    /\ phase[r] = "mailing"
    /\ \E delivered \in BOOLEAN :
          mailed' = IF delivered /\ tokens[r].state # "none"
                    THEN mailed \cup {r} ELSE mailed
    /\ phase' = [phase EXCEPT ![r] = "ok"]
    /\ UNCHANGED <<tables, pc, entity, staged, request>>

\* The server process or its connection dies: the transaction is rolled
\* back, or what comes after the commit is lost.
Crash(r) ==
    /\ "crash" \in Faults
    /\ r \in InFlight
    /\ Leave(r, "failed")

\* PostgreSQL ends a cycle of two waiting transactions by aborting one.
DeadlockVictim(r) ==
    /\ phase[r] = "running"
    /\ \E s \in InFlight \ {r} : Conflict(r, s) /\ Conflict(s, r)
    /\ Leave(r, "error")

\* Time passes for one session or one link; what is revoked or spent already
\* need not age.
SessionAges(j) ==
    /\ j \in Ageing
    /\ sessions[j].state = "open" /\ sessions[j].age < 2
    /\ sessions' = [sessions EXCEPT ![j].age = @ + 1]
    /\ UNCHANGED <<users, tokens, audit, mailed, phase, pc, entity, staged,
                   request>>

TokenExpires(t) ==
    /\ t \in Ageing
    /\ tokens[t].state = "unused" /\ ~tokens[t].expired
    /\ tokens' = [tokens EXCEPT ![t].expired = TRUE]
    /\ UNCHANGED <<users, sessions, audit, mailed, phase, pc, entity, staged,
                   request>>

-----------------------------------------------------------------------------
\* One statement of request r.
Step(r) ==
    \/ AuthSession(r) \/ AuthUser(r) \/ Decode(r)
    \/ LoginRead(r) \/ RefreshReadSession(r) \/ RefreshReadUser(r)
    \/ ReadOwnSession(r) \/ ReadToken(r) \/ ReadTokenUser(r)
    \/ ChangeRead(r) \/ ForgotRead(r) \/ RegisterCheck(r)
    \/ UpdateRead(r) \/ CheckEmail(r) \/ DeleteRead(r)
    \/ BanRead(r) \/ UnbanRead(r)
    \/ Reload(r) \/ UpdateRow(r) \/ InsertUser(r) \/ UpdatePassword(r)
    \/ RevokeJti(r) \/ ScanSessions(r) \/ RevokeAll(r)
    \/ MarkUsed(r) \/ ScanTokens(r) \/ Invalidate(r)
    \/ Commit(r) \/ Send(r)

\* Nothing is being served: the service may stay as it is for ever.
Quiet == InFlight = {} /\ UNCHANGED vars

Next ==
    \/ \E r \in Requests :
          \/ \E c \in Calls : Start(r, c)
          \/ Step(r)
          \/ Crash(r)
          \/ DeadlockVictim(r)
    \/ \E j \in Jtis : SessionAges(j)
    \/ \E t \in Toks : TokenExpires(t)
    \/ Quiet

Spec == Init /\ [][Next]_vars

\* An asyncio server keeps running a started request and PostgreSQL's
\* deadlock detector keeps looking for cycles; clients, crashes and the
\* clock owe nobody a step.
Fairness == \A r \in Requests : WF_vars(Step(r)) /\ WF_vars(DeadlockVictim(r))

FairSpec == Spec /\ Fairness

-----------------------------------------------------------------------------
(***************************************************************************)
(* What holds however requests interleave.                                 *)
(***************************************************************************)
SignOutOps == {"change_password", "reset_password", "delete_me", "ban",
               "revoke_all", "revoke_others"}

\* The session a "log out other devices" call keeps.
Kept(r, j) == op(r) = "revoke_others" /\ j = jti(r)

\* Whoever changes or resets a password, deletes or bans an account or logs
\* out everywhere ends every session that was open when the request
\* arrived, also those another request was rotating or revoking at the time.
SignOutComplete ==
    \A r \in Requests :
        op(r) \in SignOutOps /\ audit[r] # None =>
            \A j \in openAt[r] :
                sessions[j].user = uid[r] /\ ~Kept(r, j) =>
                    sessions[j].state = "revoked"

\* A password change or reset, and the issue of a new link, spend every link
\* of that purpose that was live when the request arrived.
OldLinksSpent ==
    \A r \in Requests :
        \/ op(r) \in {"change_password", "reset_password"} /\ audit[r] # None
        \/ tokens[r].state # "none"
        => \A t \in unusedAt[r] :
               tokens[t].user = uid[r] /\ tokens[t].purpose = PurposeOf(op(r))
               => tokens[t].state = "used"

\* A logout that was answered with success has ended the session, so that its
\* refresh token is worth nothing any more; unless its access token ran out
\* meanwhile.
LogoutRevokes ==
    \A r \in Requests : op(r) = "logout" /\ phase[r] = "ok" =>
        sessions[jti(r)].state = "revoked" \/ sessions[jti(r)].age > 0

\* A request that presents a session already revoked or expired when it
\* arrives, or a link already used or expired, gets no further than the
\* check of that credential and leaves nothing behind, whatever runs beside
\* it.
DeadCredentialStaysOut ==
    \A r \in Requests : ~liveAt[r] =>
        pc[r] = 1 /\ audit[r] = None /\ sessions[r].state = "none"

\* A revoked session is never open again and a spent link never usable
\* again, and neither changes hands.
SpentForever ==
    [][ /\ \A j \in Jtis : sessions[j].state = "revoked" =>
              /\ sessions'[j].state = "revoked"
              /\ sessions'[j].user = sessions[j].user
        /\ \A t \in Toks : tokens[t].state = "used" =>
              tokens'[t].state = "used" /\ tokens'[t].user = tokens[t].user
      ]_vars

PasswordEntries == {"REGISTER", "PASSWORD_CHANGED", "PASSWORD_RESET"}

\* A password hash changes only in the step that appends the audit row of a
\* registration, change or reset for that account: the profile, ban and
\* verification updates, which write entities read earlier, never bring an
\* old password back.
PasswordNotClobbered ==
    [][ \A u \in Users : users'[u].hash # users[u].hash =>
            \E r \in Requests : /\ uid[r] = u
                                /\ audit[r] = None
                                /\ audit'[r] \in PasswordEntries ]_vars

\* An inactive account becomes active again only by an unban, or by the
\* commit of a profile update or a verification that had read the account
\* while it was active and fetched the row again after its deactivation:
\* the entity's old flag then counts as a change.  No other write, and no
\* request that arrives after the deactivation, brings an account back.
ReactivationExplained ==
    [][ \A u \in Users :
            users[u] # NoRow /\ ~users[u].active /\ users'[u].active =>
            \E r \in Requests :
                /\ uid[r] = u /\ At(r, "Commit")
                /\ snap[r].active /\ ~base[r].active
                /\ op(r) \in {"unban", "update_me", "verify_email"} ]_vars

\* A refresh token that was exchanged and a mailed link that took effect are
\* worthless from then on: the rotation and the use do not notice that
\* another request got there first, but none of them, in whatever order they
\* wait for the row, leaves it live.
CredentialConsumed ==
    \A r \in Requests :
        /\ op(r) = "refresh" /\ sessions[r].state # "none" =>
               sessions[jti(r)].state = "revoked"
        /\ op(r) \in TokenOps /\ audit[r] # None =>
               tokens[call[r].tok].state = "used"

\* An open session goes back to a login with the password now in force, and
\* to an account that is active.
Sound(j) ==
    sessions[j].state = "open" =>
        /\ users[sessions[j].user].active
        /\ sessions[j].cred = users[sessions[j].user].hash

PasswordChanges == {"change_password", "reset_password"}

\* An open session outlives its password or its account only in four ways:
\* it was opened after the request that changed the password or ended the
\* account had arrived; a profile update writes a stale inactive flag
\* back; its own login read an account that changed before
\* the login committed; or its refresh read a session that was revoked, or
\* lost its footing in one of these ways, before the refresh committed.
UnsoundSessionExplained ==
    [][ \A j \in Jtis : Sound(j) /\ ~Sound(j)' =>
            \E r \in Requests :
                /\ At(r, "Commit") /\ uid[r] = sessions'[j].user
                /\ \/ /\ op(r) \in PasswordChanges \cup {"ban", "delete_me"}
                      /\ j \notin openAt[r]
                   \/ /\ op(r) = "update_me"
                      /\ ~snap[r].active /\ base[r].active
                   \/ /\ j = r /\ op(r) = "login"
                      /\ \/ ~users[uid[r]].active
                         \/ snap[r].hash # users[uid[r]].hash
                   \/ /\ j = r /\ op(r) = "refresh"
                      /\ jti(r) \notin rev[r] \/ ~Sound(jti(r)) ]_vars

\* Address e of account u was verified from the start, or somebody followed
\* a link mailed to it.
Shown(u, e) ==
    \/ u \in SeedUsers /\ SeedVerified(u) /\ e = Address[u]
    \/ \E r \in Requests : /\ audit[r] = "EMAIL_VERIFIED" /\ uid[r] = u
                            /\ tokens[call[r].tok].to = e

\* The address of a row counts as verified with good reason.
Proven(u, row) == row.verified => Shown(u, row.email)

\* An address nobody has proven to own becomes verified only in three ways:
\* by a link mailed to another address, if somebody else spent the link
\* after the verification had looked it up, or if a profile update issued
\* it (an overlapping one can leave another address in the row); by a write
\* that sends the address without the flag or the flag without the address,
\* because the row has changed since the ORM compared them; or by a write
\* that restores what was already unproven when it was read.
UnprovenAddressExplained ==
    [][ \A u \in Users : Proven(u, users[u]) /\ ~Proven(u, users[u])' =>
            \E r \in Requests :
                /\ At(r, "Commit") /\ uid[r] = u
                /\ \/ /\ op(r) = "verify_email"
                      /\ tokens[call[r].tok].to # write[r].email
                      /\ \/ call[r].tok \notin spend[r]
                         \/ \E s \in Requests :
                               call[r].tok = s /\ op(s) = "update_me"
                   \/ /\ op(r) \in {"update_me", "delete_me", "ban", "unban"}
                      /\ \/ base[r].email # users[u].email
                         \/ base[r].verified # users[u].verified
                         \/ ~Proven(u, snap[r]) ]_vars

\* The tables, without the columns that only the properties use or that
\* time alone changes, seen as the store of CredentialStore.
Store ==
    INSTANCE CredentialStore
    WITH session <- [j \in Jtis |-> [state |-> sessions[j].state,
                                     user |-> sessions[j].user]],
         link <- [t \in Toks |-> [state |-> tokens[t].state,
                                  user |-> tokens[t].user,
                                  purpose |-> tokens[t].purpose]]

\* The statements of the use cases, interleaved and interrupted in any way,
\* act on credentials like the atomic, one-account operations of
\* CredentialStore: what is staged never shows, a commit never touches a
\* credential of another account, reuses a name or revives what has ended,
\* and only a committed link is mailed.
StoreSpec == Store!Spec

\* The rows a committed use case leaves behind and its audit row are there
\* together or not at all, whatever crashed: a hash set by r, a session
\* opened by r and an account created by r are backed by r's audit row (a
\* rotation writes none), and a request that was refused or died before its
\* commit left no row.
EffectsAudited ==
    \A r \in Requests :
        /\ \A u \in Users : users[u].hash.salt = r =>
               audit[r] \in PasswordEntries
        /\ sessions[r].state # "none" =>
               op(r) = "refresh" \/ audit[r] = "LOGIN"
        /\ users[r] # NoRow <=> audit[r] = "REGISTER"
        /\ audit[r] = "LOGIN" => sessions[r].state # "none"
        /\ phase[r] = "denied" => audit[r] \in {None, "LOGIN_FAILED"}

\* The use cases that revoke sessions and need not write the account before:
\* a ban or deletion that finds it inactive has nothing to send.
SessionEnders == {"refresh", "logout", "revoke_session", "revoke_all",
                  "revoke_others", "ban", "delete_me"}

\* r has locked the account and waits for a link or session of it that s has
\* locked, while s, which has not written the account, still needs it.
OppositeOrder(r, s) ==
    /\ write[s] = NoRow
    /\ \/ op(r) = "update_me" /\ op(s) = "verify_email"
       \/ op(r) = "update_me" /\ ChangesKey(r) /\ op(s) = "update_me"
       \/ /\ op(r) \in {"ban", "delete_me"} /\ ChangesKey(r)
          /\ write[r].email = snap[r].email
          /\ op(s) \in SessionEnders

\* Two transactions wait for each other only in three ways: an email
\* verification, which locks the link and then the account, meets a profile
\* update, which locks the account and then its links; a profile update that
\* changes the address meets one that changes nothing, which locks the links
\* without the account and then inserts a link that references it; or a ban
\* or deletion that writes an address back that has changed since it read
\* the account, and so locks the account against such references, meets a
\* request that has locked a session and inserts a row.
DeadlocksExplained ==
    \A r, s \in Requests : r # s /\ Conflict(r, s) /\ Conflict(s, r) =>
        OppositeOrder(r, s) \/ OppositeOrder(s, r)

\* Every request that starts is answered: no set of transactions waits on
\* each other for ever.
EveryRequestEnds ==
    \A r \in Requests : r \in InFlight ~> r \notin InFlight

-----------------------------------------------------------------------------
(***************************************************************************)
(* What the documentation promises.  It holds while requests are served    *)
(* one at a time (MaxInFlight = 1).                                        *)
(***************************************************************************)
\* An open session goes back to a login with the password now in force.
SessionsMatchPassword ==
    \A j \in Jtis : sessions[j].state = "open" =>
        sessions[j].cred = users[sessions[j].user].hash

\* A deactivated account has no open session.
InactiveSignedOut ==
    \A j \in Jtis : sessions[j].state = "open" =>
        users[sessions[j].user].active

\* A refresh token is exchanged at most once.
RefreshSingleUse ==
    \A r, s \in Requests :
        /\ op(r) = "refresh" /\ sessions[r].state # "none"
        /\ op(s) = "refresh" /\ sessions[s].state # "none"
        /\ jti(r) = jti(s)
        => r = s

\* Only an unban makes an inactive account active again.
ReactivatedOnlyByUnban ==
    [][ \A u \in Users :
            users[u] # NoRow /\ ~users[u].active /\ users'[u].active =>
            \E r \in Requests : /\ uid[r] = u
                                /\ audit[r] = None
                                /\ audit'[r] = "USER_UNBANNED" ]_vars

=============================================================================
