------------------------------ MODULE AuthCache -----------------------------
(***************************************************************************)
(* Who a request acts as, and what it may do, when users are cached in     *)
(* Redis: AuthenticateUseCase takes the session from the database and the  *)
(* user, with roles and permissions, from the cache, and the               *)
(* access-control and moderation use cases change the database and then,   *)
(* some of them, delete the cache entry.                                   *)
(*                                                                         *)
(* Workers serve requests for ever, one at a time each.  A statement or a  *)
(* Redis command is one step.  The use cases that module Accounts gives    *)
(* statement by statement (login, logout, ban, unban) are here one write   *)
(* and one commit.  A request that fails (401, 403, 404, 409 and 500       *)
(* alike) changes nothing and is Refused.                                  *)
(*                                                                         *)
(* Definitions with a suffix (EvictOpsWithoutRevoke, ...) are faulty       *)
(* variants of the definition that follows them; nothing uses them, they   *)
(* show that the properties can fail.                                      *)
(***************************************************************************)
EXTENDS Integers, FiniteSets

CONSTANTS
    Workers,       \* requests served at the same time
    Users,         \* accounts
    Superusers,    \* accounts with is_superuser
    Jtis,          \* sessions
    Owner,         \* [Jtis -> Users]
    SignedIn,      \* sessions open when the model starts
    RoleIds,       \* role ids; a deleted id is never used again
    Name,          \* [RoleIds -> STRING], unique among the roles there are
    Perms,         \* permission codes, resource and action
    SeedPerms,     \* permissions defined when the model starts
    SeedGrants,    \* [RoleIds -> SUBSET SeedPerms]
    SeedHeld,      \* [Users -> SUBSET RoleIds]
    Calls,         \* the calls clients may make in this instance
    TTL,           \* AUTH_CACHE_TTL_SECONDS, in ticks
    MaxChanges,    \* bound on the requests that may write
    Faults,        \* {"crash"} or {}
    None           \* an absent cache entry or argument

AdminOps == {"assign_role", "revoke_role", "create_role", "delete_role",
             "grant_permission", "revoke_permission", "create_permission"}
ModerationOps == {"ban", "unban"}
Ops == AdminOps \cup ModerationOps \cup {"me", "login", "logout"}

EvictOpsWithoutRevoke == {"assign_role", "ban", "unban"}

\* The use cases that end with cache.delete for the account they change.
EvictOps == {"assign_role", "revoke_role", "ban", "unban"}

\* jti: the session presented, or the one a login creates; user, role and
\* perm: what the URL and the body name.
Call == [op : Ops, jti : Jtis, user : Users \cup {None},
         role : RoleIds \cup {None}, perm : Perms \cup {None}]

\* The permission a router demands, {} if it only asks who is calling.
Demands(op) ==
    CASE op \in AdminOps -> {"users.manage"}
      [] op \in ModerationOps -> {"users.ban"}
      [] OTHER -> {}

\* What the cache keeps of a user: is_active, the roles and the permissions
\* of each of them.
View == [active : BOOLEAN, roles : SUBSET RoleIds,
         perms : [RoleIds -> SUBSET Perms]]
NoView == [active |-> FALSE, roles |-> {}, perms |-> [ro \in RoleIds |-> {}]]

\* clean is not stored; it says that no change of the account was committed
\* while the entry was being loaded, and no eviction of it was lost.
Entry == [view : View, ttl : 1..TTL, clean : BOOLEAN]

ASSUME TTLAssumption == TTL \in Nat \ {0} /\ MaxChanges \in Nat
ASSUME OwnerAssumption == Owner \in [Jtis -> Users] /\ SignedIn \subseteq Jtis
ASSUME SeedAssumption ==
    /\ SeedPerms \subseteq Perms
    /\ SeedGrants \in [RoleIds -> SUBSET SeedPerms]
    /\ SeedHeld \in [Users -> SUBSET {ro \in RoleIds : SeedGrants[ro] # {}}]
    /\ \A x, y \in RoleIds :
          SeedGrants[x] # {} /\ SeedGrants[y] # {} /\ Name[x] = Name[y]
          => x = y
\* A call names, in its URL or body, what its use case is about.
ASSUME CallAssumption ==
    /\ Calls \subseteq Call /\ Calls # {} /\ None \notin Users
    /\ \A c \in Calls :
          /\ c.op \in EvictOps => c.user \in Users
          /\ c.op \in AdminOps \ {"create_permission"} => c.role \in RoleIds
          /\ c.op \in {"grant_permission", "revoke_permission",
                       "create_permission"} => c.perm \in Perms

-----------------------------------------------------------------------------
VARIABLES
    active,     \* users.is_active
    sess,       \* table sessions
    role,       \* table roles
    perms,      \* table permissions
    held,       \* table user_roles
    grants,     \* table role_permissions
    cache,      \* auth:user:<id> in Redis
    pc,         \* what the worker does next
    call,       \* the request it serves
    view,       \* the User entity authentication returns
    clean,      \* history: no change of the account since its row was read
    dirty,      \* the open transaction has written
    rev,        \* sessions that write revoked
    liveAt,     \* history: the session was open when the request arrived
    changes     \* requests that may write so far

tables == <<active, sess, role, perms, held, grants>>
locals == <<call, view, clean, dirty, rev, liveAt>>
vars == <<tables, cache, pc, locals, changes>>

Points == {"idle", "session", "get", "row", "roles", "perms", "set",
           "decide", "check", "write", "commit", "evict"}

Idle == CHOOSE c \in Calls : TRUE

TypeOK ==
    /\ active \in [Users -> BOOLEAN]
    /\ sess \in [Jtis -> {"none", "open", "revoked"}]
    /\ role \in [RoleIds -> {"none", "live", "gone"}]
    /\ perms \subseteq Perms
    /\ held \in [Users -> SUBSET RoleIds]
    /\ grants \in [RoleIds -> SUBSET Perms]
    /\ cache \in [Users -> Entry \cup {None}]
    /\ pc \in [Workers -> Points]
    /\ call \in [Workers -> Call]
    /\ view \in [Workers -> View]
    /\ clean \in [Workers -> BOOLEAN]
    /\ dirty \in [Workers -> BOOLEAN]
    /\ rev \in [Workers -> SUBSET Jtis]
    /\ liveAt \in [Workers -> BOOLEAN]
    /\ changes \in 0..MaxChanges

Init ==
    /\ active = [u \in Users |-> TRUE]
    /\ sess = [j \in Jtis |-> IF j \in SignedIn THEN "open" ELSE "none"]
    /\ role = [ro \in RoleIds |-> IF SeedGrants[ro] # {} THEN "live"
                                  ELSE "none"]
    /\ perms = SeedPerms
    /\ held = SeedHeld
    /\ grants = SeedGrants
    /\ cache = [u \in Users |-> None]
    /\ pc = [w \in Workers |-> "idle"]
    /\ call = [w \in Workers |-> Idle]
    /\ view = [w \in Workers |-> NoView]
    /\ clean = [w \in Workers |-> TRUE]
    /\ dirty = [w \in Workers |-> FALSE]
    /\ rev = [w \in Workers |-> {}]
    /\ liveAt = [w \in Workers |-> TRUE]
    /\ changes = 0

-----------------------------------------------------------------------------
(***************************************************************************)
(* Serving a request.                                                      *)
(***************************************************************************)
actor(w) == Owner[call[w].jti]

Goto(w, point) == pc' = [pc EXCEPT ![w] = point]

\* The request is answered; the transaction, if one is open, is rolled back.
Finish(w) ==
    /\ Goto(w, "idle")
    /\ call' = [call EXCEPT ![w] = Idle]
    /\ view' = [view EXCEPT ![w] = NoView]
    /\ clean' = [clean EXCEPT ![w] = TRUE]
    /\ dirty' = [dirty EXCEPT ![w] = FALSE]
    /\ rev' = [rev EXCEPT ![w] = {}]
    /\ liveAt' = [liveAt EXCEPT ![w] = TRUE]

Refused(w) == Finish(w) /\ UNCHANGED <<tables, cache, changes>>

\* Two requests create the same session or the same role.
SameId(c, d) ==
    \/ c.op = "login" /\ d.op = "login" /\ c.jti = d.jti
    \/ c.op = "create_role" /\ d.op = "create_role" /\ c.role = d.role

\* A token can be presented once its session was created.  A login creates
\* a session, and create_role a role, under an id of its own.
Arrive(w, c) ==
    /\ pc[w] = "idle"
    /\ (c.op = "login") = (sess[c.jti] = "none")
    /\ c.op = "create_role" => role[c.role] = "none"
    /\ \A s \in Workers : pc[s] # "idle" => ~SameId(call[s], c)
    /\ c.op # "me" => changes < MaxChanges
    /\ changes' = IF c.op = "me" THEN changes ELSE changes + 1
    /\ Goto(w, IF c.op = "login" THEN "check" ELSE "session")
    /\ call' = [call EXCEPT ![w] = c]
    /\ liveAt' = [liveAt EXCEPT ![w] = c.op # "login" => sess[c.jti] = "open"]
    /\ UNCHANGED <<tables, cache, view, clean, dirty, rev>>

AuthSessionCached(w) ==
    /\ pc[w] = "session"
    /\ \/ /\ sess[call[w].jti] = "open" \/ cache[actor(w)] # None
          /\ Goto(w, "get")
          /\ UNCHANGED <<tables, cache, locals, changes>>
       \/ /\ sess[call[w].jti] # "open" /\ cache[actor(w)] = None
          /\ Refused(w)

\* The session comes from the database, whatever is cached.
AuthSession(w) ==
    /\ pc[w] = "session"
    /\ \/ /\ sess[call[w].jti] = "open"
          /\ Goto(w, "get")
          /\ UNCHANGED <<tables, cache, locals, changes>>
       \/ sess[call[w].jti] # "open" /\ Refused(w)

CacheGetSliding(w) ==
    /\ pc[w] = "get"
    /\ LET e == cache[actor(w)] IN
       \/ /\ e # None
          /\ view' = [view EXCEPT ![w] = e.view]
          /\ cache' = [cache EXCEPT ![actor(w)].ttl = TTL]
          /\ Goto(w, "decide")
       \/ e = None /\ Goto(w, "row") /\ UNCHANGED <<view, cache>>
    /\ UNCHANGED <<tables, call, clean, dirty, rev, liveAt, changes>>

\* _load_user: a hit is decoded, a miss goes to the database.
CacheGet(w) ==
    /\ pc[w] = "get"
    /\ LET e == cache[actor(w)] IN
       \/ /\ e # None
          /\ view' = [view EXCEPT ![w] = e.view]
          /\ Goto(w, "decide")
       \/ e = None /\ Goto(w, "row") /\ UNCHANGED view
    /\ UNCHANGED <<tables, cache, call, clean, dirty, rev, liveAt, changes>>

\* users.get_by_id is three SELECTs, each with a snapshot of its own: the
\* row, its roles, and the permissions of those roles (lazy="selectin").
LoadRow(w) ==
    /\ pc[w] = "row"
    /\ view' = [view EXCEPT ![w].active = active[actor(w)]]
    /\ Goto(w, "roles")
    /\ UNCHANGED <<tables, cache, call, clean, dirty, rev, liveAt, changes>>

LoadRoles(w) ==
    /\ pc[w] = "roles"
    /\ view' = [view EXCEPT ![w].roles = held[actor(w)]]
    /\ Goto(w, "perms")
    /\ UNCHANGED <<tables, cache, call, clean, dirty, rev, liveAt, changes>>

LoadPerms(w) ==
    /\ pc[w] = "perms"
    /\ view' = [view EXCEPT ![w].perms = [ro \in RoleIds |->
                    IF ro \in view[w].roles THEN grants[ro] ELSE {}]]
    /\ Goto(w, "set")
    /\ UNCHANGED <<tables, cache, call, clean, dirty, rev, liveAt, changes>>

CacheSetLonger(w) ==
    /\ pc[w] = "set"
    /\ cache' = [cache EXCEPT ![actor(w)] =
                    [view |-> view[w], ttl |-> TTL + 1, clean |-> clean[w]]]
    /\ Goto(w, "decide")
    /\ UNCHANGED <<tables, locals, changes>>

\* What was read goes into the cache, whatever happened since.
CacheSet(w) ==
    /\ pc[w] = "set"
    /\ cache' = [cache EXCEPT ![actor(w)] =
                    [view |-> view[w], ttl |-> TTL, clean |-> clean[w]]]
    /\ Goto(w, "decide")
    /\ UNCHANGED <<tables, locals, changes>>

\* User.has_permission on the entity authentication returned.
has_permission(u, v, code) ==
    u \in Superusers \/ \E ro \in v.roles : code \in v.perms[ro]

\* get_current_user and require_permission; GET /auth/me ends here.
Decide(w) ==
    /\ pc[w] = "decide"
    /\ LET passes == /\ view[w].active
                     /\ \A code \in Demands(call[w].op) :
                           has_permission(actor(w), view[w], code)
       IN \/ passes /\ call[w].op # "me" /\ Goto(w, "check")
                    /\ UNCHANGED <<tables, cache, locals, changes>>
          \/ (~passes \/ call[w].op = "me") /\ Refused(w)

-----------------------------------------------------------------------------
(***************************************************************************)
(* The use cases: what they read, what they write, what they commit.       *)
(***************************************************************************)
\* The lookups that end in 404 or 409, or, for a ban or unban that changes
\* nothing, in an early return.
Accepts(w) ==
    LET c == call[w] IN
    CASE c.op \in {"assign_role", "delete_role", "revoke_permission"} ->
             role[c.role] = "live"
      [] c.op = "grant_permission" -> role[c.role] = "live" /\ c.perm \in perms
      [] c.op = "create_permission" -> c.perm \notin perms
      [] c.op = "ban" -> /\ c.user # actor(w) /\ c.user \notin Superusers
                         /\ active[c.user]
      [] c.op = "unban" -> ~active[c.user]
      [] c.op = "login" -> active[actor(w)]
      [] OTHER -> TRUE

\* assign_role and grant_permission look for the link first.
LinkExists(c) ==
    \/ c.op = "assign_role" /\ c.role \in held[c.user]
    \/ c.op = "grant_permission" /\ c.perm \in grants[c.role]

Check(w) ==
    /\ pc[w] = "check"
    /\ \/ /\ Accepts(w)
          /\ Goto(w, IF LinkExists(call[w]) THEN "commit" ELSE "write")
          /\ UNCHANGED <<tables, cache, locals, changes>>
       \/ ~Accepts(w) /\ Refused(w)

UserLinkOps == {"assign_role", "revoke_role"}
RoleLinkOps == {"grant_permission", "revoke_permission"}

\* Two writes touch the same row, or one removes the role another refers to.
Collide(c, d) ==
    \/ c.op \in UserLinkOps /\ d.op \in UserLinkOps
          /\ c.user = d.user /\ c.role = d.role
    \/ c.op \in RoleLinkOps /\ d.op \in RoleLinkOps
          /\ c.role = d.role /\ c.perm = d.perm
    \/ "delete_role" \in {c.op, d.op} /\ c.role = d.role
          /\ {c.op, d.op} \subseteq UserLinkOps \cup RoleLinkOps
                                    \cup {"delete_role"}
    \/ c.op = "create_role" /\ d.op = "create_role"
          /\ Name[c.role] = Name[d.role]
    \/ {c.op, d.op} = {"create_role", "delete_role"}
          /\ Name[c.role] = Name[d.role]
    \/ c.op = "create_permission" /\ d.op = "create_permission"
          /\ c.perm = d.perm
    \/ c.op \in ModerationOps /\ d.op \in ModerationOps /\ c.user = d.user

ViolatesPrimaryKeyOnly(c) ==
    \/ c.op \in UserLinkOps \cup RoleLinkOps /\ LinkExists(c)
    \/ c.op = "create_role"
          /\ \E ro \in RoleIds : role[ro] = "live" /\ Name[ro] = Name[c.role]
    \/ c.op = "create_permission" /\ c.perm \in perms

ViolatesNoName(c) ==
    \/ c.op \in {"assign_role", "grant_permission"}
          /\ (LinkExists(c) \/ role[c.role] # "live")
    \/ c.op = "create_permission" /\ c.perm \in perms

\* The INSERT breaks a primary key, a unique name or a foreign key.
Violates(c) ==
    \/ c.op \in {"assign_role", "grant_permission"}
          /\ (LinkExists(c) \/ role[c.role] # "live")
    \/ c.op = "create_role"
          /\ \E ro \in RoleIds : role[ro] = "live" /\ Name[ro] = Name[c.role]
    \/ c.op = "create_permission" /\ c.perm \in perms

\* Sessions the write revokes: those a ban finds, or the caller's own.
Revokes(c) ==
    CASE c.op = "ban" -> {j \in Jtis : sess[j] = "open" /\ Owner[j] = c.user}
      [] c.op = "logout" -> {c.jti}
      [] OTHER -> {}

Write(w) ==
    /\ pc[w] = "write"
    /\ \A s \in Workers \ {w} : dirty[s] => ~Collide(call[w], call[s])
    /\ \/ /\ ~Violates(call[w])
          /\ dirty' = [dirty EXCEPT ![w] = TRUE]
          /\ rev' = [rev EXCEPT ![w] = Revokes(call[w])]
          /\ Goto(w, "commit")
          /\ UNCHANGED <<tables, cache, call, view, clean, liveAt, changes>>
       \/ Violates(call[w]) /\ Refused(w)

\* Requests that are loading the account u.
Loading(u) == {s \in Workers : pc[s] \in {"roles", "perms", "set"}
                               /\ actor(s) = u}

\* After the commit: the use cases with a cache.delete go on to it, the
\* others answer.
Committed(w, op) ==
    /\ pc[w] = "commit" /\ call[w].op = op
    /\ IF op \in EvictOps
       THEN /\ Goto(w, "evict")
            /\ clean' = [s \in Workers |->
                   IF s \in Loading(call[w].user) /\ dirty[w]
                   THEN FALSE ELSE clean[s]]
            /\ dirty' = [dirty EXCEPT ![w] = FALSE]
            /\ UNCHANGED <<call, view, rev, liveAt>>
       ELSE Finish(w)
    /\ UNCHANGED <<cache, changes>>

\* Nothing was inserted if the link was found to be there.
Inserted(w, links, x) == IF dirty[w] THEN links \cup {x} ELSE links

AssignRoleToUser(w) ==
    /\ Committed(w, "assign_role")
    /\ held' = [held EXCEPT ![call[w].user] = Inserted(w, @, call[w].role)]
    /\ UNCHANGED <<active, sess, role, perms, grants>>

RevokeRoleFromUser(w) ==
    /\ Committed(w, "revoke_role")
    /\ held' = [held EXCEPT ![call[w].user] = @ \ {call[w].role}]
    /\ UNCHANGED <<active, sess, role, perms, grants>>

CreateRole(w) ==
    /\ Committed(w, "create_role")
    /\ role' = [role EXCEPT ![call[w].role] = "live"]
    /\ UNCHANGED <<active, sess, perms, held, grants>>

\* The links of the role go with it (ON DELETE CASCADE).
DeleteRole(w) ==
    /\ Committed(w, "delete_role")
    /\ role' = [role EXCEPT ![call[w].role] = "gone"]
    /\ held' = [u \in Users |-> held[u] \ {call[w].role}]
    /\ grants' = [grants EXCEPT ![call[w].role] = {}]
    /\ UNCHANGED <<active, sess, perms>>

GrantPermissionToRole(w) ==
    /\ Committed(w, "grant_permission")
    /\ grants' = [grants EXCEPT ![call[w].role] = Inserted(w, @, call[w].perm)]
    /\ UNCHANGED <<active, sess, role, perms, held>>

RevokePermissionFromRole(w) ==
    /\ Committed(w, "revoke_permission")
    /\ grants' = [grants EXCEPT ![call[w].role] = @ \ {call[w].perm}]
    /\ UNCHANGED <<active, sess, role, perms, held>>

CreatePermission(w) ==
    /\ Committed(w, "create_permission")
    /\ perms' = perms \cup {call[w].perm}
    /\ UNCHANGED <<active, sess, role, held, grants>>

AfterRevoking(w) ==
    [j \in Jtis |-> IF j \in rev[w] THEN "revoked" ELSE sess[j]]

BanUser(w) ==
    /\ Committed(w, "ban")
    /\ active' = [active EXCEPT ![call[w].user] = FALSE]
    /\ sess' = AfterRevoking(w)
    /\ UNCHANGED <<role, perms, held, grants>>

UnbanUser(w) ==
    /\ Committed(w, "unban")
    /\ active' = [active EXCEPT ![call[w].user] = TRUE]
    /\ UNCHANGED <<sess, role, perms, held, grants>>

Logout(w) ==
    /\ Committed(w, "logout")
    /\ sess' = AfterRevoking(w)
    /\ UNCHANGED <<active, role, perms, held, grants>>

Login(w) ==
    /\ Committed(w, "login")
    /\ sess' = [sess EXCEPT ![call[w].jti] = "open"]
    /\ UNCHANGED <<active, role, perms, held, grants>>

Evict(w) ==
    /\ pc[w] = "evict"
    /\ cache' = [cache EXCEPT ![call[w].user] = None]
    /\ Finish(w)
    /\ UNCHANGED <<tables, changes>>

\* The worker dies; a transaction is rolled back, an eviction is lost.
Crash(w) ==
    /\ "crash" \in Faults /\ pc[w] # "idle"
    /\ cache' = IF pc[w] = "evict" /\ cache[call[w].user] # None
                THEN [cache EXCEPT ![call[w].user].clean = FALSE]
                ELSE cache
    /\ Finish(w)
    /\ UNCHANGED <<tables, changes>>

\* Redis drops an entry when its time has passed (SET ... EX).
Tick ==
    /\ \E u \in Users : cache[u] # None
    /\ cache' = [u \in Users |->
          IF cache[u] = None \/ cache[u].ttl = 1 THEN None
          ELSE [cache[u] EXCEPT !.ttl = @ - 1]]
    /\ UNCHANGED <<tables, pc, locals, changes>>

Work(w) ==
    \/ AuthSession(w) \/ CacheGet(w) \/ LoadRow(w) \/ LoadRoles(w)
    \/ LoadPerms(w) \/ CacheSet(w) \/ Decide(w) \/ Check(w) \/ Write(w)
    \/ AssignRoleToUser(w) \/ RevokeRoleFromUser(w) \/ CreateRole(w)
    \/ DeleteRole(w) \/ GrantPermissionToRole(w)
    \/ RevokePermissionFromRole(w) \/ CreatePermission(w) \/ BanUser(w)
    \/ UnbanUser(w) \/ Logout(w) \/ Login(w) \/ Evict(w)

Next ==
    \/ \E w \in Workers : \/ \E c \in Calls : Arrive(w, c)
                          \/ Work(w)
                          \/ Crash(w)
    \/ Tick

Spec == Init /\ [][Next]_vars

\* Every request is carried on with, and time passes.  Nothing is assumed of
\* clients and crashes.
FairSpec == Spec /\ (\A w \in Workers : WF_vars(Work(w))) /\ WF_vars(Tick)

-----------------------------------------------------------------------------
\* A request whose session was already revoked when it arrived gets no
\* further than the session check, although the user it belongs to may well
\* be cached as active (authenticate_usecase: logout and soft-delete revoke
\* access immediately).
SessionEndsAccess ==
    \A w \in Workers : ~liveAt[w] => pc[w] = "session"

\* The cached roles and is_active of an account agree with the database
\* unless the change is still waiting for its eviction, the eviction was
\* lost in a crash, or the entry was loaded while the change was committed
\* and stored after the eviction.  Roles deleted altogether are set aside:
\* delete_role evicts nobody.
StaleOnlyByLateSet ==
    \A u \in Users :
        /\ cache[u] # None /\ cache[u].clean
        /\ \A w \in Workers : pc[w] = "evict" => call[w].user # u
        => /\ cache[u].view.active = active[u]
           /\ {ro \in cache[u].view.roles : role[ro] = "live"} = held[u]

\* A link never refers to a role or permission that is not there, although
\* the use cases look the role up before they insert and hold no lock on it.
NoOrphanLinks ==
    /\ \A u \in Users : \A ro \in held[u] : role[ro] = "live"
    /\ \A ro \in RoleIds : grants[ro] # {} => role[ro] = "live"
    /\ \A ro \in RoleIds : grants[ro] \subseteq perms

\* A role name belongs to one role, although CreateRoleUseCase looks no name
\* up before it inserts: of two requests that create the same name together,
\* or one that creates the name of a role being deleted, one waits for the
\* other and at most one succeeds.
NamesUnique ==
    \A x, y \in RoleIds :
        role[x] = "live" /\ role[y] = "live" /\ Name[x] = Name[y] => x = y

Effective(u, code) == \E ro \in held[u] : code \in grants[ro]
Cached(u, code) ==
    cache[u] # None /\ \E ro \in cache[u].view.roles :
                           code \in cache[u].view.perms[ro]

\* A permission that an account has lost for good, by whichever change, is
\* in the end gone from the cache too, however often the entry is used.
RevokedEventuallyGone ==
    \A u \in Users : \A code \in Perms :
        <>[]~Effective(u, code) => <>[]~Cached(u, code)

\* What AssignRoleToUserUseCase and AuthenticateUseCase promise, that a
\* change of an account takes effect on the next request: once no eviction
\* is outstanding, the cached account is the one in the database.
ChangeVisible ==
    \A u \in Users :
        /\ cache[u] # None
        /\ \A w \in Workers : pc[w] # "evict"
        => /\ cache[u].view.active = active[u]
           /\ {ro \in cache[u].view.roles : role[ro] = "live"} = held[u]

=============================================================================
