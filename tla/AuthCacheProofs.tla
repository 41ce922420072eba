--------------------------- MODULE AuthCacheProofs --------------------------
(***************************************************************************)
(* Who a request acts as and what the tables of roles and permissions keep *)
(* to, for any number of workers, accounts, sessions, roles and calls and  *)
(* any time to live.                                                       *)
(*                                                                         *)
(* AccessTypes       the type invariant.                                   *)
(* RevokedIsShutOut  a session revoked before a request arrives gets it    *)
(*                   nowhere, whatever is cached.                          *)
(* LinksAreWhole     no link refers to a role or permission that is gone.  *)
(* RoleNamesUnique   two roles never have the same name.                   *)
(* StaleOnlyByRace   a cached account is out of date in three ways only.   *)
(*                                                                         *)
(* They are parts of one invariant, AccessInv: a login or a create_role    *)
(* works on an id of its own, what a transaction has looked up or inserted *)
(* holds until it commits because those it collides with wait for it, and  *)
(* a view that is being loaded fits the tables until they change under it. *)
(***************************************************************************)
EXTENDS AuthCache, TLAPS

-----------------------------------------------------------------------------
(***************************************************************************)
(* The inductive invariant.                                                *)
(***************************************************************************)
Busy(w) == pc[w] # "idle"

\* A worker serves a call of this instance, writes in its last steps only,
\* and has something to commit unless it found its link there.
Serves(w) ==
    /\ call[w] \in Calls
    /\ dirty[w] => pc[w] = "commit"
    /\ pc[w] = "commit" /\ ~dirty[w] =>
          call[w].op \in {"assign_role", "grant_permission"}
    /\ pc[w] = "evict" => call[w].op \in EvictOps

\* The session of a login does not exist before its commit, and any other
\* session a worker has in hand does.
SessionsKnown(w) ==
    /\ Busy(w) => ((call[w].op = "login") <=> (sess[call[w].jti] = "none"))
    /\ \A j \in rev[w] : sess[j] # "none"
    /\ ~liveAt[w] => pc[w] = "session" /\ sess[call[w].jti] = "revoked"

\* What a worker has looked up or inserted still holds when it commits.
Written(w) ==
    /\ Busy(w) /\ call[w].op = "create_role" => role[call[w].role] = "none"
    /\ pc[w] \in {"write", "commit"} /\ call[w].op = "delete_role" =>
          role[call[w].role] # "none"
    /\ pc[w] \in {"write", "commit"} /\ call[w].op = "grant_permission" =>
          call[w].perm \in perms
    /\ dirty[w] /\ call[w].op \in {"assign_role", "grant_permission"} =>
          role[call[w].role] = "live"
    /\ dirty[w] /\ call[w].op = "create_role" =>
          \A ro \in RoleIds : role[ro] = "live" => Name[ro] # Name[call[w].role]

\* Two workers create different things, and no two of them have written the
\* same row.
Apart(w, s) ==
    /\ Busy(w) /\ Busy(s) => ~SameId(call[w], call[s])
    /\ dirty[w] /\ dirty[s] => ~Collide(call[w], call[s])

\* A view agrees with the tables on what it has loaded of u.
Agrees(v, u) == /\ v.active = active[u]
                /\ {ro \in v.roles : role[ro] = "live"} = held[u]

\* Roles that are looked at have existed; an account that is being loaded
\* and has not changed since is loaded as it is.
ViewFits(w) ==
    /\ \A ro \in view[w].roles : role[ro] # "none"
    /\ clean[w] =>
          /\ pc[w] = "roles" => view[w].active = active[actor(w)]
          /\ pc[w] \in {"perms", "set"} => Agrees(view[w], actor(w))

EntryFits(u) ==
    cache[u] # None =>
        /\ \A ro \in cache[u].view.roles : role[ro] # "none"
        /\ cache[u].clean /\ (\A w \in Workers : pc[w] = "evict" =>
                                                     call[w].user # u)
              => Agrees(cache[u].view, u)

Served == \A w \in Workers : Serves(w)
Known == \A w \in Workers : SessionsKnown(w)
Holds == \A w \in Workers : Written(w)
Separate == \A w, s \in Workers : w # s => Apart(w, s)
Fits == (\A w \in Workers : ViewFits(w)) /\ (\A u \in Users : EntryFits(u))

AccessInv == TypeOK /\ Served /\ Known /\ Holds /\ Separate /\ NoOrphanLinks
                    /\ NamesUnique /\ Fits

-----------------------------------------------------------------------------
(***************************************************************************)
(* Types.                                                                  *)
(***************************************************************************)
LEMMA IdleCall == Idle \in Calls
BY CallAssumption DEF Idle

LEMMA CallFields ==
    ASSUME NEW c \in Calls
    PROVE  /\ c \in Call /\ c.op \in Ops /\ c.jti \in Jtis
           /\ Owner[c.jti] \in Users
           /\ c.op \in EvictOps => c.user \in Users
           /\ c.op \in {"assign_role", "revoke_role", "create_role",
                        "delete_role", "grant_permission",
                        "revoke_permission"} => c.role \in RoleIds
           /\ c.op \in {"grant_permission", "revoke_permission",
                        "create_permission"} => c.perm \in Perms
BY CallAssumption, OwnerAssumption DEF Call, AdminOps

LEMMA NoViewType == NoView \in View /\ NoView.roles = {}
BY DEF NoView, View

\* The values that belong to requests.
LocalTypes ==
    /\ pc \in [Workers -> Points]
    /\ call \in [Workers -> Call]
    /\ view \in [Workers -> View]
    /\ clean \in [Workers -> BOOLEAN]
    /\ dirty \in [Workers -> BOOLEAN]
    /\ rev \in [Workers -> SUBSET Jtis]
    /\ liveAt \in [Workers -> BOOLEAN]

LEMMA TypeParts ==
    /\ TypeOK => LocalTypes
    /\ TypeOK /\ LocalTypes' /\ UNCHANGED <<tables, cache, changes>> => TypeOK'
    /\ TypeOK /\ LocalTypes' /\ UNCHANGED <<tables, changes>>
          /\ cache' \in [Users -> Entry \cup {None}] => TypeOK'
BY DEF TypeOK, LocalTypes, tables

\* An answered request leaves nothing behind.
LEMMA FinishEffect ==
    ASSUME LocalTypes, NEW w \in Workers, Finish(w)
    PROVE  /\ LocalTypes'
           /\ pc'[w] = "idle" /\ call'[w] = Idle /\ view'[w] = NoView
           /\ clean'[w] = TRUE /\ dirty'[w] = FALSE /\ rev'[w] = {}
           /\ liveAt'[w] = TRUE
           /\ \A s \in Workers \ {w} :
                 /\ pc'[s] = pc[s] /\ call'[s] = call[s] /\ view'[s] = view[s]
                 /\ clean'[s] = clean[s] /\ dirty'[s] = dirty[s]
                 /\ rev'[s] = rev[s] /\ liveAt'[s] = liveAt[s]
<1>1. Idle \in Call /\ NoView \in View
  BY IdleCall, CallFields, NoViewType
<1>. QED BY <1>1 DEF Finish, Goto, LocalTypes, Points

LEMMA ViewEffect ==
    ASSUME LocalTypes, NEW w \in Workers, NEW v \in View,
           view' = [view EXCEPT ![w] = v]
    PROVE  /\ view' \in [Workers -> View] /\ view'[w] = v
           /\ \A s \in Workers \ {w} : view'[s] = view[s]
BY DEF LocalTypes

LEMMA LoadedViews ==
    ASSUME TypeOK, NEW w \in Workers, NEW u \in Users
    PROVE  /\ [view[w] EXCEPT !.active = active[u]] \in View
           /\ [view[w] EXCEPT !.roles = held[u]] \in View
           /\ [view[w] EXCEPT !.perms = [ro \in RoleIds |->
                  IF ro \in view[w].roles THEN grants[ro] ELSE {}]] \in View
BY DEF TypeOK, View

\* What a step of w may do to the requests of other workers: at most find
\* that what they have loaded has changed.
Others(w) ==
    \A s \in Workers \ {w} :
        /\ pc'[s] = pc[s] /\ call'[s] = call[s] /\ view'[s] = view[s]
        /\ dirty'[s] = dirty[s] /\ rev'[s] = rev[s]
        /\ liveAt'[s] = liveAt[s] /\ (clean'[s] => clean[s])

LEMMA RefusedEffect ==
    ASSUME TypeOK, NEW w \in Workers, Refused(w)
    PROVE  TypeOK' /\ Others(w) /\ UNCHANGED <<tables, cache, changes>>
BY TypeParts, FinishEffect DEF Refused, Others

LEMMA ArriveType ==
    ASSUME TypeOK, NEW w \in Workers, NEW c \in Calls, Arrive(w, c)
    PROVE  TypeOK' /\ Others(w)
<1>1. c \in Call
  BY CallFields
<1>2. changes' \in 0..MaxChanges
  BY TTLAssumption DEF Arrive, TypeOK
<1>3. LocalTypes' /\ Others(w)
  BY <1>1 DEF Arrive, Goto, TypeOK, LocalTypes, Others, Points
<1>. QED BY <1>2, <1>3 DEF Arrive, TypeOK, LocalTypes, tables

\* The steps before a use case writes.
LEMMA AuthType ==
    ASSUME TypeOK, Served, NEW w \in Workers,
           \/ AuthSession(w) \/ CacheGet(w) \/ LoadRow(w) \/ LoadRoles(w)
           \/ LoadPerms(w) \/ Decide(w) \/ Check(w) \/ Write(w)
    PROVE  TypeOK' /\ Others(w) /\ UNCHANGED <<tables, cache, changes>>
<1>0. LocalTypes /\ call[w] \in Calls /\ actor(w) \in Users
  BY TypeParts, CallFields DEF Served, Serves, actor
<1>1. ASSUME NEW p \in Points, Goto(w, p),
             UNCHANGED <<tables, cache, locals, changes>>
      PROVE  TypeOK' /\ Others(w)
  BY <1>1 DEF Goto, TypeOK, tables, locals, Others
<1>2. ASSUME NEW p \in Points, NEW v \in View, Goto(w, p),
             view' = [view EXCEPT ![w] = v],
             UNCHANGED <<tables, cache, call, clean, dirty, rev, liveAt,
                         changes>>
      PROVE  TypeOK' /\ Others(w)
  <2>1. LocalTypes' /\ Others(w)
    BY <1>0, <1>2, ViewEffect DEF Goto, LocalTypes, Others
  <2>. QED BY <1>2, <2>1, TypeParts
<1>3. CASE AuthSession(w)
  BY <1>1, <1>3, RefusedEffect DEF AuthSession, Points
<1>4. CASE CacheGet(w)
  <2>1. CASE cache[actor(w)] # None /\ Goto(w, "decide")
             /\ view' = [view EXCEPT ![w] = cache[actor(w)].view]
    <3>1. cache[actor(w)].view \in View
      BY <1>0, <2>1 DEF TypeOK, Entry
    <3>. QED BY <1>2, <1>4, <2>1, <3>1 DEF CacheGet, Points
  <2>2. CASE Goto(w, "row") /\ UNCHANGED view
    BY <1>1, <1>4, <2>2 DEF CacheGet, Points, locals
  <2>. QED BY <1>4, <2>1, <2>2 DEF CacheGet
<1>5. CASE LoadRow(w)
  BY <1>0, <1>2, <1>5, LoadedViews DEF LoadRow, Points
<1>6. CASE LoadRoles(w)
  BY <1>0, <1>2, <1>6, LoadedViews DEF LoadRoles, Points
<1>7. CASE LoadPerms(w)
  BY <1>0, <1>2, <1>7, LoadedViews DEF LoadPerms, Points
<1>8. CASE Decide(w)
  BY <1>1, <1>8, RefusedEffect DEF Decide, Points
<1>9. CASE Check(w)
  BY <1>1, <1>9, RefusedEffect DEF Check, Points
<1>10. CASE Write(w)
  <2>1. CASE Refused(w)
    BY <2>1, RefusedEffect
  <2>2. CASE /\ dirty' = [dirty EXCEPT ![w] = TRUE]
             /\ rev' = [rev EXCEPT ![w] = Revokes(call[w])]
             /\ Goto(w, "commit")
             /\ UNCHANGED <<tables, cache, call, view, clean, liveAt, changes>>
    <3>1. Revokes(call[w]) \in SUBSET Jtis
      BY <1>0, CallFields DEF Revokes
    <3>2. LocalTypes' /\ Others(w)
      BY <1>0, <2>2, <3>1 DEF Goto, LocalTypes, Others, Points
    <3>. QED BY <2>2, <3>2, TypeParts
  <2>. QED BY <1>10, <2>1, <2>2 DEF Write
<1>11. UNCHANGED <<tables, cache, changes>>
  BY RefusedEffect
     DEF AuthSession, CacheGet, LoadRow, LoadRoles, LoadPerms, Decide, Check,
         Write
<1>. QED BY <1>3, <1>4, <1>5, <1>6, <1>7, <1>8, <1>9, <1>10, <1>11

\* The steps that touch the cache.
LEMMA CacheType ==
    ASSUME TypeOK, Served, NEW w \in Workers,
           CacheSet(w) \/ Evict(w) \/ Crash(w)
    PROVE  TypeOK' /\ Others(w) /\ UNCHANGED <<tables, changes>>
<1>0. /\ LocalTypes /\ call[w] \in Calls /\ actor(w) \in Users
      /\ pc[w] = "evict" => call[w].user \in Users
  BY TypeParts, CallFields DEF Served, Serves, actor
<1>1. CASE CacheSet(w)
  <2>1. [view |-> view[w], ttl |-> TTL, clean |-> clean[w]] \in Entry
    BY TTLAssumption DEF TypeOK, Entry
  <2>2. cache' \in [Users -> Entry \cup {None}]
    BY <1>0, <1>1, <2>1 DEF CacheSet, TypeOK
  <2>3. LocalTypes' /\ Others(w)
    BY <1>0, <1>1 DEF CacheSet, Goto, LocalTypes, locals, Others, Points
  <2>. QED BY <1>1, <2>2, <2>3, TypeParts DEF CacheSet
<1>2. CASE Evict(w)
  <2>1. cache' \in [Users -> Entry \cup {None}]
    BY <1>0, <1>2 DEF Evict, TypeOK
  <2>. QED BY <1>0, <1>2, <2>1, TypeParts, FinishEffect DEF Evict, Others
<1>3. CASE Crash(w)
  <2>1. cache' \in [Users -> Entry \cup {None}]
    <3>1. pc[w] = "evict" /\ cache[call[w].user] # None =>
             [cache[call[w].user] EXCEPT !.clean = FALSE] \in Entry
      <4>1. SUFFICES ASSUME cache[call[w].user] \in Entry
                     PROVE  [cache[call[w].user] EXCEPT !.clean = FALSE]
                                \in Entry
        BY <1>0 DEF TypeOK
      <4>. QED BY <4>1 DEF Entry
    <3>. QED BY <1>0, <1>3, <3>1 DEF Crash, TypeOK
  <2>2. LocalTypes' /\ Others(w)
    BY <1>0, <1>3, FinishEffect DEF Crash, Others
  <2>3. UNCHANGED <<tables, changes>>
    BY <1>3 DEF Crash
  <2>. QED BY <2>1, <2>2, <2>3, TypeParts
<1>. QED BY <1>1, <1>2, <1>3

LEMMA TickType ==
    ASSUME TypeOK, Tick
    PROVE  TypeOK'
<1>1. \A u \in Users : cache[u] # None /\ cache[u].ttl # 1 =>
         [cache[u] EXCEPT !.ttl = @ - 1] \in Entry
  BY TTLAssumption DEF TypeOK, Entry
<1>2. cache' \in [Users -> Entry \cup {None}]
  BY <1>1 DEF Tick, TypeOK
<1>3. UNCHANGED <<tables, pc, locals, changes>>
  BY DEF Tick
<1>. QED BY <1>2, <1>3 DEF TypeOK, tables, locals

LEMMA CommittedType ==
    ASSUME TypeOK, Served, NEW w \in Workers, NEW op, Committed(w, op)
    PROVE  LocalTypes' /\ Others(w)
<1>0. LocalTypes
  BY TypeParts
<1>1. CASE op \in EvictOps
  <2>1. clean' = [s \in Workers |->
                   IF s \in Loading(call[w].user) /\ dirty[w]
                   THEN FALSE ELSE clean[s]]
    BY <1>1 DEF Committed
  <2>2. clean' \in [Workers -> BOOLEAN] /\ \A s \in Workers : clean'[s] => clean[s]
    BY <1>0, <2>1 DEF LocalTypes
  <2>. QED BY <1>0, <1>1, <2>2 DEF Committed, Goto, LocalTypes, Others, Points
<1>2. CASE op \notin EvictOps
  BY <1>0, <1>2, FinishEffect DEF Committed, Others
<1>. QED BY <1>1, <1>2

Commits(w) ==
    \/ AssignRoleToUser(w) \/ RevokeRoleFromUser(w) \/ CreateRole(w)
    \/ DeleteRole(w) \/ GrantPermissionToRole(w)
    \/ RevokePermissionFromRole(w) \/ CreatePermission(w) \/ BanUser(w)
    \/ UnbanUser(w) \/ Logout(w) \/ Login(w)

LEMMA CommitType ==
    ASSUME TypeOK, Served, NEW w \in Workers, Commits(w)
    PROVE  TypeOK' /\ Others(w) /\ UNCHANGED <<cache, changes>>
<1>0. LocalTypes' /\ Others(w) /\ UNCHANGED <<cache, changes>>
  BY CommittedType
     DEF Commits, AssignRoleToUser, RevokeRoleFromUser, CreateRole,
         DeleteRole, GrantPermissionToRole, RevokePermissionFromRole,
         CreatePermission, BanUser, UnbanUser, Logout, Login, Committed
<1>1. call[w] \in Calls
  BY DEF Served, Serves
<1>2. CASE AssignRoleToUser(w) \/ RevokeRoleFromUser(w)
  <2>1. call[w].user \in Users /\ call[w].role \in RoleIds
    BY <1>1, <1>2, CallFields
       DEF AssignRoleToUser, RevokeRoleFromUser, Committed, EvictOps
  <2>2. held' \in [Users -> SUBSET RoleIds]
    BY <1>2, <2>1 DEF AssignRoleToUser, RevokeRoleFromUser, Inserted, TypeOK
  <2>. QED BY <1>0, <1>2, <2>2
           DEF AssignRoleToUser, RevokeRoleFromUser, TypeOK, LocalTypes
<1>3. CASE CreateRole(w) \/ DeleteRole(w)
  <2>1. role' \in [RoleIds -> {"none", "live", "gone"}]
    BY <1>3 DEF CreateRole, DeleteRole, TypeOK
  <2>2. held' \in [Users -> SUBSET RoleIds]
    BY <1>3 DEF CreateRole, DeleteRole, TypeOK
  <2>3. grants' \in [RoleIds -> SUBSET Perms]
    BY <1>3 DEF CreateRole, DeleteRole, TypeOK
  <2>4. UNCHANGED <<active, sess, perms>>
    BY <1>3 DEF CreateRole, DeleteRole
  <2>. QED BY <1>0, <2>1, <2>2, <2>3, <2>4 DEF TypeOK, LocalTypes
<1>4. CASE GrantPermissionToRole(w) \/ RevokePermissionFromRole(w)
  <2>1. call[w].perm \in Perms /\ call[w].role \in RoleIds
    BY <1>1, <1>4, CallFields
       DEF GrantPermissionToRole, RevokePermissionFromRole, Committed
  <2>2. grants' \in [RoleIds -> SUBSET Perms]
    BY <1>4, <2>1
       DEF GrantPermissionToRole, RevokePermissionFromRole, Inserted, TypeOK
  <2>. QED BY <1>0, <1>4, <2>2
       DEF GrantPermissionToRole, RevokePermissionFromRole, TypeOK, LocalTypes
<1>5. CASE CreatePermission(w)
  <2>1. call[w].perm \in Perms
    BY <1>1, <1>5, CallFields DEF CreatePermission, Committed
  <2>. QED BY <1>0, <1>5, <2>1 DEF CreatePermission, TypeOK, LocalTypes
<1>6. CASE BanUser(w) \/ UnbanUser(w)
  <2>1. active' \in [Users -> BOOLEAN]
    BY <1>6 DEF BanUser, UnbanUser, TypeOK
  <2>2. sess' \in [Jtis -> {"none", "open", "revoked"}]
    BY <1>6 DEF BanUser, UnbanUser, AfterRevoking, TypeOK
  <2>. QED BY <1>0, <1>6, <2>1, <2>2 DEF BanUser, UnbanUser, TypeOK, LocalTypes
<1>7. CASE Logout(w) \/ Login(w)
  <2>1. sess' \in [Jtis -> {"none", "open", "revoked"}]
    BY <1>7 DEF Logout, Login, AfterRevoking, TypeOK
  <2>. QED BY <1>0, <1>7, <2>1 DEF Logout, Login, TypeOK, LocalTypes
<1>. QED BY <1>0, <1>2, <1>3, <1>4, <1>5, <1>6, <1>7 DEF Commits

-----------------------------------------------------------------------------
(***************************************************************************)
(* What a step of w may do to the tables.                                  *)
(***************************************************************************)
\* Sessions are created by a login and revoked for good.
SessStep(w) ==
    \A j \in Jtis :
        /\ sess[j] = "revoked" => sess'[j] = "revoked"
        /\ sess[j] # "none" => sess'[j] # "none"
        /\ sess[j] = "none" /\ sess'[j] # "none" =>
              Busy(w) /\ call[w].op = "login" /\ call[w].jti = j

\* Roles are created and deleted for good, by a transaction that wrote.
RoleStep(w) ==
    \A ro \in RoleIds :
        /\ role[ro] = "gone" => role'[ro] = "gone"
        /\ role[ro] = "live" => role'[ro] \in {"live", "gone"}
        /\ role[ro] = "live" /\ role'[ro] = "gone" =>
              /\ dirty[w] /\ Busy(w)
              /\ call[w].op = "delete_role" /\ call[w].role = ro
        /\ role[ro] = "none" => role'[ro] \in {"none", "live"}
        /\ role[ro] = "none" /\ role'[ro] = "live" =>
              /\ dirty[w] /\ Busy(w)
              /\ call[w].op = "create_role" /\ call[w].role = ro

\* The commit of w changes the account u.
Touches(w, u) == /\ pc[w] = "commit" /\ pc'[w] = "evict" /\ dirty[w]
                 /\ call[w].op \in EvictOps /\ call[w].user = u

\* Otherwise an account loses at most the roles that are deleted.
LinkStep(w) ==
    \A u \in Users : ~Touches(w, u) =>
        /\ active'[u] = active[u]
        /\ held'[u] = {ro \in held[u] : role'[ro] = "live"}

Effect(w) == SessStep(w) /\ RoleStep(w) /\ LinkStep(w) /\ perms \subseteq perms'

LEMMA QuietEffect ==
    ASSUME TypeOK, NoOrphanLinks, UNCHANGED tables, NEW w
    PROVE  Effect(w)
<1>1. SessStep(w) /\ RoleStep(w) /\ perms \subseteq perms'
  BY DEF tables, SessStep, RoleStep, TypeOK
<1>2. ASSUME NEW u \in Users PROVE held[u] = {ro \in held[u] : role[ro] = "live"}
  BY <1>2 DEF NoOrphanLinks
<1>3. LinkStep(w)
  BY <1>2 DEF LinkStep, tables
<1>. QED BY <1>1, <1>3 DEF Effect

\* A role that a view or a link refers to stays or is deleted.
LEMMA SeenRoles ==
    ASSUME NEW w, RoleStep(w), NEW R \in SUBSET RoleIds,
           \A ro \in R : role[ro] # "none", TypeOK
    PROVE  \A ro \in R : /\ role'[ro] # "none"
                         /\ role'[ro] = "live" => role[ro] = "live"
BY DEF RoleStep, TypeOK

\* A view that fits an account fits it after a step that does not touch it.
LEMMA StillAgrees ==
    ASSUME TypeOK, NEW w, Effect(w), NEW v \in View, NEW u \in Users,
           \A ro \in v.roles : role[ro] # "none",
           Agrees(v, u), ~Touches(w, u)
    PROVE  Agrees(v, u)'
<1>1. v.roles \in SUBSET RoleIds
  BY DEF View
<1>2. \A ro \in v.roles : role'[ro] = "live" => role[ro] = "live"
  BY <1>1, SeenRoles DEF Effect
<1>3. /\ active'[u] = active[u]
      /\ held'[u] = {ro \in held[u] : role'[ro] = "live"}
  BY DEF Effect, LinkStep
<1>4. held[u] = {ro \in v.roles : role[ro] = "live"} /\ v.active = active[u]
  BY DEF Agrees
<1>5. {ro \in v.roles : role'[ro] = "live"} = held'[u]
  BY <1>2, <1>3, <1>4
<1>. QED BY <1>3, <1>4, <1>5 DEF Agrees

-----------------------------------------------------------------------------
(***************************************************************************)
(* Commits.                                                                *)
(***************************************************************************)
LEMMA LinkCommits ==
    ASSUME TypeOK, Served, Holds, NoOrphanLinks, NamesUnique,
           NEW w \in Workers, AssignRoleToUser(w) \/ RevokeRoleFromUser(w)
    PROVE  Effect(w) /\ NoOrphanLinks' /\ NamesUnique'
<1>1. /\ UNCHANGED <<active, sess, role, perms, grants>>
      /\ pc[w] = "commit" /\ call[w].op \in EvictOps /\ pc'[w] = "evict"
  BY DEF AssignRoleToUser, RevokeRoleFromUser, Committed, EvictOps, Goto,
         TypeOK
<1>2. call[w].user \in Users /\ call[w].role \in RoleIds
  <2>1. call[w] \in Calls
    BY DEF Served, Serves
  <2>. QED BY <2>1, CallFields
       DEF AssignRoleToUser, RevokeRoleFromUser, Committed, EvictOps
<1>3. \A u \in Users : u # call[w].user => held'[u] = held[u]
  BY DEF AssignRoleToUser, RevokeRoleFromUser, TypeOK
<1>4. ~dirty[w] => held' = held
  <2>1. ASSUME ~dirty[w] PROVE call[w].op = "assign_role"
    BY <1>1, <2>1 DEF Served, Serves, EvictOps
  <2>2. ASSUME ~dirty[w]
        PROVE  held' = [held EXCEPT ![call[w].user] = held[call[w].user]]
    BY <2>1, <2>2
       DEF AssignRoleToUser, RevokeRoleFromUser, Committed, Inserted
  <2>. QED BY <2>2 DEF TypeOK
<1>5. \A u \in Users : \A ro \in held'[u] : role[ro] = "live"
  <2>1. CASE AssignRoleToUser(w) /\ dirty[w]
    <3>1. role[call[w].role] = "live"
      BY <2>1 DEF AssignRoleToUser, Committed, Holds, Written
    <3>2. held'[call[w].user] = held[call[w].user] \cup {call[w].role}
      BY <1>2, <2>1 DEF AssignRoleToUser, Inserted, TypeOK
    <3>. QED BY <1>3, <3>1, <3>2 DEF NoOrphanLinks
  <2>2. CASE RevokeRoleFromUser(w)
    <3>1. held'[call[w].user] \subseteq held[call[w].user]
      BY <1>2, <2>2 DEF RevokeRoleFromUser, TypeOK
    <3>. QED BY <1>3, <3>1 DEF NoOrphanLinks
  <2>. QED BY <1>4, <2>1, <2>2 DEF NoOrphanLinks
<1>6. NoOrphanLinks' /\ NamesUnique'
  BY <1>1, <1>5 DEF NoOrphanLinks, NamesUnique
<1>7. SessStep(w) /\ RoleStep(w) /\ perms \subseteq perms'
  BY <1>1 DEF SessStep, RoleStep, TypeOK
<1>8. ASSUME NEW u \in Users, ~Touches(w, u)
      PROVE  active'[u] = active[u] /\ held'[u] = held[u]
  BY <1>1, <1>3, <1>4, <1>8 DEF Touches
<1>9. LinkStep(w)
  <2>1. ASSUME NEW u \in Users, ~Touches(w, u)
        PROVE  held'[u] = {ro \in held[u] : role'[ro] = "live"}
    BY <1>1, <1>8, <2>1 DEF NoOrphanLinks
  <2>. QED BY <1>8, <2>1 DEF LinkStep
<1>. QED BY <1>6, <1>7, <1>9 DEF Effect

LEMMA RoleCommits ==
    ASSUME TypeOK, Served, Holds, NoOrphanLinks, NamesUnique,
           NEW w \in Workers, CreateRole(w) \/ DeleteRole(w)
    PROVE  Effect(w) /\ NoOrphanLinks' /\ NamesUnique'
<1>1. /\ UNCHANGED <<active, sess, perms>> /\ pc[w] = "commit"
      /\ call[w].op \in {"create_role", "delete_role"}
  BY DEF CreateRole, DeleteRole, Committed
<1>2. dirty[w] /\ Busy(w) /\ call[w].role \in RoleIds
  <2>1. call[w] \in Calls /\ dirty[w]
    BY <1>1 DEF Served, Serves
  <2>. QED BY <1>1, <2>1, CallFields DEF Busy
<1>3. CASE CreateRole(w)
  <2>1. /\ role[call[w].role] = "none" /\ role'[call[w].role] = "live"
        /\ \A ro \in RoleIds : ro # call[w].role => role'[ro] = role[ro]
        /\ UNCHANGED <<held, grants>> /\ call[w].op = "create_role"
    BY <1>2, <1>3 DEF CreateRole, Committed, Holds, Written, TypeOK
  <2>2. SessStep(w) /\ RoleStep(w) /\ perms \subseteq perms'
    BY <1>1, <1>2, <2>1 DEF SessStep, RoleStep, TypeOK
  <2>3. \A u \in Users : \A ro \in held[u] : ro \in RoleIds /\ role'[ro] = "live"
    BY <2>1 DEF NoOrphanLinks, TypeOK
  <2>4. LinkStep(w)
    BY <1>1, <2>1, <2>3 DEF LinkStep
  <2>5. NoOrphanLinks'
    BY <1>1, <2>1, <2>3 DEF NoOrphanLinks, TypeOK
  <2>6. \A ro \in RoleIds : role[ro] = "live" => Name[ro] # Name[call[w].role]
    BY <1>2, <2>1 DEF Holds, Written
  <2>7. NamesUnique'
    BY <2>1, <2>6 DEF NamesUnique
  <2>. QED BY <2>2, <2>4, <2>5, <2>7 DEF Effect
<1>4. CASE DeleteRole(w)
  <2>1. /\ role[call[w].role] # "none" /\ role'[call[w].role] = "gone"
        /\ \A ro \in RoleIds : ro # call[w].role => role'[ro] = role[ro]
        /\ call[w].op = "delete_role"
    BY <1>1, <1>2, <1>4 DEF DeleteRole, Committed, Holds, Written, TypeOK
  <2>2. /\ \A u \in Users : held'[u] = held[u] \ {call[w].role}
        /\ grants'[call[w].role] = {}
        /\ \A ro \in RoleIds : ro # call[w].role => grants'[ro] = grants[ro]
    BY <1>2, <1>4 DEF DeleteRole, TypeOK
  <2>3. SessStep(w) /\ RoleStep(w) /\ perms \subseteq perms'
    BY <1>1, <1>2, <2>1 DEF SessStep, RoleStep, TypeOK
  <2>4. ASSUME NEW u \in Users
        PROVE  held'[u] = {ro \in held[u] : role'[ro] = "live"}
    <3>1. \A ro \in held[u] : ro \in RoleIds /\ role[ro] = "live"
      BY <2>4 DEF NoOrphanLinks, TypeOK
    <3>. QED BY <2>1, <2>2, <3>1
  <2>5. LinkStep(w)
    BY <1>1, <2>4 DEF LinkStep
  <2>6. NoOrphanLinks'
    <3>1. \A u \in Users : \A ro \in held'[u] : role'[ro] = "live"
      BY <2>4
    <3>2. \A ro \in RoleIds : /\ grants'[ro] # {} => role'[ro] = "live"
                              /\ grants'[ro] \subseteq perms'
      BY <1>1, <2>1, <2>2 DEF NoOrphanLinks
    <3>. QED BY <3>1, <3>2 DEF NoOrphanLinks
  <2>7. NamesUnique'
    BY <2>1 DEF NamesUnique
  <2>. QED BY <2>3, <2>5, <2>6, <2>7 DEF Effect
<1>. QED BY <1>3, <1>4

LEMMA PermCommits ==
    ASSUME TypeOK, Served, Holds, NoOrphanLinks, NamesUnique,
           NEW w \in Workers,
           \/ GrantPermissionToRole(w) \/ RevokePermissionFromRole(w)
           \/ CreatePermission(w)
    PROVE  Effect(w) /\ NoOrphanLinks' /\ NamesUnique'
<1>1. /\ UNCHANGED <<active, sess, role, held>> /\ pc[w] = "commit"
      /\ perms \subseteq perms'
  BY DEF GrantPermissionToRole, RevokePermissionFromRole, CreatePermission,
         Committed
<1>2. SessStep(w) /\ RoleStep(w)
  BY <1>1 DEF SessStep, RoleStep, TypeOK
<1>3. LinkStep(w)
  BY <1>1 DEF LinkStep, NoOrphanLinks
<1>4. ASSUME NEW ro \in RoleIds
      PROVE  (grants'[ro] # {} => role[ro] = "live") /\ grants'[ro] \subseteq perms'
  <2>1. grants'[ro] \subseteq grants[ro] =>
           /\ grants'[ro] # {} => role[ro] = "live"
           /\ grants'[ro] \subseteq perms'
    BY <1>1, <1>4 DEF NoOrphanLinks
  <2>2. CASE GrantPermissionToRole(w) /\ dirty[w] /\ ro = call[w].role
    <3>1. role[ro] = "live" /\ call[w].perm \in perms
      BY <2>2 DEF GrantPermissionToRole, Committed, Holds, Written
    <3>2. grants'[ro] = grants[ro] \cup {call[w].perm}
      BY <1>4, <2>2 DEF GrantPermissionToRole, Inserted, TypeOK
    <3>. QED BY <1>1, <1>4, <3>1, <3>2 DEF NoOrphanLinks
  <2>3. CASE GrantPermissionToRole(w) /\ ~(dirty[w] /\ ro = call[w].role)
    <3>1. grants'[ro] = grants[ro]
      BY <1>4, <2>3 DEF GrantPermissionToRole, Inserted, TypeOK
    <3>. QED BY <2>1, <3>1
  <2>4. CASE RevokePermissionFromRole(w) \/ CreatePermission(w)
    <3>1. grants'[ro] \subseteq grants[ro]
      BY <1>4, <2>4 DEF RevokePermissionFromRole, CreatePermission, TypeOK
    <3>. QED BY <2>1, <3>1
  <2>. QED BY <2>2, <2>3, <2>4
<1>5. NoOrphanLinks' /\ NamesUnique'
  BY <1>1, <1>4 DEF NoOrphanLinks, NamesUnique
<1>. QED BY <1>1, <1>2, <1>3, <1>5 DEF Effect

LEMMA AccountCommits ==
    ASSUME TypeOK, Served, Known, Holds, NoOrphanLinks, NamesUnique,
           NEW w \in Workers,
           BanUser(w) \/ UnbanUser(w) \/ Logout(w) \/ Login(w)
    PROVE  Effect(w) /\ NoOrphanLinks' /\ NamesUnique'
<1>1. UNCHANGED <<role, perms, held, grants>> /\ pc[w] = "commit"
  BY DEF BanUser, UnbanUser, Logout, Login, Committed
<1>2. NoOrphanLinks' /\ NamesUnique' /\ RoleStep(w) /\ perms \subseteq perms'
  BY <1>1 DEF NoOrphanLinks, NamesUnique, RoleStep, TypeOK
<1>3. LinkStep(w)
  <2>1. ASSUME NEW u \in Users, ~Touches(w, u)
        PROVE  active'[u] = active[u]
    <3>1. CASE BanUser(w) \/ UnbanUser(w)
      <4>1. dirty[w] /\ call[w].op \in EvictOps /\ pc'[w] = "evict"
        BY <1>1, <3>1 DEF BanUser, UnbanUser, Committed, Served, Serves,
                          EvictOps, Goto, TypeOK
      <4>2. u # call[w].user
        BY <1>1, <2>1, <4>1 DEF Touches
      <4>. QED BY <3>1, <4>2 DEF BanUser, UnbanUser, TypeOK
    <3>2. CASE Logout(w) \/ Login(w)
      BY <3>2 DEF Logout, Login
    <3>. QED BY <3>1, <3>2
  <2>2. \A u \in Users : held'[u] = {ro \in held[u] : role'[ro] = "live"}
    BY <1>1 DEF NoOrphanLinks
  <2>. QED BY <2>1, <2>2 DEF LinkStep
<1>4. SessStep(w)
  <2>1. CASE BanUser(w) \/ Logout(w)
    <3>1. /\ sess' = [j \in Jtis |->
                        IF j \in rev[w] THEN "revoked" ELSE sess[j]]
          /\ \A j \in rev[w] : sess[j] # "none"
      BY <2>1 DEF BanUser, Logout, AfterRevoking, Known, SessionsKnown
    <3>. QED BY <3>1 DEF SessStep
  <2>2. CASE UnbanUser(w)
    BY <2>2 DEF UnbanUser, SessStep
  <2>3. CASE Login(w)
    <3>1. /\ Busy(w) /\ call[w].op = "login"
          /\ sess[call[w].jti] = "none"
      BY <1>1, <2>3 DEF Login, Committed, Busy, Known, SessionsKnown
    <3>2. \A j \in Jtis : IF j = call[w].jti THEN sess'[j] = "open"
                          ELSE sess'[j] = sess[j]
      BY <2>3 DEF Login, TypeOK
    <3>. QED BY <3>1, <3>2 DEF SessStep
  <2>. QED BY <2>1, <2>2, <2>3
<1>. QED BY <1>2, <1>3, <1>4 DEF Effect

LEMMA CommitEffect ==
    ASSUME TypeOK, Served, Known, Holds, NoOrphanLinks, NamesUnique,
           NEW w \in Workers, Commits(w)
    PROVE  Effect(w) /\ NoOrphanLinks' /\ NamesUnique'
BY LinkCommits, RoleCommits, PermCommits, AccountCommits DEF Commits

-----------------------------------------------------------------------------
(***************************************************************************)
(* The other workers, and the cache, after a step of w.                    *)
(***************************************************************************)
LEMMA Symmetric ==
    ASSUME NEW c, NEW d
    PROVE  /\ SameId(c, d) => SameId(d, c)
           /\ Collide(c, d) => Collide(d, c)
BY DEF SameId, Collide

LEMMA OthersKept ==
    ASSUME TypeOK, Served, Known, Holds, Separate, NEW w \in Workers,
           Others(w), Effect(w), NEW s \in Workers, s # w
    PROVE  Serves(s)' /\ SessionsKnown(s)' /\ Written(s)'
<1>1. /\ pc'[s] = pc[s] /\ call'[s] = call[s] /\ dirty'[s] = dirty[s]
      /\ rev'[s] = rev[s] /\ liveAt'[s] = liveAt[s]
  BY DEF Others
<1>2. Serves(s) /\ SessionsKnown(s) /\ Written(s) /\ Apart(w, s)
  BY DEF Served, Known, Holds, Separate
<1>3. call[s] \in Calls /\ call[s].jti \in Jtis /\ rev[s] \subseteq Jtis
  BY <1>2, CallFields DEF Serves, TypeOK
<1>4. Serves(s)'
  BY <1>1, <1>2 DEF Serves
<1>5. SessionsKnown(s)'
  <2>1. Busy(s) => ((sess'[call[s].jti] = "none") <=> (sess[call[s].jti] = "none"))
    BY <1>2, <1>3 DEF Effect, SessStep, SessionsKnown, Apart, SameId
  <2>2. \A j \in rev[s] : sess'[j] # "none"
    BY <1>2, <1>3 DEF Effect, SessStep, SessionsKnown
  <2>3. ~liveAt[s] => sess'[call[s].jti] = "revoked"
    BY <1>2, <1>3 DEF Effect, SessStep, SessionsKnown
  <2>. QED BY <1>1, <1>2, <2>1, <2>2, <2>3 DEF SessionsKnown, Busy
<1>6. Written(s)'
  <2>1. call[s].op \in {"assign_role", "create_role", "delete_role",
                        "grant_permission"} => call[s].role \in RoleIds
    BY <1>3, CallFields
  <2>2. Busy(s) /\ call[s].op = "create_role" =>
           role'[call[s].role] = "none"
    BY <1>2, <2>1 DEF Effect, RoleStep, Written, Apart, SameId, TypeOK
  <2>3. pc[s] \in {"write", "commit"} /\ call[s].op = "delete_role" =>
           role'[call[s].role] # "none"
    BY <1>2, <2>1 DEF Effect, RoleStep, Written, TypeOK
  <2>4. pc[s] \in {"write", "commit"} /\ call[s].op = "grant_permission" =>
           call[s].perm \in perms'
    BY <1>2 DEF Effect, Written
  <2>5. dirty[s] /\ call[s].op \in {"assign_role", "grant_permission"} =>
           role'[call[s].role] = "live"
    BY <1>2, <2>1 DEF Effect, RoleStep, Written, Apart, Collide,
                      UserLinkOps, RoleLinkOps, TypeOK
  <2>6. ASSUME dirty[s], call[s].op = "create_role", NEW ro \in RoleIds,
               role'[ro] = "live"
        PROVE  Name[ro] # Name[call[s].role]
    <3>1. CASE role[ro] = "live"
      BY <1>2, <2>6, <3>1 DEF Written
    <3>2. CASE role[ro] # "live"
      <4>1. dirty[w] /\ call[w].op = "create_role" /\ call[w].role = ro
        BY <2>6, <3>2 DEF Effect, RoleStep, TypeOK
      <4>. QED BY <1>2, <2>6, <4>1 DEF Apart, Collide
    <3>. QED BY <3>1, <3>2
  <2>. QED BY <1>1, <2>2, <2>3, <2>4, <2>5, <2>6 DEF Written, Busy
<1>. QED BY <1>4, <1>5, <1>6

\* What others have loaded fits, or they are told that it has changed.
LEMMA OtherViews ==
    ASSUME TypeOK, Served, Fits, NEW w \in Workers, Others(w), Effect(w),
           NEW s \in Workers, s # w,
           \A u : Touches(w, u) /\ s \in Loading(u) => ~clean'[s]
    PROVE  ViewFits(s)'
<1>1. /\ pc'[s] = pc[s] /\ call'[s] = call[s] /\ view'[s] = view[s]
      /\ clean'[s] => clean[s]
  BY DEF Others
<1>2. /\ ViewFits(s) /\ view[s] \in View /\ view[s].roles \in SUBSET RoleIds
      /\ actor(s) \in Users /\ actor(s)' = actor(s)
  BY <1>1, CallFields DEF Fits, TypeOK, View, Served, Serves, actor
<1>3. \A ro \in view[s].roles : role'[ro] # "none"
  BY <1>2, SeenRoles DEF ViewFits, Effect
<1>4. ASSUME clean'[s], pc[s] \in {"roles", "perms", "set"}
      PROVE  ~Touches(w, actor(s))
  BY <1>4 DEF Loading
<1>5. ASSUME clean'[s], pc[s] = "roles"
      PROVE  view[s].active = active'[actor(s)]
  BY <1>1, <1>2, <1>4, <1>5 DEF ViewFits, Effect, LinkStep
<1>6. ASSUME clean'[s], pc[s] \in {"perms", "set"}
      PROVE  Agrees(view[s], actor(s))'
  <2>1. Agrees(view[s], actor(s)) /\ ~Touches(w, actor(s))
    BY <1>1, <1>2, <1>4, <1>6 DEF ViewFits
  <2>2. PICK v \in View, u \in Users : v = view[s] /\ u = actor(s)
    BY <1>2
  <2>3. Agrees(v, u)'
    BY <1>2, <2>1, <2>2, StillAgrees DEF ViewFits
  <2>4. view'[s] = v /\ actor(s)' = u
    BY <1>1, <1>2, <2>2
  <2>. QED BY <2>3, <2>4 DEF Agrees
<1>. QED BY <1>1, <1>2, <1>3, <1>5, <1>6 DEF ViewFits

\* What a step of w may do to the entry of u: drop it, keep its view and
\* tell if the eviction w owed is lost, or replace it by what w has loaded.
EntryStep(w, u) ==
    \/ cache'[u] = None
    \/ /\ cache[u] # None /\ cache'[u].view = cache[u].view
       /\ cache'[u].clean =>
             cache[u].clean /\ ~(pc[w] = "evict" /\ call[w].user = u)
    \/ /\ pc[w] = "set" /\ actor(w) = u /\ pc'[w] = "decide"
       /\ cache'[u].view = view[w] /\ cache'[u].clean = clean[w]

LEMMA EntryKept ==
    ASSUME TypeOK, Fits, NEW w \in Workers, Others(w), Effect(w),
           NEW u \in Users, EntryStep(w, u),
           Touches(w, u) => pc'[w] = "evict" /\ call'[w].user = u
    PROVE  EntryFits(u)'
<1>0. CASE cache'[u] = None
  BY <1>0 DEF EntryFits
<1>1. CASE /\ cache[u] # None /\ cache'[u].view = cache[u].view
           /\ cache'[u].clean =>
                 cache[u].clean /\ ~(pc[w] = "evict" /\ call[w].user = u)
  <2>1. PICK v \in View : v = cache[u].view
    BY <1>1 DEF TypeOK, Entry
  <2>2. /\ v.roles \in SUBSET RoleIds
        /\ \A ro \in v.roles : role[ro] # "none"
    BY <1>1, <2>1 DEF Fits, EntryFits, View
  <2>3. \A ro \in v.roles : role'[ro] # "none"
    BY <2>2, SeenRoles DEF Effect
  <2>4. ASSUME cache'[u].clean,
               \A s \in Workers : pc'[s] = "evict" => call'[s].user # u
        PROVE  Agrees(v, u)'
    <3>1. ~Touches(w, u)
      BY <2>4
    <3>2. \A s \in Workers : pc[s] = "evict" => call[s].user # u
      BY <1>1, <2>4 DEF Others
    <3>3. Agrees(v, u)
      BY <1>1, <2>1, <2>4, <3>2 DEF Fits, EntryFits
    <3>. QED BY <2>2, <3>1, <3>3, StillAgrees
  <2>5. cache'[u].view = v
    BY <1>1, <2>1
  <2>. QED BY <2>3, <2>4, <2>5 DEF EntryFits, Agrees
<1>2. CASE /\ pc[w] = "set" /\ actor(w) = u /\ pc'[w] = "decide"
           /\ cache'[u].view = view[w] /\ cache'[u].clean = clean[w]
  <2>1. PICK v \in View : v = view[w]
    BY DEF TypeOK
  <2>2. /\ v.roles \in SUBSET RoleIds
        /\ \A ro \in v.roles : role[ro] # "none"
        /\ clean[w] => Agrees(v, u)
    BY <1>2, <2>1 DEF Fits, ViewFits, View
  <2>3. \A ro \in v.roles : role'[ro] # "none"
    BY <2>2, SeenRoles DEF Effect
  <2>4. clean[w] => Agrees(v, u)'
    BY <1>2, <2>2, StillAgrees DEF Touches
  <2>5. cache'[u].view = v
    BY <1>2, <2>1
  <2>. QED BY <1>2, <2>3, <2>4, <2>5 DEF EntryFits, Agrees
<1>. QED BY <1>0, <1>1, <1>2 DEF EntryStep

-----------------------------------------------------------------------------
(***************************************************************************)
(* The worker that takes the step.                                         *)
(***************************************************************************)
Own(w) ==
    /\ Serves(w) /\ SessionsKnown(w) /\ Written(w) /\ ViewFits(w)
    /\ \A s \in Workers \ {w} : Apart(w, s)

LEMMA FinishOwn ==
    ASSUME TypeOK, NEW w \in Workers, Finish(w)
    PROVE  Own(w)'
<1>1. /\ pc'[w] = "idle" /\ call'[w] = Idle /\ view'[w] = NoView
      /\ dirty'[w] = FALSE /\ rev'[w] = {} /\ liveAt'[w] = TRUE
  BY TypeParts, FinishEffect
<1>. QED BY <1>1, IdleCall, NoViewType
         DEF Own, Serves, SessionsKnown, Written, ViewFits, Apart, Busy

LEMMA ArriveOwn ==
    ASSUME AccessInv, NEW w \in Workers, NEW c \in Calls, Arrive(w, c)
    PROVE  Own(w)'
<1>0. /\ TypeOK /\ Serves(w) /\ SessionsKnown(w) /\ ViewFits(w)
      /\ c.jti \in Jtis
  BY CallFields DEF AccessInv, Served, Known, Fits
<1>1. /\ pc[w] = "idle" /\ call'[w] = c /\ UNCHANGED <<view, dirty, rev>>
      /\ pc'[w] = IF c.op = "login" THEN "check" ELSE "session"
      /\ liveAt'[w] = (c.op # "login" => sess[c.jti] = "open")
      /\ (c.op = "login") = (sess[c.jti] = "none")
      /\ UNCHANGED <<role, sess, perms>>
  BY <1>0 DEF Arrive, Goto, TypeOK, tables
<1>2. Others(w)
  BY <1>0, ArriveType
<1>3. dirty'[w] = FALSE
  BY <1>0, <1>1 DEF Serves, TypeOK
<1>4. Serves(w)' /\ ViewFits(w)'
  BY <1>0, <1>1, <1>3 DEF Serves, ViewFits
<1>5. SessionsKnown(w)'
  BY <1>0, <1>1 DEF SessionsKnown, Busy, TypeOK
<1>6. Written(w)'
  BY <1>1, <1>3 DEF Written, Arrive
<1>7. ASSUME NEW s \in Workers \ {w} PROVE Apart(w, s)'
  <2>1. Busy(s)' => ~SameId(call[s], c)
    BY <1>2, <1>7 DEF Arrive, Others, Busy
  <2>2. call'[s] = call[s]
    BY <1>2, <1>7 DEF Others
  <2>. QED BY <1>1, <1>3, <2>1, <2>2, Symmetric DEF Apart, SameId
<1>. QED BY <1>4, <1>5, <1>6, <1>7 DEF Own

\* A worker that goes on with its request before its use case writes.
LEMMA GoesOn ==
    ASSUME AccessInv, NEW w \in Workers, Others(w),
           UNCHANGED <<tables, call, clean, dirty, rev, liveAt>>,
           ~dirty[w], pc[w] # "idle", liveAt[w],
           pc'[w] \in {"get", "row", "roles", "perms", "set", "decide", "check"}
    PROVE  /\ Serves(w)' /\ SessionsKnown(w)' /\ Written(w)'
           /\ \A s \in Workers \ {w} : Apart(w, s)'
<1>1. Serves(w) /\ SessionsKnown(w) /\ Written(w)
  BY DEF AccessInv, Served, Known, Holds
<1>2. UNCHANGED <<role, sess, perms>>
  BY DEF tables
<1>3. Serves(w)' /\ SessionsKnown(w)' /\ Written(w)'
  BY <1>1, <1>2 DEF Serves, SessionsKnown, Written, Busy
<1>4. ASSUME NEW s \in Workers \ {w} PROVE Apart(w, s)'
  <2>1. Apart(w, s)
    BY <1>4 DEF AccessInv, Separate
  <2>. QED BY <1>4, <2>1 DEF Apart, Others, Busy
<1>. QED BY <1>3, <1>4

LEMMA AuthOwn ==
    ASSUME AccessInv, NEW w \in Workers,
           \/ AuthSession(w) \/ CacheGet(w) \/ LoadRow(w) \/ LoadRoles(w)
           \/ LoadPerms(w) \/ CacheSet(w) \/ Decide(w)
    PROVE  Own(w)'
<1>0. /\ TypeOK /\ Served /\ Serves(w) /\ SessionsKnown(w) /\ ViewFits(w)
      /\ NoOrphanLinks /\ call[w] \in Calls /\ actor(w) \in Users
      /\ view[w] \in View
  BY CallFields
     DEF AccessInv, Served, Serves, Known, Fits, actor, TypeOK
<1>1. Others(w) /\ UNCHANGED tables
  BY <1>0, AuthType, CacheType
<1>2. CASE Refused(w)
  BY <1>0, <1>2, FinishOwn DEF Refused
<1>3. ASSUME UNCHANGED <<call, clean, dirty, rev, liveAt>>,
             ~dirty[w], pc[w] # "idle", liveAt[w],
             pc'[w] \in {"get", "row", "roles", "perms", "set", "decide",
                         "check"},
             ViewFits(w)'
      PROVE  Own(w)'
  BY <1>1, <1>3, GoesOn DEF Own
<1>4. pc[w] \in {"session", "get", "row", "roles", "perms", "set", "decide"}
  BY DEF AuthSession, CacheGet, LoadRow, LoadRoles, LoadPerms, CacheSet,
         Decide
<1>5. ~dirty[w] /\ (pc[w] # "session" => liveAt[w])
  BY <1>0, <1>4 DEF Serves, SessionsKnown
<1>6. /\ \A ro \in view[w].roles : role'[ro] # "none"
      /\ view'[w] = view[w] /\ pc'[w] \in {"get", "row", "decide", "check"}
            => ViewFits(w)'
  BY <1>0, <1>1 DEF ViewFits, tables
<1>7. CASE AuthSession(w) /\ ~Refused(w)
  <2>1. /\ sess[call[w].jti] = "open" /\ UNCHANGED locals
        /\ pc'[w] = "get"
    BY <1>0, <1>7 DEF AuthSession, Goto, TypeOK
  <2>2. liveAt[w]
    BY <1>0, <2>1 DEF SessionsKnown
  <2>. QED BY <1>3, <1>4, <1>5, <1>6, <2>1, <2>2 DEF locals
<1>8. CASE Decide(w) /\ ~Refused(w)
  <2>1. UNCHANGED locals /\ pc'[w] = "check" /\ pc[w] = "decide"
    BY <1>0, <1>8 DEF Decide, Goto, TypeOK
  <2>. QED BY <1>3, <1>5, <1>6, <2>1 DEF locals
<1>9. CASE CacheSet(w)
  <2>1. UNCHANGED locals /\ pc'[w] = "decide" /\ pc[w] = "set"
    BY <1>0, <1>9 DEF CacheSet, Goto, TypeOK
  <2>. QED BY <1>3, <1>5, <1>6, <2>1 DEF locals
<1>10. CASE CacheGet(w)
  <2>1. /\ UNCHANGED <<call, clean, dirty, rev, liveAt>> /\ pc[w] = "get"
        /\ pc'[w] \in {"row", "decide"}
    BY <1>0, <1>10 DEF CacheGet, Goto, TypeOK
  <2>2. \/ view' = view
        \/ cache[actor(w)] # None /\ view'[w] = cache[actor(w)].view
    BY <1>0, <1>10 DEF CacheGet, TypeOK
  <2>3. \A ro \in view'[w].roles : role'[ro] # "none"
    BY <1>0, <1>1, <1>6, <2>2 DEF AccessInv, Fits, EntryFits, tables
  <2>4. ViewFits(w)'
    BY <2>1, <2>3 DEF ViewFits
  <2>. QED BY <1>3, <1>5, <2>1, <2>4
<1>11. CASE LoadRow(w)
  <2>1. /\ UNCHANGED <<call, clean, dirty, rev, liveAt>> /\ pc[w] = "row"
        /\ pc'[w] = "roles"
        /\ view'[w] = [view[w] EXCEPT !.active = active[actor(w)]]
    BY <1>0, <1>11 DEF LoadRow, Goto, TypeOK
  <2>2. /\ view'[w].active = active[actor(w)]
        /\ view'[w].roles = view[w].roles
    BY <1>0, <2>1 DEF View
  <2>3. ViewFits(w)'
    BY <1>1, <1>6, <2>1, <2>2 DEF ViewFits, actor, tables
  <2>. QED BY <1>3, <1>5, <2>1, <2>3
<1>12. CASE LoadRoles(w)
  <2>1. /\ UNCHANGED <<call, clean, dirty, rev, liveAt>> /\ pc[w] = "roles"
        /\ pc'[w] = "perms"
        /\ view'[w] = [view[w] EXCEPT !.roles = held[actor(w)]]
    BY <1>0, <1>12 DEF LoadRoles, Goto, TypeOK
  <2>2. /\ view'[w].active = view[w].active
        /\ view'[w].roles = held[actor(w)]
    BY <1>0, <2>1 DEF View
  <2>3. \A ro \in held[actor(w)] : role[ro] = "live"
    BY <1>0 DEF NoOrphanLinks
  <2>4. clean[w] => view[w].active = active[actor(w)]
    BY <1>0, <2>1 DEF ViewFits
  <2>5. ViewFits(w)'
    BY <1>1, <2>1, <2>2, <2>3, <2>4 DEF ViewFits, Agrees, actor, tables
  <2>. QED BY <1>3, <1>5, <2>1, <2>5
<1>13. CASE LoadPerms(w)
  <2>1. /\ UNCHANGED <<call, clean, dirty, rev, liveAt>> /\ pc[w] = "perms"
        /\ pc'[w] = "set"
        /\ view'[w] = [view[w] EXCEPT !.perms = [ro \in RoleIds |->
                         IF ro \in view[w].roles THEN grants[ro] ELSE {}]]
    BY <1>0, <1>13 DEF LoadPerms, Goto, TypeOK
  <2>2. /\ view'[w].active = view[w].active
        /\ view'[w].roles = view[w].roles
    BY <1>0, <2>1 DEF View
  <2>3. ViewFits(w)'
    BY <1>0, <1>1, <1>6, <2>1, <2>2 DEF ViewFits, Agrees, actor, tables
  <2>. QED BY <1>3, <1>5, <2>1, <2>3
<1>. QED BY <1>2, <1>7, <1>8, <1>9, <1>10, <1>11, <1>12, <1>13
         DEF AuthSession, Decide

LEMMA CheckOwn ==
    ASSUME AccessInv, NEW w \in Workers, Check(w)
    PROVE  Own(w)'
<1>0. /\ TypeOK /\ Served /\ Serves(w) /\ SessionsKnown(w) /\ ViewFits(w)
      /\ Written(w) /\ pc[w] = "check"
  BY DEF AccessInv, Served, Known, Fits, Holds, Check
<1>1. Others(w) /\ UNCHANGED tables
  BY <1>0, AuthType
<1>2. CASE Refused(w)
  BY <1>0, <1>2, FinishOwn DEF Refused
<1>3. CASE ~Refused(w)
  <2>1. /\ Accepts(w) /\ UNCHANGED locals
        /\ pc'[w] = IF LinkExists(call[w]) THEN "commit" ELSE "write"
    BY <1>0, <1>3 DEF Check, Goto, TypeOK
  <2>2. ~dirty[w] /\ liveAt[w]
    BY <1>0 DEF Serves, SessionsKnown
  <2>3. UNCHANGED <<call, view, dirty, rev, liveAt, role, sess, perms>>
    BY <1>1, <2>1 DEF locals, tables
  <2>4. Serves(w)'
    BY <1>0, <2>1, <2>2, <2>3 DEF Serves, LinkExists
  <2>5. SessionsKnown(w)' /\ ViewFits(w)'
    BY <1>0, <2>1, <2>2, <2>3 DEF SessionsKnown, ViewFits, Busy
  <2>6. /\ call[w].op = "delete_role" => role[call[w].role] = "live"
        /\ call[w].op = "grant_permission" => call[w].perm \in perms
    BY <2>1 DEF Accepts
  <2>7. Written(w)'
    BY <1>0, <2>2, <2>3, <2>6 DEF Written, Busy
  <2>8. ASSUME NEW s \in Workers \ {w} PROVE Apart(w, s)'
    <3>1. Apart(w, s)
      BY <2>8 DEF AccessInv, Separate
    <3>. QED BY <1>0, <1>1, <2>2, <2>3, <2>8, <3>1 DEF Apart, Others, Busy
  <2>. QED BY <2>4, <2>5, <2>7, <2>8 DEF Own
<1>. QED BY <1>2, <1>3

LEMMA WriteOwn ==
    ASSUME AccessInv, NEW w \in Workers, Write(w)
    PROVE  Own(w)'
<1>0. /\ TypeOK /\ Served /\ Serves(w) /\ SessionsKnown(w) /\ ViewFits(w)
      /\ Written(w) /\ pc[w] = "write" /\ call[w] \in Calls
  BY DEF AccessInv, Served, Serves, Known, Fits, Holds, Write
<1>1. Others(w) /\ UNCHANGED tables
  BY <1>0, AuthType
<1>2. CASE Refused(w)
  BY <1>0, <1>2, FinishOwn DEF Refused
<1>3. CASE ~Refused(w)
  <2>1. /\ ~Violates(call[w]) /\ UNCHANGED <<call, view, liveAt>>
        /\ dirty'[w] = TRUE /\ rev'[w] = Revokes(call[w])
        /\ pc'[w] = "commit"
    BY <1>0, <1>3 DEF Write, Goto, TypeOK
  <2>2. UNCHANGED <<role, sess, perms>> /\ liveAt[w]
    BY <1>0, <1>1 DEF tables, SessionsKnown
  <2>3. Serves(w)'
    BY <1>0, <2>1 DEF Serves
  <2>4. \A j \in Revokes(call[w]) : sess[j] # "none"
    BY <1>0 DEF Revokes, SessionsKnown, Busy
  <2>5. SessionsKnown(w)' /\ ViewFits(w)'
    BY <1>0, <2>1, <2>2, <2>4 DEF SessionsKnown, ViewFits, Busy
  <2>6. Written(w)'
    BY <1>0, <2>1, <2>2 DEF Written, Violates, Busy
  <2>7. ASSUME NEW s \in Workers \ {w} PROVE Apart(w, s)'
    <3>1. Apart(w, s)
      BY <2>7 DEF AccessInv, Separate
    <3>2. dirty[s] => ~Collide(call[w], call[s])
      BY <2>7 DEF Write
    <3>. QED BY <1>0, <1>1, <2>1, <2>7, <3>1, <3>2 DEF Apart, Others, Busy
  <2>. QED BY <2>3, <2>5, <2>6, <2>7 DEF Own
<1>. QED BY <1>2, <1>3

\* After a commit a worker has answered or goes on to evict the account it
\* changed, and the loads of that account that were under way know it.
LEMMA CommitOwn ==
    ASSUME AccessInv, NEW w \in Workers, Commits(w)
    PROVE  /\ Own(w)'
           /\ \A u : Touches(w, u) =>
                 /\ pc'[w] = "evict" /\ call'[w].user = u
                 /\ \A s \in Workers : s \in Loading(u) => ~clean'[s]
<1>0. /\ TypeOK /\ Served /\ Serves(w) /\ SessionsKnown(w) /\ ViewFits(w)
      /\ Written(w) /\ call[w] \in Calls /\ Known /\ Holds
      /\ NoOrphanLinks /\ NamesUnique
  BY DEF AccessInv, Served, Serves, Known, Fits, Holds
<1>1. Committed(w, call[w].op)
  BY DEF Commits, AssignRoleToUser, RevokeRoleFromUser, CreateRole,
         DeleteRole, GrantPermissionToRole, RevokePermissionFromRole,
         CreatePermission, BanUser, UnbanUser, Logout, Login, Committed
<1>2. Others(w) /\ Effect(w) /\ pc[w] = "commit"
  BY <1>0, <1>1, CommitType, CommitEffect DEF Committed
<1>3. CASE call[w].op \notin EvictOps
  BY <1>0, <1>1, <1>3, FinishOwn DEF Committed, Touches
<1>4. CASE call[w].op \in EvictOps
  <2>1. /\ pc'[w] = "evict" /\ dirty'[w] = FALSE
        /\ UNCHANGED <<call, view, rev, liveAt>>
        /\ \A s \in Workers : s \in Loading(call[w].user) /\ dirty[w]
              => ~clean'[s]
    BY <1>0, <1>1, <1>4 DEF Committed, Goto, TypeOK
  <2>2. /\ call[w].jti \in Jtis /\ rev[w] \subseteq Jtis
        /\ view[w].roles \in SUBSET RoleIds /\ view[w] \in View
    BY <1>0, CallFields DEF TypeOK, View
  <2>3. Serves(w)'
    BY <1>0, <1>4, <2>1 DEF Serves
  <2>4. call[w].op \notin {"login", "create_role", "delete_role",
                           "grant_permission"}
    BY <1>4 DEF EvictOps
  <2>5. SessionsKnown(w)'
    BY <1>0, <1>2, <2>1, <2>2, <2>4
       DEF SessionsKnown, Effect, SessStep, Busy
  <2>6. Written(w)'
    BY <2>1, <2>4 DEF Written
  <2>7. \A ro \in view[w].roles : role'[ro] # "none"
    BY <1>0, <1>2, <2>2, SeenRoles DEF ViewFits, Effect
  <2>8. ViewFits(w)'
    BY <2>1, <2>7 DEF ViewFits
  <2>9. ASSUME NEW s \in Workers \ {w} PROVE Apart(w, s)'
    BY <2>1, <2>4 DEF Apart, SameId
  <2>10. Own(w)'
    BY <2>3, <2>5, <2>6, <2>8, <2>9 DEF Own
  <2>. QED BY <2>1, <2>10 DEF Touches
<1>. QED BY <1>3, <1>4

-----------------------------------------------------------------------------
(***************************************************************************)
(* The invariant and what follows from it.                                 *)
(***************************************************************************)
\* The parts put together.
LEMMA Together ==
    ASSUME AccessInv, NEW w \in Workers, TypeOK', Others(w), Effect(w),
           NoOrphanLinks', NamesUnique', Own(w)',
           \A u \in Users : EntryStep(w, u),
           \A u : Touches(w, u) =>
              /\ pc'[w] = "evict" /\ call'[w].user = u
              /\ \A s \in Workers : s \in Loading(u) => ~clean'[s]
    PROVE  AccessInv'
<1>0. /\ TypeOK /\ Served /\ Known /\ Holds /\ Separate /\ Fits
  BY DEF AccessInv
<1>1. ASSUME NEW s \in Workers
      PROVE  Serves(s)' /\ SessionsKnown(s)' /\ Written(s)' /\ ViewFits(s)'
  <2>1. CASE s = w
    BY <2>1 DEF Own
  <2>2. CASE s # w
    BY <1>0, <1>1, <2>2, OthersKept, OtherViews
  <2>. QED BY <2>1, <2>2
<1>2. \A u \in Users : EntryFits(u)'
  BY <1>0, EntryKept
<1>3. ASSUME NEW s \in Workers, NEW t \in Workers, s # t PROVE Apart(s, t)'
  <2>1. CASE s = w
    BY <1>3, <2>1 DEF Own
  <2>2. CASE t = w
    <3>1. Apart(t, s)'
      BY <1>3, <2>2 DEF Own
    <3>. QED BY <3>1, Symmetric DEF Apart
  <2>3. CASE s # w /\ t # w
    BY <1>0, <1>3, <2>3 DEF Separate, Apart, Others, Busy
  <2>. QED BY <2>1, <2>2, <2>3
<1>. QED BY <1>1, <1>2, <1>3
         DEF AccessInv, Served, Known, Holds, Separate, Fits

LEMMA AccessInit == Init => AccessInv
<1> SUFFICES ASSUME Init PROVE AccessInv
  OBVIOUS
<1>1. /\ \A w \in Workers : /\ pc[w] = "idle" /\ call[w] = Idle
                            /\ view[w] = NoView /\ dirty[w] = FALSE
                            /\ rev[w] = {} /\ liveAt[w] = TRUE
      /\ \A u \in Users : cache[u] = None
  BY DEF Init
<1>2. TypeOK
  <2>1. Idle \in Call /\ NoView \in View
    BY IdleCall, CallFields, NoViewType
  <2>2. /\ SeedHeld \in [Users -> SUBSET RoleIds]
        /\ SeedGrants \in [RoleIds -> SUBSET Perms] /\ SeedPerms \subseteq Perms
    BY SeedAssumption
  <2>3. changes \in 0..MaxChanges
    BY TTLAssumption DEF Init
  <2>4. /\ active \in [Users -> BOOLEAN]
        /\ sess \in [Jtis -> {"none", "open", "revoked"}]
        /\ role \in [RoleIds -> {"none", "live", "gone"}]
        /\ cache \in [Users -> Entry \cup {None}]
    BY DEF Init
  <2>5. LocalTypes
    BY <2>1 DEF Init, LocalTypes, Points
  <2>. QED BY <2>2, <2>3, <2>4, <2>5 DEF Init, TypeOK, LocalTypes
<1>3. Served /\ Known /\ Holds /\ Separate
  BY <1>1, IdleCall
     DEF Served, Serves, Known, SessionsKnown, Holds, Written, Separate,
         Apart, Busy
<1>4. Fits
  BY <1>1, NoViewType DEF Fits, ViewFits, EntryFits
<1>5. NoOrphanLinks /\ NamesUnique
  BY SeedAssumption DEF Init, NoOrphanLinks, NamesUnique
<1>. QED BY <1>2, <1>3, <1>4, <1>5 DEF AccessInv

LEMMA AccessStep == AccessInv /\ [Next]_vars => AccessInv'
<1> SUFFICES ASSUME AccessInv, [Next]_vars PROVE AccessInv'
  OBVIOUS
<1>0. /\ TypeOK /\ Served /\ Known /\ Holds /\ Separate /\ Fits
      /\ NoOrphanLinks /\ NamesUnique
  BY DEF AccessInv
<1>1. CASE UNCHANGED vars
  <2>1. UNCHANGED <<active, sess, role, perms, held, grants, cache, pc, call,
                    view, clean, dirty, rev, liveAt, changes>>
    BY <1>1 DEF vars, tables, locals
  <2>2. TypeOK' /\ Served' /\ Known' /\ Holds'
    BY <1>0, <2>1
       DEF TypeOK, Served, Serves, Known, SessionsKnown, Holds, Written, Busy
  <2>3. Separate' /\ NoOrphanLinks' /\ NamesUnique'
    BY <1>0, <2>1 DEF Separate, Apart, Busy, NoOrphanLinks, NamesUnique
  <2>4. Fits'
    BY <1>0, <2>1 DEF Fits, ViewFits, EntryFits, Agrees, actor
  <2>. QED BY <2>2, <2>3, <2>4 DEF AccessInv
<1>2. ASSUME NEW w \in Workers, TypeOK', Others(w), UNCHANGED tables, Own(w)',
             \A u \in Users : EntryStep(w, u),
             pc[w] # "commit" \/ pc'[w] # "evict"
      PROVE  AccessInv'
  <2>1. Effect(w)
    BY <1>0, <1>2, QuietEffect
  <2>2. NoOrphanLinks' /\ NamesUnique'
    BY <1>0, <1>2 DEF NoOrphanLinks, NamesUnique, tables
  <2>. QED BY <1>2, <2>1, <2>2, Together DEF Touches
<1>3. ASSUME NEW w \in Workers, cache' = cache, pc[w] # "evict", NEW u \in Users
      PROVE  EntryStep(w, u)
  BY <1>3 DEF EntryStep
<1>4. ASSUME NEW w \in Workers, NEW c \in Calls, Arrive(w, c)
      PROVE  AccessInv'
  <2>1. cache' = cache /\ UNCHANGED tables /\ pc[w] = "idle"
    BY <1>4 DEF Arrive
  <2>. QED BY <1>0, <1>2, <1>3, <1>4, <2>1, ArriveType, ArriveOwn
<1>5. ASSUME NEW w \in Workers,
             \/ AuthSession(w) \/ CacheGet(w) \/ LoadRow(w) \/ LoadRoles(w)
             \/ LoadPerms(w) \/ Decide(w) \/ Check(w) \/ Write(w)
      PROVE  AccessInv'
  <2>1. pc[w] \notin {"commit", "evict"}
    BY <1>5 DEF AuthSession, CacheGet, LoadRow, LoadRoles, LoadPerms, Decide,
                Check, Write
  <2>2. TypeOK' /\ Others(w) /\ UNCHANGED <<tables, cache, changes>>
    BY <1>0, <1>5, AuthType
  <2>3. Own(w)'
    BY <1>5, AuthOwn, CheckOwn, WriteOwn
  <2>. QED BY <1>2, <1>3, <2>1, <2>2, <2>3
<1>6. ASSUME NEW w \in Workers, CacheSet(w)
      PROVE  AccessInv'
  <2>1. TypeOK' /\ Others(w) /\ UNCHANGED tables /\ Own(w)'
    BY <1>0, <1>6, CacheType, AuthOwn
  <2>2. pc[w] = "set" /\ pc'[w] = "decide"
    BY <1>0, <1>6 DEF CacheSet, Goto, TypeOK
  <2>3. ASSUME NEW u \in Users PROVE EntryStep(w, u)
    <3>1. \/ u # actor(w) /\ cache'[u] = cache[u]
          \/ /\ u = actor(w) /\ cache'[u].view = view[w]
             /\ cache'[u].clean = clean[w]
      BY <1>0, <1>6, <2>3 DEF CacheSet, TypeOK
    <3>. QED BY <2>2, <3>1 DEF EntryStep
  <2>. QED BY <1>2, <2>1, <2>2, <2>3
<1>7. ASSUME NEW w \in Workers, Evict(w)
      PROVE  AccessInv'
  <2>1. TypeOK' /\ Others(w) /\ UNCHANGED tables /\ Own(w)'
    BY <1>0, <1>7, CacheType, FinishOwn DEF Evict
  <2>2. pc[w] = "evict"
    BY <1>7 DEF Evict
  <2>3. ASSUME NEW u \in Users PROVE EntryStep(w, u)
    BY <1>0, <1>7, <2>3 DEF Evict, EntryStep, TypeOK
  <2>. QED BY <1>2, <2>1, <2>2, <2>3
<1>8. ASSUME NEW w \in Workers, Crash(w)
      PROVE  AccessInv'
  <2>1. TypeOK' /\ Others(w) /\ UNCHANGED tables /\ Own(w)'
    BY <1>0, <1>8, CacheType, FinishOwn DEF Crash
  <2>2. ASSUME NEW u \in Users PROVE EntryStep(w, u)
    <3>1. CASE pc[w] = "evict" /\ call[w].user = u /\ cache[u] # None
      <4>1. cache[u] \in Entry
        BY <1>0, <2>2, <3>1 DEF TypeOK
      <4>2. cache'[u] = [cache[u] EXCEPT !.clean = FALSE]
        BY <1>0, <1>8, <2>2, <3>1 DEF Crash, TypeOK
      <4>3. cache'[u].view = cache[u].view /\ cache'[u].clean = FALSE
        BY <4>1, <4>2 DEF Entry
      <4>. QED BY <3>1, <4>3 DEF EntryStep
    <3>2. CASE ~(pc[w] = "evict" /\ call[w].user = u /\ cache[u] # None)
      <4>1. cache'[u] = cache[u]
        BY <1>0, <1>8, <2>2, <3>2 DEF Crash, TypeOK
      <4>. QED BY <3>2, <4>1 DEF EntryStep
    <3>. QED BY <3>1, <3>2
  <2>3. pc'[w] = "idle"
    BY <1>0, <1>8, TypeParts, FinishEffect DEF Crash
  <2>. QED BY <1>2, <2>1, <2>2, <2>3
<1>9. ASSUME NEW w \in Workers, Commits(w)
      PROVE  AccessInv'
  <2>1. cache' = cache /\ pc[w] = "commit"
    BY <1>0, <1>9, CommitType
       DEF Commits, AssignRoleToUser, RevokeRoleFromUser, CreateRole,
           DeleteRole, GrantPermissionToRole, RevokePermissionFromRole,
           CreatePermission, BanUser, UnbanUser, Logout, Login, Committed
  <2>2. TypeOK' /\ Others(w) /\ Effect(w) /\ NoOrphanLinks' /\ NamesUnique'
    BY <1>0, <1>9, CommitType, CommitEffect
  <2>. QED BY <1>3, <1>9, <2>1, <2>2, CommitOwn, Together
<1>10. CASE Tick
  <2>1. /\ UNCHANGED <<active, sess, role, perms, held, grants, pc, call,
                       view, clean, dirty, rev, liveAt, changes>>
    BY <1>10 DEF Tick, tables, locals
  <2>2. TypeOK' /\ Served' /\ Known' /\ Holds'
    BY <1>0, <1>10, <2>1, TickType
       DEF Served, Serves, Known, SessionsKnown, Holds, Written, Busy
  <2>3. Separate' /\ NoOrphanLinks' /\ NamesUnique'
    BY <1>0, <2>1 DEF Separate, Apart, Busy, NoOrphanLinks, NamesUnique
  <2>4. \A w \in Workers : ViewFits(w)'
    BY <1>0, <2>1 DEF Fits, ViewFits, Agrees, actor
  <2>5. ASSUME NEW u \in Users PROVE EntryFits(u)'
    <3>1. CASE cache'[u] = None
      BY <3>1 DEF EntryFits
    <3>2. CASE cache'[u] # None
      <4>1. /\ cache[u] # None
            /\ cache'[u] = [cache[u] EXCEPT !.ttl = @ - 1]
        BY <1>10, <2>5, <3>2 DEF Tick
      <4>2. cache[u] \in Entry
        BY <1>0, <2>5, <4>1 DEF TypeOK
      <4>3. cache'[u].view = cache[u].view /\ cache'[u].clean = cache[u].clean
        BY <4>1, <4>2 DEF Entry
      <4>4. EntryFits(u)
        BY <1>0, <2>5 DEF Fits
      <4>. QED BY <2>1, <4>1, <4>3, <4>4 DEF EntryFits, Agrees
    <3>. QED BY <3>1, <3>2
  <2>. QED BY <2>2, <2>3, <2>4, <2>5 DEF AccessInv, Fits
<1>. QED BY <1>1, <1>4, <1>5, <1>6, <1>7, <1>8, <1>9, <1>10
         DEF Next, Work, Commits

LEMMA AccessHolds == Spec => []AccessInv
BY AccessInit, AccessStep, PTL DEF Spec

\* Tables, cache and requests have their types.
THEOREM AccessTypes == Spec => []TypeOK
<1>1. AccessInv => TypeOK
  BY DEF AccessInv
<1>. QED BY <1>1, AccessHolds, PTL

\* A request whose session was revoked before it arrived gets no further
\* than the session check, whatever Redis still says of its account.
THEOREM RevokedIsShutOut == Spec => []SessionEndsAccess
<1>1. AccessInv => SessionEndsAccess
  BY DEF AccessInv, Known, SessionsKnown, SessionEndsAccess
<1>. QED BY <1>1, AccessHolds, PTL

\* A link never refers to a role or permission that is not there, although
\* the use cases look the role up in one statement and insert in another.
THEOREM LinksAreWhole == Spec => []NoOrphanLinks
<1>1. AccessInv => NoOrphanLinks
  BY DEF AccessInv
<1>. QED BY <1>1, AccessHolds, PTL

\* A role name belongs to one role however many requests create it together.
THEOREM RoleNamesUnique == Spec => []NamesUnique
<1>1. AccessInv => NamesUnique
  BY DEF AccessInv
<1>. QED BY <1>1, AccessHolds, PTL

\* A cached account differs from the database only while its eviction is
\* outstanding, after one that was lost in a crash, or when it was loaded
\* before a change and stored after it.
THEOREM StaleOnlyByRace == Spec => []StaleOnlyByLateSet
<1>1. AccessInv => StaleOnlyByLateSet
  BY DEF AccessInv, Fits, EntryFits, Agrees, StaleOnlyByLateSet
<1>. QED BY <1>1, AccessHolds, PTL

=============================================================================
