--------------------------- MODULE GatewayProofs ----------------------------
(***************************************************************************)
(* What the gateway keeps to, for any number of requests, sessions and     *)
(* connections and any mix of calls.                                       *)
(*                                                                         *)
(* GatewayTypes           the type invariant.                              *)
(* ConnectionsReturned    connections are held by requests that use them.  *)
(* RevokedStaysUnnamed    a session revoked before a request arrived is    *)
(*                        not named to a service by it.                    *)
(* CallerIsNamed,         where cookies are Secure: the caller named is    *)
(* LiveCallerIsNamed      the one the request itself shows, and is named   *)
(*                        as long as the session is open.                  *)
(***************************************************************************)
EXTENDS Gateway, FiniteSetTheorems, TLAPS

-----------------------------------------------------------------------------
\* What a request that has not arrived looks like, and who may be late.
Blank ==
    /\ call \in [Requests -> Calls \cup {None}]
    /\ \A r \in Requests : at[r] = "idle" =>
          /\ call[r] = None /\ identity[r] = None /\ told[r] = Untold
    /\ \A r \in late : at[r] = "done"

\* r is a login whose session is s.
LogsIn(r, s) == at[r] # "idle" /\ call[r].op = "login" /\ call[r].session = s

\* r is behind the upstream: nobody will serve it any more.
WasServed(r) ==
    at[r] \in {"early", "served", "streaming", "done"} /\ r \notin late

\* A session is opened by one login and by serving it once.
Logins ==
    /\ \A q, r \in Requests, s \in Sessions :
          LogsIn(q, s) /\ LogsIn(r, s) => q = r
    /\ \A s \in Sessions \ SignedIn : session[s] # "none" =>
          \E q \in Requests : LogsIn(q, s) /\ WasServed(q)

\* What a request knows of its caller.  A session it found revoked stays
\* revoked; the one it shows exists.
Knows(r) ==
    /\ \A s \in deadAt[r] : session[s] = "revoked"
    /\ identity[r] \notin deadAt[r]
    /\ told[r].user \notin deadAt[r]
    /\ at[r] # "idle" /\ Own(call[r]) \in Sessions =>
          session[Own(call[r])] # "none"

GatewayInv ==
    TypeOK /\ Blank /\ Logins /\ \A r \in Requests : Knows(r)

\* Nothing leaves the jar of the shared client.
Secure == \A c \in Configs : c.secure

\* The lookup of r is behind it.
Looked == {"asked", "forward", "sent", "served"} \cup ClientsTurn

\* The lookup sees the credential of r and no other, and its result is what
\* the content service is told.
Names(r) ==
    /\ at[r] # "idle" =>
          /\ carried[r] = call[r].cookie
          /\ identity[r] \in {None, Own(call[r])}
          /\ told[r].user \in {None, Own(call[r])}
          /\ told[r].visitor # None => call[r].cookie # None
          /\ /\ call[r].op = "content" /\ at[r] \in Looked /\ r \notin blind
             /\ Authenticate(Own(call[r]))
             => identity[r] = Own(call[r])
    /\ at[r] \in {"sent", "served"} \cup ClientsTurn /\ call[r].op = "content"
       => told[r].user = identity[r]
    /\ at[r] \in Stages \ {"idle", "done"} /\ call[r].op = "content" =>
          config.content

NamesInv == \A r \in Requests : Names(r)

-----------------------------------------------------------------------------
(***************************************************************************)
(* The routing table, the service and the types.                           *)
(***************************************************************************)
LEMMA ContentRoute ==
    ASSUME NEW c, c.op = "content"
    PROVE  /\ match(c).upstream = IF config.content THEN "content" ELSE None
           /\ match(c).inject_identity = TRUE
<1>0. build_routes[1] =
         Route("/content", IF config.content THEN "content" ELSE None, TRUE)
  BY DEF build_routes
<1>1. /\ build_routes[1].prefix = "/content"
      /\ build_routes[2].prefix = "/users"
      /\ build_routes[3].prefix = "/admin" /\ build_routes[4].prefix = "/auth"
      /\ DOMAIN build_routes = 1..4
  BY DEF build_routes, Route
<1> DEFINE owners == {i \in DOMAIN build_routes :
                         build_routes[i].prefix = Prefix(c)}
<1>2. owners = {1}
  BY <1>1 DEF Prefix
<1>3. (CHOOSE i \in owners : \A j \in owners : i <= j) = 1
  BY <1>2
<1>4. match(c) = build_routes[1]
  BY <1>2, <1>3 DEF match
<1>. QED BY <1>0, <1>4 DEF Route

LEMMA CallFields ==
    ASSUME NEW c \in Calls
    PROVE  /\ c.op \in Ops /\ c.session \in Sessions \cup {None}
           /\ c.cookie \in Sessions \cup {Bare, None}
           /\ c.bearer \in Sessions \cup {None}
           /\ c.op = "login" => c.session \in Sessions \ SignedIn
BY GatewayAssumption DEF Call

\* Serving a request opens the session of a login or revokes an open one.
LEMMA Serving ==
    ASSUME TypeOK, NEW r \in Requests, at[r] # "idle"
    PROVE  /\ Serves(r) \in Codes
           /\ \/ SessionsAfter(r) = session
              \/ /\ call[r].op = "login" /\ call[r].session \in Sessions
                 /\ SessionsAfter(r) =
                       [session EXCEPT ![call[r].session] = "open"]
              \/ \E s \in Sessions :
                    /\ session[s] = "open"
                    /\ SessionsAfter(r) = [session EXCEPT ![s] = "revoked"]
<1>1. call[r] \in Calls
  BY DEF TypeOK
<1>2. Serves(r) \in Codes
  BY DEF Serves, Codes
<1>3. CASE call[r].op = "login" /\ Serves(r) = 200
  BY <1>1, <1>2, <1>3, CallFields DEF SessionsAfter
<1>4. CASE call[r].op = "logout" /\ Serves(r) = 204
  <2>1. Authenticate(get_access_token(r))
    BY <1>4 DEF Serves
  <2>2. /\ get_access_token(r) \in Sessions
        /\ session[get_access_token(r)] = "open"
    BY <2>1 DEF Authenticate
  <2>3. SessionsAfter(r) = [session EXCEPT ![get_access_token(r)] = "revoked"]
    BY <1>4 DEF SessionsAfter
  <2>. QED BY <1>2, <2>2, <2>3
<1>5. CASE /\ ~(call[r].op = "login" /\ Serves(r) = 200)
           /\ ~(call[r].op = "logout" /\ Serves(r) = 204)
  BY <1>2, <1>5 DEF SessionsAfter
<1>. QED BY <1>2, <1>3, <1>4, <1>5

LEMMA TypeInit == Init => TypeOK /\ Blank
BY GatewayAssumption
   DEF Init, TypeOK, Blank, Stages, Upstream, ClientsTurn, Codes, Headers,
       Untold

LEMMA ProxyType ==
    ASSUME TypeOK, Blank, NEW r \in Requests, NEW c \in Calls, proxy(r, c)
    PROVE  TypeOK' /\ Blank'
<1>1. carried' \in [Requests -> Sessions \cup {Bare, None}]
  BY CallFields DEF proxy, build_request, TypeOK
<1>2. \E s \in Stages \ {"idle"}, n \in Codes :
         at' = [at EXCEPT ![r] = s] /\ code' = [code EXCEPT ![r] = n]
  <2>1. code = [code EXCEPT ![r] = code[r]] /\ code[r] \in Codes
    BY DEF TypeOK
  <2>2. \/ Answer(r, 404) \/ Answer(r, 503)
        \/ (GoTo(r, "resolve") \/ GoTo(r, "forward")) /\ UNCHANGED code
    BY DEF proxy
  <2>. QED BY <2>1, <2>2 DEF GoTo, Answer, Stages, Codes
<1>3. /\ call' = [call EXCEPT ![r] = c]
      /\ deadAt' \in [Requests -> SUBSET Sessions]
      /\ UNCHANGED <<config, session, jar, pool, identity, reply, late, told,
                     blind>>
  BY DEF proxy, TypeOK
<1>4. r \notin late
  BY DEF proxy, Blank
<1>. QED BY <1>1, <1>2, <1>3, <1>4 DEF TypeOK, Blank

\* What GoOn does to the handler of r.
LEMMA GoesOn ==
    ASSUME TypeOK, NEW r \in Requests, at[r] # "idle", GoOn(r)
    PROVE  /\ \E s \in {"forward", "done"}, n \in Codes :
                 at' = [at EXCEPT ![r] = s] /\ code' = [code EXCEPT ![r] = n]
           /\ carried' \in [Requests -> Sessions \cup {Bare, None}]
<1>1. call[r] \in Calls
  BY DEF TypeOK
<1>2. code = [code EXCEPT ![r] = code[r]] /\ code[r] \in Codes /\ 401 \in Codes
  BY DEF TypeOK, Codes
<1>3. \/ Answer(r, 401) /\ UNCHANGED carried
      \/ GoTo(r, "forward") /\ build_request(r, call[r]) /\ UNCHANGED code
  BY DEF GoOn
<1>4. CASE Answer(r, 401) /\ UNCHANGED carried
  BY <1>2, <1>4 DEF Answer, GoTo, TypeOK
<1>5. CASE GoTo(r, "forward") /\ build_request(r, call[r]) /\ UNCHANGED code
  <2>1. carried' \in [Requests -> Sessions \cup {Bare, None}]
    BY <1>1, <1>5, CallFields DEF build_request, TypeOK
  <2>2. at' = [at EXCEPT ![r] = "forward"]
        /\ code' = [code EXCEPT ![r] = code[r]]
    BY <1>2, <1>5 DEF GoTo
  <2>. QED BY <1>2, <2>1, <2>2
<1>. QED BY <1>3, <1>4, <1>5

LEMMA HandleType ==
    ASSUME TypeOK, Blank, NEW r \in Requests, Handle(r)
    PROVE  TypeOK' /\ Blank'
<1>1. CASE resolve(r)
  BY <1>1 DEF resolve, Take, GoTo, TypeOK, Blank, Stages, Upstream,
              ClientsTurn, history
<1>2. CASE Resolved(r)
  <2>1. at[r] = "asked" /\ r \notin late
    BY <1>2 DEF Resolved, Blank
  <2>2. /\ \E s \in {"forward", "done"}, n \in Codes :
              at' = [at EXCEPT ![r] = s] /\ code' = [code EXCEPT ![r] = n]
        /\ carried' \in [Requests -> Sessions \cup {Bare, None}]
    <3>1. CASE call[r].op = "ready"
      BY <1>2, <3>1 DEF Resolved, Answer, GoTo, Codes, TypeOK
    <3>2. CASE call[r].op # "ready"
      BY <1>2, <2>1, <3>2, GoesOn DEF Resolved
    <3>. QED BY <3>1, <3>2
  <2>3. /\ at' \in [Requests -> Stages] /\ code' \in [Requests -> Codes]
        /\ \A q \in Requests : at'[q] = at[q] \/ (q = r /\ at'[q] # "idle")
    BY <2>2 DEF TypeOK, Stages
  <2>4. /\ identity' \in [Requests -> Sessions \cup {None}]
        /\ \A q \in Requests \ {r} : identity'[q] = identity[q]
        /\ pool' \subseteq Requests /\ blind' \subseteq Requests
        /\ UNCHANGED <<config, session, jar, call, reply, late, told, deadAt>>
    BY <1>2 DEF Resolved, Release, TypeOK, history
  <2>5. TypeOK'
    BY <2>1, <2>2, <2>3, <2>4 DEF TypeOK
  <2>6. Blank'
    BY <2>1, <2>3, <2>4 DEF TypeOK, Blank
  <2>. QED BY <2>5, <2>6
<1>3. CASE LookupFails(r)
  <2>1. at[r] \in {"resolve", "asking", "asked"} /\ r \notin late
    BY <1>3 DEF LookupFails, Blank
  <2>2. /\ \E s \in {"forward", "done"}, n \in Codes :
              at' = [at EXCEPT ![r] = s] /\ code' = [code EXCEPT ![r] = n]
        /\ carried' \in [Requests -> Sessions \cup {Bare, None}]
    <3>1. CASE call[r].op = "ready"
      BY <1>3, <3>1 DEF LookupFails, Answer, GoTo, Codes, TypeOK
    <3>2. CASE call[r].op # "ready"
      BY <1>3, <2>1, <3>2, GoesOn DEF LookupFails
    <3>. QED BY <3>1, <3>2
  <2>3. /\ at' \in [Requests -> Stages] /\ code' \in [Requests -> Codes]
        /\ \A q \in Requests : at'[q] = at[q] \/ (q = r /\ at'[q] # "idle")
    BY <2>2 DEF TypeOK, Stages
  <2>4. /\ identity' \in [Requests -> Sessions \cup {None}]
        /\ \A q \in Requests \ {r} : identity'[q] = identity[q]
        /\ pool' \subseteq Requests /\ blind' \subseteq Requests
        /\ UNCHANGED <<config, session, jar, call, reply, late, told, deadAt>>
    BY <1>3 DEF LookupFails, Release, TypeOK, history
  <2>5. TypeOK'
    BY <2>1, <2>2, <2>3, <2>4 DEF TypeOK
  <2>6. Blank'
    BY <2>1, <2>3, <2>4 DEF TypeOK, Blank
  <2>. QED BY <2>5, <2>6
<1>4. CASE forward(r)
  <2>1. build_forward_headers(r) \in Headers
    BY DEF build_forward_headers, Headers, TypeOK
  <2>. QED BY <1>4, <2>1
           DEF forward, Take, GoTo, TypeOK, Blank, Stages, Upstream,
               ClientsTurn
<1>5. CASE HeadersBack(r)
  <2>1. call[r].session \in Sessions \cup {None}
    BY <1>5, CallFields DEF HeadersBack, TypeOK
  <2>. QED BY <1>5, <2>1
           DEF HeadersBack, GoTo, TypeOK, Blank, Stages, Upstream,
               ClientsTurn, history
<1>6. CASE Fails(r)
  BY <1>6 DEF Fails, Release, Answer, GoTo, TypeOK, Blank, Stages, Codes,
              history
<1>. QED BY <1>1, <1>2, <1>3, <1>4, <1>5, <1>6 DEF Handle

\* A body comes to its end, or is broken off and the connection given back.
LEMMA BodyMoves ==
    ASSUME TypeOK, NEW r \in Requests, Body(r)
    PROVE  /\ at[r] \in ClientsTurn
           /\ \/ /\ at[r] = "uploading" /\ at' = [at EXCEPT ![r] = "sent"]
                 /\ UNCHANGED <<pool, code, late>>
              \/ /\ at[r] = "early" /\ at' = [at EXCEPT ![r] = "served"]
                 /\ UNCHANGED <<pool, code, late>>
              \/ /\ at' = [at EXCEPT ![r] = "done"] /\ pool' = pool \ {r}
                 /\ code' \in [Requests -> Codes]
                 /\ \/ late' = late
                    \/ at[r] = "uploading" /\ late' = late \cup {r}
           /\ UNCHANGED <<config, session, jar, call, carried, identity, reply,
                          told, deadAt, blind>>
<1>1. CASE UploadEnds(r)
  BY <1>1 DEF UploadEnds, GoTo, ClientsTurn, history
<1>2. CASE StreamEnds(r)
  BY <1>2 DEF StreamEnds, GoTo, Release, ClientsTurn, TypeOK, history
<1>3. ASSUME NEW n \in Codes, BreakOff(r, n)
      PROVE  /\ at[r] \in ClientsTurn
             /\ at' = [at EXCEPT ![r] = "done"] /\ pool' = pool \ {r}
             /\ code' \in [Requests -> Codes]
             /\ \/ late' = late
                \/ at[r] = "uploading" /\ late' = late \cup {r}
             /\ UNCHANGED <<config, session, jar, call, carried, identity,
                            reply, told, deadAt, blind>>
  BY <1>3 DEF BreakOff, Answer, GoTo, Release, ClientsTurn, TypeOK, history
<1>4. CASE UploadFails(r) \/ UploadStops(r)
  <2>1. PICK n \in Codes : BreakOff(r, n)
    BY <1>4 DEF UploadFails, UploadStops, Codes
  <2>. QED BY <2>1, <1>3
<1>. QED BY <1>1, <1>2, <1>4 DEF Body

LEMMA UpstreamType ==
    ASSUME TypeOK, Blank, NEW r \in Requests,
           Body(r) \/ UsersAnswer(r) \/ Serve(r) \/ ServeLate(r)
    PROVE  TypeOK' /\ Blank'
<1>1. CASE UsersAnswer(r)
  <2>1. identity' \in [Requests -> Sessions \cup {None}]
    BY <1>1 DEF UsersAnswer, Authenticate, TypeOK
  <2>. QED BY <1>1, <2>1
           DEF UsersAnswer, GoTo, TypeOK, Blank, Stages, Upstream,
               ClientsTurn, Codes,
               history
<1>2. CASE Serve(r)
  <2>1. /\ at[r] # "idle" /\ Serves(r) \in Codes
        /\ session' \in [Sessions -> {"none", "open", "revoked"}]
    BY <1>2, Serving DEF Serve, TypeOK
  <2>. QED BY <1>2, <2>1
           DEF Serve, GoTo, TypeOK, Blank, Stages, Upstream, ClientsTurn,
               history
<1>3. CASE ServeLate(r)
  <2>1. at[r] = "done"
    BY <1>3 DEF ServeLate, Blank
  <2>2. session' \in [Sessions -> {"none", "open", "revoked"}]
    BY <1>3, <2>1, Serving DEF ServeLate, TypeOK
  <2>. QED BY <1>3, <2>2 DEF ServeLate, TypeOK, Blank, history
<1>4. CASE Body(r)
  BY <1>4, BodyMoves DEF TypeOK, Blank, Stages, Upstream, ClientsTurn
<1>. QED BY <1>1, <1>2, <1>3, <1>4

LEMMA TypeStep == TypeOK /\ Blank /\ [Next]_vars => TypeOK' /\ Blank'
<1> SUFFICES ASSUME TypeOK, Blank, [Next]_vars PROVE TypeOK' /\ Blank'
  OBVIOUS
<1>1. CASE UNCHANGED vars
  BY <1>1 DEF vars, history, TypeOK, Blank
<1>2. ASSUME NEW s \in Sessions, Revoke(s) PROVE TypeOK' /\ Blank'
  BY <1>2 DEF Revoke, TypeOK, Blank, history
<1>. QED BY <1>1, <1>2, ProxyType, HandleType, UpstreamType DEF Next, Quiet

\* Every value the gateway keeps has its type.
THEOREM GatewayTypes == Spec => []TypeOK
BY TypeInit, TypeStep, PTL DEF Spec

-----------------------------------------------------------------------------
(***************************************************************************)
(* Connections.                                                            *)
(***************************************************************************)
\* A step of the handler of r takes a connection on its way upstream, gives
\* it back on its way out, or stays where it is.
LEMMA PoolUse ==
    ASSUME TypeOK, Blank, NEW r \in Requests,
           \/ \E c \in Calls : proxy(r, c)
           \/ Handle(r) \/ Body(r)
           \/ UsersAnswer(r) \/ Serve(r) \/ ServeLate(r)
    PROVE  /\ \A q \in Requests \ {r} : at'[q] = at[q]
           /\ \/ /\ at[r] \notin Upstream /\ at'[r] \in Upstream
                 /\ Cardinality(pool) < MaxPool /\ pool' = pool \cup {r}
              \/ at'[r] \notin Upstream /\ pool' = pool \ {r}
              \/ (at[r] \in Upstream <=> at'[r] \in Upstream) /\ pool' = pool
<1>1. CASE \E c \in Calls : proxy(r, c)
  <2>1. PICK c \in Calls : proxy(r, c)
    BY <1>1
  <2>2. \/ at' = [at EXCEPT ![r] = "done"]
        \/ at' = [at EXCEPT ![r] = "resolve"]
        \/ at' = [at EXCEPT ![r] = "forward"]
    BY <2>1 DEF proxy, Answer, GoTo
  <2>. QED BY <2>1, <2>2 DEF proxy, TypeOK, Upstream, ClientsTurn
<1>2. CASE resolve(r) \/ forward(r)
  BY <1>2 DEF resolve, forward, Take, GoTo, TypeOK, Upstream, ClientsTurn
<1>3. CASE Resolved(r) \/ LookupFails(r)
  <2>1. \/ at' = [at EXCEPT ![r] = "done"]
        \/ at' = [at EXCEPT ![r] = "forward"]
    BY <1>3 DEF Resolved, LookupFails, GoOn, Answer, GoTo
  <2>. QED BY <1>3, <2>1 DEF Resolved, LookupFails, Release, TypeOK, Upstream,
                             ClientsTurn
<1>4. CASE Fails(r)
  BY <1>4 DEF Fails, Release, Answer, GoTo, TypeOK, Upstream, ClientsTurn
<1>5. CASE HeadersBack(r) \/ UsersAnswer(r) \/ Serve(r) \/ ServeLate(r)
  BY <1>5 DEF HeadersBack, UsersAnswer, Serve, ServeLate, GoTo, TypeOK,
              Upstream, ClientsTurn
<1>6. CASE Body(r)
  BY <1>6, BodyMoves DEF TypeOK, Upstream, ClientsTurn
<1>. QED BY <1>1, <1>2, <1>3, <1>4, <1>5, <1>6 DEF Handle

LEMMA NoLeakStep == TypeOK /\ Blank /\ NoLeak /\ [Next]_vars => NoLeak'
<1> SUFFICES ASSUME TypeOK, Blank, NoLeak, [Next]_vars PROVE NoLeak'
  OBVIOUS
<1>1. CASE UNCHANGED vars
  BY <1>1 DEF vars, NoLeak
<1>2. CASE \E s \in Sessions : Revoke(s)
  BY <1>2 DEF Revoke, NoLeak
<1>3. ASSUME NEW r \in Requests,
             \/ \E c \in Calls : proxy(r, c)
             \/ Handle(r) \/ Body(r)
             \/ UsersAnswer(r) \/ Serve(r) \/ ServeLate(r)
      PROVE  NoLeak'
  <2>1. /\ IsFiniteSet(pool) /\ Cardinality(pool) \in Nat
        /\ MaxPool \in Nat
    BY GatewayAssumption, FS_Subset, FS_CardinalityType DEF TypeOK
  <2>2. /\ Cardinality(pool \cup {r}) =
              IF r \in pool THEN Cardinality(pool) ELSE Cardinality(pool) + 1
        /\ Cardinality(pool \ {r}) =
              IF r \in pool THEN Cardinality(pool) - 1 ELSE Cardinality(pool)
    BY <2>1, FS_AddElement, FS_RemoveElement
  <2>3. Cardinality(pool') <= MaxPool
    <3>1. /\ \/ Cardinality(pool) < MaxPool /\ pool' = pool \cup {r}
             \/ pool' = pool \ {r}
             \/ pool' = pool
          /\ Cardinality(pool) <= MaxPool
      BY <1>3, PoolUse DEF NoLeak
    <3>2. \/ /\ Cardinality(pool) < MaxPool
             /\ Cardinality(pool') = Cardinality(pool \cup {r})
          \/ Cardinality(pool') = Cardinality(pool \ {r})
          \/ Cardinality(pool') = Cardinality(pool)
      BY <3>1, Zenon
    <3>. QED BY <2>1, <2>2, <3>1, <3>2
  <2>4. pool' = {q \in Requests : at'[q] \in Upstream}
    BY <1>3, PoolUse DEF NoLeak
  <2>. QED BY <2>3, <2>4 DEF NoLeak
<1>. QED BY <1>1, <1>2, <1>3 DEF Next, Quiet

\* The connections taken from the pool are those of the requests that talk
\* to an upstream, never more than the pool holds: no path through the
\* handler, failures included, keeps one.
THEOREM ConnectionsReturned == Spec => []NoLeak
<1>1. Init => NoLeak
  BY GatewayAssumption, FS_EmptySet DEF Init, NoLeak, Upstream, ClientsTurn
<1>. QED BY <1>1, TypeInit, TypeStep, NoLeakStep, PTL DEF Spec

-----------------------------------------------------------------------------
(***************************************************************************)
(* Sessions and callers.                                                   *)
(***************************************************************************)
\* A step leaves the arguments and the history of the requests that have
\* arrived alone, and what belongs to other requests.
LEMMA Frame ==
    ASSUME TypeOK, Blank, NEW r \in Requests,
           \/ Handle(r) \/ Body(r)
           \/ UsersAnswer(r) \/ Serve(r) \/ ServeLate(r)
    PROVE  /\ UNCHANGED <<call, config, deadAt>>
           /\ at[r] # "idle" /\ at'[r] # "idle"
           /\ ~Serve(r) /\ ~ServeLate(r) => session' = session
           /\ \A q \in Requests \ {r} :
                 /\ at'[q] = at[q] /\ identity'[q] = identity[q]
                 /\ told'[q] = told[q] /\ carried'[q] = carried[q]
                 /\ q \in blind' <=> q \in blind
                 /\ q \in late' <=> q \in late
<1>1. CASE resolve(r) \/ forward(r)
  BY <1>1 DEF resolve, forward, GoTo, TypeOK, history
<1>2. CASE Resolved(r) \/ LookupFails(r)
  <2>1. \/ at' = [at EXCEPT ![r] = "done"]
        \/ at' = [at EXCEPT ![r] = "forward"]
    BY <1>2 DEF Resolved, LookupFails, GoOn, Answer, GoTo
  <2>2. \A q \in Requests \ {r} : carried'[q] = carried[q]
    BY <1>2 DEF Resolved, LookupFails, GoOn, build_request, TypeOK
  <2>3. /\ at[r] # "idle" /\ UNCHANGED <<call, config, deadAt, session, late>>
        /\ \A q \in Requests \ {r} :
              /\ identity'[q] = identity[q] /\ told'[q] = told[q]
              /\ q \in blind' <=> q \in blind
    BY <1>2 DEF Resolved, LookupFails, TypeOK, history
  <2>. QED BY <2>1, <2>2, <2>3 DEF TypeOK
<1>3. CASE Fails(r)
  BY <1>3 DEF Fails, Answer, GoTo, TypeOK, history
<1>4. CASE HeadersBack(r) \/ UsersAnswer(r)
  BY <1>4 DEF HeadersBack, UsersAnswer, GoTo, TypeOK, history
<1>5. CASE Serve(r) \/ ServeLate(r)
  BY <1>5 DEF Serve, ServeLate, GoTo, TypeOK, Blank, history
<1>6. CASE Body(r)
  BY <1>6, BodyMoves DEF TypeOK, ClientsTurn
<1>. QED BY <1>1, <1>2, <1>3, <1>4, <1>5, <1>6 DEF Handle

\* A request is served once.
LEMMA ServedForGood ==
    ASSUME TypeOK, Blank, NEW r \in Requests,
           \/ Handle(r) \/ Body(r)
           \/ UsersAnswer(r) \/ Serve(r) \/ ServeLate(r),
           WasServed(r)
    PROVE  WasServed(r)'
<1>1. CASE resolve(r) \/ forward(r)
  BY <1>1 DEF resolve, forward, WasServed
<1>2. CASE Resolved(r) \/ LookupFails(r)
  BY <1>2 DEF Resolved, LookupFails, WasServed
<1>3. CASE Fails(r)
  BY <1>3 DEF Fails, Answer, GoTo, TypeOK, WasServed
<1>4. CASE HeadersBack(r) \/ UsersAnswer(r)
  BY <1>4 DEF HeadersBack, UsersAnswer, GoTo, TypeOK, WasServed
<1>5. CASE Serve(r) \/ ServeLate(r)
  BY <1>5 DEF Serve, ServeLate, GoTo, TypeOK, Blank, WasServed
<1>6. CASE Body(r)
  BY <1>6, BodyMoves DEF TypeOK, WasServed
<1>. QED BY <1>1, <1>2, <1>3, <1>4, <1>5, <1>6 DEF Handle

LEMMA ServedOnce ==
    ASSUME TypeOK, Blank, NEW r \in Requests, Serve(r) \/ ServeLate(r)
    PROVE  ~WasServed(r) /\ WasServed(r)'
BY DEF Serve, ServeLate, GoTo, TypeOK, Blank, WasServed

\* The sessions a step changes: a login opens one that was not there, and
\* what is open may be revoked.  A revoked session stays revoked.
LEMMA SessionStep ==
    ASSUME TypeOK, Blank, Logins, Next, NEW s \in Sessions
    PROVE  \/ session'[s] = session[s]
           \/ /\ session[s] = "none" /\ session'[s] = "open"
              /\ \E r \in Requests : /\ Serve(r) \/ ServeLate(r)
                                     /\ LogsIn(r, s)
           \/ session[s] = "open" /\ session'[s] = "revoked"
<1>1. CASE \E x \in Sessions : Revoke(x)
  BY <1>1 DEF Revoke, TypeOK
<1>2. CASE \E r \in Requests : \E c \in Calls : proxy(r, c)
  BY <1>2 DEF proxy
<1>3. ASSUME NEW r \in Requests, ~Serve(r), ~ServeLate(r),
             Handle(r) \/ Body(r) \/ UsersAnswer(r)
      PROVE  session'[s] = session[s]
  BY <1>3, Frame
<1>4. CASE Quiet
  BY <1>4 DEF Quiet, vars
<1>5. ASSUME NEW r \in Requests, Serve(r) \/ ServeLate(r)
      PROVE  \/ session'[s] = session[s]
             \/ /\ session[s] = "none" /\ session'[s] = "open"
                /\ LogsIn(r, s)
             \/ session[s] = "open" /\ session'[s] = "revoked"
  <2>1. at[r] # "idle" /\ session' = SessionsAfter(r) /\ call[r] \in Calls
    BY <1>5 DEF Serve, ServeLate, TypeOK, Blank
  <2>2. CASE /\ call[r].op = "login" /\ call[r].session \in Sessions
             /\ SessionsAfter(r) = [session EXCEPT ![call[r].session] = "open"]
    <3>1. CASE s # call[r].session
      BY <2>1, <2>2, <3>1 DEF TypeOK
    <3>2. CASE s = call[r].session
      <4>1. LogsIn(r, s) /\ s \in Sessions \ SignedIn
        BY <2>1, <2>2, <3>2, CallFields DEF LogsIn
      <4>2. ~WasServed(r)
        BY <1>5, ServedOnce
      <4>3. session[s] = "none"
        BY <4>1, <4>2 DEF Logins
      <4>4. session'[s] = "open"
        BY <2>1, <2>2, <3>2 DEF TypeOK
      <4>. QED BY <4>1, <4>3, <4>4
    <3>. QED BY <3>1, <3>2
  <2>3. CASE SessionsAfter(r) = session
    BY <2>1, <2>3
  <2>4. CASE \E x \in Sessions :
                /\ session[x] = "open"
                /\ SessionsAfter(r) = [session EXCEPT ![x] = "revoked"]
    BY <2>1, <2>4 DEF TypeOK
  <2>. QED BY <2>1, <2>2, <2>3, <2>4, Serving
<1>. QED BY <1>1, <1>2, <1>3, <1>4, <1>5 DEF Next

\* A login that has arrived stays the login it is, served if it was.
LEMMA LoginStays ==
    ASSUME TypeOK, Blank, Next, NEW q \in Requests, NEW s \in Sessions,
           LogsIn(q, s)
    PROVE  LogsIn(q, s)' /\ (WasServed(q) => WasServed(q)')
<1>1. CASE \E x \in Sessions : Revoke(x)
  BY <1>1 DEF Revoke, LogsIn, WasServed
<1>2. CASE \E r \in Requests : \E c \in Calls : proxy(r, c)
  <2>1. PICK r \in Requests, c \in Calls : proxy(r, c)
    BY <1>2
  <2>2. /\ r # q /\ call'[q] = call[q] /\ late' = late
    BY <2>1 DEF proxy, LogsIn, Blank
  <2>3. at'[q] = at[q]
    BY <2>1, <2>2, PoolUse
  <2>. QED BY <2>2, <2>3 DEF LogsIn, WasServed
<1>3. ASSUME NEW r \in Requests,
             \/ Handle(r) \/ Body(r)
             \/ UsersAnswer(r) \/ Serve(r) \/ ServeLate(r)
      PROVE  LogsIn(q, s)' /\ (WasServed(q) => WasServed(q)')
  <2>1. LogsIn(q, s)'
    BY <1>3, Frame DEF LogsIn
  <2>2. CASE q = r
    BY <1>3, <2>1, <2>2, ServedForGood
  <2>3. CASE q # r
    BY <1>3, <2>1, <2>3, Frame DEF WasServed
  <2>. QED BY <2>2, <2>3
<1>4. CASE Quiet
  BY <1>4 DEF Quiet, vars, LogsIn, WasServed
<1>. QED BY <1>1, <1>2, <1>3, <1>4 DEF Next

LEMMA LoginsStep == TypeOK /\ Blank /\ Logins /\ [Next]_vars => Logins'
<1> SUFFICES ASSUME TypeOK, Blank, Logins, [Next]_vars PROVE Logins'
  OBVIOUS
<1>1. CASE UNCHANGED vars
  BY <1>1 DEF vars, Logins, LogsIn, WasServed
<1>2. CASE Next
  <2>1. ASSUME NEW s \in Sessions \ SignedIn, session'[s] # "none"
        PROVE  \E q \in Requests : LogsIn(q, s)' /\ WasServed(q)'
    <3>1. CASE session[s] # "none"
      BY <1>2, <2>1, <3>1, LoginStays DEF Logins
    <3>2. CASE session[s] = "none"
      <4>1. PICK r \in Requests : (Serve(r) \/ ServeLate(r)) /\ LogsIn(r, s)
        BY <1>2, <2>1, <3>2, SessionStep
      <4>. QED BY <1>2, <4>1, LoginStays, ServedOnce
    <3>. QED BY <3>1, <3>2
  <2>2. ASSUME NEW q \in Requests, NEW r \in Requests, NEW s \in Sessions,
               LogsIn(q, s)', LogsIn(r, s)'
        PROVE  q = r
    <3>1. CASE LogsIn(q, s) /\ LogsIn(r, s)
      BY <3>1 DEF Logins
    <3>2. ASSUME ~(\E x \in Requests : \E c \in Calls : proxy(x, c))
          PROVE  LogsIn(q, s) /\ LogsIn(r, s)
      <4>1. /\ call' = call
            /\ \A x \in Requests : at[x] = "idle" => at'[x] = "idle"
        <5>1. CASE \E x \in Sessions : Revoke(x)
          BY <5>1 DEF Revoke
        <5>2. CASE Quiet
          BY <5>2 DEF Quiet, vars
        <5>3. ASSUME NEW x \in Requests,
                     \/ Handle(x) \/ Body(x)
                     \/ UsersAnswer(x) \/ Serve(x) \/ ServeLate(x)
              PROVE  /\ call' = call
                     /\ \A y \in Requests : at[y] = "idle" => at'[y] = "idle"
          BY <5>3, Frame
        <5>. QED BY <1>2, <3>2, <5>1, <5>2, <5>3 DEF Next
      <4>. QED BY <2>2, <4>1 DEF LogsIn
    <3>3. ASSUME NEW x \in Requests, NEW c \in Calls, proxy(x, c)
          PROVE  q = r
      <4>1. /\ at[x] = "idle" /\ call'[x] = c
            /\ c.op = "login" => \A y \in Requests : at[y] # "idle" =>
                                    call[y].session # c.session
            /\ \A y \in Requests \ {x} : call'[y] = call[y]
        BY <3>3 DEF proxy, Blank
      <4>2. \A y \in Requests \ {x} : at'[y] = at[y]
        BY <3>3, PoolUse
      <4>3. \A y \in Requests \ {x} : LogsIn(y, s)' <=> LogsIn(y, s)
        BY <4>1, <4>2 DEF LogsIn
      <4>4. LogsIn(x, s)' => \A y \in Requests : ~LogsIn(y, s)
        BY <4>1 DEF LogsIn
      <4>. QED BY <2>2, <3>1, <4>3, <4>4
    <3>. QED BY <3>1, <3>2, <3>3
  <2>. QED BY <2>1, <2>2 DEF Logins
<1>. QED BY <1>1, <1>2

\* Whatever happens to other requests, what is revoked stays revoked and
\* what exists stays in the table.
LEMMA SessionFacts ==
    ASSUME TypeOK, Blank, Logins, Next, NEW s \in Sessions
    PROVE  /\ session[s] = "revoked" => session'[s] = "revoked"
           /\ session[s] # "none" => session'[s] # "none"
           /\ session[s] # "none" /\ session'[s] = "open" =>
                 session[s] = "open"
BY SessionStep

LEMMA KnowsArrival ==
    ASSUME GatewayInv, NEW r \in Requests, NEW c \in Calls, proxy(r, c)
    PROVE  Knows(r)'
<1>0. TypeOK /\ Blank /\ None \notin Sessions
  BY GatewayAssumption DEF GatewayInv
<1>1. /\ at[r] = "idle" /\ call'[r] = c /\ session' = session
      /\ identity'[r] = None /\ told'[r] = Untold
      /\ deadAt'[r] = {s \in Sessions : session[s] = "revoked"}
  BY <1>0 DEF proxy, TypeOK, Blank
<1>2. /\ c.cookie \in Sessions => session[c.cookie] # "none"
      /\ c.bearer \in Sessions => session[c.bearer] # "none"
  BY DEF proxy
<1>. QED BY <1>0, <1>1, <1>2 DEF Knows, Untold, Own

\* The lookup finds open sessions only, and a service is told what it found.
LEMMA KnowsHandling ==
    ASSUME TypeOK, Blank, NEW r \in Requests, Knows(r),
           \/ Handle(r) \/ Body(r)
           \/ UsersAnswer(r) \/ Serve(r) \/ ServeLate(r)
    PROVE  /\ identity'[r] \notin deadAt[r]
           /\ told'[r].user \notin deadAt[r]
<1>0. /\ None \notin deadAt[r] /\ identity[r] \notin deadAt[r]
      /\ told[r].user \notin deadAt[r]
  BY GatewayAssumption DEF TypeOK, Knows
<1>1. CASE resolve(r)
  BY <1>0, <1>1 DEF resolve, history
<1>2. CASE Resolved(r) \/ LookupFails(r)
  BY <1>0, <1>2 DEF Resolved, LookupFails, TypeOK, history
<1>3. CASE Fails(r) \/ Body(r)
  BY <1>0, <1>3, BodyMoves DEF Fails, history
<1>4. CASE HeadersBack(r) \/ Serve(r) \/ ServeLate(r)
  BY <1>0, <1>4 DEF HeadersBack, Serve, ServeLate, history
<1>5. CASE UsersAnswer(r)
  <2>1. \/ identity'[r] = None
        \/ /\ Authenticate(get_access_token(r))
           /\ identity'[r] = get_access_token(r)
    BY <1>5 DEF UsersAnswer, TypeOK
  <2>2. identity'[r] \notin deadAt[r]
    BY <1>0, <2>1 DEF Knows, Authenticate
  <2>. QED BY <1>0, <1>5, <2>2 DEF UsersAnswer, history
<1>6. CASE forward(r)
  <2>1. told'[r] \in {told[r], build_forward_headers(r)}
    BY <1>6 DEF forward, TypeOK
  <2>2. told'[r].user \in {told[r].user, identity[r]}
    BY <2>1 DEF build_forward_headers
  <2>. QED BY <1>0, <1>6, <2>2 DEF forward
<1>. QED BY <1>1, <1>2, <1>3, <1>4, <1>5, <1>6 DEF Handle

LEMMA KnowsStep ==
    ASSUME GatewayInv, Next, NEW q \in Requests
    PROVE  Knows(q)'
<1>0. /\ TypeOK /\ Blank /\ Logins /\ Knows(q) /\ deadAt[q] \subseteq Sessions
  BY DEF GatewayInv, TypeOK
<1>1. ASSUME at'[q] = at[q], call'[q] = call[q], deadAt'[q] = deadAt[q],
             identity'[q] \notin deadAt[q], told'[q].user \notin deadAt[q]
      PROVE  Knows(q)'
  <2>1. \A s \in deadAt[q] : session'[s] = "revoked"
    BY <1>0, SessionFacts DEF Knows
  <2>2. at[q] # "idle" /\ Own(call[q]) \in Sessions =>
           session'[Own(call[q])] # "none"
    BY <1>0, SessionFacts DEF Knows
  <2>3. Own(call[q])' = Own(call[q])
    BY <1>1 DEF Own
  <2>. QED BY <1>1, <2>1, <2>2, <2>3 DEF Knows
<1>2. CASE \E s \in Sessions : Revoke(s)
  BY <1>0, <1>1, <1>2 DEF Revoke, Knows, history
<1>3. CASE Quiet
  BY <1>0, <1>1, <1>3 DEF Quiet, vars, Knows, history
<1>4. ASSUME NEW r \in Requests, NEW c \in Calls, proxy(r, c)
      PROVE  Knows(q)'
  <2>1. CASE q = r
    BY <1>4, <2>1, KnowsArrival
  <2>2. CASE q # r
    <3>1. at'[q] = at[q]
      BY <1>0, <1>4, <2>2, PoolUse
    <3>2. /\ call'[q] = call[q] /\ deadAt'[q] = deadAt[q]
          /\ identity' = identity /\ told' = told
      BY <1>0, <1>4, <2>2 DEF proxy, Blank, TypeOK
    <3>. QED BY <1>0, <1>1, <3>1, <3>2 DEF Knows
  <2>. QED BY <2>1, <2>2
<1>5. ASSUME NEW r \in Requests,
             \/ Handle(r) \/ Body(r)
             \/ UsersAnswer(r) \/ Serve(r) \/ ServeLate(r)
      PROVE  Knows(q)'
  <2>1. /\ call' = call /\ deadAt' = deadAt
        /\ at[q] = "idle" <=> at'[q] = "idle"
    BY <1>0, <1>5, Frame
  <2>2. identity'[q] \notin deadAt[q] /\ told'[q].user \notin deadAt[q]
    <3>1. CASE q = r
      BY <1>0, <1>5, <3>1, KnowsHandling
    <3>2. CASE q # r
      BY <1>0, <1>5, <3>2, Frame DEF Knows
    <3>. QED BY <3>1, <3>2
  <2>3. \A s \in deadAt[q] : session'[s] = "revoked"
    BY <1>0, SessionFacts DEF Knows
  <2>4. at[q] # "idle" /\ Own(call[q]) \in Sessions =>
           session'[Own(call[q])] # "none"
    BY <1>0, SessionFacts DEF Knows
  <2>5. Own(call[q])' = Own(call[q])
    BY <2>1 DEF Own
  <2>. QED BY <2>1, <2>2, <2>3, <2>4, <2>5 DEF Knows
<1>. QED BY <1>2, <1>3, <1>4, <1>5 DEF Next

LEMMA GatewayInvStep == GatewayInv /\ [Next]_vars => GatewayInv'
<1> SUFFICES ASSUME GatewayInv, [Next]_vars PROVE GatewayInv'
  OBVIOUS
<1>1. TypeOK' /\ Blank' /\ Logins'
  BY TypeStep, LoginsStep DEF GatewayInv
<1>2. ASSUME NEW q \in Requests PROVE Knows(q)'
  <2>1. CASE Next
    BY <2>1, KnowsStep
  <2>2. CASE UNCHANGED vars
    BY <2>2 DEF vars, history, GatewayInv, Knows, Own
  <2>. QED BY <2>1, <2>2
<1>. QED BY <1>1, <1>2 DEF GatewayInv

LEMMA GatewayInvInit == Init => GatewayInv
<1> SUFFICES ASSUME Init PROVE GatewayInv
  OBVIOUS
<1>1. TypeOK /\ Blank
  BY TypeInit
<1>2. Logins
  BY DEF Init, Logins, LogsIn
<1>3. \A r \in Requests : Knows(r)
  BY DEF Init, Knows
<1>. QED BY <1>1, <1>2, <1>3 DEF GatewayInv

LEMMA GatewayInvariant == Spec => []GatewayInv
BY GatewayInvInit, GatewayInvStep, PTL DEF Spec

\* A session that was revoked when a request arrived is never named to a
\* service by that request, however the revocation came about.
THEOREM RevokedStaysUnnamed == Spec => []RevokedNotAnnounced
<1>1. GatewayInv => RevokedNotAnnounced
  BY DEF GatewayInv, Knows, RevokedNotAnnounced
<1>. QED BY <1>1, GatewayInvariant, PTL

-----------------------------------------------------------------------------
(***************************************************************************)
(* Deployments whose auth cookies are Secure.                              *)
(***************************************************************************)
LEMMA NamesArrival ==
    ASSUME Secure, GatewayInv, NEW r \in Requests, NEW c \in Calls,
           proxy(r, c)
    PROVE  Names(r)'
<1>0. TypeOK /\ Blank /\ config.secure /\ c.op \in Ops
  BY CallFields DEF GatewayInv, TypeOK, Secure
<1>1. /\ call'[r] = c /\ identity'[r] = None /\ told'[r] = Untold
      /\ carried'[r] = c.cookie /\ config' = config
  BY <1>0 DEF proxy, TypeOK, Blank, build_request
<1>2. c.op = "content" => at'[r] \in {"resolve", "done"}
  <2>1. c.op = "content" => match(c).inject_identity
    BY <1>0, ContentRoute
  <2>2. \/ at' = [at EXCEPT ![r] = "done"]
        \/ at' = [at EXCEPT ![r] = "resolve"]
        \/ ~match(c).inject_identity
    BY DEF proxy, Answer, GoTo
  <2>. QED BY <2>1, <2>2 DEF TypeOK, GatewayInv
<1>3. c.op = "content" /\ ~config.content => at'[r] = "done"
  <2>1. c.op = "content" /\ ~config.content => match(c).upstream = None
    BY <1>0, ContentRoute
  <2>2. c.op = "content" /\ match(c).upstream = None =>
           at' = [at EXCEPT ![r] = "done"]
    BY DEF proxy, Answer, GoTo
  <2>. QED BY <2>1, <2>2 DEF TypeOK, GatewayInv
<1>. QED BY <1>0, <1>1, <1>2, <1>3 DEF Names, Looked, ClientsTurn, Untold

\* A caller whose session is open now had it open all along.
LEMMA StillLive ==
    ASSUME GatewayInv, Next, NEW r \in Requests, at[r] # "idle",
           Own(call[r]) \in Sessions, session'[Own(call[r])] = "open"
    PROVE  session[Own(call[r])] = "open"
BY SessionFacts DEF GatewayInv, Knows

LEMMA NamesHandling ==
    ASSUME Secure, GatewayInv, Next, NEW r \in Requests, Names(r),
           \/ Handle(r) \/ Body(r)
           \/ UsersAnswer(r) \/ Serve(r) \/ ServeLate(r)
    PROVE  Names(r)'
<1>0. /\ TypeOK /\ Blank /\ config.secure
      /\ at[r] # "idle" /\ at'[r] # "idle" /\ call' = call /\ config' = config
  BY Frame DEF GatewayInv, TypeOK, Secure
<1>0a. /\ Own(call[r])' = Own(call[r]) /\ carried[r] = call[r].cookie
       /\ call[r].op \in Ops
  BY <1>0, CallFields DEF Own, Names, TypeOK
<1>1. CASE resolve(r)
  <2>1. at'[r] = "asking" /\ at[r] = "resolve"
    BY <1>0, <1>1 DEF resolve, GoTo, TypeOK
  <2>2. /\ session' = session /\ carried' = carried /\ identity' = identity
        /\ told' = told
    BY <1>1 DEF resolve, history
  <2>. QED BY <1>0, <1>0a, <2>1, <2>2 DEF Names, Looked, Stages, ClientsTurn
<1>2. CASE Resolved(r)
  <2>1. at'[r] \in {"forward", "done"} /\ at[r] = "asked"
    BY <1>0, <1>2 DEF Resolved, GoOn, Answer, GoTo, TypeOK
  <2>2. carried'[r] = call[r].cookie
    BY <1>0, <1>0a, <1>2 DEF Resolved, GoOn, build_request, TypeOK
  <2>3. /\ session' = session /\ identity' = identity
        /\ told' = told /\ blind' = blind
    BY <1>2 DEF Resolved, history
  <2>. QED BY <1>0, <1>0a, <2>1, <2>2, <2>3
           DEF Names, Looked, Stages, Upstream, ClientsTurn, Authenticate
<1>3. CASE LookupFails(r)
  <2>1. /\ at'[r] \in {"forward", "done"}
        /\ at[r] \in {"resolve", "asking", "asked"}
    BY <1>0, <1>3 DEF LookupFails, GoOn, Answer, GoTo, TypeOK
  <2>2. carried'[r] = call[r].cookie
    BY <1>0, <1>0a, <1>3 DEF LookupFails, GoOn, build_request, TypeOK
  <2>3. identity'[r] = None /\ told' = told /\ r \in blind'
    BY <1>0, <1>3 DEF LookupFails, TypeOK
  <2>. QED BY <1>0, <1>0a, <2>1, <2>2, <2>3 DEF Names, Stages, Upstream,
                                                ClientsTurn
<1>4. CASE UsersAnswer(r)
  <2>1. get_access_token(r) = Own(call[r])
    BY <1>0a DEF get_access_token, Own
  <2>2. at'[r] = "asked" /\ at[r] = "asking"
    BY <1>0, <1>4 DEF UsersAnswer, GoTo, TypeOK
  <2>3. identity'[r] = IF call[r].op # "ready" /\ Authenticate(Own(call[r]))
                       THEN Own(call[r]) ELSE None
    BY <1>0, <1>4, <2>1 DEF UsersAnswer, TypeOK
  <2>4. session' = session /\ carried' = carried /\ told' = told
    BY <1>4 DEF UsersAnswer, history
  <2>. QED BY <1>0, <1>0a, <2>2, <2>3, <2>4
           DEF Names, Stages, Upstream, ClientsTurn, Authenticate
<1>5. CASE forward(r)
  <2>1. at'[r] = "uploading" /\ at[r] = "forward"
    BY <1>0, <1>5 DEF forward, GoTo, TypeOK
  <2>2. /\ session' = session /\ carried' = carried /\ identity' = identity
        /\ blind' = blind
    BY <1>5 DEF forward
  <2>3. told'[r] = IF match(call[r]).upstream = "content"
                   THEN build_forward_headers(r) ELSE told[r]
    BY <1>0, <1>5 DEF forward, TypeOK
  <2>4. call[r].op = "content" => match(call[r]).upstream = "content"
    BY <1>0, <1>0a, <2>1, ContentRoute DEF Names, Stages
  <2>5. /\ build_forward_headers(r).user = identity[r]
        /\ build_forward_headers(r).visitor # None => call[r].cookie # None
    BY DEF build_forward_headers
  <2>. QED BY <1>0, <1>0a, <2>1, <2>2, <2>3, <2>4, <2>5
           DEF Names, Looked, Stages, Upstream, ClientsTurn, Authenticate
<1>6. CASE Fails(r) \/ Body(r) \/ HeadersBack(r) \/ Serve(r) \/ ServeLate(r)
  <2>1. /\ carried' = carried /\ identity' = identity /\ told' = told
        /\ blind' = blind
    BY <1>0, <1>6, BodyMoves DEF Fails, HeadersBack, Serve, ServeLate, history
  <2>2. \/ at'[r] = "done"
        \/ /\ at[r] \in {"uploading", "early", "sent", "served"}
           /\ at'[r] \in {"early", "sent", "served", "streaming"}
    <3>1. CASE Body(r)
      BY <1>0, <3>1, BodyMoves DEF TypeOK
    <3>2. CASE Fails(r) \/ HeadersBack(r) \/ Serve(r) \/ ServeLate(r)
      BY <1>0, <3>2 DEF Fails, HeadersBack, Serve, ServeLate, Answer, GoTo,
                        TypeOK, Blank
    <3>. QED BY <1>6, <3>1, <3>2
  <2>3. Authenticate(Own(call[r]))' => Authenticate(Own(call[r]))
    BY <1>0, <1>0a, StillLive DEF Authenticate
  <2>. QED BY <1>0, <1>0a, <2>1, <2>2, <2>3 DEF Names, Looked, Stages,
                                                Upstream, ClientsTurn
<1>. QED BY <1>1, <1>2, <1>3, <1>4, <1>5, <1>6 DEF Handle

LEMMA NamesStep ==
    ASSUME Secure, GatewayInv, NamesInv, Next
    PROVE  NamesInv'
<1>0. TypeOK /\ Blank
  BY DEF GatewayInv
<1>1. ASSUME NEW q \in Requests,
             at'[q] = at[q], call'[q] = call[q], config' = config,
             carried'[q] = carried[q], identity'[q] = identity[q],
             told'[q] = told[q], q \in blind' <=> q \in blind
      PROVE  Names(q)'
  <2>1. Own(call[q])' = Own(call[q]) /\ Names(q)
    BY <1>1 DEF Own, NamesInv
  <2>2. at[q] # "idle" /\ Authenticate(Own(call[q]))' =>
           Authenticate(Own(call[q]))
    BY <2>1, StillLive DEF Authenticate
  <2>. QED BY <1>1, <2>1, <2>2 DEF Names
<1>2. CASE \E s \in Sessions : Revoke(s)
  BY <1>1, <1>2 DEF Revoke, NamesInv, history
<1>3. CASE Quiet
  BY <1>1, <1>3 DEF Quiet, vars, NamesInv, history
<1>4. ASSUME NEW r \in Requests, NEW c \in Calls, proxy(r, c)
      PROVE  NamesInv'
  <2>1. ASSUME NEW q \in Requests, q # r PROVE Names(q)'
    <3>1. at'[q] = at[q]
      BY <1>0, <1>4, <2>1, PoolUse
    <3>2. /\ call'[q] = call[q] /\ carried'[q] = carried[q]
          /\ UNCHANGED <<identity, told, blind, config>>
      BY <1>0, <1>4, <2>1 DEF proxy, build_request, Blank, TypeOK
    <3>. QED BY <1>1, <3>1, <3>2
  <2>. QED BY <1>4, <2>1, NamesArrival DEF NamesInv
<1>5. ASSUME NEW r \in Requests,
             \/ Handle(r) \/ Body(r)
             \/ UsersAnswer(r) \/ Serve(r) \/ ServeLate(r)
      PROVE  NamesInv'
  <2>1. ASSUME NEW q \in Requests, q # r PROVE Names(q)'
    BY <1>0, <1>1, <1>5, <2>1, Frame
  <2>. QED BY <1>5, <2>1, NamesHandling DEF NamesInv
<1>. QED BY <1>2, <1>3, <1>4, <1>5 DEF Next

LEMMA NamesInvariant == Secure => (Spec => []NamesInv)
<1> SUFFICES ASSUME Secure PROVE Spec => []NamesInv
  OBVIOUS
<1>1. Init => NamesInv
  BY DEF Init, NamesInv, Names, Stages, ClientsTurn
<1>2. GatewayInv /\ NamesInv /\ [Next]_vars => NamesInv'
  <2>1. GatewayInv /\ NamesInv /\ UNCHANGED vars => NamesInv'
    BY DEF vars, history, NamesInv, Names, Own, Authenticate
  <2>. QED BY <2>1, NamesStep
<1>. QED BY <1>1, <1>2, GatewayInvariant, PTL DEF Spec

\* With Secure cookies the caller named to a service is the one whose
\* credential the request itself carried, and the visitor that of its own
\* cookie, whatever headers the client made up and whoever else is served.
THEOREM CallerIsNamed == Secure => (Spec => []AnnouncedIsCaller)
<1>1. GatewayInv /\ NamesInv => AnnouncedIsCaller
  BY DEF GatewayInv, Blank, NamesInv, Names, AnnouncedIsCaller, Untold
<1>. QED BY <1>1, GatewayInvariant, NamesInvariant, PTL

\* With Secure cookies a caller whose session is still open is named to the
\* content service, unless the lookup failed.
THEOREM LiveCallerIsNamed == Secure => (Spec => []LiveCallerAnnounced)
<1>1. GatewayInv /\ NamesInv => LiveCallerAnnounced
  BY DEF NamesInv, Names, Looked, ClientsTurn, LiveCallerAnnounced
<1>. QED BY <1>1, GatewayInvariant, NamesInvariant, PTL

====
