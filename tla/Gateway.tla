------------------------------ MODULE Gateway ------------------------------
(***************************************************************************)
(* The gateway in front of users_service and the content service: one      *)
(* catch-all handler that finds the route of a request, asks users_service *)
(* who is calling where the route wants to know, replaces the identity     *)
(* headers of the client by its own and streams the answer back.  All      *)
(* upstream calls share one httpx client: its connection pool and its      *)
(* cookie jar.                                                             *)
(*                                                                         *)
(* A session stands for its access token and for the account it belongs    *)
(* to; different sessions belong to different accounts.  What happens      *)
(* inside users_service is in Accounts and AuthCache, here it answers in   *)
(* one step.                                                               *)
(*                                                                         *)
(* Definitions with a suffix (HeadersKept, AuthenticateLocally, ...) are   *)
(* faulty variants of the definition that follows them; nothing uses them, *)
(* they show that the properties can fail.                                 *)
(***************************************************************************)
EXTENDS Naturals, FiniteSets, Sequences

CONSTANTS
    Requests,     \* requests of clients
    Sessions,     \* sessions users_service may open
    SignedIn,     \* the sessions open at the start
    None,         \* no session, no header
    Calls,        \* what clients may ask for
    Configs,      \* the deployments: is content deployed, COOKIE_SECURE
    MaxPool       \* connections the pool holds at most

Ops == {"login", "logout", "me", "content", "ready", "nowhere"}

\* A Cookie header without auth cookies, and an identity header a client
\* made up.
Bare == "bare"
Claimed == "claimed"

Call == [op : Ops, session : Sessions \cup {None},
         cookie : Sessions \cup {Bare, None}, bearer : Sessions \cup {None},
         claims : BOOLEAN]

\* A login draws a new session: the one it names was never there before.
ASSUME GatewayAssumption ==
    /\ Calls \subseteq Call
    /\ \A c \in Calls : c.op = "login" => c.session \in Sessions \ SignedIn
    /\ SignedIn \subseteq Sessions
    /\ Configs \subseteq [content : BOOLEAN, secure : BOOLEAN]
    /\ IsFiniteSet(Requests)
    /\ MaxPool \in Nat \ {0}
    /\ None \notin Sessions \cup {Bare, Claimed}
    /\ Bare \notin Sessions /\ Claimed \notin Sessions

VARIABLES
    config,     \* the settings the process was started with
    session,    \* users_service: "none", "open" or "revoked"
    jar,        \* the auth cookies the shared client remembers
    call,       \* what request r asks for
    at,         \* how far the handler of r is
    pool,       \* the requests that hold an upstream connection
    carried,    \* the auth cookie the upstream request of r carries
    identity,   \* the caller of r as the resolver returned it
    reply,      \* the status code an upstream has answered r with
    code,       \* the status code the client of r was answered with
    late,       \* requests given up by the gateway, not by the upstream
    told,       \* history: the identity headers content saw with r
    deadAt,     \* history: sessions revoked when r arrived
    blind       \* history: requests whose lookup failed

history == <<told, deadAt, blind>>
vars == <<config, session, jar, call, at, pool, carried, identity, reply,
          code, late, history>>

\* The handler is talking to an upstream.  While it is "uploading" the body of
\* the request is underway; the upstream may have done its work "early".
ClientsTurn == {"uploading", "early", "streaming"}
Upstream == {"asking", "asked", "sent", "served"} \cup ClientsTurn
Stages == {"idle", "resolve", "forward", "done"} \cup Upstream
Codes == {0, 200, 204, 401, 403, 404, 499, 502, 503, 504}
Headers == [user : Sessions \cup {Claimed, None},
            visitor : {"cookie", Claimed, None}]
Untold == [user |-> None, visitor |-> None]

TypeOK ==
    /\ config \in Configs
    /\ session \in [Sessions -> {"none", "open", "revoked"}]
    /\ jar \in Sessions \cup {None}
    /\ \A r \in Requests : at[r] # "idle" => call[r] \in Calls
    /\ at \in [Requests -> Stages]
    /\ pool \subseteq Requests
    /\ carried \in [Requests -> Sessions \cup {Bare, None}]
    /\ identity \in [Requests -> Sessions \cup {None}]
    /\ reply \in [Requests -> Codes]
    /\ code \in [Requests -> Codes]
    /\ late \subseteq Requests
    /\ told \in [Requests -> Headers]
    /\ deadAt \in [Requests -> SUBSET Sessions]
    /\ blind \subseteq Requests

Init ==
    /\ config \in Configs
    /\ session = [s \in Sessions |-> IF s \in SignedIn THEN "open" ELSE "none"]
    /\ jar = None
    /\ call = [r \in Requests |-> None]
    /\ at = [r \in Requests |-> "idle"]
    /\ pool = {}
    /\ carried = [r \in Requests |-> None]
    /\ identity = [r \in Requests |-> None]
    /\ reply = [r \in Requests |-> 0]
    /\ code = [r \in Requests |-> 0]
    /\ late = {}
    /\ told = [r \in Requests |-> Untold]
    /\ deadAt = [r \in Requests |-> {}]
    /\ blind = {}

-----------------------------------------------------------------------------
(***************************************************************************)
(* The routing table.                                                      *)
(***************************************************************************)
Route(p, up, inject) ==
    [prefix |-> p, upstream |-> up, inject_identity |-> inject,
     require_identity |-> FALSE]

build_routes ==
    << Route("/content", IF config.content THEN "content" ELSE None, TRUE),
       Route("/users", "users", FALSE),
       Route("/admin", "users", FALSE),
       Route("/auth", "users", FALSE) >>

\* The first segment of the path a call is sent to.
Prefix(c) == CASE c.op = "content" -> "/content"
               [] c.op = "nowhere" -> "/nonsense"
               [] OTHER -> "/auth"

\* The first route that owns the path; a prefix is one segment.
match(c) ==
    LET owners == {i \in DOMAIN build_routes :
                      build_routes[i].prefix = Prefix(c)}
    IN  IF owners = {} THEN None
        ELSE build_routes[CHOOSE i \in owners : \A j \in owners : i <= j]

-----------------------------------------------------------------------------
(***************************************************************************)
(* users_service, as far as the gateway can tell.                          *)
(***************************************************************************)
AuthenticateLocally(s) == s \in Sessions /\ session[s] # "none"

\* Is this the token of a session that works now?
Authenticate(s) == s \in Sessions /\ session[s] = "open"

get_access_token_BearerOnly(r) == call[r].bearer

\* The cookie wins over the bearer token.
get_access_token(r) ==
    IF carried[r] \in Sessions THEN carried[r] ELSE call[r].bearer

\* An unsafe request with an auth cookie needs the matching CSRF header,
\* which a client only has for a cookie of its own.
token_matches(r) == carried[r] \in Sessions => carried[r] = call[r].cookie

Serves(r) ==
    CASE call[r].op \in {"login", "logout"} /\ ~token_matches(r) -> 403
      [] call[r].op = "logout" /\ Authenticate(get_access_token(r)) -> 204
      [] /\ call[r].op \in {"logout", "me"}
         /\ ~Authenticate(get_access_token(r)) -> 401
      [] OTHER -> 200

\* What serving a call does to the sessions.
SessionsAfter(r) ==
    CASE call[r].op = "login" /\ Serves(r) = 200 ->
            [session EXCEPT ![call[r].session] = "open"]
      [] call[r].op = "logout" /\ Serves(r) = 204 ->
            [session EXCEPT ![get_access_token(r)] = "revoked"]
      [] OTHER -> session

-----------------------------------------------------------------------------
(***************************************************************************)
(* The handler.                                                            *)
(***************************************************************************)
GoTo(r, s) == at' = [at EXCEPT ![r] = s]

\* The handler returns: the client gets n.
Answer(r, n) == GoTo(r, "done") /\ code' = [code EXCEPT ![r] = n]

\* build_request: the auth cookie the upstream will see is the one in the
\* client's Cookie header or, where it sent none, what the jar of the shared
\* client adds.  A Secure cookie does not leave the jar: the upstream speaks
\* plain HTTP.
build_request(r, c) ==
    carried' = [carried EXCEPT ![r] =
        IF c.cookie # None THEN c.cookie
        ELSE IF config.secure THEN None ELSE jar]

Take(r) == Cardinality(pool) < MaxPool /\ pool' = pool \cup {r}
Release(r) == pool' = pool \ {r}

\* A request arrives; everything up to the first await.
proxy(r, c) ==
    /\ at[r] = "idle"
    /\ c.cookie \in Sessions => session[c.cookie] # "none"
    /\ c.bearer \in Sessions => session[c.bearer] # "none"
    /\ c.op = "login" => \A q \in Requests : at[q] # "idle" =>
                            call[q].session # c.session
    /\ call' = [call EXCEPT ![r] = c]
    /\ IF c.op = "ready" THEN GoTo(r, "resolve") /\ UNCHANGED code
       ELSE IF match(c) = None THEN Answer(r, 404)
       ELSE IF match(c).upstream = None THEN Answer(r, 503)
       ELSE /\ GoTo(r, IF match(c).inject_identity \/ match(c).require_identity
                       THEN "resolve" ELSE "forward")
            /\ UNCHANGED code
    /\ build_request(r, c)
    /\ deadAt' = [deadAt EXCEPT ![r] =
                      {s \in Sessions : session[s] = "revoked"}]
    /\ UNCHANGED <<config, session, jar, pool, identity, reply, late, told,
                   blind>>

\* client.get: the lookup, or the probe of users_service, gets a connection.
resolve(r) ==
    /\ at[r] = "resolve"
    /\ Take(r)
    /\ GoTo(r, "asking")
    /\ UNCHANGED <<config, session, jar, call, carried, identity, reply, code,
                   late, history>>

\* users_service answers GET /auth/me or GET /health/ready.
UsersAnswer(r) ==
    /\ at[r] = "asking"
    /\ GoTo(r, "asked")
    /\ \E n \in {200, 503} :
          reply' = [reply EXCEPT ![r] =
              IF call[r].op = "ready" THEN n
              ELSE IF Authenticate(get_access_token(r)) THEN 200 ELSE 401]
    /\ identity' = [identity EXCEPT ![r] =
           IF call[r].op # "ready" /\ Authenticate(get_access_token(r))
           THEN get_access_token(r) ELSE None]
    /\ UNCHANGED <<config, session, jar, call, pool, carried, code, late,
                   history>>

\* The lookup is over: the route decides whether to go on without a caller.
GoOn(r) ==
    IF identity'[r] = None /\ match(call[r]).require_identity
    THEN Answer(r, 401) /\ UNCHANGED carried
    ELSE GoTo(r, "forward") /\ build_request(r, call[r]) /\ UNCHANGED code

Resolved(r) ==
    /\ at[r] = "asked"
    /\ Release(r)
    /\ UNCHANGED identity
    /\ IF call[r].op = "ready"
       THEN Answer(r, IF reply[r] = 200 THEN 200 ELSE 503) /\ UNCHANGED carried
       ELSE GoOn(r)
    /\ UNCHANGED <<config, session, jar, call, reply, late, history>>

\* httpx.HTTPError in the lookup: no connection in the pool in time, or
\* users_service unreachable or too slow.  The caller counts as anonymous.
LookupFails(r) ==
    /\ \/ at[r] = "resolve" /\ Cardinality(pool) >= MaxPool
       \/ at[r] \in {"asking", "asked"}
    /\ Release(r)
    /\ identity' = [identity EXCEPT ![r] = None]
    /\ IF call[r].op = "ready"
       THEN Answer(r, 503) /\ UNCHANGED carried
       ELSE GoOn(r)
    /\ blind' = blind \cup {r}
    /\ UNCHANGED <<config, session, jar, call, reply, late, told, deadAt>>

HeadersKept(r) ==
    [user |-> IF identity[r] # None THEN identity[r]
              ELSE IF call[r].claims THEN Claimed ELSE None,
     visitor |-> IF call[r].cookie # None THEN "cookie"
                 ELSE IF call[r].claims THEN Claimed ELSE None]
HeadersRaw(r) == [user |-> identity[r], visitor |-> call[r].cookie]

\* The identity headers of the forwarded request: the client's are dropped,
\* the caller's and the visitor cookie's added.
build_forward_headers(r) ==
    [user |-> identity[r],
     visitor |-> IF call[r].cookie # None THEN "cookie" ELSE None]

\* client.send: the request gets a connection, its headers go upstream and its
\* body starts to follow.
forward(r) ==
    /\ at[r] = "forward"
    /\ Take(r)
    /\ GoTo(r, "uploading")
    /\ told' = IF match(call[r]).upstream = "content"
               THEN [told EXCEPT ![r] = build_forward_headers(r)] ELSE told
    /\ UNCHANGED <<config, session, jar, call, carried, identity, reply, code,
                   late, deadAt, blind>>

\* A login has its credentials in the body, no other call here reads one.
ReadsBody(r) == call[r].op = "login"

\* The upstream does what it was asked, once it has read what it needs.
Serve(r) ==
    /\ \/ at[r] = "sent" /\ GoTo(r, "served")
       \/ at[r] = "uploading" /\ ~ReadsBody(r) /\ GoTo(r, "early")
    /\ reply' = [reply EXCEPT ![r] = Serves(r)]
    /\ session' = SessionsAfter(r)
    /\ UNCHANGED <<config, jar, call, pool, carried, identity, code, late,
                   history>>

\* An upstream that was given up on may still do it.
ServeLate(r) ==
    /\ r \in late
    /\ late' = late \ {r}
    /\ session' = SessionsAfter(r)
    /\ UNCHANGED <<config, jar, call, at, pool, carried, identity, reply, code,
                   history>>

FailsUnbounded(r) ==
    /\ at[r] = "forward" /\ Cardinality(pool) >= MaxPool
    /\ Release(r)
    /\ Answer(r, 504)
    /\ UNCHANGED <<config, session, jar, call, carried, identity, reply, late,
                   history>>

\* httpx.TimeoutException (504) or another HTTPError (502): no connection in
\* the pool in time, or the body is out and the upstream has not got round to
\* it, or its answer is lost.
Fails(r) ==
    /\ \/ at[r] = "forward" /\ Cardinality(pool) >= MaxPool
       \/ at[r] \in {"sent", "served"}
    /\ Release(r)
    /\ \E n \in {502, 504} : Answer(r, n)
    /\ \/ late' = late
       \/ at[r] = "sent" /\ late' = late \cup {r}
    /\ UNCHANGED <<config, session, jar, call, carried, identity, reply,
                   history>>

\* The client has sent its whole body and _body_stream is through.  It waits
\* for every chunk of the client without a timeout.
UploadEnds(r) ==
    /\ \/ at[r] = "uploading" /\ GoTo(r, "sent")
       \/ at[r] = "early" /\ GoTo(r, "served")
    /\ UNCHANGED <<config, session, jar, call, pool, carried, identity, reply,
                   code, late, history>>

\* The upload is broken off with answer n: an upstream that needs no body may
\* still do what the headers ask.
BreakOff(r, n) ==
    /\ at[r] \in {"uploading", "early"}
    /\ Release(r)
    /\ Answer(r, n)
    /\ \/ late' = late
       \/ at[r] = "uploading" /\ ~ReadsBody(r) /\ late' = late \cup {r}
    /\ UNCHANGED <<config, session, jar, call, carried, identity, reply,
                   history>>

\* The upstream cannot be connected to, drops the connection, or takes no more
\* of the body in time.
UploadFails(r) == \E n \in {502, 504} : BreakOff(r, n)

\* The client goes away while its body is being sent: _body_stream raises
\* and nobody is answered.
UploadStops(r) == BreakOff(r, 499)

\* The headers are back: the shared client keeps or drops the auth cookies
\* they set, the client of r gets them too.
HeadersBack(r) ==
    /\ at[r] = "served"
    /\ GoTo(r, "streaming")
    /\ code' = [code EXCEPT ![r] = reply[r]]
    /\ jar' = CASE call[r].op = "login" /\ reply[r] = 200 -> call[r].session
                [] call[r].op = "logout" /\ reply[r] = 204 -> None
                [] OTHER -> jar
    /\ UNCHANGED <<config, session, call, pool, carried, identity, reply, late,
                   history>>

StreamEndsOpen(r) ==
    /\ at[r] = "streaming"
    /\ GoTo(r, "done")
    /\ UNCHANGED <<config, session, jar, call, pool, carried, identity, reply,
                   code, late, history>>

\* The body is through, the upstream broke it off, or the client left: the
\* upstream response is closed.
StreamEnds(r) ==
    /\ at[r] = "streaming"
    /\ GoTo(r, "done")
    /\ Release(r)
    /\ UNCHANGED <<config, session, jar, call, carried, identity, reply, code,
                   late, history>>

\* A session is revoked from another device or by a moderator.
Revoke(s) ==
    /\ session[s] = "open"
    /\ session' = [session EXCEPT ![s] = "revoked"]
    /\ UNCHANGED <<config, jar, call, at, pool, carried, identity, reply, code,
                   late, history>>

Handle(r) ==
    \/ resolve(r) \/ Resolved(r) \/ LookupFails(r)
    \/ forward(r) \/ HeadersBack(r) \/ Fails(r)

\* A body on its way: from the client and to the upstream, or the answer's.
Body(r) ==
    UploadEnds(r) \/ UploadFails(r) \/ UploadStops(r) \/ StreamEnds(r)

Quiet == (\A r \in Requests : at[r] = "done") /\ UNCHANGED vars

Next ==
    \/ \E r \in Requests :
          \/ \E c \in Calls : proxy(r, c)
          \/ Handle(r)
          \/ Body(r)
          \/ UsersAnswer(r) \/ Serve(r) \/ ServeLate(r)
    \/ \E s \in Sessions : Revoke(s)
    \/ Quiet

Spec == Init /\ [][Next]_vars

\* The event loop keeps running a started handler, and httpx's timeouts bound
\* its waits for the pool, for an answer to a lookup and for an answer to a
\* request that is out in full.  Upstreams owe nobody an answer, and nothing
\* makes a client send the rest of its body or read the rest of its answer.
FairSpec == Spec /\ \A r \in Requests : WF_vars(Handle(r))

-----------------------------------------------------------------------------
\* The credential a request itself carries; the cookie wins.
Own(c) == IF c.cookie \in Sessions THEN c.cookie ELSE c.bearer

\* The caller named to a service is the one whose credential this very
\* request carried, never what the client wrote into the headers and never
\* somebody else; the visitor is the one of its own cookie.
AnnouncedIsCaller ==
    \A r \in Requests :
        /\ told[r].user # None => told[r].user = Own(call[r])
        /\ told[r].visitor # None => call[r].cookie # None

\* A session that was revoked when the request arrived is not announced, by
\* whatever request and on whatever route it was revoked and however old its
\* access token is.  (One revoked while the request is on its way may be.)
RevokedNotAnnounced ==
    \A r \in Requests : told[r].user \notin deadAt[r]

\* A caller whose session is still open when the content service has its
\* request was announced to it, unless the lookup failed and left the
\* request anonymous.
LiveCallerAnnounced ==
    \A r \in Requests :
        /\ call[r] # None /\ call[r].op = "content"
        /\ at[r] \in {"sent", "served"} \cup ClientsTurn /\ r \notin blind
        /\ Authenticate(Own(call[r]))
        => told[r].user = Own(call[r])

\* Only requests that are talking to an upstream hold a connection, and none
\* of them waits for a second one: the pool is never left short and requests
\* never wait for each other in a circle.
NoLeak ==
    /\ pool = {r \in Requests : at[r] \in Upstream}
    /\ Cardinality(pool) <= MaxPool

\* Every request that reached the gateway is over in the end, also while
\* upstreams stay silent and other clients hold every connection of the pool
\* with bodies they never finish.  The one exception is a client that for ever
\* neither moves its own body nor leaves.
RequestEnds ==
    \A r \in Requests :
        at[r] # "idle" ~> (at[r] = "done" \/ [](at[r] \in ClientsTurn))

=============================================================================
