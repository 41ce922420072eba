------------------------------ MODULE Browser ------------------------------
(***************************************************************************)
(* One browser whose tabs talk to users_service at the same time, with     *)
(* cookie authentication on.  The pages read the CSRF cookie when they     *)
(* compose a request, the browser attaches its cookies when it sends it,   *)
(* and applies the Set-Cookie headers of a response when it arrives, in    *)
(* whatever order responses come back; requests and responses get lost.    *)
(*                                                                         *)
(* A session is named after the request that opened it, and so are the     *)
(* tokens and the CSRF token the same response sets, and a visitor id      *)
(* after the request it was minted for.  Time is counted in seconds.  The  *)
(* use cases behind the endpoints are in Accounts; of those only refresh   *)
(* is more than one step here, because its check and its write are apart.  *)
(*                                                                         *)
(* Definitions with a suffix (set_tokens_..., clear_tokens_...) are faulty *)
(* variants of the definition that follows them; nothing uses them, they   *)
(* show that the properties can fail.                                      *)
(***************************************************************************)
EXTENDS Integers, FiniteSets

CONSTANTS
    Requests,      \* the requests the tabs send
    Seed,          \* the session of a browser that is signed in already
    None,          \* no token, no cookie
    Ops,           \* the endpoints this instance uses
    AccessLife,    \* seconds an access token is good for
    RefreshLife,   \* seconds a refresh token, and its session, is
    MaxDelay       \* seconds the writing of a response's cookies may take

AllOps == {"login", "refresh", "logout", "sign_out", "write", "register",
           "read"}

ASSUME BrowserAssumption ==
    /\ IsFiniteSet(Requests) /\ Seed \notin Requests
    /\ None \notin Requests \cup {Seed} \cup AllOps
    /\ Ops \subseteq AllOps
    /\ AccessLife \in Nat /\ RefreshLife \in Nat /\ MaxDelay \in Nat
    /\ AccessLife + MaxDelay <= RefreshLife

VARIABLES
    cookie,     \* the browser's cookies: name -> [of, ttl]
    session,    \* users_service: session -> [state, age]
    op,         \* the endpoint request r is for
    at,         \* how far r is
    header,     \* the X-CSRF-Token header of r
    carried,    \* the cookies r was sent with
    visitor,    \* request.state.visitor_id while r is served
    answer,     \* the response to r: status, Set-Cookie for auth, visitor
    signedOut,  \* history: a sign-out was "done" by the service, then "told"
                \* to the browser, and no login was sent since; or some
                \* sign-out "raced" a login or a refresh it could not reach
    excused,    \* history: requests that were sent with another CSRF cookie
                \* than the page had read, or in the last MaxDelay seconds
                \* of the refresh cookie
    firsts,     \* history: how many requests, up to 2, were sent without a
                \* visitor cookie
    mishap      \* history: an answer was lost, or two requests that set or
                \* clear cookies were under way together

auth == <<cookie, session>>
wire == <<op, at, header, carried, visitor, answer>>
history == <<signedOut, excused, firsts, mishap>>
vars == <<auth, wire, history>>

Sessions == Requests \cup {Seed}
Names == {"access", "refresh", "csrf"}
Absent == [of |-> None, ttl |-> 0]
Cookie == [of : Sessions \cup {None}, ttl : 0..RefreshLife]
NoCookies == [n \in Names |-> Absent]

\* A response that does not mention the auth cookies.
Unset == [of |-> None, ttl |-> -1]
Leave == [n \in Names |-> Unset]
NoAnswer == [status |-> 0, auth |-> Leave, visitor |-> None]

Statuses == {0, 200, 401, 403}
Stages == {"idle", "composed", "sent", "rotating", "answered", "done"}

TypeOK ==
    /\ cookie \in [auth : [Names -> Cookie], visitor : Sessions \cup {None}]
    /\ session \in [Sessions -> [state : {"none", "open", "revoked"},
                                 age : 0..RefreshLife]]
    /\ op \in [Requests -> AllOps \cup {None}]
    /\ at \in [Requests -> Stages]
    /\ header \in [Requests -> Sessions \cup {None}]
    /\ carried \in [Requests -> [access : Sessions \cup {None},
                                 refresh : Sessions \cup {None},
                                 csrf : Sessions \cup {None},
                                 visitor : Sessions \cup {None}]]
    /\ visitor \in [Requests -> Sessions \cup {None}]
    /\ answer \in [Requests -> [status : Statuses,
                                auth : [Names -> Cookie \cup {Unset}],
                                visitor : Requests \cup {None}]]
    /\ signedOut \in {"no", "done", "told", "raced"} /\ mishap \in BOOLEAN
    /\ excused \subseteq Requests /\ firsts \in 0..2

-----------------------------------------------------------------------------
(***************************************************************************)
(* The cookies of a response.                                              *)
(***************************************************************************)
\* int(expires_at - now), floored at zero: n whole seconds and a fraction
\* have passed since the token was issued.
_max_age(life, n) == IF life - n - 1 > 0 THEN life - n - 1 ELSE 0

Set(r, x, y, z) ==
    [n \in Names |-> [of |-> r, ttl |-> CASE n = "access"  -> x
                                          [] n = "refresh" -> y
                                          [] n = "csrf"    -> z]]

set_tokens_ShortCsrf(r, x, y, z) ==
    Set(r, _max_age(AccessLife, x), _max_age(RefreshLife, y),
        _max_age(AccessLife, z))
set_tokens_Forever(r, x, y, z) ==
    Set(r, RefreshLife, RefreshLife, RefreshLife + 1)

\* The access, the refresh and the CSRF cookie of the session r opened,
\* written after x, y and z seconds.
set_tokens(r, x, y, z) ==
    Set(r, _max_age(AccessLife, x), _max_age(RefreshLife, y),
        _max_age(RefreshLife, z))

clear_tokens_WrongPath == [NoCookies EXCEPT !["refresh"] = Unset]

clear_tokens == NoCookies

\* What becomes of the cookies in a jar; a Max-Age of zero deletes.
Applied(jar, set) ==
    [n \in Names |-> IF set[n] = Unset THEN jar[n]
                     ELSE IF set[n].ttl = 0 THEN Absent ELSE set[n]]

Nothing == [access |-> None, refresh |-> None, csrf |-> None, visitor |-> None]

Init ==
    /\ \/ /\ cookie = [auth |-> NoCookies, visitor |-> None]
          /\ session = [s \in Sessions |-> [state |-> "none", age |-> 0]]
       \/ /\ cookie = [auth |-> Applied(NoCookies, set_tokens(Seed, 0, 0, 0)),
                       visitor |-> Seed]
          /\ session = [s \in Sessions |->
                [state |-> IF s = Seed THEN "open" ELSE "none", age |-> 0]]
    /\ op = [r \in Requests |-> None]
    /\ at = [r \in Requests |-> "idle"]
    /\ header = [r \in Requests |-> None]
    /\ carried = [r \in Requests |-> Nothing]
    /\ visitor = [r \in Requests |-> None]
    /\ answer = [r \in Requests |-> NoAnswer]
    /\ signedOut = "no" /\ mishap = FALSE
    /\ excused = {} /\ firsts = 0

-----------------------------------------------------------------------------
(***************************************************************************)
(* The browser.                                                            *)
(***************************************************************************)
\* The path of the endpoint is under REFRESH_COOKIE_PATH.
UnderAuth(o) == o \in {"login", "refresh", "logout", "register"}
Unsafe(o) == o # "read"
\* Endpoints whose answer sets or clears the auth cookies, and requests that
\* have done it or may.
Writers == {"login", "refresh", "logout", "sign_out"}
Writing(q) == op[q] \in Writers \/ answer[q].auth # Leave

\* The sessions the browser has cookies of.
Held == {cookie.auth[n].of : n \in Names} \ {None}

UnderWay == {r \in Requests : at[r] \in {"sent", "rotating", "answered"}}

\* A page composes a request and reads the CSRF cookie for its header.
Compose(r, o) ==
    /\ at[r] = "idle"
    /\ op' = [op EXCEPT ![r] = o]
    /\ at' = [at EXCEPT ![r] = "composed"]
    /\ header' = [header EXCEPT ![r] = cookie.auth["csrf"].of]
    /\ UNCHANGED <<auth, carried, visitor, answer, history>>

\* The browser sends it with the cookies it has now.
Send(r) ==
    /\ at[r] = "composed"
    /\ at' = [at EXCEPT ![r] = "sent"]
    /\ carried' = [carried EXCEPT ![r] =
          [access  |-> cookie.auth["access"].of,
           refresh |-> IF UnderAuth(op[r]) THEN cookie.auth["refresh"].of
                       ELSE None,
           csrf    |-> cookie.auth["csrf"].of,
           visitor |-> cookie.visitor]]
    /\ signedOut' = IF op[r] = "login" /\ signedOut # "raced" THEN "no"
                    ELSE signedOut
    /\ excused' = IF \/ header[r] # cookie.auth["csrf"].of
                     \/ cookie.auth["refresh"].ttl \in 1..MaxDelay
                  THEN excused \cup {r} ELSE excused
    /\ mishap' = (mishap \/ /\ op[r] \in Writers
                            /\ \E q \in UnderWay : Writing(q))
    /\ firsts' = IF cookie.visitor = None /\ firsts < 2 THEN firsts + 1
                 ELSE firsts
    /\ UNCHANGED <<auth, op, header, visitor, answer>>

\* What a request was is of no use once it is answered.
Forget(r) ==
    /\ op' = [op EXCEPT ![r] = None]
    /\ header' = [header EXCEPT ![r] = None]
    /\ carried' = [carried EXCEPT ![r] = Nothing]

Over(r) ==
    /\ at' = [at EXCEPT ![r] = "done"]
    /\ answer' = [answer EXCEPT ![r] = NoAnswer]
    /\ excused' = excused \ {r}

\* A response arrives.
Deliver(r) ==
    /\ at[r] = "answered"
    /\ cookie' = [auth |-> Applied(cookie.auth, answer[r].auth),
                  visitor |-> IF answer[r].visitor = None THEN cookie.visitor
                              ELSE answer[r].visitor]
    /\ signedOut' = IF answer[r].auth["access"] = Absent /\ signedOut = "done"
                    THEN "told" ELSE signedOut
    /\ Over(r)
    /\ UNCHANGED <<session, op, header, carried, visitor, firsts, mishap>>

\* The request does not get through, its response does not, or it ends in an
\* unhandled error, whose response is written outside both middlewares and
\* sets no cookie at all.
Fail(r) ==
    /\ r \in UnderWay
    /\ visitor' = [visitor EXCEPT ![r] = None]
    /\ mishap' = TRUE
    /\ Forget(r) /\ Over(r)
    /\ UNCHANGED <<auth, signedOut, firsts>>

-----------------------------------------------------------------------------
(***************************************************************************)
(* The service: VisitorMiddleware around CsrfMiddleware around the         *)
(* endpoint.                                                               *)
(***************************************************************************)
\* The visitor id a request is served with, freshly minted if it has none.
VisitorOf(r) == IF carried[r].visitor = None THEN r ELSE carried[r].visitor

SetVisitorAlways(r) == r

\* The visitor cookie a response sets.
SetVisitor(r) == IF carried[r].visitor = None THEN r ELSE None

_requires_check(r) ==
    /\ Unsafe(op[r])
    /\ carried[r].access # None \/ carried[r].refresh # None

_token_matches(r) == carried[r].csrf # None /\ header[r] = carried[r].csrf

Refused(r) == _requires_check(r) /\ ~_token_matches(r)

Respond(r, status, cookies) ==
    /\ at' = [at EXCEPT ![r] = "answered"]
    /\ answer' = [answer EXCEPT ![r] =
          [status |-> status, auth |-> cookies, visitor |-> SetVisitor(r)]]
    /\ visitor' = [visitor EXCEPT ![r] = VisitorOf(r)]
    /\ Forget(r)
    /\ UNCHANGED <<excused, firsts, mishap>>

\* The session behind an access token still authenticates a request.
Works(s) ==
    s # None /\ session[s].state = "open" /\ session[s].age < AccessLife

csrf_dispatch(r) ==
    /\ at[r] = "sent" /\ Refused(r)
    /\ Respond(r, 403, Leave)
    /\ UNCHANGED <<auth, signedOut>>

\* The tokens of the session r opens; writing the cookies takes a moment.
Opens(r) ==
    \E x, y, z \in 0..MaxDelay :
        x <= y /\ y <= z /\ Respond(r, 200, set_tokens(r, x, y, z))

login(r) ==
    /\ at[r] = "sent" /\ op[r] = "login" /\ ~Refused(r)
    /\ \/ Opens(r) /\ session' = [session EXCEPT ![r].state = "open"]
       \/ Respond(r, 401, Leave) /\ UNCHANGED session
    /\ UNCHANGED <<cookie, signedOut>>

\* The age of a revoked session is of no use.
revoke(x) == IF x.state = "open" THEN [state |-> "revoked", age |-> 0] ELSE x

is_valid_ExpiryOnly(s) == session[s].age < RefreshLife

\* The session a refresh token belongs to is valid.
is_valid(s) == session[s].state = "open" /\ session[s].age < RefreshLife

\* refresh, up to its check ...
refresh(r) ==
    /\ at[r] = "sent" /\ op[r] = "refresh" /\ ~Refused(r)
    /\ IF carried[r].refresh # None /\ is_valid(carried[r].refresh)
       THEN /\ at' = [at EXCEPT ![r] = "rotating"]
            /\ UNCHANGED <<op, header, carried, visitor, answer, excused,
                           firsts, mishap>>
       ELSE Respond(r, 401, Leave)
    /\ UNCHANGED <<auth, signedOut>>

\* ... and its write.
Rotate(r) ==
    /\ at[r] = "rotating"
    /\ session' = [session EXCEPT ![carried[r].refresh] = revoke(@),
                                  ![r].state = "open"]
    /\ Opens(r)
    /\ UNCHANGED <<cookie, signedOut>>

\* A sign-out by r cannot reach everything: some request is past its check
\* or about to open a session, or a plain logout ends a session that is not
\* the only one the browser uses.
OutOfReach(r) ==
    \/ \E q \in UnderWay \ {r} : \/ at[q] = "rotating"
                                 \/ at[q] = "sent" /\ op[q] = "login"
    \/ /\ op[r] = "logout"
       /\ \/ Held # {carried[r].access}
          \/ \E q \in UnderWay \ {r} :
                \/ at[q] = "answered" /\ answer[q].auth["refresh"].of # None
                \/ carried[q].refresh \notin {carried[r].access, None}

\* logout, and what also ends every session and clears the cookies: password
\* change, account deletion, log out everywhere.
SignOut(r) ==
    /\ at[r] = "sent" /\ op[r] \in {"logout", "sign_out"} /\ ~Refused(r)
    /\ IF Works(carried[r].access)
       THEN /\ session' = [s \in Sessions |->
                  IF op[r] = "sign_out" \/ s = carried[r].access
                  THEN revoke(session[s]) ELSE session[s]]
            /\ Respond(r, 200, clear_tokens)
            /\ signedOut' = IF signedOut = "raced" \/ OutOfReach(r)
                            THEN "raced" ELSE "done"
       ELSE Respond(r, 401, Leave) /\ UNCHANGED <<session, signedOut>>
    /\ UNCHANGED cookie

\* Everything else leaves the sessions and the auth cookies alone.
Other(r) ==
    /\ at[r] = "sent" /\ op[r] \in {"write", "read", "register"} /\ ~Refused(r)
    /\ Respond(r, IF op[r] = "register" \/ Works(carried[r].access)
                  THEN 200 ELSE 401, Leave)
    /\ UNCHANGED <<auth, signedOut>>

\* A second passes.
Tick ==
    /\ \/ \E n \in Names : cookie.auth[n].ttl > 0
       \/ \E s \in Sessions :
             session[s].state = "open" /\ session[s].age < RefreshLife
    /\ cookie' = [cookie EXCEPT !.auth =
          [n \in Names |-> IF @[n].ttl <= 1 THEN Absent
                           ELSE [of |-> @[n].of, ttl |-> @[n].ttl - 1]]]
    /\ session' = [s \in Sessions |->
          IF session[s].state = "open" /\ session[s].age < RefreshLife
          THEN [session[s] EXCEPT !.age = @ + 1] ELSE session[s]]
    /\ UNCHANGED <<wire, history>>

Serve(r) ==
    \/ csrf_dispatch(r) \/ login(r) \/ refresh(r) \/ Rotate(r) \/ SignOut(r)
    \/ Other(r)

Quiet == (\A r \in Requests : at[r] = "done") /\ UNCHANGED vars

Next ==
    \/ \E r \in Requests :
          \/ \E o \in Ops : Compose(r, o)
          \/ Send(r) \/ Serve(r) \/ Deliver(r) \/ Fail(r)
    \/ Tick
    \/ Quiet

Spec == Init /\ [][Next]_vars

-----------------------------------------------------------------------------
\* The cookies of two responses never mix, and while the browser has an auth
\* cookie it has the CSRF cookie that goes with it: no unsafe request is
\* doomed.  The one gap is the last MaxDelay seconds of a refresh cookie,
\* because its lifetime and the CSRF cookie's are computed one after the
\* other.
CsrfCoversAuth ==
    /\ Cardinality(Held) <= 1
    /\ Held # {} => \/ cookie.auth["csrf"].of # None
                    \/ cookie.auth["refresh"].ttl \in 1..MaxDelay

\* A request is refused by the CSRF check only if its cookie was replaced
\* between the page's reading it and the browser's sending the request, or
\* in the gap described above; in particular a browser that still has the
\* cookies of a dead session can log in again.
RefusedOnlyIfRotated ==
    \A r \in Requests : at[r] = "answered" /\ answer[r].status = 403 =>
        r \in excused

\* Once a sign-out has been confirmed to the browser, it holds no session
\* that works until somebody logs in again, in whatever order the answers
\* arrive; unless the sign-out met a request out of its reach.
SignedOutStays ==
    signedOut = "told" => \A s \in Held : session[s].state # "open"

\* A browser whose requests got their answers and did not overlap holds the
\* cookies of a session that was not revoked.
HeldIsLive ==
    ~mishap /\ UnderWay = {} => \A s \in Held : session[s].state = "open"

\* The visitor id a request was served with, which a signup or a login has
\* stored, is the one the browser keeps, unless more than one request was
\* sent before the browser had an id, or the answer that brought it failed.
VisitorKept ==
    firsts <= 1 => \A r \in Requests :
        at[r] = "done" /\ visitor[r] # None => cookie.visitor = visitor[r]

=============================================================================
