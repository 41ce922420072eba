---------------------------- MODULE BrowserProofs ---------------------------
(***************************************************************************)
(* What a browser with any number of tabs can rely on, for any number of   *)
(* requests, any lifetimes of tokens and any delay in writing cookies that *)
(* BrowserAssumption allows.                                               *)
(*                                                                         *)
(* BrowserTypes     the type invariant.                                    *)
(* CsrfIsThere      the CSRF cookie covers the auth cookies.               *)
(* RefusalsExcused  the CSRF check refuses only what changed under a page. *)
(* CookiesAreLive   undisturbed cookies are those of an open session.      *)
(* SignOutLasts     a confirmed sign-out leaves no working session.        *)
(* VisitorIsKept    the visitor id a request was served with is kept.      *)
(*                                                                         *)
(* The first three come from JarInv, the others from an invariant each     *)
(* that says what requests under way may still bring.                      *)
(***************************************************************************)
EXTENDS Browser, FiniteSetTheorems, TLAPS

-----------------------------------------------------------------------------
(***************************************************************************)
(* The inductive invariants.                                               *)
(***************************************************************************)
\* The cookies of a jar are those of one session; an auth cookie goes before
\* the CSRF cookie does, or MaxDelay seconds after it at the latest.
Lifetimes(c) ==
    /\ c["access"].ttl <= c["csrf"].ttl
    /\ c["refresh"].ttl <= c["csrf"].ttl + MaxDelay
Jar(c) ==
    /\ \E s \in Sessions : \A n \in Names : c[n].of \in {s, None}
    /\ \A n \in Names : c[n].of = None <=> c[n].ttl = 0
    /\ Lifetimes(c)

\* The cookies of the session that r opened.
Fresh(r, c) ==
    /\ \A n \in Names : c[n] \in Cookie /\ c[n].of = r
    /\ Lifetimes(c)

\* What there is of a request at each of its stages.
Shape(r) ==
    /\ at[r] # "answered" => answer[r] = NoAnswer
    /\ answer[r].auth \in {Leave, NoCookies} \/ Fresh(r, answer[r].auth)
    /\ answer[r].visitor \in {r, None}
    /\ at[r] = "rotating" => op[r] = "refresh"

\* A request that fails the CSRF check has an excuse.
Excused(r) ==
    \/ at[r] = "sent" /\ Refused(r)
    \/ at[r] = "answered" /\ answer[r].status = 403
    => r \in excused

JarInv ==
    /\ TypeOK
    /\ Jar(cookie.auth)
    /\ \A r \in Requests : Shape(r) /\ Excused(r)

\* The answer to r changes the auth cookies.
Turns(r) == at[r] = "answered" /\ answer[r].auth # Leave

\* Without a mishap one request at a time may change the auth cookies, and
\* until its answer arrives those the browser has work.
Alone == \A q, r \in UnderWay : Writing(q) /\ Writing(r) => q = r
HeldOpen == \A s \in Held : session[s].state = "open"
Promised(r) ==
    Turns(r) /\ answer[r].auth # NoCookies => session[r].state = "open"
LiveInv ==
    ~mishap => /\ Alone
               /\ (\A r \in Requests : ~Turns(r)) => HeldOpen
               /\ \A r \in Requests : Promised(r)

\* After a sign-out within reach no open session is left to the browser: not
\* in its cookies, not in a request that could refresh it, not in an answer.
HeldClosed == \A s \in Held : session[s].state # "open"
Harmless(r) ==
    /\ at[r] # "rotating" /\ ~(at[r] = "sent" /\ op[r] = "login")
    /\ at[r] = "sent" /\ carried[r].refresh # None =>
          session[carried[r].refresh].state # "open"
    /\ \A n \in Names : answer[r].auth[n].of # None =>
          session[answer[r].auth[n].of].state # "open"
SignedOutInv ==
    signedOut \in {"done", "told"} =>
        HeldClosed /\ \A r \in Requests : Harmless(r)

\* The request that is to bring the browser its visitor id.
Brings(r) == \/ at[r] \in {"sent", "rotating"} /\ carried[r].visitor = None
             \/ at[r] = "answered" /\ answer[r].visitor # None
OneBrings == \A q, r \in Requests : Brings(q) /\ Brings(r) => q = r

\* While at most one request was sent without an id, the others have the
\* one the browser has.
Agrees(r) ==
    /\ Brings(r) => cookie.visitor = None /\ firsts = 1
    /\ at[r] \in {"sent", "rotating"} /\ ~Brings(r) =>
          carried[r].visitor = cookie.visitor
    /\ at[r] = "answered" =>
          visitor[r] = IF Brings(r) THEN r ELSE cookie.visitor
    /\ at[r] = "answered" => visitor[r] # None
    /\ at[r] = "done" /\ visitor[r] # None => cookie.visitor = visitor[r]
VisitorInv ==
    firsts <= 1 => OneBrings /\ \A r \in Requests : Agrees(r)

-----------------------------------------------------------------------------
(***************************************************************************)
(* Cookies.                                                                *)
(***************************************************************************)
LEMMA Constants ==
    /\ AccessLife \in Nat /\ RefreshLife \in Nat /\ MaxDelay \in Nat
    /\ AccessLife + MaxDelay <= RefreshLife
    /\ None \notin Sessions /\ Requests \subseteq Sessions /\ Seed \in Sessions
BY BrowserAssumption DEF Sessions

LEMMA CookieTypes ==
    /\ Absent \in Cookie /\ NoCookies \in [Names -> Cookie]
    /\ Absent.of = None /\ Absent.ttl = 0
    /\ Unset.of = None /\ Unset.ttl = -1 /\ Unset \notin Cookie
    /\ Leave \in [Names -> Cookie \cup {Unset}]
    /\ Nothing.access = None /\ Nothing.refresh = None
    /\ Nothing.csrf = None /\ Nothing.visitor = None
    /\ Leave # NoCookies
<1>1. /\ Absent \in Cookie /\ Absent.of = None /\ Absent.ttl = 0
      /\ Unset.of = None /\ Unset.ttl = -1 /\ Unset \notin Cookie
  BY Constants DEF Absent, Unset, Cookie
<1>2. /\ NoCookies \in [Names -> Cookie]
      /\ Leave \in [Names -> Cookie \cup {Unset}]
  BY <1>1 DEF NoCookies, Leave
<1>3. Leave["csrf"] = Unset /\ NoCookies["csrf"] = Absent
  BY DEF Leave, NoCookies, Names
<1>. QED BY <1>1, <1>2, <1>3 DEF Nothing

\* The cookies of a session, as they are written.
LEMMA SetTokens ==
    ASSUME NEW r \in Requests \cup {Seed}, NEW x \in 0..MaxDelay,
           NEW y \in 0..MaxDelay, NEW z \in 0..MaxDelay, x <= y, y <= z
    PROVE  /\ set_tokens(r, x, y, z) \in [Names -> Cookie]
           /\ Fresh(r, set_tokens(r, x, y, z))
<1> DEFINE c == set_tokens(r, x, y, z)
<1>1. /\ _max_age(AccessLife, x) \in 0..RefreshLife
      /\ _max_age(RefreshLife, y) \in 0..RefreshLife
      /\ _max_age(RefreshLife, z) \in 0..RefreshLife
      /\ _max_age(AccessLife, x) <= _max_age(RefreshLife, z)
      /\ _max_age(RefreshLife, y) <= _max_age(RefreshLife, z) + MaxDelay
  BY Constants DEF _max_age
<1>2. /\ c["access"] = [of |-> r, ttl |-> _max_age(AccessLife, x)]
      /\ c["refresh"] = [of |-> r, ttl |-> _max_age(RefreshLife, y)]
      /\ c["csrf"] = [of |-> r, ttl |-> _max_age(RefreshLife, z)]
  BY DEF set_tokens, Set, Names
<1>3. r \in Sessions
  BY DEF Sessions
<1>4. c["access"] \in Cookie /\ c["refresh"] \in Cookie /\ c["csrf"] \in Cookie
  BY <1>1, <1>2, <1>3 DEF Cookie
<1>5. c = [n \in Names |-> c[n]]
  BY DEF set_tokens, Set
<1>. HIDE DEF c
<1>6. c \in [Names -> Cookie]
  BY <1>4, <1>5 DEF Names
<1>7. Fresh(r, c)
  BY <1>1, <1>2, <1>4 DEF Fresh, Lifetimes, Names
<1>. QED BY <1>6, <1>7 DEF c

\* A jar of cookies after a response was applied to it.
LEMMA AppliedJar ==
    ASSUME NEW c \in [Names -> Cookie], Jar(c), NEW r \in Sessions,
           NEW set \in [Names -> Cookie \cup {Unset}],
           set \in {Leave, NoCookies} \/ Fresh(r, set)
    PROVE  /\ Applied(c, set) \in [Names -> Cookie]
           /\ Jar(Applied(c, set))
           /\ set = Leave => Applied(c, set) = c
           /\ set = NoCookies => Applied(c, set) = NoCookies
           /\ Fresh(r, set) =>
                 \A n \in Names : Applied(c, set)[n].of \in {r, None}
<1>0. Applied(c, set) \in [Names -> Cookie]
  BY CookieTypes DEF Applied
<1>1. CASE set = Leave
  <2>1. Applied(c, set) = c
    BY <1>1 DEF Applied, Leave
  <2>2. ~Fresh(r, set) /\ set # NoCookies
    BY <1>1, CookieTypes, Constants DEF Fresh, Leave, Names
  <2>. QED BY <1>0, <2>1, <2>2
<1>2. CASE set = NoCookies
  <2>1. Applied(c, set) = NoCookies
    BY <1>2, CookieTypes DEF Applied, NoCookies
  <2>2. Jar(NoCookies)
    BY CookieTypes, Constants DEF Jar, Lifetimes, NoCookies, Names
  <2>3. ~Fresh(r, set) /\ set # Leave
    BY <1>2, CookieTypes, Constants DEF Fresh, NoCookies, Names
  <2>. QED BY <1>0, <2>1, <2>2, <2>3
<1>3. CASE Fresh(r, set)
  <2>1. \A n \in Names : /\ set[n] \in Cookie /\ set[n].of = r
                         /\ set[n] # Unset /\ set[n].ttl \in 0..RefreshLife
    BY <1>3, CookieTypes DEF Fresh, Cookie
  <2>2. \A n \in Names :
           /\ Applied(c, set)[n] = IF set[n].ttl = 0 THEN Absent ELSE set[n]
           /\ Applied(c, set)[n].ttl = set[n].ttl
           /\ Applied(c, set)[n].of = IF set[n].ttl = 0 THEN None ELSE r
    BY <2>1, CookieTypes DEF Applied
  <2>3. r \in Sessions /\ r # None
    BY Constants
  <2>4. Lifetimes(Applied(c, set))
    BY <1>3, <2>2 DEF Fresh, Lifetimes, Names
  <2>5. Jar(Applied(c, set))
    BY <2>2, <2>3, <2>4 DEF Jar
  <2>6. set # Leave /\ set # NoCookies
    BY <2>1, <2>3, CookieTypes DEF Leave, NoCookies, Names
  <2>. QED BY <1>0, <2>2, <2>5, <2>6
<1>. QED BY <1>1, <1>2, <1>3

\* A jar of cookies one second later.
Older(c) ==
    [n \in Names |-> IF c[n].ttl <= 1 THEN Absent
                     ELSE [of |-> c[n].of, ttl |-> c[n].ttl - 1]]

LEMMA OlderJar ==
    ASSUME NEW c \in [Names -> Cookie], Jar(c)
    PROVE  /\ Older(c) \in [Names -> Cookie] /\ Jar(Older(c))
           /\ \A n \in Names : Older(c)[n].of \in {c[n].of, None}
<1>1. \A n \in Names : /\ c[n] \in Cookie /\ c[n].ttl \in 0..RefreshLife
                       /\ c[n].of \in Sessions \cup {None}
  BY DEF Cookie
<1>2. RefreshLife \in Nat /\ MaxDelay \in Nat /\ None \notin Sessions
  BY Constants
<1>3. \A n \in Names :
         /\ Older(c)[n].ttl = IF c[n].ttl <= 1 THEN 0 ELSE c[n].ttl - 1
         /\ Older(c)[n].of = IF c[n].ttl <= 1 THEN None ELSE c[n].of
  BY CookieTypes DEF Older
<1>4. Older(c) \in [Names -> Cookie]
  BY <1>1, <1>2, CookieTypes DEF Older, Cookie
<1>5. Lifetimes(Older(c))
  BY <1>1, <1>2, <1>3 DEF Jar, Lifetimes, Names
<1>6. \A n \in Names : Older(c)[n].of = None <=> Older(c)[n].ttl = 0
  BY <1>1, <1>2, <1>3 DEF Jar
<1>7. PICK s \in Sessions : \A n \in Names : c[n].of \in {s, None}
  BY DEF Jar
<1>8. \A n \in Names : Older(c)[n].of \in {s, None}
  BY <1>3, <1>7
<1>. QED BY <1>3, <1>4, <1>5, <1>6, <1>8 DEF Jar

-----------------------------------------------------------------------------
(***************************************************************************)
(* Requests.                                                               *)
(***************************************************************************)
Carried == [access : Sessions \cup {None}, refresh : Sessions \cup {None},
            csrf : Sessions \cup {None}, visitor : Sessions \cup {None}]
Answer == [status : Statuses, auth : [Names -> Cookie \cup {Unset}],
           visitor : Requests \cup {None}]

WireTypes ==
    /\ op \in [Requests -> AllOps \cup {None}]
    /\ at \in [Requests -> Stages]
    /\ header \in [Requests -> Sessions \cup {None}]
    /\ carried \in [Requests -> Carried]
    /\ visitor \in [Requests -> Sessions \cup {None}]
    /\ answer \in [Requests -> Answer]
AuthTypes ==
    /\ cookie \in [auth : [Names -> Cookie], visitor : Sessions \cup {None}]
    /\ session \in [Sessions -> [state : {"none", "open", "revoked"},
                                 age : 0..RefreshLife]]
HistoryTypes ==
    /\ signedOut \in {"no", "done", "told", "raced"} /\ mishap \in BOOLEAN
    /\ excused \subseteq Requests /\ firsts \in 0..2

LEMMA TypeParts ==
    /\ TypeOK <=> WireTypes /\ AuthTypes /\ HistoryTypes
    /\ TypeOK' <=> WireTypes' /\ AuthTypes' /\ HistoryTypes'
BY DEF TypeOK, WireTypes, AuthTypes, HistoryTypes, Carried, Answer

\* A step of r leaves the other requests alone.
Others(r) ==
    \A q \in Requests \ {r} :
        /\ op'[q] = op[q] /\ at'[q] = at[q] /\ header'[q] = header[q]
        /\ carried'[q] = carried[q] /\ visitor'[q] = visitor[q]
        /\ answer'[q] = answer[q] /\ (q \in excused' <=> q \in excused)

LEMMA Blank ==
    /\ Nothing \in Carried /\ NoAnswer \in Answer
    /\ NoAnswer.status = 0 /\ NoAnswer.auth = Leave /\ NoAnswer.visitor = None
BY CookieTypes DEF Nothing, NoAnswer, Carried, Answer, Statuses

LEMMA RespondEffect ==
    ASSUME WireTypes, NEW r \in Requests, NEW st \in Statuses,
           NEW ck \in [Names -> Cookie \cup {Unset}], Respond(r, st, ck)
    PROVE  /\ WireTypes' /\ Others(r)
           /\ at'[r] = "answered" /\ op'[r] = None /\ carried'[r] = Nothing
           /\ answer'[r].status = st /\ answer'[r].auth = ck
           /\ answer'[r].visitor = SetVisitor(r) /\ visitor'[r] = VisitorOf(r)
           /\ UNCHANGED <<excused, firsts, mishap>>
<1>1. /\ SetVisitor(r) \in Requests \cup {None}
      /\ VisitorOf(r) \in Sessions \cup {None}
  BY Constants DEF SetVisitor, VisitorOf, WireTypes, Carried
<1>2. [status |-> st, auth |-> ck, visitor |-> SetVisitor(r)] \in Answer
  BY <1>1 DEF Answer
<1>3. WireTypes'
  BY <1>1, <1>2, Blank DEF Respond, Forget, WireTypes, Stages
<1>4. Others(r)
  BY DEF Respond, Forget, WireTypes, Others
<1>5. /\ at'[r] = "answered" /\ op'[r] = None /\ carried'[r] = Nothing
      /\ answer'[r] = [status |-> st, auth |-> ck, visitor |-> SetVisitor(r)]
      /\ visitor'[r] = VisitorOf(r) /\ UNCHANGED <<excused, firsts, mishap>>
  BY DEF Respond, Forget, WireTypes
<1>. QED BY <1>3, <1>4, <1>5

LEMMA ComposeEffect ==
    ASSUME TypeOK, NEW r \in Requests, NEW o \in Ops, Compose(r, o)
    PROVE  /\ TypeOK' /\ Others(r) /\ UNCHANGED <<auth, history>>
           /\ at[r] = "idle" /\ at'[r] = "composed" /\ op'[r] = o
           /\ carried'[r] = carried[r] /\ visitor'[r] = visitor[r]
           /\ answer'[r] = answer[r]
<1>1. cookie.auth["csrf"].of \in Sessions \cup {None}
  BY DEF TypeOK, Names, Cookie
<1>2. WireTypes'
  BY <1>1, TypeParts, BrowserAssumption DEF Compose, WireTypes, Stages
<1>3. AuthTypes' /\ HistoryTypes'
  BY TypeParts DEF Compose, auth, history, AuthTypes, HistoryTypes
<1>4. Others(r)
  BY TypeParts DEF Compose, WireTypes, Others, history
<1>. QED BY <1>2, <1>3, <1>4, TypeParts DEF Compose, WireTypes

LEMMA SendEffect ==
    ASSUME TypeOK, NEW r \in Requests, Send(r)
    PROVE  /\ TypeOK' /\ Others(r) /\ UNCHANGED auth
           /\ at[r] = "composed" /\ at'[r] = "sent" /\ op'[r] = op[r]
           /\ header'[r] = header[r] /\ visitor'[r] = visitor[r]
           /\ answer'[r] = answer[r]
           /\ carried'[r].access = cookie.auth["access"].of
           /\ carried'[r].refresh \in {cookie.auth["refresh"].of, None}
           /\ carried'[r].csrf = cookie.auth["csrf"].of
           /\ carried'[r].visitor = cookie.visitor
           /\ r \in excused' \/ /\ header[r] = cookie.auth["csrf"].of
                                /\ cookie.auth["refresh"].ttl \notin 1..MaxDelay
           /\ firsts' = IF cookie.visitor = None /\ firsts < 2 THEN firsts + 1
                        ELSE firsts
           /\ mishap' = (mishap \/ /\ op[r] \in Writers
                                   /\ \E q \in UnderWay : Writing(q))
           /\ signedOut' = IF op[r] = "login" /\ signedOut # "raced" THEN "no"
                           ELSE signedOut
<1> DEFINE new == [access  |-> cookie.auth["access"].of,
                   refresh |-> IF UnderAuth(op[r])
                               THEN cookie.auth["refresh"].of ELSE None,
                   csrf    |-> cookie.auth["csrf"].of,
                   visitor |-> cookie.visitor]
<1>1. /\ cookie.visitor \in Sessions \cup {None}
      /\ \A n \in Names : cookie.auth[n].of \in Sessions \cup {None}
  BY DEF TypeOK, Cookie
<1>2. new \in Carried
  BY <1>1 DEF Carried, Names
<1>3. carried' = [carried EXCEPT ![r] = new]
  BY DEF Send
<1>4. carried'[r] = new
  BY <1>3, TypeParts DEF WireTypes
<1>5. /\ carried'[r].access = cookie.auth["access"].of
      /\ carried'[r].refresh \in {cookie.auth["refresh"].of, None}
      /\ carried'[r].csrf = cookie.auth["csrf"].of
      /\ carried'[r].visitor = cookie.visitor
  BY <1>4
<1>. HIDE DEF new
<1>6. WireTypes'
  BY <1>2, <1>3, TypeParts DEF Send, WireTypes, Stages
<1>7. mishap' \in BOOLEAN
  BY TypeParts DEF Send, HistoryTypes
<1>8. AuthTypes' /\ HistoryTypes'
  BY <1>7, TypeParts DEF Send, auth, AuthTypes, HistoryTypes
<1>9. Others(r)
  BY <1>3, TypeParts DEF Send, WireTypes, Others
<1>. QED BY <1>5, <1>6, <1>8, <1>9, TypeParts DEF Send, WireTypes

LEMMA OverEffect ==
    ASSUME WireTypes, NEW r \in Requests, Over(r)
    PROVE  /\ at' \in [Requests -> Stages] /\ answer' \in [Requests -> Answer]
           /\ at'[r] = "done" /\ answer'[r] = NoAnswer
           /\ \A q \in Requests \ {r} :
                 /\ at'[q] = at[q] /\ answer'[q] = answer[q]
                 /\ q \in excused' <=> q \in excused
           /\ excused' \subseteq excused
BY Blank DEF Over, WireTypes, Stages

LEMMA DeliverEffect ==
    ASSUME JarInv, NEW r \in Requests, Deliver(r)
    PROVE  /\ TypeOK' /\ Others(r) /\ Jar(cookie.auth)'
           /\ at[r] = "answered" /\ at'[r] = "done" /\ answer'[r] = NoAnswer
           /\ visitor'[r] = visitor[r]
           /\ UNCHANGED <<session, firsts, mishap>>
           /\ cookie'.visitor = IF answer[r].visitor = None
                                THEN cookie.visitor ELSE answer[r].visitor
           /\ answer[r].auth = Leave => cookie'.auth = cookie.auth
           /\ answer[r].auth = NoCookies => cookie'.auth = NoCookies
           /\ answer[r].auth \notin {Leave, NoCookies} =>
                 \A n \in Names : cookie'.auth[n].of \in {r, None}
           /\ signedOut' = IF /\ answer[r].auth["access"] = Absent
                              /\ signedOut = "done"
                           THEN "told" ELSE signedOut
<1>0. TypeOK /\ WireTypes /\ AuthTypes /\ HistoryTypes /\ Shape(r)
  BY TypeParts DEF JarInv
<1>1. /\ answer[r].auth \in [Names -> Cookie \cup {Unset}]
      /\ answer[r].visitor \in Requests \cup {None}
      /\ cookie.auth \in [Names -> Cookie] /\ Jar(cookie.auth)
      /\ cookie.visitor \in Sessions \cup {None}
  BY <1>0 DEF WireTypes, AuthTypes, Answer, JarInv
<1>2. PICK c, set : c = cookie.auth /\ set = answer[r].auth
  OBVIOUS
<1>3. Applied(cookie.auth, answer[r].auth) = Applied(c, set)
  BY <1>2 DEF Applied
<1>4. set \in {Leave, NoCookies} \/ Fresh(r, set)
  BY <1>0, <1>2 DEF Shape
<1>5. /\ Applied(c, set) \in [Names -> Cookie] /\ Jar(Applied(c, set))
      /\ set = Leave => Applied(c, set) = c
      /\ set = NoCookies => Applied(c, set) = NoCookies
      /\ Fresh(r, set) =>
            \A n \in Names : Applied(c, set)[n].of \in {r, None}
  BY <1>1, <1>2, <1>4, AppliedJar, Constants
<1>6. cookie' = [auth |-> Applied(c, set),
                 visitor |-> IF answer[r].visitor = None THEN cookie.visitor
                             ELSE answer[r].visitor]
  BY <1>3 DEF Deliver
<1>7. /\ cookie'.auth = Applied(c, set)
      /\ cookie'.visitor = IF answer[r].visitor = None THEN cookie.visitor
                           ELSE answer[r].visitor
  BY <1>6
<1>8. AuthTypes'
  BY <1>0, <1>1, <1>5, <1>6, Constants DEF Deliver, AuthTypes
<1>9. WireTypes' /\ HistoryTypes' /\ Others(r)
  BY <1>0, OverEffect DEF Deliver, WireTypes, HistoryTypes, Others
<1>10. Jar(cookie.auth)'
  BY <1>5, <1>7 DEF Jar, Lifetimes
<1>11. /\ at[r] = "answered" /\ at'[r] = "done" /\ answer'[r] = NoAnswer
       /\ visitor'[r] = visitor[r] /\ UNCHANGED <<session, firsts, mishap>>
       /\ signedOut' = IF /\ answer[r].auth["access"] = Absent
                          /\ signedOut = "done"
                       THEN "told" ELSE signedOut
  BY <1>0, OverEffect DEF Deliver
<1>. QED BY <1>2, <1>4, <1>5, <1>7, <1>8, <1>9, <1>10, <1>11, TypeParts

LEMMA FailEffect ==
    ASSUME TypeOK, NEW r \in Requests, Fail(r)
    PROVE  /\ TypeOK' /\ Others(r) /\ UNCHANGED <<auth, signedOut, firsts>>
           /\ at'[r] = "done" /\ answer'[r] = NoAnswer /\ op'[r] = None
           /\ carried'[r] = Nothing /\ visitor'[r] = None /\ mishap' = TRUE
<1>0. WireTypes /\ AuthTypes /\ HistoryTypes
  BY TypeParts
<1>1. WireTypes' /\ Others(r)
  BY <1>0, OverEffect, Blank DEF Fail, Forget, WireTypes, Others
<1>2. AuthTypes' /\ HistoryTypes'
  BY <1>0, OverEffect DEF Fail, auth, AuthTypes, HistoryTypes
<1>3. /\ at'[r] = "done" /\ answer'[r] = NoAnswer /\ op'[r] = None
      /\ carried'[r] = Nothing /\ visitor'[r] = None /\ mishap' = TRUE
  BY <1>0, OverEffect DEF Fail, Forget, WireTypes
<1>. QED BY <1>1, <1>2, <1>3, TypeParts DEF Fail

LEMMA TickEffect ==
    ASSUME JarInv, Tick
    PROVE  /\ TypeOK' /\ Jar(cookie.auth)' /\ UNCHANGED <<wire, history>>
           /\ cookie'.visitor = cookie.visitor
           /\ \A n \in Names : cookie'.auth[n].of \in {cookie.auth[n].of, None}
           /\ \A s \in Sessions : session'[s].state = session[s].state
<1>0. TypeOK /\ WireTypes /\ AuthTypes /\ HistoryTypes
  BY TypeParts DEF JarInv
<1>1. PICK c : c = cookie.auth
  OBVIOUS
<1>2. c \in [Names -> Cookie] /\ Jar(c)
  BY <1>0, <1>1 DEF AuthTypes, JarInv
<1>3. cookie' = [cookie EXCEPT !.auth = Older(c)]
  BY <1>1 DEF Tick, Older
<1>4. /\ Older(c) \in [Names -> Cookie] /\ Jar(Older(c))
      /\ \A n \in Names : Older(c)[n].of \in {c[n].of, None}
  BY <1>2, OlderJar
<1>5. cookie'.auth = Older(c) /\ cookie'.visitor = cookie.visitor
  BY <1>0, <1>3 DEF AuthTypes
<1>6. Jar(cookie.auth)'
  BY <1>4, <1>5 DEF Jar, Lifetimes
<1>7. session' = [s \in Sessions |->
          IF session[s].state = "open" /\ session[s].age < RefreshLife
          THEN [session[s] EXCEPT !.age = @ + 1] ELSE session[s]]
  BY DEF Tick
<1>8. ASSUME NEW s \in Sessions
      PROVE  /\ session'[s].state = session[s].state
             /\ session'[s] \in [state : {"none", "open", "revoked"},
                                 age : 0..RefreshLife]
  <2>1. session[s] \in [state : {"none", "open", "revoked"},
                        age : 0..RefreshLife]
    BY <1>0, <1>8 DEF AuthTypes
  <2>. QED BY <1>7, <1>8, <2>1, Constants
<1>9. AuthTypes'
  <2>1. session' \in [Sessions -> [state : {"none", "open", "revoked"},
                                   age : 0..RefreshLife]]
    BY <1>7, <1>8
  <2>2. cookie' \in [auth : [Names -> Cookie], visitor : Sessions \cup {None}]
    BY <1>0, <1>3, <1>4 DEF AuthTypes
  <2>. QED BY <2>1, <2>2 DEF AuthTypes
<1>10. UNCHANGED <<wire, history>>
  BY DEF Tick
<1>11. WireTypes' /\ HistoryTypes'
  BY <1>0, <1>10 DEF WireTypes, HistoryTypes, wire, history
<1>. QED BY <1>1, <1>4, <1>5, <1>6, <1>8, <1>9, <1>10, <1>11, TypeParts

-----------------------------------------------------------------------------
(***************************************************************************)
(* What the service may do with a request.                                 *)
(***************************************************************************)
\* A refresh passes its check.
Passes(r) ==
    /\ at[r] = "sent" /\ op[r] = "refresh" /\ carried[r].refresh # None
    /\ session[carried[r].refresh].state = "open"
    /\ at' = [at EXCEPT ![r] = "rotating"]
    /\ UNCHANGED <<auth, op, header, carried, visitor, answer, history>>

\* An answer that leaves sessions and auth cookies alone.
Declines(r) ==
    /\ at[r] = "sent"
    /\ \E st \in Statuses : (st = 403 => Refused(r)) /\ Respond(r, st, Leave)
    /\ UNCHANGED <<auth, signedOut>>

\* A session is opened, and perhaps the one before it revoked.
Grants(r) ==
    /\ at[r] = "rotating" \/ (at[r] = "sent" /\ op[r] = "login")
    /\ \E ck \in [Names -> Cookie] : Fresh(r, ck) /\ Respond(r, 200, ck)
    /\ session'[r].state = "open"
    /\ \A s \in Sessions \ {r} :
          session'[s].state = "open" => session[s].state = "open"
    /\ UNCHANGED <<cookie, signedOut>>

\* Sessions are revoked and the cookies cleared.
Clears(r) ==
    /\ at[r] = "sent" /\ op[r] \in {"logout", "sign_out"}
    /\ Respond(r, 200, NoCookies)
    /\ carried[r].access # None
    /\ \A s \in Sessions :
          /\ session'[s].state = "open" => session[s].state = "open"
          /\ op[r] = "sign_out" \/ s = carried[r].access =>
                session'[s].state # "open"
    /\ signedOut' = IF signedOut = "raced" \/ OutOfReach(r)
                    THEN "raced" ELSE "done"
    /\ UNCHANGED cookie

SessionRow == [state : {"none", "open", "revoked"}, age : 0..RefreshLife]

LEMMA RevokeEffect ==
    ASSUME NEW x \in SessionRow
    PROVE  revoke(x) \in SessionRow /\ revoke(x).state # "open"
BY Constants DEF revoke, SessionRow

LEMMA ServeEffect ==
    ASSUME TypeOK, NEW r \in Requests, Serve(r)
    PROVE  /\ Passes(r) \/ Declines(r) \/ Grants(r) \/ Clears(r)
           /\ session' \in [Sessions -> SessionRow] /\ cookie' = cookie
<1>0. /\ r \in Sessions /\ session \in [Sessions -> SessionRow]
      /\ carried[r] \in Carried
      /\ 200 \in Statuses /\ 401 \in Statuses /\ 403 \in Statuses
  BY TypeParts, Constants
     DEF AuthTypes, SessionRow, Statuses, WireTypes
<1>1. CASE csrf_dispatch(r)
  BY <1>0, <1>1 DEF csrf_dispatch, Declines, auth
<1>2. CASE Other(r)
  <2>1. PICK st \in {200, 401} : Respond(r, st, Leave)
    BY <1>2 DEF Other
  <2>. QED BY <1>0, <1>2, <2>1 DEF Other, Declines, auth
<1>3. ASSUME Opens(r)
      PROVE  \E ck \in [Names -> Cookie] : Fresh(r, ck) /\ Respond(r, 200, ck)
  BY <1>3, SetTokens DEF Opens
<1>4. CASE login(r)
  <2>1. CASE Opens(r) /\ session' = [session EXCEPT ![r].state = "open"]
    <3>1. [session[r] EXCEPT !.state = "open"] \in SessionRow
      BY <1>0 DEF SessionRow
    <3>2. /\ session' \in [Sessions -> SessionRow]
          /\ session'[r].state = "open"
          /\ \A s \in Sessions \ {r} : session'[s] = session[s]
      <4>1. session' = [session EXCEPT ![r] =
                           [session[r] EXCEPT !.state = "open"]]
        BY <2>1
      <4>2. [session[r] EXCEPT !.state = "open"].state = "open"
        BY <1>0 DEF SessionRow
      <4>. QED BY <1>0, <3>1, <4>1, <4>2
    <3>. QED BY <1>3, <1>4, <2>1, <3>2 DEF login, Grants
  <2>2. CASE Respond(r, 401, Leave) /\ UNCHANGED session
    BY <1>0, <1>4, <2>2 DEF login, Declines, auth
  <2>. QED BY <1>4, <2>1, <2>2 DEF login
<1>5. CASE refresh(r)
  <2>1. CASE carried[r].refresh # None /\ is_valid(carried[r].refresh)
    BY <1>0, <1>5, <2>1 DEF refresh, is_valid, Passes, auth, history
  <2>2. CASE ~(carried[r].refresh # None /\ is_valid(carried[r].refresh))
    BY <1>0, <1>5, <2>2 DEF refresh, Declines, auth
  <2>. QED BY <2>1, <2>2
<1>6. CASE Rotate(r)
  <2>1. /\ at[r] = "rotating" /\ Opens(r) /\ UNCHANGED <<cookie, signedOut>>
    BY <1>6 DEF Rotate
  <2>2. PICK old : old = carried[r].refresh
    OBVIOUS
  <2>3. PICK mid : mid = [session EXCEPT ![old] = revoke(@)]
    OBVIOUS
  <2>4. /\ mid \in [Sessions -> SessionRow]
        /\ \A s \in Sessions : mid[s].state = "open" =>
              session[s].state = "open"
    <3>1. old \in Sessions => revoke(session[old]) \in SessionRow
                              /\ revoke(session[old]).state # "open"
      BY <1>0, RevokeEffect
    <3>. QED BY <1>0, <2>3, <3>1
  <2>5. session' = [mid EXCEPT ![r] = [mid[r] EXCEPT !.state = "open"]]
    BY <1>6, <2>2, <2>3 DEF Rotate
  <2>6. /\ [mid[r] EXCEPT !.state = "open"] \in SessionRow
        /\ [mid[r] EXCEPT !.state = "open"].state = "open"
    BY <1>0, <2>4 DEF SessionRow
  <2>7. /\ session' \in [Sessions -> SessionRow]
        /\ session'[r].state = "open"
        /\ \A s \in Sessions \ {r} : session'[s] = mid[s]
    BY <1>0, <2>4, <2>5, <2>6
  <2>. QED BY <1>3, <2>1, <2>4, <2>7 DEF Grants
<1>7. CASE SignOut(r)
  <2>1. CASE Works(carried[r].access)
    <3>1. /\ session' = [s \in Sessions |->
                IF op[r] = "sign_out" \/ s = carried[r].access
                THEN revoke(session[s]) ELSE session[s]]
          /\ Respond(r, 200, NoCookies)
          /\ signedOut' = IF signedOut = "raced" \/ OutOfReach(r)
                          THEN "raced" ELSE "done"
          /\ at[r] = "sent" /\ op[r] \in {"logout", "sign_out"}
          /\ UNCHANGED cookie
      BY <1>7, <2>1 DEF SignOut, clear_tokens
    <3>2. \A s \in Sessions : /\ revoke(session[s]) \in SessionRow
                              /\ revoke(session[s]).state # "open"
      BY <1>0, RevokeEffect
    <3>3. session' \in [Sessions -> SessionRow]
      BY <1>0, <3>1, <3>2
    <3>4. \A s \in Sessions :
             /\ session'[s].state = "open" => session[s].state = "open"
             /\ op[r] = "sign_out" \/ s = carried[r].access =>
                   session'[s].state # "open"
      BY <3>1, <3>2
    <3>. QED BY <2>1, <3>1, <3>3, <3>4 DEF Works, Clears
  <2>2. CASE ~Works(carried[r].access)
    BY <1>0, <1>7, <2>2 DEF SignOut, Declines, auth
  <2>. QED BY <2>1, <2>2
<1>. QED BY <1>1, <1>2, <1>4, <1>5, <1>6, <1>7 DEF Serve

LEMMA PassesEffect ==
    ASSUME TypeOK, NEW r \in Requests, Passes(r)
    PROVE  /\ WireTypes' /\ HistoryTypes' /\ Others(r)
           /\ at'[r] = "rotating"
  BY TypeParts
     DEF Passes, WireTypes, HistoryTypes, Stages, Others, history

LEMMA ServeType ==
    ASSUME TypeOK, NEW r \in Requests, Serve(r)
    PROVE  TypeOK' /\ Others(r)
<1>0. WireTypes /\ AuthTypes /\ HistoryTypes /\ 200 \in Statuses
  BY TypeParts DEF Statuses
<1>1. AuthTypes'
  BY <1>0, ServeEffect DEF AuthTypes, SessionRow
<1>2. \A ck : ck \in [Names -> Cookie] =>
                 ck \in [Names -> Cookie \cup {Unset}]
  OBVIOUS
<1>3. CASE Passes(r)
  BY <1>1, <1>3, PassesEffect, TypeParts
<1>4. ASSUME NEW st \in Statuses, NEW ck \in [Names -> Cookie \cup {Unset}],
             Respond(r, st, ck), signedOut' \in {signedOut, "raced", "done"}
      PROVE  TypeOK' /\ Others(r)
  <2>1. WireTypes' /\ Others(r) /\ UNCHANGED <<excused, firsts, mishap>>
    BY <1>0, <1>4, RespondEffect
  <2>2. HistoryTypes'
    BY <1>0, <1>4, <2>1 DEF HistoryTypes
  <2>. QED BY <1>1, <2>1, <2>2, TypeParts
<1>5. CASE Declines(r)
  BY <1>4, <1>5, CookieTypes DEF Declines
<1>6. CASE Grants(r)
  BY <1>0, <1>2, <1>4, <1>6 DEF Grants
<1>7. CASE Clears(r)
  BY <1>0, <1>2, <1>4, <1>7, CookieTypes DEF Clears
<1>. QED BY <1>3, <1>5, <1>6, <1>7, ServeEffect

-----------------------------------------------------------------------------
(***************************************************************************)
(* Jars and excuses.                                                       *)
(***************************************************************************)
\* Another request is as it was.
LEMMA OtherShapes ==
    ASSUME JarInv, NEW r \in Requests, Others(r), NEW q \in Requests, q # r
    PROVE  Shape(q)' /\ Excused(q)'
<1>1. Shape(q) /\ Excused(q)
  BY DEF JarInv
<1>2. /\ op'[q] = op[q] /\ at'[q] = at[q] /\ header'[q] = header[q]
      /\ carried'[q] = carried[q] /\ answer'[q] = answer[q]
      /\ q \in excused' <=> q \in excused
  BY DEF Others
<1>3. Shape(q)'
  BY <1>1, <1>2 DEF Shape, Fresh, Lifetimes
<1>4. Refused(q)' <=> Refused(q)
  BY <1>2 DEF Refused, _requires_check, _token_matches
<1>. QED BY <1>1, <1>2, <1>3, <1>4 DEF Excused

\* The answer to a request, as it is given.
LEMMA RespondShape ==
    ASSUME JarInv, NEW r \in Requests, NEW st \in Statuses,
           NEW ck \in [Names -> Cookie \cup {Unset}], Respond(r, st, ck),
           ck \in {Leave, NoCookies} \/ Fresh(r, ck),
           st = 403 => r \in excused
    PROVE  Shape(r)' /\ Excused(r)'
<1>1. /\ at'[r] = "answered" /\ answer'[r].status = st /\ answer'[r].auth = ck
      /\ answer'[r].visitor = SetVisitor(r) /\ excused' = excused
  BY TypeParts, RespondEffect DEF JarInv
<1>2. answer'[r].visitor \in {r, None}
  BY <1>1 DEF SetVisitor
<1>3. Shape(r)'
  BY <1>1, <1>2 DEF Shape, Fresh, Lifetimes
<1>. QED BY <1>1, <1>3 DEF Excused

LEMMA CsrfCovers == JarInv => CsrfCoversAuth
<1> SUFFICES ASSUME JarInv PROVE CsrfCoversAuth
  OBVIOUS
<1>0. /\ \A n \in Names : /\ cookie.auth[n].ttl \in 0..RefreshLife
                          /\ cookie.auth[n].of = None <=> cookie.auth[n].ttl = 0
      /\ Lifetimes(cookie.auth)
  BY DEF JarInv, TypeOK, Cookie, Jar
<1>1. PICK s \in Sessions : \A n \in Names : cookie.auth[n].of \in {s, None}
  BY DEF JarInv, Jar
<1>2. Held \in SUBSET {s}
  BY <1>1 DEF Held
<1>3. Cardinality(Held) <= 1
  <2>1. IsFiniteSet({s}) /\ Cardinality({s}) = 1
    BY FS_Singleton
  <2>2. Cardinality(Held) <= Cardinality({s})
    BY <1>2, <2>1, FS_Subset
  <2>. QED BY <2>1, <2>2
<1>4. ASSUME Held # {}, cookie.auth["csrf"].of = None
      PROVE  cookie.auth["refresh"].ttl \in 1..MaxDelay
  <2>1. \E n \in Names : cookie.auth[n].of # None
    BY <1>4 DEF Held
  <2>2. cookie.auth["csrf"].ttl = 0
    BY <1>0, <1>4 DEF Names
  <2>3. cookie.auth["access"].ttl = 0
    BY <1>0, <2>2 DEF Lifetimes, Names
  <2>4. cookie.auth["refresh"].of # None
    BY <1>0, <1>4, <2>1, <2>3 DEF Names
  <2>5. /\ cookie.auth["refresh"].ttl # 0
        /\ cookie.auth["refresh"].ttl \in 0..RefreshLife
        /\ cookie.auth["refresh"].ttl <= MaxDelay
    BY <1>0, <2>2, <2>4, Constants DEF Lifetimes, Names
  <2>. QED BY <2>5, Constants
<1>. QED BY <1>3, <1>4 DEF CsrfCoversAuth

LEMMA SendShape ==
    ASSUME JarInv, NEW r \in Requests, Send(r)
    PROVE  Shape(r)' /\ Excused(r)'
<1>0. TypeOK /\ Shape(r)
  BY DEF JarInv
<1>1. /\ at[r] = "composed" /\ at'[r] = "sent" /\ header'[r] = header[r]
      /\ answer'[r] = answer[r]
      /\ carried'[r].access = cookie.auth["access"].of
      /\ carried'[r].refresh \in {cookie.auth["refresh"].of, None}
      /\ carried'[r].csrf = cookie.auth["csrf"].of
      /\ r \in excused' \/ /\ header[r] = cookie.auth["csrf"].of
                           /\ cookie.auth["refresh"].ttl \notin 1..MaxDelay
  BY <1>0, SendEffect
<1>2. Shape(r)'
  BY <1>0, <1>1 DEF Shape, Fresh, Lifetimes
<1>3. ASSUME Refused(r)', r \notin excused' PROVE FALSE
  <2>1. cookie.auth["csrf"].of = None
    BY <1>1, <1>3 DEF Refused, _token_matches
  <2>2. \/ cookie.auth["access"].of # None
        \/ cookie.auth["refresh"].of # None
    BY <1>1, <1>3 DEF Refused, _requires_check
  <2>3. Held # {}
    BY <2>2 DEF Held, Names
  <2>. QED BY <1>1, <1>3, <2>1, <2>3, CsrfCovers DEF CsrfCoversAuth
<1>. QED BY <1>1, <1>2, <1>3 DEF Excused

LEMMA JarInit == Init => JarInv
<1> SUFFICES ASSUME Init PROVE JarInv
  OBVIOUS
<1>1. /\ \A r \in Requests : at[r] = "idle" /\ answer[r] = NoAnswer
  BY DEF Init
<1>2. \A r \in Requests : Shape(r) /\ Excused(r)
  BY <1>1, Blank DEF Shape, Excused
<1>3. WireTypes /\ HistoryTypes
  <2>1. WireTypes
    BY Blank DEF Init, WireTypes, Stages
  <2>2. HistoryTypes
    <3>1. mishap \in BOOLEAN /\ excused \subseteq Requests
      BY Zenon DEF Init
    <3>2. signedOut \in {"no", "done", "told", "raced"} /\ firsts \in 0..2
      BY SMT DEF Init
    <3>. QED BY <3>1, <3>2 DEF HistoryTypes
  <2>. QED BY <2>1, <2>2
<1>4. AuthTypes /\ Jar(cookie.auth)
  <2>1. CASE /\ cookie = [auth |-> NoCookies, visitor |-> None]
             /\ session = [s \in Sessions |-> [state |-> "none", age |-> 0]]
    <3>1. cookie.auth = NoCookies
      BY <2>1
    <3>2. Jar(NoCookies)
      BY CookieTypes, Constants DEF Jar, Lifetimes, NoCookies, Names
    <3>3. AuthTypes
      BY <2>1, CookieTypes, Constants DEF AuthTypes
    <3>. QED BY <3>1, <3>2, <3>3
  <2>2. CASE /\ cookie = [auth |-> Applied(NoCookies,
                                           set_tokens(Seed, 0, 0, 0)),
                          visitor |-> Seed]
             /\ session = [s \in Sessions |->
                   [state |-> IF s = Seed THEN "open" ELSE "none", age |-> 0]]
    <3>1. PICK set : set = set_tokens(Seed, 0, 0, 0)
      OBVIOUS
    <3>2. /\ set \in [Names -> Cookie \cup {Unset}] /\ Fresh(Seed, set)
          /\ NoCookies \in [Names -> Cookie]
      BY <3>1, SetTokens, Constants, CookieTypes
    <3>3. Jar(NoCookies)
      BY CookieTypes, Constants DEF Jar, Lifetimes, NoCookies, Names
    <3>4. PICK c : c = Applied(NoCookies, set)
      OBVIOUS
    <3>5. c \in [Names -> Cookie] /\ Jar(c)
      BY <3>2, <3>3, <3>4, AppliedJar, Constants
    <3>6. cookie = [auth |-> c, visitor |-> Seed] /\ cookie.auth = c
      BY <2>2, <3>1, <3>4
    <3>7. AuthTypes
      BY <2>2, <3>5, <3>6, Constants DEF AuthTypes
    <3>. QED BY <3>5, <3>6, <3>7
  <2>. QED BY <2>1, <2>2 DEF Init
<1>. QED BY <1>2, <1>3, <1>4, TypeParts DEF JarInv


LEMMA JarStep == JarInv /\ [Next]_vars => JarInv'
<1> SUFFICES ASSUME JarInv, [Next]_vars PROVE JarInv'
  OBVIOUS
<1>0. TypeOK /\ Jar(cookie.auth) /\ \A r \in Requests : Shape(r) /\ Excused(r)
  BY DEF JarInv
<1>1. ASSUME NEW r \in Requests, TypeOK', Jar(cookie.auth)', Others(r),
             Shape(r)', Excused(r)'
      PROVE  JarInv'
  <2>1. \A q \in Requests : Shape(q)' /\ Excused(q)'
    BY <1>1, OtherShapes
  <2>. QED BY <1>1, <2>1 DEF JarInv
<1>2. ASSUME UNCHANGED cookie PROVE Jar(cookie.auth)'
  BY <1>0, <1>2 DEF Jar, Lifetimes
<1>3. ASSUME NEW r \in Requests, NEW o \in Ops, Compose(r, o) PROVE JarInv'
  <2>1. /\ TypeOK' /\ Others(r) /\ UNCHANGED cookie /\ at[r] = "idle"
        /\ at'[r] = "composed" /\ answer'[r] = answer[r]
    BY <1>0, <1>3, ComposeEffect DEF auth
  <2>2. Shape(r)' /\ Excused(r)'
    BY <1>0, <2>1 DEF Shape, Excused, Fresh, Lifetimes
  <2>. QED BY <1>1, <1>2, <2>1, <2>2
<1>4. ASSUME NEW r \in Requests, Send(r) PROVE JarInv'
  <2>1. TypeOK' /\ Others(r) /\ UNCHANGED cookie
    BY <1>0, <1>4, SendEffect DEF auth
  <2>2. Shape(r)' /\ Excused(r)'
    BY <1>4, SendShape
  <2>. QED BY <1>1, <1>2, <2>1, <2>2
<1>5. ASSUME NEW r \in Requests, Serve(r) PROVE JarInv'
  <2>1. TypeOK' /\ Others(r) /\ UNCHANGED cookie
    BY <1>0, <1>5, ServeType, ServeEffect
  <2>2. 200 \in Statuses
    BY DEF Statuses
  <2>3. \A ck : ck \in [Names -> Cookie] =>
                   ck \in [Names -> Cookie \cup {Unset}]
    OBVIOUS
  <2>4. CASE Passes(r)
    <3>1. at'[r] = "rotating" /\ op[r] = "refresh" /\ at[r] = "sent"
          /\ UNCHANGED <<op, answer>>
      BY <1>0, <2>4, PassesEffect DEF Passes
    <3>. QED BY <1>0, <3>1 , <1>1, <1>2, <2>1
             DEF Shape, Excused, Fresh, Lifetimes
  <2>5. CASE Declines(r)
    <3>1. PICK st \in Statuses : /\ at[r] = "sent" /\ Respond(r, st, Leave)
                                 /\ st = 403 => Refused(r)
      BY <2>5 DEF Declines
    <3>2. st = 403 => r \in excused
      BY <1>0, <3>1 DEF Excused
    <3>3. Shape(r)' /\ Excused(r)'
      BY <3>1, <3>2, RespondShape, CookieTypes
    <3>. QED BY <1>1, <1>2, <2>1, <3>3
  <2>6. CASE Grants(r)
    <3>1. PICK ck \in [Names -> Cookie] : Fresh(r, ck) /\ Respond(r, 200, ck)
      BY <2>6 DEF Grants
    <3>2. Shape(r)' /\ Excused(r)'
      BY <2>2, <2>3, <3>1, RespondShape
    <3>. QED BY <1>1, <1>2, <2>1, <3>2
  <2>7. CASE Clears(r)
    <3>1. Respond(r, 200, NoCookies)
      BY <2>7 DEF Clears
    <3>2. Shape(r)' /\ Excused(r)'
      BY <2>2, <2>3, <3>1, RespondShape, CookieTypes
    <3>. QED BY <1>1, <1>2, <2>1, <3>2
  <2>. QED BY <1>0, <1>5, <2>4, <2>5, <2>6, <2>7, ServeEffect
<1>6. ASSUME NEW r \in Requests, at'[r] = "done", answer'[r] = NoAnswer
      PROVE  Shape(r)' /\ Excused(r)'
  BY <1>6, Blank DEF Shape, Excused
<1>7. ASSUME NEW r \in Requests, Deliver(r) PROVE JarInv'
  <2>1. /\ TypeOK' /\ Others(r) /\ Jar(cookie.auth)'
        /\ at'[r] = "done" /\ answer'[r] = NoAnswer
    BY <1>7, DeliverEffect
  <2>. QED BY <1>1, <1>6, <2>1
<1>8. ASSUME NEW r \in Requests, Fail(r) PROVE JarInv'
  <2>1. /\ TypeOK' /\ Others(r) /\ UNCHANGED cookie
        /\ at'[r] = "done" /\ answer'[r] = NoAnswer
    BY <1>0, <1>8, FailEffect DEF auth
  <2>. QED BY <1>1, <1>2, <1>6, <2>1
<1>9. ASSUME UNCHANGED <<wire, history>>, TypeOK', Jar(cookie.auth)'
      PROVE  JarInv'
  <2>1. \A r \in Requests : Shape(r)' /\ Excused(r)'
    BY <1>0, <1>9 DEF wire, history, Shape, Excused, Fresh, Lifetimes,
                      Refused, _requires_check, _token_matches
  <2>. QED BY <1>9, <2>1 DEF JarInv
<1>10. CASE Tick
  BY <1>9, <1>10, TickEffect
<1>11. CASE UNCHANGED vars
  <2>1. UNCHANGED <<auth, wire, history>>
    BY <1>11 DEF vars
  <2>2. TypeOK'
    BY <1>0, <2>1 DEF TypeOK, auth, wire, history
  <2>. QED BY <1>2, <1>9, <2>1, <2>2 DEF auth
<1>. QED BY <1>3, <1>4, <1>5, <1>7, <1>8, <1>10, <1>11 DEF Next, Quiet

LEMMA JarHolds == Spec => []JarInv
BY JarInit, JarStep, PTL DEF Spec

\* Cookies, sessions, requests and history have their types.
THEOREM BrowserTypes == Spec => []TypeOK
<1>1. JarInv => TypeOK
  BY DEF JarInv
<1>. QED BY <1>1, JarHolds, PTL

\* The browser's cookies are those of one response, and while it has an auth
\* cookie it has the CSRF cookie too, except in the last MaxDelay seconds.
THEOREM CsrfIsThere == Spec => []CsrfCoversAuth
BY CsrfCovers, JarHolds, PTL

\* CsrfMiddleware refuses only a request whose cookies changed between its
\* composing and its sending, or one sent in the last MaxDelay seconds of the
\* refresh cookie.
THEOREM RefusalsExcused == Spec => []RefusedOnlyIfRotated
<1>1. JarInv => RefusedOnlyIfRotated
  BY DEF JarInv, Excused, RefusedOnlyIfRotated
<1>. QED BY <1>1, JarHolds, PTL

-----------------------------------------------------------------------------
(***************************************************************************)
(* Undisturbed cookies.                                                    *)
(***************************************************************************)
LEMMA OtherTurns ==
    ASSUME NEW r \in Requests, Others(r), NEW q \in Requests, q # r
    PROVE  /\ Turns(q)' <=> Turns(q)
           /\ Writing(q)' <=> Writing(q)
           /\ (q \in UnderWay)' <=> q \in UnderWay
           /\ at'[q] = at[q] /\ answer'[q] = answer[q]
BY DEF Others, Turns, Writing, UnderWay

\* Requests under way that may change the cookies do not become more.
LEMMA StillAlone ==
    ASSUME Alone, NEW r \in Requests, Others(r),
           (r \in UnderWay)' /\ Writing(r)' => r \in UnderWay /\ Writing(r)
    PROVE  Alone'
<1> SUFFICES ASSUME NEW p \in Requests, NEW q \in Requests,
                    (p \in UnderWay)', (q \in UnderWay)',
                    Writing(p)', Writing(q)'
             PROVE  p = q
  BY DEF Alone, UnderWay
<1>1. /\ p \in UnderWay /\ Writing(p)
      /\ q \in UnderWay /\ Writing(q)
  BY OtherTurns
<1>. QED BY <1>1 DEF Alone

LEMMA LiveStep == JarInv /\ LiveInv /\ [Next]_vars => LiveInv'
<1> SUFFICES ASSUME JarInv, LiveInv, [Next]_vars, ~mishap'
             PROVE  LiveInv'
  BY DEF LiveInv
<1>0. TypeOK /\ \A r \in Requests : Shape(r)
  BY DEF JarInv
<1>1. ASSUME ~mishap
      PROVE  /\ Alone
             /\ (\A r \in Requests : ~Turns(r)) => HeldOpen
             /\ \A r \in Requests : Promised(r)
  BY <1>1 DEF LiveInv
<1>2. ASSUME NEW r \in Requests, ~mishap, Others(r), UNCHANGED auth,
             ~Turns(r)', ~Turns(r)
      PROVE  /\ (\A q \in Requests : ~Turns(q)') => HeldOpen'
             /\ \A q \in Requests : Promised(q)'
  <2>1. \A q \in Requests : /\ Turns(q)' <=> Turns(q)
                            /\ Turns(q) => answer'[q] = answer[q]
    BY <1>2, OtherTurns
  <2>2. HeldOpen' <=> HeldOpen
    BY <1>2 DEF HeldOpen, Held, auth
  <2>3. \A q \in Requests : Promised(q)'
    BY <1>1, <1>2, <2>1 DEF Promised, auth
  <2>. QED BY <1>1, <1>2, <2>1, <2>2, <2>3
<1>3. ASSUME NEW r \in Requests, NEW o \in Ops, Compose(r, o) PROVE LiveInv'
  <2>1. /\ Others(r) /\ UNCHANGED <<auth, history>> /\ at[r] = "idle"
        /\ at'[r] = "composed"
    BY <1>0, <1>3, ComposeEffect
  <2>2. /\ ~mishap /\ ~Turns(r) /\ ~Turns(r)' /\ ~(r \in UnderWay)'
    BY <2>1 DEF history, Turns, UnderWay
  <2>. QED BY <1>1, <1>2, <2>1, <2>2, StillAlone DEF LiveInv
<1>4. ASSUME NEW r \in Requests, Send(r) PROVE LiveInv'
  <2>1. /\ Others(r) /\ UNCHANGED auth /\ at[r] = "composed"
        /\ at'[r] = "sent" /\ op'[r] = op[r] /\ answer'[r] = answer[r]
        /\ mishap' = (mishap \/ /\ op[r] \in Writers
                                /\ \E q \in UnderWay : Writing(q))
    BY <1>0, <1>4, SendEffect
  <2>2. ~mishap /\ ~Turns(r) /\ ~Turns(r)'
    BY <2>1 DEF Turns
  <2>3. Alone'
    <3> SUFFICES ASSUME NEW p \in Requests, NEW q \in Requests, p # q,
                        (p \in UnderWay)', (q \in UnderWay)',
                        Writing(p)', Writing(q)'
                 PROVE  FALSE
      BY DEF Alone, UnderWay
    <3>1. Writing(r)' => op[r] \in Writers
      BY <1>0, <2>1, Blank DEF Writing, Shape
    <3>2. ASSUME Writing(r)', NEW w \in Requests, w # r,
                 (w \in UnderWay)', Writing(w)'
          PROVE  FALSE
      <4>1. w \in UnderWay /\ Writing(w)
        BY <2>1, <3>2, OtherTurns
      <4>. QED BY <2>1, <3>1, <3>2, <4>1
    <3>3. p # r /\ q # r
      BY <3>2
    <3>4. p \in UnderWay /\ Writing(p) /\ q \in UnderWay /\ Writing(q)
      BY <2>1, <3>3, OtherTurns
    <3>. QED BY <1>1, <2>2, <3>4 DEF Alone
  <2>. QED BY <1>1, <1>2, <2>1, <2>2, <2>3 DEF LiveInv
<1>5. ASSUME NEW r \in Requests, Serve(r) PROVE LiveInv'
  <2>1. Others(r) /\ UNCHANGED cookie /\ WireTypes /\ 200 \in Statuses
    BY <1>0, <1>5, ServeType, ServeEffect, TypeParts DEF Statuses
  <2>2. \A ck : ck \in [Names -> Cookie] =>
                   ck \in [Names -> Cookie \cup {Unset}]
    OBVIOUS
  <2>3. CASE Passes(r)
    <3>1. /\ at[r] = "sent" /\ at'[r] = "rotating"
          /\ UNCHANGED <<auth, history, op, answer>>
      BY <1>0, <2>3, PassesEffect DEF Passes
    <3>2. ~mishap /\ ~Turns(r) /\ ~Turns(r)'
      BY <3>1 DEF Turns, history
    <3>3. r \in UnderWay /\ (Writing(r)' <=> Writing(r))
      BY <3>1 DEF UnderWay, Writing
    <3>. QED BY <1>1, <1>2, <2>1, <3>1, <3>2, <3>3, StillAlone DEF LiveInv
  <2>4. CASE Declines(r)
    <3>1. PICK st \in Statuses : Respond(r, st, Leave)
      BY <2>4 DEF Declines
    <3>2. /\ at[r] = "sent" /\ answer'[r].auth = Leave /\ op'[r] = None
          /\ UNCHANGED <<auth, mishap>>
      BY <2>1, <2>4, <3>1, RespondEffect, CookieTypes DEF Declines
    <3>3. ~mishap /\ ~Turns(r) /\ ~Turns(r)' /\ ~Writing(r)'
      <4>1. None \notin Writers
        BY BrowserAssumption DEF Writers, AllOps
      <4>. QED BY <3>2, <4>1 DEF Turns, Writing
    <3>. QED BY <1>1, <1>2, <2>1, <3>2, <3>3, StillAlone DEF LiveInv
  <2>5. ASSUME at[r] = "rotating" \/ (at[r] = "sent" /\ op[r] \in Writers),
               NEW ck \in [Names -> Cookie], Respond(r, 200, ck),
               ck # NoCookies => session'[r].state = "open"
        PROVE  LiveInv'
    <3>1. /\ at'[r] = "answered" /\ answer'[r].auth = ck /\ mishap' = mishap
      BY <2>1, <2>2, <2>5, RespondEffect
    <3>2. r \in UnderWay /\ Writing(r)
      BY <1>0, <2>5 DEF UnderWay, Writing, Writers, Shape
    <3>3. ck # Leave
      BY CookieTypes DEF Leave, Names
    <3>4. \A q \in Requests : q # r => ~Turns(q)'
      <4> SUFFICES ASSUME NEW q \in Requests, q # r, Turns(q)' PROVE FALSE
        OBVIOUS
      <4>1. Turns(q)
        BY <2>1, OtherTurns
      <4>2. q \in UnderWay /\ Writing(q)
        BY <4>1 DEF Turns, UnderWay, Writing
      <4>. QED BY <1>1, <3>1, <3>2, <4>2 DEF Alone
    <3>5. Turns(r)' /\ Promised(r)'
      BY <2>5, <3>1, <3>3 DEF Turns, Promised
    <3>6. \A q \in Requests : Promised(q)'
      BY <3>4, <3>5 DEF Promised
    <3>7. Alone'
      BY <1>1, <2>1, <3>1, <3>2, StillAlone
    <3>. QED BY <3>5, <3>6, <3>7 DEF LiveInv
  <2>6. CASE Grants(r)
    BY <2>5, <2>6 DEF Grants, Writers
  <2>7. CASE Clears(r)
    BY <2>5, <2>7, CookieTypes DEF Clears, Writers
  <2>. QED BY <1>0, <1>5, <2>3, <2>4, <2>6, <2>7, ServeEffect
<1>6. ASSUME NEW r \in Requests, Deliver(r) PROVE LiveInv'
  <2>1. /\ Others(r) /\ at[r] = "answered" /\ at'[r] = "done"
        /\ UNCHANGED <<session, mishap>>
        /\ answer[r].auth = Leave => cookie'.auth = cookie.auth
        /\ answer[r].auth = NoCookies => cookie'.auth = NoCookies
        /\ answer[r].auth \notin {Leave, NoCookies} =>
              \A n \in Names : cookie'.auth[n].of \in {r, None}
    BY <1>6, DeliverEffect
  <2>2. ~mishap /\ ~Turns(r)' /\ ~(r \in UnderWay)'
    BY <2>1 DEF Turns, UnderWay
  <2>3. Alone'
    BY <1>1, <2>1, <2>2, StillAlone
  <2>4. \A q \in Requests : Promised(q)'
    <3>1. ASSUME NEW q \in Requests, q # r PROVE Promised(q)'
      BY <1>1, <2>1, <2>2, <3>1, OtherTurns DEF Promised
    <3>2. Promised(r)'
      BY <2>2 DEF Promised
    <3>. QED BY <3>1, <3>2
  <2>5. ASSUME \A q \in Requests : ~Turns(q)' PROVE HeldOpen'
    <3>1. \A q \in Requests \ {r} : ~Turns(q)
      BY <2>1, <2>5, OtherTurns
    <3>2. CASE answer[r].auth = Leave
      <4>1. HeldOpen
        BY <1>1, <2>2, <3>1, <3>2 DEF Turns
      <4>. QED BY <2>1, <3>2, <4>1 DEF HeldOpen, Held
    <3>3. CASE answer[r].auth = NoCookies
      BY <2>1, <3>3, CookieTypes DEF HeldOpen, Held, NoCookies
    <3>4. CASE answer[r].auth \notin {Leave, NoCookies}
      <4>1. session[r].state = "open"
        BY <1>1, <2>1, <2>2, <3>4 DEF Promised, Turns
      <4>. QED BY <2>1, <3>4, <4>1 DEF HeldOpen, Held
    <3>. QED BY <3>2, <3>3, <3>4
  <2>. QED BY <2>3, <2>4, <2>5 DEF LiveInv
<1>7. ASSUME NEW r \in Requests, Fail(r) PROVE LiveInv'
  BY <1>0, <1>7, FailEffect
<1>8. ASSUME UNCHANGED <<wire, history>>,
             \A n \in Names : cookie'.auth[n].of \in {cookie.auth[n].of, None},
             \A s \in Sessions : session'[s].state = session[s].state
      PROVE  LiveInv'
  <2>1. /\ Alone' <=> Alone
        /\ mishap' = mishap
        /\ \A r \in Requests : Turns(r)' <=> Turns(r)
    BY <1>8 DEF wire, history, Alone, UnderWay, Writing, Turns
  <2>2. \A r \in Requests : Promised(r)' <=> Promised(r)
    BY <1>8, <2>1, Constants DEF wire, Promised
  <2>3. HeldOpen => HeldOpen'
    <3>1. Held \subseteq Sessions
      BY <1>0 DEF TypeOK, Cookie, Held
    <3>2. Held' \subseteq Held
      BY <1>8 DEF Held
    <3>. QED BY <1>8, <3>1, <3>2 DEF HeldOpen
  <2>. QED BY <1>1, <2>1, <2>2, <2>3 DEF LiveInv
<1>9. CASE Tick
  BY <1>8, <1>9, TickEffect
<1>10. CASE UNCHANGED vars
  BY <1>8, <1>10 DEF vars, auth
<1>. QED BY <1>3, <1>4, <1>5, <1>6, <1>7, <1>9, <1>10 DEF Next, Quiet

LEMMA LiveInit == Init => LiveInv
<1> SUFFICES ASSUME Init PROVE LiveInv
  OBVIOUS
<1>1. /\ \A r \in Requests : at[r] = "idle"
  BY DEF Init
<1>2. HeldOpen
  <2>1. CASE cookie = [auth |-> NoCookies, visitor |-> None]
    BY <2>1, CookieTypes DEF HeldOpen, Held, NoCookies
  <2>2. CASE /\ cookie = [auth |-> Applied(NoCookies,
                                           set_tokens(Seed, 0, 0, 0)),
                          visitor |-> Seed]
             /\ session = [s \in Sessions |->
                   [state |-> IF s = Seed THEN "open" ELSE "none", age |-> 0]]
    <3>1. PICK set : set = set_tokens(Seed, 0, 0, 0)
      OBVIOUS
    <3>2. Fresh(Seed, set)
      BY <3>1, SetTokens, Constants
    <3>3. cookie.auth = Applied(NoCookies, set)
      BY <2>2, <3>1
    <3>4. \A n \in Names : cookie.auth[n].of \in {Seed, None}
      BY <3>2, <3>3, CookieTypes DEF Applied, Fresh, NoCookies
    <3>5. session[Seed].state = "open"
      BY <2>2, Constants
    <3>. QED BY <3>4, <3>5 DEF HeldOpen, Held
  <2>. QED BY <2>1, <2>2 DEF Init
<1>3. Alone /\ \A r \in Requests : ~Turns(r)
  BY <1>1 DEF Alone, UnderWay, Turns
<1>. QED BY <1>2, <1>3 DEF LiveInv, Promised

\* While every answer arrived and no two requests that change cookies were
\* under way together, what the browser holds is cookies of an open session.
THEOREM CookiesAreLive == Spec => []HeldIsLive
<1>1. LiveInv => HeldIsLive
  BY DEF LiveInv, HeldOpen, HeldIsLive, Turns, UnderWay
<1>2. Init => LiveInv
  BY LiveInit
<1>3. JarInv /\ LiveInv /\ [Next]_vars => LiveInv'
  BY LiveStep
<1>. QED BY <1>1, <1>2, <1>3, JarHolds, PTL DEF Spec

-----------------------------------------------------------------------------
(***************************************************************************)
(* Signing out.                                                            *)
(***************************************************************************)
\* Another request can do no more than it could, as sessions only close.
LEMMA OtherHarmless ==
    ASSUME TypeOK, NEW r \in Requests, Others(r), NEW q \in Requests, q # r,
           \A s \in Sessions :
              session'[s].state = "open" => session[s].state = "open",
           Harmless(q)
    PROVE  Harmless(q)'
<1>1. /\ op'[q] = op[q] /\ at'[q] = at[q] /\ carried'[q] = carried[q]
      /\ answer'[q] = answer[q]
  BY DEF Others
<1>2. /\ carried[q].refresh \in Sessions \cup {None}
      /\ \A n \in Names : answer[q].auth[n].of \in Sessions \cup {None}
  BY TypeParts, CookieTypes DEF WireTypes, Carried, Answer, Cookie
<1>. QED BY <1>1, <1>2 DEF Harmless

\* An answer that sets no cookie of a session.
LEMMA AnswerHarmless ==
    ASSUME NEW r \in Requests, at'[r] \in {"composed", "answered", "done"},
           answer'[r].auth \in {Leave, NoCookies}
    PROVE  Harmless(r)'
<1>1. \A n \in Names : answer'[r].auth[n].of = None
  BY CookieTypes DEF Leave, NoCookies
<1>. QED BY <1>1 DEF Harmless

\* What a sign-out that reaches everything leaves behind.
LEMMA ClearsAll ==
    ASSUME JarInv, NEW r \in Requests, Clears(r), Others(r), ~OutOfReach(r)
    PROVE  HeldClosed' /\ \A q \in Requests \ {r} : Harmless(q)'
<1>0. /\ at[r] = "sent" /\ op[r] \in {"logout", "sign_out"}
      /\ \A s \in Sessions :
            op[r] = "sign_out" \/ s = carried[r].access =>
               session'[s].state # "open"
      /\ cookie' = cookie
  BY DEF Clears
<1>1. /\ TypeOK /\ Held \subseteq Sessions
      /\ carried[r].access \in Sessions \cup {None}
  BY TypeParts DEF JarInv, TypeOK, Cookie, Held, WireTypes, Carried
<1>2. carried[r].access # None
  BY DEF Clears
<1>3. op[r] = "logout" => Held = {carried[r].access}
  BY DEF OutOfReach
<1>4. HeldClosed'
  <2>1. Held' = Held
    BY <1>0 DEF Held
  <2>2. \A s \in Held : session'[s].state # "open"
    BY <1>0, <1>1, <1>3
  <2>. QED BY <2>1, <2>2 DEF HeldClosed
<1>5. ASSUME NEW q \in Requests, q # r PROVE Harmless(q)'
  <2>1. /\ op'[q] = op[q] /\ at'[q] = at[q] /\ carried'[q] = carried[q]
        /\ answer'[q] = answer[q]
    BY <1>5 DEF Others
  <2>2. /\ carried[q].refresh \in Sessions \cup {None}
        /\ \A n \in Names : answer[q].auth[n].of \in Sessions \cup {None}
    BY <1>1, TypeParts, CookieTypes DEF WireTypes, Carried, Answer, Cookie
  <2>3. at[q] # "rotating" /\ ~(at[q] = "sent" /\ op[q] = "login")
    BY <1>5 DEF OutOfReach, UnderWay
  <2>4. CASE op[r] = "sign_out"
    BY <1>0, <2>1, <2>2, <2>3, <2>4 DEF Harmless
  <2>5. CASE op[r] = "logout"
    <3>1. at[q] = "sent" => carried[q].refresh \in {carried[r].access, None}
      BY <1>5, <2>5 DEF OutOfReach, UnderWay
    <3>2. at[q] = "answered" => answer[q].auth["refresh"].of = None
      BY <1>5, <2>5 DEF OutOfReach, UnderWay
    <3>3. \A n \in Names : answer[q].auth[n].of = None
      <4>1. Shape(q)
        BY <1>5 DEF JarInv
      <4>2. CASE answer[q].auth \in {Leave, NoCookies}
        BY <4>2, CookieTypes DEF Leave, NoCookies
      <4>3. CASE Fresh(q, answer[q].auth)
        <5>1. \A n \in Names : answer[q].auth[n].of = q /\ q # None
          BY <1>5, <4>3, Constants DEF Fresh
        <5>2. at[q] # "answered"
          BY <3>2, <5>1 DEF Names
        <5>3. answer[q].auth = Leave
          BY <4>1, <5>2, Blank DEF Shape
        <5>. QED BY <5>3, CookieTypes DEF Leave
      <4>. QED BY <4>1, <4>2, <4>3 DEF Shape
    <3>4. session'[carried[r].access].state # "open"
      BY <1>0, <1>1, <1>2
    <3>. QED BY <2>1, <2>3, <3>1, <3>3, <3>4 DEF Harmless
  <2>. QED BY <1>0, <2>4, <2>5
<1>. QED BY <1>4, <1>5

LEMMA SignedOutStep == JarInv /\ SignedOutInv /\ [Next]_vars => SignedOutInv'
<1> SUFFICES ASSUME JarInv, SignedOutInv, [Next]_vars,
                    signedOut' \in {"done", "told"}
             PROVE  SignedOutInv'
  BY DEF SignedOutInv
<1>0. TypeOK /\ \A r \in Requests : Shape(r)
  BY DEF JarInv
<1>1. ASSUME signedOut \in {"done", "told"}
      PROVE  HeldClosed /\ \A r \in Requests : Harmless(r)
  BY <1>1 DEF SignedOutInv
<1>2. ASSUME NEW r \in Requests, Others(r), signedOut \in {"done", "told"},
             UNCHANGED session, Harmless(r)', HeldClosed'
      PROVE  SignedOutInv'
  <2>1. \A q \in Requests : Harmless(q)'
    BY <1>0, <1>1, <1>2, OtherHarmless
  <2>. QED BY <1>2, <2>1 DEF SignedOutInv
<1>3. ASSUME UNCHANGED auth, HeldClosed PROVE HeldClosed'
  BY <1>3 DEF auth, HeldClosed, Held
<1>4. ASSUME NEW r \in Requests, NEW o \in Ops, Compose(r, o)
      PROVE  SignedOutInv'
  <2>1. /\ Others(r) /\ UNCHANGED <<auth, history>> /\ at[r] = "idle"
        /\ at'[r] = "composed" /\ answer'[r] = answer[r]
    BY <1>0, <1>4, ComposeEffect
  <2>2. answer'[r].auth = Leave /\ UNCHANGED session /\ signedOut' = signedOut
    BY <1>0, <2>1, Blank DEF Shape, auth, history
  <2>. QED BY <1>1, <1>2, <1>3, <2>1, <2>2, AnswerHarmless
<1>5. ASSUME NEW r \in Requests, Send(r) PROVE SignedOutInv'
  <2>1. /\ Others(r) /\ UNCHANGED auth /\ at[r] = "composed"
        /\ at'[r] = "sent" /\ op'[r] = op[r] /\ answer'[r] = answer[r]
        /\ carried'[r].refresh \in {cookie.auth["refresh"].of, None}
        /\ signedOut' = IF op[r] = "login" /\ signedOut # "raced" THEN "no"
                        ELSE signedOut
    BY <1>0, <1>5, SendEffect
  <2>2. op[r] # "login" /\ signedOut \in {"done", "told"}
    BY <2>1
  <2>3. HeldClosed /\ UNCHANGED session
    BY <1>1, <2>1, <2>2 DEF auth
  <2>4. carried'[r].refresh # None =>
           session'[carried'[r].refresh].state # "open"
    BY <2>1, <2>3 DEF HeldClosed, Held, Names
  <2>5. \A n \in Names : answer'[r].auth[n].of = None
    BY <1>0, <2>1, Blank, CookieTypes DEF Shape, Leave
  <2>6. Harmless(r)'
    BY <2>1, <2>2, <2>4, <2>5 DEF Harmless
  <2>. QED BY <1>2, <1>3, <2>1, <2>2, <2>3, <2>6
<1>6. ASSUME NEW r \in Requests, Serve(r) PROVE SignedOutInv'
  <2>1. Others(r) /\ UNCHANGED cookie /\ WireTypes /\ 200 \in Statuses
    BY <1>0, <1>6, ServeType, ServeEffect, TypeParts DEF Statuses
  <2>2. CASE Passes(r)
    <3>1. /\ signedOut' = signedOut /\ at[r] = "sent"
          /\ carried[r].refresh # None
          /\ session[carried[r].refresh].state = "open"
      BY <2>2 DEF Passes, history
    <3>. QED BY <1>1, <3>1 DEF Harmless
  <2>3. CASE Declines(r)
    <3>1. PICK st \in Statuses : Respond(r, st, Leave)
      BY <2>3 DEF Declines
    <3>2. /\ at'[r] = "answered" /\ answer'[r].auth = Leave
          /\ UNCHANGED <<auth, signedOut>>
      BY <2>1, <2>3, <3>1, RespondEffect, CookieTypes DEF Declines
    <3>3. UNCHANGED session
      BY <3>2 DEF auth
    <3>. QED BY <1>1, <1>2, <1>3, <2>1, <3>2, <3>3, AnswerHarmless
  <2>4. CASE Grants(r)
    BY <1>1, <2>4 DEF Grants, Harmless
  <2>5. CASE Clears(r)
    <3>1. NoCookies \in [Names -> Cookie \cup {Unset}]
      BY CookieTypes
    <3>2. at'[r] = "answered" /\ answer'[r].auth = NoCookies
      BY <2>1, <2>5, <3>1, RespondEffect DEF Clears
    <3>3. ~OutOfReach(r)
      BY <2>5 DEF Clears
    <3>4. \A q \in Requests : Harmless(q)'
      BY <2>1, <2>5, <3>2, <3>3, ClearsAll, AnswerHarmless
    <3>. QED BY <2>1, <2>5, <3>3, <3>4, ClearsAll DEF SignedOutInv
  <2>. QED BY <1>0, <1>6, <2>2, <2>3, <2>4, <2>5, ServeEffect
<1>7. ASSUME NEW r \in Requests, Deliver(r) PROVE SignedOutInv'
  <2>1. /\ Others(r) /\ at'[r] = "done" /\ answer'[r] = NoAnswer
        /\ UNCHANGED session
        /\ answer[r].auth = Leave => cookie'.auth = cookie.auth
        /\ answer[r].auth = NoCookies => cookie'.auth = NoCookies
        /\ answer[r].auth \notin {Leave, NoCookies} =>
              \A n \in Names : cookie'.auth[n].of \in {r, None}
        /\ signedOut' = IF /\ answer[r].auth["access"] = Absent
                           /\ signedOut = "done"
                        THEN "told" ELSE signedOut
    BY <1>7, DeliverEffect
  <2>2. signedOut \in {"done", "told"}
    BY <2>1
  <2>3. HeldClosed /\ Harmless(r)
    BY <1>1, <2>2
  <2>4. HeldClosed'
    <3>1. CASE answer[r].auth = Leave
      BY <2>1, <2>3, <3>1 DEF HeldClosed, Held
    <3>2. CASE answer[r].auth = NoCookies
      BY <2>1, <3>2, CookieTypes DEF HeldClosed, Held, NoCookies
    <3>3. CASE answer[r].auth \notin {Leave, NoCookies}
      <4>1. Fresh(r, answer[r].auth)
        BY <1>0, <3>3 DEF Shape
      <4>2. answer[r].auth["csrf"].of = r /\ r # None
        BY <4>1, Constants DEF Fresh, Names
      <4>3. session[r].state # "open"
        BY <2>3, <4>2 DEF Harmless, Names
      <4>. QED BY <2>1, <3>3, <4>3 DEF HeldClosed, Held
    <3>. QED BY <3>1, <3>2, <3>3
  <2>. QED BY <1>2, <2>1, <2>2, <2>4, AnswerHarmless, Blank
<1>8. ASSUME NEW r \in Requests, Fail(r) PROVE SignedOutInv'
  <2>1. /\ Others(r) /\ UNCHANGED <<auth, signedOut, firsts>>
        /\ at'[r] = "done" /\ answer'[r] = NoAnswer
    BY <1>0, <1>8, FailEffect
  <2>2. UNCHANGED session
    BY <2>1 DEF auth
  <2>. QED BY <1>1, <1>2, <1>3, <2>1, <2>2, AnswerHarmless, Blank
<1>9. ASSUME UNCHANGED <<wire, history>>,
             \A n \in Names : cookie'.auth[n].of \in {cookie.auth[n].of, None},
             \A s \in Sessions : session'[s].state = session[s].state
      PROVE  SignedOutInv'
  <2>1. HeldClosed /\ \A r \in Requests : Harmless(r)
    BY <1>1, <1>9 DEF history
  <2>2. Held \subseteq Sessions
    BY <1>0 DEF TypeOK, Cookie, Held
  <2>3. HeldClosed'
    <3>1. Held' \subseteq Held
      BY <1>9 DEF Held
    <3>. QED BY <1>9, <2>1, <2>2, <3>1 DEF HeldClosed
  <2>4. ASSUME NEW r \in Requests PROVE Harmless(r)'
    <3>1. /\ carried[r].refresh \in Sessions \cup {None}
          /\ \A n \in Names : answer[r].auth[n].of \in Sessions \cup {None}
      BY <1>0, TypeParts, CookieTypes DEF WireTypes, Carried, Answer, Cookie
    <3>. QED BY <1>9, <2>1, <3>1 DEF wire, Harmless
  <2>. QED BY <2>3, <2>4 DEF SignedOutInv
<1>10. CASE Tick
  BY <1>9, <1>10, TickEffect
<1>11. CASE UNCHANGED vars
  BY <1>9, <1>11 DEF vars, auth
<1>. QED BY <1>4, <1>5, <1>6, <1>7, <1>8, <1>10, <1>11 DEF Next, Quiet

\* Once a sign-out that met no request out of its reach was confirmed, the
\* browser holds no working session until somebody logs in again, in
\* whatever order the answers to its tabs arrive.
THEOREM SignOutLasts == Spec => []SignedOutStays
<1>1. SignedOutInv => SignedOutStays
  BY DEF SignedOutInv, HeldClosed, SignedOutStays
<1>2. Init => SignedOutInv
  BY DEF Init, SignedOutInv
<1>3. JarInv /\ SignedOutInv /\ [Next]_vars => SignedOutInv'
  BY SignedOutStep
<1>. QED BY <1>1, <1>2, <1>3, JarHolds, PTL DEF Spec

-----------------------------------------------------------------------------
(***************************************************************************)
(* The visitor id.                                                         *)
(***************************************************************************)
LEMMA OtherBrings ==
    ASSUME NEW r \in Requests, Others(r), NEW q \in Requests, q # r
    PROVE  Brings(q)' <=> Brings(q)
BY DEF Others, Brings

LEMMA OtherAgrees ==
    ASSUME NEW r \in Requests, Others(r), NEW q \in Requests, q # r,
           UNCHANGED firsts, cookie'.visitor = cookie.visitor, Agrees(q)
    PROVE  Agrees(q)'
BY OtherBrings DEF Others, Agrees

LEMMA VisitorStep == JarInv /\ VisitorInv /\ [Next]_vars => VisitorInv'
<1> SUFFICES ASSUME JarInv, VisitorInv, [Next]_vars, firsts' <= 1
             PROVE  VisitorInv'
  BY DEF VisitorInv
<1>0. TypeOK /\ WireTypes /\ \A r \in Requests : Shape(r)
  BY TypeParts DEF JarInv
<1>1. ASSUME firsts <= 1 PROVE OneBrings /\ \A r \in Requests : Agrees(r)
  BY <1>1 DEF VisitorInv
\* A step that neither brings an id nor starts bringing one.
<1>2. ASSUME NEW r \in Requests, Others(r), UNCHANGED firsts,
             cookie'.visitor = cookie.visitor, Agrees(r)',
             Brings(r)' => Brings(r)
      PROVE  VisitorInv'
  <2>1. OneBrings /\ \A q \in Requests : Agrees(q)
    BY <1>1, <1>2
  <2>2. OneBrings'
    BY <1>2, <2>1, OtherBrings DEF OneBrings
  <2>3. \A q \in Requests : Agrees(q)'
    BY <1>2, <2>1, OtherAgrees
  <2>. QED BY <2>2, <2>3 DEF VisitorInv
<1>3. ASSUME NEW r \in Requests, NEW o \in Ops, Compose(r, o)
      PROVE  VisitorInv'
  <2>1. /\ Others(r) /\ UNCHANGED <<auth, history>>
        /\ at'[r] = "composed"
    BY <1>0, <1>3, ComposeEffect
  <2>2. ~Brings(r)' /\ Agrees(r)' /\ UNCHANGED <<cookie, firsts>>
    BY <2>1 DEF Brings, Agrees, auth, history
  <2>. QED BY <1>2, <2>1, <2>2
<1>4. ASSUME NEW r \in Requests, Send(r) PROVE VisitorInv'
  <2>1. /\ Others(r) /\ UNCHANGED auth /\ at'[r] = "sent"
        /\ at[r] = "composed" /\ carried'[r].visitor = cookie.visitor
        /\ firsts' = IF cookie.visitor = None /\ firsts < 2 THEN firsts + 1
                     ELSE firsts
    BY <1>0, <1>4, SendEffect
  <2>2. firsts \in 0..2 /\ UNCHANGED cookie
    BY <1>0, <2>1 DEF TypeOK, auth
  <2>3. Brings(r)' <=> cookie.visitor = None
    BY <2>1 DEF Brings
  <2>4. CASE cookie.visitor # None
    <3>1. UNCHANGED firsts /\ ~Brings(r)'
      BY <2>1, <2>3, <2>4
    <3>2. Agrees(r)'
      BY <2>1, <2>2, <3>1 DEF Agrees
    <3>. QED BY <1>2, <2>1, <2>2, <3>1, <3>2
  <2>5. CASE cookie.visitor = None
    <3>1. firsts = 0 /\ firsts' = 1
      BY <2>1, <2>2, <2>5
    <3>2. \A q \in Requests : Agrees(q) /\ ~Brings(q)
      BY <1>1, <3>1 DEF Agrees
    <3>3. ASSUME NEW q \in Requests, q # r PROVE ~Brings(q)' /\ Agrees(q)'
      <4>1. ~Brings(q)'
        BY <2>1, <3>2, <3>3, OtherBrings
      <4>. QED BY <2>1, <2>2, <3>2, <3>3, <4>1 DEF Others, Agrees
    <3>4. Agrees(r)'
      BY <2>1, <2>2, <2>3, <2>5, <3>1 DEF Agrees
    <3>. QED BY <3>3, <3>4 DEF VisitorInv, OneBrings
  <2>. QED BY <2>4, <2>5
<1>5. ASSUME NEW r \in Requests, Serve(r) PROVE VisitorInv'
  <2>1. Others(r) /\ UNCHANGED cookie /\ 200 \in Statuses
    BY <1>0, <1>5, ServeType, ServeEffect DEF Statuses
  <2>2. \A ck : ck \in [Names -> Cookie] =>
                   ck \in [Names -> Cookie \cup {Unset}]
    OBVIOUS
  <2>3. CASE Passes(r)
    <3>1. /\ at[r] = "sent" /\ at'[r] = "rotating"
          /\ UNCHANGED <<history, carried>>
      BY <1>0, <2>3, PassesEffect DEF Passes
    <3>2. (Brings(r)' <=> Brings(r)) /\ UNCHANGED firsts
      BY <3>1 DEF Brings, history
    <3>3. Agrees(r)'
      BY <1>1, <2>1, <3>1, <3>2 DEF Agrees
    <3>. QED BY <1>2, <2>1, <3>2, <3>3
  <2>4. ASSUME NEW st \in Statuses, NEW ck \in [Names -> Cookie \cup {Unset}],
               Respond(r, st, ck), at[r] \in {"sent", "rotating"}
        PROVE  VisitorInv'
    <3>1. /\ at'[r] = "answered" /\ answer'[r].visitor = SetVisitor(r)
          /\ visitor'[r] = VisitorOf(r) /\ UNCHANGED firsts
      BY <1>0, <2>4, RespondEffect
    <3>2. r # None
      BY Constants
    <3>3. Brings(r)' <=> Brings(r)
      BY <2>4, <3>1, <3>2 DEF Brings, SetVisitor
    <3>4. Agrees(r)
      BY <1>1, <3>1
    <3>5. visitor'[r] # None /\ visitor'[r] = IF Brings(r) THEN r
                                              ELSE cookie.visitor
      BY <2>4, <3>1, <3>2, <3>4 DEF VisitorOf, Brings, Agrees
    <3>6. Agrees(r)'
      BY <2>1, <3>1, <3>3, <3>4, <3>5 DEF Agrees
    <3>. QED BY <1>2, <2>1, <3>1, <3>3, <3>6
  <2>5. CASE Declines(r)
    BY <2>4, <2>5, CookieTypes DEF Declines
  <2>6. CASE Grants(r)
    BY <2>1, <2>2, <2>4, <2>6 DEF Grants
  <2>7. CASE Clears(r)
    BY <2>1, <2>2, <2>4, <2>7, CookieTypes DEF Clears
  <2>. QED BY <1>0, <1>5, <2>3, <2>5, <2>6, <2>7, ServeEffect
<1>6. ASSUME NEW r \in Requests, Deliver(r) PROVE VisitorInv'
  <2>1. /\ Others(r) /\ at[r] = "answered" /\ at'[r] = "done"
        /\ visitor'[r] = visitor[r] /\ UNCHANGED firsts
        /\ cookie'.visitor = IF answer[r].visitor = None
                             THEN cookie.visitor ELSE answer[r].visitor
    BY <1>6, DeliverEffect
  <2>2. OneBrings /\ \A q \in Requests : Agrees(q)
    BY <1>1, <2>1
  <2>3. ~Brings(r)'
    BY <2>1 DEF Brings
  <2>4. CASE answer[r].visitor = None
    <3>1. ~Brings(r)
      BY <2>1, <2>4 DEF Brings
    <3>2. Agrees(r)'
      BY <2>1, <2>2, <2>3, <2>4, <3>1 DEF Agrees
    <3>. QED BY <1>2, <2>1, <2>3, <2>4, <3>2
  <2>5. CASE answer[r].visitor # None
    <3>1. Brings(r) /\ answer[r].visitor = r /\ cookie'.visitor = r
      BY <1>0, <2>1, <2>5 DEF Brings, Shape
    <3>2. cookie.visitor = None /\ visitor[r] = r
      BY <2>1, <2>2, <3>1 DEF Agrees
    <3>3. ASSUME NEW q \in Requests, q # r
          PROVE  /\ ~Brings(q)'
                 /\ at[q] \notin {"sent", "rotating", "answered"}
                 /\ at[q] = "done" => visitor[q] = None
      <4>1. ~Brings(q) /\ Agrees(q)
        BY <2>2, <3>1, <3>3 DEF OneBrings
      <4>2. ~Brings(q)'
        BY <2>1, <3>3, <4>1, OtherBrings
      <4>. QED BY <3>2, <4>1, <4>2 DEF Agrees, Brings
    <3>4. ASSUME NEW q \in Requests, q # r PROVE Agrees(q)'
      BY <2>1, <3>3, <3>4 DEF Others, Agrees
    <3>5. Agrees(r)'
      BY <2>1, <2>3, <3>1, <3>2 DEF Agrees
    <3>6. OneBrings'
      BY <2>3, <3>3 DEF OneBrings
    <3>. QED BY <3>4, <3>5, <3>6 DEF VisitorInv
  <2>. QED BY <2>4, <2>5
<1>7. ASSUME NEW r \in Requests, Fail(r) PROVE VisitorInv'
  <2>1. /\ Others(r) /\ UNCHANGED <<auth, signedOut, firsts>>
        /\ at'[r] = "done" /\ visitor'[r] = None
    BY <1>0, <1>7, FailEffect
  <2>2. ~Brings(r)' /\ Agrees(r)' /\ UNCHANGED <<cookie, firsts>>
    BY <2>1 DEF Brings, Agrees, auth
  <2>. QED BY <1>2, <2>1, <2>2
<1>8. ASSUME UNCHANGED <<wire, history>>, cookie'.visitor = cookie.visitor
      PROVE  VisitorInv'
  <2>1. firsts' = firsts /\ \A r \in Requests : Brings(r)' <=> Brings(r)
    BY <1>8 DEF wire, history, Brings
  <2>2. OneBrings' /\ \A r \in Requests : Agrees(r)'
    BY <1>1, <1>8, <2>1 DEF wire, OneBrings, Agrees
  <2>. QED BY <2>2 DEF VisitorInv
<1>9. CASE Tick
  BY <1>8, <1>9, TickEffect
<1>10. CASE UNCHANGED vars
  BY <1>8, <1>10 DEF vars, auth
<1>. QED BY <1>3, <1>4, <1>5, <1>6, <1>7, <1>9, <1>10 DEF Next, Quiet

\* The visitor id that a request was served with, and that a signup or a
\* login has stored, is the one the browser keeps, unless two requests were
\* sent before it had one or the answer that brought it failed.
THEOREM VisitorIsKept == Spec => []VisitorKept
<1>1. VisitorInv => VisitorKept
  BY DEF VisitorInv, Agrees, VisitorKept
<1>2. Init => VisitorInv
  BY DEF Init, VisitorInv, OneBrings, Agrees, Brings
<1>3. JarInv /\ VisitorInv /\ [Next]_vars => VisitorInv'
  BY VisitorStep
<1>. QED BY <1>1, <1>2, <1>3, JarHolds, PTL DEF Spec
=============================================================================
