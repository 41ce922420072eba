--------------------------- MODULE LoginThrottle ---------------------------
(***************************************************************************)
(* The four throttled use cases and the limiter they share.  login peeks   *)
(* at two counters first, checks the password, and only then charges a     *)
(* failure to both, each a round trip of its own; register, forgot         *)
(* password and reset password charge their counters up front and let the  *)
(* reply decide.  What the use cases do behind the limiter is in Accounts. *)
(***************************************************************************)
EXTENDS RateLimiter, FiniteSets

CONSTANTS
    Workers,    \* requests that can be served at the same time
    IPs,        \* client addresses
    Mailboxes,  \* email addresses
    Unknown,    \* the address of a client that shows none, or of no client
    NoKey,      \* no EXPIRE is owed
    Jobs,       \* the use cases this instance runs
    CrashOn     \* the backends with which the API process may die and be
                \* restarted

IpRules == {"login:ip", "register:ip", "forgot-password:ip",
            "reset-password:ip"}
MailRules == {"login:user", "forgot-password"}

AllJobs == {"login", "register", "forgot-password", "reset-password"}

\* Every rule has one counter per address, and somebody is served.
ASSUME ThrottleAssumption ==
    /\ Jobs \subseteq AllJobs
    /\ Keys = (IpRules \X IPs) \cup (MailRules \X Mailboxes)
    /\ Unknown \notin IPs \cup Mailboxes /\ NoKey \notin Keys
    /\ IsFiniteSet(Workers) /\ Workers # {}
    /\ Cardinality(Workers) \in Nat

VARIABLES
    stage,      \* what worker w does next
    owes,       \* the key whose EXPIRE w has still to send
    job,        \* the use case w runs
    ip, email,  \* the client address and the account it is about
    guesses,    \* history: failed password checks against a key since its
                \* counter was last cleared
    granted     \* history: calls a gate let through since then

client == <<job, ip, email>>
vars == <<backend, counter, stage, owes, client, guesses, granted>>

Stages == {"idle", "guard_ip", "guard_account", "verify", "fail_ip",
           "fail_account", "forgive", "gate_email", "gate_ip"}

TypeOK ==
    /\ backend \in Backends
    /\ counter \in [Keys -> Counter]
    /\ stage \in [Workers -> Stages]
    /\ owes \in [Workers -> Keys \cup {NoKey}]
    /\ job \in [Workers -> AllJobs]
    /\ ip \in [Workers -> IPs \cup {Unknown}]
    /\ email \in [Workers -> Mailboxes \cup {Unknown}]
    /\ guesses \in [Keys -> Nat]
    /\ granted \in [Keys -> Nat]

Init ==
    /\ backend \in Backends
    /\ counter = [k \in Keys |-> Absent]
    /\ stage = [w \in Workers |-> "idle"]
    /\ owes = [w \in Workers |-> NoKey]
    /\ job = [w \in Workers |-> "login"]
    /\ ip = [w \in Workers |-> Unknown]
    /\ email = [w \in Workers |-> Unknown]
    /\ guesses = [k \in Keys |-> 0]
    /\ granted = [k \in Keys |-> 0]

-----------------------------------------------------------------------------
\* The keys of the counters a worker uses.
_account_key(w) == <<"login:user", email[w]>>
MailKey(w) == <<"forgot-password", email[w]>>
IpKey(w) ==
    << CASE job[w] = "login"           -> "login:ip"
         [] job[w] = "register"        -> "register:ip"
         [] job[w] = "forgot-password" -> "forgot-password:ip"
         [] OTHER                      -> "reset-password:ip", ip[w] >>

\* The rule is on, and for a rule per address the address is known.
Applies(k) == k \in Keys /\ is_enforced(k)

GoTo(w, s) == stage' = [stage EXCEPT ![w] = s]

\* A worker that is through with a request forgets whose it was.
Forget(w) ==
    IF stage'[w] # "idle" THEN UNCHANGED client
    ELSE /\ job' = [job EXCEPT ![w] = "login"]
         /\ ip' = [ip EXCEPT ![w] = Unknown]
         /\ email' = [email EXCEPT ![w] = Unknown]

At(w, s) == stage[w] = s /\ owes[w] = NoKey

\* A request arrives.
Begin(w, j, a, e) ==
    /\ At(w, "idle")
    /\ job' = [job EXCEPT ![w] = j]
    /\ ip' = [ip EXCEPT ![w] = a]
    /\ email' = [email EXCEPT ![w] = e]
    /\ GoTo(w, CASE j = "login" -> "guard_ip"
                 [] j = "forgot-password" -> "gate_email"
                 [] OTHER -> "gate_ip")
    /\ UNCHANGED <<counter, owes, guesses, granted>>

\* A guard lets the login go on or answers 429.
Guard(w, k, s) ==
    /\ GoTo(w, IF Applies(k) /\ ~allowed_peek(k) THEN "idle" ELSE s)
    /\ Forget(w)
    /\ UNCHANGED <<counter, owes, guesses, granted>>

_guard_ip(w) == At(w, "guard_ip") /\ Guard(w, IpKey(w), "guard_account")

_guard_account(w) ==
    At(w, "guard_account") /\ Guard(w, _account_key(w), "verify")

\* The password is right, and the account's counter will be cleared, or it is
\* wrong, and the failure will be charged.
Verify(w) ==
    /\ At(w, "verify")
    /\ \/ GoTo(w, "forgive") /\ UNCHANGED guesses
       \/ /\ GoTo(w, "fail_ip")
          /\ guesses' = [k \in Keys |->
                IF k \in {IpKey(w), _account_key(w)} /\ Applies(k)
                THEN guesses[k] + 1 ELSE guesses[k]]
    /\ UNCHANGED <<counter, owes, client, granted>>

\* One hit, whose reply is not looked at.
Hit(w, k) ==
    \/ /\ Applies(k)
       /\ Charge(k)
       /\ owes' = [owes EXCEPT ![w] = IF NeedsExpire(k) THEN k ELSE NoKey]
    \/ ~Applies(k) /\ UNCHANGED <<counter, owes>>

\* _count_failure, one counter after the other.
FailIp(w) ==
    /\ At(w, "fail_ip")
    /\ Hit(w, IpKey(w))
    /\ GoTo(w, "fail_account")
    /\ UNCHANGED <<client, guesses, granted>>

FailAccount(w) ==
    /\ At(w, "fail_account")
    /\ Hit(w, _account_key(w))
    /\ GoTo(w, "idle")
    /\ Forget(w)
    /\ UNCHANGED <<guesses, granted>>

\* limiter.reset after the successful login has committed.
Forgive(w) ==
    /\ At(w, "forgive")
    /\ Clear(_account_key(w))
    /\ guesses' = [guesses EXCEPT ![_account_key(w)] = 0]
    /\ GoTo(w, "idle")
    /\ Forget(w)
    /\ UNCHANGED <<owes, granted>>

\* A hit that decides: 429 if the attempt it charges does not fit.
Gate(w, k, s) ==
    /\ Hit(w, k)
    /\ GoTo(w, IF Applies(k) /\ ~allowed_hit(k) THEN "idle" ELSE s)
    /\ granted' = IF Applies(k) /\ allowed_hit(k)
                  THEN [granted EXCEPT ![k] = @ + 1] ELSE granted
    /\ Forget(w)
    /\ UNCHANGED guesses

GateEmail(w) == At(w, "gate_email") /\ Gate(w, MailKey(w), "gate_ip")

GateIp(w) == At(w, "gate_ip") /\ Gate(w, IpKey(w), "idle")

\* The second round trip of a Redis hit.
Expire(w) ==
    /\ owes[w] # NoKey
    /\ SetExpiry(owes[w])
    /\ owes' = [owes EXCEPT ![w] = NoKey]
    /\ UNCHANGED <<stage, client, guesses, granted>>

Tick ==
    /\ counter' = [k \in Keys |-> Older(counter[k])]
    /\ guesses' = [k \in Keys |-> IF WindowEnds(k) THEN 0 ELSE guesses[k]]
    /\ granted' = [k \in Keys |-> IF WindowEnds(k) THEN 0 ELSE granted[k]]
    /\ UNCHANGED <<stage, owes, client>>

\* The process dies: every request in it is lost, and so are the counters it
\* kept in memory.
Crash ==
    /\ backend \in CrashOn
    /\ stage' = [w \in Workers |-> "idle"]
    /\ owes' = [w \in Workers |-> NoKey]
    /\ counter' = IF backend = "redis" THEN counter
                  ELSE [k \in Keys |-> Absent]
    /\ guesses' = IF backend = "redis" THEN guesses ELSE [k \in Keys |-> 0]
    /\ granted' = IF backend = "redis" THEN granted ELSE [k \in Keys |-> 0]
    /\ job' = [w \in Workers |-> "login"]
    /\ ip' = [w \in Workers |-> Unknown]
    /\ email' = [w \in Workers |-> Unknown]

Work(w) ==
    \/ _guard_ip(w) \/ _guard_account(w) \/ Verify(w)
    \/ FailIp(w) \/ FailAccount(w) \/ Forgive(w)
    \/ GateEmail(w) \/ GateIp(w) \/ Expire(w)

Next ==
    /\ \/ \E w \in Workers :
             \/ \E j \in Jobs, a \in IPs \cup {Unknown}, e \in Mailboxes :
                   Begin(w, j, a, e)
             \/ Work(w)
       \/ Tick
       \/ Crash
    /\ UNCHANGED backend

Spec == Init /\ [][Next]_vars

\* A started request goes on and time passes.
FairSpec ==
    /\ Spec
    /\ \A w \in Workers : WF_vars(Work(w) /\ UNCHANGED backend)
    /\ WF_vars(Tick /\ UNCHANGED backend)

-----------------------------------------------------------------------------
Peeked == {k \in Keys : k[1] \in {"login:ip", "login:user"}}

\* Within one life of its counter a key takes at most Limit wrong passwords,
\* plus one for every other request that had passed the guard before the
\* last failure was charged.
GuessesBounded ==
    \A k \in Peeked : is_enforced(k) =>
        guesses[k] <= Limit[k] + Cardinality(Workers) - 1

\* A gate lets at most Limit calls through in one life of its counter,
\* however many arrive together.
GateHolds == \A k \in Keys : is_enforced(k) => granted[k] <= Limit[k]

\* A counter that will not expire is about to be given its deadline.
NoImmortalCounter ==
    \A k \in Keys : counter[k].count > 0 /\ counter[k].ttl = NoTtl =>
        \E w \in Workers : owes[w] = k

Enforced == {k \in Keys : is_enforced(k)}

\* A lockout ends by itself, also while refused attempts keep coming in.
LockoutEnds == \A k \in Enforced : ~allowed_peek(k) ~> allowed_peek(k)

=============================================================================
