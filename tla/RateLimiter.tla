---------------------------- MODULE RateLimiter ----------------------------
(***************************************************************************)
(* The attempt counters of users_service and the operations of its two     *)
(* implementations of IRateLimiter.  A counter carries the time it has     *)
(* left instead of a deadline, so that the clock needs no bound.           *)
(*                                                                         *)
(* Redis: hit sends INCR and TTL in one MULTI/EXEC pipeline and, if the    *)
(* key has no deadline yet, EXPIRE in a second round trip.  A key vanishes *)
(* when its time is up.                                                    *)
(* Memory: one dict per process, updated without an await in between; an   *)
(* entry whose time is up stays in the dict and is ignored.                *)
(*                                                                         *)
(* Definitions with a suffix (allowed_hit_OneMore, NeedsExpireAlways, ...) *)
(* are faulty variants of the definition that follows them; nothing uses   *)
(* them, they show that the properties can fail.                           *)
(***************************************************************************)
EXTENDS Integers

CONSTANTS
    Keys,       \* what is counted: a rule and the address it applies to
    Limit,      \* [Keys -> Nat]: RateLimitPolicy.limit, 0 switches it off
    Window,     \* RateLimitPolicy.window_seconds, in ticks
    Backends,   \* the implementations this instance may run with
    MaxCount    \* counters are not told apart beyond this value

\* The policies are numbers, the window is not empty, and the bound is far
\* enough above every limit not to hide a refusal.
ASSUME LimiterAssumption ==
    /\ Limit \in [Keys -> Nat]
    /\ Window \in Nat \ {0}
    /\ Backends \subseteq {"redis", "memory"}
    /\ MaxCount \in Nat
    /\ \A k \in Keys : Limit[k] < MaxCount

VARIABLES
    backend,   \* the implementation the process was started with
    counter    \* [Keys -> Counter]

NoTtl == -1
Counter == [count : 0..MaxCount, ttl : NoTtl..Window]
Absent == [count |-> 0, ttl |-> NoTtl]

Capped(n) == IF n < MaxCount THEN n ELSE MaxCount

\* RateLimitPolicy.is_enforced
is_enforced(k) == Limit[k] > 0

\* The count an operation reads.
Seen(k) == IF backend = "memory" /\ counter[k].ttl <= 0 THEN 0
           ELSE counter[k].count

allowed_peek_Inclusive(k) == Seen(k) <= Limit[k]

\* _decide for peek: is there room for one more attempt?
allowed_peek(k) == Seen(k) < Limit[k]

allowed_hit_OneMore(k) == Seen(k) + 1 <= Limit[k] + 1

\* _decide for hit, before the count: the attempt being charged must fit.
allowed_hit(k) == Seen(k) + 1 <= Limit[k]

\* The first round trip of a hit (the only one, in memory).
Charge(k) ==
    counter' = [counter EXCEPT ![k] =
        IF backend = "memory" /\ @.ttl <= 0
        THEN [count |-> 1, ttl |-> Window]
        ELSE [count |-> Capped(@.count + 1), ttl |-> @.ttl]]

NeedsExpireAlways(k) == backend = "redis"
NeedsExpireMissingKey(k) == backend = "redis" /\ counter[k].ttl < -1

\* Whether a hit that finds the counter like this sends an EXPIRE as well.
NeedsExpire(k) == backend = "redis" /\ counter[k].ttl < 0

SetExpiryLate(k) ==
    counter' = [counter EXCEPT ![k] =
        IF @.count = 0 THEN @ ELSE [@ EXCEPT !.ttl = Window + 1]]

\* EXPIRE: does nothing if the key is gone.
SetExpiry(k) ==
    counter' = [counter EXCEPT ![k] =
        IF @.count = 0 THEN @ ELSE [@ EXCEPT !.ttl = Window]]

\* reset
Clear(k) == counter' = [counter EXCEPT ![k] = Absent]

\* A counter one tick later.
Older(c) ==
    IF c.ttl <= 0 THEN c
    ELSE IF c.ttl = 1 /\ backend = "redis" THEN Absent
    ELSE [c EXCEPT !.ttl = @ - 1]

\* The window of k ends with the next tick.
WindowEnds(k) == counter[k].ttl = 1

=============================================================================
