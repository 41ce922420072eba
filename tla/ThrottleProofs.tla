--------------------------- MODULE ThrottleProofs ---------------------------
(***************************************************************************)
(* What the rate limits keep to, for any number of workers, addresses and  *)
(* keys and any limits and window.                                         *)
(*                                                                         *)
(* ThrottleTypes     the type invariant.                                   *)
(* GatesHold         the counters that are charged up front are exact.     *)
(* GuessesAreBounded the counters that are peeked at first are exceeded by *)
(*                   at most one guess per other worker.                   *)
(* CountersExpire    every counter has a deadline or is about to get one.  *)
(*                                                                         *)
(* The last two need that a process which keeps its counters in Redis does *)
(* not die between the round trips of a request.                           *)
(***************************************************************************)
EXTENDS LoginThrottle, FiniteSetTheorems, TLAPS

-----------------------------------------------------------------------------
\* Only Redis needs a second round trip, and a counter in memory always has
\* a deadline.
Deadlines ==
    /\ \A w \in Workers : owes[w] # NoKey => backend = "redis"
    /\ \A k \in Keys : backend = "memory" /\ counter[k].count > 0 =>
          counter[k].ttl >= 0

\* No call is granted without being counted; the account counters of login,
\* which a success clears, are not charged by a gate.
Charged ==
    \A k \in Keys :
        /\ granted[k] <= Seen(k)
        /\ k[1] = "login:user" => granted[k] = 0

\* A process that counts in Redis does not die.
NoRedisCrash == "redis" \notin CrashOn

\* Worker w has passed the guard of k and has not checked the password yet;
\* its failure has still to be charged to k.
Admits(w, k) ==
    \/ IpKey(w) = k /\ stage[w] \in {"guard_account", "verify"}
    \/ _account_key(w) = k /\ stage[w] = "verify"
Fails(w, k) ==
    \/ IpKey(w) = k /\ stage[w] = "fail_ip"
    \/ _account_key(w) = k /\ stage[w] \in {"fail_ip", "fail_account"}

Admitted(k) == {w \in Workers : Admits(w, k)}
Failing(k) == {w \in Workers : Fails(w, k)}

\* While there is room, every guess is counted or about to be; when there is
\* none, the workers already admitted have the last guesses.
Budget(k) ==
    IF Seen(k) < Limit[k]
    THEN guesses[k] <= Seen(k) + Cardinality(Failing(k))
    ELSE guesses[k] + Cardinality(Admitted(k))
            <= Limit[k] + Cardinality(Workers) - 1

BudgetInv == \A k \in Keys : is_enforced(k) => Budget(k)

-----------------------------------------------------------------------------
(***************************************************************************)
(* Counters.                                                               *)
(***************************************************************************)
LEMMA CounterFields ==
    ASSUME TypeOK, NEW k \in Keys
    PROVE  /\ counter[k] \in Counter
           /\ counter[k].count \in 0..MaxCount
           /\ counter[k].ttl \in NoTtl..Window
           /\ Seen(k) \in 0..MaxCount
           /\ MaxCount \in Nat /\ MaxCount > 0 /\ Window \in Nat /\ Window > 0
           /\ Limit[k] \in Nat /\ Limit[k] < MaxCount
           /\ guesses[k] \in Nat /\ granted[k] \in Nat
<1>1. /\ counter[k] \in Counter /\ guesses[k] \in Nat /\ granted[k] \in Nat
  BY DEF TypeOK
<1>2. /\ MaxCount \in Nat /\ Window \in Nat /\ Window > 0
      /\ Limit[k] \in Nat /\ Limit[k] < MaxCount
  BY LimiterAssumption
<1>3. counter[k].count \in 0..MaxCount /\ counter[k].ttl \in NoTtl..Window
  BY <1>1 DEF Counter
<1>4. Seen(k) \in 0..MaxCount /\ MaxCount > 0
  BY <1>2, <1>3 DEF Seen
<1>. QED BY <1>1, <1>2, <1>3, <1>4

LEMMA AbsentType ==
    Absent \in Counter /\ Absent.count = 0 /\ Absent.ttl = NoTtl
BY LimiterAssumption DEF Absent, Counter, NoTtl

\* A hit adds one to what is seen of its key, up to the cap, and leaves the
\* other keys alone; it takes on an EXPIRE where there is no deadline.
LEMMA HitEffect ==
    ASSUME TypeOK, NEW w \in Workers, NEW k, Hit(w, k), owes[w] = NoKey,
           backend' = backend
    PROVE  /\ counter' \in [Keys -> Counter]
           /\ owes' \in [Workers -> Keys \cup {NoKey}]
           /\ \A j \in Keys : j # k => counter'[j] = counter[j]
           /\ k \in Keys /\ is_enforced(k) =>
                 /\ Seen(k)' = Capped(Seen(k) + 1)
                 /\ backend = "memory" => counter'[k].ttl > 0
                 /\ counter'[k].ttl < 0 => owes'[w] = k
           /\ ~Applies(k) => counter' = counter
           /\ owes'[w] # NoKey => backend = "redis"
           /\ \A v \in Workers \ {w} : owes'[v] = owes[v]
<1>1. CASE ~Applies(k) /\ UNCHANGED <<counter, owes>>
  BY <1>1 DEF TypeOK, Applies
<1>2. CASE /\ Applies(k) /\ Charge(k)
           /\ owes' = [owes EXCEPT ![w] = IF NeedsExpire(k) THEN k ELSE NoKey]
  <2>0. k \in Keys /\ is_enforced(k)
    BY <1>2 DEF Applies
  <2>1. /\ counter[k].count \in 0..MaxCount /\ counter[k].ttl \in NoTtl..Window
        /\ MaxCount \in Nat /\ MaxCount > 0 /\ Window \in Nat /\ Window > 0
    BY <2>0, CounterFields
  <2>2. /\ owes' \in [Workers -> Keys \cup {NoKey}]
        /\ owes'[w] = IF NeedsExpire(k) THEN k ELSE NoKey
        /\ \A v \in Workers \ {w} : owes'[v] = owes[v]
    BY <1>2, <2>0 DEF TypeOK
  <2>3. CASE backend = "memory" /\ counter[k].ttl <= 0
    <3>1. /\ counter' = [counter EXCEPT ![k] = [count |-> 1, ttl |-> Window]]
          /\ [count |-> 1, ttl |-> Window] \in Counter
      BY <1>2, <2>1, <2>3 DEF Charge, Counter, NoTtl
    <3>2. /\ counter' \in [Keys -> Counter]
          /\ counter'[k].count = 1 /\ counter'[k].ttl = Window
          /\ \A j \in Keys : j # k => counter'[j] = counter[j]
      BY <2>0, <3>1 DEF TypeOK
    <3>3. Seen(k)' = Capped(Seen(k) + 1)
      BY <2>1, <2>3, <3>2 DEF Seen, Capped
    <3>. QED BY <1>2, <2>0, <2>1, <2>2, <2>3, <3>2, <3>3 DEF NeedsExpire
  <2>4. CASE ~(backend = "memory" /\ counter[k].ttl <= 0)
    <3>1. counter' = [counter EXCEPT ![k] =
                        [count |-> Capped(@.count + 1), ttl |-> @.ttl]]
      BY <1>2, <2>4 DEF Charge
    <3>2. Capped(counter[k].count + 1) \in 0..MaxCount
      BY <2>1 DEF Capped
    <3>3. /\ counter' \in [Keys -> Counter]
          /\ counter'[k].count = Capped(counter[k].count + 1)
          /\ counter'[k].ttl = counter[k].ttl
          /\ \A j \in Keys : j # k => counter'[j] = counter[j]
      BY <2>0, <2>1, <3>1, <3>2 DEF TypeOK, Counter
    <3>4. Seen(k)' = Capped(Seen(k) + 1)
      BY <2>4, <3>3 DEF Seen
    <3>5. backend \in {"redis", "memory"}
      BY LimiterAssumption DEF TypeOK
    <3>. QED BY <1>2, <2>0, <2>1, <2>2, <2>4, <3>3, <3>4, <3>5
             DEF NeedsExpire, NoTtl
  <2>. QED BY <2>3, <2>4
<1>. QED BY <1>1, <1>2 DEF Hit

LEMMA OlderEffect ==
    ASSUME TypeOK, NEW k \in Keys
    PROVE  /\ Older(counter[k]) \in Counter
           /\ Older(counter[k]).count \in {counter[k].count, 0}
           /\ counter[k].ttl <= 0 => Older(counter[k]) = counter[k]
           /\ counter[k].ttl > 1 =>
                 /\ Older(counter[k]).count = counter[k].count
                 /\ Older(counter[k]).ttl > 0
           /\ counter[k].ttl = 1 =>
                 \/ Older(counter[k]) = Absent
                 \/ backend # "redis" /\ Older(counter[k]).ttl = 0
<1>1. /\ counter[k] \in Counter /\ counter[k].count \in 0..MaxCount
      /\ counter[k].ttl \in NoTtl..Window /\ Window \in Nat
  BY CounterFields
<1>2. counter[k].ttl > 0 =>
         /\ [counter[k] EXCEPT !.ttl = @ - 1] \in Counter
         /\ [counter[k] EXCEPT !.ttl = @ - 1].ttl = counter[k].ttl - 1
         /\ [counter[k] EXCEPT !.ttl = @ - 1].count = counter[k].count
  BY <1>1 DEF Counter, NoTtl
<1>. QED BY <1>1, <1>2, AbsentType DEF Older, NoTtl

-----------------------------------------------------------------------------
(***************************************************************************)
(* Types.                                                                  *)
(***************************************************************************)
LEMMA ForgetType ==
    ASSUME TypeOK, NEW w \in Workers, Forget(w)
    PROVE  /\ job' \in [Workers -> AllJobs]
           /\ ip' \in [Workers -> IPs \cup {Unknown}]
           /\ email' \in [Workers -> Mailboxes \cup {Unknown}]
BY DEF TypeOK, Forget, client, AllJobs

LEMMA ThrottleTypeInit == Init => TypeOK
BY AbsentType, LimiterAssumption DEF Init, TypeOK, Stages, AllJobs

LEMMA WorkType ==
    ASSUME TypeOK, NEW w \in Workers, Work(w), backend' = backend
    PROVE  TypeOK'
<1>0. backend' \in Backends
  BY DEF TypeOK
<1>1. CASE _guard_ip(w) \/ _guard_account(w)
  <2>1. stage' \in [Workers -> Stages]
    BY <1>1 DEF _guard_ip, _guard_account, Guard, GoTo, TypeOK, Stages
  <2>. QED BY <1>0, <1>1, <2>1, ForgetType
           DEF _guard_ip, _guard_account, Guard, TypeOK
<1>2. CASE Verify(w)
  BY <1>0, <1>2 DEF Verify, GoTo, TypeOK, Stages, client
<1>3. CASE FailIp(w)
  <2>1. owes[w] = NoKey
    BY <1>3 DEF FailIp, At
  <2>2. counter' \in [Keys -> Counter] /\ owes' \in [Workers -> Keys \cup {NoKey}]
    BY <1>3, <2>1, HitEffect DEF FailIp
  <2>. QED BY <1>0, <1>3, <2>2 DEF FailIp, GoTo, TypeOK, Stages, client
<1>4. CASE FailAccount(w)
  <2>1. owes[w] = NoKey
    BY <1>4 DEF FailAccount, At
  <2>2. counter' \in [Keys -> Counter] /\ owes' \in [Workers -> Keys \cup {NoKey}]
    BY <1>4, <2>1, HitEffect DEF FailAccount
  <2>. QED BY <1>0, <1>4, <2>2, ForgetType
           DEF FailAccount, GoTo, TypeOK, Stages
<1>5. CASE Forgive(w)
  <2>1. counter' \in [Keys -> Counter] /\ guesses' \in [Keys -> Nat]
    BY <1>5, AbsentType DEF Forgive, Clear, TypeOK
  <2>. QED BY <1>0, <1>5, <2>1, ForgetType DEF Forgive, GoTo, TypeOK, Stages
<1>6. ASSUME NEW k, NEW s \in Stages, Gate(w, k, s), owes[w] = NoKey
      PROVE  TypeOK'
  <2>1. counter' \in [Keys -> Counter] /\ owes' \in [Workers -> Keys \cup {NoKey}]
    BY <1>6, HitEffect DEF Gate
  <2>2. granted' \in [Keys -> Nat]
    BY <1>6 DEF Gate, Applies, TypeOK
  <2>3. stage' \in [Workers -> Stages]
    BY <1>6 DEF Gate, GoTo, TypeOK, Stages
  <2>. QED BY <1>0, <1>6, <2>1, <2>2, <2>3, ForgetType DEF Gate, TypeOK
<1>7. CASE GateEmail(w) \/ GateIp(w)
  BY <1>6, <1>7 DEF GateEmail, GateIp, At, Stages
<1>8. CASE Expire(w)
  <2>1. owes[w] \in Keys
    BY <1>8 DEF Expire, TypeOK
  <2>2. /\ counter[owes[w]] \in Counter
        /\ [counter[owes[w]] EXCEPT !.ttl = Window] \in Counter
    BY <2>1, CounterFields DEF Counter, NoTtl
  <2>3. counter' \in [Keys -> Counter]
    BY <1>8, <2>1, <2>2 DEF Expire, SetExpiry, TypeOK
  <2>. QED BY <1>0, <1>8, <2>3 DEF Expire, TypeOK, client
<1>. QED BY <1>1, <1>2, <1>3, <1>4, <1>5, <1>7, <1>8 DEF Work

LEMMA ThrottleTypeStep == TypeOK /\ [Next]_vars => TypeOK'
<1> SUFFICES ASSUME TypeOK, [Next]_vars PROVE TypeOK'
  OBVIOUS
<1>1. CASE UNCHANGED vars
  BY <1>1 DEF vars, client, TypeOK
<1>2. ASSUME NEW w \in Workers, NEW j \in Jobs, NEW a \in IPs \cup {Unknown},
             NEW e \in Mailboxes, Begin(w, j, a, e), backend' = backend
      PROVE  TypeOK'
  BY <1>2, ThrottleAssumption DEF Begin, GoTo, TypeOK, Stages
<1>3. CASE Tick /\ backend' = backend
  <2>1. counter' \in [Keys -> Counter]
    BY <1>3, OlderEffect DEF Tick
  <2>. QED BY <1>3, <2>1 DEF Tick, TypeOK, client
<1>4. CASE Crash /\ backend' = backend
  BY <1>4, AbsentType DEF Crash, TypeOK, Stages, AllJobs
<1>. QED BY <1>1, <1>2, <1>3, <1>4, WorkType DEF Next

\* Every value the limiter and its clients keep has its type.
THEOREM ThrottleTypes == Spec => []TypeOK
BY ThrottleTypeInit, ThrottleTypeStep, PTL DEF Spec

-----------------------------------------------------------------------------
(***************************************************************************)
(* Gates.  A gate grants a call only after it has counted it, so that as   *)
(* many calls have been counted as granted, and the one that goes beyond   *)
(* the limit is refused.  The round trips in between do not matter: EXPIRE *)
(* changes no count, and the counters a success clears are no gate's.      *)
(***************************************************************************)
LEMMA SameSeen ==
    ASSUME NEW k \in Keys, counter'[k] = counter[k], backend' = backend
    PROVE  Seen(k)' = Seen(k)
BY DEF Seen

\* EXPIRE gives a counter that is there a deadline.
LEMMA ExpireEffect ==
    ASSUME TypeOK, Deadlines, NEW w \in Workers, Expire(w), backend' = backend
    PROVE  /\ backend = "redis" /\ owes[w] \in Keys
           /\ owes'[w] = NoKey
           /\ \A v \in Workers \ {w} : owes'[v] = owes[v]
           /\ \A k \in Keys : /\ Seen(k)' = Seen(k)
                              /\ counter'[k].count = counter[k].count
                              /\ k # owes[w] => counter'[k] = counter[k]
           /\ counter[owes[w]].count > 0 => counter'[owes[w]].ttl = Window
<1>1. backend = "redis" /\ owes[w] \in Keys
  BY DEF Expire, TypeOK, Deadlines
<1>2. /\ owes'[w] = NoKey
      /\ \A v \in Workers \ {w} : owes'[v] = owes[v]
  BY DEF Expire, TypeOK
<1>3. /\ counter[owes[w]] \in Counter /\ counter[owes[w]].count \in 0..MaxCount
      /\ counter \in [Keys -> Counter]
  BY <1>1, CounterFields DEF TypeOK
<1>4. \A k \in Keys : k # owes[w] => counter'[k] = counter[k]
  BY <1>1, <1>3 DEF Expire, SetExpiry
<1>5. /\ counter'[owes[w]].count = counter[owes[w]].count
      /\ counter[owes[w]].count > 0 => counter'[owes[w]].ttl = Window
  BY <1>1, <1>3 DEF Expire, SetExpiry, Counter
<1>6. \A k \in Keys : counter'[k].count = counter[k].count
  BY <1>4, <1>5
<1>7. \A k \in Keys : Seen(k)' = Seen(k)
  BY <1>1, <1>6 DEF Seen
<1>. QED BY <1>1, <1>2, <1>4, <1>5, <1>6, <1>7

\* A tick ends a window or leaves what is seen of its counter alone.
LEMMA TickEffect ==
    ASSUME TypeOK, Tick, backend' = backend, NEW k \in Keys
    PROVE  /\ counter'[k] = Older(counter[k])
           /\ counter[k].ttl = 1 =>
                 Seen(k)' = 0 /\ guesses'[k] = 0 /\ granted'[k] = 0
           /\ counter[k].ttl # 1 =>
                 /\ Seen(k)' = Seen(k)
                 /\ guesses'[k] = guesses[k] /\ granted'[k] = granted[k]
<1>1. /\ counter'[k] = Older(counter[k])
      /\ counter[k].ttl = 1 => guesses'[k] = 0 /\ granted'[k] = 0
      /\ counter[k].ttl # 1 =>
            guesses'[k] = guesses[k] /\ granted'[k] = granted[k]
  BY DEF Tick, WindowEnds
<1>2. counter[k].ttl \in NoTtl..Window /\ Window \in Nat
  BY CounterFields
<1>3. backend \in {"redis", "memory"}
  BY LimiterAssumption DEF TypeOK
<1>4. ASSUME counter[k].ttl = 1 PROVE Seen(k)' = 0
  BY <1>1, <1>3, <1>4, OlderEffect, AbsentType DEF Seen, NoTtl
<1>5. ASSUME counter[k].ttl # 1 PROVE Seen(k)' = Seen(k)
  <2>1. CASE counter[k].ttl <= 0
    BY <1>1, <2>1, OlderEffect, SameSeen
  <2>2. CASE counter[k].ttl > 1
    <3>1. /\ counter'[k].count = counter[k].count
          /\ counter'[k].ttl > 0 /\ counter'[k] \in Counter
      BY <1>1, <2>2, OlderEffect
    <3>2. counter'[k].ttl \in Int
      BY <1>2, <3>1 DEF Counter, NoTtl
    <3>. QED BY <1>2, <2>2, <3>1, <3>2 DEF Seen, NoTtl
  <2>. QED BY <1>2, <1>5, <2>1, <2>2 DEF NoTtl
<1>. QED BY <1>1, <1>4, <1>5

LEMMA DeadlinesInit == Init => Deadlines
BY AbsentType DEF Init, Deadlines

LEMMA HitDeadlines ==
    ASSUME TypeOK, Deadlines, NEW w \in Workers, NEW k, Hit(w, k),
           owes[w] = NoKey, backend' = backend
    PROVE  Deadlines'
<1>1. /\ \A j \in Keys : j # k => counter'[j] = counter[j]
      /\ k \in Keys /\ is_enforced(k) =>
            (backend = "memory" => counter'[k].ttl > 0)
      /\ ~Applies(k) => counter' = counter
      /\ owes'[w] # NoKey => backend = "redis"
      /\ \A v \in Workers \ {w} : owes'[v] = owes[v]
  BY HitEffect
<1>2. counter' \in [Keys -> Counter]
  BY HitEffect
<1>3. \A v \in Workers : owes'[v] # NoKey => backend' = "redis"
  BY <1>1 DEF Deadlines
<1>4. ASSUME NEW j \in Keys, backend' = "memory", counter'[j].count > 0
      PROVE  counter'[j].ttl >= 0
  <2>1. CASE counter'[j] = counter[j]
    BY <1>4, <2>1 DEF Deadlines
  <2>2. CASE j = k /\ Applies(k)
    <3>1. counter'[k].ttl > 0 /\ counter'[k].ttl \in Int
      BY <1>1, <1>2, <1>4, <2>2, LimiterAssumption
         DEF Applies, Counter, NoTtl
    <3>. QED BY <2>2, <3>1
  <2>. QED BY <1>1, <2>1, <2>2
<1>. QED BY <1>3, <1>4 DEF Deadlines

LEMMA WorkDeadlines ==
    ASSUME TypeOK, Deadlines, NEW w \in Workers, Work(w), backend' = backend
    PROVE  Deadlines'
<1>1. CASE _guard_ip(w) \/ _guard_account(w)
  BY <1>1 DEF _guard_ip, _guard_account, Guard, Deadlines
<1>2. CASE Verify(w)
  BY <1>2 DEF Verify, Deadlines
<1>3. CASE FailIp(w) \/ FailAccount(w)
  BY <1>3, HitDeadlines DEF FailIp, FailAccount, At
<1>4. CASE Forgive(w)
  <2>1. \A k \in Keys : \/ counter'[k] = counter[k]
                        \/ counter'[k] = Absent
    BY <1>4 DEF Forgive, Clear, TypeOK
  <2>2. owes' = owes
    BY <1>4 DEF Forgive
  <2>. QED BY <2>1, <2>2, AbsentType DEF Deadlines
<1>5. CASE GateEmail(w) \/ GateIp(w)
  BY <1>5, HitDeadlines DEF GateEmail, GateIp, Gate, At
<1>6. CASE Expire(w)
  BY <1>6, ExpireEffect DEF Deadlines
<1>. QED BY <1>1, <1>2, <1>3, <1>4, <1>5, <1>6 DEF Work

LEMMA DeadlinesStep == TypeOK /\ Deadlines /\ [Next]_vars => Deadlines'
<1> SUFFICES ASSUME TypeOK, Deadlines, [Next]_vars PROVE Deadlines'
  OBVIOUS
<1>1. CASE UNCHANGED vars
  BY <1>1 DEF vars, Deadlines
<1>2. ASSUME NEW w \in Workers, NEW j, NEW a, NEW e, Begin(w, j, a, e),
             backend' = backend
      PROVE  Deadlines'
  BY <1>2 DEF Begin, Deadlines
<1>3. CASE Tick /\ backend' = backend
  <2>1. owes' = owes
    BY <1>3 DEF Tick
  <2>2. ASSUME NEW k \in Keys, backend' = "memory", counter'[k].count > 0
        PROVE  counter'[k].ttl >= 0
    <3>1. /\ counter'[k] = Older(counter[k])
          /\ counter[k].ttl \in NoTtl..Window /\ Window \in Nat
          /\ counter[k].count \in 0..MaxCount
      BY <1>3, TickEffect, CounterFields
    <3>2. counter[k].count > 0
      BY <2>2, <3>1, OlderEffect
    <3>3. counter[k].ttl >= 0
      BY <1>3, <2>2, <3>2 DEF Deadlines
    <3>4. CASE counter[k].ttl = 0
      BY <3>1, <3>4, OlderEffect
    <3>5. CASE counter[k].ttl = 1
      BY <1>3, <2>2, <3>1, <3>5, OlderEffect, AbsentType
    <3>6. CASE counter[k].ttl > 1
      <4>1. counter'[k].ttl > 0 /\ counter'[k] \in Counter
        BY <3>1, <3>6, OlderEffect
      <4>. QED BY <4>1, LimiterAssumption DEF Counter, NoTtl
    <3>. QED BY <3>1, <3>3, <3>4, <3>5, <3>6 DEF NoTtl
  <2>. QED BY <1>3, <2>1, <2>2 DEF Deadlines
<1>4. CASE Crash /\ backend' = backend
  BY <1>4, AbsentType DEF Crash, Deadlines
<1>. QED BY <1>1, <1>2, <1>3, <1>4, WorkDeadlines DEF Next

\* What a gate counts is not an account counter of login.
LEMMA GateKeys ==
    ASSUME NEW w
    PROVE  MailKey(w)[1] # "login:user" /\ IpKey(w)[1] # "login:user"
BY DEF MailKey, IpKey

LEMMA GateCharged ==
    ASSUME TypeOK, Charged, GateHolds, NEW w \in Workers, NEW k, NEW s,
           Gate(w, k, s), k[1] # "login:user", owes[w] = NoKey,
           backend' = backend
    PROVE  Charged' /\ GateHolds'
<1>1. /\ \A j \in Keys : j # k => counter'[j] = counter[j]
      /\ k \in Keys /\ is_enforced(k) => Seen(k)' = Capped(Seen(k) + 1)
      /\ ~Applies(k) => counter' = counter
  BY HitEffect DEF Gate
<1>2. granted' = IF Applies(k) /\ allowed_hit(k)
                 THEN [granted EXCEPT ![k] = @ + 1] ELSE granted
  BY DEF Gate
<1>3. granted \in [Keys -> Nat]
  BY DEF TypeOK
<1>4. ASSUME NEW j \in Keys
      PROVE  /\ granted'[j] <= Seen(j)'
             /\ j[1] = "login:user" => granted'[j] = 0
             /\ is_enforced(j) => granted'[j] <= Limit[j]
  <2>1. /\ granted[j] <= Seen(j) /\ (j[1] = "login:user" => granted[j] = 0)
        /\ is_enforced(j) => granted[j] <= Limit[j]
    BY <1>4 DEF Charged, GateHolds
  <2>2. /\ Seen(j) \in 0..MaxCount /\ Limit[j] \in Nat /\ Limit[j] < MaxCount
        /\ granted[j] \in Nat /\ MaxCount \in Nat
    BY <1>4, CounterFields
  <2>3. CASE j # k \/ ~Applies(k)
    <3>1. granted'[j] = granted[j] /\ counter'[j] = counter[j]
      BY <1>1, <1>2, <1>3, <1>4, <2>3
    <3>. QED BY <1>4, <2>1, <3>1, SameSeen
  <2>4. CASE j = k /\ Applies(k) /\ ~allowed_hit(k)
    <3>1. granted'[j] = granted[j] /\ Seen(j)' = Capped(Seen(j) + 1)
      BY <1>1, <1>2, <2>4 DEF Applies
    <3>2. Capped(Seen(j) + 1) >= Seen(j)
      BY <2>2 DEF Capped
    <3>3. Capped(Seen(j) + 1) \in Int
      BY <2>2 DEF Capped
    <3>. QED BY <2>1, <2>2, <3>1, <3>2, <3>3
  <2>5. CASE j = k /\ Applies(k) /\ allowed_hit(k)
    <3>1. granted'[j] = granted[j] + 1 /\ Seen(j)' = Capped(Seen(j) + 1)
      BY <1>1, <1>2, <1>3, <1>4, <2>5 DEF Applies
    <3>2. Seen(j) + 1 <= Limit[j]
      BY <2>5 DEF allowed_hit
    <3>3. Capped(Seen(j) + 1) = Seen(j) + 1
      BY <2>2, <3>2 DEF Capped
    <3>. QED BY <2>1, <2>2, <2>5, <3>1, <3>2, <3>3
  <2>. QED BY <2>3, <2>4, <2>5
<1>. QED BY <1>4 DEF Charged, GateHolds

LEMMA FailCharged ==
    ASSUME TypeOK, Charged, GateHolds, NEW w \in Workers, NEW k,
           Hit(w, k), owes[w] = NoKey, backend' = backend, granted' = granted
    PROVE  Charged' /\ GateHolds'
<1>1. /\ \A j \in Keys : j # k => counter'[j] = counter[j]
      /\ k \in Keys /\ is_enforced(k) => Seen(k)' = Capped(Seen(k) + 1)
      /\ ~Applies(k) => counter' = counter
  BY HitEffect
<1>2. ASSUME NEW j \in Keys PROVE granted[j] <= Seen(j)'
  <2>1. /\ granted[j] <= Seen(j) /\ granted[j] \in Nat
        /\ Seen(j) \in 0..MaxCount /\ MaxCount \in Nat
    BY <1>2, CounterFields DEF Charged
  <2>2. CASE counter'[j] = counter[j]
    BY <1>2, <2>1, <2>2, SameSeen
  <2>3. CASE Seen(j)' = Capped(Seen(j) + 1)
    <3>1. Capped(Seen(j) + 1) >= Seen(j) /\ Capped(Seen(j) + 1) \in Int
      BY <2>1 DEF Capped
    <3>. QED BY <2>1, <2>3, <3>1
  <2>. QED BY <1>1, <1>2, <2>2, <2>3 DEF Applies
<1>. QED BY <1>2 DEF Charged, GateHolds

LEMMA WorkCharged ==
    ASSUME TypeOK, Deadlines, Charged, GateHolds, NEW w \in Workers, Work(w),
           backend' = backend
    PROVE  Charged' /\ GateHolds'
<1>1. CASE _guard_ip(w) \/ _guard_account(w)
  BY <1>1, SameSeen
     DEF _guard_ip, _guard_account, Guard, Charged, GateHolds
<1>2. CASE Verify(w)
  BY <1>2, SameSeen DEF Verify, Charged, GateHolds
<1>3. CASE FailIp(w) \/ FailAccount(w)
  BY <1>3, FailCharged DEF FailIp, FailAccount, At
<1>4. CASE Forgive(w)
  <2>1. /\ granted' = granted
        /\ \A k \in Keys : k # _account_key(w) => counter'[k] = counter[k]
    BY <1>4 DEF Forgive, Clear, TypeOK
  <2>2. _account_key(w) \in Keys => counter'[_account_key(w)] = Absent
    BY <1>4 DEF Forgive, Clear, TypeOK
  <2>3. _account_key(w) \in Keys => granted[_account_key(w)] = 0
    <3>1. _account_key(w)[1] = "login:user"
      BY DEF _account_key
    <3>. QED BY <3>1 DEF Charged
  <2>4. ASSUME NEW k \in Keys PROVE granted[k] <= Seen(k)'
    <3>1. CASE k = _account_key(w)
      BY <2>2, <2>3, <2>4, <3>1, AbsentType DEF Seen
    <3>2. CASE k # _account_key(w)
      BY <2>1, <2>4, <3>2, SameSeen DEF Charged
    <3>. QED BY <3>1, <3>2
  <2>. QED BY <2>1, <2>4 DEF Charged, GateHolds
<1>5. CASE GateEmail(w) \/ GateIp(w)
  BY <1>5, GateCharged, GateKeys DEF GateEmail, GateIp, At
<1>6. CASE Expire(w)
  <2>1. granted' = granted
    BY <1>6 DEF Expire
  <2>. QED BY <1>6, <2>1, ExpireEffect DEF Charged, GateHolds
<1>. QED BY <1>1, <1>2, <1>3, <1>4, <1>5, <1>6 DEF Work

LEMMA ChargedStep ==
    TypeOK /\ Deadlines /\ Charged /\ GateHolds /\ [Next]_vars
        => Charged' /\ GateHolds'
<1> SUFFICES ASSUME TypeOK, Deadlines, Charged, GateHolds, [Next]_vars
             PROVE  Charged' /\ GateHolds'
  OBVIOUS
<1>1. CASE UNCHANGED vars
  BY <1>1, SameSeen DEF vars, Charged, GateHolds
<1>2. ASSUME NEW w \in Workers, NEW j, NEW a, NEW e, Begin(w, j, a, e),
             backend' = backend
      PROVE  Charged' /\ GateHolds'
  BY <1>2, SameSeen DEF Begin, Charged, GateHolds
<1>3. CASE Tick /\ backend' = backend
  <2>1. ASSUME NEW k \in Keys
        PROVE  /\ granted'[k] <= Seen(k)'
               /\ k[1] = "login:user" => granted'[k] = 0
               /\ is_enforced(k) => granted'[k] <= Limit[k]
    <3>1. \/ Seen(k)' = 0 /\ granted'[k] = 0
          \/ Seen(k)' = Seen(k) /\ granted'[k] = granted[k]
      BY <1>3, <2>1, TickEffect
    <3>2. Limit[k] \in Nat
      BY <2>1, CounterFields
    <3>. QED BY <2>1, <3>1, <3>2 DEF Charged, GateHolds
  <2>. QED BY <2>1 DEF Charged, GateHolds
<1>4. CASE Crash /\ backend' = backend
  <2>1. ASSUME NEW k \in Keys
        PROVE  /\ granted'[k] <= Seen(k)'
               /\ k[1] = "login:user" => granted'[k] = 0
               /\ is_enforced(k) => granted'[k] <= Limit[k]
    <3>1. \/ Seen(k)' = 0 /\ granted'[k] = 0
          \/ Seen(k)' = Seen(k) /\ granted'[k] = granted[k]
      BY <1>4, <2>1, AbsentType, SameSeen DEF Crash, Seen
    <3>2. Limit[k] \in Nat
      BY <2>1, CounterFields
    <3>. QED BY <2>1, <3>1, <3>2 DEF Charged, GateHolds
  <2>. QED BY <2>1 DEF Charged, GateHolds
<1>. QED BY <1>1, <1>2, <1>3, <1>4, WorkCharged DEF Next

\* A gate lets at most Limit calls through in one life of its counter,
\* however many arrive together and wherever a process dies.
THEOREM GatesHold == Spec => []GateHolds
<1>1. Init => Charged /\ GateHolds
  <2> SUFFICES ASSUME Init PROVE Charged /\ GateHolds
    OBVIOUS
  <2>1. \A k \in Keys : Seen(k) = 0 /\ granted[k] = 0 /\ Limit[k] \in Nat
    BY AbsentType, LimiterAssumption DEF Init, Seen
  <2>. QED BY <2>1 DEF Charged, GateHolds
<1>. QED BY <1>1, ThrottleTypes, DeadlinesInit, DeadlinesStep, ChargedStep,
            PTL DEF Spec

-----------------------------------------------------------------------------
(***************************************************************************)
(* Deadlines.                                                              *)
(***************************************************************************)
\* A key is as good as expiring: gone, with a deadline, or about to get one.
Expires(k) ==
    counter[k].count > 0 /\ counter[k].ttl = NoTtl =>
        \E w \in Workers : owes[w] = k

LEMMA HitExpires ==
    ASSUME TypeOK, NoImmortalCounter, NEW w \in Workers, NEW k, Hit(w, k),
           owes[w] = NoKey, backend' = backend
    PROVE  NoImmortalCounter'
<1>1. /\ \A j \in Keys : j # k => counter'[j] = counter[j]
      /\ k \in Keys /\ is_enforced(k) =>
            (counter'[k].ttl < 0 => owes'[w] = k)
      /\ ~Applies(k) => counter' = counter
      /\ \A v \in Workers \ {w} : owes'[v] = owes[v]
  BY HitEffect
<1>2. ASSUME NEW j \in Keys PROVE Expires(j)'
  <2>1. CASE counter'[j] = counter[j]
    <3>1. \A v \in Workers : owes[v] = j => v # w
      BY <1>2, ThrottleAssumption
    <3>. QED BY <1>1, <1>2, <2>1, <3>1 DEF Expires, NoImmortalCounter
  <2>2. CASE j = k /\ Applies(k)
    BY <1>1, <1>2, <2>2 DEF Expires, Applies, NoTtl
  <2>. QED BY <1>1, <1>2, <2>1, <2>2
<1>. QED BY <1>2 DEF Expires, NoImmortalCounter

LEMMA WorkExpires ==
    ASSUME TypeOK, Deadlines, NoImmortalCounter, NEW w \in Workers, Work(w),
           backend' = backend
    PROVE  NoImmortalCounter'
<1>1. CASE _guard_ip(w) \/ _guard_account(w)
  BY <1>1 DEF _guard_ip, _guard_account, Guard, NoImmortalCounter
<1>2. CASE Verify(w)
  BY <1>2 DEF Verify, NoImmortalCounter
<1>3. CASE FailIp(w) \/ FailAccount(w)
  BY <1>3, HitExpires DEF FailIp, FailAccount, At
<1>4. CASE Forgive(w)
  <2>1. owes' = owes /\ \A k \in Keys : \/ counter'[k] = counter[k]
                                        \/ counter'[k] = Absent
    BY <1>4 DEF Forgive, Clear, TypeOK
  <2>. QED BY <2>1, AbsentType DEF NoImmortalCounter
<1>5. CASE GateEmail(w) \/ GateIp(w)
  BY <1>5, HitExpires DEF GateEmail, GateIp, Gate, At
<1>6. CASE Expire(w)
  <2>1. /\ owes[w] \in Keys
        /\ \A v \in Workers \ {w} : owes'[v] = owes[v]
        /\ \A k \in Keys : /\ counter'[k].count = counter[k].count
                           /\ k # owes[w] => counter'[k] = counter[k]
        /\ counter[owes[w]].count > 0 => counter'[owes[w]].ttl = Window
    BY <1>6, ExpireEffect
  <2>2. ASSUME NEW k \in Keys PROVE Expires(k)'
    <3>1. CASE k = owes[w]
      BY <2>1, <3>1, LimiterAssumption DEF Expires, NoTtl
    <3>2. CASE k # owes[w]
      BY <2>1, <2>2, <3>2 DEF Expires, NoImmortalCounter
    <3>. QED BY <3>1, <3>2
  <2>. QED BY <2>2 DEF Expires, NoImmortalCounter
<1>. QED BY <1>1, <1>2, <1>3, <1>4, <1>5, <1>6 DEF Work

LEMMA ExpiresStep ==
    ASSUME NoRedisCrash
    PROVE  TypeOK /\ Deadlines /\ NoImmortalCounter /\ [Next]_vars
               => NoImmortalCounter'
<1> SUFFICES ASSUME TypeOK, Deadlines, NoImmortalCounter, [Next]_vars
             PROVE  NoImmortalCounter'
  OBVIOUS
<1>1. CASE UNCHANGED vars
  BY <1>1 DEF vars, NoImmortalCounter
<1>2. ASSUME NEW w \in Workers, NEW j, NEW a, NEW e, Begin(w, j, a, e)
      PROVE  NoImmortalCounter'
  BY <1>2 DEF Begin, NoImmortalCounter
<1>3. CASE Tick /\ backend' = backend
  <2>1. owes' = owes
    BY <1>3 DEF Tick
  <2>2. ASSUME NEW k \in Keys, counter'[k].count > 0, counter'[k].ttl = NoTtl
        PROVE  counter'[k] = counter[k]
    <3>1. /\ counter'[k] = Older(counter[k])
          /\ counter[k].ttl \in NoTtl..Window /\ Window \in Nat
      BY <1>3, TickEffect, CounterFields
    <3>2. CASE counter[k].ttl <= 0
      BY <3>1, <3>2, OlderEffect
    <3>3. CASE counter[k].ttl = 1
      BY <2>2, <3>1, <3>3, OlderEffect, AbsentType DEF NoTtl
    <3>4. CASE counter[k].ttl > 1
      BY <2>2, <3>1, <3>4, OlderEffect DEF NoTtl
    <3>. QED BY <3>1, <3>2, <3>3, <3>4 DEF NoTtl
  <2>. QED BY <2>1, <2>2 DEF NoImmortalCounter
<1>4. CASE Crash /\ backend' = backend
  <2>1. backend # "redis"
    BY <1>4 DEF Crash, NoRedisCrash
  <2>. QED BY <1>4, <2>1, AbsentType DEF Crash, NoImmortalCounter
<1>. QED BY <1>1, <1>2, <1>3, <1>4, WorkExpires DEF Next

\* Every counter has a deadline or is about to be given one, provided that a
\* process which counts in Redis does not die between INCR and EXPIRE.
THEOREM CountersExpire == NoRedisCrash => (Spec => []NoImmortalCounter)
<1>1. Init => NoImmortalCounter
  BY AbsentType DEF Init, NoImmortalCounter
<1>. SUFFICES ASSUME NoRedisCrash PROVE Spec => []NoImmortalCounter
  OBVIOUS
<1>2. TypeOK /\ Deadlines /\ NoImmortalCounter /\ [Next]_vars
          => NoImmortalCounter'
  BY ExpiresStep
<1>. QED BY <1>1, <1>2, ThrottleTypes, DeadlinesInit, DeadlinesStep, PTL
         DEF Spec

-----------------------------------------------------------------------------
(***************************************************************************)
(* Guesses.  A worker is admitted to a key, may then fail, and is charged  *)
(* for it; at any time it is at most one of admitted and failing.          *)
(***************************************************************************)
LEMMA Room ==
    ASSUME NEW W, IsFiniteSet(W), NEW A \in SUBSET W, NEW F \in SUBSET W,
           A \cap F = {}
    PROVE  /\ Cardinality(W) \in Nat
           /\ Cardinality(A) \in Nat /\ Cardinality(F) \in Nat
           /\ Cardinality(A) + Cardinality(F) <= Cardinality(W)
<1>1. IsFiniteSet(A) /\ IsFiniteSet(F)
  BY FS_Subset
<1>2. /\ Cardinality(W) \in Nat /\ Cardinality(A) \in Nat
      /\ Cardinality(F) \in Nat
  BY <1>1, FS_CardinalityType
<1>3. Cardinality({}) = 0
  BY FS_EmptySet
<1>4. Cardinality(A \cup F)
          = Cardinality(A) + Cardinality(F) - Cardinality({})
  BY <1>1, FS_Union, Zenon
<1>5. A \cup F \in SUBSET W
  OBVIOUS
<1>6. Cardinality(A \cup F) <= Cardinality(W)
  BY <1>5, FS_Subset
<1>. QED BY <1>2, <1>3, <1>4, <1>6

LEMMA OneMore ==
    ASSUME NEW S, IsFiniteSet(S), NEW T, NEW w, w \in T, w \notin S,
           T \subseteq S \cup {w}, S \subseteq T
    PROVE  Cardinality(T) = Cardinality(S) + 1
<1>1. T = S \cup {w}
  OBVIOUS
<1>2. Cardinality(S \cup {w}) = Cardinality(S) + 1
  BY FS_AddElement
<1>. QED BY <1>1, <1>2, Zenon

LEMMA AtMostOneLess ==
    ASSUME NEW S, IsFiniteSet(S), NEW T, IsFiniteSet(T), NEW w,
           S \subseteq T \cup {w}
    PROVE  Cardinality(S) <= Cardinality(T) + 1
<1>1. /\ IsFiniteSet(T \cup {w})
      /\ Cardinality(T \cup {w}) =
            IF w \in T THEN Cardinality(T) ELSE Cardinality(T) + 1
  BY FS_AddElement
<1>2. Cardinality(S) <= Cardinality(T \cup {w})
  BY <1>1, FS_Subset
<1>3. Cardinality(S) \in Nat /\ Cardinality(T) \in Nat
  BY FS_CardinalityType
<1>. QED BY <1>1, <1>2, <1>3

LEMMA Disjoint ==
    ASSUME NEW k
    PROVE  /\ Admitted(k) \in SUBSET Workers /\ Failing(k) \in SUBSET Workers
           /\ Admitted(k) \cap Failing(k) = {}
           /\ Admitted(k)' \in SUBSET Workers
           /\ Failing(k)' \in SUBSET Workers
           /\ Admitted(k)' \cap Failing(k)' = {}
<1>1. \A w : ~(Admits(w, k) /\ Fails(w, k))
  BY DEF Admits, Fails
<1>2. \A w : ~(Admits(w, k)' /\ Fails(w, k)')
  BY DEF Admits, Fails
<1>. QED BY <1>1, <1>2 DEF Admitted, Failing

\* The budget of a key after a step that clears its counter.
LEMMA BudgetReset ==
    ASSUME TypeOK', NEW k \in Keys, is_enforced(k),
           guesses'[k] = 0, Seen(k)' = 0
    PROVE  Budget(k)'
<1>1. Limit[k] \in Nat
  BY LimiterAssumption
<1>2. Cardinality(Failing(k)') \in Nat
  BY Disjoint, Room, ThrottleAssumption
<1>. QED BY <1>1, <1>2 DEF Budget, is_enforced

\* What a step of w may do to a key it does not clear: nothing, or let w in
\* while there is room; fail the guess of an admitted worker; or charge the
\* key, for the failure of w or for something else.
Harmless(w, k) ==
    /\ Seen(k)' = Seen(k) /\ guesses'[k] = guesses[k]
    /\ Fails(w, k) => Fails(w, k)'
    /\ Admits(w, k)' => Admits(w, k) \/ Seen(k) < Limit[k]
WrongGuess(w, k) ==
    /\ Seen(k)' = Seen(k) /\ guesses'[k] = guesses[k] + 1
    /\ Admits(w, k) /\ ~Admits(w, k)'
    /\ ~Fails(w, k) /\ Fails(w, k)'
Counted(w, k) ==
    /\ Seen(k)' = Capped(Seen(k) + 1) /\ guesses'[k] = guesses[k]
    /\ Admits(w, k)' => Admits(w, k)

OthersStand(w, k) ==
    \A v \in Workers \ {w} : /\ Admits(v, k)' <=> Admits(v, k)
                             /\ Fails(v, k)' <=> Fails(v, k)

LEMMA BudgetKept ==
    ASSUME TypeOK, NEW k \in Keys, is_enforced(k), Budget(k),
           NEW w \in Workers, OthersStand(w, k),
           Harmless(w, k) \/ WrongGuess(w, k) \/ Counted(w, k)
    PROVE  Budget(k)'
<1> DEFINE A == Admitted(k)
           F == Failing(k)
           B == Admitted(k)'
           G == Failing(k)'
           cW == Cardinality(Workers)
<1>1. /\ Seen(k) \in 0..MaxCount /\ MaxCount \in Nat
      /\ Limit[k] \in Nat /\ Limit[k] < MaxCount /\ guesses[k] \in Nat
  BY CounterFields
<1>2. /\ cW \in Nat /\ Cardinality(A) \in Nat /\ Cardinality(F) \in Nat
      /\ Cardinality(A) + Cardinality(F) <= cW
  BY Disjoint, Room, ThrottleAssumption
<1>3. /\ Cardinality(B) \in Nat /\ Cardinality(G) \in Nat
      /\ Cardinality(B) + Cardinality(G) <= cW
  BY Disjoint, Room, ThrottleAssumption
<1>4. IsFiniteSet(A) /\ IsFiniteSet(F) /\ IsFiniteSet(B) /\ IsFiniteSet(G)
  BY Disjoint, FS_Subset, ThrottleAssumption
<1>5. /\ Seen(k) < Limit[k] => guesses[k] <= Seen(k) + Cardinality(F)
      /\ ~(Seen(k) < Limit[k]) =>
            guesses[k] + Cardinality(A) <= Limit[k] + cW - 1
  BY DEF Budget
<1>6. SUFFICES
        /\ Seen(k)' < Limit[k] => guesses'[k] <= Seen(k)' + Cardinality(G)
        /\ ~(Seen(k)' < Limit[k]) =>
              guesses'[k] + Cardinality(B) <= Limit[k] + cW - 1
  BY DEF Budget
<1>7. CASE Harmless(w, k)
  <2>1. F \subseteq G
    BY <1>7 DEF Failing, OthersStand, Harmless
  <2>2. ~(Seen(k) < Limit[k]) => B \subseteq A
    BY <1>7 DEF Admitted, OthersStand, Harmless
  <2>3. Cardinality(F) <= Cardinality(G)
    BY <1>4, <2>1, FS_Subset
  <2>4. ~(Seen(k) < Limit[k]) => Cardinality(B) <= Cardinality(A)
    BY <1>4, <2>2, FS_Subset
  <2>5. Seen(k)' = Seen(k) /\ guesses'[k] = guesses[k]
    BY <1>7 DEF Harmless
  <2>. HIDE DEF A, F, B, G, cW
  <2>. QED BY <1>1, <1>2, <1>3, <1>5, <2>3, <2>4, <2>5
<1>8. CASE WrongGuess(w, k)
  <2>1. w \in A /\ w \notin B /\ A \subseteq B \cup {w} /\ B \subseteq A
    BY <1>8 DEF Admitted, OthersStand, WrongGuess
  <2>2. w \in G /\ w \notin F /\ G \subseteq F \cup {w} /\ F \subseteq G
    BY <1>8 DEF Failing, OthersStand, WrongGuess
  <2>3. Seen(k)' = Seen(k) /\ guesses'[k] = guesses[k] + 1
    BY <1>8 DEF WrongGuess
  <2>. HIDE DEF A, F, B, G, cW
  <2>4. Cardinality(A) = Cardinality(B) + 1
    BY <1>4, <2>1, OneMore
  <2>5. Cardinality(G) = Cardinality(F) + 1
    BY <1>4, <2>2, OneMore
  <2>. QED BY <1>1, <1>2, <1>3, <1>5, <2>3, <2>4, <2>5
<1>9. CASE Counted(w, k)
  <2>1. B \subseteq A
    BY <1>9 DEF Admitted, OthersStand, Counted
  <2>2. F \subseteq G \cup {w}
    BY <1>9 DEF Failing, OthersStand
  <2>3. guesses'[k] = guesses[k]
    BY <1>9 DEF Counted
  <2>4. Seen(k)' = IF Seen(k) + 1 < MaxCount THEN Seen(k) + 1 ELSE MaxCount
    BY <1>9 DEF Counted, Capped
  <2>. HIDE DEF A, F, B, G, cW
  <2>5. Cardinality(B) <= Cardinality(A)
    BY <1>4, <2>1, FS_Subset
  <2>6. Cardinality(F) <= Cardinality(G) + 1
    BY <1>4, <2>2, AtMostOneLess
  <2>. QED BY <1>1, <1>2, <1>3, <1>5, <2>3, <2>4, <2>5, <2>6
<1>. QED BY <1>7, <1>8, <1>9

LEMMA ClientStands ==
    ASSUME NEW v, NEW k, stage'[v] = stage[v], job'[v] = job[v],
           ip'[v] = ip[v], email'[v] = email[v]
    PROVE  /\ Admits(v, k)' <=> Admits(v, k)
           /\ Fails(v, k)' <=> Fails(v, k)
<1>1. IpKey(v)' = IpKey(v) /\ _account_key(v)' = _account_key(v)
  BY DEF IpKey, _account_key
<1>. QED BY <1>1 DEF Admits, Fails

LEMMA WorkOthers ==
    ASSUME TypeOK, NEW w \in Workers, NEW s, GoTo(w, s),
           Forget(w) \/ UNCHANGED client, NEW k
    PROVE  OthersStand(w, k)
<1>1. ASSUME NEW v \in Workers \ {w}
      PROVE  /\ stage'[v] = stage[v] /\ job'[v] = job[v]
             /\ ip'[v] = ip[v] /\ email'[v] = email[v]
  BY <1>1 DEF GoTo, Forget, client, TypeOK
<1>. QED BY <1>1, ClientStands DEF OthersStand

\* A worker that goes on with the same client.
LEMMA SameClient ==
    ASSUME UNCHANGED client, NEW w
    PROVE  IpKey(w)' = IpKey(w) /\ _account_key(w)' = _account_key(w)
BY DEF client, IpKey, _account_key

\* A worker in another stage is neither admitted nor failing.
Engaged == {"guard_account", "verify", "fail_ip", "fail_account"}

LEMMA NotEngaged ==
    ASSUME NEW w, NEW k
    PROVE  /\ stage[w] \notin Engaged => ~Admits(w, k) /\ ~Fails(w, k)
           /\ stage'[w] \notin Engaged => ~Admits(w, k)' /\ ~Fails(w, k)'
BY DEF Engaged, Admits, Fails

LEMMA GuardBudget ==
    ASSUME TypeOK, NEW w \in Workers, _guard_ip(w) \/ _guard_account(w),
           backend' = backend, NEW k \in Keys, is_enforced(k), Budget(k)
    PROVE  Budget(k)'
<1>1. OthersStand(w, k)
  BY WorkOthers DEF _guard_ip, _guard_account, Guard
<1>2. Seen(k)' = Seen(k) /\ guesses'[k] = guesses[k]
  BY SameSeen DEF _guard_ip, _guard_account, Guard
<1>3. CASE _guard_ip(w)
  <2>1. ~Admits(w, k) /\ ~Fails(w, k)
    BY <1>3 DEF _guard_ip, At, Admits, Fails
  <2>2. CASE Applies(IpKey(w)) /\ ~allowed_peek(IpKey(w))
    <3>1. stage'[w] = "idle"
      BY <1>3, <2>2 DEF _guard_ip, Guard, GoTo, TypeOK
    <3>2. ~Admits(w, k)'
      BY <3>1, NotEngaged DEF Engaged
    <3>. QED BY <1>1, <1>2, <2>1, <3>2, BudgetKept DEF Harmless
  <2>3. CASE ~(Applies(IpKey(w)) /\ ~allowed_peek(IpKey(w)))
    <3>1. stage'[w] = "guard_account"
      BY <1>3, <2>3 DEF _guard_ip, Guard, GoTo, TypeOK
    <3>2. UNCHANGED client
      BY <1>3, <3>1 DEF _guard_ip, Guard, Forget
    <3>3. Admits(w, k)' => IpKey(w) = k
      BY <3>1, <3>2, SameClient DEF Admits
    <3>4. Admits(w, k)' => Seen(k) < Limit[k]
      BY <2>3, <3>3 DEF Applies, allowed_peek
    <3>. QED BY <1>1, <1>2, <2>1, <3>4, BudgetKept DEF Harmless
  <2>. QED BY <2>2, <2>3
<1>4. CASE _guard_account(w)
  <2>1. ~Fails(w, k) /\ (Admits(w, k) <=> IpKey(w) = k)
    BY <1>4 DEF _guard_account, At, Admits, Fails
  <2>2. CASE Applies(_account_key(w)) /\ ~allowed_peek(_account_key(w))
    <3>1. stage'[w] = "idle"
      BY <1>4, <2>2 DEF _guard_account, Guard, GoTo, TypeOK
    <3>2. ~Admits(w, k)'
      BY <3>1, NotEngaged DEF Engaged
    <3>. QED BY <1>1, <1>2, <2>1, <3>2, BudgetKept DEF Harmless
  <2>3. CASE ~(Applies(_account_key(w)) /\ ~allowed_peek(_account_key(w)))
    <3>1. stage'[w] = "verify"
      BY <1>4, <2>3 DEF _guard_account, Guard, GoTo, TypeOK
    <3>2. UNCHANGED client
      BY <1>4, <3>1 DEF _guard_account, Guard, Forget
    <3>3. Admits(w, k)' => IpKey(w) = k \/ _account_key(w) = k
      BY <3>1, <3>2, SameClient DEF Admits
    <3>4. Admits(w, k)' => Admits(w, k) \/ Seen(k) < Limit[k]
      BY <2>1, <2>3, <3>3 DEF Applies, allowed_peek
    <3>. QED BY <1>1, <1>2, <2>1, <3>4, BudgetKept DEF Harmless
  <2>. QED BY <2>2, <2>3
<1>. QED BY <1>3, <1>4

LEMMA VerifyBudget ==
    ASSUME TypeOK, NEW w \in Workers, Verify(w),
           backend' = backend, NEW k \in Keys, is_enforced(k), Budget(k)
    PROVE  Budget(k)'
<1>1. OthersStand(w, k)
  BY WorkOthers DEF Verify
<1>2. Seen(k)' = Seen(k)
  BY SameSeen DEF Verify
<1>3. /\ ~Fails(w, k)
      /\ Admits(w, k) <=> IpKey(w) = k \/ _account_key(w) = k
  BY DEF Verify, At, Admits, Fails
<1>4. IpKey(w)' = IpKey(w) /\ _account_key(w)' = _account_key(w)
  BY SameClient DEF Verify
<1>5. CASE GoTo(w, "forgive") /\ UNCHANGED guesses
  <2>1. stage'[w] = "forgive"
    BY <1>5 DEF GoTo, TypeOK
  <2>2. ~Admits(w, k)'
    BY <2>1, NotEngaged DEF Engaged
  <2>. QED BY <1>1, <1>2, <1>3, <1>5, <2>2, BudgetKept DEF Harmless
<1>6. CASE /\ GoTo(w, "fail_ip")
           /\ guesses' = [j \in Keys |->
                 IF j \in {IpKey(w), _account_key(w)} /\ Applies(j)
                 THEN guesses[j] + 1 ELSE guesses[j]]
  <2>1. stage'[w] = "fail_ip"
    BY <1>6 DEF GoTo, TypeOK
  <2>2. /\ ~Admits(w, k)'
        /\ Fails(w, k)' <=> IpKey(w) = k \/ _account_key(w) = k
    BY <1>4, <2>1 DEF Admits, Fails
  <2>3. CASE IpKey(w) = k \/ _account_key(w) = k
    <3>1. guesses'[k] = guesses[k] + 1
      BY <1>6, <2>3 DEF Applies
    <3>. QED BY <1>1, <1>2, <1>3, <2>2, <2>3, <3>1, BudgetKept DEF WrongGuess
  <2>4. CASE ~(IpKey(w) = k \/ _account_key(w) = k)
    <3>1. guesses'[k] = guesses[k]
      BY <1>6, <2>4
    <3>. QED BY <1>1, <1>2, <1>3, <2>2, <2>4, <3>1, BudgetKept DEF Harmless
  <2>. QED BY <2>3, <2>4
<1>. QED BY <1>5, <1>6 DEF Verify

LEMMA FailBudget ==
    ASSUME TypeOK, NEW w \in Workers, FailIp(w) \/ FailAccount(w),
           backend' = backend, NEW k \in Keys, is_enforced(k), Budget(k)
    PROVE  Budget(k)'
<1>1. OthersStand(w, k)
  BY WorkOthers DEF FailIp, FailAccount
<1>2. guesses'[k] = guesses[k] /\ owes[w] = NoKey
  BY DEF FailIp, FailAccount, At
<1>3. CASE FailIp(w)
  <2>1. /\ k # IpKey(w) => Seen(k)' = Seen(k)
        /\ k = IpKey(w) => Seen(k)' = Capped(Seen(k) + 1)
    BY <1>2, <1>3, HitEffect, SameSeen DEF FailIp
  <2>2. stage[w] = "fail_ip" /\ stage'[w] = "fail_account"
    BY <1>3 DEF FailIp, At, GoTo, TypeOK
  <2>3. IpKey(w)' = IpKey(w) /\ _account_key(w)' = _account_key(w)
    BY <1>3, SameClient DEF FailIp
  <2>4. /\ ~Admits(w, k)'
        /\ Fails(w, k) <=> IpKey(w) = k \/ _account_key(w) = k
        /\ Fails(w, k)' <=> _account_key(w) = k
    BY <2>2, <2>3 DEF Admits, Fails
  <2>5. CASE k = IpKey(w)
    BY <1>1, <1>2, <2>1, <2>4, <2>5, BudgetKept DEF Counted
  <2>6. CASE k # IpKey(w)
    BY <1>1, <1>2, <2>1, <2>4, <2>6, BudgetKept DEF Harmless
  <2>. QED BY <2>5, <2>6
<1>4. CASE FailAccount(w)
  <2>1. /\ k # _account_key(w) => Seen(k)' = Seen(k)
        /\ k = _account_key(w) => Seen(k)' = Capped(Seen(k) + 1)
    BY <1>2, <1>4, HitEffect, SameSeen DEF FailAccount
  <2>2. stage[w] = "fail_account" /\ stage'[w] = "idle"
    BY <1>4 DEF FailAccount, At, GoTo, TypeOK
  <2>3. ~Admits(w, k)' /\ (Fails(w, k) <=> _account_key(w) = k)
    BY <2>2 DEF Admits, Fails
  <2>4. CASE k = _account_key(w)
    BY <1>1, <1>2, <2>1, <2>3, <2>4, BudgetKept DEF Counted
  <2>5. CASE k # _account_key(w)
    BY <1>1, <1>2, <2>1, <2>3, <2>5, BudgetKept DEF Harmless
  <2>. QED BY <2>4, <2>5
<1>. QED BY <1>3, <1>4

LEMMA ForgiveBudget ==
    ASSUME TypeOK, TypeOK', NEW w \in Workers, Forgive(w),
           backend' = backend, NEW k \in Keys, is_enforced(k), Budget(k)
    PROVE  Budget(k)'
<1>1. OthersStand(w, k)
  BY WorkOthers DEF Forgive
<1>2. CASE k = _account_key(w)
  <2>1. guesses'[k] = 0 /\ counter'[k] = Absent
    BY <1>2 DEF Forgive, Clear, TypeOK
  <2>2. Seen(k)' = 0
    BY <2>1, AbsentType DEF Seen
  <2>. QED BY <2>1, <2>2, BudgetReset
<1>3. CASE k # _account_key(w)
  <2>1. guesses'[k] = guesses[k] /\ counter'[k] = counter[k]
    BY <1>3 DEF Forgive, Clear, TypeOK
  <2>2. stage[w] = "forgive" /\ stage'[w] = "idle"
    BY DEF Forgive, At, GoTo, TypeOK
  <2>3. ~Fails(w, k) /\ ~Admits(w, k)'
    BY <2>2, NotEngaged DEF Engaged
  <2>. QED BY <1>1, <2>1, <2>3, SameSeen, BudgetKept DEF Harmless
<1>. QED BY <1>2, <1>3

LEMMA GateBudget ==
    ASSUME TypeOK, NEW w \in Workers, GateEmail(w) \/ GateIp(w),
           backend' = backend, NEW k \in Keys, is_enforced(k), Budget(k)
    PROVE  Budget(k)'
<1>0. /\ owes[w] = NoKey /\ stage[w] \in {"gate_email", "gate_ip"}
      /\ Gate(w, MailKey(w), "gate_ip") \/ Gate(w, IpKey(w), "idle")
  BY DEF GateEmail, GateIp, At
<1>1. PICK g, s : Gate(w, g, s) /\ s \in {"gate_ip", "idle"}
  BY <1>0
<1>2. OthersStand(w, k)
  BY <1>1, WorkOthers DEF Gate
<1>3. guesses'[k] = guesses[k]
  BY <1>1 DEF Gate
<1>4. stage'[w] \in {"gate_ip", "idle"}
  BY <1>1 DEF Gate, GoTo, TypeOK
<1>5. ~Fails(w, k) /\ ~Admits(w, k)'
  BY <1>0, <1>4, NotEngaged DEF Engaged
<1>6. /\ k # g => Seen(k)' = Seen(k)
      /\ k = g => Seen(k)' = Capped(Seen(k) + 1)
  BY <1>0, <1>1, HitEffect, SameSeen DEF Gate
<1>7. CASE k = g
  BY <1>2, <1>3, <1>5, <1>6, <1>7, BudgetKept DEF Counted
<1>8. CASE k # g
  BY <1>2, <1>3, <1>5, <1>6, <1>8, BudgetKept DEF Harmless
<1>. QED BY <1>7, <1>8

\* A step after which every worker is where it was.
LEMMA StillBudget ==
    ASSUME TypeOK, UNCHANGED <<stage, job, ip, email>>, NEW k \in Keys,
           is_enforced(k), Budget(k), Seen(k)' = Seen(k),
           guesses'[k] = guesses[k]
    PROVE  Budget(k)'
<1>1. PICK w : w \in Workers
  BY ThrottleAssumption
<1>2. \A v : /\ Admits(v, k)' <=> Admits(v, k)
             /\ Fails(v, k)' <=> Fails(v, k)
  BY ClientStands
<1>. QED BY <1>1, <1>2, BudgetKept DEF OthersStand, Harmless

LEMMA BudgetStep ==
    ASSUME NoRedisCrash
    PROVE  TypeOK /\ TypeOK' /\ Deadlines /\ BudgetInv /\ [Next]_vars
               => BudgetInv'
<1> SUFFICES ASSUME TypeOK, TypeOK', Deadlines, [Next]_vars,
                    NEW k \in Keys, is_enforced(k), Budget(k)
             PROVE  Budget(k)'
  BY DEF BudgetInv
<1>1. CASE UNCHANGED vars
  BY <1>1, StillBudget, SameSeen DEF vars, client
<1>2. ASSUME NEW w \in Workers, NEW j, NEW a, NEW e, Begin(w, j, a, e),
             backend' = backend
      PROVE  Budget(k)'
  <2>1. \A v \in Workers \ {w} : /\ stage'[v] = stage[v] /\ job'[v] = job[v]
                                 /\ ip'[v] = ip[v] /\ email'[v] = email[v]
    BY <1>2 DEF Begin, GoTo, TypeOK
  <2>2. OthersStand(w, k)
    BY <2>1, ClientStands DEF OthersStand
  <2>3. stage[w] = "idle" /\ stage'[w] \in {"guard_ip", "gate_email", "gate_ip"}
    BY <1>2 DEF Begin, At, GoTo, TypeOK
  <2>4. ~Fails(w, k) /\ ~Admits(w, k)'
    BY <2>3, NotEngaged DEF Engaged
  <2>5. Seen(k)' = Seen(k) /\ guesses'[k] = guesses[k]
    BY <1>2, SameSeen DEF Begin
  <2>. QED BY <2>2, <2>4, <2>5, BudgetKept DEF Harmless
<1>3. CASE Tick /\ backend' = backend
  <2>1. UNCHANGED <<stage, job, ip, email>>
    BY <1>3 DEF Tick, client
  <2>. QED BY <1>3, <2>1, TickEffect, StillBudget, BudgetReset
<1>4. CASE Crash /\ backend' = backend
  <2>1. backend # "redis"
    BY <1>4 DEF Crash, NoRedisCrash
  <2>2. guesses'[k] = 0 /\ counter'[k] = Absent
    BY <1>4, <2>1 DEF Crash
  <2>3. Seen(k)' = 0
    BY <2>2, AbsentType DEF Seen
  <2>. QED BY <2>2, <2>3, BudgetReset
<1>5. ASSUME NEW w \in Workers, Work(w), backend' = backend
      PROVE  Budget(k)'
  <2>1. CASE Expire(w)
    <3>1. UNCHANGED <<stage, job, ip, email>> /\ guesses'[k] = guesses[k]
      BY <2>1 DEF Expire, client
    <3>. QED BY <1>5, <2>1, <3>1, ExpireEffect, StillBudget
  <2>. QED BY <1>5, <2>1, GuardBudget, VerifyBudget, FailBudget,
              ForgiveBudget, GateBudget DEF Work
<1>. QED BY <1>1, <1>2, <1>3, <1>4, <1>5 DEF Next

LEMMA BudgetBounds == TypeOK /\ BudgetInv => GuessesBounded
<1> SUFFICES ASSUME TypeOK, BudgetInv, NEW k \in Peeked, is_enforced(k)
             PROVE  guesses[k] <= Limit[k] + Cardinality(Workers) - 1
  BY DEF GuessesBounded
<1>1. k \in Keys
  BY DEF Peeked
<1>2. /\ Seen(k) \in 0..MaxCount /\ MaxCount \in Nat
      /\ Limit[k] \in Nat /\ guesses[k] \in Nat
  BY <1>1, CounterFields
<1>3. /\ Cardinality(Workers) \in Nat
      /\ Cardinality(Admitted(k)) \in Nat /\ Cardinality(Failing(k)) \in Nat
      /\ Cardinality(Admitted(k)) + Cardinality(Failing(k))
            <= Cardinality(Workers)
  BY Disjoint, Room, ThrottleAssumption
<1>4. Budget(k)
  BY <1>1 DEF BudgetInv
<1>. QED BY <1>2, <1>3, <1>4 DEF Budget

\* Within one life of its counter a key takes at most Limit wrong passwords
\* and one more for every other worker, provided that a process which counts
\* in Redis does not die before it has charged a failure.
THEOREM GuessesAreBounded == NoRedisCrash => (Spec => []GuessesBounded)
<1>. SUFFICES ASSUME NoRedisCrash PROVE Spec => []GuessesBounded
  OBVIOUS
<1>1. Init => BudgetInv
  <2> SUFFICES ASSUME Init, NEW k \in Keys, is_enforced(k) PROVE Budget(k)
    BY DEF BudgetInv
  <2>1. guesses[k] = 0 /\ Seen(k) = 0 /\ Limit[k] \in Nat
    BY AbsentType, LimiterAssumption DEF Init, Seen
  <2>2. Cardinality(Failing(k)) \in Nat
    BY Disjoint, Room, ThrottleAssumption
  <2>. QED BY <2>1, <2>2 DEF Budget, is_enforced
<1>2. TypeOK /\ TypeOK' /\ Deadlines /\ BudgetInv /\ [Next]_vars => BudgetInv'
  BY BudgetStep
<1>. QED BY <1>1, <1>2, BudgetBounds, ThrottleTypes, DeadlinesInit,
            DeadlinesStep, PTL DEF Spec

=============================================================================
