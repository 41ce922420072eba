# A TLA+ model of video-site

video-site is the account service of a video platform (`src/src/users_service`,
a FastAPI application on PostgreSQL with optional Redis) and a thin gateway in
front of it (`src/src/gateway`). This directory holds TLA+ modules of its core
logic, the TLC configurations that check them, and TLAPS proofs.

## 1. The system

| Part | State | Operations | What makes it correct |
|---|---|---|---|
| Authentication use cases (`application/auth`) | tables `users`, `sessions`, `security_tokens`, `audit_log` | register, login, refresh, logout, verify email, forgot and reset password, update profile, change password, delete account | a revoked or spent credential is dead for good; signing out everywhere misses no session; a link works once, and only the newest one; an address is verified only by its owner; every effect has its audit row |
| Session management (`application/users`) | `sessions` | list, revoke one, revoke all, revoke others | as above |
| Moderation (`application/moderation`) | `users`, `sessions` | ban, unban | a banned account has no session, and nothing but an unban brings it back |
| Unit of work, repositories (`adapter/database`) | one transaction per request, READ COMMITTED, row locks | one method per statement | writes appear together or not at all; no request waits for ever |
| Rate limiting (`adapter/rate_limit`) | a counter with a deadline per rule and address | hit, peek, reset | a bounded number of attempts per window; every lockout ends |
| User cache (`adapter/cache`) | `auth:user:<id>` in Redis, 30 s | get, set, delete | staleness is bounded, and a change is visible once its request is answered |
| Access control (`application/access_control`) | roles, permissions and their links | create, delete, assign, grant, revoke | a permission taken away is gone |
| Browser session (`infrastructure/api/cookies.py`, CSRF and visitor middleware) | three auth cookies with a lifetime each, a visitor cookie | set, clear, compare, expire | the cookies follow the session and come in one piece; no request is refused for want of a token the browser should have; signing out holds; the visitor id survives |
| Gateway (`src/src/gateway`) | routing table; one HTTP client with its connection pool and cookie jar | match, strip identity headers, resolve the caller, forward, stream back | a client cannot name itself; the caller announced is the one the request comes from and was not signed out before it came; connections are given back and every request ends |

**How they interact.** A request comes in through the gateway, is authenticated
(session from the database, user from the cache or the database), passes a
permission check, and runs one use case in a transaction of its own. The use
case calls repositories one statement at a time; the audit row is written in the
same transaction. After the commit, the user's cache entry is deleted and a mail
may be sent. Rate limits are checked before the transaction (and, for a failed
login, charged inside it).

**What is hard.** Requests interleave at every `await`, so between two
statements of a use case any other transaction may commit: checks go stale
(`is_valid`, `is_usable`, `is_active`, "is this address free?"), entities read
earlier are written back whole, and an `UPDATE ... WHERE` works on its snapshot.
Processes die between statements, between commit and mail, and between two Redis
round trips. Tokens expire in the middle of a request. Transactions take locks
in different orders. A browser's tabs send requests side by side and get the
answers in any order, or not at all, each with cookies of its own. The gateway
gives up on an upstream that may still do what it was asked. `PROJECT.json`
lists these hazards at their lines.

## 2. Modules

| Module | Models |
|---|---|
| `CredentialStore` | abstract: what the service promises about sessions and links, one atomic step per request |
| `Accounts` | the use cases, repositories and endpoints above, statement by statement, over the four tables, with PostgreSQL's locks; implements `CredentialStore` |
| `MCAccounts` | its small instances: a moderator `u1`, an ordinary account `u2` with one session and one live link of each purpose |
| `AccountsProofs` | proofs about `Accounts`: types, and credentials that stay dead |
| `AccountsLocks` | proofs about `Accounts`: what the row locks achieve, and the refinement of `CredentialStore` |
| `AccountsRows` | proofs about `Accounts`: the rows of `users` and the audit log |
| `AccountsSchedules` | proofs about `Accounts`: which requests can deadlock, and in which overlaps the promises about sessions and addresses give way |
| `RateLimiter` | the counters and what hit, peek and reset do to them, for Redis and for the in-process dict |
| `LoginThrottle` | the throttled use cases on top of `RateLimiter`: guards, charges, gates, clock and crashes |
| `MCLoginThrottle` | its small instances |
| `ThrottleProofs` | the proofs about `LoginThrottle` |
| `AuthCache` | authentication with the user cached in Redis, the access-control use cases, and the evictions between them |
| `MCAuthCache` | its small instances: a superuser, and `bob`, who holds a role with `users.manage` |
| `AuthCacheProofs` | the proofs about `AuthCache` |
| `Browser` | one browser's cookies against the sessions behind them, with the CSRF and the visitor middleware |
| `MCBrowser` | its small instance |
| `BrowserProofs` | the proofs about `Browser` |
| `Gateway` | a request's way through the gateway, over the pool and the jar all requests share |
| `MCGateway` | its small instances: session `s1` is open, `s2` is the one a login opens |
| `GatewayProofs` | the proofs about `Gateway` |

### Accounts

Each member of `Requests` is one HTTP request. `Script` gives, for every
endpoint, the sequence of statements its use case executes, and `pc[r]` the next
one; each statement is an action of that name (`AuthSession`, `ReadToken`,
`UpdateRow`, `RevokeAll`, `Commit`, ...). So the interleaving of requests is that
of their statements, which is what PostgreSQL and asyncio allow.

* `users`, `sessions`, `tokens`, `audit` are the committed tables. `write`,
  `rev` and `spend` are what a running transaction has written and not yet
  committed; they are also the rows it has locked. `Commit` makes them, and the
  rows the use case inserts, visible; `Discard` throws them away.
* `Conflict(r, s)` says that the next statement of `r` has to wait for a lock of
  `s`: on a row (or an entry of the unique index on `users.email`) that `s` has
  written, or through a foreign key. A session, link or audit row references its
  account, so its INSERT locks the account `FOR KEY SHARE` (`InsertsRow`); that
  waits only for an UPDATE that changes a unique column (`ChangesKey`). The
  INSERTs are part of `Commit`: they are the last statements that can wait, and
  they hold nothing anybody waits for. Its re-check afterwards is the evaluation of its condition on
  the rows then committed. An `UPDATE` of many rows is two actions: `ScanX`
  takes the snapshot, `X` updates the rows that still match.
* `snap` is the entity a use case holds, `base` the row the ORM compares it with
  when `UserRepository.update` assigns its columns. `Reload` is the
  `session.get` in front of that: the object read earlier is only weakly
  referenced by the identity map, so the row is normally fetched again, but may
  still be the one read before. Both happen in the model. An update that changes
  no column of the model may or may not send an UPDATE (`Emits`), because
  `display_name` and `username` may differ.
* A session's `age` counts two deadlines (access token, refresh token and row).
* Ghost data, used by properties only: `cred` of a session, `to` of a link, and
  `openAt`, `unusedAt`, `liveAt`, which remember what a request met on arrival.
* Left out: user names and display names (a user name is a unique column like the
  address, and a change of it takes the same locks), the type of a token (a call
  carries the access or refresh token it should), the order in which one
  `UPDATE` locks its several rows, the cache (this is the configuration without `REDIS_URL`), the rate
  limits (a refused request never starts) and the role a registration assigns.

### CredentialStore

What remains of `Accounts` for somebody who sees only `sessions`, `tokens` and
the mail box: `Login`, `Rotate`, `End`, `Issue` and `Mail`, each of which
concerns one account. `StoreSpec` of `Accounts` is this specification under the
mapping that forgets the columns used by properties only and the age of a row.
That the detailed specification implements it says that staged writes never
show, that a commit does everything or nothing, touches no other account, reuses
no name and revives nothing. It does not say that a rotation ends the session it
was given (`Rotate` allows that it had ended before), because the code does not
guarantee it.

### RateLimiter and LoginThrottle

`backend` is chosen at the start, by `REDIS_URL`: Redis or the in-process dict. A
counter is a count and the time it has left; -1 stands for a Redis key without
deadline. A Redis hit is two steps, INCR with TTL and, for a key without
deadline, EXPIRE (`owes[w]` is the key a worker has still to give one); a hit in
memory is one step. Workers serve one request after the other for ever. The
counts are capped at `MaxCount`, above which no comparison with a limit changes.
`guesses` and `granted` are history: wrong passwords checked, and calls let
through, since the counter was last cleared.

### AuthCache

A worker goes through the steps of one request after the other: session from
the database, `cache.get`, on a miss the three SELECTs of `users.get_by_id` (row,
roles, permissions; `lazy="selectin"`) and `cache.set`, the permission check, and
then the lookups, the write, the commit and, for the use cases of `EvictOps`, the
`cache.delete`. The tables are `active` and `sess`, `role`, `perms`, and the
links `held` and `grants`; foreign keys, unique names and the locks behind them
are in `Violates` and `Collide`; two of the three roles of the instance have the
same name, so that two creations race for it. `clean` is a ghost: whether a
change of the account was committed while it was being loaded. A login has a
session id (`uuid4`), and `create_role` a role id (a sequence), that nobody else
has (`SameId`). Requests that cannot be told apart by the state they leave (401,
403, 404, 409, 500) all end in `Refused`.
Login, logout, ban and unban are one write and one commit here; their statements
are in `Accounts`. The re-reading of a role after the commit only shapes the
answer and is left out, and so are the profile columns of the cached user. Of the
use cases that write an account, `delete_me` and the ones that change a profile
are left out too; `is_active` is changed by the first and can be by the others,
which write a stale value back. All of them evict after their commit like a ban,
which stands for them here.

### Browser

A page composes a request (`Compose` reads the CSRF cookie), the browser sends it
(`Send` attaches the cookies it has then), the service answers it, and the answer
is applied when it arrives (`Deliver`) or is lost (`Fail`). Any number of
requests are under way together. The service is `VisitorMiddleware` around
`CsrfMiddleware` around the endpoints that set or clear cookies (`login`,
`refresh`, `logout`, and `sign_out` for password change, account deletion and log
out everywhere) and one that does neither (`write`). `refresh` is two steps,
because another request may come between its check and its write. Time is in
seconds: `_max_age` truncates, and the three lifetimes of a response are computed
one after the other, up to `MaxDelay` seconds apart (`Opens`). `signedOut`,
`excused`, `firsts` and `mishap` are history: what a property has to except.
`read` and `register` are there but not in the instance; they differ from
`write` in the CSRF check and the status code only.

### Gateway

`proxy` matches the route and strips the headers a client may not send; `resolve`
asks `/auth/me` where the route wants an identity, `forward` sends the request on
with what was resolved. Both first need a connection from the pool of `MaxPool`.
A lookup that fails or times out leaves the caller anonymous (`LookupFails`).
While the body of a request is underway (`uploading`) the gateway waits for its
client, without a limit, and for the upstream; an upstream that needs no body may
serve the request `early`, but its answer is read only after the body
(`UploadEnds`). The upload can break off at either side (`UploadFails`,
`UploadStops`). Once it is out, an upstream that does not answer in time ends the
request with 502 or 504 (`Fails`). An upstream that was given up on may still
serve a request it has got what it needs of (`ServeLate`). A connection is released when the response is
closed. `jar` is what httpx remembers of Set-Cookie headers; whether it hands it
out again over plain HTTP depends on `COOKIE_SECURE`. users_service answers in one
step; sessions may also be revoked by others at any time (`Revoke`).

## 3. Runs

Passing runs:

| Run | Instance | Shows |
|---|---|---|
| `accounts_concurrent` | 11 endpoints that write sessions, links and accounts, 3 requests, 2 at a time | `SignOutComplete`, `OldLinksSpent`, `CredentialConsumed`, `SpentForever`, `PasswordNotClobbered`, `ReactivationExplained`, `UnsoundSessionExplained`, `UnprovenAddressExplained`, `DeadlocksExplained`, `StoreSpec`, `TypeOK` |
| `accounts_serial` | all endpoints, 3 requests one after the other, a session ages at any time | promises of the documentation: `SessionsMatchPassword`, `InactiveSignedOut`, `LogoutRevokes` |
| `accounts_progress` | all 16 endpoints, 2 requests at a time, a crash at any statement, a link that expires at any time, fairness | `EffectsAudited`, `DeadCredentialStaysOut`, `EveryRequestEnds` |
| `throttle` | 2 workers, both back ends, crashes of the in-process one, login with its limits per account and per client address, forgot-password with its limit per mailbox and the one per address switched off, fairness | `GuessesBounded`, `GateHolds`, `NoImmortalCounter`, `LockoutEnds`, `TypeOK` |
| `cache_access` | 2 workers, 2 requests that may write among any number that only read, crashes, fairness | `SessionEndsAccess`, `StaleOnlyByLateSet`, `NoOrphanLinks`, `NamesUnique`, `RevokedEventuallyGone`, `TypeOK` |
| `browser` | 3 requests of one browser, signed in or not, answers late, lost and out of order, time passing | `CsrfCoversAuth`, `RefusedOnlyIfRotated`, `SignedOutStays`, `HeldIsLive`, `VisitorKept`, `TypeOK` |
| `gateway` | 2 requests, a pool of one connection, the content service deployed or not, Secure cookies, fairness | `AnnouncedIsCaller`, `RevokedNotAnnounced`, `LiveCallerAnnounced`, `NoLeak`, `RequestEnds`, `TypeOK` |

**Bounds.** The races of this code are between two transactions over one
account, so two requests at a time meet all of them; the third request of an
instance comes before or after (a login whose session is then rotated, a link
that is then used). One account with a session and both links is enough because every
statement is confined to one account, except the address lookup, for which
there is a second account and a third address. A logout, whose statements are
those of one revoked session and an audit row, is left to `accounts_serial` and to
`accounts_progress`, where it meets every other endpoint. Requests are interchangeable, so
their permutations are a symmetry; the liveness runs do without it. Every limit of
`throttle` is one: two workers then meet at the limit, on either counter of a
login and at the gate; `throttle_immortal` has two, and the theorems have any.
The window of a counter and the life of a cache entry are two ticks, so that a hit can fall
into the middle of one. Two writing requests are what a stale entry takes (one
that is missed, one that hides or repeats it), and what a deletion and a
re-creation, or a ban and an unban, take. Three requests of a browser are a
refresh, a sign-out and the login or write that meets what they leave; an access
token of two seconds and a refresh token of four, with cookies up to one second
late, let each cookie expire before, with and after the others. A pool of one
connection makes the second request of the gateway wait for the first one.

**Fairness.** `FairSpec` of `Accounts` assumes that a request whose statement can
run eventually runs it (the event loop and the database serve everybody) and
that PostgreSQL's deadlock detector ends a cycle. Nothing is assumed of clients,
crashes or expiry. `FairSpec` of `LoginThrottle` and of `AuthCache` assume the
same of workers, and that time passes. `FairSpec` of `Gateway` assumes that the
event loop runs a started handler and that httpx's timeouts end its waits for the
pool, for the answer to a lookup and for the answer to a request that is out in
full. The upstreams owe nobody an answer. Nothing is assumed of a client: no
timeout covers `_body_stream`, so one that stalls its upload, or the reading of
its answer, keeps its handler and a connection. `RequestEnds` excepts that client
and says that nobody else waits for it without end. httpx counts its timeouts
per read: an upstream that keeps sending a byte in time would prolong them, which
the model leaves out.

**Runs that end in a violation.** What the documentation promises fails when two
requests overlap or a process dies. Each of these runs finds the shortest such behaviour:

| Run | What happens |
|---|---|
| `accounts_refresh_twice` | two refreshes check the session before either revokes it; both issue a new one |
| `accounts_ban_undone` | a profile update writes back `is_active` as it was before the ban |
| `cache_late_set` | a request loads the user, a role is taken away and the entry deleted, the request stores what it loaded |
| `throttle_immortal` | the process dies between INCR and EXPIRE; the lockout never ends |
| `gateway_shared_jar` | without Secure cookies the shared client adds the cookie of the last login to the lookup of a request that has none, which is announced as that user |

Other promises give way under overlap too. What holds then is stated as a
property of its own, which lists the ways in which a promise can fail; each of
them does occur in `accounts_concurrent`, and nothing else does.

* A refresh token, or a link, may be accepted twice; but one that was exchanged,
  or took effect, is dead from then on (`CredentialConsumed`).
* `SessionsMatchPassword` and `InactiveSignedOut` hold one request at a time.
  With overlap a session outlives its password or its account if it was opened
  after the change or the ban arrived, if its login or refresh read what then
  changed, or if a profile update writes a stale inactive flag back
  (`UnsoundSessionExplained`; what a sign-out does reach is `SignOutComplete`).
* An address counts as verified that nobody has proven if a verification goes on
  with a link that was spent after it was looked up, if two profile updates
  overlap and the link of one comes to stand beside the address of the other, or
  if a write sends the address of one read beside the flag of another
  (`UnprovenAddressExplained`). `Shown` says what proves an address: it belongs to
  an account seeded as verified, or a verification with a link mailed to it was
  committed.
* A ban that is undone is never anything but the write of an entity read before
  it (`ReactivationExplained`).
* Transactions deadlock, and one is aborted, in three ways
  (`DeadlocksExplained`): a verification locks its link and then the account, a
  profile update the account and then the links; a profile update that changes
  the address meets one that sends no UPDATE, locks the links and then inserts
  one that references the account; and a ban or deletion that writes a stale
  address back has the account locked against such references when it comes to
  the sessions a refresh, a logout or another sign-out has revoked.

Overlap also lets two requests for a link leave two live ones, two bans both be
recorded, and the second of two registrations of one address end in a 500.
`LogoutRevokes` excepts the access token that expires between authentication and
its second decoding: the answer is 204 and the session stays open.

Most of them disappear if the row is locked when it is read (`SELECT ... FOR
UPDATE`) or if the number of rows an `UPDATE` matched is looked at.

Every property also has a mutant in `PROJECT.json`: a small fault in a definition
that models code, under which TLC finds the property violated.

## 4. Proofs

Every invariant and action property of the passing runs is proved, except the two
that only hold one request at a time, and so is the refinement: for any sets of requests, workers, accounts, sessions, links, roles
and keys, any limits and lifetimes, and any number of requests at a time. Where
the theorem has a hypothesis on the behaviour it is named below, together with
the run that shows why it cannot be dropped.
Each proof module states its inductive invariant first. The invariants were
checked by TLC on the instances of section 3 before they were proved. A step of
Next is treated in two stages: an effect lemma says what it does to the state in
terms of the invariant, and a frame lemma (`Others`, `OtherShapes`, ...) that it
leaves the other requests alone; what remains is one case per action.

**`AccountsProofs`**

* `TypeCorrect`: `Spec => []TypeOK`. One lemma per statement. `TypeOK` alone is
  not inductive, because `jti(r)` and `call[r].tok` may be `None`; `TypeInv`
  adds that a request in flight presented a session or link that exists.
* `RevocationIsFinal`: `Spec => SpentForever`. A commit could revive a row only
  by inserting over it. `RowInv` excludes that: what a request mints is unused
  until it commits, what it has staged exists, and only links that exist were
  mailed.
* `DeadCredentialsRefused`: `Spec => []DeadCredentialStaysOut`. `DeadInv` says
  that the credential a request arrived with is dead in a way that lasts, and
  that the request is still at its first statement. It rests on three facts:
  dead credentials stay dead (`DeadForever`), the first statement of every
  endpoint that takes a credential is its check (`FirstStatement`), and that
  check fails (`DeadStep`).

**`AccountsLocks`**: `SignOutIsComplete`, `OldLinksAreSpent`,
`LogoutEndsSession` and `ImplementsStore`. All four come from `LockInv`. Two
transactions never hold the same session or link (`RowLocks`); the rows one holds
are still as it found them and belong to its account (`Holds`); and each of the
rows it has to end is in its snapshot before the `UPDATE`, locked by it after, or
ended by another transaction that committed in between (`Covers`,
`CoversLinks`). That last clause is where an `UPDATE` that re-checks its
condition after a wait is needed. `LogoutRevokes`, which is checked only one
request at a time, turns out to hold under overlap too. For the refinement, a
`Commit` of each endpoint is one of the five steps of `CredentialStore`, `Send`
is `Mail`, and every other statement is a stutter because it only stages.

**`AccountsRows`**: `PasswordsNotClobbered`, `ReactivationsExplained` and
`CommitsAreAudited`, from `UserInv`. `UserRepository.update` writes a whole entity
but the ORM only sends the columns that differ from the row fetched last, and the
row is locked from that write to the commit. `Version` says which columns a
staged version may differ in and why: the hash only for the use cases that set a
password, `is_active`, the address and its verified stamp only if the entity and
the row it was compared with differ in them.
`Backed` ties rows to audit rows.

**`AccountsSchedules`**

* `DeadlocksAreKnown`: `Spec => []DeadlocksExplained`. `HoldInv` says that a
  transaction holds a kind of lock only if a statement that takes it is behind
  it in its script. `LockOrder` says of the scripts that accounts are locked
  before links and links before sessions, with the reference of an INSERT last.
  Exceptions are `verify_email`, which spends its link before it updates the
  account, and the transactions that come to their INSERT without having written
  the account; `WhoChangesKey` says whose lock such an INSERT can meet.
* `DeadlocksArePairs`: `Spec => []EveryDeadlockHasPair`. In any set of
  transactions of which each waits for another of the set, two wait for each
  other. So nothing is lost when `DeadlockVictim`, which stands for PostgreSQL's
  detector, looks at pairs only. `RankIncreases` is the argument: give a waiting
  transaction a rank by what it waits for and whether it has written its
  account row; then along every wait the rank increases, unless the two are a
  pair of `OppositeOrder`.
* `CredentialsAreConsumed`: `Spec => []CredentialConsumed`. The property is not
  inductive: `UseInv` adds that a transaction past its `mark_used` has the link
  in its hands or finds it used, and `LockInv` says the same of the session a
  rotation revokes.
* `UnsoundSessionsExplained`: `Spec => UnsoundSessionExplained`. Only a commit can
  make a session unsound (`OnlyCommitUnsettles`): one that writes the account, of
  which `WriterOps` says who it is and `Version` what it writes, or one that
  opens the session. A sign-out leaves none of the sessions that were open when
  it arrived (`SignOutLeavesNone`, from `LockInv`).
* `UnprovenAddressesExplained`: `Spec => UnprovenAddressExplained`. The commit of
  a verification that spends its own link stamps the address the link was mailed
  to, unless an update issued the link (`VerifiesItsAddress`). That needs
  `LinkInv`: as long as such a link is unused, its account has the address it was
  mailed to, and so has every entity loaded from it, except in a request that is
  changing the address and will then spend the link, which was there before it
  arrived. `IssueInv` says which requests issue links. Every other commit leaves
  what it found or is one of the writes the property names.

None of them has a hypothesis on the schedule. TLC checked `HoldInv`, `UseInv`,
`IssueInv` and `LinkInv` with two requests in flight.

**`GatewayProofs`**: `GatewayTypes`, `ConnectionsReturned`,
`RevokedStaysUnnamed`, from `GatewayInv`, whose part `Logins` (one login opens a
session, and is served once, even if it is served late) is what keeps a revoked
session from coming back. The two ways a body ends, or is broken off, are one
lemma (`BodyMoves`). `CallerIsNamed` and `LiveCallerIsNamed` have the
hypothesis `Secure`, that the cookies are marked Secure, and come from
`NamesInv`; `gateway_shared_jar` shows that the first is false without it.

**`ThrottleProofs`**: `ThrottleTypes`, `GatesHold` and, under the hypothesis
`NoRedisCrash` that no process dies between two round trips to Redis,
`CountersExpire` and `GuessesAreBounded`; `throttle_immortal` shows that the
former is false without it. The bound on guesses comes from `Budget`: while a
counter is below its limit every guess was counted or is about to be charged;
when it is at the limit, the guesses and the workers still past the guard are
together within the bound. Since the worker that brought the counter to its limit
is not past the guard any more, at most all the others are.

**`AuthCacheProofs`**: `AccessTypes`, `RevokedIsShutOut`, `LinksAreWhole`,
`RoleNamesUnique` and `StaleOnlyByRace`, as parts of `AccessInv`. What a
transaction has looked up or inserted holds until it commits, because those that
would change it wait (`Holds`, `Separate`), and a view that is being loaded
agrees with the tables on what it has loaded until one of them changes (`Fits`).

**`BrowserProofs`**: `BrowserTypes`, `CsrfIsThere` and `RefusalsExcused` come from
`JarInv`, which relates the lifetimes of the three cookies in the jar and in every
answer on its way: the access cookie never outlives the CSRF cookie, the refresh
cookie by at most `MaxDelay`. The other three have an invariant each that says
what the requests under way may still bring: `CookiesAreLive` (`LiveInv`: one
request at a time may change the cookies, and its session is open),
`SignOutLasts` (`SignedOutInv`: no cookie, request or answer leads to an open
session) and `VisitorIsKept` (`VisitorInv`: one request brings the id, the others
have it).

**Assumptions.** The proofs use the named assumptions on constants of the
modules, which TLC evaluates in every run:

* names of different kinds differ, in particular from `None` (`NamesAssumption`,
  parts of the others);
* the seeds form consistent tables (`SeedAssumption`, `OwnerAssumption`);
* calls are well-formed: they name the account, role or permission their URL or
  body must name (`CallsAssumption`, `CallAssumption`), and a login draws a
  session nobody has (`GatewayAssumption`);
* there are finitely many requests or workers, and at least one worker;
* a refresh token outlives an access token by the delay in writing cookies
  (`BrowserAssumption`; 30 days against 15 minutes by default).

**Only model-checked.**

* `EveryRequestEnds`, `LockoutEnds`, `RevokedEventuallyGone` and `RequestEnds`:
  liveness under fairness is beyond the prover.
* `SessionsMatchPassword` and `InactiveSignedOut`, with one request at a time.
  Under overlap they are false; what is proved is `UnsoundSessionExplained`.

## 5. Open

* The three SELECTs behind one user can be torn, so that a role taken away
  before a permission is added to it makes up a permission the account never
  had. `RevokedEventuallyGone` says that it does not stay; a property that says
  when it appears at all needs the history of the links.

## 6. Not modelled

* The read-only use cases (list sessions, profile, roles, permissions, users):
  one SELECT each, which changes nothing.
* Configuration, dependency injection, start-up, seeding and migrations: they run
  once, before the first request, and what they produce appears as constants.
* Cryptography, JSON and cookie encoding, SMTP and SQL generation: libraries or
  I/O, modelled by what they guarantee.
* User names and display names: unique columns without further behaviour, which
  are handled like the address.
