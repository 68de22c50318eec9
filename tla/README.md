# A verification project for nestjs-template-own

TLA+ modules, TLC configurations and TLAPS proofs for a NestJS server with
PostgreSQL (through Prisma), a Redis cache and Redis queues. Paths below are
relative to the repository; line numbers are of the modelled commit.

## 1. The system

| component | code | state it keeps | operations |
|---|---|---|---|
| Sessions | `src/api/auth/auth.service.ts`, `auth.controller.ts` | JWTs held by clients, the cookie `andy-rft`, the cache entries `<id>:blacklist:accessToken:<ms>` | login, refresh, logout |
| Guards | `src/api/auth/guards/*.ts` | none of their own; `request['user']` is a snapshot of the user | AccessTokenGuard, RefreshTokenGuard, RoleGuard |
| Token lifetimes | `convertToSeconds` in `auth.service.ts`, `src/config/configuration.ts` | none | the ttl of a blacklist entry, the `exp` of a token |
| Accounts | `validateSignup` in `auth.service.ts`, `createUser` in `src/api/user/*.ts` | tables `users`, `user_roles`, with unique indexes on email and on username | `POST /auth/register`, `POST /user/create_user` |
| Job queue | `src/queue_manager/queue.service.ts`, `queue.processor.ts` | the queue in Redis: where each job is, its lock, its stalls; the job the worker runs | `addJob`, the worker of `QUEUE_MANAGER`, its check for stalled jobs |
| Seeder | `prisma/seeder/seed.ts` | tables of settings, roles, statuses, providers, users, user_roles | `main()`, run by hand, possibly again |
| Exception filter | `src/libs/HttpExceptionFilter.ts` | none | the status of an error answer |
| File upload | `src/api/user/user.controller.ts`, `src/queue_manager/queue.controller.ts` | files in `./uploads`, sends under way, objects in a bucket | `POST /user/upload`, `POST /file-upload/uploadFile`, `GET /user/files` |
| Request storage | `src/libs/RequestStorage.ts` | an `AsyncLocalStorage` | transaction depth; imported by nothing |
| Others | settings, dashboard, gateway, `src/redis-cache`, `src/main.ts`, `src/app.module.ts` | none that matters | single reads, an echo, stubs, wiring |

How they interact: a request of a guarded route passes AccessTokenGuard (JWT, then
the user's blacklist keys one by one in the cache, then the user in the database),
RoleGuard where the route has one, and its handler. Logout writes the cache
entries that the guard reads. `createUser` writes two tables, emits an event whose
listener only logs, and adds a job without waiting for it; the worker that runs
the job lives in the same process, so whatever ends the process interrupts it, one
refused `create_user` included (section 6). An upload is stored on disk by multer
before its handler sees it, and sent to the bucket after its handler has answered.
Signup and `createUser` write the same table, and the seeder writes the rows that
both depend on (the roles, and the status with id 1).

What is hard. Every `await` lets other requests run. The guard reads the cache key
by key and the database afterwards. Signup and `createUser` look and insert apart.
A call may take effect and its reply be lost; the process may end between any two
awaits; only the database, the cache and the queue survive it. The lifetime of a
blacklist entry and of its token are computed by two parsers. A job may lose its
lock while its run goes on. The sends of an upload are promises that nobody holds:
they outlive their request, and a rejected one ends the process, with the
requests, jobs and sends of everybody else. The hazards are listed in
`PROJECT.json`, each with the properties that cover it.

What makes each component correct:

- Sessions and guards: a logged-out token is refused until it expires; a request
  is admitted only with an account that had the standing asked for; it is refused
  only for a cause; every request ends.
- Lifetimes: an entry never ends before its token.
- Accounts: names are unique; "created" is said of users that are there, with
  their role; a refusal is true; the job of a created user gets to the queue.
- Job queue: every job ends; it is started once, and once more for each stall; only
  a run that kept its lock to its end completes it; it fails only for its own
  interruptions.
- File upload: what was refused is not sent; what was answered is sent, to the
  last file; what is on disk belongs to a form that was neither over the limit nor
  failed.
- Seeder: it can be run again; only the default user becomes an admin; whoever
  signs up has the status that the guards ask for.

## 2. Modules

| module | what it is |
|---|---|
| `TokenLifetime` | a lifetime string, `convertToSeconds`, and how jsonwebtoken reads the same string |
| `Sessions` | login, refresh, guards and logout, with their properties |
| `SessionsInvariant` | the inductive invariant `IInv` |
| `AccessControl` | abstract: tokens and accounts decided on without cache, clock, loop or snapshot |
| `SessionsAccess` | the refinement mapping by which `Sessions` implements `AccessControl` |
| `SessionsProofs`, `SessionsInvariantProofs`, `SessionsAccessProofs` | the proofs of `Sessions` |
| `UserDirectory` | abstract: names are claimed in one step and for good |
| `Accounts` | signup and `createUser`; implements `UserDirectory` |
| `AccountsProofs`, `AccountsSafetyProofs` | the proofs of `Accounts` |
| `Jobs` | the queue and its worker, composed with `Accounts` |
| `JobsProofs` | the proofs of `Jobs` |
| `Outbox` | abstract: a form is accepted as a whole, and each file delivered or lost once |
| `Uploads` | the two upload routes, from the parts of a form to the bucket; implements `Outbox` |
| `UploadsProofs` | the proofs of `Uploads` |
| `Seeder` | `main()` of the seeder, with reruns and signups beside it |
| `SeederProofs` | the proofs of `Seeder` |
| `MCSessions`, `MCAccounts` | instances for TLC; the other configurations need none |

A definition named `Faulty...` is its neighbour with a plausible bug. Nothing uses
it; it documents what a property would catch.

### Sessions

An action is the code between two awaits on the database, the cache or bcrypt.
`req[r].pc` says which await request `r` waits at; its other fields are the local
variables of guard and handler.

| pc | waits for | code |
|---|---|---|
| find, compare | `findFirst`, `bcrypt.compare` | `validateLogin` |
| cookie, cookieUser | `verifyAsync`, `findFirst` | RefreshTokenGuard |
| refreshUser, body | `findFirst`, `verifyAsync` | `refreshToken` |
| verify, keys, get, user | `verifyAsync`, `store.keys`, `cacheManager.get` of each key, `findFirst` | AccessTokenGuard |
| role, serve | nothing | RoleGuard, the handler |
| logoutUser, set, return | `findFirst`, `cacheManager.set` | `logout` |
| sign | `signAsync` twice | `getTokensData` and the reply |

Abstractions:

- Time is counted in ticks, `TicksPerSecond` of them where the code has 1000
  milliseconds. `iat` and `exp` are whole seconds, keys of the cache are ticks:
  the two grains of the code. Server and cache share one clock.
- A token is `[user, iat]`, for `generateToken` signs nothing else. One record
  stands for the access and the refresh token that `getTokensData` signs together.
  Both being signed in one second, and the reply following at once, is an
  abstraction: `Sign` is one action.
- The cache is external: it keeps an entry for the ttl that `set` was given, in
  milliseconds, and drops it afterwards. A store that kept entries for longer
  would keep every property here except that it holds more keys. The installed
  `cache-manager-redis-store` may be such a store, or one that falls back on a
  default of its own: its 2.x releases look for `{ ttl }` and ignore a number. What
  is said of blacklist entries holds for a store that honours the ttl it is given.
- A password is right or wrong, nondeterministically. The age of the cookie in the
  browser is not modelled: clients present any refresh token they were given. Nor
  do clients forge tokens.
- The status of an account is edited by operators (`OperatorEdit`), because no
  route does it. Statuses other than "active" behave alike: one stands for all.
- A signup hands out tokens and a cookie as well: what it does to this state is an
  `OperatorEdit` that adds an active user, followed by a login.
- `BackendFails` is an error of the database or the cache under any call, with the
  call of `set` done or not; `Crash` drops all requests.

History variables: `written` (entries ever stored), `revoked` (those whose logout
was answered) and `seen[r]` (what held while `r` was in flight). They are read by
the properties and by no guard.

`AccessControl` is what all routes promise together. A request comes to a desk
with its papers (the tokens it has to show). It shows each of them once, when it
is valid (`Show`); it is cleared once, when its account is entitled to the route
and no logout of its token was answered before it came (`Clear`); only then is it
granted (`Grant`), or its logout recorded (`Record`). It may be refused at any
time. There are no blacklist entries with a ttl, no keys to loop over and no
snapshot to go stale. `SessionsAccess` maps `written` to the logouts on record and
`revoked` to those answered, `valid` to the tokens that `Live` and `LiveRefresh`
accept, and each request's `pc` and fields to its desk. The moment of `Clear` is
the `findFirst` of the account: what the loop of AccessTokenGuard has left unsaid
by then must be true at that moment, and RoleGuard, which looks at the snapshot
later, must find what was decided there. The one exception the abstract server
makes is the one of the code: a record taken over by another token's logout in the
same millisecond (`TakenOver`). The clause of `Clear` on logouts speaks of tokens
that are valid at that moment; one that expires meanwhile may pass, in the model
as in the code, because it was verified before.

### Accounts

`ask[r]` is what request `r` asks for, fixed at first; a retry is another request.
Its row has `r` as its uuid. Register: find, hash, insert, sign. `createUser`:
hash, look, create, and the job goes to `adding` (on its way) and from there to
`jobs`. `CallFails` fails a call with its effect done or not. `NoStatus` is the
undefined status of an exception made of a database error: the filter hands it on
to express, which throws inside the filter, nothing catches that, and node ends
the process (`AnswerWithoutStatus` drops the others too). Left out: names that a
body lacks (the columns allow NULL) and the event listener (it only logs).

`UserDirectory` is what both promise. The refinement maps `users` to `rows` and
the answers to outcomes (201 created, 400 taken, 422 and no status unable), and
hides hashes, looks, jobs and failures. "Unable" promises nothing: the code does
not keep more than that (see the run `accounts_unable`).

### Jobs

`Jobs` EXTENDS `Accounts`: `Serve`, `Enqueue` and `ProcessEnds` are the steps of
Accounts with what they mean for the queue, the others are the worker's and leave
Accounts alone. A job is known by the request that adds it.

| step | code |
|---|---|
| `Enqueue` | `addJob` reaches Redis, with `delay` 9000 |
| `Due`, `Take` | the delay is over; the worker, which asks for no concurrency, takes a job when it has none |
| `Begin`, `Finish` | the two timers of `process`, and its return |
| `LoseLock`, `Stalled` | the lock is not renewed in time; the library's check for jobs without a lock |

bullmq is external, and only its contract is used: an active job is locked by its
worker and renewed; one without a lock is put back at most `MaxStalledCount` times
(1, the library's default, since the code sets none) and then fails; `attempts`
counts exceptions of `process`, which throws none, and so plays no part; a run
without its lock cannot complete a job. Which waiting job is taken is left open,
so that nothing here rests on the order of the queue. The payload is left out.

An interruption of a job is the loss of its lock: by itself (`LoseLock`), or with
the process (`LoseWorker`), which ends in a crash or on an exception without a
status. A 422, or a failed call that ends in one, interrupts nothing. Three
history variables count for each job, and are read by properties alone: `takes`
(by the worker), `starts` (`Begin`) and `interrupted`. They add no state: in every
reachable state, `interrupted` and `takes` follow from stalls, stage and lock.

### Uploads

A file is the pair of its request and its place in the form, since its name on
disk and in the bucket is made of 32 random digits, which are taken to be unique.
The actions follow multer first: parts are stored in any order (`StoreFile`); when
there are too many, or when one cannot be stored, all that were stored are removed
(`TooMany`, `StoreFails`); `disk` has whole files only, and what multer leaves of
the one whose storing failed is not among them. Then the handlers: `Upload` is `ParseFilePipe` and the
`forEach`, each of whose callbacks runs up to its await, so that all sends are
under way when it answers; a refusal of the pipe leaves the files on disk.
`UploadCsv` is the handler of the queue controller, which sends nothing.
`SendDone` and `SendFails` end a send; a rejected one is caught by nobody (the
`try` of the handler is over) and ends the process, as `Crash` does. multer and
the bucket are external. diskStorage gives a file no `buffer`, which is what the
handler sends: an object of the bucket is its key alone, and no property speaks of
its contents. `GET /user/files` signs a URL for a fixed key, keeps no state and is
left out, as are the guards (Sessions has them).

`Outbox` is what the routes promise: the order of a request is accepted in one
step with all its files, the step that answers 201; each file is then delivered,
or lost when the sender stops, once and for good. `Box` maps the files under way
to those waiting, the bucket to those delivered, and forgets disk and parts.

### Seeder

One action per await of `main()`. `BreaksOff` ends a run at any call, whose effect
is done, not done, or undone: a failed insert of statuses draws ids from a
sequence that does not give them back. Since only the id 1 matters (the default of
`users.statusId`), the model keeps one bit, `drawn`, in place of ids, which lets
runs be repeated without bound. The database is migrated and empty at first, and
nobody edits these tables by hand.

## 3. Runs

| run | instance | shows |
|---|---|---|
| `sessions_revocation` | 1 user, 2 requests at a time, 5 arrivals, 2 ticks a second, 2 s tokens, 4 ticks | blacklist and guard, with crashes |
| `sessions_authorization` | 1 user, 2 requests, 3 arrivals, 2 edits, 1 failing call | guards against edits and failures; refresh; `AccessControl` is implemented |
| `sessions_liveness` | 1 user, 2 requests, 4 arrivals; lifetimes 1, 5 and 60 of 11 units | every request ends, and no step of it goes back; an entry is kept long enough for exactly the units in `CoveredUnits`: with `1y`, `12H` or `5 minutes` it is not |
| `accounts_safety` | 3 requests, 2 usernames, 2 emails, a known and an unknown role, 2 failures | names, roles, refusals, the queue of created users, refinement of the directory |
| `jobs` | 2 requests, 2 failures, 2 lost locks, 1 stall allowed | the job gets to the queue and ends there; how often it runs, which run completes it, and why it may fail |
| `uploads` | 2 forms of up to 3 files of 2 kinds, limit 2, 2 failures | what is left on disk, what is sent, and that all of it is; `Outbox` is implemented |
| `seeder` | 2 names, 6 statuses, 3 broken runs | reruns beside signups, and when they can no longer help |
| `refresh_after_logout`, `login_after_logout`, `accounts_unable`, `accounts_status`, `seeder_roles` | 1 or 2 requests | the five disagreements of section 6 |

The bounds. One user is enough for Sessions: keys, tokens and rows of different
users never meet, and the proofs cover any number. Two requests at a time
interleave a guard with a logout; five arrivals are two logins, two logouts of
different tokens in the same or in different ticks, and the request that is
checked. Two ticks a second make two keys with one token and one key with two
tokens; four ticks let a token and its entry end while a guard runs. `MaxTime`,
`MaxArrivals`, `MaxEdits` and `MaxFailures` are in the guards of the actions they
bound and nowhere else. In Accounts, two requests collide with a third on one name
each; requests, usernames and emails are interchangeable, hence the symmetry
(safety runs only). In Jobs, one job can stall twice and fail while the other is
completed, and a run can go on under a job that was put back; `MaxLosses` bounds
lost locks. In Uploads, a form of three files is over the limit of two, one of two
can mix kinds, and two failures end the process under the sends of one form and
the stores of another; `MaxFiles` bounds a form. The limits 4 (`upload`) and 1
(`uploadFile`) are `ImageLimit` and the 1 in `Limit`; the proofs cover any
`ImageLimit`. `CHECK_DEADLOCK FALSE` stands in the runs of Accounts, Jobs and
Uploads, where everything ends and nothing is left to do.

Fairness. `Sessions!FairSpec` is weak fairness of `Handle(r)` for each request:
node's event loop resumes a handler once its await has returned, and the calls
return, with an error if need be. It assumes nothing of clients, operators, the
clock or crashes. `Accounts!FairSpec` adds the same for the pending `add`.
`Jobs!FairJobsSpec` is fair to the worker too: its timers run out (`Run`), and
delays end, waiting jobs are taken and stalled ones are found (`Line(r)`). That
includes that the process is started again when it has ended, by whatever
supervises it; without that no job would end, and no code of the repository could
help it. Locks are lost only so often as the bound allows, since a lock lost each
time is a failed job and not a missing one. `Uploads!FairSpec` has files written,
handlers run and sends end, with success or in the end of the process.
`Seeder!FairSpec` has a run going on and somebody starting it again, which is the
most that could help the property the run refutes.

## 4. Proofs

For any users, requests, names, roles, bounds and lifetimes TLAPS checks the
theorems below. A theorem marked * has one hypothesis more: the unit of the access
lifetime is one of `CoveredUnits`, those that `convertToSeconds` and jsonwebtoken
read alike. (The default of `configuration.ts` is.) `UnitDecides` says that it is needed.

| theorem | says |
|---|---|
| `SessionsProofs!TypeCorrect` | `Spec => []TypeOK` |
| `SessionsInvariantProofs!LogoutKept` * | `Spec => []LogoutKeptUntilExpiry` |
| `SessionsInvariantProofs!RevokedNotServed` * | `Spec => []RevokedNeverServed` |
| `SessionsInvariantProofs!AdmittedRightly` | `Spec => []AdmittedAsSeen` |
| `SessionsAccessProofs!RefusalsHaveCause` | `Spec => RefusedOnlyForCause` |
| `SessionsAccessProofs!AccessImplemented` * | `Spec => ImplementsAccess` |
| `SessionsProofs!StepsLeadOn` | `Spec => StepsAdvance` |
| `SessionsProofs!UnitDecides` | `Spec => []KeptLongEnough` |
| `SessionsProofs!LifetimesCovered` | an entry is kept long enough if and only if the unit is covered |
| `AccountsProofs!TypeCorrect` | `Spec => []TypeOK` |
| `AccountsSafetyProofs!NamesAreUnique` | `Spec => []UniqueRows` |
| `AccountsSafetyProofs!CreatedMeansThere` | `Spec => []CreatedIsThere` |
| `AccountsSafetyProofs!RolesStayWithUsers` | `Spec => []RolesWithUser` |
| `AccountsSafetyProofs!RefusalsHaveCause` | `Spec => []RefusedForCause` |
| `AccountsSafetyProofs!QueueMatchesUsers` | `Spec => []JobsMatchUsers` |
| `AccountsSafetyProofs!DirectoryImplemented` | `Spec => ImplementsDirectory` |
| `JobsProofs!JobsImplementAccounts` | `JobsSpec => Spec` |
| `JobsProofs!JobsTypeCorrect` | `JobsSpec => []JobsTypeOK` |
| `JobsProofs!StartsAreBounded` | `JobsSpec => []StartsBounded` |
| `JobsProofs!CompletedWereRun` | `JobsSpec => CompletedWasRun` |
| `JobsProofs!FailuresHaveCause` | `JobsSpec => []FailedForCause` |
| `UploadsProofs!TypeCorrect` | `Spec => []TypeOK` |
| `UploadsProofs!DiskAccounted` | `Spec => []LeftOnDisk` |
| `UploadsProofs!SendsAreAccepted` | `Spec => []OnlyAcceptedSent` |
| `UploadsProofs!SendsAreComplete` | `Spec => []NoFileForgotten` |
| `UploadsProofs!OutboxImplemented` | `Spec => ImplementsOutbox` |
| `SeederProofs!TypeCorrect` | `Spec => []TypeOK` |
| `SeederProofs!OnlySeededAdmins` | `Spec => []AdminIsSeeded` |
| `SeederProofs!SignupsPassGuards` | `Spec => []SignupsAreActive` |
| `SeederProofs!RerunsReachUser` | `Spec => FailsAtTakenUser` |
| `SeederProofs!MissedAdminIsFinal` | `Spec => AdminMissedForGood` |

Assumptions: those of the modules (`TicksPerSecond` positive, lifetimes that are
lifetimes, those of `Configurable` positive, bounds and `MaxStalledCount` naturals, `NoUser` no user and `NoJob` no request; known roles are roles, accepted
kinds are kinds, `ImageLimit` positive). TLC evaluates them in every run.

The argument for Sessions. `LogoutKeptUntilExpiry` is not inductive: an entry
under a key shared by two tokens may have been stored for the one that lives
shorter. `CacheInv` adds what makes it so. Tokens are signed in a second that has
begun (`TokensPast`), so an entry stored now outlives every token there is by the
lemma `BlacklistTimes`, which compares the two parsers; hence it outlives
every token ever stored under its key (`EntriesOutlive`), and `Tick` drops it only
when all of them have expired (`EntriesKept`). Whether the entry still holds the
very token is then a matter of `Overwritten` alone. `RevokedNeverServed` needs the
loop invariant `ScanInv`: for every logout of the token that was answered before
the request came in, its key is still to be read, was overwritten, or the token
has been found. `GuardKeys` establishes it (the entry is there by `CacheInv`, so
its key is listed), `GuardGet` keeps it (the entry is still there while the token
verifies), and what other requests do in between cannot break it, because
`written` only grows. `AdmittedAsSeen` needs `SnapshotInv`: the standing of the
user is always among those the request has seen, and the snapshot is one of them.
`RefusedOnlyForCause` is about steps, and rests on what the request carries when
it is refused: `CauseInv` has that a token found on the blacklist was once stored
there, and that a snapshot without the role was taken when the account had it not.
Where the access lifetime is in no covered unit, `CacheInv` and `ScanInv` claim
nothing of entries (`Covered`), and the rest of the invariant stands.
`SessionsProofs` has the typing lemmas first, then one step per action;
`SessionsInvariantProofs` has `CacheStep` for the shared state and `RequestStep`
for one request, and `Invariance` puts them together.

The refinement of `AccessControl` needs one invariant more, `RoutesInv`: which
route can be at which stage. `MoveDesk` and `AnswerDesk` say what a step of one
request does to the desks, and `StutterDesk`, `ShowDesk`, `ClearDesk` and
`RefuseDesk` what abstract step that is; then there is a lemma for each handler
(`LoginAccess`, `RefreshAccess`, `ScanAccess`, `SnapshotAccess`, ...). `ScanAccess`
shows that the whole loop over the keys is a stutter, and `NotBarred` that what
`ScanInv` leaves after it is what `Clear` asks for. `SignAccess` needs care with
tokens: `SignedNow` may be a token that was handed out before, and that has
expired already if the lifetime is short; `Issue` promises only that no other
token becomes valid. `StepsLeadOn` is the part of `EveryRequestAnswered` that is
about single steps: along `Place`, or in the keys left to read, each step of a
handler leads on.

The argument for Accounts. `TypeOK` holds what each stage has at hand: a request
that has not reached its insert has no row, one that signs has. From it, the lemma
`Effects` reduces every action to one of three effects on tables and answers:
none, an answer without a row (`Told`), a row with or before its answer (`Added`).
The invariant `IInv` adds to the four properties only that every row is as it was
asked (`RowsAsked`), which turns "the request has a row" into "its row has its
names". `ToldKeeps` and `AddedKeeps` prove it for the two effects, and
`DirectoryStep` maps each of them to a step of `UserDirectory`, the first to a
stutter. `JobsMatchUsers` is about adds as well as answers, which `Effects` leaves
out: `QueueInv` is inductive together with `TypeOK`, and `RowsAsked` gives the
rest.

The argument for Jobs. `JobsImplementAccounts` carries over everything above,
since every step of Jobs is one of Accounts or leaves it alone. `StartsBounded` is
not inductive: a lock lost during a run leaves a job in line that is still being
run. `StartInv` counts the start that the worker is about to make (`Pending`)
together with those it has made, against the stalls: a job in line has stalled
once for every start, an active one may be at its first. The two other properties
need `CauseInv`, which accounts for every run and every interruption of a job. The
interruptions are the stalls, and the one that the check has yet to find (`Open`);
hence a stall has its own, and a job that fails has had more than
`MaxStalledCount`. The times it was taken are its interruptions, and the one run
that was not interrupted: under way with its lock, or completed (`Whole`). Since
`Finish` completes a job only in `locked`, the run it ends is that one. The worker
holds one lock at most (`JobsTypeOK`), so that the end of the process interrupts
one job at most, and `EndKeeps` is the same lemma for a crash and for the
exception of another request. There is one lemma for each thing that can happen to
jobs and worker, and `PartStep` maps the actions to them.

The argument for Uploads. No property is inductive alone: multer removes the files
of a form because nothing of it was sent, which is `OnlyAcceptedSent`; that a
refusal leaves the files needs that a form that was not answered has nothing sent
(`NothingSent`). Their conjunction with `TypeOK` is inductive; there is one lemma
for each effect (a file stored, a refusal, a send started, sends settled).
`BoxStep` maps the answer 201 of `upload` to `Accept`, whose guard (no file of the
form was heard of before) is `OnlyAcceptedSent`, and `SendFails` and `Crash` to
`Stop`.

The argument for Seeder. `Behind` has what a run has behind it at each await, and
`RowsInv` that names are taken once, that the seeder has added no user but its
own, and that the first id goes to the first status or to none. From these, "add
roles to user" can reach only the user this run has added, and "active" is the
status with id 1 whenever there is one. `AdminMissedForGood` is inductive by
itself: a name stays taken, and only a run that has just added the default user
goes on to its roles.

## 5. Only model-checked, or not modelled

Only TLC: liveness (`EveryRequestAnswered`, `JobIsQueued`, `EveryJobEnds`,
`FilesArrive`, `EveryFormEnds`), for fairness, ENABLED and induction over data are
out of the prover's reach; and the five counterexamples of section 6. What is
proved towards liveness is its safety half: `StepsAdvance` for requests,
`JobsMatchUsers` for `JobIsQueued`, `FailedForCause` for jobs, `NoFileForgotten`
and `ImplementsOutbox` for files. Every other property of a passing run is stated
by a theorem.

Not modelled, with the reason:

- the event listener: `emit` runs it synchronously and it only logs;
- the older queue of `user.processor.ts` (`sendEmail` is called by nothing) and
  `FILE_UPLOAD_QUEUE` (`QueueController.addJob` is no route, and called by
  nothing): they get no job;
- `RequestStorage` and its transaction depth: imported by nothing;
- the stored procedure `create_user_with_roles`: its only call is in a closure
  that nothing runs;
- settings, dashboard, `GET` routes of users: single reads, without state or an
  order of steps;
- the gateway (echoes), the Redis wrapper and its interceptor (stubs, not
  imported);
- bootstrap, configuration, logging; of the exception filter, the bodies.

Two hazards of `PROJECT.json` have no property, and their notes say why: the
cookie that a refresh leaves as it was, and a login by a username that is another
user's email (the DTO forbids it, but `main.ts:92` has the validation commented
out), where the database chooses between two rows.

## 6. Where the code and what it says differ

- `LogoutEndsRefresh` (`auth.service.ts:261`): the refresh token outlives logout.
- `LoginGivesUsableToken` (`auth.service.ts:350`): a login in the second of a
  login that was logged out returns the blacklisted token.
- `UnableLeavesNoRow` (`auth.service.ts:147`): "Unable to create user" is also the
  answer when the row was inserted and a later step failed. A retry is refused for
  that row and gets the same answer, since the catch covers "User already exists".
- `AnswerHasHttpStatus` (`user.controller.ts:128`): an exception without a status
  when two `create_user` requests race, or for an unknown role. The filter then
  throws and the process ends, with the job its worker runs and the requests of
  everybody else; what this means for them is in the runs `accounts_safety` and
  `jobs`.
- `DefaultUserGetsRoles` (`seed.ts:215`): a seeder that broke off before "add
  roles to user" never gets there again.

Read, and the subject of no run of its own: a comment (`user.service.ts:112`) has a
job tried 50 times, every 10 seconds, and removed when it is complete, where the
options ask for one attempt, after 9 seconds, and keep it (`StartsBounded` holds
with two starts at most, `FailedForCause` says what the second is for). A comment
(`user.controller.ts:49`) has uploads of 2 MB at most where the constant is 100 MB.

## 7. Plan

1. Done: `TokenLifetime`, `Sessions`, `Accounts` with `UserDirectory`, `Jobs`,
   `Uploads` and `Seeder`, each with its safety proved; three abstract
   specifications (`UserDirectory`, `AccessControl`, `Outbox`), each with its
   refinement checked and proved.
2. Left, if the code comes to need it: the age of the cookie beside that of the
   token; `RequestStorage`, once something imports it; the payload of a job, once
   the worker uses it.
