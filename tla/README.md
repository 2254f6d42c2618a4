# Realm API in TLA+

A TLA+ model of the Realm API server (`README.md`, `cmd/`, `internal/`): modules
that follow the code step by step, TLC configurations that check them on small
instances, and theorems checked by TLAPS. Paths below are relative to the
repository (those in the table to `internal/`); the `map` of `PROJECT.json` names the
source lines behind every definition.

Contents: [the system](#the-system) · [the modules](#the-modules) ·
[runs](#runs) · [bounds](#bounds) · [fairness](#fairness) · [proofs](#proofs) ·
[disagreements](#disagreements-between-code-and-documents) ·
[not modelled](#not-modelled) · [plan](#plan) · [how to run](#how-to-run)

## The system

One Go process serves HTTP (Fiber) and gRPC over the same services and one
PostgreSQL database. A second program, `cmd/token`, changes API tokens in the same
database. Within the server run: a goroutine per request, cleanup goroutines of the
token cache and the rate limiter, River workers that take jobs from the database, a
log writer, a sampler of the processor, and short goroutines started by requests (view
counts, `last_used_at`, notifications).

| Component | State | Operations | What makes it correct | Module |
|---|---|---|---|---|
| API tokens (`service/token.go`, `auth/cache.go`, `cmd/token`) | rows of `api_tokens`; a cache with a TTL and a size limit | Create, Verify, Revoke, List; the CLI's Revoke; cleanup | a revoked or expired token stops working; the cache is bounded | `TokenVerify` |
| Rate limiter (`auth/limiter.go`) | 32 shards of token buckets with a `lastSeen` | Allow, cleanup | a token gets its rate and not more; memory is bounded | `RateLimiter`, `TokenBucket` |
| File storage (`service/storage.go`, `storage/storage.go`) | rows of `files`; originals and WebP derivatives on disk | Upload, Get, GetAsWebP, Delete | rows and files agree; readers get whole files; nothing is orphaned | `FileStorage` |
| WebP worker (`queue/queue.go`) | River jobs in the database | InsertJob, Work | every job ends | `FileStorage`, `Server` |
| Stored streams (`storage/storage.go`, `storage/s3.go`) | open streams; a pool of zstd decoders | Open, Close at each caller | two streams never share a decoder | `Streams` |
| Object storage (`storage/s3.go`) | a bucket and its objects | Save, Delete, the start | a missing bucket makes no save fail | `ObjectStore` |
| Accounts and login methods (`service/auth.go`, `repository/user.go`) | rows of `users`, `user_oauth_accounts` | Register, Login, OAuth sign-in, link, unlink, passwords, profiles, administration | one identity is one user's; nobody loses the last way to sign in | `LoginMethods` |
| OAuth exchange (`handler/auth.go`) | two cookies per provider in the browser | begin, callback | an identity is linked to who began the exchange | `OAuthExchange` |
| Two-factor authentication | secret, flag, recovery codes in `users`; challenge tokens | Setup, Enable, Disable, Verify | a recovery code works once | `TwoFactor` |
| Pastebin (`service/paste.go`) | rows of `pastes`; pending view counts | create, read, burn, delete, list | a burn paste is read once; views are reads | `Pastes` |
| Posts and comments | rows; comments name a slug and a parent | create, rename, reply, edit, delete | replies stay in their thread | `Threads` |
| Reactions (`repository/reaction.go`) | rows under row locks | toggle, moderation | a toggle is atomic and its answer agrees with it | `Reactions`, `ReactionRow` |
| Authorisation (`middleware/token.go`, `grpc/server/auth_helper.go`, `repository/admin.go`) | rows of `admin_users` | the gates, permission changes, the bootstrap of superadmins | superadmins stay; effects are granted | `Access` |
| Logs (`telemetry/logger.go`, `repository/log.go`) | a channel of 1000 records, rows of `system_logs` | Handle, worker, GetLogs, DeleteLogs, StreamLogs | records are drained; a walk over the pages misses nothing | `LogSink` |
| Lifecycle (`cmd/server/main.go`) | the servers and their goroutines | start, shutdown | shutdown ends and cuts nobody off | `Server` |
| LastFM proxy (`service/lastfm.go`) | cache, circuit breaker | two reads | fresh answers are recent; the breaker recovers | `LastFM` |
| Contact form (`grpc/server/contact.go`) | messages; a bucket per address | send, list, delete | every address has its bucket | `ContactForm` |
| Analytics (`repository/analytics.go`) | rows of `page_views` | record, report | the sections of a report add up | `Analytics` |
| Processor usage (`telemetry/cpu.go`) | the last readings of three counters | sample, Stop | usage is the share of busy time | `CPUMonitor` |
| Sessions, images, cryptography, router, health counters, configuration | little or none | | | |

How they interact. Every HTTP or gRPC request may pass `TokenService.Verify`, then
`TokenRateLimiter.Allow`, then the scopes, then its service. Services share nothing in
memory but the token cache, the limiter and the storage engine with its pool; everything
else they share is rows, and nearly every operation is several statements without a
transaction. Uploads hand work to River, which hands it to the storage service again. Where
one component's operation changes another's rows (an account that is deleted takes its
comments, reactions and login methods), the action is in the module of those rows.

What is hard here: statements of overlapping requests between a check and its write;
memory (a cache, a bucket, a cookie, a string of a request) that outlives what it was read
from; two stores, rows and files, that change in separate steps with failures, lost
replies and crashes between them; clocks read before a lock is taken; upstreams that do not
answer; a shutdown in which everyone waits for somebody. `PROJECT.json` lists each such
place as a hazard with the properties that watch it.

## The modules

Every module has one action per statement or critical section of the code, because
that is where other processes can come between. History variables are declared apart
and no action's effect depends on them, bounds excepted. A definition named
`Mutant of X` is a plausible bug in X; it is used by no specification and serves to
show that a property notices the bug. `TypeOK` states the types of each module's
variables.

### TokenVerify

`status`, `life` are rows of `api_tokens`; `entry` is the map of `TokenCache`.
`Verify` is cut where another process can act: `VerifyLookup` (cache hit: only
`expires_at` is compared), `VerifyQuery` (SELECT), `VerifyRefuse`/`VerifyStore` (checks,
`cache.Set` with its capacity eviction `RoomFor`), `VerifyTouch` (the second `Set` when
`last_used_at` is older than five minutes). `Revoke` is `RevokeRow`, `RevokeEvict`;
`CLIRevoke` is `cmd/token`, which has no cache. `Tick` ages everything, `Cleanup` is the
goroutine, `Restart` loses the memory of the process. Time is relative: what is
left of each lifetime counts down, so no bound on time is needed.

Properties: `QuietRevokeIsFinal` (a Revoke that no older snapshot overlaps is final);
`StaleHitBounded` (an entry cached before a revocation, by whomever, answers at most one
TTL after it); `AcceptsOnlyLiveTokens`; proved only, `CacheBounded`.

### TokenBucket and RateLimiter

`TokenBucket` is the promise: every key has a bucket from the start. `RateLimiter` is a
shard of `TokenRateLimiter`: `entries`, `tokens` and `idle` are the map with its limiters
and `lastSeen`. `Allow` is `Begin` (the clock is read), `Lookup` (under the read lock:
`Tokens()`), `Spend` (`Allow()`, `lastSeen`, unlock), or, for a missing entry, `SlowFound`
/ `SlowInsert` under the write lock, with `Evictable` for a full map. `Cleanup` sweeps
with a clock read up to `MaxWait` ticks earlier. `watched`, `elapsed`, `granted`
observe one key for an interval that may begin at any moment, which stands for every
interval of every key.

Properties: `BurstAndRefill` (grants in an interval never exceed burst plus refill, through
races of first requests, eviction and re-insertion, unless the key was evicted for lack of
room); `BucketPerKey` (the limiter implements `TokenBucket`, in which only the first request
of another key on a full map starts a bucket afresh); proved only, `ShardBounded` and
`IdleIsFull`.

### FileStorage

`row`, `kind`, `blob`, `webp`, `job` are the row, its MIME type, the original, the derivative and
the River job of a file. A request or worker is a process with a place `pc`. `Upload` is
`UploadStart`, `SaveDone` (or a failure), `InsertRow`, `Enqueue`; its error paths call
`engine.Delete` as in the code (`UploadUndo` then `RemoveWebP` or `RemoveWebPFails`, `RemoveBlob`).
`GetAsWebP` looks for the derivative, opens the original, truncates the derivative's path in place
(`WebPConvert`), writes and completes it (`SaveWebPDone`). `Delete` drops the row first. A database
reply can be lost after the commit (`InsertReplyLost`, `DropReplyLost`), removals can fail, and
`Crash` ends every process; rows, files and jobs survive it. `view` is what an open stream will
deliver, so truncating under a reader is visible.

Properties: `RecordHasBlob`, `NoOrphanBlob`, `WebPLeftWhole`, `CacheGoesWithFile`; under
fairness `JobsEnd`; proved only, `OriginalServedWhole`. The exceptions the code really has
are named in history variables: `lost` (an INSERT whose reply was lost, after which Upload
deletes the file of a committed row), `leaked` (a failed removal, a lost reply, a crash),
`raced` (the derivative was removed under a running conversion) and `unremoved` (removing the
derivative failed, an error that `engine.Delete` ignores).

### LoginMethods

`row`, `active`, `password`, `origin`, `email` are columns of `users` (`origin` is
`provider`/`provider_id`); `linked` is `user_oauth_accounts`. `HandleOAuthLogin` is
`LoginByAccount`, `LoginByOrigin`, `LoginByEmail`, `LoginCreate`, then the link calls
(`LoginLinkCheck`, `LoginLinkInsert`; two of them after a registration, because `Create` links as
well); a lookup that fails is taken for one that found nothing, as in the code. `LinkOAuthAccount`
is `LinkCheck`, `LinkInsert`; `UnlinkOAuthAccount` is `UnlinkStart`, `UnlinkCount`, `UnlinkDelete`
or `UnlinkFails`. `UpdateProfile` and a sign-in that fills in an avatar read a row (`AddressRead`)
and write all of it back later; `held` is the address they carry. The UNIQUE and foreign-key
constraints of `internal/database/database.go` are part of the statements.

Properties: `OwnerIsStable`, `RegisteredOnce`, `AdminAddressStays` (an address given by an
administrator is undone only by a request that had read the row before), and
`UnlinkKeepsMethod`: any number of unlinks may overlap, and one takes the last way to sign in only
if another unlink of the same user came between its count and its DELETE (`overtaken`).
Proved only, `LinkedToLive`.

### TwoFactor

One account: `enabled`, `secret`, `codes` are its columns. `Enable2FA`, `Disable2FA`, `Verify2FA`
with `ConsumeRecoveryCode` are cut into their SELECTs and UPDATEs; `read` is the list a request
carries from one to the other. A statement may fail (`Fails`), and the UPDATE of a consumption may
take effect although the request is told otherwise (`ConsumeReplyLost`). Passcodes are represented
by the secret they belong to.

Properties: `SpentStaysSpent` (a code accepted by a request that overlapped no other
consumption never comes back), `IssuedStayUsable` (codes returned by an undisturbed
Enable2FA work until used).

### Pastes

`row`, `slug`, `tries`, `views` are rows of `pastes` and the retry loop of `CreatePaste`. A read
is `Fetch` (SELECT and the expiry check), `BurnRow`/`BurnFails` (the DELETE whose error is
ignored), `Open`/`OpenRefused` (the password). `Open` starts a goroutine (`of`, `from`) that
counts the view later (`Count`). `path` is the memory of the request context: over
HTTP the slug is a Fiber string that the next request of the context overwrites, so the
goroutine sees one of the values in `Seen`.

Properties: `NoReadAfterBurn` and `ViewsAreReads`, which leaves out the pastes whose views went
astray (`astray`): one was lost to an error or a restart, or counted under a slug that
another request had written over the goroutine's; proved only, `GoneOnRequest`.

### Threads

Posts (`slug`, unique) and comments (`comment[c]`: slug, author, parent), numbered as they are
written. A comment names its post only by the slug, so `UpdatePost` and `DeletePost` leave
comments behind, and the next post of that slug shows them; `under` and `left` record whose they
were. A reply is `CheckParent`, then `InsertReply` or `ReplyFails` when a foreign key refuses;
`Without` is the cascade of a deletion. `GetCommentsBySlug` is the list with its two loops:
`Group`, in which a row is copied into its parent, and the copy back of the roots.

Properties: `ParentInThread`, `RootsAndRepliesShown` (every root with all its direct replies, oldest
first, in a list that is read to its end), `InheritedOnlyWhenLeft`; proved only,
`NothingOfDeletedUsers`. `RepliesHaveReplies`, the recursion the API description declares, is
violated.

### ReactionRow and Reactions

`ReactionRow` is the promise: a toggle turns a row on or off in one step and says which.
`Reactions` has the transaction: `ToggleRead` is SELECT ... FOR UPDATE (where there is no row it
locks nothing), `ToggleWrite` the DELETE or the upsert and the COMMIT, whose outcome `Outcome`
depends on what is there by then; `ReadCounts` and `ReadOwn` make the answer outside of it. The code
skips rows that do not scan and never asks `rows.Err`, so `ReadCounts` may return the counts of some
types only, without an error (`partial`). `ToggleFails` and `AnswerFails` end a request with an
error; the latter also stands for a COMMIT whose reply was lost.

Properties: `TogglesAreAtomic` (Reactions implements ReactionRow), `AnswerAgrees` (an undisturbed
toggle answers with the row it left and the tally, of which a read that broke off may lack types,
but never has more); proved only, `FoundIsStill`, `LocksAreHeld`, `NothingOfDeletedUsers`.

### LogSink

`Make` stamps a record, `Handle` sends it without waiting or drops it, `Take` and `Insert` are
the worker, whose insert may fail. A reader walks the pages of GetLogs by offset (`BeginWalk`,
`GetLogs`, `EndWalk`), newest first, while rows arrive late with an old time, `DeleteLogs` purges,
or a query breaks off between two rows (`GetLogsCut`), which looks like a short page.

Properties: `WalkMissesNothing`; under fairness `SinkKeepsDraining`.

### Server

The process from `Boot` to `Exit`: the pool, the job queue, the gRPC and HTTP servers and the
goroutine `stopper` that waits for the signal and stops them in the order of `main.go`
(`StopQueue`, `GrpcStopped`, `HttpStopped`, `ClosePool`). Requests and the two telemetry streams
are calls of either server; jobs are rows that outlive the process, taken by `Fetch`, lost to
`Die` or to a closed pool, and found again by `Rescue` (River, external). A restart is another
`Up`. When the gRPC port is taken, main returns after the queue was started and its deferred Close
closes the pool under the jobs (`GrpcListenFails`, `ExitFailed`): next to a Stop that timed out, the
other way for a job to find the pool closed. `ListensLate` is the one race that the properties
exclude: a signal between Notify and Listen shuts the HTTP server down before it listens.

Properties: `PoolOutlivesItsUsers`, `ExitCutsNobody`; under fairness `ShutdownFinishes`,
`NoJobForgotten`.

### Access

`account` and `admin` are rows of `users` and `admin_users`. A request is entitled (`Entitled`:
a token with the scope, a superadmin, or a permission that `Grants` it) at its `Gate` and then
runs its statements one by one: `AddAdmin` (with `Upsert` for a row that is there),
`UpdatePermissions`, `RemoveAdmin`, `DeleteUser` and the activation of `UpdateUser`, with the
superadmin check as a statement of its own that may fail. `BootstrapSuperadmins` is what a
starting instance does.

Properties: `SuperadminsStay`, `SuperadminsAreSafe`, `EffectsAreGranted`.

### LastFM

Two kinds of keys share a breaker. `Lookup` serves a fresh entry; otherwise `Execute` asks the
breaker (`Refuses`, `Admitted`, `Report`, `NewGeneration`: gobreaker, external) and the upstream,
which answers, fails or loses the request (`Answer`, `Lose`; `Due` is the HTTP timeout); `Store`
writes the cache, `Fallback` serves an expired entry.

Properties: `FreshIsRecent`; under fairness `BreakerRecovers`.

### The parts at the edge

- `OAuthExchange`: two tabs of a browser. A request carries the cookies as they are when it leaves
  and an answer changes them when it arrives: `GoogleLogin`, `Redirected`, `Return`, the three
  outcomes of the callback, `Answered`. `Stale` is a session token that does not verify:
  with one, the link cookie is left alone. Property: `LinksItsUser`.
- `Streams`: every place that opens a stored file and who closes it, over the decoder pool.
  `NotModified` and `Dropped` leave a stream open. Property: `StreamsReadTheirOwn`.
- `ObjectStore`: `Save` is `Put`, on failure `Head`, `Create` and `Put` again; the goroutine of
  NewS3Engine runs the same two requests. A stream that cannot be read or compressed ends the call
  before anything is sent (`unread`). A request S3 leaves unanswered may have taken effect.
  Property: `SavesSucceed`.
- `CPUMonitor`: `SampleProc`, `SampleFallback` over counters that grow, go back, start again or
  cannot be read, in unsigned arithmetic (`Minus`). Property: `UsageIsBusyTime`.
- `ContactForm`: the limiter of the RPC with its eviction (`Evicted`), and the messages. Property:
  `AddressHasItsBucket`, a refinement of `TokenBucket` too.
- `Analytics`: `TrackEvent`, and a report made of eleven queries (`Section`) outside a transaction,
  any of which may fail or break off (`Break`). The lists of pages, posts, referrers, browsers and
  countries are cut to a `Limit` (`Largest`: the ones with most views, ties in any order). Property:
  `ReportAddsUp`, in which a list that is as long as its limit (`Full`) need not have all views.

`Peripherals` puts these and `LastFM` side by side: it extends `LastFM`, instantiates the others and
names what each of them promises. They share no state, so in `MCPeripherals` a behaviour is one of a
single part, chosen at the start. `MCOperations` does the same for `LogSink` and `Server`.

### Modules that only name things

`TokenVerifyPart`, `TwoFactorPart`, `AccessPart` and `ServerPart` do for one component what
`Peripherals` does for those at the edge: an instance whose constants and variables have names no
other module uses, what is assumed of the constants, and the component's properties by their own
names. They add no behaviour. The MC module of the run and the module of the proofs both extend
them, so that TLC checks and TLAPS proves the same definition, and proofs about several components
fit in one module.

## Runs

Every action of the modules fires in its run. The last run checks a statement of the API description,
and finds it violated.

| Run | Shows |
|---|---|
| `token_verify` | two tokens, two requests, a Revoke, the CLI and a one-entry cache: revocation and expiry |
| `rate_limiter` | three requests, three keys, room for two: burst and refill, and the refinement of `TokenBucket` |
| `file_storage` | three requests and a worker on one file of any kind, with a crash; `JobsEnd` under fairness |
| `login_methods` | two requests of any kind, two users, two identities of different providers with one address |
| `two_factor` | two requests, two secrets, two batches of codes |
| `pastes` | an HTTP and a gRPC context, two counting goroutines, two pastes, two slugs, failures and restarts |
| `threads` | two accounts, three comments, two posts that take, leave and inherit two slugs |
| `reactions` | two requests, two accounts, two slugs, two types, moderators and the end of accounts: the refinement of `ReactionRow` |
| `operations` | the log sink with three records, a channel of two and a reader walking the pages, and the worker's liveness; beside it the process with two requests, two streams, two jobs and two starts: the order and the end of a shutdown |
| `access` | two requests of administrators or a token, two accounts, one of them configured as superadmin |
| `peripherals` | the parts at the edge, each on its own, and the recovery of the LastFM breaker |
| `nested_replies` | `RepliesHaveReplies` fails: a reply to a reply is accepted and shown nowhere |

## Bounds

Each is a CONSTANT, and each instance is the smallest in which the interesting cases
meet.

- TokenVerify: `CacheTTL` 1 and lifetime 1 let an entry outlive a token and the other way
  round; `MaxCacheSize` 1 with two tokens makes every insertion of the other token evict;
  two requests suffice for one to refill what the other's Revoke evicted.
- RateLimiter: `Window` 2, limit 2, `IdleEvict` 3, `MaxWait` 1 keep the one inequality the code
  relies on, `IdleEvict >= Window + MaxWait` (ten minutes against one minute and the time a
  call takes), tight. `MaxWait` bounds the delay between a call's clock reading and its end.
- FileStorage: `MaxCrashes` 1; three requests on one file let a delete, a conversion and a
  second conversion or reader meet; the kind of the file is chosen by the upload. Files share
  only the worker, and a worker that is busy with another file is one that has not started yet.
- LoginMethods: two identities of different providers with the same address make link, fallback by
  `origin` and by e-mail compete, and are the two accounts that two overlapping unlinks take. A third
  request would be one more of the same kind.
- TwoFactor: `BatchSize` 2 (the code issues eight) and two batches: one code can be used while
  another of the batch is owed, and an old batch can come back over a new one.
- Pastes: `MaxRetries` 2 (the code has 5), `MaxReads` 2 reads per paste, `Counters` goroutines alive
  at a time, two slugs for two pastes so that a slug can be given out again.
- Threads: `MaxComments` 3 (a root, a reply, a reply to the reply), `MaxEdited` 1 comment ever
  edited, one reply between its two statements at a time; everything else is a single statement.
- Reactions: two requests meet on a row or on the lack of one; a third would wait for the same lock.
- LogSink: `MaxRecords` 3, `Capacity` 2 (1000), pages of one or two rows (`DefaultLimit`, `MaxLimit`):
  a channel that is full, and a walk of several pages.
- Server: `MaxStarts` 2 processes, one after the other; a call and a stream for each server.
- LastFM: ticks of the request timeout; `TripAt` 2, `MaxRequests` 2, `Interval` 1, `OpenFor` 2 keep
  the order of the code's times.
- OAuthExchange: two tabs, two users, two `States`, cookies that live one tick. Streams: three
  streams, three decoders, so that a decoder put back twice meets two more. ObjectStore: two savers,
  two keys, `MaxTries` 2 (5), `MaxFailures` 2 requests without an answer. CPUMonitor: counters to 2
  in arithmetic modulo 16, `MaxAge` 2. ContactForm: three addresses, `Burst` 2, `MaxEntries` 1,
  `IdleFor` 3, which is longer than a bucket takes to fill, as in the code. Analytics: two views of
  three kinds, one failing query per report, `Recent` 1; `Limit` 1 for the pages (of two, so that
  the list is cut), 2 for the referrers (full at most) and 3 for the others (never full).

The proved properties hold for every value of the constants the assumptions allow, so for
them the bounds matter only as far as the run goes.

## Fairness

`Spec` of every module is safety only: a system that stops satisfies it. Where something must
happen in the end, a module has a `FairSpec` or a `Fairness`:

- `FileStorage!FairSpec`: an operation under way goes on; River hands out queued jobs again and
  again and discards one whose attempts all fail. Requests need never arrive.
- `LogSink!FairSpec`: the worker goes on; its insert ends within three seconds, by its context.
  Nothing is assumed of who logs or reads.
- `Server!FairSpec`: the goroutines of the process go on, unary requests end, River rescues the jobs
  of a process that is gone, and a job that is worked again and again succeeds at last (strong
  fairness). Signals, crashes, streams and restarts need never come; that streams end is a premise
  of `ShutdownFinishes`.
- `LastFM!Fairness`: time passes and a call goes on; an upstream that is up answers, or the HTTP
  timeout ends the request. The premise of `BreakerRecovers` is that the world behaves again and that
  calls keep missing the cache. In `MCPeripherals` the fairness is asked only of behaviours
  of that part; in `MCOperations` it is asked of both, and no fair action of the part that does not run
  is enabled.

`CHECK_DEADLOCK FALSE` is set where an instance really comes to rest: `file_storage` (each file
identifier is used for one upload), `threads` (comments are bounded, posts and accounts may all be
gone), `operations` (its last process may be over) and `peripherals` (states of the OAuth exchange,
streams and the sampler that has been stopped are used up).

## Proofs

Theorems are in eight modules. Each extends the module of one component; four of them also extend
the modules that name other components (`TokenVerifyPart` and its like, `Peripherals`) and speak of
these through the instance. For each component an inductive invariant strengthens the type invariant
by what the properties need; lemmas for the initial states and for groups of actions show that it is
preserved, one theorem puts them together, and the named theorems are its consequences.

| Component, and where its proofs are | Proved for all constants | The strengthening |
|---|---|---|
| RateLimiter, `Tokens_proofs` | `TypeOK`, `ShardBounded`, `IdleIsFull`, `BurstAndRefill`, `BucketPerKey` | `RefilledSinceSeen`: a bucket holds at least what refilled since `lastSeen`; `Conserved`: grants plus what is left never exceed burst plus refill |
| TokenVerify, there as `Tok` | `TypeOK`, `CacheBounded`, `QuietRevokeIsFinal`, `StaleHitBounded`, `AcceptsOnlyLiveTokens` | a quietly revoked token has no request left that holds an active snapshot of it; revoked rows stay revoked |
| LoginMethods, `Accounts_proofs` | `TypeOK`, `OwnerIsStable`, `RegisteredOnce`, `LinkedToLive`, `AdminAddressStays`, `UnlinkKeepsMethod` | live users without a moved address still have the address of their origin; a user has at most one account per provider; who holds a row read it before or after the change; `SawAnother`: what an unlink that was not overtaken read still holds |
| TwoFactor, there as `TF` | `TypeOK`, `SpentStaysSpent`, `IssuedStayUsable` | no list a request carries brings a spent code back or lacks an owed one |
| Access, there as `Acc` | `SuperadminsStay`, `SuperadminsAreSafe`, `EffectsAreGranted` | a superadmin has a row; a request past the gate is among the granted; one that asked whether its account is superadmin is about none, unless excused |
| FileStorage, `FileStorage_proofs` | `TypeOK`, `RecordHasBlob`, `OriginalServedWhole`, `NoOrphanBlob`, `WebPLeftWhole`, `CacheGoesWithFile`; of the jobs, `RunningJobsAreRun`, `EndedJobsStayEnded` | what each place of a process says of its file's row, original and derivative; for the jobs, `OneJobPerFile`: only the request that inserted a row enqueues its job |
| Pastes, `Pastes_proofs` | `TypeOK`, `GoneOnRequest`, `ViewsAreReads`, `NoReadAfterBurn` | `CallOK`: the slug of a request under way is still that of the row it found; `BurntIsGone`: a burn paste that was answered has no row |
| Threads, `Threads_proofs` | `TypeOK`, `ParentInThread`, `NothingOfDeletedUsers`, `InheritedOnlyWhenLeft`, `RootsAndRepliesShown` | `ParentChecked`: a parent that was found is on its post for as long as it is there; a post has its slug for itself; for the list, `GroupFacts`: the loop gives every comment bare copies of its direct replies |
| Reactions, `Reactions_proofs` | `TypeOK`, `FoundIsStill`, `LocksAreHeld`, `NothingOfDeletedUsers`, `AnswerAgrees`, `TogglesAreAtomic` | a row that was found is locked and unchanged until the commit; `LastStands`: after an undisturbed commit the row is as it left it |
| LogSink, `Operations_proofs` | `WalkMissesNothing` | `InFlight`: a record is in one place until it is inserted; `StillAhead`: a row still to be received has at least as many newer rows as the reader has skipped |
| Server, there as `Srv` | `PoolOutlivesItsUsers`, `ExitCutsNobody`; `HeldUpOnlyByWork`, `StepByStep` | what each place of the shutdown says of the servers (`ServersDrain`), the queue (`QueueDrains`) and the pool (`PoolIsOpen`; without gRPC, only jobs are left of the process), and that nothing is left of a process that is gone |
| LastFM, `Peripherals_proofs` | `FreshIsRecent`; `HalfOpenIsProbed` | `AgesAddUp`: age and what is left of the lifetime add up, in the cache and in every request; `ProbesAreCounted`: what a half-open breaker has admitted has succeeded or is in flight |
| OAuthExchange, there as `OAuth` | `LinksItsUser` | `CookiesAgree`: a state and a user found together, in the cookies or on their way to a callback, are of one exchange |
| Streams, there as `Read` | `StreamsReadTheirOwn` | `OwnDecoders`: an open stream's decoder is set to it and not in the pool, and no decoder is in the pool twice |
| ObjectStore, there as `S3` | `SavesSucceed` | `BucketFound`: whoever tries its PUT again has seen the bucket; the starter has tries left while it is on its way |
| CPUMonitor, there as `CPU` | `UsageIsBusyTime` | readings are within the counters' bound, so that their difference does not wrap unless a counter went back |
| ContactForm, there as `Contact` | `AddressHasItsBucket` | `FillsWhileIdle`: a bucket that is not full gained a token for every tick it was idle, so an entry that may be forgotten is full |
| Analytics, there as `Views` | `ReportAddsUp` | `AnalyticsInv`: no section adds up to more than is there now (`BelowPresent`), so that a later one that is not cut has no less (`Growing`, `BelowSites`); the first section adds up to its total (`FirstIsTotal`), which the shares are shares of (`SharesOfTotal`) |

Why strengthening is needed: `IdleIsFull`, for one, says nothing of an entry that is not
idle yet, so a tick could break it; `RefilledSinceSeen` gives the amount at every age.
`WalkMissesNothing` speaks only of a walk that is over; `StillAhead` says of every page on the way
that what is to come has not slipped under the offset, which an arrival can only make truer and a
purge by age, which takes the oldest, leaves true. `LinksItsUser` speaks only of links that were
made; `CookiesAgree` follows the two cookies from the redirect to the callback.

Assumptions are named operators on constants: finiteness of sets that are counted,
values such as `NoKey` lying outside their sets, positive sizes; for the limiter
`IdleEvict >= Window + MaxWait`, for the contact form that an entry is idle longer than its bucket
takes to fill, for CPUMonitor that twice a counter stays below the modulus. They are the
ASSUMEs of the modules that are extended, and of the modules that name the instances:
`TokenAssumption`, `FactorAssumption`, `AdminAssumption`, `ProcessAssumption` and
`PartsAssumption`. TLC evaluates all of them in the runs. Lemmas about an instance say which of
them they need, in the names of its module (`TF!ProofAssumption`, `S3!StoreConstants`); the
theorems take them from the ASSUME.

Induction over data. The induction theorems of the library take an operator, which none of the
installed provers can instantiate, so the proofs take a set instead: `NatSetInduction` says that a
set of numbers that holds 0 and with n also n + 1 holds them all. It follows from the least
number of a set (`LeastNumber`), which `WFMin` of the library gives for the numbers in their order.
`Threads_proofs` and `Peripherals_proofs` prove both, each for itself. A recursive function and a
fold are a CHOOSE of a function with a certain equation: a lemma first shows, by that induction,
that there is one (`FoldExists`, `SumsExist`, the functions `UpTo`), so that the equation may be used.

- `RootsAndRepliesShown` (`CommentsShownInOrder`). `OldestFirstSorts` says what ORDER BY gives: every
  comment once, in increasing order. Over those rows, the loop of GetCommentsBySlug is followed
  one row at a time. A row finds its parent placed already, because `ParentInThread`
  makes a parent older than its replies (`GroupFacts`). What it puts into the parent is a copy without
  replies, so every root ends up with its direct replies, and the answer ends at the second level.
- `ReportAddsUp` (`ReportsAddUp`). Sums over the groups of a section are the number of
  rows they group (`ClassesAddUp`, `GroupsAddUp`), and rounded shares lose less than
  one per country (`SharesAddUp`). A list below its limit is the whole section, and one that is
  cut is a part of it (`SectionIsPart`). The invariant compares sections that were read at different
  moments: rows are only added, so what a later query counts is at least what an earlier one did.

Safety parts of liveness. That something ends cannot be proved here, but that it does not get stuck
can. Three theorems say so of three of the liveness properties, for every value of the constants:

- `HalfOpenHasProbe` (for `BreakerRecovers`): a half-open breaker that refuses has a request of
  its own generation in flight, so that lost requests, clients that leave and results of earlier
  generations never use up its probes for good.
- `ShutdownGoesOn` (for `ShutdownFinishes`): after the signal a step of the shutdown is due, or it
  waits for calls or queries that were accepted, unless `ListensLate`; main and the goroutine never
  wait for each other; and no step is skipped, repeated or taken back.
- `JobsAreRunOnce` (for `JobsEnd`): a job that is marked as running has its worker at work on it,
  also after failed conversions and crashes, and a job that ended stays ended.

Only model-checked: the five liveness properties `JobsEnd`, `SinkKeepsDraining`, `ShutdownFinishes`,
`NoJobForgotten` and `BreakerRecovers` (fairness and ENABLED are outside what the
installed provers do). Every safety property that a passing run checks is proved. There are no
RECURSIVE operators.

## Disagreements between code and documents

Met while modelling. The models contain the behaviour, and the properties of the passing runs are
stated so that they allow it. One has a run that shows it, `nested_replies`.

- tokens: `test/token_test.go:132-139` shows a Verify after a Revoke refused. A Verify that had read
  the row before caches it after the eviction (`service/token.go:171`): `QuietRevokeIsFinal` says
  when it cannot.
- rate limiter: at most the limit in a one-minute window (`API.md`): burst and refill add up to almost
  twice, which is what `BurstAndRefill` bounds; a full map evicts "the oldest entry": it evicts the
  first of a map iteration (`Evictable`); `X-RateLimit-Remaining` is read before the token is spent;
  `lastSeen` is written under a shared lock (`auth/limiter.go:70`).
- file storage: DELETE removes the file "and its associated cache": a conversion in flight writes
  the derivative afterwards (`raced`); an error in removing the derivative
  is ignored (`RemoveWebPFails`, `storage/storage.go:184`); a cached derivative is truncated in
  place under its readers (`TruncateWebP` cuts the `view` of a process at `serve`). A 304 answer
  (`handler/storage.go:157`), the derivative of the RPC and a job that finds a cached one
  (`service/storage.go:465`) never close their stream.
- login methods: the only login method cannot be removed, but two overlapping unlinks each see the
  other's account (`repository/user.go:411`, `overtaken`); after an unlink `users.provider`
  keeps the provider listed as connected; linking an account that somebody else links at the same
  time is reported as success; a profile update writes back an address an administrator changed
  meanwhile (`service/auth.go:429`).
- OAuth: a link whose cookie the callback of another tab cleared becomes a sign-in; a begin with a
  token that does not verify keeps the link cookie of an earlier exchange.
- two-factor: an accepted code is gone, but two overlapping calls accept it
  (`repository/user.go:482`); Setup2FA replaces a confirmed secret at once; Disable2FA refuses a
  recovery code.
- pastes: a second fetch of a burn paste fails, but overlapping fetches all succeed
  (`repository/paste.go:125`); a request without the password burns a locked paste (`BurnRow` comes
  before `OpenRefused`); over HTTP a view may be counted for the paste of the next request (`Seen`).
- comments: replies are recursive in `openapi.yaml:2541`, and only two levels are returned
  (`RepliesHaveReplies`, run `nested_replies`); the limit of a comment is 5000 characters there and
  2000 in the code.
- logs: a reader that pages by `total` may stop early, since limits above 200 are clamped; an error
  between two rows is not looked at, so that a cut page looks like the end (`GetLogsCut`);
  StreamLogs asks for an authorisation that the interceptors attach only to unary calls
  (`grpc/grpc.go:118`).
- reactions: counts that were read in part are returned as if complete (`repository/reaction.go:48`).
- shutdown: a signal between Notify and Listen lets HTTP come up after its own shutdown
  (`ListensLate`); a gRPC port that is taken closes the pool under running jobs (`GrpcListenFails`,
  `cmd/server/main.go:158`).
- administration: UpdatePermissions may take effect and answer with an error.
- LastFM: unknown users (404) and gRPC clients that leave count as failures of the upstream; the cache
  never evicts.
- analytics: countries' shares may add up to more than the whole when views arrive between two
  queries; the statistics of sites ignore the site filter; user agents of phones that name "Mac OS"
  count as macOS.

## Not modelled

Per component, with the reason, in `PROJECT.json`. In short:

- pure transformations of bytes or values: images and metadata, cryptography, sealing and opening of
  session tokens, parsing of user agents, sites and countries, validation of inputs, formatting;
- wiring and start-up: the router with its table of routes, configuration, the set-up of tracing and
  profiling, system calls for sandboxing, constants of the processor;
- reads with no effect: lists of tokens, files, pastes, users and messages, the moderators' lists of
  comments and reactions, public profiles, health counters;
- libraries: Fiber's limiters, the retries of the AWS client, River's scheduling beyond what `Server`
  and `FileStorage` assume of it;
- StreamLogs; a server without a database; notifications about contact messages, which are sent once
  and whose errors are logged;
- generated code (`pkg/pb`), about two fifths of the implementation's lines: messages and stubs made
  by buf.

Inside the modelled components, names, titles, contents, byte counts, `last_used_at`, dimensions and
blurhash are left out because no property depends on them. No query over several rows asks
`rows.Err`; that a list breaks off is modelled in `Reactions`, `LogSink` and `Analytics`, and lists
are read to their end elsewhere.

## Plan

Done: every component that keeps state and is not pure, generated or a library, with proofs of
every safety property the passing runs check.

Left: the liveness properties, if a prover for fairness and ENABLED is at hand; StreamLogs once a
caller can be authorised on it; a server without a database.

## How to run

    tlc -workers 2 -config MCTokenVerify.cfg MCTokenVerify
    tlapm Tokens_proofs.tla

`PROJECT.json` names the module and configuration of every run.
