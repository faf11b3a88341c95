# WorkBuddy-Proxy in TLA+

A verification development for the proxy under `src/`: TLA+ modules translated from the Go
code, TLC configurations that check them on small instances, and TLAPS proofs of what holds
for every value of the constants. `PROJECT.json` maps each definition to the source lines it
stands for, and lists runs, mutants, findings, hazards and theorems.

## 1. The system

A single Go process offers an OpenAI-compatible API and sends each chat request to one of many
upstream accounts. State is in memory, with `state.json`, the credential files `auths/*.json`,
`config.json`, `logs/*.json` on disk, and an optional copy in Redis.

| Component (source) | State | Operations | What is hard | What makes it correct |
|---|---|---|---|---|
| Account pool (`internal/pool/pool.go`) | `byUID`: disabled mark, cooldown (`until`, `coolKind`), breaker (`fails`, `retryCount`, `breakerUntil`), lock-free `inFlight`, credits, counters | pick, Acquire, Release, Cooldown, Disable, Enable, NoteError, NoteSuccess, ReenableIfCredits, Add, SyncToDir | one request makes several calls, others run in between; outcomes arrive in any order; the account may be deleted and added again meanwhile | leases counted exactly and within the limit; a pick is sound; it finds an account whenever one is usable; breaker and hard cooldown are not cut short |
| Persistence (`pool.go`, `cmd/server/main.go`, `redisstore`) | `dirty`, `persistFails`, `state.json`, the Redis snapshot | 5 s flusher, Flush, Close, load, RestoreFromSnapshot, SyncToDir | crashes, failing writes, unordered background writes to Redis, two sources at start-up | what was saved last is restored; deleted accounts stay deleted; every change is saved eventually |
| Session routing (`internal/session/session.go`) | `entries`: key → uid, lastActive | Resolve, touch, Bind, Unbind, gcOnce, LoadFromStore | Resolve reads, looks up and writes in three separate steps | a session keeps its account except for listed reasons; unused sessions are forgotten |
| Chat rotation (`internal/server/handler.go`, `modellimit.go`) | per request: `tried`, `heldUID`, `stickyUID`; shared: model limits | pick, acquire, refresh, call, penalise, rotate, bind | every exit must release the lease; sticky account, limit memory and penalties interact | one lease at a time; at most MaxRotate attempts; binding follows the answering account |
| Scheduler (`internal/scheduler/scheduler.go`) | next hours | check-in, keepalive | balances asked for earlier are applied later; a long round outlasts an hour | each hour has its round; accounts are revived only with credit |
| Credentials (`internal/auth`, `internal/upstream/client.go`) | tokens, `auths/*.json` | LoadDir, NeedsRefresh, RefreshToken, SaveAtomic | concurrent refresh; a save after a deletion or a new login | no refresh token is spent twice; the file follows memory; only a dead account is disabled |
| Admin API (`admin.go`, `admin_login.go`, `internal/login`) | login sessions, API keys, `config.json` | login poll, enable, disable, delete, key create/update/delete | unlocked read-modify-write; deletion races with login | memory and file agree after changes that did not overlap; a deleted key is refused; one login per login session |
| Statistics and request log (`stats.go`, `reqlog.go`, `logging.go`) | counters, ring buffer, two debounce flags | record, flushSoon, load | debounced flush, lazy load | what was recorded has a flusher; every view counts the calls of its scope; the newest calls are shown |
| Upstream (`client.go`, `sse.go`, `idle.go`) | per call | Classify, Stream, MonitorBody | errors in mid-stream, idle watchdog, slow clients | client, status and charge agree about the end; an active stream is not cut; a call ends when the upstream has fallen silent |
| Payload rewriting (`payload.go`, `sanitize.go`, `headers.go`, `tool_pairing.go`) | none | pure functions | pairing of tool calls in any order | what is sent is paired, and still what the client said |
| Redis mirror (`internal/redisstore`) | remote | SetBind, DelBind, SaveState, loads | unordered, failing | used for recovery only |
| `capture.go`, `cmd/login`, `cmd/credit`, `cmd/signin`, `scripts/`, `admin.html` | – | – | none | – |

Interactions: a chat request calls `session.Resolve`, then pool picks and leases, then upstream
calls, whose outcome it reports to the pool, the limit memory and the session. The session asks
the pool for `AvailableUIDs`. Scheduler, admin API and start-up change the pool from other
goroutines. Pool and session send copies to Redis from goroutines of their own. A call to the upstream runs with a watchdog goroutine; the end of a request goes
to the request log and the statistics, which flush from goroutines of their own.

## 2. Modules, state and actions

### Pool
One action per exported method of `*Pool`: each holds `p.mu` for its whole body. (`Acquire` and
`Release` look the entry up under the lock and loop on a compare-and-swap outside it; the loop
succeeds on one atomic step, which is the action. An entry deleted between look-up and swap is
unreachable afterwards, so the action may be placed before the deletion.)

* `members` = keys of `byUID`; `disabled`, `kind`, `fails`, `inFlight` as in the code. Deadlines
  are time left: `cool` for `until`, `breaker` for `breakerUntil`. `backoff` is the delay the
  loop of `recordBreakerFailureLocked` computes from `retryCount`.
* A caller (chat request, or the fetch of the model list) is in phase idle, picked (an account is
  chosen, no slot taken), held (it has a lease) or closing (outcome noted, not yet released).
  `Outcome` and the five actions on it are the upstream call with the penalties of
  `applyErrorPolicy` and of the success path. Errors without penalty (soft rate limits, request
  errors, client gone, timeouts) are `Release` straight from held. `PickExcluding` takes any `tried`,
  a superset of what the rotation loop (module Chat) can have tried.
* Scheduler and operator: `CheckIn`, `DisableAccount`, `Enable`, `AddAccount`, `DeleteAccount`.
* Left out: credits, success and error counts and the idle time, which bias the weighted draw
  (any candidate may be drawn: the short list holds the first five by weight, and any candidate may be
  among them), and the hint about `lastUsed`.

### PoolPersist
A record is a number that identifies the change that made it, so a file, a snapshot and the pool
can be compared. `SaveLocked` succeeds or fails; on success the snapshot joins `writes`, from
which it reaches Redis in any order, late, after the end of the process, or never. Start-up is `Load`,
`RestoreFromSnapshot`, `StartSync`; the end is `Signal`, `Close`, `Exit`, or `Crash` at any point.
`main` does not wait for the handlers once the listener is closed, so changes are possible until
`Exit`. `SaveLogin`/`AddLogin` and `DeleteFile`/`DeleteSync` are the two halves of a login and of
a deletion: other steps come in between.

Two assumptions: two saves are further apart than the resolution of the file's mtime, and nobody
removes `state.json` (a snapshot is ignored when there is no local file, as the code does).

### Session
`Resolve`, `LookUp`, then `Touch` or `Allocate` are the steps of `Router.Resolve` between its locks.
`seen` is the answer of `AvailableUIDs` at the start, used by the later steps as in the code;
`steady` is a history variable (accounts available the whole time since). `Unbind`, `Bind` and
`Fail` are what `chatCompletions` does with the key afterwards. Entries have an age in ticks, and
a request a delay since it read the clock. The pool is the set `avail`, which changes freely.
`hashIndex` is replaced by any choice. `mirrored[k]` is every account ever sent to Redis for `k`:
since writes are unordered and expire, a restart may find any of them or none.

### Chat and Leases
The rotation loop of `chatCompletions`. `req[r]` holds the local variables of request `r`: its stage in
the loop, `round` (`i`), `tried`, `sticky` (`stickyUID`), `held` (`heldUID`), `acct`, and what comes
after `fail()` (`next`: another round, or `return`). Shared are the pool's `inFlight`, the limit memory `limits`
and the session's `entries`. Each call on one of them is a step, so other requests act between pick, look
at the limits, Acquire, the upstream call, Release and Unbind; and so is each critical section of `Resolve`
(`LookUp`, then `Touch` or `Allocate`), so that a renewal may come after another request's Unbind.

The health of accounts is not in Chat. Between two steps of a request anybody may change it, so
a pick may find any account with a free slot, or none; this allows more than the code does, and what holds here
holds for every behaviour of the pool. The penalties of `applyErrorPolicy` are `HardCredit`, `NotFound`, `SessionDead`
and `ServerError` of Pool; `AccountFails` is the way all of them, a failed refresh and a transport error go on. `refused` and
`rebound` are history variables; `rebound` tells a binding another request decided on from one it only renewed.

`Leases` is what the counters promise, without counters: a request holds one account at a time,
an account is held by at most `MaxInFlight` requests. Chat implements it by the mapping
`holds <- {<<r, held>>}`.

### Credentials
The tokens of one account: Go objects `objs`, of which the pool's entry has one, and the file. A set
of tokens (access, refresh, expiry) is the number of its issue; `alive` are those whose refresh token
the upstream accepts. `Take`, `Ask`, then `Exchange`, `RefreshFails`, `AnswerLost` or
`Refused`, then `Save` or `Verdict` are the steps of a chat request and of the keepalive round between the
two critical sections of the object's lock (`RefreshToken` holds it during the call upstream, `SaveAtomic`
takes it again). `LoginStart` ... `PollEnable` are a login session and its polls (`sess.mu` is held
from `PollEnter` to the end), `MoveFile`, `LoadDir`, `SyncToDir` a deletion of this or of another
account. Who took an object that is replaced goes on with the old one: that is where the file goes wrong.
How old an access token is is left open, since whoever asks may find it fresh or not.

### Scheduler
`loop` is `Run`, `rounds` the scheduled and the manual check-in, which go through the accounts in the steps
`DailyCheckin`, `UserResource`, `SetCredits`, `ReenableIfCredits`; a request spends (`Serve`, at the
upstream) and deducts (`DeductCredit`) in between. A report counts only by its date and whether somebody
succeeded. Credits are whole, costs fractions (`Unit`); `frac` is `creditFrac`. `synced` and `clean` are
history variables: no request crossed the question for the balance. The clock counts hours.

### Records
What `chatStat.done` writes: first the ring of the request log, then the statistics, each under its own lock and
with the debounce of `flushSoon` (`dirty`, `asleep` = `flushing`, `starting` = goroutines before the lock). The
nested maps of `stats.go` are a function from cells `[uid, key, model]` to counters. `Boot` is the lazy load and
`BackfillLegacyStats`, `Restart` the end of the process at any moment, with a file possibly cut off: a file is the set
of contents that can be read from it, one or none (`Unreadable`). A view of one key of one account that has no entry in the
day or total asked for is `Panic`: there the code dereferences a nil `*acctStat`. A book also carries, as history variables, the bags of calls it was
made from. `RecordsAssumption`: a counted call has an account and a key, as `record` puts "-" for a missing one; the calls of
a file older than the account tree have neither; and no account or key is named as the marks `All` and `Nil`.

### AdminConfig
The five changing handlers of `admin.go`. None takes a lock: each computes the new value from memory (`Begin`), reads the
file, truncates and writes it, and assigns the field. `Write` may leave a broken file when another
handler's write came between truncation and writing. `Accepted` is what `withAuth` lets in: the main key and the enabled
ones, or whatever comes while the main key is empty. That a Go slice is assigned in several words is left out.

### Upstream and ChatStream
`Upstream` has the pure functions: `Repacked` and `Cleaned` (tool_pairing.go), the rewriting of fields
(payload.go, where a body that is no JSON and an effort the table does not know go out as they came), and the rules of `Classify` over markers. The two loops over the history are given by where they
leave each message: `Rank` is its block and its part of the block, and `InOrder` lists the messages by it. `ChatStream` runs them in one call:
`Prepare`, `Send`, then header, error or transport failure, then reading line by line (`Fill`, `TakeLine`, `TakeDone`,
`EndOfStream`, `ReadFails`), for a streaming client with a write after each line, for a sync client with
`Merge`; then the apology for an empty stream, `[DONE]`, and the charge. The watchdog is a party of its own
(`FoundIdle`, `Cut`: between its look at the clock and the cancelling others act), and so are the upstream and
the client, which may stall, for ever too, or leave. Frames are of seven kinds, usage with and without credit among them;
a frame's number stands for its contents. `CreditAfter` has the two readers of the credit: `parseSSELine` keeps the last
credit there was, `Aggregate` takes the last usage as it is. `SendBlank` is an upstream that sends what makes no line: together with
`MaxFrames`, which bounds what is kept of a stream, it lets an upstream drip for ever.

## 3. Runs

| Run | Checks | Shows |
|---|---|---|
| `pool` | `TypeOK`, `LeaseExact`, `LeasesWithinLimit`, `NoPhantomLease`, `NilOnlyWhenNoneUsable`, `PickSound`, `BreakerNeverShortened`, `HardCooldownLiftedOnlyBy`, `HardCooldownEnds` | the promises of the pool under every interleaving of two requests, check-in and operator; an account without credit comes back after 04:00 by time alone |
| `persist` | `PersistTypeOK`, `RestoresLatest`, `DeletedNotOnDisk`, `CleanMeansSaved`, `EventuallySaved` | restarts restore the last save; deletions hold; marked changes are saved |
| `persist_retry` | `FailedSaveRetried` (violated) | finding 1 |
| `session` | `StickinessLostOnlyBy`, `IdleSessionsForgotten` | a binding is lost for listed reasons only; idle sessions go |
| `chat` | `ChatTypeOK`, `HeldCounted`, `FailedAccountUnbound`, `NeverStuck`, `ImplementsLeases`, `RefusedNotAskedAgain`, `RotationAdvances` | every way out of the loop gives back its lease once; a failed account is neither asked again nor left bound, unless another request writes the binding; the rotation ends, and waits for nobody but the upstream |
| `late_touch` | `FailedAccountReallocated` (violated) | finding 3 |
| `credentials` | `NeverSpentTwice`, `DiskDivergesOnlyBy`, `DisabledOnlyIfDead`, `OneLoginPerSession` | no refresh token is sent after it was exchanged through the same object; the file differs from memory only for the listed reasons; a working account is disabled only by the operator or by a verdict on a replaced object; one login per session |
| `scheduler` | `HourServed`, `CheckedInTodayTrue`, `CreditsTrackBalance`, `CheckinRevives` | no planned hour is missed while the loop sleeps; "checked in today" is true; deductions keep the credits right from a clean check-in on; a cooled account is woken |
| `records` | `ViewsCountCalls`, `UnsavedHasFlusher`, `RingShowsNewest` | every view counts the calls of its scope, and fails only for a key of an account without an entry; nothing waits unsaved without a flusher; the ring is right after wrap-around and reload |
| `admin` | `FileMatchesMemory`, `GoneKeyRefused` | without overlap or failed write a restart loads what memory has; a key whose deletion did not overlap stays refused while there is a main key |
| `stream` | `WireContract`, `CallWellEnded`, `CutOnlyWhenIdle`, `ResponseEnds` | what goes upstream is paired; however a call goes, client, status and charge agree; an active stream is not cut; a call ends once the upstream is silent, unless its client takes nothing for ever |
| `error_body` | `ErrorAnswerEnds` (violated) | finding 2 |

Every property of a passing run has a mutant in `PROJECT.json`: a plausible mistake in the code,
written as an operator marked `Fault:` beside the right definition, under which TLC finds the
property violated. A run that expects a violation has one property, which is what the repository says of the program; the passing
properties beside it say what is left, with the case named as an exception. An exception is no claim about the hazard it names: such
hazards are listed in `PROJECT.json` with the violated property, or, if their property is among the further counterexamples of
section 5, without one and with a note.

### Bounds
* Pool: two requests and two accounts, so that two requests can meet on one account while the other
  is up, down or deleted. `MaxInFlight = 1` makes the limit bite with two requests. Only `a2` is
  deletable: `a1` shows what holds without deletion and `a2` what is left with it. A day has
  two ticks of unequal length, `hour = 0` before 04:00 and `hour = 1` after it (`DayLength = 2`,
  `FourAM = 1`). A 402 before 04:00 cools the account for three ticks, past the next midnight, as
  `nextDay4AM` does, and one after it for two: both are longer than a soft cooldown, and a 402 before
  04:00 can renew a cooldown set the day before. `BreakerThreshold = 2` distinguishes
  counting from opening, and `BreakerCooldownMax = 2` reaches the cap in one doubling. No counter
  is cut off: with `MaxInFlight > 0` the state is finite by itself. The proofs remove all these bounds.
* PoolPersist: `MaxChanges = 3` (e.g. two changes saved in turn and a deletion) and
  `MaxRestarts = 2` (an old snapshot may arrive after the first restart and be found at the second).
* Session: one key, two accounts, two requests in `Resolve` at once; `TTL = 1`, and `MaxDelay = 1`
  tick between the first and last step of a `Resolve`. One key is enough for the properties, which speak of each key by
  itself; other keys only take part in the choice of an idle account. Ages above
  `TTL + MaxDelay + 1` are not told apart (`MaxAge`).
* Chat: two requests, one session, two accounts and `MaxInFlight = 1`, so that the requests contend for the sticky
  account and for the other one; `MaxRotate = 3` is the code's default. One model is enough: the limits of one model do not touch requests
  for another.
* Credentials: a request and the keepalive, two polls of a login session, three objects and three sets of
  tokens: enough for a refresh, a login over it and a late save of the replaced object. Accounts share
  only the scan of a deletion, which the model can start at any time.
* Scheduler: a day of three hours with check-in at hour 1 and keepalive at 1 and 2; a round of the loop lasts at
  most one hour (`MaxLag = 1`), so that it may run into the next planned hour and past midnight. A credit has
  two fractions, a request costs one and the bonus is one credit, so that rounding matters.
* Records: two workers, two calls (one an error, of another account and model with the same key), three calls
  in all, a ring of two, `KeepDays = 2` and three days, one fault. The invariants of the proofs were checked on this instance, and with a
  window of one day and a ring of one.
* AdminConfig: the file has a main key at the start, or none; two handlers, four changes, two additional keys. `EnvKey` is not set: with `WB2A_API_KEY` the key
  in memory differs from the file by intention until the next restart, and `FileMatchesMemory` says nothing of it (the proof
  covers both).
* ChatStream: all histories of up to five messages of seven kinds (19 608), which has two parallel
  calls with both results and a notice between them; fields of the body vary one group at a time, since no rule
  looks at two groups. Efforts known, unknown and absent, and a body that is no JSON. Streams of up to three frames,
limits of one tick; what an upstream sends after its third frame is blank.
* Deadlock is checked except in PoolPersist, Records and AdminConfig, which stop when their bounds are used
  up, and ChatStream, which ends when the call has ended.
* Symmetry is used only in runs that check safety.

### Fairness
* `FairPoolSpec`: time passes. Nothing is assumed of requests, scheduler and operator.
* `FairPersistSpec`: the flusher's ticker fires until Close stops it, and a process past Close
  ends, since main returns. `EventuallySaved` is conditional on saves that work, because of finding 1.
* `FairSessionSpec`: time passes, the collector's ticker fires, and a goroutine inside `Resolve` goes
  on (it only waits for locks held for a bounded time). `IdleSessionsForgotten` is
  conditional on no request and no restart coming any more.
* Chat assumes no fairness: that a rotation ends is said by `RotationAdvances` (the steps left decrease) and
  `NeverStuck` (there is a step to take). A call, and the passing on of an answer, is one step of the model, of which nothing
  is assumed: the code does not bound its time (finding 2; client.go:387; no `WriteTimeout`, main.go:143-147).
* `FairSchedSpec`: time passes, the loop and its round go on (their calls go through
  the client `HTTP`, which has a time limit), and the billing service answers time and again (strong fairness of an answered check-in and balance:
  `CheckinRevives` is about them). It is conditional on no further restart, because an hour that has begun is not made up for.
* `FairStreamSpec`: once the call is sent the goroutines run and time passes (weak fairness of the handler's steps, the watchdog
  and the clock; not of the arrival of a header). Nothing is assumed of upstream and client. `ResponseEnds` is therefore
  conditional: it is about a call whose upstream some day sends nothing more, without having to say so
  (`FallsSilent`), and whose client some day is no longer stuck, be it that it reads or that it left (`TakesItsAnswer`). Neither
  follows from the code: a stream has no total limit by intention (client.go:387), and the server no
  `WriteTimeout` (main.go:143-147). Even then it may end in the reading of an error body, of which finding 2 speaks.

## 4. Proofs

Eight modules, `<Component>Proofs`, hold the theorems about a component for every value of its constants; `ChatProofs`
has Records in its second half, since writing down is the last step of a chat request (`chatStat.done`).
Every invariant and action property of the runs is a theorem, but for `NeverStuck`; `SessionTypeOK` is proved only.
Each theorem `PCorrect` states the property `P` that a run checks. What a proof assumes is the named `ASSUME` of the
component: ranges of the configuration (`max_in_flight` and `max_rotate`, hours within a day, ...), marks such as `NoAccount`
that are not accounts, and finitely many requests where requests are counted. The bounds of the runs
(`MaxChanges`, `MaxRestarts`, `MaxFrames`, ...) are any natural number here, which leaves nothing of the bound but that
histories are finite. Each inductive invariant was checked by TLC before it was proved.

**`PoolProofs`** (any accounts, requests, limits and durations)
* `TypeCorrect`: `TypeOK` is inductive.
* `LeaseExactCorrect`, `NoPhantomLeaseCorrect`, `LeasesWithinLimitCorrect`, by `LeaseInv`. `LeaseExact`
  alone is not inductive: one must know that the holder of an account nobody may delete is still a
  member (else `Release` would skip it), that an account which is not a member counts nothing, and
  that the counter is within the limit. `HoldersGain`, `HoldersLose` and `HoldersMove` say how one step
  changes the set of holders.
* `PoolImplementsLeases`: on the accounts nobody may delete, the pool implements `Leases`. An `Acquire` that succeeds is a `Take`,
  since by `LeaseInv` the counter it compares is the number of holders; `Release` is a `Give`; what
  else happens, to these accounts or to others, is a stutter. Accounts that may be deleted are left out: for them it is false (see
  Divergences). This refinement is proved only; no run checks it.
* `NilOnlyWhenNoneUsableCorrect`: a nonempty set of accounts in the fallback has one that expires
  first (`SmallestElement`), and an account that is neither healthy, disabled, out of credit nor
  full has a deadline (`FallbackFinds`).
* `PickSoundCorrect`.
* `BreakerNeverShortenedCorrect`, by `BackoffInv`: an open breaker has no more time left than the next delay,
  and that is within the cap; so a new trip never ends sooner than the old one.
* `HardCooldownLiftedOnlyByCorrect`, by `HardUntilNext4AM`: a hard cooldown never has more left than
  the time until 04:00 of the next day, so a second 402 cannot shorten it.

**`PersistProofs`** (any accounts, changes, restarts, snapshots under way)
* `PersistTypeCorrect`, by `TypeInv`: also that a process that is ending has a restart left, which bounds the count.
* `RestoresLatestCorrect`, `DeletedNotOnDiskCorrect`, `CleanMeansSavedCorrect`, together by `SafeInv`. None is inductive
  alone. The strengthening is `NewestAgree`: the file's mtime is the instant of the last save, and every snapshot of that instant, in
  Redis or on its way there, has the file's contents. So a snapshot that a start-up prefers to the file differs
  from it in nothing, however late it arrived. The three hold together because aligning the pool with a directory saves when it
  drops an account; `FlushSafe` and `SyncToDirSafe` are cited for every action that does one or the other.

**`SessionProofs`** (any keys, accounts, requests in `Resolve` at once, TTL)
* `SessionTypeCorrect`, `StickinessLostOnlyByCorrect`, by `SessionInv`: what a request knows to have been available all the time
  was in the answer it got at the start, so the `Allocate` that follows a live binding leaves it alone.

**`ChatProofs`** (any accounts, sessions, models, finitely many requests, any `MaxInFlight`, `MaxRotate`)
* `ChatTypeCorrect`, by `StagesInv`: what each stage of the loop says of the other local variables (`heldUID`, `stickyUID`, `tried`,
  the round), one record at a time, so that each action has to show only where the request goes on.
* `HeldCountedCorrect` and `ImplementsLeasesCorrect`, by `HeldInv`. All steps were first sorted by what they do to leases
  (`HeldChange`: one taken, one given back, none changed); counting and refinement then have three cases each.
* `FailedAccountUnboundCorrect` and `RefusedNotAskedAgainCorrect`, by `RefusalsInv`: a limit that refused a request is still in force,
  and the key's binding is the sticky account or the one this request left for a limit, unless somebody else
  has written it: decided on it, or renewed one it had looked up before (finding 3 is about the latter). The latter is what connects the two: the only way to a failed account would be through the sticky binding.

* `RotationAdvancesCorrect`: an own step is followed by a later stage, by the next round or by the end (`Nearer`, `OwnAdvances`), and
  the steps of others leave a request at its stage (`OthersLeaveStage`).

**`ChatProofs`, Records** (any workers, calls, accounts and old history, any `Capacity` and `KeepDays`)

The prover has no induction over data, and rings and views are folds. The proofs take the least counterexample
instead: a set of numbers with a member has a lowest one (`LowestOf`), so what holds of 0 and passes from n to n + 1 holds up to any n
(`CountUp`), and what passes to a finite set from its subsets with one member less holds of it (`SmallerFirst`). `Recursion` gets
from this that the function a fold chooses exists. On it rest `FillIs` (a list pushed into a ring is what the ring
holds), `TotalUnion` and `TotalRenamed` (sums over calls), and `ViewOfKey` (the merge of a key over the accounts).
* `RingShowsNewestCorrect`, by `RingInv`: the slots before `next` hold the last arrivals, newest last. A dirty log has a ring,
  and the list in the file fits into one, so that reading back loses nothing.
* `UnsavedHasFlusherCorrect`, by `SavedInv`: what is not saved is also *dirty*. Without this it is not inductive: a flusher that finds
  its store clean goes without writing. Each record starts a flusher of its own, whatever the flags say, which is what the
  mutant drops.
* `ViewsCountCallsCorrect`, by `BooksInv`, which says the same of the book in memory and of the one in the file. A tree *fits* its bag of calls
  if each of its counters is the count of the calls it covers, and is there if there is such a call; the lemmas are that one
  call added to the cells `RecordCells` keeps a fit (`FitsAddCall`), and that so does attributing old history (`FitsRelabelled`).
  The total fits, and so does every day of the window. As long as no call has an account, every day must fit, however old, since
  the backfill decides by the total and goes over all days; and a worker writes to today or yesterday at most, so
  that what it prunes is outside the window. An account has an entry in a tree if and only if there is a call of it in the bag, so
  a view is `Panic` exactly in the scopes the property names.

**`CredentialsProofs`** (any requests, polls, objects, tokens)
* `NeverSpentTwiceCorrect`, `DisabledOnlyIfDeadCorrect`, by `LockInv`: one process asks through an object at a time, the token it sends is
  the object's, and a verdict "dead" is true of the object until it is applied.
* `OneLoginPerSessionCorrect`, by `PollInv`: whoever is past the lock of the login session is alone there and the session is open.
* `DiskDivergesOnlyByCorrect`: a case distinction over all steps from `TypeInv`.

**`AdminProofs`** (any handlers, keys, allowlists, changes; with or without `WB2A_API_KEY`)
* `FileMatchesMemoryCorrect`, by `MatchInv` = `AloneInv` (a handler that ran alone finds the file as it wrote it), `AgreeInv`
  (a field whose last change ran alone agrees in memory, in the file and in what every handler has read: without the latter a
  handler of another field could write an old value back) and `TornInv` (a broken file is just being written).
* `GoneKeyRefusedCorrect`, by `KeysInv`: a deleted key is in no copy of the list: memory, file, what was read, what is to be set.
  It is about the time in which there is a main key, since without one every key is let in (handler.go:111).

**`SchedulerProofs`** (any accounts, requests, hours, lengths of day, costs)
* `HourServedCorrect`, by `HourInv`: the timer has no longer to run than until any planned hour; the lemma about `nextFire` is that
  it never passes over one.
* `CheckedInTodayTrueCorrect`, by `PaidInv`, through rounds, memory and file.
* `CreditsTrackBalanceCorrect`, by `AskedInv` and `OwedInv`: with the requests counted that were served and have not deducted, the
  difference between balance and pool stays within the rounding, so the order of deductions does not matter.

**`StreamProofs`** (streams of any length, any time limits, any request)
* `CutOnlyWhenIdleCorrect`, by `WatchInv`: while everything sent is in the buffer, the handler's silence is no longer than the upstream's.
* `CallWellEndedCorrect`, by four invariants. `AnswerInv` follows the lines taken (the last `[DONE]`, the last usage, the data
  frames, what the client has got) through the stages of the handler up to the end, with the credit a stream keeps from
  its last paid usage and the one an assembled answer takes from its last usage; `MergedInv` says that what `Aggregate` has put
  together lists those lines; `AggregatedInv` is the answer made of it; `BlameInv` is about error answers, with lemmas that evaluate
  `Classify` rule by rule.

* `WireContractCorrect`, for every history of messages and every body (`RequestAssumption`: messages and bodies have the
  fields and values the code tells apart, or are no JSON, and `NoId` is not an id; efforts the table does not know are bodies like
  others). `RepackedIs` and `CleanedIs`: what goes out is the client's history
  with the messages in the order of their ranks, less the results nobody asked for. `RankOrder`: two messages change places only when
  they stand in the same block, one a notice, the other a result (`WireOrder`). `WireBlocks`: the results of a call,
  when each id is used once and nothing interrupts the block, have the ranks next to the call's, and as there are as many as
  the call has ids they fill the places behind it. `IncreasingIsIdentity`: a history already in sequence has increasing
  ranks, so nothing in it moves.

Two formulas were corrected on the way, because the proof did not go through: `FileMatchesMemory` now exempts the main key when
the environment overrides it (with `WB2A_API_KEY` set, a change holds in memory until the next start), and a `CASE` in
`CallWellEnded` had two arms that could both apply.

### Model-checked only
The liveness properties (`HardCooldownEnds`, `EventuallySaved`, `IdleSessionsForgotten`, `CheckinRevives`,
`ResponseEnds`) and `NeverStuck`: fairness and `ENABLED` are out of the prover's reach.

## 5. Findings

Shown by the runs that expect a violation (`persist_retry`, `error_body`, `late_touch`):

1. `pool.go:390`: the dirty flag is taken down before a save that may fail and is not raised again,
   against the comments at pool.go:178 and 1112-1114.
2. `client.go:410`: the body of an error answer is read without a time limit, against client.go:384-387: the
   watchdog is started for good answers only.
3. `session.go:183`: `touch` writes the account looked up earlier. After an Unbind in between the session is back on the
   account that failed, against handler.go:389, session.go:202 and README.md:186.

Further counterexamples. Each has a property, beside the others of its module, that states what the repository says, and a
configuration under which TLC violates it, in a trace of the code's steps. They are not among the runs of `PROJECT.json`; e.g.
`tlc -config MCPool_hard.cfg MCPool` prints the one of finding 9.

4. `handler.go:546`: a session spared by the rate limit rule is rebound when another account answers, against
   CHANGELOG.md:58-59 and handler.go:424-425. `LimitedSessionStays` in `MCChat_limited.cfg`.
5. `stats.go:389`, `414`: a key of an account is looked up in the account's entry without regard to whether there is one; a
   day without calls of the account makes the page panic (stats.go:308-310, CHANGELOG.md:20-22). `OfferedScopesAnswered` in `MCRecords_panic.cfg`.
6. `admin.go:353`: two changes that overlap are both answered with ok, and a restart loads something else than memory has,
   against admin.go:203, 235 and 338. `AnsweredChangesSaved` in `MCAdminConfig_lost.cfg`.
7. `logging.go:135`: a stream whose last usage has no credit is charged the credit of an earlier one, against
   logging.go:87 and 107; the sync path takes the last usage as it is. `LastUsageCharged` in `MCChatStream_usage.cfg`.
8. `sse.go:365`: a stream that breaks off returns without the `[DONE]` promised at sse.go:291 and 373, and is recorded as 200. `DoneAlwaysWritten` in `MCChatStream_nodone.cfg`.
9. `pool.go:742`: `Cooldown` overwrites whatever cooldown there is. A 404 for a request in flight replaces
   a cooldown until 04:00 by one of 60 s, against README.md:163 and handler.go:638. `HardCooldownLasts` in `MCPool_hard.cfg`.
10. `admin_login.go:241`: a deletion applies a directory listing that a login may have outdated; the
   account just logged in leaves the pool, against README.md:26, until the next deletion or restart. `LoggedInServes` in `MCPersist_login.cfg`.
11. `session.go:142`: the second look under the write lock uses the accounts that were available at the start; a live binding
   to one that is available by now is deleted, against session.go:119. `AvailableBindingKept` in `MCSession_stale.cfg`.
12. `auth.go:127`: a refresh under way when its account is deleted writes the file again, and the account is back
   after the next scan, against CHANGELOG.md:14-15. `DeletedStaysDeleted` in `MCCredentials_deleted.cfg`.
13. `scheduler.go:99`: an hour that begins while a round still runs is skipped until the next day, against scheduler.go:1. `EveryHourServed` in `MCScheduler_hours.cfg`.
14. `scheduler.go:161`: a balance asked for before a request's deduction overwrites it, against pool.go:713. `CheckinReconciles` in `MCScheduler_stale.cfg`.
15. `reqlog.go:130`: the log is loaded at the first query. A request recorded before creates an empty ring, and the
   file of the earlier run is overwritten, against the comment at reqlog.go:129. `EarlierCallsKept` in `MCRecords_lostlog.cfg`.

### Divergences
What the models contain and no run states as a property, because the properties that hold name it as an
exception or leave it open:

* `pool.go:442`: deleting an account forgets its leases; added again, it takes more than `max_in_flight`
  requests (README.md:185). `LeasesWithinLimit` is about accounts nobody deletes.
* `auth.go:127`: a refresh under way at a new login overwrites the new tokens in the file (an exception of
  `DiskDivergesOnlyBy`); so does a write that fails after a refresh leave the old ones there, which handler.go:457 concedes.
* `tool_pairing.go:73`: a result of another call ends the block. If it stands between a call's results, the notices
  after it stay where they are, and the later clean-up removes only the stray result: call and result
  remain separated (`Interrupted` histories are exempt in `WireContract`). A history whose only tool traffic is a
  result without id is left as it is (tool_pairing.go:151).
* `idle.go:67`: the watchdog looks at the last read, not at the last arrival: a client that stalls longer than
  the idle limit gets an active stream cut (`excused` in `CutOnlyWhenIdle`).
* `client.go:410`: an error body that breaks off is classified by what has arrived.

## 6. Plan

The parts are proved apart. Worth stating next: that Chat's picks are those of Pool, in a composition of the two in which
`PickResults` replaces the free choice.

### Not modelled
* `sanitize.go`, `headers.go`, the extraction of the session key and the finding of markers in a text: string work
  without state.
* The model list: its cache and `FetchModels` (that a failed fetch counts against an account is `FetchModelsFails` of Pool;
  concurrent requests that find the cache empty each fetch, and each failure counts). The list itself decides nothing else.
* Region, domain and enterprise of an account, which never change.
* The weights of the draw: any candidate may be drawn.
* The connection to Redis and its fallback; `cmd/login`, `cmd/credit`, `cmd/signin`, `capture.go`, the scripts and the
  admin page: pure I/O.
* Draining at shutdown: `main` returns as soon as the listener is closed, which PoolPersist contains.
