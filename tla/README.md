# data-pipeline-core in TLA+

This directory is a verification project for `data-pipeline-core`, a Python SDK for
short-lived ingestion workers: TLA+ modules that model its components, TLC
configurations that check them on small instances, and theorems that the TLAPS
proof system checks for every instance. Paths below are relative to
`src/src/data_pipeline_core/` unless they start with `src/`.

## 1. The system

A *worker* is one process that makes one pass and exits (a Cloud Run job). `WorkerApp.run`
builds the parts, pulls records lazily from the project's `Source` through an optional
`Transform` into a `Sink`, counts what happened in a metrics registry and pushes it. The
`Source` fetches through `ctx.http`, which retries, asks a circuit breaker before each call,
and takes a token of the IP guard for each attempt. Several workers of one source run at the
same time, on machines of their own, and share Redis keys. Ingest workers land raw records in
files, transform workers replay them into a table or a Redis snapshot.

| component | source | state | operations | module |
|---|---|---|---|---|
| circuit breaker | `ingestion/circuit_breaker.py` | two Redis keys with TTLs shared by the workers of a source; or a counter and an opening time in the process; a gauge | `is_open`, `record_success`, `record_failure` | `CircuitBreaker` |
| HTTP client | `ingestion/http.py` | locals of the call under way, `request_count`, `proxied_count` | `request`, `read_until` | `HttpClient` |
| IP guard | `ingestion/ip_guard.py` | one Redis counter per source and window | `evaluate` | `IpGuard` |
| proxy router | `ingestion/proxy.py` | whether it is enabled | `should_use` | `IpGuard`, `HttpClient` |
| impersonation backend | `ingestion/impersonation.py` | buffer and abort flag of one stream | `request`, `read_until` | `ReadUntil`, `HttpClient` |
| worker run | `runtime/app.py` | exit code, clients, where the run stands | `run` | `WorkerRun` |
| lifecycle | `runtime/lifecycle.py` | stop flag, SIGTERM handler | `handle_shutdown`, `request_stop` | `WorkerRun` |
| metrics registry, push | `obs/*.py` | the run's series | set, count, push | `WorkerRun`, the gauge in `CircuitBreaker` |
| raw landing | `storage/staging.py` | files of a channel | `write`, `fetch` | `Staging` |
| latest cache | `storage/redis_cache.py` | Redis snapshots | `write` | `Sinks`, `Ids` |
| dlt sink | `storage/dlt_sink.py` | a table, kept by dlt | `write` | `Sinks` |
| record ids | `storage/ids.py` | none | `deterministic_id` | `Ids` |
| logging | `runtime/logging.py` | the lock of structlog's print logger | log calls, the SIGTERM handler's among them | `WorkerRun` |
| conformance kit | `testing.py` | passes and pulls of a probe | `check_sink_contract` | not modelled |
| settings, context, protocols | `runtime/*.py`, `storage/protocols.py` | none | | constants and assumptions |

How they interact: `WorkerRun` creates client, breaker, guard and proxy afresh for each run and
passes them down by reference; the client calls the breaker and the guard synchronously; the
breaker and the guard talk to Redis, which every worker of the source sees; SIGTERM interrupts
the run anywhere and sets a flag the source may poll; raw landing connects workers through files
alone; transform workers meet in the table and in the snapshots, which they write without locks.

What is hard about it: round trips of different workers interleave, and each of them may fail
with its effect done or not, or be made again by redis-py; the breaker's trip takes two round trips; the breaker is read once
and acted on for a whole call; time acts by itself (TTLs, cooldown, bucket boundaries) on clocks
that differ; the process may be killed between any two steps; exceptions take several ways out
of `run`; the SIGTERM handler takes a lock its own process may hold; files become visible before they are whole. `PROJECT.json` lists these hazards line by
line with the properties aimed at each.

What makes each part correct:

- *breaker*: a streak is consecutive; a full streak is followed by a halt, whoever dies; a halt
  lasts its time and no longer than the 429s that extend it; the gauge says what is the case;
- *client*: calls start only with the breaker closed; attempts are bounded, counted and seen by the
  guard; a call ends if its waits do; the error raised after the loop exists;
- *guard*: no attempt is forgotten within its window, and the direct budget holds;
- *run*: exit code, series and what was stored agree on every path; SIGTERM neither cuts a run short
  nor is forgotten, unless it meets a log call;
- *staging*: acknowledged data is kept, unchanged and replayed in full;
- *streams*: a read stops at once, ends, and is never taken for whole without a reason;
- *sinks*: what was reported is stored, replaying a record into a merging sink does not duplicate it, records
  with fields that can be told apart stay apart, and a finished run leaves no older snapshot of its own.

## 2. The modules

    Gate                    abstract: a gate in front of a source
      ^  implemented by
    HttpClient              request / read_until, attempts, meters, faults
      |  EXTENDS
    CircuitBreaker          the two backends, TTLs, commands sent again, restarts
    IpGuard                 fixed-bucket counter, modes, route
    ReadUntil               one stream over curl or httpx, chunk by chunk
    WorkerRun               one pass of the process, SIGTERM, push
    Staging                 raw files: writers, crashes, replays
    Sinks                   table and snapshots under replays
      |  EXTENDS
    Ids                     how fields become one id or key

    CircuitBreakerProofs <- HttpClientProofs
    IpGuardProofs, ReadUntilProofs, WorkerRunProofs, StagingProofs, SinksProofs
    MCHttpClient, MCIpGuard, MCStaging, MCSinks: values and symmetry for TLC

Operators named after "Mutant of X" in a comment are plausible bugs of `X`. No specification
uses them; `PROJECT.json` pairs each property with the mutant that breaks it.

### CircuitBreaker

`halt`, `streak` and their TTLs are the keys `breaker:{source}:open` and `:failures`; a key is
absent when its variable is 0, and the value of `halt` *is* its remaining TTL. `failures`, `age`
are `_failures` and the time since `_opened_at`, per process.

`command[w]` is what `w` has under way with Redis beyond one step. Every transmission of a command is a
step of its own: redis-py sends a command again whose reply was lost, and between two transmissions any
other worker may count, clear or trip, and the keys may expire. `RecordFailureShared` is the
transmission of the MULTI (line 99) whose reply arrives, `RecordFailureAgain` one that will be
repeated (at most `MaxResends` times, counted in `resends[w]`), `RecordFailureUnheard` the last one when
redis-py gives up. A reply at or over the threshold leaves `command[w] = "set"`: `w` owes the halt until
`SetHalt` (line 103), `SetHaltAgain` or `SetHaltUnheard`, which sets the halt but raises before the
gauge is published. `ClearStreak` and `ClearStreakAgain` are the DEL. Any command may also fail
without effect (`Raise`), and a process may end anywhere (`NewProcess`). `Tick` is the clock of Redis and of
the processes. `throttles` (429s first recorded since the last success or lapse), `repeats` (MULTIs sent
again since) and `lost` are history. That a 429 from before another worker's success can be counted after it
is what `repeats` says: the streak is at least `throttles` and at most `throttles + repeats`.

Time is in ticks, `Second` of them to a second, because a `float` cooldown becomes an `EXPIRE` of
whole seconds: `HaltTTL` is `max(1, int(cooldown))`.

### HttpClient and Gate

`HttpClient` extends `CircuitBreaker` and runs its operations inside calls. `pc[w]` is the
position in `request` or `read_until`; each step is a round trip: `Refuse`/`Admit` (the check of
`is_open`), `TakeToken` (`_begin_attempt`'s token), `Send` (route and send), then one of
`TransportFailure`, `Throttled`, `Respond`, `Escape`, then `Succeed`, `CountThrottle`, `Trip` or
`RaiseTransportError`. `request` and `read_until` differ in when they count the request, in
retrying, and in what they do with a transport error; all of these are in the actions. The
guard's verdict and `force_proxy` are a free choice of route here. `RedisError`, `Resend`, `ReplyLost` and
`Restart` are the faults. `BreakerSpec`, the breaker under any order of its operations, is what the breaker's
own theorems are about; TLC checks its properties under the client, where the calls order them.

`Gate` says what both promise together without keys or attempts: a worker enters only while the
gate before it is up, only a worker inside can bring it down (and leaves, unless its SET was not heard and
is sent again), and only time raises it (a private gate also dies with its process). The refinement maps `down[w]` to the halt's
TTL, or to what is left of the process's cooldown, and `inside` to the workers with a call under
way. It shows, for example, that an in-memory breaker that nobody asks for a while, and an expired
key, are the same thing to callers.

### IpGuard

`counter[b]` and `ttl[b]` are the keys `ratelimit:{source}:{b}`; workers' clocks differ by a constant
skew, so a worker may already count in the next bucket. `Attempt` is `evaluate` plus
`should_use`: atomic, because the route depends only on the count the MULTI returned. `taken`,
`direct` and `recent` are history; `recent[i]` counts the attempts from the own IP since the tick `i`
ticks ago began, so that `recent[Window - 1]` is those of the last window, wherever buckets begin.

### WorkerRun

One action for each place where `run` can be interrupted or fail: `Setup`, `Install` (the
handler), `Land` per record, `Written`, the except clause (`Fails`), the else clause (`Report`), the
finally clause (`Count`, one `Close` per client in order, `Push`), `Restore`, `Exit`, and
the failures of each. `code` says what the project's own code is like: *careless* code raises
`BaseException`s or returns results the counters refuse, a *polling* source runs until
`should_stop`, and its log level may let a warning through or not.

`_on_sigterm` logs before it sets the flag, and structlog's `PrintLogger` prints under a lock that is not
reentrant. So `Sigterm` has three outcomes: the flag is set; or, where the main thread may be inside
a log call (`Logging`; in the `try` also the client's and the worker's own), or the handler inside that of an
earlier signal, the handler waits for ever for the frame it interrupted (`hung`); or, outside of the block,
the process ends. A push may deliver everything, nothing, or with OTLP a part of the series.

### Staging

A file of a channel is `phase`, `rows` (records handed to it), `seen` and `tail` (what a
reader finds: whole rows, and perhaps a piece of one more). A local file is visible from `open` and
`Flush` lets any prefix of its bytes arrive; an object appears at `close`. `Raise` (a record or
`json.dumps` raises) closes the file by way of `with`; `Lose` is a kill or a failing close. The
replay lists once (`List`) and then reads files and lines one step at a time while writers go on.

### ReadUntil

One `read_until` from the send to what the breaker hears: `Answer` (the status line), `Chunk` (the
writer callback of curl, or an iteration of httpx, with the predicate asked each time),
`PredicateRaises`, `End`, `Break`, `TimeOut`. Bodies are lengths, and the predicate is any set of
them, so that it may hold, stop holding, and never hold. curl's `perform` returns once for an abort, an
exception in the writer, an end and a failure alike; what the code makes of it (`aborted`, the status) is
`Fail` and `Return`. The timeouts are the backends' own: for the whole transfer, truncated to
seconds and at least one, with curl, to which 0 would be no timeout at all; for each silence with httpx. The breaker's admission, before
the send, is `HttpClient`'s.

### Ids and Sinks

`Ids` is `deterministic_id` and the key of the Redis sink over fields that are None or sequences of
characters, with a real join. In `Sinks` the raw records grow (`LandRaw`), and runs of several transform
workers replay what had landed when they listed it (`Start`; that a replay is complete and in
order is `Staging`'s result), record by record (`Pull`: a SET in the Redis sink, a hand-over to dlt in the
other). A load of dlt is atomic and external: it happens with `Finish`, may happen although the
run fails (`FinishUnheard`), or not at all (`Fail`). `acked`, `unheard` and `author` are history.

With a `primary_key` the code selects Delta (lines 47-48), and `Upserted` is Delta's upsert, which does not
deduplicate what it loads: an id without a row gets a row for *each* record of it in the load (the load
that creates the table is the case where no id has one), and the rows of an id that has some become rows of the
records of it that were loaded, whichever. Two observations of an entity in one load thus leave
two rows of its id, and `ReplayIsIdempotent` does not deny it: it says that loading the *same* record again,
in whatever runs, leaves one row.

## 3. The runs

| run | instance | shows |
|---|---|---|
| `HttpFleet` | 2 workers, 2 attempts, threshold 2, a cooldown of half a second, 1 resend, fair | a full streak has a halt or somebody who owes it (`OwedHalt`); the streak is made of what was sent since the last success (`StreakIsConsecutive`), trips are earned (`TripIsEarned`), halts never cut short (`NoEarlyCancel`); the loop's assertion, the gauge of a refused worker, at most one call's attempts per worker under one halt (`OverrunBounded`), a token per attempt (`NoUnseenAttempt`), refinement of `Gate`; halts lift, calls end if their waits do |
| `HttpMemory` | 1 process, 3 calls, proxy, any exception | the private gate; gauge, opening time and counter agree (`MemoryAgrees`); `ProxiedAreCounted` |
| `GuardBuckets` | 2 workers, skew up to 1 tick, 3 buckets of 2 ticks, 1 resend | the count is complete while its bucket lasts, the budget per bucket and per window |
| `WorkerRun` | any code and log level, up to 3 records, Redis | exit code and pushed series agree; SIGTERM does not cut a run short, and ends it unless the handler hangs |
| `ReadUntil` | both backends, every predicate on bodies of up to 4 lengths, a timeout of half a second | a read stops at once, a partial body has one of two causes, the breaker hears of answers alone, every stream of curl ends |
| `Staging` | 2 writers, 3 files of up to 2 rows, 1 replay, both stores | acknowledged rows are replayed and immutable, replays are in order, only torn local lines raise |
| `Sinks` | 2 workers, 3 runs, 3 records of 4 entities, all three sinks | what was reported is stored, replaying a record into a merge does not duplicate it, plain entities are kept apart, a finished run leaves no older snapshot of its own |

Five runs refute a claim of the repository's documentation; each is a finding in `PROJECT.json`:

- `WorkerStatus`: a run that ends in a `BaseException`, or in an exception of its else clause, is pushed
  as `worker_runs_total{status="success"}` while it raises.
- `SigtermStuck`: a SIGTERM inside a log call of the main thread blocks in the handler's own log call, and the
  stop flag is never set.
- `ProxyRatio`: an attempt through the proxy that ends in an exception other than `httpx.TransportError`
  (a body that does not decode) is in `proxied_count` and not in `request_count`, and
  `proxy_usage_ratio` exceeds 1.
- `StagingTorn`: on a local bucket a worker killed in the middle of a line leaves a file no replay
  gets past.
- `StreamBroken`: a curl stream that breaks or times out behind its status line is returned as if
  complete, and a 2xx of it is a success to the breaker; httpx raises.

`ProxiedAreCounted` is what does hold of the two counters: between calls they differ by no more than
such sends of `request`; `read_until` counts before it sends. And the breaker is read once per call,
so a halt does not stop calls that were let in before: `OverrunBounded` says how many sends that makes.

### Bounds, and why they suffice

- Workers of a source differ in nothing but their name. Every property relates one worker, or two (one
  that acts and one that finds out), to the shared keys, so two show the interleavings; the theorems
  cover any number. `SYMMETRY` is used in safety runs alone, so `HttpFleet`, which checks liveness
  too, has none.
- `MaxStreak` saturates counters one step above the threshold: the code compares with it only.
- `HttpFleet`'s threshold of 2 is the least at which a streak is more than its last 429.
- `MaxResends` 1 gives a duplicate, with the steps of the others in between; more are only larger counts.
- `MaxCalls`, `MaxCount` bound the calls of a process and the meters. In `HttpFleet` one call per worker
  and process is enough for calls that overlap halts, and `Restart` gives each worker further calls;
  `HttpMemory` makes three in one process, so that a breaker opens and is asked again.
- Halts of 2 ticks let other workers act before, within and after a halt, and let TTLs that
  started one step apart expire apart. In `HttpFleet` the cooldown is below a second, where
  `max(1, int(cooldown))` bites.
- `GuardBuckets` has three buckets so that a key's TTL of two windows runs out within a behaviour.
  Time is bounded there, in `WorkerRun` the process exits or hangs, a call of `ReadUntil` ends, and `Sinks` bounds its runs: these cfgs set `CHECK_DEADLOCK FALSE`.
- `ReadUntil`'s timeout is below a second, where the truncation of `max(1, int(timeout))` bites, and ticks
  are half seconds. Lengths up to 4 let a predicate hold, be missed by a chunk that is too long, and
  hold again; longer bodies it rejects.
- The four entities of `Sinks` hold a pair that reads the same without a separator, and a pair that a None
  and a separator within a field give one id. Three runs of two workers overlap and one of them
  replays; three records let a key have an old and a new record and another entity between.
- Three files let a replay list one, meet a second growing and miss a third; two rows are the least
  with a row before a torn one.

### Fairness

`HttpFleet` assumes that the clock runs, and that a call goes on where it waits for nobody: the send after the
jitter sleep, and the raise behind the loop. It assumes nothing of Redis or of the upstream: httpx's
timeout is for each read, of an ordinary request's body as of a stream, and `make_redis` sets no
socket timeout, so a wait for either may last for ever. `CallReturns` is therefore conditional: a call ends
if each of its waits does, that is, the retry loop does not go round for ever. No call need ever
start, and no fault need ever happen or stop. `HaltLifts` needs time alone: a 429 extends the halt,
but nobody is admitted under it, so at most the calls already inside can extend it, answered or not.
`ReadUntil` assumes that time passes and that both backends see to their timeouts, and nothing of the server:
`StreamEnds` holds of curl whatever it does, of httpx if it stops sending.
`WorkerRun` assumes that the process is scheduled, that worker code returns from each record, and that
closes and push end (both pushes have timeouts); no failure is promised, and a handler that hangs never goes on.

## 4. The proofs

The proof modules are for arbitrary sets of workers, thresholds, cooldowns, attempts, windows, timeouts,
entities and bounds, under the named assumptions of the modules they extend.

- `CircuitBreakerProofs`: `BreakerInv` is inductive: types, `OwedHalt`, `StreakIsConsecutive`,
  `MemoryAgrees`, and `OnlySharedTrips` (a command is under way only with Redis). `OwedHalt` alone is
  not inductive: that a SET covers every streak there can be needs the type's `streakTTL <= HaltTTL`,
  and `HaltTTLPositive` (a cooldown never rounds to 0) is needed for the types. A transmission of the MULTI adds one to
  the streak and to just one of `throttles` and `repeats`, and a DEL or a lapse clears all three
  (`CountFailureInv`), which is why it does not matter what comes between two transmissions. From
  the invariant follow the two action properties: `HaltNeverCut` by looking at which operations write
  `halt`, `TripsAreEarned` from `StreakIsConsecutive` after the step.
- `HttpClientProofs`: `ClientInv` adds what ties a call's position to the rest: `CommandsAreCalls` (a command
  under way belongs to the position that sent it, and `trip` is exactly an owed SET);
  the loop's `attempt` is within range and `exhausted` comes
  only behind a transport error of `request`; tokens cover the counted requests and those still to be
  counted; sends proxied and not yet counted are accounted for; and for `OverrunBounded`, the sends a
  worker has made under the present halt are covered by the attempts of the one call it can have
  been inside with. One lemma per action. The refinement of `Gate` needs `ClosedInCall` besides (in
  memory, a worker inside a call has a closed breaker: nobody else can open it), else a success inside
  a call could raise a private gate. Each step of the client is a step of the gate or a stutter; a SET that
  is sent again is a drop by a worker that stays inside (`StartHaltDrops`).
- `IpGuardProofs`: `CountIsComplete` is about the clocks that are in a bucket now, and the clock moves; what
  a tick keeps is `KeyOutlives`: as long as any possible clock may still be in a bucket, its key has
  at least that long to live, and counts every attempt made in it. It starts with a token (two
  windows, against a skew of at most one), which needs facts about quotients proved first.
  `DirectBudget` is inductive with it. `WindowBudget` looks like a sum over the ticks of a window, which
  only induction over its length could bound. What makes it inductive without one is to say where
  the attempts of the last `i` ticks are: `RecentPlaced` bounds `recent[i]` by what left directly in
  the buckets that some clock was in since then. A window and a skew of at most one reach into
  three buckets at most (`TouchedCovers`), and `DirectBudget` bounds each.
- `ReadUntilProofs`: `OverOrRunning` (nothing is recorded, ended or cut before the call is over) makes
  the three properties inductive. All ways out go through one lemma, `ReturnKeeps`.
- `WorkerRunProofs`: `HandlerOK` (the handler is in place exactly inside the block), `EndOK` and
  `RegistryOK` (registry, exit code and ending at each place) and `EscapeOK` (what careful code lets out
  of `run` comes from the setup or a close). `PushedAgrees` follows because what is pushed is a
  part of the registry at the push, and nothing changes the registry afterwards.
- `StagingProofs`: `WritersOK` (an open file has one writer) and `FilesOK` (what a reader finds in a
  file of each phase, and a result only of a closed file) give the types, `RawIsImmutable` and
  `RaisesOnlyTorn`. On top of them `AckOK` (the rows of a promised file are yielded, or the file is
  still left) gives `AckedIsReplayed`: a file is let go of only when the replay has come past
  everything it holds, and that is its result. `OrderOK` (where the last row yielded lies) gives
  `ReplayInOrder`, with the fact that a set of names has a least one.
- `SinksProofs`: that a text joined from two fields without the separator is joined from them alone
  (`JoinedApart`: the separator stands where the first field ends, and nowhere else), whatever the
  other fields are; what a load leaves of the table (`MergeLeaves`, `AppendAdds`), which for an upsert needs the
  rows of an id to be counted (`RowsCounted`: if one record of it is in the table, they are that record's);
  `LoadedOK` (a row is of a record that some run loaded), without which `ReplayIsIdempotent` is not
  inductive, because a record could have been in the table before its first load; and `SnapshotsOK` (none
  of the records its writer has pulled so far is newer than a snapshot), which at the end of the run is
  `FinishedIsNewest`.

### What the proofs say of liveness

Liveness itself is TLC's: it needs `ENABLED` and fairness. But the argument behind each of the four
liveness properties is a quantity that cannot go down for ever, and that part is proved, for every value
of the constants, as an action property of the specification:

| property | variant | theorem |
|---|---|---|
| `CallReturns` | `StepsLeft(w)`, at most `3 * Attempts + 2 * MaxResends + 2`: every step of a call and every fault that meets it uses some up, and the steps of others and the clock leave it alone | `CallsRunDown` |
| `HaltLifts` | the steps left of the calls inside, then `halt`: under a halt no worker gets steps back, only a step that uses some up extends the halt, and each tick lowers it | `HaltsRunDown` |
| `StreamEnds` | `TimeLeft`, at most the timeout: every step but an arrival takes some, and an arrival gives time back under httpx alone | `TimeRunsOut` |
| `StopEndsRun` | `Left`: places, clients to close, records to land. Every step uses some up, no signal adds any; after a signal at most nine are left of a run whose source polls, however many records there are, and one of them can be taken, unless the handler hangs in its log line | `RunWindsDown` |

A retry that is not counted, a call let in under a halt, curl's timeout taken per silence, or a flag nobody
sets breaks these as it breaks the liveness properties. What is left to TLC is that the steps fairness
asks for are enabled, and that fairness then takes them.

Only model-checked: the four liveness properties, for that rest. Every invariant, action property and
refinement of a passing run is a theorem. Mutants and violations are TLC's by nature.

## 5. Not modelled, and abstractions

- Headers, user agents, request bodies, log lines, label sets and the OTLP encoding are left out; lengths
  of sleeps are left out, their interleaving is kept.
- `http_status_total`, `request_rate`, `ingestion_lag_seconds` are set once from a value.
- Redis eviction, failover and `FLUSHALL` are outside: keys disappear by expiry or `DEL` alone.
- The worker's clock never goes backwards within a process (`time.monotonic`); wall clocks keep a
  constant skew.
- SIGKILL of a worker run is in `HttpClient` (`Restart`) and `Staging` (`Lose`); `WorkerRun` is about
  SIGTERM, whose default action is the same end of the process.
- The previous SIGTERM handler is taken to be the default one.
- dlt itself: schemas, staging tables, and a package left pending by an earlier crash, which the next
  `run` may load in place of the records it was given. A load is taken to be atomic, the creation of the table
  by the first one included. Destinations other than a file system merge by deleting and inserting with
  deduplication, and with an explicit `table_format` other than Delta by that format's own means; these are not
  modelled.
- `deterministic_id` of other than two parts, `str()` of parts that are no strings, and SHA-256, which is taken
  to be injective. That None and "" are one id is known to the repository's tests and is in `Ids`; no
  property claims the contrary (`Plain`).
- `get_snapshot`, `make_redis` and the JSON encoding of records, snapshots and rows: they change nothing
  the properties see.
- The conformance kit. It certifies counts over one sample, and accepts sinks that draw records without
  persisting any (the repository's tests have one, `src/tests/test_testing.py:23-28`), so that nothing about a
  run follows from its verdict beyond what its few sequential checks say themselves.
- Headers and cookies of an impersonated session, its `request` beyond being a send, and the response
  adapter.
- Logging beyond the lock its print logger takes: configuration, levels other than the handler's, rendering.

## 6. Plan

Done: breaker, client, gate, guard, stream, run, staging, sinks, ids; proofs of all safety properties and of the
refinement, and of the variants behind the liveness properties.

Left, most useful first:

1. Composition of `WorkerRun` with `HttpClient`'s meters, so that the proxy ratio pushed is the one at exit.
2. An abstract store for `Staging` (a log that grows by whole files and is replayed in order) and the
   refinement to it.
3. dlt's pending packages, if the code comes to rely on what a rerun finds of them.
4. `get_snapshot` and a reader between two SETs of a run, once something in the repository reads snapshots
   across keys.
