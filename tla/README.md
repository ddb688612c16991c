# CensorHub in TLA+

A verification project for CensorHub (`src/`): a service that filters texts
against a lexicon of sensitive words kept in MySQL, with an Aho-Corasick engine
that is swapped at run time, a two-level result cache (process memory and Redis)
and a circuit breaker around Redis. It serves HTTP and gRPC. The modules model the parts that run
concurrently or can fail half-way, the `.cfg` files check them on small instances
with TLC, and the `*Proofs` modules prove with TLAPS, for every value of the constants,
the invariants and the refinements that the runs check. `PROJECT.json` maps each definition
to the lines it models.

## The system

| Part | State | Operations | What makes it correct |
|---|---|---|---|
| Word management API (`word_app_service.go`) | none of its own | Create, Update, Delete, Import, Get, List | the table stays consistent under concurrent requests; every change is seen by the poll |
| CSV export (`ExportToWriter`, `FindInBatches`) | the batch it is at | one query and one flush per batch | no row that was there all the time is missing, none comes twice |
| Word repository (`persistence/mysql`) | `sensitive_words`: id, unique text, status, updated_at | Create, Save, Delete, BatchCreate, FindAllActive, ActiveFingerprint | equal fingerprints mean equal active rows, as far as stamps and commits come in one order |
| Fingerprint poll (`word_app_service.go`) | lastFingerprint, its cancel function | InitEngine, Start, pollLoop, reconcileOnce, rebuildWithRetry, Close | a skipped tick misses no word; failures are made good; Close ends the loop |
| Filter engine (`filter_engine.go`) | current automaton, version | Match, Version (lock-free), Rebuild | readers never see half a rebuild |
| Aho-Corasick automaton (`ac_automaton.go`) | trie, fail pointers, outputs | NewAhoCorasick, SearchNormalized | finds exactly the occurrences of the words |
| Filter service (`filter_app_service.go`) | none of its own | Filter, Detect, Replace, Highlight, BatchDetect | no answer from an outdated lexicon; a batch is complete |
| Local cache L1 (`local_cache.go`) | 32 locked shards | Get, Set, DeleteByPrefix, eviction | bounded, one value per key |
| Redis cache L2 (`redis_cache.go`) | keys shared by all processes | Get, Set, DeleteByPrefix (SCAN) | may fail at any time without wrong answers |
| Circuit breaker (`circuit_breaker.go`, `multi_level_cache.go`) | state, failCount, halfOpenSuccess, lastFailTime, gauge | Allow, RecordSuccess, RecordFailure, IsOpen | trips in an outage, closes after it |
| Process life cycle (`cmd/server/main.go`) | life-cycle context, open clients, two servers | start-up, signal, shutdown in bounded steps | loads before it serves; drains before it closes; ends |
| Strategies, normaliser (`strategy_*.go`, `text_normalizer.go`) | none | Detect, Replace, Highlight, Normalize | masks cover exactly the matched words |
| Rate limiter (`ratelimit.go`) | a map from client to token bucket and lastSeen | getLimiter, Allow, cleanup | one burst per client; the map does not grow for ever |
| HTTP and gRPC interfaces (`interfaces/`) | the requests in flight | routes, rate limit, authentication, handlers, recovery | health checks pass both gates; a panic ends one request |
| Configuration, database clients, logging, tracing, metrics | open connections | open, close | a failure ends the start-up |

How they interact. Management requests, in any process, write the shared table and
nothing else. Each process polls the table on its own: a goroutine compares the
triple (COUNT, MAX(id), MAX(updated_at)) of the active rows with the last one it
acted on, reloads and swaps the engine when it differs, and clears the cache prefix
`filter:`. Filter requests read the engine's version without a lock, look for a
cached answer under (strategy, version, hash of the text) in L1 and then in Redis,
and otherwise match and store. All accesses to Redis go through one breaker per
process. `main` opens the clients, loads the engine, starts the poll loop and the two
servers in goroutines of their own, and on a signal stops them one after the other
before the deferred calls close the clients.

What is hard. A request, the poll loop and the handlers of other processes
interleave at every query, load and store, and no lock spans two of them: the
fingerprint and the load are two queries, the automaton and its version two stores,
Version and Match two loads, SCAN many commands, Allow and the recorded outcome
far apart, a bucket is found and used while the sweep deletes it, every batch of an
export is a query of its own, and the shutdown runs while requests do. Queries and
Redis calls fail, contexts are cancelled, processes die and
start again while Redis and MySQL keep what they have. `hazards` in `PROJECT.json`
lists these places line by line, with the properties that watch them.

## Modules

| Module | Models | Extended by |
|---|---|---|
| `WordRepo` | the table, its statements and the fingerprint, as operators on sets of rows | `WordAppService` |
| `WordAppService` | management handlers, start-up, poll loop, crash and restart | `MCWordAppService`, `WordAppServiceProofs` |
| `FilterAppService` | the filter path over engine, L1 and Redis, with rebuilds under way | `MCFilterAppService`, `FilterAppServiceProofs` |
| `CircuitBreaker` | the breaker under the calls of MultiLevelCache | `MCCircuitBreaker`, `CircuitBreakerProofs` |
| `FreshAnswers` | what the filter service of one process promises, without caches or versions | instantiated by `FilterAppService` |
| `BatchDetect` | the worker pool of a batch | `BatchDetectProofs` |
| `BatchSpec` | what a batch promises its caller: one answer, in one step | instantiated by `BatchDetect` |
| `RateLimiter` | the per-client buckets, concurrent requests and the sweep of idle clients | `RateLimiterProofs` |
| `WordExport` | the CSV export, batch by batch, over a changing table | `Server` |
| `Server` | the process: start-up, servers, requests in flight, shutdown | `ServerProofs` |
| `AhoCorasick` | construction of the automaton and search | `MCAhoCorasick`, `AhoCorasickProofs` |
| `Strategies` | normalisation of a text and what Detect, Replace and Highlight make of its matches | `MCStrategies`, `StrategiesProofs` |

`WordAppService`. `table` is a set of rows, `req[h]` the request a handler is
executing. A handler takes one step per repository call: look-up (`CreateFind`,
`UpdateFind`, `DeleteFind`; `ImportBegin` has none), `Stamp` (gorm reads the clock
before the statement), and the statement (`InsertExec`, `SaveExec`, `UpsertExec`,
`DeleteExec`). gorm's Save is an UPDATE and, when that touches no row, an INSERT ...
ON DUPLICATE KEY UPDATE; its zero status takes the column default. What a
statement does is external code, modelled from how `word_repo.go` calls it.
`RequestError` may end a request before any of its calls takes effect. The stamp is
what the clock shows, and the clock moves by an action of its own (`Tick`): two writes
may overlap, commit in another order than they were stamped, and carry the same stamp.
All processes read one clock, which never goes back; clocks that differ between hosts
would add to the ways a write can hide. `pc[i]` is
the program point of process i: `initLoad`, `initFp` (InitEngine's two queries),
`wait`, `fingerprint`, `load`, `backoff`, `rebuild`, `invalidate` (pollLoop and what
it calls), `exited`, `down`. Each query has a success and an error action; a process
may die at any point and start again, any number of times. `base`, `cand`, `standing`,
`candStanding` and `trusted` are history variables which only the properties read. The
standing of the active rows at the moment a fingerprint is taken of them says what can
still be written beside them: *settled* if every write to come will carry a later stamp
than all of them; *tied* if one may carry the same stamp as one of them (the clock has
not moved on, or a handler holds that stamp); *overlapped* if a handler still holds an
older stamp than one of them. `base` and `cand` are the settled rows when lastFingerprint
and fpBefore were taken; `trusted` is whether the engine was loaded from what the
recorded baseline describes.

`FilterAppService`. The lexicon is its generation number, so an answer is the
generation of the automaton that computed it, and "older" is "<". `lexAt[i]` is the
sequence of generations that the versions of process i announced; its length is the
version counter. `Filter` takes one step per access to shared state: version
(`FilterBegin`), L1, Redis, backfill, `Match`, store in L1, store in Redis. `Rebuild`
stores the automaton (`RebuildStore`) and then bumps the version (`RebuildBump`); the
prefix is deleted shard by shard and page by page. Redis may miss, fail or drop a key
whenever it is asked, which also stands for the breaker being open. `Answers`
instantiates `FreshAnswers`: `newest` is the table's generation, `announced` the one
of the current version of the process, and a question is asked, answered with a
generation, and done.

`CircuitBreaker`. Each caller is somewhere in Allow's fast path, Allow's slow path,
a Redis call, the recording of its outcome, or the update of the gauge; bodies under
`cb.mu` are one step. Time is one bit, `cooled`: resetTimeout has passed since the
last failure. `RedisError` is a call that fails because Redis is down or because the
context of its request was cancelled: the code does not tell them apart.

`BatchDetect`. The sender, each worker and the cancellation are separate actors; the
channel is a sequence, a slot of `results` is nil, clean or hit. `Batch` instantiates
`BatchSpec`: until it is returned the answer is pending and its slots are empty.

`RateLimiter`. `limiters` is the sync.Map, `call[r]` the getLimiter(key).Allow() of a
request, with one step per access to the map, to lastSeen and to the bucket; `sweep` is
the cleanup goroutine, which visits the keys in any order and looks at lastSeen before
it deletes. Time is relative: `age` is how many ticks of the sweep (five minutes) ago
lastSeen is, `call[r].now` how long ago the request read the clock. `Pause` and `Tick`
fill the buckets and begin a new burst; `granted` (history) counts the requests of the
current one, `evicted` (history) the clients that lost an entry which was in use.

`WordExport`. A row is its id and status. `ExportBatch` is a query behind the last id
of the batch before (gorm's FindInBatches pages by primary key) and its flush; `Write`
is any statement of a management request, here or in another process; a deleted id may
come back, by gorm's Save. `due` (history)
are the rows that have matched since the export began.

`Server`. `main` is the place main() is at: the steps of the start-up, `serve`, the
steps of the shutdown, or how the process ended (`exited`, `fatal` by log.Fatal or
os.Exit, `killed` by a signal before signal.Notify). The gRPC goroutine listens and
then serves, the HTTP goroutine does both in one call; each meets a server that may
have been stopped already. While the process lives a request is accepted by a server
that is serving; it passes rate limit and authentication, in the order
of the routes and the interceptors, and is handled in any number of steps; `/healthz`
and `/readyz` (and `/metrics`, which is one of them to the model) skip both, and so does
the health service's Watch, a stream in a chain of unary interceptors. Close,
GracefulStop and Shutdown return when they have nothing to wait for, or when their
timer goes off; Shutdown's ten seconds began before the gRPC server was stopped, so its
timer may have gone off already. A handler that is still running then goes on running. `forced`
(history) are the waits that ended by timer. What the handlers do to the lexicon, the caches and the
poll is in the modules above; here a word handler is one statement or none.

`AhoCorasick`. A node of the trie is the sequence of runes that leads to it; fail
pointers and outputs are functions on nodes. Words are inserted one after the other,
the children of a node are enqueued in any order (Go's map order), and a search walks
one rune per step.

`Strategies`. `Becomes` says what normalisation makes of a rune: itself, another rune
(folding), nothing (zero-width) or several (ligatures). The matches of the normalised
text are the occurrences that `AhoCorasick` shows the automaton to find; Replace fills
`masked` and Highlight merges `intervals` one match after the other, equal starts in
any order, and both write the original when its length is that of the normalised text
and the normalised text otherwise. A rune of a result carries the end of the `<mark>`
it stands in; its HTML escape is left out.

## Runs

Passing runs:

| Run | Question | Bounds |
|---|---|---|
| `PollLive` | do two requests of any kind, overlapping or not, interleaved with start-up, polling, failing queries, retries, crashes and restarts, make a tick skip a change when the baseline was settled? does the engine catch up whatever fails, and does Close end the loop? | a table of an active and an inactive word, 2 texts, 2 requests at once and in all, 1 process, 2 attempts, a clock of 3 values, fair |
| `FilterOneInstance` | can one process answer from a lexicon older than the one it had announced? is L1 bounded? does a process with its caches answer like one without? | 2 requests at once, 1 query, 3 versions, shards of 1 item |
| `BatchDetect` | is a batch complete, stable once returned, and always returned? is it one step to its caller? | 4 texts, 3 workers, fair |
| `BreakerCalls` | do late or cancelled calls push the counters over their limits? does the breaker close after an outage and stay open in one? does the gauge follow it? | 2 requests, 1 sweep, thresholds 3 and 2, fair |
| `RateLimiter` | can concurrent requests, or a sweep that deletes an entry just refreshed, give a client more than its burst? is a client that stays away forgotten? | 1 client, 3 requests at once, 4 entries, burst 1, idle after 2 ticks, fair |
| `Server` | does shutdown drain before it closes, and end? is an export complete under concurrent writes? | 1 HTTP and 1 gRPC request at once, 3 ids, batches of 2, fair |
| `Automaton` | are fail pointers, outputs and matches exact? | at most 3 words of at most 3 of 2 runes, texts of 5 |
| `Strategies` | is a replaced text free of words, and a highlighted one the text with exactly those runes marked that became a match (for texts whose runes correspond to the normalised ones)? | texts of 4 of 5 runes (two letters, a folded form, a zero-width rune, a ligature), lexicons of at most 2 of 5 words |

Runs that show a disagreement between the code and what its comments and documents
say of it (`findings` quotes the lines):

| Run | What TLC finds |
|---|---|
| `PollInitWindow` | a word written between InitEngine's load and its fingerprint query is in the baseline and not in the engine: ticks skip it until the next write |
| `PollOverlappingWrites` | two updates overlap, and the one stamped first commits last, after the engine was loaded and the fingerprint recorded: count, MAX(id) and MAX(updated_at) stay as they are, no two writes share a stamp, and ticks skip the change until the next write |
| `PollDeleteDuringRebuild` | a word activated (or inserted) after the fingerprint query, loaded, and deleted before the next tick takes the fingerprint back to the recorded one: the engine keeps the word |
| `FilterSharedRedis` | version numbers are local and Redis is shared: a process hits what another stored under the same number for an older lexicon |

### Observations

Seen while modelling, and not kept as runs of their own:

- `FilterSharedRedis.cfg` with one instance and `StartLimit = 2` fails the same way: a
  restarted process counts versions from one again and hits what its predecessor left
  in Redis (`filter_engine.go:15`).
- Two writes in one clock unit hide a change, too: with `ClockLimit = 1` TLC refutes
  `OnlyTiesHide` without its exception for ties. The unit is a
  millisecond (`scripts/init.sql:23`, and gorm's default for a time), not the microsecond
  of `docs/fixes/hot-update-poll-refactor-2026-05-18.md:105-106`. `OnlyTiesHide` leaves this
  case to the document's exception.
- Cancelled contexts trip the breaker of a healthy Redis (`multi_level_cache.go:46`);
  `docs/analysis/circuit-breaker.md:53` says that only network and server errors do.
  `Recovers` therefore assumes that cancellations stop.
- When InitEngine's fingerprint query fails, lastFingerprint is the zero value, which is
  also the fingerprint of a table without active words. If the last active word goes
  before the first tick, that tick skips and the engine keeps the word
  (`word_app_service.go:459-464`, "the next poll reconciles").
- Version and Match are two reads, so a rebuild between them stores an answer of the
  next automaton under the old version, which the comment at
  `filter_app_service.go:100-102` rules out. The answer is newer than its key, so
  `NoStaleAnswer` holds.
- A success of a call that was admitted by the closed breaker counts as a probe when it
  arrives in the half-open phase; a miss does not reset the failure count, so the
  failures that trip the breaker need not be consecutive (`multi_level_cache.go:45`).
- `MatchItem.Position` is commented as a position in the original text
  (`filter_result.go:8`); it is one in the normalised text, and a response carries both
  it and the original.
- When a removed rune and an expanded one balance, original and normalised text have
  equal length and Replace masks, and Highlight marks, the runes of the original at
  shifted positions (`strategy_replace.go:62`): of a ligature, a letter and a zero-width
  rune, where the letter is the match, the zero-width rune is masked and the letter
  stays. `NoWordLeft` and `HighlightExact` are therefore stated under `Aligned`; without it
  TLC refutes both within the bounds of `Strategies.cfg`.
- Highlight returns a text without matches as it is, and one with matches HTML-escaped.
- Only a Get that Redis answered with a value or an error refreshes the breaker's gauge:
  a Set or an InvalidateByPrefix that trips the breaker leaves it at closed, a miss
  corrects nothing, and 2 (half-open) is never shown. `GaugeSettles` is stated under
  the assumption that such Gets keep coming.
- The sweep of the rate limiter may delete an entry that was refreshed after it looked
  (`ratelimit.go:62`): the client gets a second burst. It gets no third as long as no
  request is held up in getLimiter for more than half of the idle time; with `Idle = 1`
  TLC shows a slower one find its client's second entry deleted, too. A slow request may
  set lastSeen back; the entry goes one sweep earlier.
- The rate limit comes before the authentication (`router.go:39-40`), so the X-API-Key
  that chooses the bucket has not been checked.
- A signal between `net.Listen` and `Serve` lets GracefulStop run first: Serve returns
  ErrServerStopped and log.Fatal ends the process without the rest of the shutdown
  (`main.go:157`). The HTTP goroutine has the check that is missing there
  (`http.ErrServerClosed`, `main.go:173`). A signal before signal.Notify kills the process
  at once.
- During the shutdown HTTP requests are accepted until Shutdown is called, `/readyz` says
  ready and gRPC health SERVING, while the poll loop has stopped.
- An export that fails half-way ends a response with status 200 (`word_handler.go:139`).
  An export by category includes inactive words, one of everything does not.
- List ignores the status and takes total and page from two queries.
- Recovery covers the goroutine of the request: a panic in a worker of BatchDetect or in
  the poll loop ends the process.

Each property of a passing run has a mutant of the code that breaks it, listed in
`PROJECT.json`; the mutated operators (marked `Mutant:`) stand before the definition
they replace and are used by nothing else.

### Bounds

`RequestLimit`, `ClockLimit` (management requests received and ticks of the clock),
`IdLimit` (ids of the exported table), `StartLimit` (starts of a process in the filter
path; the poll's process restarts without limit), `LexLimit`, `VersionLimit` (generations and engine versions), `MaxWords`
(words of an automaton), `StepTicks` (ticks a request or a sweep may be held up), `Entries`
(buckets in the map or in the hands of a request), `InputTexts`, `Lexicons` and the sets of handlers, slots,
callers, texts and queries are the bounds.
Timers are not counted: a timer may fire whenever its select is reached.

- A fingerprint is confused by two sets of rows; two rows, two texts and two writes
  are enough for every way the violation runs find, and the theorems show that
  for a settled baseline there is none at any size. The runs begin with a table of two
  rows (`InitialRows`), so that two requests can overlap on words that are loaded already;
  the clock begins after their stamps. One value of `Metas` is enough where an update
  changes the stamp of its row whatever it changes in it; in `PollOverlappingWrites` the
  update that hides changes nothing else, and takes a second one.
- A stale answer needs a version before and one after a rebuild, and a request that
  is slower than the rebuild; the third version lets a late answer meet a full shard.
- The thresholds of the breaker are 5 and 2 in the code; 3 and 2 keep "one
  before", "at" and "over" apart. Two requests and a sweep are enough for one call in
  flight across every transition that another makes.
- Four entries: one in the map and one for each request that still holds a deleted one.
  A burst of 1 makes every second grant a violation; that buckets fill within a tick
  needs burst <= rps * 300 s, and the defaults are 2000 and 1000. `StepTicks` = 1 lets a
  request that began before a sweep act after it; it is half of `Idle`, the most for which
  `BurstBound` holds.
- Three ids and batches of two give an export a full batch, a short one, an empty one
  and a row between two batches that comes, goes or changes. One request per server is
  enough to be in flight at each step of the shutdown, and the two servers are
  stopped at different steps.
- Failure transitions with words of three runes over two runes include nested words,
  words that overlap themselves and fail chains of two hops.
- Texts of four runes hold three overlapping matches, two that adjoin and two apart,
  and each way a text can grow, shrink or keep its length under normalisation.

Symmetry is used in the safety runs only. `CHECK_DEADLOCK FALSE` where the bounds, a
returned batch or a filtered text end every behaviour; the breaker and the automaton are checked for
deadlock, and so is the rate limiter; a process may end (`Server`).

### Fairness

- `PollLive`: the poll goroutine runs and its timers fire (weak fairness); the two
  queries succeed again and again (strong fairness: a database that is down for good
  can be helped by nothing); a select in which both channels are ready over and over
  picks ctx.Done() at some time (strong fairness; Go's select chooses uniformly). The
  end of the loop does not rest on the queries succeeding: their errors lead back to
  the select as well. Nothing is assumed of requests or of restarts.
- `BatchDetect`: goroutines are scheduled; the client need not cancel.
- `BreakerCalls`: requests that miss L1 keep coming, the Redis client's own timeouts end
  every call, time passes. Contexts may be cancelled at any time; a service whose
  requests are cancelled again and again may keep its breaker open for ever, so
  `Recovers` assumes that calls fail only finitely often once Redis is up.
- `RateLimiter`: time passes, the sweep and the requests are scheduled. No request need
  ever come.
- `Server`: only main's own steps in the shutdown, timers included. Handlers, the poll
  loop, server goroutines and clients may hang for ever. The end of `CloseTracer` rests
  on the exporter's own timeouts, for tracerCleanup passes no deadline.

## Proofs

All proofs are for arbitrary constants subject to the named assumptions of the modules:
limits are natural numbers, positive where zero would mean nothing (`ConstantsAssumption`,
`CacheAssumption`, `BatchAssumption`, `BreakerAssumption`, `ExportAssumption`); the set of
texts and the first table are finite (`TextsAssumption`, `ConstantsAssumption`); there are enough entries for the map and for each request
(`LimiterAssumption`); the slots of the two servers differ (`ServerAssumption`); runes
are finitely many, for a map of children to be enqueued in some order
(`AutomatonAssumption`); normalising a normalised rune changes nothing
(`StrategiesAssumption`). Every invariant and both refinements of the passing runs are
proved.

- `WordAppServiceProofs!TypeCorrect`: type correctness, which includes that a rebuild
  makes at most MaxAttempts attempts (`AttemptsInv` is the strengthening: a backoff is
  only ever before another attempt).
- `FingerprintIsSound` (`SettledFingerprintSound`) and `SkippedTickMissesNoWord`
  (`NoMissedWord`), for any number of writers, overlapping in any way and with any equal
  stamps: a baseline that was settled when it was taken is never confused with another
  set of active rows, so overlaps and ties are the only ways to hide a write from the
  triple. `IInv` adds what makes them inductive. For the settled rows a fingerprint was
  taken of (`base`, and `cand` while a reconcile is under way): they stay older than the
  clock and than every stamp still to be committed (`Settled`), and an active row is either
  one of them or younger than all of them (`Follows`). Deletes and deactivations only take
  rows away, a write brings a row with a younger stamp. Lemma `FingerprintEqual` then shows
  that an equal triple means an equal set: a row outside of the old set would raise
  MAX(updated_at), and a subset of equal size is the set. The engine's side
  (`BaselineInv`) says that what is left of `base` is loaded. `PollOverlappingWrites` and
  the observation on ties show that the baseline has to be settled, `PollInitWindow` that
  the exception for InitEngine is needed.
- `FilterAppServiceProofs!TypeCorrect`, and `SingleProcessNeverStale`: one process,
  started once, never answers with a lexicon older than the one it had announced
  when the request began, for any number of concurrent requests, keys, shards and
  rebuilds and any behaviour of Redis. The invariant `OneProcessInv`: announced
  generations are at most the current one (the store comes before the bump), and every
  cached or computed answer is at least the generation its key's version announced. The
  two assumptions are needed: `FilterSharedRedis`, and the first observation
  above.
- `BatchDetectProofs`: `BatchIsComplete` and `ReturnedResponseIsStable`, for any batch
  and pool. The invariant follows each text: not yet sent, in the channel, in the
  hands of exactly one worker, or stored, or given up by a cancelled request.
  `BatchRefinement` (`Spec => ImplementsBatch`) follows from the same invariant: every
  step but the last of main and the cancellation is a stutter of `BatchSpec`, and when
  main returns, `SlotInv` and `CountInv` say that the slots and the counter are an
  answer `Respond` may give.
  `TypeCorrect` is its type invariant.
- `CircuitBreakerProofs!CountersWithinLimits` and `TypeCorrect`: for any callers and
  thresholds, cancelled calls included.
- `FilterAppServiceProofs!LocalCacheBounded` (`L1Bounded`). The invariant `FitsL1` of
  each process: a shard is over its limit in no state, since a full shard refuses the
  store of a key it does not hold (`local_cache.go:85`), and has at most one item per key, since a store replaces.
- `SingleProcessRefinement` (`ImplementsFreshAnswers`), for one process started once.
  `OneProcessInv` bounds an answer from below; `NotAhead` bounds everything that is
  stored or under way by the newest generation of the table. Version, caches and the
  steps of a rebuild are stutters of `FreshAnswers`; only a bump of the version announces.
- `ServerProofs`: `TypeCorrect`, `CleanupAfterDrain` and `ExportIsComplete`. `DrainInv`: once its stop was called a server accepts
  nothing, so what main waited for stays away, unless the timer ended the wait.
  `ExportInv`, for any table, batch size and writes: rows sent lie behind the last id,
  due rows not yet sent ahead of it; a row that stops matching is not due any more.
- `RateLimiterProofs`: `TypeCorrect`, and `OneBurstOrTwo` (`BurstBound`) under the hypothesis
  2 * StepTicks <= Idle, that a request is held up for at most half of the idle time; the
  observation above shows that it is needed. What is granted comes out of the bucket in
  the map and of at most one that was deleted (`SpentInv`, `OldInv`). That there is no second
  deleted one is a matter of age: an entry used in this burst was touched or stored
  no more than 2 * StepTicks ago (`AgeInv`, `YoungInv`), too recently for the sweep to
  choose it, and one that the sweep has chosen already is the client's only one (`SweepInv`).
- `AhoCorasickProofs`: `TypeCorrect`, `FailCorrect`, `OutputCorrect` and `SearchCorrect`, for any
  dictionary, any texts and any order of the children. `LinkInv`: a linked node is
  linked to its longest proper suffix in the trie and has exactly the words that end
  there; it is inductive only with `QueueInv`, that nodes are linked in the order of
  their length, for then the whole fail chain of a node's parent is linked when the node
  comes up. `LongestStep` is the heart: the longest suffix of n followed by c is c
  appended to the longest node of n's fail chain that has a child c. `SearchInv` says
  the same of the runes read so far, and `SearchExact` follows from the outputs.
- `StrategiesProofs`: `TypeCorrect`, `ReplaceCorrect` (`NoWordLeft`) and `HighlightCorrect`
  (`HighlightExact`), for any runes, lexicons, texts and normalisation that is
  idempotent; both are about texts that are `Aligned`: each rune of the original stands for
  one of the normalised text, or the normalised text is the one shown (lemma
  `AlignedTarget`: the rune shown at a position became the one matched there). `MaskInv`: what is masked is the positions of the visited matches. `OrderInv` and
  `MergeInv`: the intervals are ordered, apart and cover the visited matches.
  `WriteInv`: what was written and the intervals left over cover the matches together.

The induction over data in the last two is by the least number (`LeastNumber`, from the
well-foundedness of finite sets in `FiniteSetTheorems`), and a walk along fail
pointers, a recursive function, is used only through its equation, of which
`WalkUnique` shows that it has one solution where ranks descend.

Proving changed the model in one place: a request could be accepted after the process
had ended, which no property of a run noticed; `AcceptHttp`,
`AcceptHttpGrouped` and `AcceptRpc` now require a living process.

Only model-checked: the liveness properties (`EventuallyCovered`, `CloseEndsLoop`,
`Returns`, `Recovers`, `Degrades`, `GaugeSettles`, `IdleForgotten`, `ShutdownEnds`), since fairness
and ENABLED are out of the prover's reach.

## Not modelled

- Get and List change nothing. Validation and normalisation of a word happen before any
  state is touched.
- The 64-bit hash in the cache key is taken to be injective.
- The Unicode tables of the normaliser, and NFKC's composition of combining marks with
  the rune before them.
- Binding, status codes, CORS, request ids, the body limit, logging and the metrics of a
  request: functions of one request, without state.
- The values of the configuration; metrics other than the breaker's gauge, which nothing
  reads; generated code and load-test tools.

## Plan

Done, in this order, the most important behaviour first: hot update (`WordAppService`),
answers under hot update (`FilterAppService`), breaker, batches, automaton,
strategies; rate limiter, export and the life cycle of the process; the abstract
specifications of an answer and of a batch; the proofs of all invariants and of both
refinements.

Left: one composition, `HotUpdate`, poll and filter path over one table, from a committed
write to the first answer that reflects it.
