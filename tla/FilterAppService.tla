-------------------------- MODULE FilterAppService --------------------------
(***************************************************************************)
(* Filter requests against the engine and the two-level result cache, while *)
(* the poll loop swaps the engine (filter_app_service.go, filter_engine.go, *)
(* multi_level_cache.go, local_cache.go, redis_cache.go).                  *)
(*                                                                         *)
(* The lexicon is its generation: dbLex counts the changes of the active   *)
(* words, and the answer to a query is the generation of the automaton     *)
(* that computed it.  A query stands for one (text, strategy) pair.  The   *)
(* cache key of a query is (query, engine version), and the version is a   *)
(* counter each process starts from zero, while L2 is shared.              *)
(*                                                                         *)
(* Redis may answer, miss, fail, expire a key or be skipped by the circuit *)
(* breaker at any time; CircuitBreaker.tla has the breaker itself.         *)
(***************************************************************************)
EXTENDS Naturals, FiniteSets, Sequences

CONSTANTS Instances, Slots,     \* processes; concurrent requests of each
          Queries, Shards,      \* queries; shards of an L1 cache
          ShardOf,              \* shardFor: the shard of each key
          PerShardLimit,        \* perShardLimit(); 0 means unlimited
          LexLimit, VersionLimit, StartLimit   \* bounds

\* filterCacheKey: the query and the engine version
Keys == Queries \X (1..VersionLimit)

ASSUME CacheAssumption ==
  /\ ShardOf \in [Keys -> Shards]
  /\ PerShardLimit \in Nat /\ LexLimit \in Nat /\ VersionLimit \in Nat
  /\ StartLimit \in Nat

VARIABLES
  dbLex,    \* generation of the active words in the database
  cur,      \* generation of the automaton in engine.current
  lexAt,    \* lexAt[i][v]: generation version v of i announced (history);
            \* Len(lexAt[i]) is engine.version
  poll,     \* where each process's poll loop is
  target,   \* generation FindAllActive returned to the poll loop
  dirty,    \* shards DeleteByPrefix has not visited yet
  l1, l2,   \* LocalCache of each process, Redis
  req,      \* the request in each slot
  starts    \* how often each process was started

vars == <<dbLex, cur, lexAt, poll, target, dirty, l1, l2, req, starts>>
pollVars == <<dbLex, cur, lexAt, poll, target, dirty, starts>>

\* engine.Version()
Version(i) == Len(lexAt[i])

Idle == [at |-> "idle"]
NoVersions == <<>>

L1Items == [key : Keys, lex : 0..LexLimit, live : BOOLEAN]
L2Items == [key : Keys, lex : 0..LexLimit]

Requests ==
  {Idle}
  \cup [at : {"l1get", "l2get", "match"}, key : Keys, floor : 0..LexLimit]
  \cup [at : {"backfill", "set1", "set2", "done"}, key : Keys,
        floor : 0..LexLimit, lex : 0..LexLimit]

TypeOK ==
  /\ dbLex \in 0..LexLimit
  /\ cur \in [Instances -> 0..LexLimit]
  /\ lexAt \in [Instances -> Seq(0..LexLimit)]
  /\ \A i \in Instances : Version(i) <= VersionLimit
  /\ poll \in [Instances -> {"down", "idle", "loaded", "stored", "bumped", "scan"}]
  /\ target \in [Instances -> 0..LexLimit]
  /\ dirty \in [Instances -> SUBSET Shards]
  /\ l1 \in [Instances -> SUBSET L1Items]
  /\ l2 \in SUBSET L2Items
  /\ req \in [Instances -> [Slots -> Requests]]
  /\ starts \in [Instances -> 0..StartLimit]

Init ==
  /\ dbLex = 0
  /\ cur = [i \in Instances |-> 0]
  /\ lexAt = [i \in Instances |-> NoVersions]
  /\ poll = [i \in Instances |-> "down"]
  /\ target = [i \in Instances |-> 0]
  /\ dirty = [i \in Instances |-> {}]
  /\ l1 = [i \in Instances |-> {}]
  /\ l2 = {}
  /\ req = [i \in Instances |-> [n \in Slots |-> Idle]]
  /\ starts = [i \in Instances |-> 0]

-----------------------------------------------------------------------------
(***************************************************************************)
(* LocalCache and Redis.                                                   *)
(***************************************************************************)
\* Get: an expired item is a miss.
Hits(items, k) == {e \in items : e.key = k /\ e.live}

InShard(items, s) == {e \in items : ShardOf[e.key] = s}

\* Mutant: the capacity check is off by one.
RefusesOneTooLate(items, k) ==
  /\ PerShardLimit > 0
  /\ Cardinality(InShard(items, ShardOf[k])) > PerShardLimit
  /\ \A e \in items : e.key # k

\* A full shard refuses a key it does not have; expired items count until
\* they are evicted.
Refuses(items, k) ==
  /\ PerShardLimit > 0
  /\ Cardinality(InShard(items, ShardOf[k])) >= PerShardLimit
  /\ \A e \in items : e.key # k

Put(items, k, lex) ==
  IF Refuses(items, k) THEN items
  ELSE {e \in items : e.key # k} \cup {[key |-> k, lex |-> lex, live |-> TRUE]}

\* The item's TTL runs out.
ExpireL1(i, e) ==
  /\ e \in l1[i] /\ e.live
  /\ l1' = [l1 EXCEPT ![i] = (@ \ {e}) \cup {[e EXCEPT !.live = FALSE]}]
  /\ UNCHANGED <<pollVars, l2, req>>

\* evictExpired visits a shard; it stops at maxEvictPerShardPerCycle items.
EvictL1(i, s) ==
  /\ \E E \in SUBSET {e \in InShard(l1[i], s) : ~e.live} :
       /\ E # {}
       /\ l1' = [l1 EXCEPT ![i] = @ \ E]
  /\ UNCHANGED <<pollVars, l2, req>>

ExpireL2(e) ==
  /\ e \in l2
  /\ l2' = l2 \ {e}
  /\ UNCHANGED <<pollVars, l1, req>>

-----------------------------------------------------------------------------
(***************************************************************************)
(* Filter: one action per access to shared state.                          *)
(***************************************************************************)
Step(i, n, r) == req' = [req EXCEPT ![i][n] = r]

Computed(r, at, lex) ==
  [at |-> at, key |-> r.key, floor |-> r.floor, lex |-> lex]
Waiting(r, at) == [at |-> at, key |-> r.key, floor |-> r.floor]

\* Mutant: the cache key does not contain the engine version.
FilterBeginUnversioned(i, n, q) ==
  /\ poll[i] # "down" /\ req[i][n].at = "idle"
  /\ Step(i, n, [at |-> "l1get", key |-> <<q, 1>>,
                 floor |-> lexAt[i][Version(i)]])
  /\ UNCHANGED <<pollVars, l1, l2>>

\* Mutant: the key names the version to come.
FilterBeginNextVersion(i, n, q) ==
  /\ poll[i] # "down" /\ req[i][n].at = "idle"
  /\ Step(i, n, [at |-> "l1get", key |-> <<q, Version(i) + 1>>,
                 floor |-> lexAt[i][Version(i)]])
  /\ UNCHANGED <<pollVars, l1, l2>>

\* engine.Version() and filterCacheKey.  floor remembers, for the property,
\* the generation that version announced.
FilterBegin(i, n, q) ==
  /\ poll[i] # "down" /\ req[i][n].at = "idle"
  /\ Step(i, n, [at |-> "l1get", key |-> <<q, Version(i)>>,
                 floor |-> lexAt[i][Version(i)]])
  /\ UNCHANGED <<pollVars, l1, l2>>

\* MultiLevelCache.Get, first level
GetL1(i, n) ==
  LET r == req[i][n] IN
  /\ r.at = "l1get"
  /\ \/ \E e \in Hits(l1[i], r.key) : Step(i, n, Computed(r, "done", e.lex))
     \/ Hits(l1[i], r.key) = {} /\ Step(i, n, Waiting(r, "l2get"))
  /\ UNCHANGED <<pollVars, l1, l2>>

\* MultiLevelCache.Get, second level: a hit
GetL2Hit(i, n) ==
  LET r == req[i][n] IN
  /\ r.at = "l2get"
  /\ \E e \in l2 : e.key = r.key /\ Step(i, n, Computed(r, "backfill", e.lex))
  /\ UNCHANGED <<pollVars, l1, l2>>

\* A miss, an error, or the breaker is open.
GetL2Miss(i, n) ==
  LET r == req[i][n] IN
  /\ r.at = "l2get"
  /\ Step(i, n, Waiting(r, "match"))
  /\ UNCHANGED <<pollVars, l1, l2>>

BackfillL1(i, n) ==
  LET r == req[i][n] IN
  /\ r.at = "backfill"
  /\ l1' = [l1 EXCEPT ![i] = Put(@, r.key, r.lex)]
  /\ Step(i, n, Computed(r, "done", r.lex))
  /\ UNCHANGED <<pollVars, l2>>

\* engine.Match and the strategy
Match(i, n) ==
  LET r == req[i][n] IN
  /\ r.at = "match"
  /\ Step(i, n, Computed(r, "set1", cur[i]))
  /\ UNCHANGED <<pollVars, l1, l2>>

\* MultiLevelCache.Set: L1, then L2 unless the breaker is open or Redis fails
SetL1(i, n) ==
  LET r == req[i][n] IN
  /\ r.at = "set1"
  /\ l1' = [l1 EXCEPT ![i] = Put(@, r.key, r.lex)]
  /\ Step(i, n, Computed(r, "set2", r.lex))
  /\ UNCHANGED <<pollVars, l2>>

SetL2(i, n) ==
  LET r == req[i][n] IN
  /\ r.at = "set2"
  /\ \/ l2' = {e \in l2 : e.key # r.key} \cup {[key |-> r.key, lex |-> r.lex]}
     \/ UNCHANGED l2
  /\ Step(i, n, Computed(r, "done", r.lex))
  /\ UNCHANGED <<pollVars, l1>>

\* The response is sent.
Respond(i, n) ==
  /\ req[i][n].at = "done"
  /\ Step(i, n, Idle)
  /\ UNCHANGED <<pollVars, l1, l2>>

-----------------------------------------------------------------------------
(***************************************************************************)
(* The poll loop as far as it touches engine and cache (WordAppService.tla *)
(* has the rest), and the process life cycle.                              *)
(***************************************************************************)
WordsChange ==
  /\ dbLex < LexLimit
  /\ dbLex' = dbLex + 1
  /\ UNCHANGED <<cur, lexAt, poll, target, dirty, l1, l2, req, starts>>

\* InitEngine: load and Rebuild before any request is served
Boot(i) ==
  /\ poll[i] = "down" /\ starts[i] < StartLimit /\ VersionLimit > 0
  /\ cur' = [cur EXCEPT ![i] = dbLex]
  /\ lexAt' = [lexAt EXCEPT ![i] = <<dbLex>>]
  /\ poll' = [poll EXCEPT ![i] = "idle"]
  /\ starts' = [starts EXCEPT ![i] = @ + 1]
  /\ UNCHANGED <<dbLex, target, dirty, l1, l2, req>>

\* Mutant: the words are read from a copy that lags behind.
LoadLagging(i) ==
  /\ poll[i] = "idle" /\ Version(i) < VersionLimit
  /\ target' = [target EXCEPT ![i] = 0]
  /\ poll' = [poll EXCEPT ![i] = "loaded"]
  /\ UNCHANGED <<dbLex, cur, lexAt, dirty, l1, l2, req, starts>>

\* reconcileOnce found a change: FindAllActive
Load(i) ==
  /\ poll[i] = "idle" /\ Version(i) < VersionLimit
  /\ target' = [target EXCEPT ![i] = dbLex]
  /\ poll' = [poll EXCEPT ![i] = "loaded"]
  /\ UNCHANGED <<dbLex, cur, lexAt, dirty, l1, l2, req, starts>>

\* Rebuild: current.Store ...
RebuildStore(i) ==
  /\ poll[i] = "loaded"
  /\ cur' = [cur EXCEPT ![i] = target[i]]
  /\ poll' = [poll EXCEPT ![i] = "stored"]
  /\ UNCHANGED <<dbLex, lexAt, target, dirty, l1, l2, req, starts>>

\* ... then version.Add(1); InvalidateByPrefix("filter:") begins
RebuildBump(i) ==
  /\ poll[i] = "stored"
  /\ lexAt' = [lexAt EXCEPT ![i] = Append(@, cur[i])]
  /\ poll' = [poll EXCEPT ![i] = "bumped"]
  /\ dirty' = [dirty EXCEPT ![i] = Shards]
  /\ UNCHANGED <<dbLex, cur, target, l1, l2, req, starts>>

\* LocalCache.DeleteByPrefix locks one shard after the other.
DeleteByPrefixL1(i, s) ==
  /\ poll[i] = "bumped" /\ s \in dirty[i]
  /\ l1' = [l1 EXCEPT ![i] = @ \ InShard(@, s)]
  /\ dirty' = [dirty EXCEPT ![i] = @ \ {s}]
  /\ poll' = IF dirty[i] = {s} THEN [poll EXCEPT ![i] = "scan"] ELSE poll
  /\ UNCHANGED <<dbLex, cur, lexAt, target, l2, req, starts>>

\* RedisCache.DeleteByPrefix: one page of SCAN and the UNLINK of its keys
ScanPage(i) ==
  /\ poll[i] = "scan"
  /\ \E page \in SUBSET l2 : page # {} /\ l2' = l2 \ page
  /\ UNCHANGED <<pollVars, l1, req>>

\* The cursor is back at 0, Redis failed, or the breaker was open.
ScanEnd(i) ==
  /\ poll[i] = "scan"
  /\ poll' = [poll EXCEPT ![i] = "idle"]
  /\ UNCHANGED <<dbLex, cur, lexAt, target, dirty, l1, l2, req, starts>>

\* The process ends; its memory is gone, Redis keeps what it wrote.
ProcessEnd(i) ==
  /\ poll[i] # "down"
  /\ poll' = [poll EXCEPT ![i] = "down"]
  /\ cur' = [cur EXCEPT ![i] = 0]
  /\ lexAt' = [lexAt EXCEPT ![i] = NoVersions]
  /\ target' = [target EXCEPT ![i] = 0]
  /\ dirty' = [dirty EXCEPT ![i] = {}]
  /\ l1' = [l1 EXCEPT ![i] = {}]
  /\ req' = [req EXCEPT ![i] = [n \in Slots |-> Idle]]
  /\ UNCHANGED <<dbLex, l2, starts>>

-----------------------------------------------------------------------------
RequestNext(i, n) ==
  \/ \E q \in Queries : FilterBegin(i, n, q)
  \/ GetL1(i, n)
  \/ GetL2Hit(i, n)
  \/ GetL2Miss(i, n)
  \/ BackfillL1(i, n)
  \/ Match(i, n)
  \/ SetL1(i, n)
  \/ SetL2(i, n)
  \/ Respond(i, n)

ProcessNext(i) ==
  \/ Boot(i)
  \/ Load(i)
  \/ RebuildStore(i)
  \/ RebuildBump(i)
  \/ \E s \in Shards : DeleteByPrefixL1(i, s)
  \/ ScanPage(i)
  \/ ScanEnd(i)
  \/ ProcessEnd(i)
  \/ \E e \in l1[i] : ExpireL1(i, e)
  \/ \E s \in Shards : EvictL1(i, s)

Next ==
  \/ WordsChange
  \/ \E e \in l2 : ExpireL2(e)
  \/ \E i \in Instances : ProcessNext(i) \/ \E n \in Slots : RequestNext(i, n)

Spec == Init /\ [][Next]_vars

-----------------------------------------------------------------------------
\* README, cache strategy: "cache items of an old version are never hit (the
\* correctness guarantee)".  An answer is never older than the lexicon whose
\* rebuild was announced when the request began.
NoStaleAnswer ==
  \A i \in Instances, n \in Slots :
    req[i][n].at = "done" => req[i][n].lex >= req[i][n].floor

\* What the clients of a process see of it.
Process == CHOOSE p \in Instances : TRUE
Question(r) ==
  CASE r.at = "idle" -> [at |-> "quiet"]
    [] r.at = "done" -> [at |-> "answered", lex |-> r.lex]
    [] OTHER -> [at |-> "asked", floor |-> r.floor]
Answers == INSTANCE FreshAnswers WITH
  newest <- dbLex,
  announced <- IF lexAt[Process] = NoVersions THEN 0 ELSE lexAt[Process][Version(Process)],
  question <- [n \in Slots |-> Question(req[Process][n])]

\* The caches, their keys and the rebuilds of a process cannot be told from a
\* service that computes every answer anew: what Version announces never goes
\* back, and an answer lies between that and the newest lexicon.
ImplementsFreshAnswers == Answers!Spec

\* LocalCache never exceeds its capacity, and holds a key once.
L1Bounded ==
  \A i \in Instances :
    /\ \A s \in Shards : PerShardLimit > 0 =>
         Cardinality(InShard(l1[i], s)) <= PerShardLimit
    /\ \A d, e \in l1[i] : d.key = e.key => d = e

-----------------------------------------------------------------------------
\* Requests are served only by a process whose engine has a version, and the
\* bound on versions leaves room for the rebuild under way.
VersionInv ==
  \A i \in Instances :
    /\ poll[i] # "down" => Version(i) >= 1
    /\ poll[i] \in {"loaded", "stored"} => Version(i) < VersionLimit

\* The inductive invariant behind L1Bounded: a set of items that LocalCache can
\* hold is finite, has no key twice and overfills no shard.
FitsL1(items) ==
  /\ IsFiniteSet(items)
  /\ \A d, e \in items : d.key = e.key => d = e
  /\ PerShardLimit > 0 =>
       \A s \in Shards : Cardinality(InShard(items, s)) <= PerShardLimit

L1Inv == \A i \in Instances : FitsL1(l1[i])

(***************************************************************************)
(* The inductive invariant behind NoStaleAnswer when p is the only process *)
(* and is started once.                                                    *)
(***************************************************************************)
\* An answer computed for key k is at least the generation k's version names.
Fresh(p, k, lex) == k[2] \in 1..Version(p) /\ lexAt[p][k[2]] <= lex

EngineInv(p) ==
  /\ cur[p] <= dbLex
  /\ \A v \in 1..Version(p) : lexAt[p][v] <= cur[p]
  /\ poll[p] = "loaded" => cur[p] <= target[p] /\ target[p] <= dbLex

CacheInv(p) == \A e \in l1[p] \cup l2 : Fresh(p, e.key, e.lex)

RequestInv(p) ==
  \A n \in Slots : LET r == req[p][n] IN
    /\ r.at # "idle" => r.key[2] \in 1..Version(p) /\ r.floor = lexAt[p][r.key[2]]
    /\ r.at \in {"backfill", "set1", "set2", "done"} => Fresh(p, r.key, r.lex)

OneProcessInv(p) ==
  /\ poll[p] # "down" => EngineInv(p) /\ CacheInv(p) /\ RequestInv(p)
  /\ poll[p] = "down" => l1[p] = {} /\ \A n \in Slots : req[p][n] = Idle
  /\ starts[p] = 0 => poll[p] = "down" /\ l2 = {}

\* What ImplementsFreshAnswers needs besides: no answer is ahead of the
\* database, and a process that is down announces nothing.
NotAhead(p) ==
  /\ \A e \in l1[p] \cup l2 : e.lex <= dbLex
  /\ \A n \in Slots : req[p][n].at \in {"backfill", "set1", "set2", "done"} =>
       req[p][n].lex <= dbLex
  /\ poll[p] = "down" => lexAt[p] = NoVersions
=============================================================================
