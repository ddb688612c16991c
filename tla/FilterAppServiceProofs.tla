----------------------- MODULE FilterAppServiceProofs -----------------------
(***************************************************************************)
(* Proofs about FilterAppService: type correctness for any number of       *)
(* processes and restarts, and that a process which has Redis to itself    *)
(* and is started once never answers from an outdated lexicon.             *)
(***************************************************************************)
EXTENDS FilterAppService, FiniteSetTheorems, TLAPS

USE CacheAssumption

-----------------------------------------------------------------------------
(***************************************************************************)
(* Type correctness.                                                       *)
(***************************************************************************)
\* LocalCache.Set stores an item of its key and value, or nothing.
LEMMA PutType ==
  ASSUME NEW items \in SUBSET L1Items, NEW k \in Keys, NEW lex \in 0..LexLimit
  PROVE  /\ Put(items, k, lex) \in SUBSET L1Items
         /\ \A e \in Put(items, k, lex) : e \in items \/ (e.key = k /\ e.lex = lex)
<1> DEFINE new == [key |-> k, lex |-> lex, live |-> TRUE]
<1>1. new \in L1Items /\ new.key = k /\ new.lex = lex
  BY DEF L1Items
<1>2. Put(items, k, lex) \subseteq items \cup {new}
  BY DEF Put
<1> HIDE DEF new
<1> QED  BY <1>1, <1>2

\* Moving a request to a well-typed record keeps the types.
LEMMA StepType ==
  ASSUME TypeOK, NEW i \in Instances, NEW n \in Slots, NEW r \in Requests, Step(i, n, r)
  PROVE  /\ req' \in [Instances -> [Slots -> Requests]]
         /\ req'[i][n] = r
         /\ \A m \in Slots : m # n => req'[i][m] = req[i][m]
         /\ \A j \in Instances : j # i => req'[j] = req[j]
BY DEF Step, TypeOK

\* A request that is waiting, or has computed its answer, carries them.
LEMMA RequestFields ==
  ASSUME TypeOK, NEW i \in Instances, NEW n \in Slots
  PROVE  LET r == req[i][n] IN
         /\ r \in Requests
         /\ r.at \in {"l1get", "l2get", "match"} =>
              r.key \in Keys /\ r.floor \in 0..LexLimit
         /\ r.at \in {"backfill", "set1", "set2", "done"} =>
              r.key \in Keys /\ r.floor \in 0..LexLimit /\ r.lex \in 0..LexLimit
<1> DEFINE r == req[i][n]
<1>1. r \in Requests
  BY DEF TypeOK
<1> QED  BY <1>1 DEF Requests, Idle

\* The records a request moves through are well typed.
LEMMA ComputedType ==
  ASSUME NEW r, r.key \in Keys, r.floor \in 0..LexLimit
  PROVE  /\ \A at \in {"backfill", "set1", "set2", "done"}, lex \in 0..LexLimit :
              Computed(r, at, lex) \in Requests
         /\ \A at \in {"l1get", "l2get", "match"} : Waiting(r, at) \in Requests
BY DEF Computed, Waiting, Requests

\* Each step of a request keeps the types.
LEMMA RequestType ==
  ASSUME TypeOK, VersionInv, NEW i \in Instances, NEW n \in Slots, RequestNext(i, n)
  PROVE  TypeOK'
<1> DEFINE r == req[i][n]
<1> USE DEF pollVars
<1>0. /\ r.at \in {"l1get", "l2get", "match"} =>
            r.key \in Keys /\ r.floor \in 0..LexLimit
      /\ r.at \in {"backfill", "set1", "set2", "done"} =>
            r.key \in Keys /\ r.floor \in 0..LexLimit /\ r.lex \in 0..LexLimit
  BY RequestFields
<1>1. ASSUME NEW q \in Queries, FilterBegin(i, n, q)
      PROVE  TypeOK'
  <2> DEFINE v == Version(i)
             b == [at |-> "l1get", key |-> <<q, v>>, floor |-> lexAt[i][v]]
  <2>1. lexAt[i] \in Seq(0..LexLimit) /\ v \in 1..VersionLimit /\ v = Len(lexAt[i])
    BY <1>1 DEF FilterBegin, VersionInv, TypeOK, Version
  <2>2. lexAt[i][v] \in 0..LexLimit /\ <<q, v>> \in Keys
    BY <2>1 DEF Keys
  <2>3. b \in Requests
    BY <2>2 DEF Requests
  <2> QED  BY <1>1, <2>3, StepType DEF FilterBegin, TypeOK, Version
<1>2. CASE GetL1(i, n)
  <2>1. \A e \in l1[i] : e.lex \in 0..LexLimit
    BY DEF TypeOK, L1Items
  <2>2. PICK s \in Requests : Step(i, n, s)
    BY <1>0, <1>2, <2>1, ComputedType DEF GetL1, Hits
  <2> QED  BY <1>2, <2>2, StepType DEF GetL1, TypeOK, Version
<1>3. CASE GetL2Hit(i, n)
  <2>1. \A e \in l2 : e.lex \in 0..LexLimit
    BY DEF TypeOK, L2Items
  <2>2. PICK s \in Requests : Step(i, n, s)
    BY <1>0, <1>3, <2>1, ComputedType DEF GetL2Hit
  <2> QED  BY <1>3, <2>2, StepType DEF GetL2Hit, TypeOK, Version
<1>4. CASE GetL2Miss(i, n)
  <2>1. Waiting(r, "match") \in Requests
    BY <1>0, <1>4, ComputedType DEF GetL2Miss
  <2> QED  BY <1>4, <2>1, StepType DEF GetL2Miss, TypeOK, Version
<1>5. CASE BackfillL1(i, n)
  <2>1. Computed(r, "done", r.lex) \in Requests
    BY <1>0, <1>5, ComputedType DEF BackfillL1
  <2>2. l1' \in [Instances -> SUBSET L1Items]
    BY <1>0, <1>5, PutType DEF BackfillL1, TypeOK
  <2> QED  BY <1>5, <2>1, <2>2, StepType DEF BackfillL1, TypeOK, Version
<1>6. CASE Match(i, n)
  <2>1. Computed(r, "set1", cur[i]) \in Requests
    BY <1>0, <1>6, ComputedType DEF Match, TypeOK
  <2> QED  BY <1>6, <2>1, StepType DEF Match, TypeOK, Version
<1>7. CASE SetL1(i, n)
  <2>1. Computed(r, "set2", r.lex) \in Requests
    BY <1>0, <1>7, ComputedType DEF SetL1
  <2>2. l1' \in [Instances -> SUBSET L1Items]
    BY <1>0, <1>7, PutType DEF SetL1, TypeOK
  <2> QED  BY <1>7, <2>1, <2>2, StepType DEF SetL1, TypeOK, Version
<1>8. CASE SetL2(i, n)
  <2>1. Computed(r, "done", r.lex) \in Requests
    BY <1>0, <1>8, ComputedType DEF SetL2
  <2>2. l2' \in SUBSET L2Items
    BY <1>0, <1>8 DEF SetL2, TypeOK, L2Items
  <2> QED  BY <1>8, <2>1, <2>2, StepType DEF SetL2, TypeOK, Version
<1>9. CASE Respond(i, n)
  <2>1. Idle \in Requests
    BY DEF Requests
  <2> QED  BY <1>9, <2>1, StepType DEF Respond, TypeOK, Version
<1> QED
  BY <1>1, <1>2, <1>3, <1>4, <1>5, <1>6, <1>7, <1>8, <1>9 DEF RequestNext

\* Each step of a process keeps the types.
LEMMA ProcessType ==
  ASSUME TypeOK, VersionInv, NEW i \in Instances, ProcessNext(i)
  PROVE  TypeOK'
<1> USE DEF pollVars
<1>0. lexAt[i] \in Seq(0..LexLimit) /\ cur[i] \in 0..LexLimit /\ dbLex \in 0..LexLimit
  BY DEF TypeOK
<1>1. CASE Boot(i)
  <2>1. <<dbLex>> \in Seq(0..LexLimit) /\ Len(<<dbLex>>) = 1
    BY <1>0
  <2>2. /\ lexAt' \in [Instances -> Seq(0..LexLimit)]
        /\ \A j \in Instances : Len(lexAt'[j]) <= VersionLimit
    BY <1>1, <2>1 DEF Boot, TypeOK, Version
  <2>3. starts' \in [Instances -> 0..StartLimit]
    BY <1>1 DEF Boot, TypeOK
  <2> QED  BY <1>1, <2>2, <2>3 DEF Boot, TypeOK, Version
<1>2. CASE Load(i)
  BY <1>2 DEF Load, TypeOK, Version
<1>3. CASE RebuildStore(i)
  BY <1>3 DEF RebuildStore, TypeOK, Version
<1>4. CASE RebuildBump(i)
  <2>1. /\ Append(lexAt[i], cur[i]) \in Seq(0..LexLimit)
        /\ Len(Append(lexAt[i], cur[i])) = Len(lexAt[i]) + 1
    BY <1>0
  <2>2. Len(lexAt[i]) + 1 <= VersionLimit
    BY <1>0, <1>4 DEF RebuildBump, VersionInv, Version
  <2>3. /\ lexAt' \in [Instances -> Seq(0..LexLimit)]
        /\ \A j \in Instances : Len(lexAt'[j]) <= VersionLimit
    BY <1>4, <2>1, <2>2 DEF RebuildBump, TypeOK, Version
  <2> QED  BY <1>4, <2>3 DEF RebuildBump, TypeOK, Version
<1>5. ASSUME NEW s \in Shards, DeleteByPrefixL1(i, s)
      PROVE  TypeOK'
  BY <1>5 DEF DeleteByPrefixL1, InShard, TypeOK, Version
<1>6. CASE ScanPage(i)
  BY <1>6 DEF ScanPage, TypeOK, Version
<1>7. CASE ScanEnd(i)
  BY <1>7 DEF ScanEnd, TypeOK, Version
<1>8. CASE ProcessEnd(i)
  <2>1. NoVersions \in Seq(0..LexLimit) /\ Len(NoVersions) = 0 /\ Idle \in Requests
    BY DEF NoVersions, Requests
  <2>2. /\ lexAt' \in [Instances -> Seq(0..LexLimit)]
        /\ \A j \in Instances : Len(lexAt'[j]) <= VersionLimit
    BY <1>8, <2>1 DEF ProcessEnd, TypeOK, Version
  <2>3. req' \in [Instances -> [Slots -> Requests]]
    BY <1>8, <2>1 DEF ProcessEnd, TypeOK
  <2> QED  BY <1>8, <2>2, <2>3 DEF ProcessEnd, TypeOK, Version
<1>9. ASSUME NEW e \in l1[i], ExpireL1(i, e)
      PROVE  TypeOK'
  <2>0. e \in L1Items
    BY DEF TypeOK
  <2>1. [e EXCEPT !.live = FALSE] \in L1Items
    BY <2>0 DEF L1Items
  <2>2. l1' \in [Instances -> SUBSET L1Items]
    BY <1>9, <2>1 DEF ExpireL1, TypeOK
  <2> QED  BY <1>9, <2>2 DEF ExpireL1, TypeOK, Version
<1>10. ASSUME NEW s \in Shards, EvictL1(i, s)
       PROVE  TypeOK'
  BY <1>10 DEF EvictL1, TypeOK, Version
<1> QED
  BY <1>1, <1>2, <1>3, <1>4, <1>5, <1>6, <1>7, <1>8, <1>9, <1>10 DEF ProcessNext

\* Every step keeps the types and the bound on versions.
LEMMA TypeStep ==
  ASSUME TypeOK, VersionInv, [Next]_vars
  PROVE  TypeOK'
<1>1. CASE WordsChange
  BY <1>1 DEF WordsChange, TypeOK, Version
<1>2. ASSUME NEW e \in l2, ExpireL2(e)
      PROVE  TypeOK'
  BY <1>2 DEF ExpireL2, pollVars, TypeOK, Version
<1>3. CASE UNCHANGED vars
  BY <1>3 DEF vars, TypeOK, Version
<1> QED  BY <1>1, <1>2, <1>3, ProcessType, RequestType DEF Next

\* A version is announced before requests are served and never withdrawn.
LEMMA VersionStep ==
  ASSUME TypeOK, VersionInv, [Next]_vars
  PROVE  VersionInv'
<1>1. ASSUME NEW i \in Instances, ProcessNext(i)
      PROVE  VersionInv'
  <2>0. lexAt[i] \in Seq(0..LexLimit) /\ cur[i] \in 0..LexLimit /\ dbLex \in 0..LexLimit
    BY DEF TypeOK
  <2>1. CASE Boot(i)
    BY <2>0, <2>1 DEF Boot, TypeOK, VersionInv, Version
  <2>2. CASE RebuildBump(i)
    <3>1. Len(Append(lexAt[i], cur[i])) = Len(lexAt[i]) + 1 /\ Len(lexAt[i]) \in Nat
      BY <2>0
    <3> QED  BY <2>2, <3>1 DEF RebuildBump, TypeOK, VersionInv, Version
  <2>3. CASE ProcessEnd(i)
    BY <2>3 DEF ProcessEnd, TypeOK, VersionInv, Version
  <2>4. CASE ~Boot(i) /\ ~RebuildBump(i) /\ ~ProcessEnd(i)
    <3>1. CASE Load(i) \/ RebuildStore(i)
      BY <3>1 DEF Load, RebuildStore, TypeOK, VersionInv, Version
    <3>2. CASE (\E s \in Shards : DeleteByPrefixL1(i, s)) \/ ScanPage(i) \/ ScanEnd(i)
      <4>1. poll[i] # "down" /\ lexAt' = lexAt
        BY <3>2 DEF DeleteByPrefixL1, ScanPage, ScanEnd, pollVars
      <4>2. poll' = poll \/ \E at \in {"scan", "idle"} : poll' = [poll EXCEPT ![i] = at]
        BY <3>2 DEF DeleteByPrefixL1, ScanPage, ScanEnd, pollVars
      <4> QED  BY <4>1, <4>2 DEF TypeOK, VersionInv, Version
    <3>3. CASE \/ \E s \in Shards : EvictL1(i, s)
               \/ \E e \in l1[i] : ExpireL1(i, e)
      BY <3>3 DEF ExpireL1, EvictL1, pollVars, TypeOK, VersionInv, Version
    <3> QED  BY <1>1, <2>4, <3>1, <3>2, <3>3 DEF ProcessNext
  <2> QED  BY <2>1, <2>2, <2>3, <2>4
<1>2. ASSUME NEW i \in Instances, NEW n \in Slots, RequestNext(i, n)
      PROVE  VersionInv'
  BY <1>2 DEF RequestNext, FilterBegin, GetL1, GetL2Hit, GetL2Miss, BackfillL1, Match,
     SetL1, SetL2, Respond, pollVars, VersionInv, Version
<1>3. CASE WordsChange \/ (\E e \in l2 : ExpireL2(e)) \/ UNCHANGED vars
  BY <1>3 DEF WordsChange, ExpireL2, pollVars, vars, VersionInv, Version
<1> QED  BY <1>1, <1>2, <1>3 DEF Next

\* Processes that have not been started are well typed.
LEMMA TypeInit ==
  ASSUME Init
  PROVE  TypeOK /\ VersionInv
<1>1. NoVersions \in Seq(0..LexLimit) /\ Len(NoVersions) = 0 /\ Idle \in Requests
  BY DEF NoVersions, Requests
<1> QED  BY <1>1 DEF Init, TypeOK, VersionInv, Version

\* Any number of processes, requests and restarts keeps the types; a request
\* is only ever keyed by a version its process has announced.
THEOREM TypeCorrect == Spec => []TypeOK
<1>1. Init => TypeOK /\ VersionInv
  BY TypeInit
<1>2. TypeOK /\ VersionInv /\ [Next]_vars => (TypeOK /\ VersionInv)'
  BY TypeStep, VersionStep
<1> QED  BY <1>1, <1>2, PTL DEF Spec

-----------------------------------------------------------------------------
(***************************************************************************)
(* The capacity of LocalCache.                                             *)
(***************************************************************************)
\* Evicting, clearing and forgetting items keeps a cache within its capacity.
LEMMA FewerItemsFit ==
  ASSUME NEW items, FitsL1(items), NEW rest \in SUBSET items
  PROVE  FitsL1(rest)
<1>1. IsFiniteSet(rest)
  BY FS_Subset DEF FitsL1
<1>2. ASSUME NEW s \in Shards, PerShardLimit > 0
      PROVE  Cardinality(InShard(rest, s)) <= PerShardLimit
  <2>1. InShard(rest, s) \in SUBSET InShard(items, s) /\ InShard(items, s) \in SUBSET items
    BY DEF InShard
  <2>2. IsFiniteSet(InShard(items, s))
    BY <2>1, FS_Subset DEF FitsL1
  <2>3. /\ Cardinality(InShard(rest, s)) <= Cardinality(InShard(items, s))
        /\ IsFiniteSet(InShard(rest, s))
    BY <2>1, <2>2, FS_Subset
  <2>4. Cardinality(InShard(items, s)) \in Nat /\ Cardinality(InShard(rest, s)) \in Nat
    BY <2>2, <2>3, FS_CardinalityType
  <2>5. Cardinality(InShard(items, s)) <= PerShardLimit
    BY <1>2 DEF FitsL1
  <2> QED  BY <2>3, <2>4, <2>5
<1> QED  BY <1>1, <1>2 DEF FitsL1

\* One more item fits when its key is not there yet and its shard has room.
LEMMA OneMoreItemFits ==
  ASSUME NEW items, FitsL1(items), NEW x, \A e \in items : e.key # x.key,
         PerShardLimit > 0 =>
           Cardinality(InShard(items, ShardOf[x.key])) < PerShardLimit
  PROVE  FitsL1(items \cup {x})
<1> DEFINE more == items \cup {x}
<1>1. IsFiniteSet(more)
  BY FS_AddElement DEF FitsL1
<1>2. \A d, e \in more : d.key = e.key => d = e
  BY DEF FitsL1
<1>3. ASSUME NEW s \in Shards, PerShardLimit > 0
      PROVE  Cardinality(InShard(more, s)) <= PerShardLimit
  <2>1. IsFiniteSet(InShard(items, s))
    <3>1. InShard(items, s) \in SUBSET items
      BY DEF InShard
    <3> QED  BY <3>1, FS_Subset DEF FitsL1
  <2>2. CASE s # ShardOf[x.key]
    <3>1. InShard(more, s) = InShard(items, s)
      BY <2>2 DEF InShard
    <3> QED  BY <1>3, <3>1 DEF FitsL1
  <2>3. CASE s = ShardOf[x.key]
    <3>1. InShard(more, s) = InShard(items, s) \cup {x} /\ x \notin InShard(items, s)
      BY <2>3 DEF InShard
    <3>2. Cardinality(InShard(more, s)) = Cardinality(InShard(items, s)) + 1
      BY <2>1, <3>1, FS_AddElement
    <3>3. Cardinality(InShard(items, s)) \in Nat
      BY <2>1, FS_CardinalityType
    <3> QED  BY <1>3, <2>3, <3>2, <3>3
  <2> QED  BY <2>2, <2>3
<1> HIDE DEF more
<1>4. FitsL1(more)
  BY <1>1, <1>2, <1>3 DEF FitsL1
<1> QED  BY <1>4 DEF more

\* An item may take the place of one with the same key.
LEMMA OtherItemFits ==
  ASSUME NEW items, FitsL1(items), NEW e \in items, NEW x, x.key = e.key, x.key \in Keys
  PROVE  FitsL1((items \ {e}) \cup {x})
<1> DEFINE rest == items \ {e}
           s == ShardOf[x.key]
           S == InShard(items, s)
<1>1. FitsL1(rest)
  BY FewerItemsFit
<1>2. \A d \in rest : d.key # x.key
  BY DEF FitsL1
<1>3. ASSUME PerShardLimit > 0
      PROVE  Cardinality(InShard(rest, s)) < PerShardLimit
  <2>1. InShard(rest, s) = S \ {e} /\ e \in S /\ S \in SUBSET items
    BY DEF InShard
  <2>2. IsFiniteSet(S)
    BY <2>1, FS_Subset DEF FitsL1
  <2>3. Cardinality(S) \in Nat /\ Cardinality(S) <= PerShardLimit
    BY <1>3, <2>2, FS_CardinalityType DEF FitsL1
  <2>4. Cardinality(S \ {e}) = Cardinality(S) - 1
    BY <2>1, <2>2, FS_RemoveElement
  <2> HIDE DEF S, s, rest
  <2> QED  BY <2>1, <2>3, <2>4
<1> QED  BY <1>1, <1>2, <1>3, OneMoreItemFits

\* LocalCache.Set keeps a cache within its capacity: it replaces the item of
\* its key, uses a free place, or refuses.
LEMMA PutFits ==
  ASSUME NEW items \in SUBSET L1Items, FitsL1(items), NEW k \in Keys, NEW lex
  PROVE  FitsL1(Put(items, k, lex))
<1> DEFINE new == [key |-> k, lex |-> lex, live |-> TRUE]
           others == {e \in items : e.key # k}
<1>0. new.key = k
  OBVIOUS
<1>1. CASE Refuses(items, k)
  BY <1>1 DEF Put
<1>2. ASSUME ~Refuses(items, k), NEW e \in items, e.key = k
      PROVE  FitsL1(Put(items, k, lex))
  <2>1. others = items \ {e}
    BY <1>2 DEF FitsL1
  <2>2. Put(items, k, lex) = (items \ {e}) \cup {new}
    BY <1>2, <2>1 DEF Put
  <2> HIDE DEF new
  <2> QED  BY <1>0, <1>2, <2>2, OtherItemFits
<1>3. ASSUME ~Refuses(items, k), \A e \in items : e.key # k
      PROVE  FitsL1(Put(items, k, lex))
  <2>1. others = items
    BY <1>3
  <2>2. Put(items, k, lex) = items \cup {new}
    BY <1>3, <2>1 DEF Put
  <2>3. PerShardLimit > 0 => Cardinality(InShard(items, ShardOf[k])) < PerShardLimit
    <3>1. InShard(items, ShardOf[k]) \in SUBSET items
      BY DEF InShard
    <3>2. Cardinality(InShard(items, ShardOf[k])) \in Nat
      BY <3>1, FS_Subset, FS_CardinalityType DEF FitsL1
    <3> QED  BY <1>3, <3>2 DEF Refuses
  <2> HIDE DEF new
  <2> QED  BY <1>0, <1>3, <2>2, <2>3, OneMoreItemFits
<1> QED  BY <1>1, <1>2, <1>3

\* Every step keeps the caches of all processes within their capacity.
LEMMA L1Step ==
  ASSUME TypeOK, L1Inv, [Next]_vars
  PROVE  L1Inv'
<1> USE DEF pollVars
<1>1. ASSUME NEW i \in Instances, NEW items, FitsL1(items), l1' = [l1 EXCEPT ![i] = items]
      PROVE  L1Inv'
  <2>1. \A j \in Instances : FitsL1(l1'[j])
    BY <1>1 DEF TypeOK, L1Inv
  <2> QED  BY <2>1 DEF L1Inv, FitsL1, InShard
<1>2. ASSUME UNCHANGED l1
      PROVE  L1Inv'
  BY <1>2 DEF L1Inv, FitsL1, InShard
<1>3. ASSUME NEW i \in Instances, NEW n \in Slots, RequestNext(i, n)
      PROVE  L1Inv'
  <2> DEFINE r == req[i][n]
  <2>1. CASE BackfillL1(i, n) \/ SetL1(i, n)
    <3>1. r.key \in Keys
      BY <2>1, RequestFields DEF BackfillL1, SetL1
    <3>2. FitsL1(Put(l1[i], r.key, r.lex))
      BY <3>1, PutFits DEF TypeOK, L1Inv
    <3>3. l1' = [l1 EXCEPT ![i] = Put(l1[i], r.key, r.lex)]
      BY <2>1 DEF BackfillL1, SetL1
    <3> QED  BY <1>1, <3>2, <3>3
  <2>2. CASE ~BackfillL1(i, n) /\ ~SetL1(i, n)
    <3>1. UNCHANGED l1
      BY <1>3, <2>2 DEF RequestNext, FilterBegin, GetL1, GetL2Hit, GetL2Miss, Match,
         SetL2, Respond
    <3> QED  BY <1>2, <3>1
  <2> QED  BY <2>1, <2>2
<1>4. ASSUME NEW i \in Instances, ProcessNext(i)
      PROVE  L1Inv'
  <2>0. FitsL1(l1[i])
    BY DEF L1Inv
  <2>1. ASSUME NEW e \in l1[i], ExpireL1(i, e)
        PROVE  L1Inv'
    <3> DEFINE x == [e EXCEPT !.live = FALSE]
    <3>1. e \in L1Items
      BY DEF TypeOK
    <3>2. x.key = e.key /\ x.key \in Keys
      BY <3>1 DEF L1Items
    <3>3. l1' = [l1 EXCEPT ![i] = (l1[i] \ {e}) \cup {x}]
      BY <2>1 DEF ExpireL1
    <3> HIDE DEF x
    <3>4. FitsL1((l1[i] \ {e}) \cup {x})
      BY <2>0, <3>2, OtherItemFits
    <3> QED  BY <1>1, <3>3, <3>4
  <2>2. ASSUME NEW s \in Shards, EvictL1(i, s) \/ DeleteByPrefixL1(i, s)
        PROVE  L1Inv'
    <3>1. PICK rest \in SUBSET l1[i] : l1' = [l1 EXCEPT ![i] = rest]
      <4>1. PICK E : l1' = [l1 EXCEPT ![i] = @ \ E]
        BY <2>2 DEF EvictL1, DeleteByPrefixL1
      <4> QED  BY <4>1
    <3> QED  BY <1>1, <2>0, <3>1, FewerItemsFit
  <2>3. CASE ProcessEnd(i)
    <3>1. FitsL1({}) /\ l1' = [l1 EXCEPT ![i] = {}]
      BY <2>0, <2>3, FewerItemsFit DEF ProcessEnd
    <3> QED  BY <1>1, <3>1
  <2>4. CASE Boot(i) \/ Load(i) \/ RebuildStore(i) \/ RebuildBump(i) \/ ScanPage(i)
             \/ ScanEnd(i)
    <3>1. UNCHANGED l1
      BY <2>4 DEF Boot, Load, RebuildStore, RebuildBump, ScanPage, ScanEnd
    <3> QED  BY <1>2, <3>1
  <2> QED  BY <1>4, <2>1, <2>2, <2>3, <2>4 DEF ProcessNext
<1>5. CASE WordsChange \/ (\E e \in l2 : ExpireL2(e)) \/ UNCHANGED vars
  <2>1. UNCHANGED l1
    BY <1>5 DEF WordsChange, ExpireL2, vars
  <2> QED  BY <1>2, <2>1
<1> QED  BY <1>3, <1>4, <1>5 DEF Next

\* LocalCache stays within its capacity and holds no key twice, for any shards,
\* limit, processes and requests, whatever expires, is evicted or is cleared
\* while answers are stored.
THEOREM LocalCacheBounded == Spec => []L1Bounded
<1>1. Init => L1Inv
  <2>1. Init => \A i \in Instances : l1[i] = {}
    BY DEF Init
  <2>2. FitsL1({})
    <3>1. \A s \in Shards : InShard({}, s) = {}
      BY DEF InShard
    <3> QED  BY <3>1, FS_EmptySet DEF FitsL1
  <2> QED  BY <2>1, <2>2 DEF L1Inv
<1>2. TypeOK /\ L1Inv /\ [Next]_vars => L1Inv'
  BY L1Step
<1>3. L1Inv => L1Bounded
  BY DEF L1Inv, L1Bounded, FitsL1
<1> QED  BY <1>1, <1>2, <1>3, TypeCorrect, PTL DEF Spec

-----------------------------------------------------------------------------
(***************************************************************************)
(* A single process, started once.                                         *)
(***************************************************************************)
\* What a step leaves of the invariant when engine and announced versions
\* stay: it is enough to look at the new cache items and the new request.
LEMMA RequestsKeepInv ==
  ASSUME NEW p \in Instances, TypeOK, VersionInv, OneProcessInv(p),
         NEW n \in Slots, RequestNext(p, n)
  PROVE  OneProcessInv(p)'
<1> DEFINE r == req[p][n]
<1> USE DEF pollVars
<1>0. UNCHANGED <<dbLex, cur, lexAt, poll, target, starts>>
  BY DEF RequestNext, FilterBegin, GetL1, GetL2Hit, GetL2Miss, BackfillL1, Match,
     SetL1, SetL2, Respond
<1>1. r.at = "idle" => \E q \in Queries : FilterBegin(p, n, q)
  BY DEF RequestNext, GetL1, GetL2Hit, GetL2Miss, BackfillL1, Match, SetL1, SetL2, Respond
<1>2. poll[p] # "down" /\ EngineInv(p) /\ CacheInv(p) /\ RequestInv(p) /\ starts[p] # 0
  <2>1. poll[p] # "down"
    <3> SUFFICES ASSUME poll[p] = "down"  PROVE FALSE
      OBVIOUS
    <3>1. r.at = "idle"
      BY DEF OneProcessInv, Idle
    <3> QED  BY <1>1, <3>1 DEF FilterBegin
  <2> QED  BY <2>1 DEF OneProcessInv
<1>3. EngineInv(p)'
  BY <1>0, <1>2 DEF EngineInv, Version
<1>4. /\ r.at \in {"l1get", "l2get", "match"} =>
            r.key \in Keys /\ r.floor \in 0..LexLimit
      /\ r.at \in {"backfill", "set1", "set2", "done"} =>
            r.key \in Keys /\ r.floor \in 0..LexLimit /\ r.lex \in 0..LexLimit
  BY RequestFields
<1>5. CacheInv(p)'
  <2>1. \A e \in l1'[p] \cup l2' :
          \/ e \in l1[p] \cup l2
          \/ e.key = r.key /\ e.lex = r.lex /\ Fresh(p, r.key, r.lex)
    <3>1. CASE BackfillL1(p, n) \/ SetL1(p, n)
      <4>1. l1'[p] = Put(l1[p], r.key, r.lex) /\ l2' = l2
        BY <3>1 DEF BackfillL1, SetL1, TypeOK
      <4>2. Fresh(p, r.key, r.lex) /\ r.key \in Keys /\ r.lex \in 0..LexLimit
        BY <1>2, <1>4, <3>1 DEF BackfillL1, SetL1, RequestInv
      <4>3. \A e \in Put(l1[p], r.key, r.lex) :
              e \in l1[p] \/ (e.key = r.key /\ e.lex = r.lex)
        BY <4>2, PutType DEF TypeOK
      <4> QED  BY <4>1, <4>2, <4>3
    <3>2. CASE SetL2(p, n)
      BY <1>2, <3>2 DEF SetL2, RequestInv
    <3>3. CASE ~BackfillL1(p, n) /\ ~SetL1(p, n) /\ ~SetL2(p, n)
      BY <3>3 DEF RequestNext, FilterBegin, GetL1, GetL2Hit, GetL2Miss, Match, Respond
    <3> QED  BY <3>1, <3>2, <3>3
  <2> QED  BY <1>0, <1>2, <2>1 DEF CacheInv, Fresh, Version
<1>6. RequestInv(p)'
  <2> DEFINE Good(s) ==
               /\ Step(p, n, s)
               /\ s.at # "idle" =>
                    s.key[2] \in 1..Version(p) /\ s.floor = lexAt[p][s.key[2]]
               /\ s.at \in {"backfill", "set1", "set2", "done"} => Fresh(p, s.key, s.lex)
  <2>1. \E s \in Requests : Good(s)
    <3>1. ASSUME NEW q \in Queries, FilterBegin(p, n, q)
          PROVE  \E s \in Requests : Good(s)
      <4> DEFINE v == Version(p)
                 b == [at |-> "l1get", key |-> <<q, v>>, floor |-> lexAt[p][v]]
      <4>1. lexAt[p] \in Seq(0..LexLimit) /\ v \in 1..VersionLimit /\ v = Len(lexAt[p])
        BY <3>1 DEF FilterBegin, VersionInv, TypeOK, Version
      <4>2. lexAt[p][v] \in 0..LexLimit /\ <<q, v>> \in Keys /\ v \in 1..v
        BY <4>1 DEF Keys
      <4>3. b \in Requests
        BY <4>2 DEF Requests
      <4>4. Step(p, n, b) /\ b.key[2] = v /\ b.floor = lexAt[p][v] /\ b.at = "l1get"
        BY <3>1 DEF FilterBegin
      <4> QED  BY <4>2, <4>3, <4>4
    <3>2. ASSUME NEW at \in {"backfill", "set1", "set2", "done"}, NEW lex \in 0..LexLimit,
                 Step(p, n, Computed(r, at, lex)), Fresh(p, r.key, lex),
                 r.at # "idle", r.key \in Keys, r.floor \in 0..LexLimit
          PROVE  \E s \in Requests : Good(s)
      <4> DEFINE s == Computed(r, at, lex)
      <4>1. s.key = r.key /\ s.floor = r.floor /\ s.at = at /\ s.lex = lex
        BY DEF Computed
      <4>2. s \in Requests
        BY <3>2, ComputedType
      <4>3. Good(s)
        BY <1>2, <3>2, <4>1 DEF RequestInv
      <4> QED  BY <4>2, <4>3
    <3>3. ASSUME NEW at \in {"l2get", "match"}, Step(p, n, Waiting(r, at)),
                 r.at # "idle", r.key \in Keys, r.floor \in 0..LexLimit
          PROVE  \E s \in Requests : Good(s)
      <4> DEFINE s == Waiting(r, at)
      <4>1. s.key = r.key /\ s.floor = r.floor /\ s.at = at
        BY DEF Waiting
      <4>2. s \in Requests
        BY <3>3, ComputedType
      <4>3. Good(s)
        BY <1>2, <3>3, <4>1 DEF RequestInv
      <4> QED  BY <4>2, <4>3
    <3> HIDE DEF Good
    <3>4. CASE GetL1(p, n)
      <4>1. CASE Step(p, n, Waiting(r, "l2get"))
        BY <1>4, <3>3, <3>4, <4>1 DEF GetL1
      <4>2. ASSUME NEW e \in Hits(l1[p], r.key), Step(p, n, Computed(r, "done", e.lex))
            PROVE  \E s \in Requests : Good(s)
        <5>1. e \in l1[p] /\ e.key = r.key
          BY DEF Hits
        <5>2. Fresh(p, r.key, e.lex) /\ e.lex \in 0..LexLimit
          BY <1>2, <5>1 DEF CacheInv, TypeOK, L1Items
        <5> QED  BY <1>4, <3>2, <3>4, <4>2, <5>2 DEF GetL1
      <4> QED  BY <3>4, <4>1, <4>2 DEF GetL1
    <3>5. CASE GetL2Hit(p, n)
      <4>1. PICK e \in l2 : e.key = r.key /\ Step(p, n, Computed(r, "backfill", e.lex))
        BY <3>5 DEF GetL2Hit
      <4>2. Fresh(p, r.key, e.lex) /\ e.lex \in 0..LexLimit
        BY <1>2, <4>1 DEF CacheInv, TypeOK, L2Items
      <4> QED  BY <1>4, <3>2, <3>5, <4>1, <4>2 DEF GetL2Hit
    <3>6. CASE GetL2Miss(p, n)
      BY <1>4, <3>3, <3>6 DEF GetL2Miss
    <3>7. CASE BackfillL1(p, n) \/ SetL1(p, n) \/ SetL2(p, n)
      <4>1. Fresh(p, r.key, r.lex)
        BY <1>2, <3>7 DEF BackfillL1, SetL1, SetL2, RequestInv
      <4> QED  BY <1>4, <3>2, <3>7, <4>1 DEF BackfillL1, SetL1, SetL2
    <3>8. CASE Match(p, n)
      <4>1. Fresh(p, r.key, cur[p]) /\ cur[p] \in 0..LexLimit
        BY <1>2, <3>8 DEF Match, RequestInv, EngineInv, Fresh, TypeOK
      <4> QED  BY <1>4, <3>2, <3>8, <4>1 DEF Match
    <3>9. CASE Respond(p, n)
      <4>1. Idle \in Requests /\ Idle.at = "idle" /\ Step(p, n, Idle)
        BY <3>9 DEF Respond, Requests, Idle
      <4> QED  BY <4>1 DEF Good
    <3> QED  BY <3>1, <3>4, <3>5, <3>6, <3>7, <3>8, <3>9 DEF RequestNext
  <2>2. PICK s \in Requests : Good(s)
    BY <2>1
  <2>3. req'[p][n] = s /\ \A m \in Slots : m # n => req'[p][m] = req[p][m]
    BY <2>2, StepType
  <2> QED  BY <1>0, <1>2, <2>2, <2>3 DEF RequestInv, Fresh, Version
<1> QED  BY <1>0, <1>2, <1>3, <1>5, <1>6 DEF OneProcessInv

\* The poll loop, the TTLs and the crash of p preserve the invariant.
LEMMA ProcessKeepsInv ==
  ASSUME NEW p \in Instances, TypeOK, VersionInv, OneProcessInv(p), StartLimit = 1,
         ProcessNext(p)
  PROVE  OneProcessInv(p)'
<1> USE DEF pollVars
<1>0. lexAt[p] \in Seq(0..LexLimit) /\ cur[p] \in Nat /\ dbLex \in Nat /\ target[p] \in Nat
  BY DEF TypeOK
<1>1. CASE Boot(p)
  <2>1. poll[p] = "down" /\ starts[p] = 0 /\ l1[p] = {} /\ l2 = {}
    BY <1>1 DEF Boot, OneProcessInv, TypeOK
  <2>2. /\ cur'[p] = dbLex /\ lexAt'[p] = <<dbLex>> /\ poll'[p] = "idle"
        /\ starts'[p] = 1 /\ UNCHANGED <<dbLex, l1, l2, req>>
    BY <1>1, <2>1 DEF Boot, TypeOK
  <2>3. EngineInv(p)'
    BY <1>0, <2>2 DEF EngineInv, Version
  <2>4. CacheInv(p)' /\ RequestInv(p)'
    BY <2>1, <2>2 DEF CacheInv, RequestInv, OneProcessInv, Idle
  <2> QED  BY <2>2, <2>3, <2>4 DEF OneProcessInv
<1>2. CASE ProcessEnd(p)
  BY <1>2 DEF ProcessEnd, TypeOK, OneProcessInv
<1>3. CASE ~Boot(p) /\ ~ProcessEnd(p)
  <2>1. poll[p] # "down" /\ poll'[p] # "down" /\ UNCHANGED <<starts, req, dbLex>>
    <3>1. UNCHANGED <<starts, req, dbLex>>
      BY <1>3 DEF ProcessNext, Load, RebuildStore, RebuildBump, DeleteByPrefixL1, ScanPage,
         ScanEnd, ExpireL1, EvictL1
    <3>2. poll[p] # "down"
      BY <1>3 DEF ProcessNext, Load, RebuildStore, RebuildBump, DeleteByPrefixL1, ScanPage,
         ScanEnd, ExpireL1, EvictL1, InShard, OneProcessInv
    <3>3. poll'[p] = poll[p] \/ poll'[p] # "down"
      BY <1>3 DEF ProcessNext, Load, RebuildStore, RebuildBump, DeleteByPrefixL1, ScanPage,
         ScanEnd, ExpireL1, EvictL1, TypeOK
    <3> QED  BY <3>1, <3>2, <3>3
  <2>2. EngineInv(p) /\ CacheInv(p) /\ RequestInv(p) /\ starts[p] # 0
    BY <2>1 DEF OneProcessInv
  <2>3. EngineInv(p)' /\ (\A v \in 1..Version(p) : lexAt'[p][v] = lexAt[p][v])
        /\ Len(lexAt'[p]) >= Version(p) /\ Version(p) \in Nat
    <3>1. CASE RebuildBump(p)
      <4>1. /\ lexAt'[p] = Append(lexAt[p], cur[p]) /\ UNCHANGED <<cur, target>>
            /\ poll'[p] = "bumped"
        BY <3>1 DEF RebuildBump, TypeOK
      <4>2. /\ Len(lexAt'[p]) = Len(lexAt[p]) + 1
            /\ \A v \in 1..Len(lexAt[p]) : lexAt'[p][v] = lexAt[p][v]
            /\ lexAt'[p][Len(lexAt[p]) + 1] = cur[p]
        BY <1>0, <4>1
      <4> QED  BY <1>0, <2>1, <2>2, <4>1, <4>2 DEF EngineInv, Version
    <3>2. CASE ~RebuildBump(p)
      <4>1. UNCHANGED lexAt
        BY <1>3, <3>2 DEF ProcessNext, Load, RebuildStore, DeleteByPrefixL1, ScanPage,
           ScanEnd, ExpireL1, EvictL1
      <4>2. CASE Load(p)
        BY <1>0, <2>2, <4>1, <4>2 DEF Load, TypeOK, EngineInv, Version
      <4>3. CASE RebuildStore(p)
        <5>1. /\ cur'[p] = target[p] /\ poll'[p] = "stored" /\ poll[p] = "loaded"
          BY <4>3 DEF RebuildStore, TypeOK
        <5>2. cur[p] <= target[p] /\ target[p] <= dbLex
          BY <2>2, <5>1 DEF EngineInv
        <5>3. \A v \in 1..Version(p) : lexAt[p][v] \in Nat /\ lexAt[p][v] <= cur[p]
          BY <1>0, <2>2 DEF EngineInv, Version
        <5> QED  BY <1>0, <2>1, <4>1, <5>1, <5>2, <5>3 DEF EngineInv, Version
      <4>4. CASE ~Load(p) /\ ~RebuildStore(p)
        <5>1. /\ cur' = cur /\ target' = target
              /\ poll'[p] # "loaded" \/ poll'[p] = poll[p]
          BY <1>3, <3>2, <4>4 DEF ProcessNext, DeleteByPrefixL1, ScanPage, ScanEnd, ExpireL1,
             EvictL1, TypeOK
        <5>2. Version(p)' = Version(p) /\ Version(p) \in Nat
          BY <1>0, <4>1 DEF Version
        <5>3. poll'[p] = "loaded" => cur'[p] <= target'[p] /\ target'[p] <= dbLex'
          BY <2>1, <2>2, <5>1 DEF EngineInv
        <5>4. cur'[p] <= dbLex' /\ \A v \in 1..Version(p)' : lexAt'[p][v] <= cur'[p]
          BY <2>1, <2>2, <4>1, <5>1, <5>2 DEF EngineInv
        <5>5. EngineInv(p)'
          BY <5>3, <5>4 DEF EngineInv
        <5> QED  BY <1>0, <4>1, <5>2, <5>5 DEF Version
      <4> QED  BY <4>2, <4>3, <4>4
    <3> QED  BY <3>1, <3>2
  <2>4. \A e \in l1'[p] \cup l2' :
          \E d \in l1[p] \cup l2 : e.key = d.key /\ e.lex = d.lex
    <3>1. ASSUME NEW d \in l1[p], ExpireL1(p, d), NEW e \in l1'[p] \cup l2'
          PROVE  \E c \in l1[p] \cup l2 : e.key = c.key /\ e.lex = c.lex
      <4>1. d \in L1Items
        BY DEF TypeOK
      <4> DEFINE x == [d EXCEPT !.live = FALSE]
      <4>2. x.key = d.key /\ x.lex = d.lex
        BY <4>1 DEF L1Items
      <4>3. l1'[p] \subseteq l1[p] \cup {x} /\ l2' = l2
        BY <3>1 DEF ExpireL1, TypeOK
      <4> HIDE DEF x
      <4> QED  BY <4>2, <4>3
    <3>2. CASE ~\E d \in l1[p] : ExpireL1(p, d)
      <4>1. l1'[p] \subseteq l1[p] /\ l2' \subseteq l2
        BY <1>3, <3>2 DEF ProcessNext, Load, RebuildStore, RebuildBump, DeleteByPrefixL1,
           ScanPage, ScanEnd, EvictL1, TypeOK
      <4> QED  BY <4>1
    <3> QED  BY <3>1, <3>2
  <2>5. CacheInv(p)'
    BY <2>2, <2>3, <2>4 DEF CacheInv, Fresh, Version
  <2>6. RequestInv(p)'
    <3>1. Version(p)' \in Nat /\ Version(p) <= Version(p)'
      BY <2>1, <2>3 DEF Version
    <3>2. \A v \in 1..Version(p) : v \in 1..Version(p)' /\ lexAt'[p][v] = lexAt[p][v]
      BY <2>3, <3>1
    <3>3. \A k, lex : Fresh(p, k, lex) => Fresh(p, k, lex)'
      BY <3>2 DEF Fresh
    <3> QED  BY <2>1, <2>2, <3>2, <3>3 DEF RequestInv
  <2> QED  BY <2>1, <2>2, <2>3, <2>5, <2>6 DEF OneProcessInv
<1> QED  BY <1>1, <1>2, <1>3

\* Every step preserves the invariant of a single process.
LEMMA OneProcessStep ==
  ASSUME NEW p, Instances = {p}, StartLimit = 1,
         TypeOK, VersionInv, OneProcessInv(p), [Next]_vars
  PROVE  OneProcessInv(p)'
<1>1. CASE WordsChange
  BY <1>1 DEF WordsChange, OneProcessInv, EngineInv, CacheInv, RequestInv, Fresh,
     Version, TypeOK
<1>2. ASSUME NEW e \in l2, ExpireL2(e)
      PROVE  OneProcessInv(p)'
  BY <1>2 DEF ExpireL2, pollVars, OneProcessInv, EngineInv, CacheInv, RequestInv, Fresh,
     Version
<1>3. CASE UNCHANGED vars
  BY <1>3 DEF vars, OneProcessInv, EngineInv, CacheInv, RequestInv, Fresh, Version
<1> QED  BY <1>1, <1>2, <1>3, ProcessKeepsInv, RequestsKeepInv DEF Next

\* A process that has Redis to itself and is never restarted answers every
\* request from a lexicon at least as recent as the one announced when the
\* request began, whatever rebuilds, expiries, evictions, partial
\* invalidations and Redis failures happen meanwhile.
THEOREM SingleProcessNeverStale ==
  ASSUME NEW p, Instances = {p}, StartLimit = 1
  PROVE  Spec => []NoStaleAnswer
<1>1. Init => TypeOK /\ VersionInv /\ OneProcessInv(p)
  <2>1. Init => OneProcessInv(p)
    BY DEF Init, OneProcessInv
  <2> QED  BY <2>1, TypeInit
<1>2. TypeOK /\ VersionInv /\ OneProcessInv(p) /\ [Next]_vars
        => (TypeOK /\ VersionInv /\ OneProcessInv(p))'
  BY TypeStep, VersionStep, OneProcessStep
<1>3. TypeOK /\ VersionInv /\ OneProcessInv(p) => NoStaleAnswer
  <2> SUFFICES ASSUME TypeOK, OneProcessInv(p), NEW n \in Slots, req[p][n].at = "done"
               PROVE  req[p][n].lex >= req[p][n].floor
    BY DEF NoStaleAnswer
  <2>1. poll[p] # "down"
    BY DEF OneProcessInv, Idle
  <2>2. req[p][n].floor <= req[p][n].lex
    BY <2>1 DEF OneProcessInv, RequestInv, Fresh
  <2>3. req[p][n].floor \in 0..LexLimit /\ req[p][n].lex \in 0..LexLimit
    BY RequestFields
  <2> QED  BY <2>2, <2>3
<1> QED  BY <1>1, <1>2, <1>3, PTL DEF Spec

-----------------------------------------------------------------------------
(***************************************************************************)
(* A single process, started once, implements FreshAnswers.                *)
(***************************************************************************)
\* No step of a request stores or computes an answer ahead of the database.
LEMMA RequestsNotAhead ==
  ASSUME NEW p \in Instances, TypeOK, OneProcessInv(p), NotAhead(p),
         NEW n \in Slots, RequestNext(p, n)
  PROVE  NotAhead(p)'
<1> DEFINE r == req[p][n]
           Good(s) == /\ Step(p, n, s)
                      /\ s.at \in {"backfill", "set1", "set2", "done"} => s.lex <= dbLex
<1> USE DEF pollVars
<1>0. UNCHANGED <<dbLex, cur, lexAt, poll>>
  BY DEF RequestNext, FilterBegin, GetL1, GetL2Hit, GetL2Miss, BackfillL1, Match,
     SetL1, SetL2, Respond
<1>1. /\ r.at \in {"l1get", "l2get", "match"} =>
            r.key \in Keys /\ r.floor \in 0..LexLimit
      /\ r.at \in {"backfill", "set1", "set2", "done"} =>
            r.key \in Keys /\ r.floor \in 0..LexLimit /\ r.lex \in 0..LexLimit
  BY RequestFields
<1>2. \A e \in l1'[p] \cup l2' : e.lex <= dbLex
  <2>1. CASE BackfillL1(p, n) \/ SetL1(p, n)
    <3>1. l1'[p] = Put(l1[p], r.key, r.lex) /\ l2' = l2
      BY <2>1 DEF BackfillL1, SetL1, TypeOK
    <3>2. r.key \in Keys /\ r.lex \in 0..LexLimit /\ r.lex <= dbLex
      BY <1>1, <2>1 DEF BackfillL1, SetL1, NotAhead
    <3>3. \A e \in Put(l1[p], r.key, r.lex) : e \in l1[p] \/ e.lex = r.lex
      BY <3>2, PutType DEF TypeOK
    <3> QED  BY <3>1, <3>2, <3>3 DEF NotAhead
  <2>2. CASE SetL2(p, n)
    BY <2>2 DEF SetL2, NotAhead
  <2>3. CASE ~BackfillL1(p, n) /\ ~SetL1(p, n) /\ ~SetL2(p, n)
    <3>1. UNCHANGED <<l1, l2>>
      BY <2>3 DEF RequestNext, FilterBegin, GetL1, GetL2Hit, GetL2Miss, Match, Respond
    <3> QED  BY <3>1 DEF NotAhead
  <2> QED  BY <2>1, <2>2, <2>3
<1>3. PICK s : Good(s)
  <2>1. ASSUME NEW at, NEW lex, lex <= dbLex, Step(p, n, Computed(r, at, lex))
        PROVE  \E s : Good(s)
    <3>1. Computed(r, at, lex).lex = lex
      BY DEF Computed
    <3> QED  BY <2>1, <3>1
  <2>2. ASSUME NEW at \in {"l2get", "match"}, Step(p, n, Waiting(r, at))
        PROVE  \E s : Good(s)
    <3>1. Waiting(r, at).at = at
      BY DEF Waiting
    <3> QED  BY <2>2, <3>1
  <2>3. ASSUME NEW q \in Queries, FilterBegin(p, n, q)
        PROVE  \E s : Good(s)
    <3> DEFINE b == [at |-> "l1get", key |-> <<q, Version(p)>>,
                     floor |-> lexAt[p][Version(p)]]
    <3>1. Step(p, n, b) /\ b.at = "l1get"
      BY <2>3 DEF FilterBegin
    <3> HIDE DEF b
    <3> QED  BY <3>1
  <2>4. CASE Respond(p, n)
    <3>1. Step(p, n, Idle) /\ Idle.at = "idle"
      BY <2>4 DEF Respond, Idle
    <3> QED  BY <3>1
  <2> HIDE DEF Good
  <2>5. CASE GetL1(p, n)
    BY <2>1, <2>2, <2>5 DEF GetL1, Hits, NotAhead
  <2>6. CASE GetL2Hit(p, n) \/ GetL2Miss(p, n)
    BY <2>1, <2>2, <2>6 DEF GetL2Hit, GetL2Miss, NotAhead
  <2>7. CASE BackfillL1(p, n) \/ SetL1(p, n) \/ SetL2(p, n)
    BY <2>1, <2>7 DEF BackfillL1, SetL1, SetL2, NotAhead
  <2>8. CASE Match(p, n)
    <3>1. cur[p] <= dbLex
      BY <2>8 DEF Match, OneProcessInv, EngineInv, Idle
    <3> QED  BY <2>1, <2>8, <3>1 DEF Match
  <2> QED  BY <2>3, <2>4, <2>5, <2>6, <2>7, <2>8 DEF RequestNext
<1>4. req'[p][n] = s /\ \A m \in Slots : m # n => req'[p][m] = req[p][m]
  BY <1>3 DEF Step, TypeOK
<1>5. \A m \in Slots : req'[p][m].at \in {"backfill", "set1", "set2", "done"} =>
        req'[p][m].lex <= dbLex
  BY <1>3, <1>4 DEF NotAhead
<1> QED  BY <1>0, <1>2, <1>5 DEF NotAhead

\* No other step does either.
LEMMA NotAheadStep ==
  ASSUME NEW p, Instances = {p}, TypeOK, OneProcessInv(p), NotAhead(p), [Next]_vars
  PROVE  NotAhead(p)'
<1> USE DEF pollVars
<1>0. p \in Instances /\ dbLex \in Nat
  BY DEF TypeOK
<1>1. ASSUME UNCHANGED <<lexAt, poll, req, l1>>, dbLex' \in {dbLex, dbLex + 1},
             l2' \subseteq l2
      PROVE  NotAhead(p)'
  <2>1. /\ \A e \in l1[p] \cup l2 : e.lex \in Nat
        /\ \A n \in Slots : req[p][n].at \in {"backfill", "set1", "set2", "done"} =>
             req[p][n].lex \in Nat
    BY <1>0, RequestFields DEF TypeOK, L1Items, L2Items
  <2> QED  BY <1>0, <1>1, <2>1 DEF NotAhead
<1>2. CASE WordsChange \/ (\E e \in l2 : ExpireL2(e)) \/ UNCHANGED vars
  BY <1>1, <1>2 DEF WordsChange, ExpireL2, vars
<1>3. CASE ProcessNext(p)
  <2>1. CASE ProcessEnd(p)
    <3>1. l1'[p] = {} /\ lexAt'[p] = NoVersions /\ \A n \in Slots : req'[p][n] = Idle
      BY <1>0, <2>1 DEF ProcessEnd, TypeOK
    <3>2. UNCHANGED <<l2, dbLex>>
      BY <2>1 DEF ProcessEnd
    <3> QED  BY <3>1, <3>2 DEF NotAhead, Idle
  <2>2. CASE ~ProcessEnd(p)
    <3>1. UNCHANGED <<dbLex, req>> /\ l2' \subseteq l2
      BY <1>3, <2>2 DEF ProcessNext, Boot, Load, RebuildStore, RebuildBump, DeleteByPrefixL1,
         ScanPage, ScanEnd, ExpireL1, EvictL1
    <3>2. poll'[p] = "down" => poll[p] = "down" /\ lexAt'[p] = lexAt[p]
      BY <1>0, <1>3, <2>2 DEF ProcessNext, Boot, Load, RebuildStore, RebuildBump,
         DeleteByPrefixL1, ScanPage, ScanEnd, ExpireL1, EvictL1, TypeOK
    <3>3. \A e \in l1'[p] : e \in l1[p] \/ \E d \in l1[p] : e.lex = d.lex
      <4>1. ASSUME NEW d \in l1[p], ExpireL1(p, d), NEW e \in l1'[p]
            PROVE  e \in l1[p] \/ e.lex = d.lex
        <5> DEFINE x == [d EXCEPT !.live = FALSE]
        <5>1. d \in L1Items
          BY <1>0 DEF TypeOK
        <5>2. x.lex = d.lex
          BY <5>1 DEF L1Items
        <5>3. l1'[p] \subseteq l1[p] \cup {x}
          BY <1>0, <4>1 DEF ExpireL1, TypeOK
        <5> HIDE DEF x
        <5> QED  BY <5>2, <5>3
      <4>2. CASE ~\E d \in l1[p] : ExpireL1(p, d)
        <5>1. l1'[p] \subseteq l1[p]
          BY <1>0, <1>3, <2>2, <4>2 DEF ProcessNext, Boot, Load, RebuildStore, RebuildBump,
             DeleteByPrefixL1, ScanPage, ScanEnd, EvictL1, TypeOK
        <5> QED  BY <5>1
      <4> QED  BY <4>1, <4>2
    <3> QED  BY <3>1, <3>2, <3>3 DEF NotAhead
  <2> QED  BY <2>1, <2>2
<1> QED  BY <1>0, <1>2, <1>3, RequestsNotAhead DEF Next

\* What the clients of the only process see
Announced(p) == IF lexAt[p] = NoVersions THEN 0 ELSE lexAt[p][Version(p)]
Questions(p) == [n \in Slots |-> Question(req[p][n])]

\* The refinement mapping is about that process.
LEMMA TheProcess ==
  ASSUME NEW p, Instances = {p}
  PROVE  Process = p
BY DEF Process

\* A step of one request changes one question.
LEMMA OneQuestion ==
  ASSUME NEW p \in Instances, TypeOK, NEW n \in Slots, NEW s, Step(p, n, s)
  PROVE  Questions(p)' = [Questions(p) EXCEPT ![n] = Question(s)]
<1>1. req'[p][n] = s /\ \A m \in Slots : m # n => req'[p][m] = req[p][m]
  BY DEF Step, TypeOK
<1>2. Questions(p)' = [m \in Slots |-> Question(req'[p][m])]
  BY DEF Questions, Question
<1> QED  BY <1>1, <1>2 DEF Questions

\* Only the last step of a lookup or of a computation shows the answer; it is
\* one that FreshAnswers may give.
LEMMA RequestRefines ==
  ASSUME NEW p, Instances = {p}, TypeOK, VersionInv, OneProcessInv(p), NotAhead(p),
         NEW n \in Slots, RequestNext(p, n)
  PROVE  [Answers!Next]_(Answers!vars)
<1> DEFINE r == req[p][n]
<1> USE DEF pollVars
<1>0. p \in Instances /\ Process = p
  BY TheProcess
<1>1. UNCHANGED <<dbLex, lexAt>> /\ Announced(p)' = Announced(p)
  BY DEF RequestNext, FilterBegin, GetL1, GetL2Hit, GetL2Miss, BackfillL1, Match,
     SetL1, SetL2, Respond, Announced, Version
<1>2. r.at # "idle" => poll[p] # "down"
  BY DEF OneProcessInv, Idle
<1>3. /\ r.at \in {"l1get", "l2get", "match"} =>
            r.key \in Keys /\ r.floor \in 0..LexLimit
      /\ r.at \in {"backfill", "set1", "set2", "done"} =>
            r.key \in Keys /\ r.floor \in 0..LexLimit /\ r.lex \in 0..LexLimit
  BY <1>0, RequestFields
<1>4. Questions(p)[n] = Question(r)
  BY DEF Questions
<1>5. ASSUME NEW s, Step(p, n, s), Question(s) = Question(r)
      PROVE  UNCHANGED Answers!vars
  <2>1. Questions(p)' = [Questions(p) EXCEPT ![n] = Question(s)]
    BY <1>0, <1>5, OneQuestion
  <2>2. Questions(p)' = [Questions(p) EXCEPT ![n] = Questions(p)[n]]
    BY <1>4, <1>5, <2>1
  <2>3. [Questions(p) EXCEPT ![n] = Questions(p)[n]] = Questions(p)
    BY DEF Questions
  <2>4. Questions(p)' = Questions(p)
    BY <2>2, <2>3
  <2> QED  BY <1>0, <1>1, <2>4 DEF Answers!vars, Announced, Questions
<1>6. ASSUME NEW lex \in Nat, r.at \in {"l1get", "backfill", "set2"},
             r.floor <= lex, lex <= dbLex, Step(p, n, Computed(r, "done", lex))
      PROVE  Answers!Reply(n)
  <2> DEFINE s == Computed(r, "done", lex)
  <2>1. Question(s) = [at |-> "answered", lex |-> lex]
    BY DEF Question, Computed
  <2>2. Question(r) = [at |-> "asked", floor |-> r.floor]
    BY <1>6 DEF Question
  <2>3. Questions(p)' = [Questions(p) EXCEPT ![n] = [at |-> "answered", lex |-> lex]]
    BY <1>0, <1>6, <2>1, OneQuestion
  <2>4. Questions(p)[n].at = "asked" /\ Questions(p)[n].floor = r.floor
    BY <1>4, <2>2
  <2>5. lex \in r.floor..dbLex
    BY <1>0, <1>3, <1>6 DEF TypeOK
  <2> QED  BY <1>0, <1>1, <2>3, <2>4, <2>5 DEF Answers!Reply, Announced, Questions
<1>7. ASSUME NEW q \in Queries, FilterBegin(p, n, q)
      PROVE  Answers!Ask(n)
  <2> DEFINE s == [at |-> "l1get", key |-> <<q, Version(p)>>,
                   floor |-> lexAt[p][Version(p)]]
  <2>1. lexAt[p] # NoVersions /\ Announced(p) = lexAt[p][Version(p)]
    BY <1>0, <1>7 DEF FilterBegin, VersionInv, Version, NoVersions, Announced
  <2>2. Question(s) = [at |-> "asked", floor |-> Announced(p)]
    BY <2>1 DEF Question
  <2>3. Step(p, n, s) /\ r.at = "idle"
    BY <1>7 DEF FilterBegin
  <2>4. Questions(p)' = [Questions(p) EXCEPT ![n] = [at |-> "asked", floor |-> Announced(p)]]
    BY <1>0, <2>2, <2>3, OneQuestion
  <2>5. Questions(p)[n] = [at |-> "quiet"]
    BY <1>4, <2>3 DEF Question
  <2> QED  BY <1>0, <1>1, <2>4, <2>5 DEF Answers!Ask, Answers!Quiet, Announced, Questions
<1>8. CASE Respond(p, n)
  <2>1. Question(Idle) = [at |-> "quiet"] /\ Question(r) = [at |-> "answered", lex |-> r.lex]
    BY <1>8 DEF Question, Idle, Respond
  <2>2. Questions(p)' = [Questions(p) EXCEPT ![n] = [at |-> "quiet"]]
    BY <1>0, <1>8, <2>1, OneQuestion DEF Respond
  <2>3. Answers!Done(n)
    BY <1>0, <1>1, <1>4, <2>1, <2>2 DEF Answers!Done, Answers!Quiet, Announced, Questions
  <2> QED  BY <2>3 DEF Answers!Next
<1>9. CASE GetL1(p, n)
  <2>1. CASE Step(p, n, Waiting(r, "l2get"))
    <3>1. Question(Waiting(r, "l2get")) = Question(r)
      BY <1>9 DEF GetL1, Question, Waiting
    <3> QED  BY <1>5, <2>1, <3>1
  <2>2. ASSUME NEW e \in Hits(l1[p], r.key), Step(p, n, Computed(r, "done", e.lex))
        PROVE  [Answers!Next]_(Answers!vars)
    <3>1. e \in l1[p] /\ e.key = r.key
      BY DEF Hits
    <3>2. Fresh(p, r.key, e.lex) /\ r.floor = lexAt[p][r.key[2]] /\ e.lex <= dbLex
      BY <1>2, <1>9, <3>1 DEF GetL1, OneProcessInv, CacheInv, RequestInv, NotAhead
    <3>3. e.lex \in Nat
      BY <1>0, <3>1 DEF TypeOK, L1Items
    <3>4. Answers!Reply(n)
      BY <1>6, <1>9, <2>2, <3>2, <3>3 DEF GetL1, Fresh
    <3> QED  BY <3>4 DEF Answers!Next
  <2> QED  BY <1>9, <2>1, <2>2 DEF GetL1
<1>10. CASE BackfillL1(p, n) \/ SetL2(p, n)
  <2>1. r.at \in {"backfill", "set2"} /\ Step(p, n, Computed(r, "done", r.lex))
    BY <1>10 DEF BackfillL1, SetL2
  <2>2. Fresh(p, r.key, r.lex) /\ r.floor = lexAt[p][r.key[2]] /\ r.lex <= dbLex
    BY <1>2, <2>1 DEF OneProcessInv, RequestInv, NotAhead
  <2>3. Answers!Reply(n)
    BY <1>3, <1>6, <2>1, <2>2 DEF Fresh
  <2> QED  BY <2>3 DEF Answers!Next
<1>11. CASE GetL2Hit(p, n) \/ GetL2Miss(p, n) \/ Match(p, n) \/ SetL1(p, n)
  <2>0. /\ r.at \in {"l2get", "match", "set1"} =>
             Question(r) = [at |-> "asked", floor |-> r.floor]
        /\ Question(Waiting(r, "match")) = [at |-> "asked", floor |-> r.floor]
        /\ \A at \in {"backfill", "set1", "set2"}, lex \in 0..LexLimit :
             Question(Computed(r, at, lex)) = [at |-> "asked", floor |-> r.floor]
    BY DEF Question, Computed, Waiting
  <2>1. PICK s : Step(p, n, s) /\ Question(s) = Question(r)
    <3>1. CASE GetL2Hit(p, n)
      <4>1. PICK e \in l2 : Step(p, n, Computed(r, "backfill", e.lex))
        BY <3>1 DEF GetL2Hit
      <4>2. e.lex \in 0..LexLimit /\ r.at = "l2get"
        BY <3>1 DEF TypeOK, L2Items, GetL2Hit
      <4> QED  BY <2>0, <4>1, <4>2
    <3>2. CASE GetL2Miss(p, n)
      BY <2>0, <3>2 DEF GetL2Miss
    <3>3. CASE Match(p, n)
      <4>1. r.at = "match" /\ Step(p, n, Computed(r, "set1", cur[p])) /\ cur[p] \in 0..LexLimit
        BY <1>0, <3>3 DEF Match, TypeOK
      <4> QED  BY <2>0, <4>1
    <3>4. CASE SetL1(p, n)
      <4>1. r.at = "set1" /\ Step(p, n, Computed(r, "set2", r.lex)) /\ r.lex \in 0..LexLimit
        BY <1>3, <3>4 DEF SetL1
      <4> QED  BY <2>0, <4>1
    <3> QED  BY <1>11, <3>1, <3>2, <3>3, <3>4
  <2> QED  BY <1>5, <2>1
<1>12. CASE \E q \in Queries : FilterBegin(p, n, q)
  BY <1>7, <1>12 DEF Answers!Next
<1> QED  BY <1>8, <1>9, <1>10, <1>11, <1>12 DEF RequestNext

\* A rebuild shows when its version is announced; the caches never do.
LEMMA ProcessRefines ==
  ASSUME NEW p, Instances = {p}, TypeOK, VersionInv, OneProcessInv(p), NotAhead(p),
         ProcessNext(p)
  PROVE  [Answers!Next]_(Answers!vars)
<1> USE DEF pollVars
<1>0. /\ p \in Instances /\ Process = p
      /\ lexAt[p] \in Seq(0..LexLimit) /\ cur[p] \in Nat /\ dbLex \in Nat
  <2>1. p \in Instances /\ Process = p
    BY TheProcess
  <2> QED  BY <2>1 DEF TypeOK
<1>1. CASE Boot(p)
  <2>1. lexAt[p] = NoVersions /\ lexAt'[p] = <<dbLex>> /\ UNCHANGED <<dbLex, req>>
    BY <1>0, <1>1 DEF Boot, NotAhead, TypeOK
  <2>2. Announced(p) = 0 /\ Announced(p)' = dbLex
    BY <2>1 DEF Announced, NoVersions, Version
  <2>3. Announced(p)' \in Announced(p)..dbLex /\ Questions(p)' = Questions(p)
    BY <1>0, <2>1, <2>2 DEF Questions, Question
  <2>4. Answers!Announce
    BY <1>0, <2>1, <2>3 DEF Answers!Announce, Announced, Questions
  <2> QED  BY <2>4 DEF Answers!Next
<1>2. CASE RebuildBump(p)
  <2>1. /\ poll[p] = "stored" /\ lexAt'[p] = Append(lexAt[p], cur[p])
        /\ UNCHANGED <<dbLex, req>>
    BY <1>0, <1>2 DEF RebuildBump, TypeOK
  <2>2. /\ Len(lexAt'[p]) = Len(lexAt[p]) + 1 /\ lexAt'[p][Len(lexAt[p]) + 1] = cur[p]
        /\ Len(lexAt[p]) >= 1
    BY <1>0, <2>1 DEF VersionInv, Version
  <2>3. lexAt[p] # NoVersions /\ lexAt'[p] # NoVersions
    BY <1>0, <2>2 DEF NoVersions
  <2>4. Announced(p)' = cur[p] /\ Announced(p) = lexAt[p][Len(lexAt[p])]
    BY <2>2, <2>3 DEF Announced, Version
  <2>5. /\ lexAt[p][Len(lexAt[p])] \in Nat /\ lexAt[p][Len(lexAt[p])] <= cur[p]
        /\ cur[p] <= dbLex
    BY <1>0, <2>1, <2>2 DEF OneProcessInv, EngineInv, Version
  <2>6. Announced(p)' \in Announced(p)..dbLex /\ Questions(p)' = Questions(p)
    BY <1>0, <2>1, <2>4, <2>5 DEF Questions, Question
  <2>7. Answers!Announce
    BY <1>0, <2>1, <2>6 DEF Answers!Announce, Announced, Questions
  <2> QED  BY <2>7 DEF Answers!Next
<1>3. CASE ProcessEnd(p)
  <2>1. /\ lexAt'[p] = NoVersions /\ \A n \in Slots : req'[p][n] = Idle
        /\ UNCHANGED dbLex
    BY <1>0, <1>3 DEF ProcessEnd, TypeOK
  <2>2. Question(Idle) = [at |-> "quiet"]
    BY DEF Question, Idle
  <2>3. Questions(p)' = [n \in Slots |-> Question(req'[p][n])]
    BY DEF Questions, Question
  <2>4. Announced(p)' = 0 /\ Questions(p)' = [n \in Slots |-> [at |-> "quiet"]]
    BY <2>1, <2>2, <2>3 DEF Announced
  <2>5. Answers!End
    BY <1>0, <2>1, <2>4 DEF Answers!End, Answers!Quiet, Announced, Questions
  <2> QED  BY <2>5 DEF Answers!Next
<1>4. CASE ~Boot(p) /\ ~RebuildBump(p) /\ ~ProcessEnd(p)
  <2>1. UNCHANGED <<dbLex, lexAt, req>>
    BY <1>4 DEF ProcessNext, Load, RebuildStore, DeleteByPrefixL1, ScanPage, ScanEnd,
       ExpireL1, EvictL1
  <2> QED  BY <2>1 DEF Answers!vars, Question, Version
<1> QED  BY <1>1, <1>2, <1>3, <1>4

\* A process that has Redis to itself and is never restarted cannot be told
\* from one without caches: what it announces never goes back, and each of its
\* answers lies between what was announced when the request came and the newest
\* words in the database.
THEOREM SingleProcessRefinement ==
  ASSUME NEW p, Instances = {p}, StartLimit = 1
  PROVE  Spec => ImplementsFreshAnswers
<1> DEFINE Inv == TypeOK /\ VersionInv /\ OneProcessInv(p) /\ NotAhead(p)
<1>1. Init => Inv
  <2>1. Init => OneProcessInv(p) /\ NotAhead(p)
    BY DEF Init, OneProcessInv, NotAhead, Idle
  <2> QED  BY <2>1, TypeInit
<1>2. Inv /\ [Next]_vars => Inv'
  BY TypeStep, VersionStep, OneProcessStep, NotAheadStep
<1>3. Init => Answers!Init
  <2> SUFFICES ASSUME Init PROVE Answers!Init
    OBVIOUS
  <2>1. lexAt[Process] = NoVersions /\ \A n \in Slots : req[Process][n] = Idle
    BY TheProcess DEF Init
  <2>2. Question(Idle) = [at |-> "quiet"]
    BY DEF Question, Idle
  <2> QED  BY <2>1, <2>2 DEF Init, Answers!Init, Answers!Quiet
<1>4. Inv /\ [Next]_vars => [Answers!Next]_(Answers!vars)
  <2> SUFFICES ASSUME Inv, [Next]_vars PROVE [Answers!Next]_(Answers!vars)
    OBVIOUS
  <2>1. CASE WordsChange
    <3>1. Answers!Change
      BY <2>1 DEF WordsChange, Answers!Change, Question, Version
    <3> QED  BY <3>1 DEF Answers!Next
  <2>2. CASE (\E e \in l2 : ExpireL2(e)) \/ UNCHANGED vars
    <3>1. UNCHANGED <<dbLex, lexAt, req>>
      BY <2>2 DEF ExpireL2, pollVars, vars
    <3> QED  BY <3>1 DEF Answers!vars, Question, Version
  <2> QED  BY <2>1, <2>2, RequestRefines, ProcessRefines DEF Next
<1> QED  BY <1>1, <1>2, <1>3, <1>4, PTL DEF Spec, ImplementsFreshAnswers, Answers!Spec
=============================================================================
