-------------------------- MODULE BatchDetectProofs --------------------------
(***************************************************************************)
(* BatchDetect returns complete responses for every batch and pool size.   *)
(***************************************************************************)
EXTENDS BatchDetect, FiniteSetTheorems, TLAPS

\* The sets that CountInv counts are finite, and there are at most N hits.
LEMMA FiniteCounts ==
  /\ IsFiniteSet(Texts) /\ IsFiniteSet(HitSlots) /\ IsFiniteSet(Counting)
  /\ Cardinality(HitSlots) \in Nat /\ Cardinality(Counting) \in Nat
  /\ Cardinality(HitSlots) <= N
<1>1. IsFiniteSet(Texts) /\ Cardinality(Texts) = N
  BY BatchAssumption, FS_Interval DEF Texts
<1>2. (IF NumCPU > N THEN N ELSE NumCPU) \in Nat
  BY BatchAssumption
<1>3. IsFiniteSet(Workers)
  BY <1>2, FS_Interval DEF Workers
<1>4. HitSlots \in SUBSET Texts /\ Counting \in SUBSET Workers
  BY DEF HitSlots, Counting
<1>5. IsFiniteSet(HitSlots) /\ Cardinality(HitSlots) <= N
  BY <1>1, <1>4, FS_Subset
<1>6. IsFiniteSet(Counting)
  BY <1>3, <1>4, FS_Subset
<1> QED  BY <1>1, <1>5, <1>6, FS_CardinalityType

\* A pool exists as soon as there is a text to filter.
LEMMA PoolNotEmpty == N # 0 => 1 \in Workers
  BY BatchAssumption DEF Workers

\* A batch that has just been accepted satisfies the invariant.
LEMMA InitIInv == Init => IInv
<1> SUFFICES ASSUME Init PROVE IInv
  OBVIOUS
<1>1. HitSlots = {} /\ Counting = {}
  BY DEF Init, HitSlots, Counting
<1>2. CountInv
  BY <1>1, FS_EmptySet DEF Init, CountInv
<1>3. jobs \in Seq(Texts) /\ Len(jobs) = 0 /\ Taken = 0
  <2>1. jobs = <<>> /\ sent = 0
    BY DEF Init
  <2>2. jobs \in Seq(Texts) /\ Len(jobs) = 0
    BY <2>1
  <2>3. Taken = 0 - 0
    BY <2>1, <2>2, Zenon DEF Taken
  <2>4. 0 - 0 = 0
    OBVIOUS
  <2> QED  BY <2>2, <2>3, <2>4
<1>4. TypeOK
  <2>1. /\ worker \in [Workers -> {"recv", "ctx", "filter", "count", "exit"}]
        /\ results \in [Texts -> {"nil", "clean", "hit"}]
    BY DEF Init
  <2>2. 0 \in 0..N /\ 0 <= N
    BY BatchAssumption
  <2>3. job \in [Workers -> 0..N]
    BY <2>2 DEF Init
  <2> QED  BY <1>3, <2>1, <2>2, <2>3 DEF Init, TypeOK
<1>5. MainInv
  <2>1. N = 0 => Workers = {}
    BY BatchAssumption DEF Workers
  <2> QED  BY <2>1 DEF Init, MainInv
<1> QED  BY <1>2, <1>3, <1>4, <1>5, BatchAssumption
            DEF Init, IInv, QueueInv, ExitInv, HoldInv, Holds, SlotInv, Texts

\* The goroutine of the request, and the cancellation of its context
LEMMA MainKeepsIInv == IInv /\ (MainNext \/ Cancel) => IInv'
<1> SUFFICES ASSUME IInv, MainNext \/ Cancel PROVE IInv'
  OBVIOUS
<1> USE BatchAssumption
<1>0. UNCHANGED workerVars
  BY DEF MainNext, Send, Close, Wait, Check, Cancel
<1>1. CountInv'
  <2>1. HitSlots' = HitSlots /\ Counting' = Counting
    BY <1>0 DEF workerVars, HitSlots, Counting
  <2> QED  BY <1>0, <2>1 DEF IInv, CountInv, workerVars
<1>2. jobs \in Seq(Texts) /\ Len(jobs) \in Nat /\ sent \in Nat /\ Len(jobs) <= sent
  BY DEF IInv, TypeOK, QueueInv
<1>3. CASE Send
  <2> DEFINE i == sent + 1
  <2>1. i \in Texts /\ jobs' = Append(jobs, i) /\ sent' = i
    BY <1>2, <1>3 DEF Send, Texts
  <2>2. /\ jobs' \in Seq(Texts) /\ Len(jobs') = Len(jobs) + 1
        /\ jobs'[Len(jobs) + 1] = i
        /\ \A k \in 1..Len(jobs) : jobs'[k] = jobs[k]
    BY <1>2, <2>1
  <2>3. Taken' = Taken /\ Taken \in Nat
    BY <1>2, <2>1, <2>2 DEF Taken
  <2>4. QueueInv'
    <3>1. \A k \in 1..Len(jobs) : jobs'[k] = Taken + k
      BY <2>2 DEF QueueInv, IInv
    <3>2. jobs'[Len(jobs) + 1] = Taken + (Len(jobs) + 1)
      BY <1>2, <2>2 DEF Taken
    <3>3. \A k \in 1..Len(jobs') : k \in 1..Len(jobs) \/ k = Len(jobs) + 1
      BY <1>2, <2>2
    <3>4. Len(jobs') <= sent'
      BY <1>2, <2>1, <2>2
    <3> QED  BY <2>3, <3>1, <3>2, <3>3, <3>4 DEF QueueInv
  <2>5. TypeOK'
    BY <1>0, <1>2, <1>3, <2>1, <2>2 DEF Send, IInv, TypeOK, workerVars, Texts
  <2>6. MainInv' /\ ExitInv'
    BY <1>0, <1>3 DEF Send, IInv, MainInv, ExitInv, workerVars
  <2>7. HoldInv' /\ SlotInv'
    BY <1>0, <1>3, <2>3 DEF Send, IInv, HoldInv, SlotInv, Holds, workerVars
  <2> QED  BY <1>1, <2>4, <2>5, <2>6, <2>7 DEF IInv
<1>4. CASE Close \/ Wait \/ Check \/ Cancel
  <2>1. UNCHANGED <<sent, jobs>> /\ (cancelled => cancelled') /\ (closed => closed')
    BY <1>4 DEF Close, Wait, Check, Cancel, mainVars, IInv, MainInv
  <2>2. QueueInv' /\ Taken' = Taken
    BY <2>1 DEF QueueInv, Taken, IInv
  <2>3. TypeOK'
    BY <1>0, <1>4 DEF Close, Wait, Check, Cancel, mainVars, workerVars, IInv, TypeOK
  <2>4. MainInv'
    BY <1>0, <1>4 DEF Close, Wait, Check, Cancel, mainVars, workerVars, IInv, MainInv, TypeOK
  <2>5. ExitInv' /\ HoldInv' /\ SlotInv'
    BY <1>0, <2>1, <2>2 DEF workerVars, IInv, ExitInv, HoldInv, SlotInv, Holds
  <2> QED  BY <1>1, <2>2, <2>3, <2>4, <2>5 DEF IInv
<1> QED  BY <1>3, <1>4 DEF MainNext

\* A worker takes the next job: it holds one that nobody else holds.
LEMMA RecvKeepsIInv ==
  ASSUME IInv, NEW w \in Workers, Recv(w)
  PROVE  IInv'
<1> USE BatchAssumption
<1>1. jobs \in Seq(Texts) /\ Len(jobs) \in Nat \ {0} /\ sent \in Nat /\ Len(jobs) <= sent
  BY DEF IInv, TypeOK, QueueInv, Recv
<1>2. /\ jobs' \in Seq(Texts) /\ Len(jobs') = Len(jobs) - 1 /\ UNCHANGED sent
      /\ \A k \in 1..Len(jobs') : jobs'[k] = jobs[k + 1]
  BY <1>1 DEF Recv, mainVars
<1>3. Taken \in Nat /\ Taken' = Taken + 1
  BY <1>1, <1>2 DEF Taken
<1>4. Head(jobs) = Taken + 1 /\ Head(jobs) \in Texts
  <2>1. Head(jobs) = jobs[1]
    BY <1>1
  <2> QED  BY <1>1, <2>1 DEF IInv, QueueInv
<1>5. /\ worker' = [worker EXCEPT ![w] = "ctx"] /\ job' = [job EXCEPT ![w] = Taken + 1]
      /\ UNCHANGED <<results, hitNum, main, closed, cancelled>> /\ worker[w] = "recv"
  BY <1>4 DEF Recv, mainVars
<1>6. TypeOK'
  BY <1>1, <1>2, <1>4, <1>5 DEF IInv, TypeOK, Texts
<1>7. QueueInv'
  BY <1>1, <1>2, <1>3 DEF IInv, QueueInv
<1>8. MainInv' /\ ExitInv'
  BY <1>2, <1>5 DEF IInv, MainInv, ExitInv, TypeOK, Recv
<1>9. HoldInv'
  <2>1. \A v \in Workers \ {w} : worker'[v] = worker[v] /\ job'[v] = job[v]
    BY <1>5 DEF IInv, TypeOK
  <2>2. worker'[w] = "ctx" /\ job'[w] = Taken + 1
    BY <1>5 DEF IInv, TypeOK
  <2>3. results[Taken + 1] = "nil"
    BY <1>3, <1>4 DEF IInv, SlotInv
  <2>4. \A v \in Workers \ {w} : Holds(v)' => Holds(v) /\ job[v] \in 1..Taken
    BY <2>1 DEF Holds, IInv, HoldInv
  <2>5. \A v \in Workers : Holds(v)' => job'[v] \in 1..Taken' /\ results'[job'[v]] = "nil"
    BY <1>3, <1>5, <2>1, <2>2, <2>3, <2>4 DEF IInv, HoldInv
  <2>6. \A u, v \in Workers : Holds(u)' /\ Holds(v)' /\ job'[u] = job'[v] => u = v
    BY <1>3, <2>1, <2>2, <2>4 DEF IInv, HoldInv
  <2> QED  BY <2>5, <2>6 DEF HoldInv
<1>10. SlotInv'
  <2> SUFFICES ASSUME NEW i \in Texts
               PROVE  /\ i > Taken' => results'[i] = "nil"
                      /\ i <= Taken' /\ results'[i] = "nil" =>
                           cancelled' \/ \E v \in Workers : Holds(v)' /\ job'[v] = i
    BY DEF SlotInv
  <2>1. i > Taken' => results'[i] = "nil"
    BY <1>3, <1>5 DEF IInv, SlotInv, Texts
  <2>2. ASSUME i <= Taken, results[i] = "nil", ~cancelled
        PROVE  \E v \in Workers : Holds(v)' /\ job'[v] = i
    <3>1. PICK v \in Workers : Holds(v) /\ job[v] = i
      BY <2>2 DEF IInv, SlotInv
    <3>2. v # w
      BY <1>5, <3>1 DEF Holds
    <3> QED  BY <1>5, <3>1, <3>2 DEF Holds, IInv, TypeOK
  <2>3. ASSUME i = Taken + 1 PROVE \E v \in Workers : Holds(v)' /\ job'[v] = i
    BY <1>5, <2>3 DEF Holds, IInv, TypeOK
  <2>4. i <= Taken' => i <= Taken \/ i = Taken + 1
    BY <1>3 DEF Texts
  <2> QED  BY <1>5, <2>1, <2>2, <2>3, <2>4
<1>11. CountInv'
  <2>1. HitSlots' = HitSlots /\ Counting' = Counting
    BY <1>5 DEF HitSlots, Counting, IInv, TypeOK
  <2> QED  BY <1>5, <2>1 DEF IInv, CountInv
<1> QED  BY <1>6, <1>7, <1>8, <1>9, <1>10, <1>11 DEF IInv
\* A worker leaves: the channel is drained, or the context is cancelled.
LEMMA LeaveKeepsIInv ==
  ASSUME IInv, NEW w \in Workers, RecvClosed(w) \/ CheckCtx(w)
  PROVE  IInv'
<1>1. /\ UNCHANGED <<main, sent, closed, jobs, job, results, hitNum, cancelled>>
      /\ worker' \in [Workers -> {"recv", "ctx", "filter", "count", "exit"}]
      /\ worker[w] # "count" /\ worker'[w] # "count"
      /\ worker[w] # "exit"
      /\ \A v \in Workers \ {w} : worker'[v] = worker[v]
  BY DEF RecvClosed, CheckCtx, mainVars, IInv, TypeOK
<1>2. \/ worker'[w] = "exit" /\ closed /\ jobs = <<>> /\ ~Holds(w)
      \/ worker'[w] = "exit" /\ cancelled
      \/ worker'[w] = "filter" /\ Holds(w)
  BY DEF RecvClosed, CheckCtx, IInv, TypeOK, Holds
<1>3. Taken' = Taken /\ \A v \in Workers : Holds(v)' => Holds(v)
  BY <1>1, <1>2 DEF Taken, Holds
<1>4. cancelled \/ \A v \in Workers : Holds(v) => Holds(v)'
  BY <1>1, <1>2 DEF Holds
<1>5. TypeOK' /\ QueueInv'
  BY <1>1, <1>3 DEF IInv, TypeOK, QueueInv
<1>6. MainInv' /\ ExitInv'
  BY <1>1, <1>2 DEF IInv, MainInv, ExitInv
<1>7. HoldInv' /\ SlotInv'
  BY <1>1, <1>3, <1>4 DEF IInv, HoldInv, SlotInv
<1>8. CountInv'
  <2>1. HitSlots' = HitSlots /\ Counting' = Counting
    BY <1>1 DEF HitSlots, Counting
  <2> QED  BY <1>1, <2>1 DEF IInv, CountInv
<1> QED  BY <1>5, <1>6, <1>7, <1>8 DEF IInv

\* A worker fills the slot of its job, which was empty.
LEMMA FilterKeepsIInv ==
  ASSUME IInv, NEW w \in Workers, Filter(w)
  PROVE  IInv'
<1> DEFINE i == job[w]
<1>0. worker[w] = "filter" /\ Holds(w) /\ i \in Texts /\ i <= Taken /\ results[i] = "nil"
  <2>1. worker[w] = "filter" /\ Holds(w)
    BY DEF Filter, Holds
  <2>2. i \in 1..Taken /\ results[i] = "nil"
    BY <2>1 DEF IInv, HoldInv
  <2>3. sent \in 0..N /\ Len(jobs) \in Nat /\ N \in Nat
    BY BatchAssumption DEF IInv, TypeOK
  <2> QED  BY <2>1, <2>2, <2>3 DEF Taken, Texts
<1>1. /\ UNCHANGED <<main, sent, closed, jobs, job, hitNum, cancelled>>
      /\ worker' \in [Workers -> {"recv", "ctx", "filter", "count", "exit"}]
      /\ results' \in [Texts -> {"nil", "clean", "hit"}]
      /\ \A v \in Workers \ {w} : worker'[v] = worker[v]
      /\ \A k \in Texts \ {i} : results'[k] = results[k]
  BY <1>0 DEF Filter, mainVars, IInv, TypeOK
<1>2. \/ results'[i] = "hit" /\ worker'[w] = "count"
      \/ results'[i] = "clean" /\ worker'[w] = "recv"
  BY <1>0 DEF Filter, IInv, TypeOK
<1>3. /\ Taken' = Taken /\ ~Holds(w)'
      /\ \A v \in Workers \ {w} : Holds(v)' <=> Holds(v)
  BY <1>1, <1>2 DEF Taken, Holds
<1>4. TypeOK' /\ QueueInv'
  BY <1>1, <1>3 DEF IInv, TypeOK, QueueInv
<1>5. MainInv' /\ ExitInv'
  BY <1>0, <1>1, <1>2 DEF IInv, MainInv, ExitInv
<1>6. HoldInv'
  <2>1. \A v \in Workers \ {w} : Holds(v) => job[v] # i
    BY <1>0 DEF IInv, HoldInv
  <2>2. \A v \in Workers : Holds(v) => job[v] \in Texts
    <3>1. sent \in 0..N /\ Len(jobs) \in Nat /\ N \in Nat
      BY BatchAssumption DEF IInv, TypeOK
    <3>2. 1..Taken \subseteq Texts
      BY <3>1 DEF Taken, Texts
    <3> QED  BY <3>2 DEF IInv, HoldInv
  <2> QED  BY <1>1, <1>3, <2>1, <2>2 DEF IInv, HoldInv
<1>7. SlotInv'
  <2> SUFFICES ASSUME NEW k \in Texts
               PROVE  /\ k > Taken' => results'[k] = "nil"
                      /\ k <= Taken' /\ results'[k] = "nil" =>
                           cancelled' \/ \E v \in Workers : Holds(v)' /\ job'[v] = k
    BY DEF SlotInv
  <2>1. CASE k = i
    <3>1. k \in Nat /\ Taken \in Int
      BY DEF IInv, TypeOK, Taken, Texts
    <3>2. ~(k > Taken)
      BY <1>0, <2>1, <3>1
    <3> QED  BY <1>2, <1>3, <2>1, <3>2
  <2>2. CASE k # i
    BY <1>1, <1>3, <2>2 DEF IInv, SlotInv
  <2> QED  BY <2>1, <2>2
<1>8. CountInv'
  <2>1. i \notin HitSlots /\ w \notin Counting
    BY <1>0 DEF HitSlots, Counting
  <2>2. CASE results'[i] = "hit" /\ worker'[w] = "count"
    <3>1. HitSlots' = HitSlots \cup {i}
      BY <1>0, <1>1, <2>2 DEF HitSlots
    <3>2. Counting' = Counting \cup {w}
      BY <1>1, <2>2 DEF Counting
    <3>3. /\ Cardinality(HitSlots') = Cardinality(HitSlots) + 1
          /\ Cardinality(Counting') = Cardinality(Counting) + 1
      BY <2>1, <3>1, <3>2, FiniteCounts, FS_AddElement
    <3> QED  BY <1>1, <3>3, FiniteCounts DEF IInv, TypeOK, CountInv
  <2>3. CASE results'[i] = "clean" /\ worker'[w] = "recv"
    <3>1. HitSlots' = HitSlots
      BY <1>0, <1>1, <2>3 DEF HitSlots
    <3>2. Counting' = Counting
      BY <1>0, <1>1, <2>3 DEF Counting
    <3> QED  BY <1>1, <3>1, <3>2 DEF IInv, CountInv
  <2> QED  BY <1>2, <2>2, <2>3
<1> QED  BY <1>4, <1>5, <1>6, <1>7, <1>8 DEF IInv

\* The atomic increment of hitNum preserves the invariant.
LEMMA AddHitKeepsIInv ==
  ASSUME IInv, NEW w \in Workers, AddHit(w)
  PROVE  IInv'
<1>1. /\ UNCHANGED <<main, sent, closed, jobs, job, results, cancelled>>
      /\ worker' \in [Workers -> {"recv", "ctx", "filter", "count", "exit"}]
      /\ worker[w] = "count" /\ worker'[w] = "recv" /\ hitNum' = hitNum + 1
      /\ \A v \in Workers \ {w} : worker'[v] = worker[v]
  BY DEF AddHit, mainVars, IInv, TypeOK
<1>2. Taken' = Taken /\ \A v \in Workers : Holds(v)' <=> Holds(v)
  BY <1>1 DEF Taken, Holds
<1>3. HitSlots' = HitSlots /\ Counting' = Counting \ {w} /\ w \in Counting
  BY <1>1 DEF HitSlots, Counting
<1>4. CountInv' /\ hitNum' \in 0..N
  <2>1. Cardinality(Counting') = Cardinality(Counting) - 1
    BY <1>3, FiniteCounts, FS_RemoveElement
  <2>2. Cardinality(Counting') \in Nat
    BY <1>3, FiniteCounts, FS_RemoveElement, FS_CardinalityType
  <2>3. hitNum \in Nat
    BY BatchAssumption DEF IInv, TypeOK
  <2>4. CountInv'
    BY <1>1, <1>3, <2>1, <2>3, FiniteCounts DEF IInv, CountInv
  <2> QED  BY <1>1, <1>3, <2>2, <2>3, <2>4, FiniteCounts, BatchAssumption DEF CountInv
<1>5. TypeOK' /\ QueueInv'
  BY <1>1, <1>2, <1>4 DEF IInv, TypeOK, QueueInv
<1>6. MainInv' /\ ExitInv'
  BY <1>1 DEF IInv, MainInv, ExitInv
<1>7. HoldInv' /\ SlotInv'
  BY <1>1, <1>2 DEF IInv, HoldInv, SlotInv
<1> QED  BY <1>4, <1>5, <1>6, <1>7 DEF IInv

\* Every step of the caller, of a worker or of the client preserves it.
LEMMA NextIInv == IInv /\ [Next]_vars => IInv'
<1> SUFFICES ASSUME IInv, [Next]_vars PROVE IInv'
  OBVIOUS
<1>1. CASE UNCHANGED vars
  BY <1>1 DEF vars, mainVars, workerVars, IInv, TypeOK, QueueInv, Taken, MainInv, ExitInv,
     HoldInv, Holds, SlotInv, CountInv, HitSlots, Counting
<1>2. CASE MainNext \/ Cancel
  BY <1>2, MainKeepsIInv
<1>3. ASSUME NEW w \in Workers, WorkerNext(w) PROVE IInv'
  BY <1>3, RecvKeepsIInv, LeaveKeepsIInv, FilterKeepsIInv, AddHitKeepsIInv DEF WorkerNext
<1> QED  BY <1>1, <1>2, <1>3 DEF Next

\* The invariant gives the completeness of a response without error.
LEMMA IInvComplete == IInv => Complete
<1> SUFFICES ASSUME IInv, main = "ok" PROVE /\ \A i \in Texts : results[i] # "nil"
                                           /\ hitNum = Cardinality(HitSlots)
  BY DEF Complete, HitSlots
<1>1. (\A w \in Workers : worker[w] = "exit") /\ ~cancelled
  BY DEF IInv, MainInv
<1>2. ASSUME NEW i \in Texts PROVE results[i] # "nil"
  <2>1. N # 0 /\ N \in Nat /\ i \in 1..N
    BY BatchAssumption DEF Texts
  <2>2. closed /\ sent = N /\ jobs = <<>>
    BY <1>1, <2>1, PoolNotEmpty DEF IInv, MainInv, ExitInv
  <2>3. Taken = N
    BY <2>1, <2>2 DEF Taken
  <2>4. \A w \in Workers : ~Holds(w)
    BY <1>1 DEF Holds
  <2> QED  BY <1>1, <2>1, <2>3, <2>4 DEF IInv, SlotInv
<1>3. Counting = {}
  BY <1>1 DEF Counting
<1>4. hitNum + 0 = Cardinality(HitSlots) /\ hitNum \in Nat
  BY <1>3, FS_EmptySet, BatchAssumption DEF IInv, CountInv, TypeOK
<1> QED  BY <1>2, <1>4

\* For every batch size, pool size, distribution of the jobs and moment of
\* cancellation: what BatchDetect returns without an error is complete.
THEOREM BatchIsComplete == Spec => [](TypeOK /\ Complete)
<1>1. IInv => TypeOK
  BY DEF IInv
<1> QED  BY <1>1, InitIInv, NextIInv, IInvComplete, PTL DEF Spec

\* ... and no worker touches the response after it was returned.
THEOREM ReturnedResponseIsStable == Spec => NoWriteAfterReturn
<1>1. IInv /\ [Next]_vars =>
        [(main = "ok" \/ main = "error") => UNCHANGED <<results, hitNum>>]_vars
  <2> SUFFICES ASSUME IInv, Next, main = "ok" \/ main = "error"
               PROVE  UNCHANGED <<results, hitNum>>
    BY DEF vars
  <2>1. \A w \in Workers : worker[w] = "exit"
    BY DEF IInv, MainInv
  <2> QED  BY <2>1 DEF Next, MainNext, WorkerNext, Send, Close, Wait, Check, Cancel, Recv,
              RecvClosed, CheckCtx, Filter, AddHit, workerVars
<1> QED  BY <1>1, InitIInv, NextIInv, PTL DEF Spec, NoWriteAfterReturn

-----------------------------------------------------------------------------
(***************************************************************************)
(* The worker pool implements BatchSpec.                                   *)
(***************************************************************************)
\* A new batch shows its caller what a new batch of BatchSpec shows.
LEMMA InitBatch == Init => Batch!Init
<1> SUFFICES ASSUME Init PROVE Batch!Init
  OBVIOUS
<1>1. results = [i \in 1..N |-> "nil"] /\ hitNum = 0 /\ ~cancelled
  BY DEF Init, Texts
<1> QED  BY <1>1 DEF Init, Batch!Init, Texts

\* Only the last step of main shows anything: it answers or it refuses.
LEMMA CheckBatch == IInv /\ IInv' /\ Check => Batch!Respond \/ Batch!Refuse
<1> SUFFICES ASSUME IInv, IInv', Check PROVE Batch!Respond \/ Batch!Refuse
  OBVIOUS
<1>1. main = "check" /\ UNCHANGED <<results, hitNum, cancelled>>
  BY DEF Check, workerVars
<1>2. CASE cancelled
  <2>1. main' = "error"
    BY <1>2 DEF Check
  <2> QED  BY <1>1, <1>2, <2>1 DEF Batch!Refuse
<1>3. CASE ~cancelled
  <2>1. main' = "ok"
    BY <1>3 DEF Check
  <2>2. Complete'
    <3>1. IInv' => Complete'
      BY IInvComplete, PTL
    <3> QED  BY <3>1
  <2>3. results' \in [1..N -> {"nil", "clean", "hit"}]
    BY DEF IInv, TypeOK, Texts
  <2>4. results' \in [1..N -> {"clean", "hit"}]
    BY <2>1, <2>2, <2>3 DEF Complete, Texts
  <2>5. hitNum' = Cardinality({i \in 1..N : results'[i] = "hit"})
    BY <2>1, <2>2 DEF Complete, Texts
  <2>6. \A S : Batch!Cardinality(S) = Cardinality(S)
    BY DEF Batch!Cardinality, Cardinality
  <2> QED  BY <1>1, <1>3, <2>1, <2>4, <2>5, <2>6 DEF Batch!Respond
<1> QED  BY <1>2, <1>3

\* Every other step is a cancellation or shows nothing.
LEMMA NextBatch == IInv /\ IInv' /\ [Next]_vars => [Batch!Next]_(Batch!vars)
<1> SUFFICES ASSUME IInv, IInv', [Next]_vars PROVE [Batch!Next]_(Batch!vars)
  OBVIOUS
<1>1. CASE UNCHANGED vars
  BY <1>1 DEF vars, mainVars, workerVars, Batch!vars
<1>2. CASE Check
  BY <1>2, CheckBatch DEF Batch!Next
<1>3. CASE Cancel
  <2>1. main \notin {"ok", "error"} /\ ~cancelled /\ cancelled' = TRUE /\ main' = main
    BY <1>3 DEF Cancel, mainVars
  <2> QED  BY <2>1 DEF Batch!Cancel, Batch!Next
<1>4. CASE Send \/ Close \/ Wait
  <2>1. /\ main \notin {"ok", "error"} /\ main' \notin {"ok", "error"}
        /\ cancelled' = cancelled
    BY <1>4 DEF Send, Close, Wait
  <2> QED  BY <2>1 DEF Batch!vars
<1>5. ASSUME NEW w \in Workers, WorkerNext(w) PROVE UNCHANGED Batch!vars
  <2>1. main' = main /\ cancelled' = cancelled
    BY <1>5 DEF WorkerNext, Recv, RecvClosed, CheckCtx, Filter, AddHit, mainVars
  <2>2. main # "ok"
    <3> SUFFICES ASSUME main = "ok" PROVE FALSE
      OBVIOUS
    <3>1. worker[w] = "exit"
      BY DEF IInv, MainInv
    <3> QED  BY <1>5, <3>1 DEF WorkerNext, Recv, RecvClosed, CheckCtx, Filter, AddHit
  <2> QED  BY <2>1, <2>2 DEF Batch!vars
<1> QED  BY <1>1, <1>2, <1>3, <1>4, <1>5 DEF Next, MainNext

\* For every batch size and pool size, BatchDetect answers as if it did so in
\* one step: as a whole, refusing only what was cancelled, and finally.
THEOREM BatchRefinement == Spec => ImplementsBatch
<1> QED  BY InitIInv, NextIInv, InitBatch, NextBatch, PTL DEF Spec, ImplementsBatch, Batch!Spec

\* The channel never holds more jobs than its capacity and the counter never
\* more hits than there are texts, for every batch size and pool size.
THEOREM TypeCorrect == Spec => []TypeOK
<1>1. IInv => TypeOK
  BY DEF IInv
<1> QED  BY <1>1, InitIInv, NextIInv, PTL DEF Spec
=============================================================================
