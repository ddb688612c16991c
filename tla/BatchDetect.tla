----------------------------- MODULE BatchDetect -----------------------------
(***************************************************************************)
(* FilterAppService.BatchDetect (filter_app_service.go): a fixed pool of    *)
(* workers drains a channel of jobs into one slot of results per text,     *)
(* while the request's context may be cancelled at any time.               *)
(*                                                                         *)
(* A text is its index.  Filter itself is FilterAppService.tla; here it    *)
(* either hits or not.  It returns no error, so the workers' branch for    *)
(* one is dead code and is left out.                                       *)
(***************************************************************************)
EXTENDS Naturals, Sequences, FiniteSets

CONSTANTS N,        \* len(req.Texts)
          NumCPU    \* runtime.NumCPU()

ASSUME BatchAssumption == N \in Nat /\ NumCPU \in Nat \ {0}

Texts == 1..N
Workers == 1..(IF NumCPU > N THEN N ELSE NumCPU)

VARIABLES
  main,       \* where BatchDetect's own goroutine is
  sent,       \* number of jobs it has sent
  jobs,       \* the channel; its capacity is N
  closed,     \* close(jobs) was called
  worker,     \* where each worker is
  job,        \* the job each worker took last, 0 before the first
  results,    \* the slots
  hitNum,     \* the shared counter
  cancelled   \* ctx.Err() != nil

mainVars == <<main, sent, closed>>
workerVars == <<worker, job, results, hitNum>>
vars == <<mainVars, jobs, workerVars, cancelled>>

TypeOK ==
  /\ main \in {"send", "wait", "check", "ok", "error"}
  /\ sent \in 0..N
  /\ jobs \in Seq(Texts) /\ Len(jobs) <= N
  /\ closed \in BOOLEAN
  /\ worker \in [Workers -> {"recv", "ctx", "filter", "count", "exit"}]
  /\ job \in [Workers -> 0..N]
  /\ results \in [Texts -> {"nil", "clean", "hit"}]
  /\ hitNum \in 0..N
  /\ cancelled \in BOOLEAN

\* An empty batch is answered at once.
Init ==
  /\ main = IF N = 0 THEN "ok" ELSE "send"
  /\ sent = 0 /\ jobs = <<>> /\ closed = FALSE
  /\ worker = [w \in Workers |-> "recv"]
  /\ job = [w \in Workers |-> 0]
  /\ results = [i \in Texts |-> "nil"]
  /\ hitNum = 0
  /\ cancelled = FALSE

-----------------------------------------------------------------------------
\* Mutant: the channel has no buffer, so a send needs a worker that receives.
SendUnbuffered ==
  /\ main = "send" /\ sent < N /\ jobs = <<>>
  /\ \E w \in Workers : worker[w] = "recv"
  /\ jobs' = Append(jobs, sent + 1)
  /\ sent' = sent + 1
  /\ UNCHANGED <<main, closed, workerVars, cancelled>>

\* jobs <- batchJob{...}; a full channel would block
Send ==
  /\ main = "send" /\ sent < N /\ Len(jobs) < N
  /\ jobs' = Append(jobs, sent + 1)
  /\ sent' = sent + 1
  /\ UNCHANGED <<main, closed, workerVars, cancelled>>

Close ==
  /\ main = "send" /\ sent = N
  /\ closed' = TRUE
  /\ main' = "wait"
  /\ UNCHANGED <<sent, jobs, workerVars, cancelled>>

\* Mutant: a worker counts as done when it took its last job, not when it
\* returns.
WaitForChannel ==
  /\ main = "wait" /\ jobs = <<>>
  /\ main' = "check"
  /\ UNCHANGED <<sent, closed, jobs, workerVars, cancelled>>

\* wg.Wait
Wait ==
  /\ main = "wait" /\ \A w \in Workers : worker[w] = "exit"
  /\ main' = "check"
  /\ UNCHANGED <<sent, closed, jobs, workerVars, cancelled>>

\* Mutant: the batch is answered although its context was cancelled.
CheckNothing ==
  /\ main = "check"
  /\ main' = "ok"
  /\ UNCHANGED <<sent, closed, jobs, workerVars, cancelled>>

\* Mutant: the batch's own context is released before it is looked at.
CheckReleased ==
  /\ main = "check"
  /\ main' = "error"
  /\ UNCHANGED <<sent, closed, jobs, workerVars, cancelled>>

\* ctx.Err() and return
Check ==
  /\ main = "check"
  /\ main' = IF cancelled THEN "error" ELSE "ok"
  /\ UNCHANGED <<sent, closed, jobs, workerVars, cancelled>>

-----------------------------------------------------------------------------
Recv(w) ==
  /\ worker[w] = "recv" /\ jobs # <<>>
  /\ job' = [job EXCEPT ![w] = Head(jobs)]
  /\ jobs' = Tail(jobs)
  /\ worker' = [worker EXCEPT ![w] = "ctx"]
  /\ UNCHANGED <<mainVars, results, hitNum, cancelled>>

\* The channel is closed and drained: range ends.
RecvClosed(w) ==
  /\ worker[w] = "recv" /\ jobs = <<>> /\ closed
  /\ worker' = [worker EXCEPT ![w] = "exit"]
  /\ UNCHANGED <<mainVars, jobs, job, results, hitNum, cancelled>>

\* A cancelled context ends the worker; its job is dropped.
CheckCtx(w) ==
  /\ worker[w] = "ctx"
  /\ worker' = [worker EXCEPT ![w] = IF cancelled THEN "exit" ELSE "filter"]
  /\ UNCHANGED <<mainVars, jobs, job, results, hitNum, cancelled>>

\* s.Filter and the store into the job's slot
Filter(w) ==
  /\ worker[w] = "filter"
  /\ \/ /\ results' = [results EXCEPT ![job[w]] = "hit"]
        /\ worker' = [worker EXCEPT ![w] = "count"]
     \/ /\ results' = [results EXCEPT ![job[w]] = "clean"]
        /\ worker' = [worker EXCEPT ![w] = "recv"]
  /\ UNCHANGED <<mainVars, jobs, job, hitNum, cancelled>>

\* Mutant: the hit is counted on the way to the store and once more here.
AddHitTwice(w) ==
  /\ worker[w] = "count"
  /\ hitNum' = hitNum + 2
  /\ worker' = [worker EXCEPT ![w] = "recv"]
  /\ UNCHANGED <<mainVars, jobs, job, results, cancelled>>

\* atomic.AddInt64(&hitNum, 1)
AddHit(w) ==
  /\ worker[w] = "count"
  /\ hitNum' = hitNum + 1
  /\ worker' = [worker EXCEPT ![w] = "recv"]
  /\ UNCHANGED <<mainVars, jobs, job, results, cancelled>>

\* The client goes away while the batch runs.
Cancel ==
  /\ ~cancelled /\ main \notin {"ok", "error"}
  /\ cancelled' = TRUE
  /\ UNCHANGED <<mainVars, jobs, workerVars>>

MainNext == Send \/ Close \/ Wait \/ Check
WorkerNext(w) == Recv(w) \/ RecvClosed(w) \/ CheckCtx(w) \/ Filter(w) \/ AddHit(w)
Next == Cancel \/ MainNext \/ \E w \in Workers : WorkerNext(w)

Spec == Init /\ [][Next]_vars

\* Goroutines are scheduled and Filter returns.
FairSpec == Spec /\ WF_vars(MainNext) /\ \A w \in Workers : WF_vars(WorkerNext(w))

-----------------------------------------------------------------------------
\* The response of a batch is complete: every slot holds a result and HitNum
\* counts the hits, however the jobs were spread over the workers and whenever
\* the context was cancelled.
Complete ==
  main = "ok" => /\ \A i \in Texts : results[i] # "nil"
                 /\ hitNum = Cardinality({i \in Texts : results[i] = "hit"})

\* No worker writes to results once BatchDetect has returned them.
NoWriteAfterReturn ==
  [][(main = "ok" \/ main = "error") => UNCHANGED <<results, hitNum>>]_vars

\* BatchDetect returns, also when every worker has left its jobs behind: the
\* channel holds all of them, so the sender never blocks.
Returns == <>(main \in {"ok", "error"})

\* What the caller of BatchDetect sees: the slots and the counter once they are
\* returned, and nothing of them before.
Batch == INSTANCE BatchSpec WITH
  answer <- IF main \in {"ok", "error"} THEN main ELSE "pending",
  slots <- IF main = "ok" THEN results ELSE [i \in Texts |-> "nil"],
  hits <- IF main = "ok" THEN hitNum ELSE 0,
  gone <- cancelled

\* The worker pool implements the one-step batch: a cancelled batch is refused,
\* any other is answered as a whole, and an answer is final.
ImplementsBatch == Batch!Spec
-----------------------------------------------------------------------------
(***************************************************************************)
(* The inductive invariant behind Complete.                                *)
(***************************************************************************)
\* The jobs taken so far are 1..Taken, the rest of those sent wait in order.
Taken == sent - Len(jobs)
QueueInv ==
  /\ Len(jobs) <= sent
  /\ \A k \in 1..Len(jobs) : jobs[k] = Taken + k

MainInv ==
  /\ main = "send" => ~closed
  /\ main # "send" /\ N # 0 => closed /\ sent = N
  /\ main \in {"check", "ok", "error"} => \A w \in Workers : worker[w] = "exit"
  /\ main = "ok" => ~cancelled

\* A worker leaves jobs behind only when the context is cancelled.
ExitInv == \A w \in Workers :
  worker[w] = "exit" => cancelled \/ (closed /\ jobs = <<>>)

\* The workers with an unfinished job hold different ones.
Holds(w) == worker[w] \in {"ctx", "filter"}
HoldInv ==
  /\ \A w \in Workers : Holds(w) => job[w] \in 1..Taken /\ results[job[w]] = "nil"
  /\ \A v, w \in Workers : Holds(v) /\ Holds(w) /\ job[v] = job[w] => v = w

\* A slot is empty as long as its job is waiting or held; a job is lost only
\* when the context is cancelled.
SlotInv == \A i \in Texts :
  /\ i > Taken => results[i] = "nil"
  /\ i <= Taken /\ results[i] = "nil" =>
       cancelled \/ \E w \in Workers : Holds(w) /\ job[w] = i

\* hitNum lags behind the slots by the workers about to count their hit.
HitSlots == {i \in Texts : results[i] = "hit"}
Counting == {w \in Workers : worker[w] = "count"}
CountInv == hitNum + Cardinality(Counting) = Cardinality(HitSlots)

IInv == TypeOK /\ QueueInv /\ MainInv /\ ExitInv /\ HoldInv /\ SlotInv /\ CountInv
=============================================================================
