--------------------------- MODULE CircuitBreaker ---------------------------
(***************************************************************************)
(* The breaker that guards Redis (circuit_breaker.go) under the calls that  *)
(* MultiLevelCache makes through it (multi_level_cache.go).                *)
(*                                                                         *)
(* A request whose key is not in L1 makes a Get and, unless Get returned a *)
(* value, a Set; a sweep (the poll loop's of "filter:", a word handler's   *)
(* of "words:") makes an InvalidateByPrefix.                               *)
(* Each call asks Allow, talks to Redis without holding any lock and       *)
(* records the outcome, so the breaker may have changed state in between.  *)
(* The bodies of Allow's slow path, RecordSuccess and RecordFailure hold   *)
(* cb.mu and are one step each; Allow's fast path is a load of its own.    *)
(***************************************************************************)
EXTENDS Naturals

CONSTANTS Requests, Sweeps,     \* callers of Get and Set; of InvalidateByPrefix
          FailThreshold,        \* failThreshold
          HalfOpenRequired      \* halfOpenRequired

ASSUME BreakerAssumption ==
  /\ FailThreshold \in Nat \ {0} /\ HalfOpenRequired \in Nat \ {0}
  /\ Requests \cap Sweeps = {}

Callers == Requests \cup Sweeps

VARIABLES
  state, failCount, halfOpenSuccess,   \* the fields of CircuitBreaker
  cooled,    \* time.Since(lastFailTime) > resetTimeout
  gauge,     \* CircuitBreakerStateGauge
  call,      \* the Redis access each caller is making
  redisUp    \* does Redis answer?

breakerVars == <<state, failCount, halfOpenSuccess, cooled>>
vars == <<breakerVars, gauge, call, redisUp>>

Ops == {"get", "set", "invalidate"}
Places == {"idle", "allow", "lock", "redis", "success", "failure",
           "isOpen", "setGauge"}
Calls == [at : Places, op : Ops, hit : BOOLEAN, open : BOOLEAN]

At(op, place) ==
  [at |-> place, op |-> op, hit |-> FALSE, open |-> FALSE]
FirstOp(c) == IF c \in Requests THEN "get" ELSE "invalidate"

TypeOK ==
  /\ state \in {"closed", "open", "halfOpen"}
  /\ failCount \in 0..FailThreshold
  /\ halfOpenSuccess \in 0..HalfOpenRequired
  /\ cooled \in BOOLEAN /\ gauge \in {0, 1}
  /\ redisUp \in BOOLEAN
  /\ call \in [Callers -> Calls]

Init ==
  /\ state = "closed" /\ failCount = 0 /\ halfOpenSuccess = 0
  /\ cooled = TRUE /\ gauge = 0
  /\ redisUp = TRUE
  /\ call = [c \in Callers |-> At(FirstOp(c), "idle")]

-----------------------------------------------------------------------------
Goto(c, place) == call' = [call EXCEPT ![c].at = place]

\* What a caller does after a call: a Get without a value is followed by
\* Match and Set, any other call is the last of its request or sweep.
AfterCall(c) ==
  IF call[c].op = "get" /\ ~call[c].hit THEN At("set", "allow")
  ELSE At(FirstOp(c), "idle")
Return(c) == call' = [call EXCEPT ![c] = AfterCall(c)]

\* A request misses L1, or a sweep is due.
Begin(c) ==
  /\ call[c].at = "idle"
  /\ Goto(c, "allow")
  /\ UNCHANGED <<breakerVars, gauge, redisUp>>

\* Allow reads the state without the lock.
AllowFast(c) ==
  /\ call[c].at = "allow"
  /\ Goto(c, IF state = "closed" THEN "redis" ELSE "lock")
  /\ UNCHANGED <<breakerVars, gauge, redisUp>>

\* Mutant: every probe clears the count of successes.
AllowLockedResets(c) ==
  /\ call[c].at = "lock"
  /\ \/ /\ state = "open" /\ ~cooled
        /\ Return(c)
        /\ UNCHANGED breakerVars
     \/ /\ state = "open" => cooled
        /\ state' = IF state = "open" THEN "halfOpen" ELSE state
        /\ halfOpenSuccess' = 0
        /\ Goto(c, "redis")
        /\ UNCHANGED <<failCount, cooled>>
  /\ UNCHANGED <<gauge, redisUp>>

\* Allow's slow path
AllowLocked(c) ==
  /\ call[c].at = "lock"
  /\ \/ /\ state = "open" /\ ~cooled
        /\ Return(c)
        /\ UNCHANGED breakerVars
     \/ /\ state = "open" /\ cooled
        /\ state' = "halfOpen" /\ halfOpenSuccess' = 0
        /\ Goto(c, "redis")
        /\ UNCHANGED <<failCount, cooled>>
     \/ /\ state # "open"
        /\ Goto(c, "redis")
        /\ UNCHANGED breakerVars
  /\ UNCHANGED <<gauge, redisUp>>

-----------------------------------------------------------------------------
(***************************************************************************)
(* Redis answers.                                                          *)
(***************************************************************************)
\* A value, or an executed write
RedisOk(c) ==
  /\ call[c].at = "redis" /\ redisUp
  /\ call' = [call EXCEPT ![c].at = "success", ![c].hit = call[c].op = "get"]
  /\ UNCHANGED <<breakerVars, gauge, redisUp>>

\* redis.Nil: nothing is recorded
RedisMiss(c) ==
  /\ call[c].at = "redis" /\ call[c].op = "get" /\ redisUp
  /\ Return(c)
  /\ UNCHANGED <<breakerVars, gauge, redisUp>>

\* An error: Redis is down, or the caller's context was cancelled or ran out
RedisError(c) ==
  /\ call[c].at = "redis"
  /\ Goto(c, "failure")
  /\ UNCHANGED <<breakerVars, gauge, redisUp>>

-----------------------------------------------------------------------------
\* Only Get refreshes the gauge after it recorded an outcome.
AfterRecord(c) ==
  IF call[c].op = "get" THEN Goto(c, "isOpen") ELSE Return(c)

\* Mutant: the breaker closes with the failures of the last outage counted.
RecordSuccessKeepsCount(c) ==
  /\ call[c].at = "success"
  /\ \/ /\ state = "halfOpen"
        /\ halfOpenSuccess' = halfOpenSuccess + 1
        /\ state' = IF halfOpenSuccess' >= HalfOpenRequired THEN "closed" ELSE state
        /\ UNCHANGED failCount
     \/ /\ state # "halfOpen"
        /\ failCount' = IF state = "closed" THEN 0 ELSE failCount
        /\ UNCHANGED <<state, halfOpenSuccess>>
  /\ AfterRecord(c)
  /\ UNCHANGED <<cooled, gauge, redisUp>>

RecordSuccess(c) ==
  /\ call[c].at = "success"
  /\ \/ /\ state = "halfOpen"
        /\ halfOpenSuccess' = halfOpenSuccess + 1
        /\ \/ /\ halfOpenSuccess' >= HalfOpenRequired
              /\ state' = "closed" /\ failCount' = 0
           \/ /\ halfOpenSuccess' < HalfOpenRequired
              /\ UNCHANGED <<state, failCount>>
     \/ /\ state = "closed"
        /\ failCount' = 0
        /\ UNCHANGED <<state, halfOpenSuccess>>
     \/ /\ state = "open"
        /\ UNCHANGED <<state, failCount, halfOpenSuccess>>
  /\ AfterRecord(c)
  /\ UNCHANGED <<cooled, gauge, redisUp>>

\* Mutant: failures are counted, the breaker never trips.
RecordFailureNoTrip(c) ==
  /\ call[c].at = "failure"
  /\ cooled' = FALSE
  /\ failCount' = IF failCount + 1 < FailThreshold THEN failCount + 1 ELSE failCount
  /\ AfterRecord(c)
  /\ UNCHANGED <<state, halfOpenSuccess, gauge, redisUp>>

\* Mutant: the threshold is compared with > instead of >=.
RecordFailureLate(c) ==
  /\ call[c].at = "failure"
  /\ cooled' = FALSE
  /\ failCount' = IF state = "closed" THEN failCount + 1 ELSE failCount
  /\ state' = IF state = "halfOpen" \/ failCount' > FailThreshold THEN "open" ELSE state
  /\ AfterRecord(c)
  /\ UNCHANGED <<halfOpenSuccess, gauge, redisUp>>

RecordFailure(c) ==
  /\ call[c].at = "failure"
  /\ cooled' = FALSE
  /\ \/ /\ state = "halfOpen"
        /\ state' = "open"
        /\ UNCHANGED failCount
     \/ /\ state = "closed"
        /\ failCount' = failCount + 1
        /\ state' = IF failCount' >= FailThreshold THEN "open" ELSE state
     \/ /\ state = "open"
        /\ UNCHANGED <<state, failCount>>
  /\ AfterRecord(c)
  /\ UNCHANGED <<halfOpenSuccess, gauge, redisUp>>

\* updateBreakerMetric: IsOpen ...
IsOpen(c) ==
  /\ call[c].at = "isOpen"
  /\ call' = [call EXCEPT ![c].at = "setGauge", ![c].open = state = "open"]
  /\ UNCHANGED <<breakerVars, gauge, redisUp>>

\* Mutant: the gauge is raised and never lowered.
SetGaugeUp(c) ==
  /\ call[c].at = "setGauge"
  /\ gauge' = IF call[c].open THEN 1 ELSE gauge
  /\ Return(c)
  /\ UNCHANGED <<breakerVars, redisUp>>

\* ... and then Set on the gauge
SetGauge(c) ==
  /\ call[c].at = "setGauge"
  /\ gauge' = IF call[c].open THEN 1 ELSE 0
  /\ Return(c)
  /\ UNCHANGED <<breakerVars, redisUp>>

-----------------------------------------------------------------------------
\* resetTimeout has passed since the last failure.
Cool ==
  /\ ~cooled
  /\ cooled' = TRUE
  /\ UNCHANGED <<state, failCount, halfOpenSuccess, gauge, call, redisUp>>

RedisDown ==
  /\ redisUp
  /\ redisUp' = FALSE
  /\ UNCHANGED <<breakerVars, gauge, call>>

RedisRecovers ==
  /\ ~redisUp
  /\ redisUp' = TRUE
  /\ UNCHANGED <<breakerVars, gauge, call>>

CallerNext(c) ==
  \/ Begin(c)
  \/ AllowFast(c)
  \/ AllowLocked(c)
  \/ RedisOk(c)
  \/ RedisMiss(c)
  \/ RedisError(c)
  \/ RecordSuccess(c)
  \/ RecordFailure(c)
  \/ IsOpen(c)
  \/ SetGauge(c)

Next == Cool \/ RedisDown \/ RedisRecovers \/ \E c \in Callers : CallerNext(c)

Spec == Init /\ [][Next]_vars

\* Requests that miss L1 keep coming, calls to Redis end (the client has
\* timeouts), goroutines are scheduled and time passes.
FairSpec == Spec /\ WF_vars(Cool) /\ \A c \in Callers : WF_vars(CallerNext(c))

-----------------------------------------------------------------------------
\* A closed breaker has always room for a failure, a half-open one for a
\* success: neither is left over its limit by outcomes that arrive late or
\* from a phase that is over (circuit_breaker.go, RecordSuccess, RecordFailure).
WithinLimits ==
  /\ state = "closed" => failCount < FailThreshold
  /\ state = "halfOpen" => halfOpenSuccess < HalfOpenRequired

\* circuit-breaker.md: Redis calls are resumed after an outage.  Once Redis
\* stays up and no context is cancelled any more, the breaker closes for good,
\* whatever was in flight.
Recovers ==
  <>[]redisUp /\ <>[][\A c \in Callers : ~RedisError(c)]_vars
    => <>[](state = "closed")

\* ... and once Redis stays down, requests stop waiting for it: the breaker
\* trips and never closes again.
Degrades == <>[]~redisUp => <>[](state # "closed")

\* The gauge is read and set outside the lock, by Get alone, and by Get only
\* when Redis returned a value or an error.  It may be wrong meanwhile, but
\* once the breaker stays closed and such Gets keep coming, a late Set(1) is
\* corrected: the gauge stays at 0.
GaugeSettles ==
  <>[](state = "closed") /\ []<>(\E c \in Requests : call[c].at = "isOpen")
    => <>[](gauge = 0)

\* The inductive invariant behind WithinLimits.
IInv == TypeOK /\ WithinLimits
=============================================================================
