------------------------ MODULE CircuitBreakerProofs ------------------------
(***************************************************************************)
(* Proofs about CircuitBreaker for any set of callers and any limits.      *)
(***************************************************************************)
EXTENDS CircuitBreaker, TLAPS

\* The record a caller starts a call with is a call.
LEMMA CallTypes ==
  ASSUME TypeOK, NEW c \in Callers
  PROVE  /\ AfterCall(c) \in Calls
         /\ \A p \in Places : [call[c] EXCEPT !.at = p] \in Calls
         /\ \A p \in Places, b \in BOOLEAN :
              /\ [call[c] EXCEPT !.at = p, !.hit = b] \in Calls
              /\ [call[c] EXCEPT !.at = p, !.open = b] \in Calls
<1>1. call[c] \in Calls
  BY DEF TypeOK
<1>2. \A o \in Ops, p \in Places : At(o, p) \in Calls
  BY DEF At, Calls
<1>3. AfterCall(c) \in Calls
  BY <1>2 DEF AfterCall, FirstOp, Ops, Places
<1> QED  BY <1>1, <1>3 DEF Calls

\* A new breaker satisfies the invariant.
LEMMA InitIInv == Init => IInv
<1> SUFFICES ASSUME Init PROVE IInv
  OBVIOUS
<1>1. \A c \in Callers : At(FirstOp(c), "idle") \in Calls
  BY DEF At, FirstOp, Calls, Ops, Places
<1>2. call \in [Callers -> Calls]
  BY <1>1 DEF Init
<1>3. 0 \in 0..FailThreshold /\ 0 \in 0..HalfOpenRequired /\ 0 < FailThreshold
  BY BreakerAssumption
<1> QED  BY <1>2, <1>3 DEF Init, IInv, TypeOK, WithinLimits

\* What a caller does leaves call well typed.
LEMMA CallStep ==
  ASSUME TypeOK, NEW c \in Callers, CallerNext(c)
  PROVE  call' \in [Callers -> Calls]
<1> USE CallTypes DEF Places
<1> call \in [Callers -> Calls]
  BY DEF TypeOK
<1>1. \A x \in Calls : [call EXCEPT ![c] = x] \in [Callers -> Calls]
  OBVIOUS
<1>2. CASE Return(c)
  BY <1>1, <1>2 DEF Return
<1>3. ASSUME NEW p \in Places, Goto(c, p) PROVE call' \in [Callers -> Calls]
  BY <1>1, <1>3 DEF Goto
<1>4. CASE Begin(c) \/ AllowFast(c) \/ RedisError(c)
  BY <1>3, <1>4 DEF Begin, AllowFast, RedisError
<1>5. CASE AllowLocked(c)
  BY <1>2, <1>3, <1>5 DEF AllowLocked
<1>6. CASE RedisOk(c)
  BY <1>1, <1>6 DEF RedisOk
<1>7. CASE RedisMiss(c) \/ SetGauge(c)
  BY <1>2, <1>7 DEF RedisMiss, SetGauge
<1>8. CASE RecordSuccess(c) \/ RecordFailure(c)
  BY <1>2, <1>3, <1>8 DEF RecordSuccess, RecordFailure, AfterRecord
<1>9. CASE IsOpen(c)
  BY <1>1, <1>9 DEF IsOpen
<1> QED  BY <1>4, <1>5, <1>6, <1>7, <1>8, <1>9 DEF CallerNext

\* Every step keeps the counters within their limits.
LEMMA NextIInv == IInv /\ [Next]_vars => IInv'
<1> SUFFICES ASSUME IInv, [Next]_vars PROVE IInv'
  OBVIOUS
<1> USE BreakerAssumption
<1>1. CASE UNCHANGED vars
  BY <1>1 DEF vars, breakerVars, IInv, TypeOK, WithinLimits, Calls
<1>2. CASE Cool \/ RedisDown \/ RedisRecovers
  BY <1>2 DEF Cool, RedisDown, RedisRecovers, breakerVars, IInv, TypeOK, WithinLimits
<1>3. ASSUME NEW c \in Callers, CallerNext(c) PROVE IInv'
  <2>0. call' \in [Callers -> Calls]
    BY <1>3, CallStep DEF IInv
  <2>1. CASE Begin(c) \/ AllowFast(c) \/ RedisOk(c) \/ RedisMiss(c) \/ RedisError(c)
    BY <2>0, <2>1 DEF Begin, AllowFast, RedisOk, RedisMiss, RedisError, breakerVars,
       IInv, TypeOK, WithinLimits
  <2>2. CASE AllowLocked(c)
    BY <2>0, <2>2 DEF AllowLocked, breakerVars, IInv, TypeOK, WithinLimits
  <2>3. CASE RecordSuccess(c)
    BY <2>0, <2>3 DEF RecordSuccess, IInv, TypeOK, WithinLimits
  <2>4. CASE RecordFailure(c)
    <3>1. /\ state' \in {"closed", "open"} /\ failCount' \in 0..FailThreshold
          /\ state' = "closed" => failCount' < FailThreshold
      BY <2>4 DEF RecordFailure, IInv, TypeOK, WithinLimits
    <3>2. UNCHANGED <<halfOpenSuccess, gauge, redisUp>> /\ cooled' = FALSE
      BY <2>4 DEF RecordFailure
    <3> QED  BY <2>0, <3>1, <3>2 DEF IInv, TypeOK, WithinLimits
  <2>5. CASE IsOpen(c) \/ SetGauge(c)
    BY <2>0, <2>5 DEF IsOpen, SetGauge, breakerVars, IInv, TypeOK, WithinLimits
  <2> QED  BY <1>3, <2>1, <2>2, <2>3, <2>4, <2>5 DEF CallerNext
<1> QED  BY <1>1, <1>2, <1>3 DEF Next

\* The counters of the breaker stay within their limits for any number of
\* callers, however late the outcomes of their calls are recorded.
THEOREM CountersWithinLimits == Spec => [](TypeOK /\ WithinLimits)
<1>1. Init => IInv
  BY InitIInv
<1>2. IInv /\ [Next]_vars => IInv'
  BY NextIInv
<1>3. IInv => TypeOK /\ WithinLimits
  BY DEF IInv
<1> QED  BY <1>1, <1>2, <1>3, PTL DEF Spec

\* Breaker, callers and gauge are always in one of the states they have names
\* for, for any number of callers.
THEOREM TypeCorrect == Spec => []TypeOK
<1>1. IInv => TypeOK
  BY DEF IInv
<1> QED  BY <1>1, InitIInv, NextIInv, PTL DEF Spec
=============================================================================
