-------------------------- MODULE RateLimiterProofs --------------------------
(***************************************************************************)
(* Proofs about RateLimiter for any clients, concurrent requests and       *)
(* bursts.                                                                 *)
(***************************************************************************)
EXTENDS RateLimiter, FiniteSetTheorems, TLAPS

USE LimiterAssumption DEF MaxAge

-----------------------------------------------------------------------------
(***************************************************************************)
(* Types.                                                                  *)
(***************************************************************************)
\* The fields of a call
LEMMA CallFields ==
  ASSUME TypeOK, NEW r \in Requests
  PROVE  /\ call[r] = [at |-> call[r].at, client |-> call[r].client, now |-> call[r].now,
                       entry |-> call[r].entry]
         /\ call[r].at \in {"idle", "load", "store", "touch", "allow"}
         /\ call[r].client \in Clients \cup {None} /\ call[r].now \in 0..StepTicks
         /\ call[r].entry \in Entries \cup {None}
<1>1. call[r] \in Calls
  BY DEF TypeOK
<1> QED  BY <1>1 DEF Calls

\* A new entry is never one that a request holds or the map contains: there
\* are enough of them.
LEMMA FreshEntry ==
  ASSUME TypeOK, NEW r \in Requests, call[r].entry = None
  PROVE  Unused # {}
<1> DEFINE f == [q \in Requests |-> call[q].entry]
           g == [c \in Clients |-> limiters[c]]
           Mapped == {limiters[c] : c \in Clients}
<1>1. f \in Surjection(Requests, Held)
  BY DEF Held, Surjection
<1>2. g \in Surjection(Clients, Mapped)
  BY DEF Surjection
<1>3. /\ IsFiniteSet(Held) /\ Cardinality(Held) <= Cardinality(Requests)
      /\ IsFiniteSet(Mapped) /\ Cardinality(Mapped) <= Cardinality(Clients)
  BY <1>1, <1>2, FS_Surjection
<1>4. /\ IsFiniteSet(Held \ {None})
      /\ Cardinality(Held \ {None}) = Cardinality(Held) - 1
  <2>1. None \in Held
    BY DEF Held
  <2> QED  BY <1>3, <2>1, FS_RemoveElement
<1> DEFINE Used == (Held \ {None}) \cup Mapped
<1>5. IsFiniteSet(Used) /\ Cardinality(Used) <= Cardinality(Held \ {None}) + Cardinality(Mapped)
  <2>1. IsFiniteSet((Held \ {None}) \cap Mapped)
    BY <1>4, FS_Subset
  <2>2. /\ Cardinality((Held \ {None}) \cap Mapped) \in Nat
        /\ Cardinality(Held \ {None}) \in Nat /\ Cardinality(Mapped) \in Nat
    BY <1>3, <1>4, <2>1, FS_CardinalityType
  <2>3. /\ IsFiniteSet(Used)
        /\ Cardinality(Used) = Cardinality(Held \ {None}) + Cardinality(Mapped)
                                 - Cardinality((Held \ {None}) \cap Mapped)
    BY <1>3, <1>4, FS_Union
  <2> QED  BY <2>2, <2>3
<1>6. Cardinality(Used) < Cardinality(Entries)
  <2>1. /\ Cardinality(Held) \in Nat /\ Cardinality(Mapped) \in Nat
        /\ Cardinality(Used) \in Nat /\ Cardinality(Entries) \in Nat
        /\ Cardinality(Requests) \in Nat /\ Cardinality(Clients) \in Nat
    BY <1>3, <1>5, FS_CardinalityType
  <2> HIDE DEF Used, Mapped
  <2> QED  BY <1>3, <1>4, <1>5, <2>1
<1>7. ~(Entries \subseteq Used)
  <2> SUFFICES ASSUME Entries \subseteq Used PROVE FALSE
    OBVIOUS
  <2>1. Cardinality(Entries) <= Cardinality(Used)
    BY <1>5, FS_Subset
  <2>2. Cardinality(Entries) \in Nat /\ Cardinality(Used) \in Nat
    BY <1>5, FS_CardinalityType
  <2> QED  BY <1>6, <2>1, <2>2
<1>8. PICK e \in Entries : e \notin Used
  BY <1>7
<1>9. e \notin Held /\ \A c \in Clients : limiters[c] # e
  BY <1>8
<1> QED  BY <1>9 DEF Unused

\* What LoadOrStore may rely on when it stores an entry
LEMMA NewEntry ==
  ASSUME TypeOK, NEW r \in Requests, call[r].entry = None
  PROVE  LET new == CHOOSE e \in Unused : TRUE IN
         /\ new \in Entries /\ new # None
         /\ \A q \in Requests : call[q].entry # new
         /\ \A c \in Clients : limiters[c] # new
<1>1. (CHOOSE e \in Unused : TRUE) \in Unused
  BY FreshEntry
<1> QED  BY <1>1 DEF Unused, Held

\* The other calls stay as they are.
OthersKeep(r) == \A q \in Requests : q # r => call'[q] = call[q]

\* What Load, LoadOrStore and Touch do to the call of a request
LEMMA CallMoves ==
  ASSUME TypeOK, NEW r \in Requests, NEW at \in {"store", "touch", "allow"},
         NEW e \in Entries \cup {None},
         \/ call' = [call EXCEPT ![r].at = at, ![r].entry = e]
         \/ call' = [call EXCEPT ![r].at = at] /\ e = call[r].entry
  PROVE  /\ call' \in [Requests -> Calls] /\ OthersKeep(r)
         /\ call'[r].at = at /\ call'[r].entry = e
         /\ call'[r].client = call[r].client /\ call'[r].now = call[r].now
<1>1. call \in [Requests -> Calls]
  BY DEF TypeOK
<1>2. ASSUME NEW f \in [Requests -> Calls], NEW g, g = [f EXCEPT ![r].at = at]
      PROVE  /\ g \in [Requests -> Calls] /\ g[r].at = at /\ g[r].client = f[r].client
             /\ g[r].now = f[r].now /\ g[r].entry = f[r].entry
             /\ \A q \in Requests : q # r => g[q] = f[q]
  BY <1>2 DEF Calls
<1>3. CASE call' = [call EXCEPT ![r].at = at, ![r].entry = e]
  <2> DEFINE f == [call EXCEPT ![r].at = at]
  <2>1. call' = [f EXCEPT ![r].entry = e]
    BY <1>3
  <2>2. /\ f \in [Requests -> Calls] /\ f[r].at = at /\ f[r].client = call[r].client
        /\ f[r].now = call[r].now /\ \A q \in Requests : q # r => f[q] = call[q]
    BY <1>1, <1>2
  <2> HIDE DEF f
  <2> QED  BY <2>1, <2>2 DEF OthersKeep, Calls
<1>4. CASE call' = [call EXCEPT ![r].at = at] /\ e = call[r].entry
  BY <1>1, <1>2, <1>4 DEF OthersKeep
<1> QED  BY <1>3, <1>4

\* What Begin and Allow do
LEMMA CallEnds ==
  ASSUME TypeOK, NEW r \in Requests, NEW c \in Clients,
         \/ call' = [call EXCEPT ![r] = NoCall]
         \/ call' = [call EXCEPT ![r] = [NoCall EXCEPT !.at = "load", !.client = c]]
  PROVE  /\ call' \in [Requests -> Calls] /\ OthersKeep(r)
         /\ call'[r].entry = None /\ call'[r].at \in {"idle", "load"}
         /\ call'[r].at = "load" => call'[r].client = c
<1> DEFINE x == [at |-> "load", client |-> c, now |-> 0, entry |-> None]
<1>1. call \in [Requests -> Calls] /\ NoCall \in Calls /\ x \in Calls
  BY DEF TypeOK, NoCall, Calls
<1>2. [NoCall EXCEPT !.at = "load", !.client = c] = x
  <2> DEFINE y == [NoCall EXCEPT !.at = "load"]
  <2>1. y = [at |-> "load", client |-> None, now |-> 0, entry |-> None]
    BY DEF NoCall
  <2> HIDE DEF y
  <2>2. [y EXCEPT !.client = c] = x
    BY <2>1
  <2> QED  BY <2>2 DEF y
<1>3. CASE call' = [call EXCEPT ![r] = NoCall]
  BY <1>1, <1>3 DEF OthersKeep, NoCall
<1>4. CASE call' = [call EXCEPT ![r] = [NoCall EXCEPT !.at = "load", !.client = c]]
  <2>1. call' = [call EXCEPT ![r] = x]
    BY <1>2, <1>4
  <2>2. call'[r] = x /\ call' \in [Requests -> Calls] /\ OthersKeep(r)
    <3> HIDE DEF x
    <3> QED  BY <1>1, <2>1 DEF OthersKeep
  <2> QED  BY <2>2
<1> QED  BY <1>3, <1>4

\* What the steps of cleanup do to its own state
LEMMA SweepMoves ==
  ASSUME TypeOK, SweepNext
  PROVE  /\ sweep' \in Sweeps
         /\ sweep'.at = "delete" => \E c \in Clients : SweepVisit(c) /\ IsIdle(c)
                                      /\ sweep'.client = c
<1>0. sweep \in Sweeps /\ NoSweep \in Sweeps /\ NoSweep.at = "wait"
  BY DEF TypeOK, NoSweep, Sweeps
<1>1. CASE SweepBegin
  <2> DEFINE s == [NoSweep EXCEPT !.at = "range"]
  <2>1. s \in Sweeps /\ s.at = "range"
    BY DEF NoSweep, Sweeps
  <2>2. sweep' = [s EXCEPT !.todo = Clients]
    BY <1>1 DEF SweepBegin
  <2> HIDE DEF s
  <2> QED  BY <2>1, <2>2 DEF Sweeps
<1>2. ASSUME NEW c \in Clients, SweepVisit(c)
      PROVE  /\ sweep' \in Sweeps
             /\ sweep'.at = "delete" => IsIdle(c) /\ sweep'.client = c
  <2> DEFINE a == IF IsIdle(c) THEN "delete" ELSE "range"
             b == IF IsIdle(c) THEN c ELSE None
             s == [sweep EXCEPT !.at = a]
             t == [s EXCEPT !.client = b]
  <2>0. a \in {"delete", "range"} /\ b \in Clients \cup {None}
    OBVIOUS
  <2>1. sweep' = [t EXCEPT !.todo = @ \ {c}]
    BY <1>2 DEF SweepVisit
  <2> HIDE DEF a, b
  <2>2. s \in Sweeps /\ s.at = a
    BY <1>0, <2>0 DEF Sweeps
  <2> HIDE DEF s
  <2>3. t \in Sweeps /\ t.at = a /\ t.client = b
    BY <2>0, <2>2 DEF Sweeps
  <2> HIDE DEF t
  <2>4. sweep' \in Sweeps /\ sweep'.at = a /\ sweep'.client = b
    BY <2>1, <2>3 DEF Sweeps
  <2> QED  BY <2>4 DEF a, b
<1>3. CASE SweepDelete
  <2> DEFINE s == [sweep EXCEPT !.at = "range"]
  <2>1. sweep' = [s EXCEPT !.client = None]
    BY <1>3 DEF SweepDelete
  <2>2. s \in Sweeps /\ s.at = "range"
    BY <1>0 DEF Sweeps
  <2> HIDE DEF s
  <2> QED  BY <2>1, <2>2 DEF Sweeps
<1>4. CASE SweepEnd
  BY <1>0, <1>4 DEF SweepEnd
<1> QED  BY <1>1, <1>2, <1>3, <1>4 DEF SweepNext

\* Time makes calls, entries and a running sweep older.
LEMMA TickMoves ==
  ASSUME TypeOK, Tick
  PROVE  /\ call' \in [Requests -> Calls] /\ sweep' \in Sweeps
         /\ age' \in [Entries -> 0..MaxAge]
         /\ \A e \in Entries : age'[e] <= age[e] + 1
         /\ \A r \in Requests :
              /\ call'[r].at = call[r].at /\ call'[r].client = call[r].client
              /\ call'[r].entry = call[r].entry
              /\ call[r].at # "idle" => call'[r].now = call[r].now + 1
         /\ sweep'.at = sweep.at /\ sweep'.client = sweep.client
<1>1. ASSUME NEW r \in Requests
      PROVE  /\ call'[r] \in Calls
             /\ call'[r].at = call[r].at /\ call'[r].client = call[r].client
             /\ call'[r].entry = call[r].entry
             /\ call[r].at # "idle" => call'[r].now = call[r].now + 1
  <2>1. call[r] \in Calls /\ call[r].now \in 0..StepTicks /\ call[r].now < StepTicks
    BY CallFields DEF Tick, TypeOK
  <2>2. CASE call[r].at = "idle"
    BY <2>1, <2>2 DEF Tick
  <2>3. CASE call[r].at # "idle"
    <3>1. call'[r] = [call[r] EXCEPT !.now = call[r].now + 1]
      BY <2>3 DEF Tick
    <3>2. call[r].now + 1 \in 0..StepTicks
      BY <2>1
    <3> QED  BY <2>1, <3>1, <3>2 DEF Calls
  <2> QED  BY <2>2, <2>3
<1>2. call' \in [Requests -> Calls]
  BY <1>1 DEF Tick
<1>3. sweep' \in Sweeps /\ sweep'.at = sweep.at /\ sweep'.client = sweep.client
  <2>1. sweep \in Sweeps /\ sweep.cut \in Idle..MaxAge /\ sweep.cut < Idle + StepTicks
    BY DEF TypeOK, Sweeps, Tick
  <2>2. sweep.cut + 1 \in Idle..MaxAge
    BY <2>1
  <2>3. sweep' = sweep \/ sweep' = [sweep EXCEPT !.cut = sweep.cut + 1]
    BY DEF Tick
  <2> QED  BY <2>1, <2>2, <2>3 DEF Sweeps
<1>4. /\ age' \in [Entries -> 0..MaxAge]
      /\ \A e \in Entries : age'[e] <= age[e] + 1
  <2>1. \A e \in Entries : age[e] \in 0..MaxAge
    BY DEF TypeOK
  <2>2. \A e \in Entries : Older(age[e]) \in 0..MaxAge /\ Older(age[e]) <= age[e] + 1
    BY <2>1 DEF Older
  <2> QED  BY <2>2 DEF Tick
<1> QED  BY <1>1, <1>2, <1>3, <1>4

\* Each step of a request keeps the types.
LEMMA RequestType ==
  ASSUME TypeOK, CallInv, NEW r \in Requests,
         (\E c \in Clients : Begin(r, c)) \/ CallNext(r)
  PROVE  TypeOK' /\ CallInv'
<1> USE DEF entryVars, sweepVars, history
<1>0. /\ call[r].at # "idle" => call[r].client \in Clients
      /\ call[r].entry # None <=> call[r].at \in {"touch", "allow"}
      /\ call[r].now \in 0..StepTicks /\ call[r].entry \in Entries \cup {None}
      /\ \A n \in 0..StepTicks : n \in 0..MaxAge
  <2>1. call[r].now \in 0..StepTicks /\ call[r].entry \in Entries \cup {None}
    BY CallFields
  <2>2. \A n \in 0..StepTicks : n \in 0..MaxAge
    OBVIOUS
  <2> QED  BY <2>1, <2>2 DEF CallInv
<1>1. ASSUME NEW c \in Clients, Begin(r, c)
      PROVE  TypeOK' /\ CallInv'
  <2>1. /\ call' \in [Requests -> Calls] /\ OthersKeep(r)
        /\ call'[r].entry = None /\ call'[r].at \in {"idle", "load"}
        /\ call'[r].at = "load" => call'[r].client = c
    BY <1>1, CallEnds DEF Begin
  <2>2. TypeOK'
    BY <1>1, <2>1 DEF Begin, TypeOK
  <2> QED  BY <2>1, <2>2 DEF CallInv, OthersKeep
<1>2. CASE Load(r)
  <2> DEFINE e == limiters[call[r].client]
  <2>1. e \in Entries \cup {None}
    BY <1>0, <1>2 DEF Load, TypeOK
  <2>2. PICK at \in {"store", "touch"} :
          /\ call' = [call EXCEPT ![r].at = at, ![r].entry = e]
          /\ e # None <=> at = "touch"
    BY <1>2 DEF Load
  <2>3. /\ call' \in [Requests -> Calls] /\ OthersKeep(r)
        /\ call'[r].at = at /\ call'[r].entry = e
        /\ call'[r].client = call[r].client
    BY <2>1, <2>2, CallMoves
  <2>4. TypeOK'
    BY <1>2, <2>3 DEF Load, TypeOK
  <2> QED  BY <1>0, <1>2, <2>2, <2>3, <2>4 DEF CallInv, OthersKeep, Load
<1>3. CASE LoadOrStore(r)
  <2> DEFINE c == call[r].client
             new == CHOOSE e \in Unused : TRUE
  <2>1. c \in Clients /\ call[r].entry = None
    BY <1>0, <1>3 DEF LoadOrStore
  <2>2. new \in Entries
    BY <2>1, NewEntry
  <2> HIDE DEF new
  <2>3. PICK e \in Entries : call' = [call EXCEPT ![r].at = "touch", ![r].entry = e]
    BY <1>3, <2>1, <2>2 DEF LoadOrStore, TypeOK, new
  <2>4. /\ call' \in [Requests -> Calls] /\ OthersKeep(r)
        /\ call'[r].at = "touch" /\ call'[r].entry = e /\ call'[r].client = c
    BY <2>3, CallMoves
  <2>5. TypeOK'
    <3>1. CASE UNCHANGED entryVars
      BY <1>3, <2>4, <3>1 DEF LoadOrStore, TypeOK
    <3>2. CASE limiters[c] = None
      <4>1. /\ limiters' = [limiters EXCEPT ![c] = new]
            /\ tokens' = [tokens EXCEPT ![new] = Burst]
            /\ age' = [age EXCEPT ![new] = call[r].now]
        BY <1>3, <3>2 DEF LoadOrStore, new
      <4>2. /\ limiters' \in [Clients -> Entries \cup {None}]
            /\ tokens' \in [Entries -> 0..Burst]
            /\ age' \in [Entries -> 0..MaxAge]
        BY <1>0, <2>1, <2>2, <4>1 DEF TypeOK
      <4> QED  BY <1>3, <2>4, <4>2 DEF LoadOrStore, TypeOK
    <3> QED  BY <1>3, <3>1, <3>2 DEF LoadOrStore
  <2> QED  BY <2>1, <2>4, <2>5 DEF CallInv, OthersKeep
<1>4. CASE Touch(r)
  <2>1. call[r].entry \in Entries /\ call[r].at = "touch"
    BY <1>0, <1>4 DEF Touch
  <2>2. /\ call' \in [Requests -> Calls] /\ OthersKeep(r)
        /\ call'[r].at = "allow" /\ call'[r].entry = call[r].entry
        /\ call'[r].client = call[r].client
    BY <1>4, <2>1, CallMoves DEF Touch
  <2>3. age' \in [Entries -> 0..MaxAge]
    BY <1>0, <1>4, <2>1 DEF Touch, TypeOK
  <2>4. TypeOK'
    BY <1>4, <2>2, <2>3 DEF Touch, TypeOK
  <2> QED  BY <1>0, <2>1, <2>2, <2>4 DEF CallInv, OthersKeep
<1>5. CASE Allow(r)
  <2> DEFINE e == call[r].entry
             c == call[r].client
  <2>1. e \in Entries /\ c \in Clients
    BY <1>0, <1>5 DEF Allow
  <2>2. /\ call' \in [Requests -> Calls] /\ OthersKeep(r)
        /\ call'[r].entry = None /\ call'[r].at \in {"idle", "load"}
        /\ call'[r].at = "load" => call'[r].client = c
    BY <1>5, <2>1, CallEnds DEF Allow
  <2>3. tokens' \in [Entries -> 0..Burst] /\ granted' \in [Clients -> Nat]
    BY <1>5, <2>1 DEF Allow, TypeOK
  <2>4. TypeOK'
    BY <1>5, <2>2, <2>3 DEF Allow, TypeOK
  <2> QED  BY <2>1, <2>2, <2>4 DEF CallInv, OthersKeep
<1> QED  BY <1>1, <1>2, <1>3, <1>4, <1>5 DEF CallNext

\* The sweep is about to delete the entry of some client.
SweepClient == sweep.at = "delete" => sweep.client \in Clients

\* So do the sweep and the passing of time.
LEMMA TypeStep ==
  ASSUME TypeOK, CallInv, SweepClient, [Next]_vars
  PROVE  TypeOK' /\ CallInv' /\ SweepClient'
<1> USE DEF entryVars, sweepVars, history
<1>1. CASE SweepNext
  <2>1. sweep' \in Sweeps
    BY <1>1, SweepMoves
  <2>2. UNCHANGED <<tokens, age, call, granted>>
    BY <1>1 DEF SweepNext, SweepBegin, SweepVisit, SweepDelete, SweepEnd
  <2>3. /\ limiters' \in [Clients -> Entries \cup {None}] /\ evicted' \in SUBSET Clients
        /\ tick' \in BOOLEAN
    BY <1>1 DEF SweepNext, SweepBegin, SweepVisit, SweepDelete, SweepEnd, SweepClient,
       TypeOK
  <2>4. SweepClient'
    BY <1>1, SweepMoves DEF SweepClient
  <2> QED  BY <2>1, <2>2, <2>3, <2>4 DEF TypeOK, CallInv
<1>2. ASSUME Refill
      PROVE  /\ tokens' \in [Entries -> 0..Burst] /\ granted' \in [Clients -> Nat]
             /\ evicted' \in SUBSET Clients
  BY <1>2 DEF Refill, TypeOK
<1>3. CASE Pause
  BY <1>2, <1>3 DEF Pause, TypeOK, CallInv, SweepClient
<1>4. CASE Tick
  <2>1. TypeOK'
    BY <1>2, <1>4, TickMoves DEF Tick, TypeOK
  <2> QED  BY <1>4, <2>1, TickMoves DEF CallInv, SweepClient
<1>5. CASE UNCHANGED vars
  BY <1>5 DEF vars, TypeOK, CallInv, SweepClient
<1>6. ASSUME NEW r \in Requests, (\E c \in Clients : Begin(r, c)) \/ CallNext(r)
      PROVE  TypeOK' /\ CallInv' /\ SweepClient'
  <2>1. UNCHANGED sweep
    BY <1>6 DEF CallNext, Begin, Load, LoadOrStore, Touch, Allow
  <2> QED  BY <1>6, <2>1, RequestType DEF SweepClient
<1> QED  BY <1>1, <1>3, <1>4, <1>5, <1>6 DEF Next

\* A limiter without clients is well typed.
LEMMA TypeInit == Init => TypeOK /\ CallInv /\ SweepClient
<1> SUFFICES ASSUME Init PROVE TypeOK /\ CallInv /\ SweepClient
  OBVIOUS
<1>1. /\ NoCall \in Calls /\ NoCall.at = "idle" /\ NoCall.entry = None
      /\ NoSweep \in Sweeps /\ NoSweep.at = "wait"
  BY DEF NoCall, Calls, NoSweep, Sweeps
<1>2. Burst \in 0..Burst /\ MaxAge \in 0..MaxAge
  OBVIOUS
<1> QED  BY <1>1, <1>2 DEF Init, TypeOK, CallInv, SweepClient

\* Buckets are never overdrawn and ages stay in their range, for any clients,
\* requests and limits; a request always finds an entry to take from.
THEOREM TypeCorrect == Spec => []TypeOK
<1>1. TypeOK /\ CallInv /\ SweepClient /\ [Next]_vars => (TypeOK /\ CallInv /\ SweepClient)'
  BY TypeStep
<1> QED  BY <1>1, TypeInit, PTL DEF Spec

-----------------------------------------------------------------------------
(***************************************************************************)
(* One burst, or two.                                                      *)
(***************************************************************************)
\* The numbers the invariant adds and compares
LEMMA Numbers ==
  ASSUME TypeOK
  PROVE  /\ Burst \in Nat /\ StepTicks \in Nat /\ Idle \in Nat
         /\ \A e \in Entries : tokens[e] \in Nat /\ tokens[e] <= Burst /\ age[e] \in Nat
         /\ \A c \in Clients : /\ granted[c] \in Nat /\ limiters[c] \in Entries \cup {None}
                               /\ Left(c) \in Nat /\ Left(c) <= Burst
         /\ \A r \in Requests : call[r].now \in Nat /\ call[r].now <= StepTicks
         /\ sweep.cut \in Nat /\ sweep.cut >= Idle
<1>1. \A e \in Entries : tokens[e] \in Nat /\ tokens[e] <= Burst /\ age[e] \in Nat
  BY DEF TypeOK
<1>2. \A r \in Requests : call[r].now \in Nat /\ call[r].now <= StepTicks
  BY DEF TypeOK, Calls
<1>3. sweep.cut \in Nat /\ sweep.cut >= Idle
  BY DEF TypeOK, Sweeps
<1>4. \A c \in Clients : granted[c] \in Nat /\ limiters[c] \in Entries \cup {None}
  BY DEF TypeOK
<1>5. \A c \in Clients : Left(c) \in Nat /\ Left(c) <= Burst
  BY <1>1, <1>4 DEF Left
<1> QED  BY <1>1, <1>2, <1>3, <1>4, <1>5

\* A request that holds an entry belongs to a client.
LEMMA Holder ==
  ASSUME TypeOK, CallInv, NEW r \in Requests, call[r].entry # None
  PROVE  /\ call[r].client \in Clients /\ call[r].entry \in Entries
         /\ call[r].at \in {"touch", "allow"}
<1>1. call[r].entry \in Entries \cup {None}
  BY CallFields
<1> QED  BY <1>1 DEF CallInv

\* A step that only moves a call, to where it holds no old entry and has not
\* touched the one it holds
LEMMA CallOnly ==
  ASSUME BurstInv, NEW r \in Requests, OthersKeep(r), UNCHANGED <<entryVars, sweep, history>>,
         \/ call'[r].entry = None \/ call'[r].entry = limiters[call'[r].client],
         call'[r].at # "allow"
  PROVE  AgeInv' /\ OldInv' /\ YoungInv' /\ SweepInv' /\ SpentInv'
<1> USE DEF entryVars, history
<1>1. ~HoldsOld(r)'
  BY DEF HoldsOld
<1>2. \A q \in Requests : q # r => (HoldsOld(q)' <=> HoldsOld(q)) /\ call'[q] = call[q]
  BY DEF HoldsOld, OthersKeep
<1>3. \A c \in Clients : Left(c)' = Left(c)
  BY DEF Left
<1>4. AgeInv'
  BY <1>1, <1>2 DEF BurstInv, AgeInv
<1>5. OldInv'
  BY <1>1, <1>2 DEF BurstInv, OldInv
<1>6. YoungInv' /\ SweepInv'
  BY DEF BurstInv, YoungInv, SweepInv
<1>7. SpentInv'
  BY <1>1, <1>2, <1>3 DEF BurstInv, SpentInv, Left
<1> QED  BY <1>4, <1>5, <1>6, <1>7

\* lastSeen.Store makes an entry younger than the limit.
LEMMA TouchKeepsInv ==
  ASSUME TypeOK, BurstInv, NEW r \in Requests, Touch(r)
  PROVE  AgeInv' /\ OldInv' /\ YoungInv' /\ SweepInv' /\ SpentInv'
<1> DEFINE e == call[r].entry
<1>0. e \in Entries /\ e # None
  BY CallFields DEF Touch, BurstInv, CallInv
<1>1. /\ OthersKeep(r) /\ call'[r].at = "allow" /\ call'[r].entry = e
      /\ call'[r].client = call[r].client /\ call'[r].now = call[r].now
  BY <1>0, CallMoves DEF Touch
<1>2. /\ \A d \in Entries : age'[d] = IF d = e THEN call[r].now ELSE age[d]
      /\ UNCHANGED <<limiters, tokens, sweep, granted, evicted>>
  BY DEF Touch, sweepVars, history, TypeOK
<1>3. \A q \in Requests : /\ HoldsOld(q)' <=> HoldsOld(q)
                          /\ call'[q].client = call[q].client
                          /\ call'[q].entry = call[q].entry /\ call'[q].now = call[q].now
                          /\ q # r => call'[q].at = call[q].at
  BY <1>1, <1>2 DEF HoldsOld, OthersKeep
<1>4. AgeInv'
  <2> SUFFICES ASSUME NEW q \in Requests, limiters[call[q].client] # None,
                      call'[q].at = "allow" \/ HoldsOld(q)
               PROVE  age'[limiters[call[q].client]] <= StepTicks + call[q].now
    BY <1>2, <1>3 DEF AgeInv
  <2> DEFINE d == limiters[call[q].client]
  <2>1. call[q].client \in Clients /\ d \in Entries
    <3>1. call[q].client \in Clients
      BY <1>1, <1>3, Holder DEF HoldsOld, BurstInv, CallInv, Touch
    <3> QED  BY <3>1, Numbers
  <2>2. CASE d = e
    BY <1>2, <2>1, <2>2, Numbers
  <2>3. CASE d # e
    <3>1. call[q].at = "allow" \/ HoldsOld(q)
      BY <1>0, <1>3, <2>3 DEF HoldsOld
    <3>2. age[d] <= StepTicks + call[q].now
      BY <3>1 DEF BurstInv, AgeInv
    <3> QED  BY <1>2, <2>1, <2>3, <3>2
  <2> QED  BY <2>2, <2>3
<1>5. OldInv' /\ SweepInv'
  BY <1>2, <1>3 DEF BurstInv, OldInv, SweepInv
<1>6. YoungInv'
  <2>1. \A c \in Clients : limiters[c] # None => limiters[c] \in Entries
    BY Numbers
  <2>2. call[r].now <= 2 * StepTicks
    BY Numbers
  <2> QED  BY <1>2, <2>1, <2>2 DEF BurstInv, YoungInv
<1>7. SpentInv'
  BY <1>2, <1>3 DEF BurstInv, SpentInv, Left
<1> QED  BY <1>4, <1>5, <1>6, <1>7

\* A new entry is full and young, and takes the place of none.
LEMMA StoreKeepsInv ==
  ASSUME TypeOK, BurstInv, NEW r \in Requests, LoadOrStore(r)
  PROVE  AgeInv' /\ OldInv' /\ YoungInv' /\ SweepInv' /\ SpentInv'
<1> DEFINE c == call[r].client
           new == CHOOSE x \in Unused : TRUE
<1>0. c \in Clients /\ call[r].entry = None /\ call[r].at = "store"
  BY DEF LoadOrStore, BurstInv, CallInv
<1>1. /\ new \in Entries /\ new # None
      /\ \A q \in Requests : call[q].entry # new
      /\ \A d \in Clients : limiters[d] # new
  BY <1>0, NewEntry
<1> HIDE DEF new
<1>2. CASE limiters[c] # None
  <2>1. call' = [call EXCEPT ![r].at = "touch", ![r].entry = limiters[c]]
        /\ UNCHANGED <<entryVars, sweep, history>>
    BY <1>2 DEF LoadOrStore, sweepVars
  <2>2. limiters[c] \in Entries \cup {None}
    BY <1>0, Numbers
  <2>3. OthersKeep(r) /\ call'[r].at = "touch" /\ call'[r].entry = limiters[c]
        /\ call'[r].client = c
    BY <2>1, <2>2, CallMoves
  <2> QED  BY <2>1, <2>3, CallOnly
<1>3. CASE limiters[c] = None
  <2>1. /\ limiters' = [limiters EXCEPT ![c] = new]
        /\ tokens' = [tokens EXCEPT ![new] = Burst]
        /\ age' = [age EXCEPT ![new] = call[r].now]
        /\ call' = [call EXCEPT ![r].at = "touch", ![r].entry = new]
        /\ UNCHANGED <<sweep, granted, evicted>>
    BY <1>3 DEF LoadOrStore, sweepVars, history, new
  <2>2. OthersKeep(r) /\ call'[r].at = "touch" /\ call'[r].entry = new /\ call'[r].client = c
    BY <1>1, <2>1, CallMoves
  <2>3. /\ limiters'[c] = new /\ tokens'[new] = Burst /\ age'[new] = call[r].now
        /\ \A d \in Clients : d # c => limiters'[d] = limiters[d]
        /\ \A e \in Entries : e # new => tokens'[e] = tokens[e] /\ age'[e] = age[e]
    BY <1>0, <1>1, <2>1 DEF TypeOK
  <2>4. ~HoldsOld(r)'
    BY <2>2, <2>3 DEF HoldsOld
  <2>5. \A q \in Requests : q # r => (HoldsOld(q)' <=> HoldsOld(q)) /\ call'[q] = call[q]
    <3> SUFFICES ASSUME NEW q \in Requests, q # r PROVE HoldsOld(q)' <=> HoldsOld(q)
      BY <2>2 DEF OthersKeep
    <3>1. call'[q] = call[q]
      BY <2>2 DEF OthersKeep
    <3>2. CASE call[q].entry = None
      BY <3>1, <3>2 DEF HoldsOld
    <3>3. CASE call[q].entry # None
      <4>1. call[q].client \in Clients
        BY <3>3, Holder DEF BurstInv
      <4> QED  BY <1>1, <1>3, <2>3, <3>1, <3>3, <4>1 DEF HoldsOld
    <3> QED  BY <3>2, <3>3
  <2>6. \A d \in Clients : Left(d)' = Left(d)
    <3> SUFFICES ASSUME NEW d \in Clients PROVE Left(d)' = Left(d)
      OBVIOUS
    <3>1. CASE d = c
      BY <1>1, <1>3, <2>3, <3>1 DEF Left
    <3>2. CASE d # c
      <4>1. limiters'[d] = limiters[d] /\ (limiters[d] = None \/ limiters[d] \in Entries)
        BY <2>3, <3>2, Numbers
      <4> QED  BY <1>1, <2>3, <4>1 DEF Left
    <3> QED  BY <3>1, <3>2
  <2>7. AgeInv'
    <3> SUFFICES ASSUME NEW q \in Requests, q # r, limiters'[call[q].client] # None,
                        call[q].at = "allow" \/ HoldsOld(q)
                 PROVE  age'[limiters'[call[q].client]] <= StepTicks + call[q].now
      BY <2>2, <2>4, <2>5 DEF AgeInv
    <3>1. call[q].client \in Clients
      BY Holder DEF HoldsOld, BurstInv, CallInv
    <3>2. CASE call[q].client = c
      BY <1>0, <2>3, <3>2, Numbers
    <3>3. CASE call[q].client # c
      <4> DEFINE d == limiters[call[q].client]
      <4>1. limiters'[call[q].client] = d /\ d \in Entries /\ d # new /\ d # None
        BY <1>1, <2>3, <3>1, <3>3, Numbers
      <4>2. age[d] <= StepTicks + call[q].now
        BY <4>1 DEF BurstInv, AgeInv
      <4> QED  BY <2>3, <4>1, <4>2
    <3> QED  BY <3>2, <3>3
  <2>8. OldInv'
    <3>1. ASSUME NEW q \in Requests, HoldsOld(q)'
          PROVE  q # r /\ HoldsOld(q) /\ call'[q] = call[q]
      BY <2>4, <2>5, <3>1
    <3>2. \A q \in Requests : HoldsOld(q)' => call'[q].client \in evicted'
      <4>1. evicted' = evicted
        BY <2>1
      <4>2. \A q \in Requests : HoldsOld(q) => call[q].client \in evicted
        BY DEF BurstInv, OldInv
      <4> QED  BY <3>1, <4>1, <4>2
    <3>3. \A q, s \in Requests :
            HoldsOld(q)' /\ HoldsOld(s)' /\ call'[q].client = call'[s].client =>
              call'[q].entry = call'[s].entry
      BY <3>1 DEF BurstInv, OldInv
    <3> QED  BY <3>2, <3>3 DEF OldInv
  <2>9. YoungInv'
    <3> SUFFICES ASSUME NEW d \in Clients, granted[d] > 0 \/ d \in evicted, limiters'[d] # None
                 PROVE  age'[limiters'[d]] <= 2 * StepTicks
      BY <2>1 DEF YoungInv
    <3>1. CASE d = c
      BY <1>0, <2>3, <3>1, Numbers
    <3>2. CASE d # c
      <4>1. limiters'[d] = limiters[d] /\ limiters[d] \in Entries /\ limiters[d] # new
        BY <1>1, <2>3, <3>2, Numbers
      <4> QED  BY <2>3, <4>1 DEF BurstInv, YoungInv
    <3> QED  BY <3>1, <3>2
  <2>10. SweepInv'
    BY <1>1, <2>1, <2>3 DEF BurstInv, SweepInv
  <2>11. SpentInv'
    <3>1. \A d \in Clients : granted'[d] + Left(d)' <= IF d \in evicted' THEN 2 * Burst ELSE Burst
      BY <2>1, <2>6 DEF BurstInv, SpentInv
    <3>2. ASSUME NEW q \in Requests, HoldsOld(q)'
          PROVE  granted'[call'[q].client] + tokens'[call'[q].entry] + Left(call[q].client)'
                   <= 2 * Burst
      <4>1. q # r /\ HoldsOld(q) /\ call'[q] = call[q]
        BY <2>4, <2>5, <3>2
      <4> DEFINE d == call[q].client
                 e == call[q].entry
      <4>2. d \in Clients /\ e \in Entries /\ e # new
        BY <1>1, <4>1, Holder DEF HoldsOld, BurstInv
      <4>3. granted[d] + tokens[e] + Left(d) <= 2 * Burst
        BY <4>1 DEF BurstInv, SpentInv
      <4> HIDE DEF d, e
      <4>4. granted'[d] + tokens'[e] + Left(d) <= 2 * Burst
        BY <2>1, <2>3, <4>2, <4>3
      <4>5. \A x \in Clients : (IF limiters'[x] = None THEN Burst ELSE tokens'[limiters'[x]]) = Left(x)
        BY <2>6 DEF Left
      <4>6. (IF limiters'[d] = None THEN Burst ELSE tokens'[limiters'[d]]) = Left(d)
        BY <4>2, <4>5
      <4> QED  BY <4>1, <4>4, <4>6 DEF d, e, Left
    <3> QED  BY <3>1, <3>2 DEF SpentInv
  <2> QED  BY <2>7, <2>8, <2>9, <2>10, <2>11
<1> QED  BY <1>2, <1>3

\* A token given moves from a bucket to what was granted.
LEMMA AllowKeepsInv ==
  ASSUME TypeOK, BurstInv, NEW r \in Requests, Allow(r)
  PROVE  AgeInv' /\ OldInv' /\ YoungInv' /\ SweepInv' /\ SpentInv'
<1> DEFINE c == call[r].client
           e == call[r].entry
<1>0. c \in Clients /\ e \in Entries /\ e # None /\ call[r].at = "allow"
  <2>1. call[r].entry # None /\ call[r].at = "allow"
    BY DEF Allow, BurstInv, CallInv
  <2> QED  BY <2>1, Holder DEF BurstInv
<1>1. /\ UNCHANGED <<limiters, age, sweep, evicted>>
      /\ OthersKeep(r) /\ call'[r].entry = None /\ call'[r].at \in {"idle", "load"}
  <2>1. call' = [call EXCEPT ![r] = NoCall]
    BY DEF Allow
  <2> QED  BY <1>0, <2>1, CallEnds DEF Allow, sweepVars
<1>2. CASE tokens[e] = 0
  <2>1. UNCHANGED <<entryVars, sweep, history>>
    BY <1>0, <1>1, <1>2 DEF Allow, entryVars, history
  <2> QED  BY <1>1, <2>1, CallOnly
<1>3. CASE tokens[e] > 0
  <2>1. /\ tokens'[e] = tokens[e] - 1 /\ granted'[c] = granted[c] + 1
        /\ \A x \in Entries : x # e => tokens'[x] = tokens[x]
        /\ \A d \in Clients : d # c => granted'[d] = granted[d]
    <3>1. /\ tokens' = [tokens EXCEPT ![e] = tokens[e] - 1]
          /\ granted' = [granted EXCEPT ![c] = granted[c] + 1]
      BY <1>3 DEF Allow
    <3> QED  BY <1>0, <3>1 DEF TypeOK
  <2>2. /\ ~HoldsOld(r)'
        /\ \A q \in Requests : q # r => (HoldsOld(q)' <=> HoldsOld(q)) /\ call'[q] = call[q]
    BY <1>1 DEF HoldsOld, OthersKeep
  <2>3. ASSUME NEW q \in Requests, HoldsOld(q)'
        PROVE  q # r /\ HoldsOld(q) /\ call'[q] = call[q]
    BY <2>2, <2>3
  <2>4. AgeInv'
    <3> SUFFICES ASSUME NEW q \in Requests, q # r, limiters[call[q].client] # None,
                        call[q].at = "allow" \/ HoldsOld(q)
                 PROVE  age[limiters[call[q].client]] <= StepTicks + call[q].now
      BY <1>1, <2>2 DEF AgeInv
    <3> QED  BY DEF BurstInv, AgeInv
  <2>5. OldInv'
    <3>1. \A q \in Requests : HoldsOld(q)' => call'[q].client \in evicted'
      BY <1>1, <2>3 DEF BurstInv, OldInv
    <3>2. \A q, s \in Requests :
            HoldsOld(q)' /\ HoldsOld(s)' /\ call'[q].client = call'[s].client =>
              call'[q].entry = call'[s].entry
      BY <2>3 DEF BurstInv, OldInv
    <3> QED  BY <3>1, <3>2 DEF OldInv
  <2>6. YoungInv'
    <3> SUFFICES ASSUME NEW d \in Clients, granted'[d] > 0 \/ d \in evicted, limiters[d] # None
                 PROVE  age[limiters[d]] <= 2 * StepTicks
      BY <1>1 DEF YoungInv
    <3>1. CASE d = c
      <4>1. age[limiters[c]] <= StepTicks + call[r].now
        BY <1>0, <3>1 DEF BurstInv, AgeInv
      <4>2. age[limiters[c]] \in Nat
        BY <3>1, <1>0, Numbers
      <4> QED  BY <3>1, <4>1, <4>2, Numbers
    <3>2. CASE d # c
      BY <2>1, <3>2 DEF BurstInv, YoungInv
    <3> QED  BY <3>1, <3>2
  <2>7. SweepInv'
    BY <1>1 DEF BurstInv, SweepInv
  <2> DEFINE NewLeft(d) == IF limiters[d] = None THEN Burst ELSE tokens'[limiters[d]]
  <2>8. \A d \in Clients : NewLeft(d) = IF limiters[d] = e THEN Left(d) - 1 ELSE Left(d)
    <3> SUFFICES ASSUME NEW d \in Clients
                 PROVE  NewLeft(d) = IF limiters[d] = e THEN Left(d) - 1 ELSE Left(d)
      OBVIOUS
    <3>1. limiters[d] \in Entries \cup {None}
      BY Numbers
    <3> QED  BY <1>0, <2>1, <3>1 DEF Left
  <2>9. \A d \in Clients : /\ Left(d) \in Nat /\ granted[d] \in Nat /\ NewLeft(d) \in Int
                           /\ NewLeft(d) <= Left(d)
    BY <2>8, Numbers
  <2> HIDE DEF NewLeft
  <2>10. \A d \in Clients : granted'[d] + NewLeft(d) <= IF d \in evicted THEN 2 * Burst ELSE Burst
    <3> SUFFICES ASSUME NEW d \in Clients
                 PROVE  granted'[d] + NewLeft(d) <= IF d \in evicted THEN 2 * Burst ELSE Burst
      OBVIOUS
    <3>1. granted[d] + Left(d) <= IF d \in evicted THEN 2 * Burst ELSE Burst
      BY DEF BurstInv, SpentInv
    <3>2. CASE d # c
      BY <2>1, <2>9, <3>1, <3>2, Numbers
    <3>3. CASE d = c /\ limiters[c] = e
      BY <2>1, <2>8, <2>9, <3>1, <3>3, Numbers
    <3>4. CASE d = c /\ limiters[c] # e
      <4>1. HoldsOld(r)
        BY <1>0, <3>4 DEF HoldsOld
      <4>2. c \in evicted /\ granted[c] + tokens[e] + Left(c) <= 2 * Burst
        BY <4>1 DEF BurstInv, OldInv, SpentInv
      <4>3. tokens[e] \in Nat
        BY <1>0, Numbers
      <4> QED  BY <1>3, <2>1, <2>8, <2>9, <3>4, <4>2, <4>3, Numbers
    <3> QED  BY <3>2, <3>3, <3>4
  <2>11. ASSUME NEW q \in Requests, HoldsOld(q), q # r
         PROVE  granted'[call[q].client] + tokens'[call[q].entry] + NewLeft(call[q].client)
                  <= 2 * Burst
    <3> DEFINE d == call[q].client
               x == call[q].entry
    <3>1. d \in Clients /\ x \in Entries /\ x # limiters[d]
      BY <2>11, Holder DEF HoldsOld, BurstInv
    <3>2. granted[d] + tokens[x] + Left(d) <= 2 * Burst
      BY <2>11 DEF BurstInv, SpentInv
    <3>3. d = c /\ HoldsOld(r) => x = e
      BY <2>11 DEF BurstInv, OldInv
    <3>4. tokens[x] \in Nat /\ tokens'[x] \in Int /\ tokens'[x] <= tokens[x]
      BY <1>0, <2>1, <3>1, Numbers
    <3>5. d = c /\ limiters[c] # e => x = e
      BY <1>0, <3>3 DEF HoldsOld
    <3> HIDE DEF d, x
    <3>6. /\ granted[d] \in Nat /\ Left(d) \in Nat /\ NewLeft(d) \in Int /\ Burst \in Nat
          /\ NewLeft(d) <= Left(d)
          /\ granted'[d] = IF d = c THEN granted[d] + 1 ELSE granted[d]
          /\ limiters[d] = e => NewLeft(d) = Left(d) - 1
          /\ x = e => tokens'[x] = tokens[x] - 1
      BY <2>1, <2>8, <2>9, <3>1, Numbers
    <3>7. d = c => limiters[d] = e \/ x = e
      BY <3>5
    <3>8. granted'[d] + tokens'[x] + NewLeft(d) <= granted[d] + tokens[x] + Left(d)
      BY <3>4, <3>6, <3>7
    <3>9. granted'[d] + tokens'[x] + NewLeft(d) <= 2 * Burst
      BY <3>2, <3>4, <3>6, <3>8
    <3> QED  BY <3>9 DEF d, x
  <2>12. SpentInv'
    <3>1. \A d \in Clients : granted'[d] + Left(d)' <= IF d \in evicted' THEN 2 * Burst ELSE Burst
      BY <1>1, <2>10 DEF Left, NewLeft
    <3>2. ASSUME NEW q \in Requests, HoldsOld(q)'
          PROVE  granted'[call'[q].client] + tokens'[call'[q].entry] + Left(call[q].client)'
                   <= 2 * Burst
      <4>1. q # r /\ HoldsOld(q) /\ call'[q] = call[q]
        BY <2>3, <3>2
      <4>2. granted'[call[q].client] + tokens'[call[q].entry] + NewLeft(call[q].client)
              <= 2 * Burst
        BY <2>11, <4>1
      <4> QED  BY <1>1, <4>1, <4>2 DEF Left, NewLeft
    <3> QED  BY <3>1, <3>2 DEF SpentInv
  <2> QED  BY <2>4, <2>5, <2>6, <2>7, <2>12
<1> QED  BY <1>0, <1>2, <1>3, Numbers

\* Every step of a request
LEMMA RequestKeepsInv ==
  ASSUME TypeOK, BurstInv, NEW r \in Requests,
         (\E c \in Clients : Begin(r, c)) \/ CallNext(r)
  PROVE  AgeInv' /\ OldInv' /\ YoungInv' /\ SweepInv' /\ SpentInv'
<1>1. ASSUME NEW c \in Clients, Begin(r, c)
      PROVE  AgeInv' /\ OldInv' /\ YoungInv' /\ SweepInv' /\ SpentInv'
  <2>1. OthersKeep(r) /\ call'[r].entry = None /\ call'[r].at \in {"idle", "load"}
    BY <1>1, CallEnds DEF Begin
  <2>2. UNCHANGED <<entryVars, sweep, history>>
    BY <1>1 DEF Begin, sweepVars
  <2> QED  BY <2>1, <2>2, CallOnly
<1>2. CASE Load(r)
  <2> DEFINE e == limiters[call[r].client]
  <2>1. e \in Entries \cup {None}
    BY <1>2 DEF Load, TypeOK, BurstInv, CallInv
  <2>2. PICK at \in {"store", "touch"} : call' = [call EXCEPT ![r].at = at, ![r].entry = e]
    BY <1>2 DEF Load
  <2>3. /\ OthersKeep(r) /\ call'[r].at = at /\ call'[r].entry = e
        /\ call'[r].client = call[r].client
    BY <2>1, <2>2, CallMoves
  <2>4. UNCHANGED <<entryVars, sweep, history>>
    BY <1>2 DEF Load, sweepVars
  <2> QED  BY <2>3, <2>4, CallOnly
<1> QED  BY <1>1, <1>2, StoreKeepsInv, TouchKeepsInv, AllowKeepsInv DEF CallNext

\* The sweep deletes only an entry that its client has not used in this burst,
\* and no second one as long as a request still holds the first.
LEMMA SweepKeepsInv ==
  ASSUME 2 * StepTicks <= Idle, TypeOK, BurstInv, SweepNext
  PROVE  AgeInv' /\ OldInv' /\ YoungInv' /\ SweepInv' /\ SpentInv'
<1>1. CASE ~SweepDelete
  <2>1. UNCHANGED <<limiters, tokens, age, call, granted, evicted>>
    BY <1>1 DEF SweepNext, SweepBegin, SweepVisit, SweepEnd, entryVars, history
  <2>2. \A r \in Requests : HoldsOld(r)' <=> HoldsOld(r)
    BY <2>1 DEF HoldsOld
  <2>3. AgeInv' /\ OldInv' /\ YoungInv'
    BY <2>1, <2>2 DEF BurstInv, AgeInv, OldInv, YoungInv
  <2>4. SpentInv'
    BY <2>1, <2>2 DEF BurstInv, SpentInv, Left
  <2>5. SweepInv'
    <3> SUFFICES ASSUME sweep'.at = "delete"
                 PROVE  sweep'.client \in Clients \ evicted /\ limiters[sweep'.client] # None
      BY <2>1 DEF SweepInv
    <3>1. PICK c \in Clients : IsIdle(c) /\ sweep'.client = c
      BY SweepMoves
    <3>2. limiters[c] \in Entries /\ limiters[c] # None /\ age[limiters[c]] > sweep.cut
      BY <3>1, Numbers DEF IsIdle
    <3>3. ~(age[limiters[c]] <= 2 * StepTicks)
      BY <3>2, Numbers
    <3> QED  BY <3>1, <3>2, <3>3 DEF BurstInv, YoungInv
  <2> QED  BY <2>3, <2>4, <2>5
<1>2. CASE SweepDelete
  <2> DEFINE c == sweep.client
             e == limiters[c]
  <2>1. c \in Clients /\ c \notin evicted /\ e # None /\ e \in Entries
    <3>1. c \in Clients /\ c \notin evicted /\ e # None
      BY <1>2 DEF SweepDelete, BurstInv, SweepInv
    <3> QED  BY <3>1, Numbers
  <2>2. /\ limiters'[c] = None /\ \A d \in Clients : d # c => limiters'[d] = limiters[d]
        /\ UNCHANGED <<tokens, age, call, granted>>
        /\ evicted' = evicted \/ evicted' = evicted \cup {c}
        /\ age[e] <= sweep.cut \/ e \in Held => c \in evicted'
        /\ sweep'.at = "range"
    <3>1. sweep'.at = "range"
      <4> DEFINE s == [sweep EXCEPT !.at = "range"]
      <4>1. sweep' = [s EXCEPT !.client = None]
        BY <1>2 DEF SweepDelete
      <4>2. s \in Sweeps /\ s.at = "range"
        BY DEF TypeOK, Sweeps
      <4> HIDE DEF s
      <4> QED  BY <4>1, <4>2 DEF Sweeps
    <3> QED  BY <1>2, <2>1, <3>1 DEF SweepDelete, TypeOK
  <2>3. \A r \in Requests : HoldsOld(r) => call[r].client # c
    BY <2>1 DEF BurstInv, OldInv
  <2>4. ASSUME NEW r \in Requests, HoldsOld(r)'
        PROVE  /\ call[r].client \in Clients /\ call[r].entry \in Entries
               /\ call[r].client = c => call[r].entry = e /\ c \in evicted'
               /\ call[r].client # c => HoldsOld(r)
    <3>1. call[r].entry # None /\ call[r].entry # limiters'[call[r].client]
      BY <2>2, <2>4 DEF HoldsOld
    <3>2. call[r].client \in Clients /\ call[r].entry \in Entries
      BY <3>1, Holder DEF BurstInv
    <3>3. CASE call[r].client = c
      <4>1. call[r].entry = e
        BY <2>3, <3>1, <3>3 DEF HoldsOld
      <4> QED  BY <2>2, <3>2, <3>3, <4>1 DEF Held
    <3>4. CASE call[r].client # c
      BY <2>2, <3>1, <3>2, <3>4 DEF HoldsOld
    <3> QED  BY <3>2, <3>3, <3>4
  <2>5. AgeInv'
    <3> SUFFICES ASSUME NEW r \in Requests, limiters'[call[r].client] # None,
                        call[r].at = "allow" \/ HoldsOld(r)'
                 PROVE  age[limiters'[call[r].client]] <= StepTicks + call[r].now
      BY <2>2 DEF AgeInv
    <3>1. call[r].client \in Clients
      BY <2>4 DEF BurstInv, CallInv
    <3>2. call[r].client # c /\ limiters'[call[r].client] = limiters[call[r].client]
      BY <2>2, <3>1
    <3> QED  BY <2>4, <3>2 DEF BurstInv, AgeInv
  <2>6. OldInv'
    <3>1. \A r \in Requests : HoldsOld(r)' => call'[r].client \in evicted'
      BY <2>2, <2>4 DEF BurstInv, OldInv
    <3>2. \A q, r \in Requests :
            HoldsOld(q)' /\ HoldsOld(r)' /\ call'[q].client = call'[r].client =>
              call'[q].entry = call'[r].entry
      BY <2>2, <2>4 DEF BurstInv, OldInv
    <3> QED  BY <3>1, <3>2 DEF OldInv
  <2>7. YoungInv' /\ SweepInv'
    <3>1. SweepInv'
      BY <2>2 DEF SweepInv
    <3> SUFFICES ASSUME NEW d \in Clients, granted[d] > 0 \/ d \in evicted', limiters'[d] # None
                 PROVE  age[limiters'[d]] <= 2 * StepTicks
      BY <2>2, <3>1 DEF YoungInv
    <3>2. d # c /\ limiters'[d] = limiters[d] /\ (granted[d] > 0 \/ d \in evicted)
      BY <2>2
    <3> QED  BY <3>2 DEF BurstInv, YoungInv
  <2>8. granted[c] + Left(c) <= Burst /\ granted[c] + Burst <= 2 * Burst
    <3>1. granted[c] + Left(c) <= Burst
      BY <2>1 DEF BurstInv, SpentInv
    <3> QED  BY <2>1, <3>1, Numbers
  <2>9. c \notin evicted' => granted[c] = 0
    <3>1. c \notin evicted' => age[e] > sweep.cut
      BY <2>1, <2>2, Numbers
    <3>2. granted[c] > 0 => age[e] <= 2 * StepTicks
      BY <2>1 DEF BurstInv, YoungInv
    <3> QED  BY <2>1, <3>1, <3>2, Numbers
  <2> DEFINE NewLeft(d) == IF limiters'[d] = None THEN Burst ELSE tokens[limiters'[d]]
  <2>10. NewLeft(c) = Burst /\ \A d \in Clients : d # c => NewLeft(d) = Left(d)
    BY <2>2 DEF Left
  <2>11. \A d \in Clients : granted[d] + NewLeft(d) <= IF d \in evicted' THEN 2 * Burst ELSE Burst
    <3> HIDE DEF NewLeft
    <3> SUFFICES ASSUME NEW d \in Clients
                 PROVE  granted[d] + NewLeft(d) <= IF d \in evicted' THEN 2 * Burst ELSE Burst
      OBVIOUS
    <3>1. CASE d = c
      BY <2>1, <2>8, <2>9, <2>10, <3>1, Numbers
    <3>2. CASE d # c
      <4>1. granted[d] + Left(d) <= IF d \in evicted THEN 2 * Burst ELSE Burst
        BY DEF BurstInv, SpentInv
      <4>2. d \in evicted' <=> d \in evicted
        BY <2>2, <3>2
      <4> QED  BY <2>10, <3>2, <4>1, <4>2
    <3> QED  BY <3>1, <3>2
  <2>12. ASSUME NEW r \in Requests, HoldsOld(r)'
         PROVE  granted[call[r].client] + tokens[call[r].entry] + NewLeft(call[r].client)
                  <= 2 * Burst
    <3> HIDE DEF NewLeft
    <3>1. CASE call[r].client = c
      <4>1. call[r].entry = e /\ tokens[e] = Left(c)
        BY <2>1, <2>4, <2>12, <3>1 DEF Left
      <4>2. granted[c] + tokens[e] + Burst <= 2 * Burst
        BY <2>1, <2>8, <4>1, Numbers
      <4> QED  BY <2>10, <3>1, <4>1, <4>2
    <3>2. CASE call[r].client # c
      <4>1. HoldsOld(r) /\ NewLeft(call[r].client) = Left(call[r].client)
        BY <2>4, <2>10, <2>12, <3>2
      <4> QED  BY <4>1 DEF BurstInv, SpentInv
    <3> QED  BY <3>1, <3>2
  <2>13. SpentInv'
    BY <2>2, <2>11, <2>12 DEF SpentInv, Left
  <2> QED  BY <2>5, <2>6, <2>7, <2>13
<1> QED  BY <1>1, <1>2

\* Time fills the buckets; it makes an entry no older than the requests that
\* know of it.
LEMMA TimeKeepsInv ==
  ASSUME TypeOK, BurstInv, TypeOK', Pause \/ Tick
  PROVE  AgeInv' /\ OldInv' /\ YoungInv' /\ SweepInv' /\ SpentInv'
<1>1. /\ Refill /\ limiters' = limiters
      /\ sweep'.at = sweep.at /\ sweep'.client = sweep.client
      /\ \A r \in Requests : /\ call'[r].at = call[r].at /\ call'[r].client = call[r].client
                             /\ call'[r].entry = call[r].entry
  BY TickMoves DEF Pause, Tick, sweepVars
<1>2. \A r \in Requests : HoldsOld(r)' <=> HoldsOld(r)
  BY <1>1 DEF HoldsOld
<1>3. /\ evicted' \subseteq evicted
      /\ \A r \in Requests : HoldsOld(r) => call[r].client \in evicted'
      /\ \A c \in evicted' : \E r \in Requests : HoldsOld(r) /\ call[r].client = c
  BY <1>1 DEF Refill, HoldsOld, BurstInv, OldInv
<1>4. AgeInv'
  <2> SUFFICES ASSUME NEW r \in Requests, limiters[call[r].client] # None,
                      call[r].at = "allow" \/ HoldsOld(r)
               PROVE  age'[limiters[call[r].client]] <= StepTicks + call'[r].now
    BY <1>1, <1>2 DEF AgeInv
  <2>1. call[r].client \in Clients /\ call[r].at # "idle"
    BY Holder DEF HoldsOld, BurstInv, CallInv
  <2> DEFINE e == limiters[call[r].client]
  <2>2. e \in Entries /\ age[e] \in Nat /\ call[r].now \in Nat
    BY <2>1, Numbers
  <2>3. age[e] <= StepTicks + call[r].now
    BY DEF BurstInv, AgeInv
  <2>4. CASE Pause
    BY <2>3, <2>4 DEF Pause
  <2>5. CASE Tick
    <3>1. age'[e] <= age[e] + 1 /\ age' \in [Entries -> 0..MaxAge]
      BY <2>2, <2>5, TickMoves
    <3>2. age'[e] \in Nat
      BY <2>2, <3>1
    <3>3. call'[r].now = call[r].now + 1
      BY <2>1, <2>5, TickMoves
    <3> HIDE DEF e
    <3>4. age'[e] <= StepTicks + call'[r].now
      BY <2>2, <2>3, <3>1, <3>2, <3>3
    <3> QED  BY <3>4 DEF e
  <2> QED  BY <2>4, <2>5
<1>5. OldInv'
  <2>1. \A r \in Requests : HoldsOld(r)' => call'[r].client \in evicted'
    BY <1>1, <1>2, <1>3
  <2>2. \A q, r \in Requests :
          HoldsOld(q)' /\ HoldsOld(r)' /\ call'[q].client = call'[r].client =>
            call'[q].entry = call'[r].entry
    BY <1>1, <1>2 DEF BurstInv, OldInv
  <2> QED  BY <2>1, <2>2 DEF OldInv
<1>6. YoungInv'
  <2>1. \A c \in Clients : granted'[c] = 0
    BY <1>1 DEF Refill
  <2> SUFFICES ASSUME NEW c \in Clients, c \in evicted', limiters[c] # None
               PROVE  age'[limiters[c]] <= 2 * StepTicks
    BY <1>1, <2>1 DEF YoungInv
  <2>2. PICK r \in Requests : HoldsOld(r) /\ call[r].client = c
    BY <1>3
  <2>3. age'[limiters[c]] <= StepTicks + call'[r].now
    BY <1>1, <1>2, <1>4, <2>2 DEF AgeInv
  <2>4. limiters[c] \in Entries
    BY Numbers
  <2>5. age'[limiters[c]] \in Nat /\ call'[r].now \in Nat /\ call'[r].now <= StepTicks
    <3>1. call'[r] \in Calls /\ age' \in [Entries -> 0..MaxAge]
      BY DEF TypeOK
    <3> QED  BY <2>4, <3>1 DEF Calls
  <2> QED  BY <2>3, <2>5
<1>7. SweepInv'
  BY <1>1, <1>3 DEF BurstInv, SweepInv
<1>8. SpentInv'
  <2>1. /\ \A c \in Clients : granted'[c] = 0
        /\ \A e \in Entries : tokens'[e] = Burst
    BY <1>1 DEF Refill
  <2>2. \A c \in Clients : Left(c)' = Burst
    BY <1>1, <2>1, Numbers DEF Left
  <2>3. \A c \in Clients : granted'[c] + Left(c)' <= IF c \in evicted' THEN 2 * Burst ELSE Burst
    BY <2>1, <2>2
  <2>4. ASSUME NEW r \in Requests, HoldsOld(r)'
        PROVE  granted'[call'[r].client] + tokens'[call'[r].entry] + Left(call[r].client)'
                 <= 2 * Burst
    <3>1. call[r].client \in Clients /\ call[r].entry \in Entries
      BY <1>2, <2>4, Holder DEF HoldsOld, BurstInv
    <3>2. \A c \in Clients : (IF limiters'[c] = None THEN Burst ELSE tokens'[limiters'[c]]) = Burst
      BY <2>2 DEF Left
    <3> DEFINE c == call[r].client
               e == call[r].entry
    <3>3. granted'[c] = 0 /\ tokens'[e] = Burst
          /\ (IF limiters'[c] = None THEN Burst ELSE tokens'[limiters'[c]]) = Burst
      BY <2>1, <3>1, <3>2
    <3>4. call'[r].client = c /\ call'[r].entry = e
      BY <1>1
    <3> HIDE DEF c, e
    <3> QED  BY <3>3, <3>4 DEF Left
  <2> QED  BY <2>3, <2>4 DEF SpentInv
<1> QED  BY <1>4, <1>5, <1>6, <1>7, <1>8

\* A client gets one burst at once, or two when cleanup has deleted an entry
\* that a request was using, and never a third: for any number of clients,
\* concurrent requests and tokens.  The hypothesis says that no request is
\* held up for longer than half of the time after which an entry counts as
\* idle (ten minutes in the code, so five); a slower one may find its client's
\* second entry deleted, too.
THEOREM OneBurstOrTwo == ASSUME 2 * StepTicks <= Idle PROVE Spec => []BurstBound
<1> DEFINE Inv == TypeOK /\ SweepClient /\ BurstInv
<1>1. Init => Inv
  <2> SUFFICES ASSUME Init PROVE BurstInv
    BY TypeInit
  <2>1. /\ TypeOK /\ CallInv
        /\ \A r \in Requests : call[r].at = "idle" /\ call[r].entry = None
        /\ sweep.at = "wait" /\ evicted = {}
        /\ \A c \in Clients : limiters[c] = None /\ granted[c] = 0
    BY TypeInit DEF Init, NoCall, NoSweep
  <2>2. \A r \in Requests : ~HoldsOld(r)
    BY <2>1 DEF HoldsOld
  <2>3. \A c \in Clients : granted[c] + Left(c) <= Burst
    BY <2>1 DEF Left
  <2>4. AgeInv /\ OldInv /\ YoungInv /\ SweepInv
    BY <2>1, <2>2 DEF AgeInv, OldInv, YoungInv, SweepInv
  <2>5. SpentInv
    BY <2>1, <2>2, <2>3 DEF SpentInv
  <2> QED  BY <2>1, <2>4, <2>5 DEF BurstInv
<1>2. Inv /\ [Next]_vars => Inv'
  <2> SUFFICES ASSUME Inv, [Next]_vars PROVE Inv'
    OBVIOUS
  <2>1. TypeOK' /\ CallInv' /\ SweepClient'
    BY TypeStep DEF BurstInv
  <2>2. AgeInv' /\ OldInv' /\ YoungInv' /\ SweepInv' /\ SpentInv'
    <3>1. CASE UNCHANGED vars
      BY <3>1 DEF vars, entryVars, sweepVars, history, BurstInv, AgeInv, OldInv, YoungInv,
         SweepInv, SpentInv, HoldsOld, Left
    <3> QED  BY <2>1, <3>1, RequestKeepsInv, SweepKeepsInv, TimeKeepsInv DEF Next
  <2> QED  BY <2>1, <2>2 DEF BurstInv
<1>3. Inv => BurstBound
  <2> SUFFICES ASSUME Inv, NEW c \in Clients
               PROVE  granted[c] <= IF c \in evicted THEN 2 * Burst ELSE Burst
    BY DEF BurstBound
  <2>1. granted[c] + Left(c) <= IF c \in evicted THEN 2 * Burst ELSE Burst
    BY DEF BurstInv, SpentInv
  <2> QED  BY <2>1, Numbers
<1> QED  BY <1>1, <1>2, <1>3, PTL DEF Spec
=============================================================================
