----------------------------- MODULE RateLimiter -----------------------------
(***************************************************************************)
(* The per-client rate limiter of the HTTP API (ratelimit.go): concurrent   *)
(* requests share one sync.Map of token buckets with the goroutine that    *)
(* forgets the clients that have been away for ten minutes.  Nothing is    *)
(* locked: every access to the map or to an entry is a step of its own.    *)
(*                                                                         *)
(* Time is relative.  A tick is the sweep's period of five minutes, lastSeen *)
(* and the cutoff are ages in ticks.  Between two ticks any number of short *)
(* pauses may pass, each long enough for a bucket to fill up again; what   *)
(* happens between two pauses happens within one burst.                    *)
(***************************************************************************)
EXTENDS Naturals, FiniteSets

CONSTANTS Clients, Requests,   \* values of the key; concurrent requests
          Entries,             \* the *clientEntry values there can be
          Burst,               \* burst
          Idle,                \* the age at the cutoff: 10 minutes in ticks
          StepTicks            \* bound: ticks a request or a sweep may last

None == "none"

ASSUME LimiterAssumption ==
  /\ Burst \in Nat \ {0} /\ Idle \in Nat \ {0} /\ StepTicks \in Nat
  /\ IsFiniteSet(Clients) /\ IsFiniteSet(Requests)
  /\ IsFiniteSet(Entries)
  /\ Cardinality(Entries) >= Cardinality(Clients) + Cardinality(Requests)
  /\ None \notin Clients \cup Entries

VARIABLES
  limiters,   \* the map from a client's key to its entry
  tokens,     \* what is left in each entry's bucket
  age,        \* how long ago each entry's lastSeen is, up to MaxAge
  call,       \* the getLimiter(key).Allow() of each request
  sweep,      \* the cleanup goroutine
  tick,       \* a tick waits in ticker.C
  granted,    \* history: requests of each client let through in this burst
  evicted     \* history: clients that lost an entry in use

entryVars == <<limiters, tokens, age>>
sweepVars == <<sweep, tick>>
history == <<granted, evicted>>
vars == <<entryVars, call, sweepVars, history>>

\* An age beyond every cutoff the sweep may be comparing with.
MaxAge == Idle + StepTicks + 1
Older(a) == IF a < MaxAge THEN a + 1 ELSE a

NoCall == [at |-> "idle", client |-> None, now |-> 0, entry |-> None]
Calls == [at : {"idle", "load", "store", "touch", "allow"},
          client : Clients \cup {None}, now : 0..StepTicks,
          entry : Entries \cup {None}]
Sweeps == [at : {"wait", "range", "delete"}, todo : SUBSET Clients,
           client : Clients \cup {None}, cut : Idle..MaxAge]
NoSweep == [at |-> "wait", todo |-> {}, client |-> None, cut |-> Idle]

TypeOK ==
  /\ limiters \in [Clients -> Entries \cup {None}]
  /\ tokens \in [Entries -> 0..Burst]
  /\ age \in [Entries -> 0..MaxAge]
  /\ call \in [Requests -> Calls]
  /\ sweep \in Sweeps
  /\ tick \in BOOLEAN
  /\ granted \in [Clients -> Nat]
  /\ evicted \in SUBSET Clients

Init ==
  /\ limiters = [c \in Clients |-> None]
  /\ tokens = [e \in Entries |-> Burst]
  /\ age = [e \in Entries |-> MaxAge]
  /\ call = [r \in Requests |-> NoCall]
  /\ sweep = NoSweep
  /\ tick = FALSE
  /\ granted = [c \in Clients |-> 0]
  /\ evicted = {}

-----------------------------------------------------------------------------
(***************************************************************************)
(* A request: getLimiter and Allow.                                        *)
(***************************************************************************)
Held == {call[r].entry : r \in Requests}
Unused == {e \in Entries \ Held : \A c \in Clients : limiters[c] # e}

\* now := time.Now(), for the key of the request's client
Begin(r, c) ==
  /\ call[r].at = "idle"
  /\ call' = [call EXCEPT ![r] = [NoCall EXCEPT !.at = "load", !.client = c]]
  /\ UNCHANGED <<entryVars, sweepVars, history>>

Load(r) ==
  LET e == limiters[call[r].client] IN
  /\ call[r].at = "load"
  /\ call' = [call EXCEPT ![r].at = IF e = None THEN "store" ELSE "touch",
                          ![r].entry = e]
  /\ UNCHANGED <<entryVars, sweepVars, history>>

\* Mutant: Store instead of LoadOrStore, the last of two newcomers wins.
StoreNew(r) ==
  LET new == CHOOSE e \in Unused : TRUE IN
  /\ call[r].at = "store"
  /\ limiters' = [limiters EXCEPT ![call[r].client] = new]
  /\ tokens' = [tokens EXCEPT ![new] = Burst]
  /\ age' = [age EXCEPT ![new] = call[r].now]
  /\ call' = [call EXCEPT ![r].at = "touch", ![r].entry = new]
  /\ UNCHANGED <<sweepVars, history>>

\* A new entry, unless another request has stored one in the meantime.
LoadOrStore(r) ==
  LET c == call[r].client
      new == CHOOSE e \in Unused : TRUE
  IN
  /\ call[r].at = "store"
  /\ \/ /\ limiters[c] # None
        /\ call' = [call EXCEPT ![r].at = "touch", ![r].entry = limiters[c]]
        /\ UNCHANGED entryVars
     \/ /\ limiters[c] = None
        /\ limiters' = [limiters EXCEPT ![c] = new]
        /\ tokens' = [tokens EXCEPT ![new] = Burst]
        /\ age' = [age EXCEPT ![new] = call[r].now]
        /\ call' = [call EXCEPT ![r].at = "touch", ![r].entry = new]
  /\ UNCHANGED <<sweepVars, history>>

\* entry.lastSeen.Store(now): now was read when the call began, so a slow
\* request sets lastSeen back.
Touch(r) ==
  /\ call[r].at = "touch"
  /\ age' = [age EXCEPT ![call[r].entry] = call[r].now]
  /\ call' = [call EXCEPT ![r].at = "allow"]
  /\ UNCHANGED <<limiters, tokens, sweepVars, history>>

\* Mutant: the bucket is taken from without looking into it.
AllowUnchecked(r) ==
  LET e == call[r].entry IN
  /\ call[r].at = "allow"
  /\ tokens' = [tokens EXCEPT ![e] = @ - 1]
  /\ granted' = [granted EXCEPT ![call[r].client] = @ + 1]
  /\ call' = [call EXCEPT ![r] = NoCall]
  /\ UNCHANGED <<limiters, age, sweepVars, evicted>>

\* Allow: c.Next(), or status 429
Allow(r) ==
  LET e == call[r].entry IN
  /\ call[r].at = "allow"
  /\ \/ /\ tokens[e] > 0
        /\ tokens' = [tokens EXCEPT ![e] = @ - 1]
        /\ granted' = [granted EXCEPT ![call[r].client] = @ + 1]
     \/ /\ tokens[e] = 0
        /\ UNCHANGED <<tokens, granted>>
  /\ call' = [call EXCEPT ![r] = NoCall]
  /\ UNCHANGED <<limiters, age, sweepVars, evicted>>

-----------------------------------------------------------------------------
(***************************************************************************)
(* cleanup.                                                                *)
(***************************************************************************)
\* A tick is received; the cutoff is fixed.
SweepBegin ==
  /\ sweep.at = "wait" /\ tick
  /\ tick' = FALSE
  /\ sweep' = [NoSweep EXCEPT !.at = "range", !.todo = Clients]
  /\ UNCHANGED <<entryVars, call, history>>

\* Mutant: the cutoff in seconds, lastSeen in nanoseconds: none is below it.
IsIdleWrongUnit(c) == limiters[c] # None /\ age[limiters[c]] > MaxAge

\* lastSeen.Load() < cutoff
IsIdle(c) == limiters[c] # None /\ age[limiters[c]] > sweep.cut

\* Range visits every key at most once, in any order; a key that is stored
\* while it runs is visited or not.
SweepVisit(c) ==
  /\ sweep.at = "range" /\ c \in sweep.todo
  /\ sweep' = [sweep EXCEPT !.at = IF IsIdle(c) THEN "delete" ELSE "range",
                            !.client = IF IsIdle(c) THEN c ELSE None,
                            !.todo = @ \ {c}]
  /\ UNCHANGED <<entryVars, call, tick, history>>

\* Delete(key), whatever happened to the entry since it was visited.
\* evicted remembers a client whose entry was refreshed or is being used.
SweepDelete ==
  LET c == sweep.client
      e == limiters[c]
      inUse == age[e] <= sweep.cut \/ e \in Held
  IN
  /\ sweep.at = "delete"
  /\ limiters' = [limiters EXCEPT ![c] = None]
  /\ evicted' = IF inUse THEN evicted \cup {c} ELSE evicted
  /\ sweep' = [sweep EXCEPT !.at = "range", !.client = None]
  /\ UNCHANGED <<tokens, age, call, tick, granted>>

SweepEnd ==
  /\ sweep.at = "range" /\ sweep.todo = {}
  /\ sweep' = NoSweep
  /\ UNCHANGED <<entryVars, call, tick, history>>

-----------------------------------------------------------------------------
(***************************************************************************)
(* Time.                                                                   *)
(***************************************************************************)
\* The buckets fill up and a new burst begins.  A client whose entry was lost
\* while in use keeps the second bucket as long as a request holds it.
Refill ==
  /\ tokens' = [e \in Entries |-> Burst]
  /\ granted' = [c \in Clients |-> 0]
  /\ evicted' = {c \in evicted : \E r \in Requests :
                   /\ call[r].client = c /\ call[r].entry # None
                   /\ call[r].entry # limiters[c]}

Pause ==
  /\ Refill
  /\ UNCHANGED <<limiters, age, call, sweepVars>>

\* Five minutes pass.  No request and no sweep is held up for more than
\* StepTicks of them.
Tick ==
  /\ sweep.cut < Idle + StepTicks
  /\ \A r \in Requests : call[r].now < StepTicks
  /\ Refill
  /\ age' = [e \in Entries |-> Older(age[e])]
  /\ call' = [r \in Requests |->
                IF call[r].at = "idle" THEN call[r]
                ELSE [call[r] EXCEPT !.now = @ + 1]]
  /\ sweep' = IF sweep.at = "wait" THEN sweep ELSE [sweep EXCEPT !.cut = @ + 1]
  /\ tick' = TRUE
  /\ UNCHANGED limiters

-----------------------------------------------------------------------------
CallNext(r) == Load(r) \/ LoadOrStore(r) \/ Touch(r) \/ Allow(r)
SweepNext == SweepBegin \/ (\E c \in Clients : SweepVisit(c)) \/ SweepDelete \/ SweepEnd

Next ==
  \/ \E r \in Requests : (\E c \in Clients : Begin(r, c)) \/ CallNext(r)
  \/ SweepNext
  \/ Pause
  \/ Tick

Spec == Init /\ [][Next]_vars

\* Time passes, the goroutines are scheduled; no request need ever come.
FairSpec ==
  /\ Spec
  /\ WF_vars(Tick) /\ WF_vars(SweepNext)
  /\ \A r \in Requests : WF_vars(CallNext(r))

-----------------------------------------------------------------------------
\* A client gets no more than one burst at once, however many of its requests
\* arrive together, except when cleanup has just deleted an entry that was
\* refreshed after it looked at lastSeen: then it gets one more, and no third
\* as long as no request is held up for more than half of the idle time.
BurstBound ==
  \A c \in Clients :
    granted[c] <= IF c \in evicted THEN 2 * Burst ELSE Burst

\* A client that stays away is forgotten, also when a slow request set its
\* lastSeen back or stored a new entry behind the sweep: the map does not
\* grow with every key ever seen.
IdleForgotten ==
  \A c \in Clients :
    <>[](\A r \in Requests : call[r].client # c) => <>[](limiters[c] = None)
-----------------------------------------------------------------------------
(***************************************************************************)
(* The inductive invariant behind BurstBound, when no request is held up   *)
(* for more than half of the idle time.                                    *)
(***************************************************************************)
CallInv ==
  \A r \in Requests :
    /\ call[r].at # "idle" => call[r].client \in Clients
    /\ call[r].entry # None <=> call[r].at \in {"touch", "allow"}

\* The request still uses an entry that is not its client's any more.
HoldsOld(r) == call[r].entry # None /\ call[r].entry # limiters[call[r].client]

\* Who has been through Touch, or holds an old entry, knows that the entry in
\* the map was touched or stored since it began.
AgeInv ==
  \A r \in Requests :
    LET e == limiters[call[r].client] IN
      (call[r].at = "allow" \/ HoldsOld(r)) /\ e # None => age[e] <= StepTicks + call[r].now

\* A client has an old entry only after it lost one in use, and only one.
OldInv ==
  /\ \A r \in Requests : HoldsOld(r) => call[r].client \in evicted
  /\ \A q, r \in Requests :
       HoldsOld(q) /\ HoldsOld(r) /\ call[q].client = call[r].client =>
         call[q].entry = call[r].entry

\* An entry that was used in this burst is too young for the sweep to find.
YoungInv ==
  \A c \in Clients : (granted[c] > 0 \/ c \in evicted) /\ limiters[c] # None =>
    age[limiters[c]] <= 2 * StepTicks

\* The entry the sweep is about to delete is the client's only one.
SweepInv ==
  sweep.at = "delete" =>
    sweep.client \in Clients \ evicted /\ limiters[sweep.client] # None

\* What the entry in the map still has to give
Left(c) == IF limiters[c] = None THEN Burst ELSE tokens[limiters[c]]

\* What was granted came out of one bucket, or of two.
SpentInv ==
  /\ \A c \in Clients : granted[c] + Left(c) <= IF c \in evicted THEN 2 * Burst ELSE Burst
  /\ \A r \in Requests : HoldsOld(r) =>
       granted[call[r].client] + tokens[call[r].entry] + Left(call[r].client) <= 2 * Burst

BurstInv == CallInv /\ AgeInv /\ OldInv /\ YoungInv /\ SweepInv /\ SpentInv
=============================================================================
