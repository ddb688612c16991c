--------------------------- MODULE WordAppService ---------------------------
(***************************************************************************)
(* Word management and the fingerprint-driven hot update                   *)
(* (internal/application/service/word_app_service.go).                     *)
(*                                                                         *)
(* Request handlers write the shared table: Create, Update, Delete and     *)
(* Import, each one repository call per step, so that handlers of any      *)
(* instance interleave between the read and the write of a handler.  gorm  *)
(* stamps updated_at with the application's clock BEFORE the statement     *)
(* commits (Stamp, then ...Exec): writes may overlap, commit in another    *)
(* order than their stamps', and share a stamp.  All processes read one    *)
(* clock, which never goes back.  The handlers end by invalidating the     *)
(* cache prefix "words:", under which nothing is ever stored: that call    *)
(* matters to the circuit breaker only (CircuitBreaker.tla).               *)
(*                                                                         *)
(* Every instance loads the table at start-up (InitEngine) and then runs   *)
(* one pollLoop goroutine: fingerprint, compare with lastFingerprint, load *)
(* with retries, rebuild, remember the fingerprint taken before the load.  *)
(*                                                                         *)
(* base, cand, standing, candStanding and trusted are history variables:   *)
(* only the properties read them.                                          *)
(***************************************************************************)
EXTENDS WordRepo

CONSTANTS Instances,     \* processes running the service
          Handlers,      \* management requests that can be in flight at once
          InitialRows,   \* the table at first
          MaxAttempts,   \* pollConfig.maxAttempts
          RequestLimit,  \* bound: management requests
          ClockLimit     \* bound: ticks of the clock

ASSUME ConstantsAssumption ==
  /\ InitialRows \in SUBSET Rows /\ IsFiniteSet(InitialRows)
  /\ MaxAttempts \in Nat \ {0}
  /\ RequestLimit \in Nat /\ ClockLimit \in Nat

VARIABLES
  table,      \* rows of sensitive_words
  nextId,     \* the AUTO_INCREMENT counter
  clock,      \* the clock, in units of updated_at's precision
  req,        \* the request each handler executes
  requests,   \* how many requests were received
  pc,         \* where each process is
  stop,       \* has the process's context been cancelled?
  engine,     \* the entries the current automaton was built from
  loaded,     \* rows returned by the latest FindAllActive
  lastFp,     \* lastFingerprint
  fpBefore,   \* reconcileOnce's local
  attempt,    \* rebuildWithRetry's loop counter
  base,       \* history: settled active rows when lastFp was taken
  cand,       \* history: settled active rows when fpBefore was taken
  standing,   \* history: the standing of the active rows at lastFp
  candStanding, \* history: the same at fpBefore
  trusted     \* history: was the engine loaded no earlier than lastFp?

dbVars == <<table, nextId, clock, req, requests>>
loopVars == <<pc, stop, engine, loaded, lastFp, fpBefore, attempt>>
histVars == <<base, cand, standing, candStanding, trusted>>
vars == <<table, nextId, clock, req, requests, pc, stop, engine, loaded, lastFp,
          fpBefore, attempt, base, cand, standing, candStanding, trusted>>

Active == ActiveRows(table)

Idle == [op |-> "none", at |-> "idle", drafts |-> {}, upd |-> 0]

Ops == {"none", "create", "import", "update", "delete"}
Points == {"idle", "prepared", "stamped", "upsert"}
Requests == [op : Ops, at : Points, drafts : SUBSET Drafts, upd : Nat]

PCs == {"down", "initLoad", "initFp", "wait", "fingerprint", "load",
        "backoff", "rebuild", "invalidate", "exited"}

\* Program points inside pollLoop, before it returns.
Polling == {"wait", "fingerprint", "load", "backoff", "rebuild", "invalidate"}

Standings == {"settled", "overlapped", "tied"}

TypeOK ==
  /\ table \in SUBSET Rows /\ IsFiniteSet(table)
  /\ nextId \in Nat /\ clock \in Nat /\ requests \in Nat
  /\ req \in [Handlers -> Requests]
  /\ \A h \in Handlers : IsFiniteSet(req[h].drafts)
  /\ pc \in [Instances -> PCs]
  /\ stop \in [Instances -> BOOLEAN]
  /\ engine \in [Instances -> SUBSET [text : Texts, meta : Metas]]
  /\ loaded \in [Instances -> SUBSET Rows]
  /\ lastFp \in [Instances -> Fingerprints]
  /\ fpBefore \in [Instances -> Fingerprints]
  /\ attempt \in [Instances -> 0..MaxAttempts]
  /\ base \in [Instances -> SUBSET Rows]
  /\ cand \in [Instances -> SUBSET Rows]
  /\ standing \in [Instances -> Standings]
  /\ candStanding \in [Instances -> Standings]
  /\ trusted \in [Instances -> BOOLEAN]

Init ==
  /\ table = InitialRows /\ nextId = MaxOf({r.id : r \in InitialRows}) + 1
  /\ clock = MaxOf({r.upd : r \in InitialRows}) + 1 /\ requests = 0
  /\ req = [h \in Handlers |-> Idle]
  /\ pc = [i \in Instances |-> "down"]
  /\ stop = [i \in Instances |-> FALSE]
  /\ engine = [i \in Instances |-> {}]
  /\ loaded = [i \in Instances |-> {}]
  /\ lastFp = [i \in Instances |-> ZeroFingerprint]
  /\ fpBefore = [i \in Instances |-> ZeroFingerprint]
  /\ attempt = [i \in Instances |-> 0]
  /\ base = [i \in Instances |-> {}]
  /\ cand = [i \in Instances |-> {}]
  /\ standing = [i \in Instances |-> "settled"]
  /\ candStanding = [i \in Instances |-> "settled"]
  /\ trusted = [i \in Instances |-> TRUE]

-----------------------------------------------------------------------------
(***************************************************************************)
(* The management handlers.                                                *)
(***************************************************************************)
At(h, point, op) == req[h].at = point /\ req[h].op = op

Prepare(h, op, drafts) ==
  /\ req[h].at = "idle" /\ requests < RequestLimit
  /\ requests' = requests + 1
  /\ req' = [req EXCEPT ![h] = [op |-> op, at |-> "prepared",
                                drafts |-> drafts, upd |-> 0]]
  /\ UNCHANGED <<table, nextId, clock, loopVars, histVars>>

\* The handler answers, with or without an error.
Done(h) == req' = [req EXCEPT ![h] = Idle]

\* Create: FindByText must not find the word; a failing lookup is ignored.
CreateFind(h, t, m) ==
  /\ \E lookupFails \in BOOLEAN : lookupFails \/ ~HasText(table, t)
  /\ Prepare(h, "create", {NewDraft(t, m)})

\* Import: the valid words of the request.  A text that occurs twice counts
\* once, the later one is a duplicate to the database.
ImportBegin(h, words) ==
  /\ words # {}
  /\ \A v, w \in words : v.text = w.text => v = w
  /\ Prepare(h, "import", words)

\* Update: FindByID, then the fields of the request overwrite the entity's.
UpdateFind(h, r, t, m, s) ==
  /\ r \in table
  /\ Prepare(h, "update", {[id |-> r.id, text |-> t, meta |-> m, status |-> s]})

\* Delete: FindByID must find the row.
DeleteFind(h, r) ==
  /\ r \in table
  /\ Prepare(h, "delete", {[id |-> r.id, text |-> r.text, meta |-> r.meta,
                            status |-> r.status]})

\* A write holds a timestamp that is not yet committed.
Stamped(h) == req[h].at \in {"stamped", "upsert"}

\* NowFunc: updated_at is read from the clock before the statement runs.
Stamp(h) ==
  /\ req[h].at = "prepared" /\ req[h].op # "delete"
  /\ req' = [req EXCEPT ![h].at = "stamped", ![h].upd = clock]
  /\ UNCHANGED <<table, nextId, clock, requests, loopVars, histVars>>

\* Time passes; any number of stamps is taken between two ticks.
Tick ==
  /\ clock < ClockLimit
  /\ clock' = clock + 1
  /\ UNCHANGED <<table, nextId, req, requests, loopVars, histVars>>

\* Ids for the drafts of D, out of the next Cardinality(D) ones.
IdsFor(D) == {f \in [D -> nextId..(nextId + Cardinality(D) - 1)] :
                \A d, e \in D : f[d] = f[e] => d = e}

\* The INSERT of Create and of Import.  A text that is taken is refused by
\* Create's (error) and skipped by Import's (ON CONFLICT DO NOTHING); both
\* consume the ids.
InsertExec(h) ==
  /\ req[h].at = "stamped" /\ req[h].op \in {"create", "import"}
  /\ \E ids \in IdsFor(req[h].drafts) :
       table' = Insert(table, {d \in req[h].drafts : ~HasText(table, d.text)},
                       ids, req[h].upd)
  /\ nextId' = nextId + Cardinality(req[h].drafts)
  /\ Done(h)
  /\ UNCHANGED <<clock, requests, loopVars, histVars>>

\* Save's UPDATE: overwrites the row, refuses a text that another row has,
\* and when the row is gone goes on to the upsert.
SaveExec(h) ==
  /\ At(h, "stamped", "update")
  /\ \E d \in req[h].drafts :
       IF HasID(table, d.id)
       THEN /\ table' = IF TextClash(table, d.id, d.text) THEN table
                        ELSE Overwrite(table, d, req[h].upd)
            /\ Done(h)
       ELSE /\ req' = [req EXCEPT ![h].at = "upsert"]
            /\ UNCHANGED table
  /\ UNCHANGED <<nextId, clock, requests, loopVars, histVars>>

\* Save's INSERT ... ON DUPLICATE KEY UPDATE
UpsertExec(h) ==
  /\ At(h, "upsert", "update")
  /\ \E d \in req[h].drafts :
       table' = IF HasID(table, d.id) /\ TextClash(table, d.id, d.text)
                THEN table
                ELSE Upsert(table, d, req[h].upd)
  /\ Done(h)
  /\ UNCHANGED <<nextId, clock, requests, loopVars, histVars>>

DeleteExec(h) ==
  /\ At(h, "prepared", "delete")
  /\ \E d \in req[h].drafts : table' = DeleteByID(table, d.id)
  /\ Done(h)
  /\ UNCHANGED <<nextId, clock, requests, loopVars, histVars>>

\* A repository call fails, or the handler's process dies: nothing is written.
RequestError(h) ==
  /\ req[h].at # "idle"
  /\ Done(h)
  /\ UNCHANGED <<table, nextId, clock, requests, loopVars, histVars>>

-----------------------------------------------------------------------------
(***************************************************************************)
(* History: what can still be written with which stamp when a fingerprint  *)
(* is taken of the active rows A.                                          *)
(***************************************************************************)
\* Every write to come commits with a later stamp than those of A.
Settled(A) ==
  \A a \in A : /\ a.upd < clock
               /\ \A h \in Handlers : Stamped(h) => a.upd < req[h].upd

\* A write to come may carry the stamp of a row of A.
Tied(A) ==
  \E a \in A : \/ a.upd = clock
               \/ \E h \in Handlers : Stamped(h) /\ a.upd = req[h].upd

\* "overlapped": a handler still holds a stamp older than one of A.
Standing(A) ==
  IF Settled(A) THEN "settled" ELSE IF Tied(A) THEN "tied" ELSE "overlapped"

Remembered(A) == IF Settled(A) THEN A ELSE {}

-----------------------------------------------------------------------------
(***************************************************************************)
(* Start-up: InitEngine, then Start spawns pollLoop.                       *)
(***************************************************************************)
Goto(i, point) == pc' = [pc EXCEPT ![i] = point]

\* reconcileOnce returns: its locals, and those of the calls it made, are gone.
Return(i, point) ==
  /\ Goto(i, point)
  /\ loaded' = [loaded EXCEPT ![i] = {}]
  /\ fpBefore' = [fpBefore EXCEPT ![i] = ZeroFingerprint]
  /\ attempt' = [attempt EXCEPT ![i] = 0]
  /\ cand' = [cand EXCEPT ![i] = {}]
  /\ candStanding' = [candStanding EXCEPT ![i] = "settled"]

StartProcess(i) ==
  /\ pc[i] = "down"
  /\ Goto(i, "initLoad")
  /\ UNCHANGED <<dbVars, stop, engine, loaded, lastFp, fpBefore, attempt, histVars>>

\* FindAllActive and Rebuild
InitLoad(i) ==
  /\ pc[i] = "initLoad"
  /\ loaded' = [loaded EXCEPT ![i] = Active]
  /\ engine' = [engine EXCEPT ![i] = Entries(Active)]
  /\ Goto(i, "initFp")
  /\ UNCHANGED <<dbVars, stop, lastFp, fpBefore, attempt, histVars>>

\* The baseline; a failing query leaves the zero fingerprint.
InitFingerprint(i) ==
  /\ pc[i] = "initFp"
  /\ lastFp' = [lastFp EXCEPT ![i] = Fingerprint(Active)]
  /\ base' = [base EXCEPT ![i] = Remembered(Active)]
  /\ standing' = [standing EXCEPT ![i] = Standing(Active)]
  /\ trusted' = [trusted EXCEPT ![i] = (loaded[i] = Active)]
  /\ Return(i, "wait")
  /\ UNCHANGED <<dbVars, stop, engine>>

InitFingerprintError(i) ==
  /\ pc[i] = "initFp"
  /\ Return(i, "wait")
  /\ UNCHANGED <<dbVars, stop, engine, lastFp, base, standing, trusted>>

-----------------------------------------------------------------------------
(***************************************************************************)
(* pollLoop, reconcileOnce and rebuildWithRetry.                           *)
(***************************************************************************)
\* time.After fires in pollLoop's select
PollTick(i) ==
  /\ pc[i] = "wait"
  /\ Goto(i, "fingerprint")
  /\ UNCHANGED <<dbVars, stop, engine, loaded, lastFp, fpBefore, attempt, histVars>>

\* ActiveFingerprint: on a change, keep it in fpBefore and rebuild.
FingerprintOk(i) ==
  /\ pc[i] = "fingerprint"
  /\ IF Fingerprint(Active) = lastFp[i]
     THEN /\ Goto(i, "wait")
          /\ UNCHANGED <<fpBefore, attempt, cand, candStanding>>
     ELSE /\ Goto(i, "load")
          /\ fpBefore' = [fpBefore EXCEPT ![i] = Fingerprint(Active)]
          /\ attempt' = [attempt EXCEPT ![i] = 1]
          /\ cand' = [cand EXCEPT ![i] = Remembered(Active)]
          /\ candStanding' = [candStanding EXCEPT ![i] = Standing(Active)]
  /\ UNCHANGED <<dbVars, stop, engine, loaded, lastFp, base, standing, trusted>>

FingerprintError(i) ==
  /\ pc[i] = "fingerprint"
  /\ Goto(i, "wait")
  /\ UNCHANGED <<dbVars, stop, engine, loaded, lastFp, fpBefore, attempt, histVars>>

\* FindAllActive
LoadOk(i) ==
  /\ pc[i] = "load"
  /\ loaded' = [loaded EXCEPT ![i] = Active]
  /\ Goto(i, "rebuild")
  /\ UNCHANGED <<dbVars, stop, engine, lastFp, fpBefore, attempt, histVars>>

\* Mutant: the loop bound is off by one.
LoadErrorOffByOne(i) ==
  /\ pc[i] = "load"
  /\ IF attempt[i] > MaxAttempts
     THEN Return(i, "wait")
     ELSE Goto(i, "backoff") /\ UNCHANGED <<loaded, fpBefore, attempt, cand, candStanding>>
  /\ UNCHANGED <<dbVars, stop, engine, lastFp, base, standing, trusted>>

\* Mutant: the error of the last attempt is swallowed, so reconcileOnce goes
\* on to record the fingerprint.
LoadErrorSwallowed(i) ==
  /\ pc[i] = "load"
  /\ IF attempt[i] = MaxAttempts
     THEN /\ Return(i, "wait")
          /\ lastFp' = [lastFp EXCEPT ![i] = fpBefore[i]]
          /\ base' = [base EXCEPT ![i] = cand[i]]
          /\ standing' = [standing EXCEPT ![i] = candStanding[i]]
     ELSE /\ Goto(i, "backoff")
          /\ UNCHANGED <<loaded, fpBefore, attempt, lastFp, base, cand, standing, candStanding>>
  /\ UNCHANGED <<dbVars, stop, engine, trusted>>

LoadError(i) ==
  /\ pc[i] = "load"
  /\ IF attempt[i] = MaxAttempts
     THEN Return(i, "wait")
     ELSE Goto(i, "backoff") /\ UNCHANGED <<loaded, fpBefore, attempt, cand, candStanding>>
  /\ UNCHANGED <<dbVars, stop, engine, lastFp, base, standing, trusted>>

\* The backoff timer fires.
Retry(i) ==
  /\ pc[i] = "backoff"
  /\ attempt' = [attempt EXCEPT ![i] = @ + 1]
  /\ Goto(i, "load")
  /\ UNCHANGED <<dbVars, stop, engine, loaded, lastFp, fpBefore, histVars>>

\* ctx.Done() in the backoff: queryTimeout has passed or Close was called.
GiveUp(i) ==
  /\ pc[i] = "backoff"
  /\ Return(i, "wait")
  /\ UNCHANGED <<dbVars, stop, engine, lastFp, base, standing, trusted>>

\* Mutant: the fingerprint is taken again after the rebuild.
RebuildFingerprintAfter(i) ==
  /\ pc[i] = "rebuild"
  /\ engine' = [engine EXCEPT ![i] = Entries(loaded[i])]
  /\ lastFp' = [lastFp EXCEPT ![i] = Fingerprint(Active)]
  /\ base' = [base EXCEPT ![i] = Remembered(Active)]
  /\ standing' = [standing EXCEPT ![i] = Standing(Active)]
  /\ trusted' = [trusted EXCEPT ![i] = TRUE]
  /\ Return(i, "invalidate")
  /\ UNCHANGED <<dbVars, stop>>

\* engine.Rebuild (it never fails), then lastFingerprint = fpBefore
Rebuild(i) ==
  /\ pc[i] = "rebuild"
  /\ engine' = [engine EXCEPT ![i] = Entries(loaded[i])]
  /\ lastFp' = [lastFp EXCEPT ![i] = fpBefore[i]]
  /\ base' = [base EXCEPT ![i] = cand[i]]
  /\ standing' = [standing EXCEPT ![i] = candStanding[i]]
  /\ trusted' = [trusted EXCEPT ![i] = TRUE]
  /\ Return(i, "invalidate")
  /\ UNCHANGED <<dbVars, stop>>

\* invalidatePrefix("filter:") returns; its errors are only logged.
InvalidateDone(i) ==
  /\ pc[i] = "invalidate"
  /\ Goto(i, "wait")
  /\ UNCHANGED <<dbVars, stop, engine, loaded, lastFp, fpBefore, attempt, histVars>>

-----------------------------------------------------------------------------
(***************************************************************************)
(* Shutdown and crash.                                                     *)
(***************************************************************************)
\* main cancels the context; Close does so as well.
Close(i) ==
  /\ pc[i] \in Polling /\ ~stop[i]
  /\ stop' = [stop EXCEPT ![i] = TRUE]
  /\ UNCHANGED <<dbVars, pc, engine, loaded, lastFp, fpBefore, attempt, histVars>>

\* Mutant: only the initial delay selects on ctx.Done().
PollExitFirstWaitOnly(i) ==
  /\ pc[i] = "wait" /\ stop[i] /\ lastFp[i] = ZeroFingerprint
  /\ Goto(i, "exited")
  /\ UNCHANGED <<dbVars, stop, engine, loaded, lastFp, fpBefore, attempt, histVars>>

\* pollLoop's select sees ctx.Done()
PollExit(i) ==
  /\ pc[i] = "wait" /\ stop[i]
  /\ Goto(i, "exited")
  /\ UNCHANGED <<dbVars, stop, engine, loaded, lastFp, fpBefore, attempt, histVars>>

\* The process ends: a crash, log.Fatal after a failed InitEngine, or main
\* returning.  Nothing of its state is persisted.
ProcessEnd(i) ==
  /\ pc[i] # "down"
  /\ Return(i, "down")
  /\ stop' = [stop EXCEPT ![i] = FALSE]
  /\ engine' = [engine EXCEPT ![i] = {}]
  /\ lastFp' = [lastFp EXCEPT ![i] = ZeroFingerprint]
  /\ base' = [base EXCEPT ![i] = {}]
  /\ standing' = [standing EXCEPT ![i] = "settled"]
  /\ trusted' = [trusted EXCEPT ![i] = TRUE]
  /\ UNCHANGED dbVars

-----------------------------------------------------------------------------
HandlerNext(h) ==
  \/ \E t \in Texts, m \in Metas : CreateFind(h, t, m)
  \/ \E words \in SUBSET {NewDraft(t, m) : t \in Texts, m \in Metas} :
       ImportBegin(h, words)
  \/ \E r \in table, t \in Texts, m \in Metas,
        s \in {WordStatusInactive, WordStatusActive} : UpdateFind(h, r, t, m, s)
  \/ \E r \in table : DeleteFind(h, r)
  \/ Stamp(h)
  \/ InsertExec(h)
  \/ SaveExec(h)
  \/ UpsertExec(h)
  \/ DeleteExec(h)
  \/ RequestError(h)

ProcessNext(i) ==
  \/ StartProcess(i)
  \/ InitLoad(i)
  \/ InitFingerprint(i)
  \/ InitFingerprintError(i)
  \/ PollTick(i)
  \/ FingerprintOk(i)
  \/ FingerprintError(i)
  \/ LoadOk(i)
  \/ LoadError(i)
  \/ Retry(i)
  \/ GiveUp(i)
  \/ Rebuild(i)
  \/ InvalidateDone(i)
  \/ Close(i)
  \/ PollExit(i)
  \/ ProcessEnd(i)

Next ==
  \/ \E h \in Handlers : HandlerNext(h)
  \/ \E i \in Instances : ProcessNext(i)
  \/ Tick

Spec == Init /\ [][Next]_vars

(***************************************************************************)
(* Fairness.  The goroutine runs and its timers fire (WF); the database    *)
(* answers again and again (SF on the successful queries); select does not *)
(* ignore a closed channel forever (SF on PollExit).  Nothing is assumed   *)
(* of the request handlers.                                                *)
(***************************************************************************)
Fairness ==
  \A i \in Instances :
    /\ WF_vars(PollTick(i) \/ Retry(i) \/ Rebuild(i) \/ InvalidateDone(i)
               \/ FingerprintError(i) \/ LoadError(i))
    /\ SF_vars(FingerprintOk(i))
    /\ SF_vars(LoadOk(i))
    /\ SF_vars(PollExit(i))

FairSpec == Spec /\ Fairness

-----------------------------------------------------------------------------
(***************************************************************************)
(* Properties.                                                             *)
(***************************************************************************)
\* The next tick finds nothing to do.
Skips(i) == lastFp[i] = Fingerprint(Active)

Covered(i) == Entries(Active) \subseteq engine[i]

\* What the triple shows, for any overlap of writers and any equal stamps: if
\* the rows that the remembered fingerprint counted were settled, an equal
\* fingerprint means that the active rows are exactly those.
SettledFingerprintSound ==
  \A i \in Instances : standing[i] = "settled" /\ Skips(i) => base[i] = Active

\* reconcileOnce's key invariant: lastFingerprint never leads the engine.  A
\* tick that skips misses no active word: the engine has every one of them,
\* if the baseline was settled, whatever was written during the rebuild.
\* (trusted is false only after a write between InitEngine's two queries.)
NoMissedWord ==
  \A i \in Instances :
    trusted[i] /\ standing[i] = "settled" /\ Skips(i) => Covered(i)

\* "max_updated_unix_micro changes on UPDATE", "the triple stays the same only
\* if a row is inserted and deleted within one microsecond"
\* (hot-update-poll-refactor-2026-05-18.md:101-105): unless a later write can
\* repeat one of its stamps, a fingerprint that has not changed since it was
\* recorded means that no active word is missing.
OnlyTiesHide ==
  \A i \in Instances :
    trusted[i] /\ standing[i] # "tied" /\ Skips(i) => Covered(i)

\* The same without the exception: the baseline InitEngine records does not
\* lead the engine either ("lastFingerprint must be <= the fingerprint of the
\* entries the engine has loaded", word_app_service.go:341).
BaselineNeverLeads ==
  \A i \in Instances : pc[i] \in Polling /\ Skips(i) => Covered(i)

\* reconcileOnce's comment: a write during the rebuild makes the next
\* fingerprint differ, "which triggers a rebuild at once".  After a poll has
\* recorded a fingerprint of some settled word, a tick that skips leaves an
\* engine with exactly the active words.
SkipMeansExact ==
  \A i \in Instances :
    /\ pc[i] = "wait" /\ trusted[i] /\ lastFp[i] # ZeroFingerprint
    /\ standing[i] = "settled" /\ Skips(i)
    => engine[i] = Entries(Active)

\* "Any failure is retried by the next tick": again and again, an instance
\* that polls has all active words loaded, whatever errors it met; only a
\* baseline that was not settled, or is not trusted, can keep it from that,
\* and only while the fingerprint stays the same.
EventuallyCovered ==
  \A i \in Instances :
    []<>(\/ pc[i] \notin Polling \/ Covered(i)
         \/ Skips(i) /\ ~(trusted[i] /\ standing[i] = "settled"))

\* Close ends pollLoop, wherever the cancellation finds it.
CloseEndsLoop ==
  \A i \in Instances : stop[i] ~> (pc[i] \in {"exited", "down"})

\* rebuildWithRetry backs off only before another attempt.
AttemptsInv ==
  \A i \in Instances : pc[i] = "backoff" => attempt[i] < MaxAttempts

-----------------------------------------------------------------------------
(***************************************************************************)
(* The inductive invariant behind SettledFingerprintSound and NoMissedWord. *)
(***************************************************************************)
\* An active row is one of B or was stamped after all of B.
Follows(B) ==
  \A r \in Active : r \in B \/ \A b \in B : b.upd < r.upd

\* lastFp describes base.  What was settled stays settled, rows that came
\* later are younger, and what is left of base is in a trusted engine.
BaselineInv ==
  \A i \in Instances :
    /\ IsFiniteSet(base[i])
    /\ standing[i] = "settled" =>
         /\ lastFp[i] = Fingerprint(base[i])
         /\ Settled(base[i]) /\ Follows(base[i])
         /\ trusted[i] => \A r \in Active \cap base[i] : EntryOf(r) \in engine[i]

\* The same of a reconcile under way, and of the load of InitEngine.
CandidateInv ==
  \A i \in Instances :
    /\ IsFiniteSet(cand[i])
    /\ candStanding[i] = "settled" =>
         /\ fpBefore[i] = Fingerprint(cand[i])
         /\ Settled(cand[i]) /\ Follows(cand[i])
         /\ pc[i] = "rebuild" => Active \cap cand[i] \subseteq loaded[i]
    /\ pc[i] = "initFp" => engine[i] = Entries(loaded[i])

IInv == TypeOK /\ AttemptsInv /\ BaselineInv /\ CandidateInv
=============================================================================
