------------------------ MODULE WordAppServiceProofs ------------------------
(***************************************************************************)
(* Proofs about WordAppService: type correctness, that a fingerprint equal *)
(* to one of settled rows means an unchanged lexicon                       *)
(* (SettledFingerprintSound), and that a tick skipped after it misses no   *)
(* active word (NoMissedWord), for any writers that overlap in any way.    *)
(***************************************************************************)
EXTENDS WordAppService, TLAPS, FiniteSetTheorems

-----------------------------------------------------------------------------
(***************************************************************************)
(* Maxima and fingerprints.                                                *)
(***************************************************************************)
\* A finite non-empty set of numbers has a largest element (what MAX(column)
\* of a non-empty selection returns).
LEMMA FiniteMax ==
  ASSUME NEW S \in SUBSET Nat, IsFiniteSet(S), S # {}
  PROVE  \E x \in S : \A y \in S : y <= x
<1> DEFINE Above(x) == {y \in S : y > x}
           F == {Above(x) : x \in S}
<1>1. F \subseteq FiniteSubsetsOf(S) /\ F # {}
  <2>1. \A x \in S : Above(x) \in SUBSET S
    OBVIOUS
  <2>2. F \subseteq SUBSET S /\ F # {}
    BY <2>1
  <2> QED  BY <2>2, FS_FiniteSubsetsOfFinite
<1>2. PICK T \in F : \A U \in F : <<U, T>> \notin StrictSubsetOrdering(S)
  <2>1. IsWellFoundedOn(StrictSubsetOrdering(S), FiniteSubsetsOf(S))
    BY FS_StrictSubsetOrderingWellFounded
  <2> HIDE DEF F
  <2> QED  BY <2>1, <1>1, WFMin
<1>3. PICK x \in S : T = Above(x)
  OBVIOUS
<1>4. ASSUME NEW y \in S, y > x
      PROVE  FALSE
  <2>1. Above(y) \subseteq Above(x) /\ y \in Above(x) /\ y \notin Above(y)
    <3>1. x \in Nat /\ y \in Nat
      OBVIOUS
    <3>2. \A z \in S : z > y => z > x
      BY <3>1, <1>4
    <3>3. ~(y > y)
      BY <3>1
    <3>4. Above(y) \subseteq Above(x)
      BY <3>2
    <3>5. y \in Above(x)
      BY <1>4
    <3>6. y \notin Above(y)
      BY <3>3
    <3> QED  BY <3>4, <3>5, <3>6
  <2>2. <<Above(y), Above(x)>> \in StrictSubsetOrdering(S)
    BY <2>1 DEF StrictSubsetOrdering
  <2> QED  BY <2>2, <1>2, <1>3
<1> QED  BY <1>4

\* MaxOf is a number and, on a non-empty set, its largest element.
LEMMA MaxOfLemma ==
  ASSUME NEW S \in SUBSET Nat, IsFiniteSet(S)
  PROVE  /\ MaxOf(S) \in Nat
         /\ S # {} => MaxOf(S) \in S /\ \A y \in S : y <= MaxOf(S)
BY FiniteMax DEF MaxOf

\* The columns the fingerprint aggregates are finite sets of numbers.
LEMMA ColumnsFinite ==
  ASSUME NEW A \in SUBSET Rows, IsFiniteSet(A)
  PROVE  /\ {r.id : r \in A} \in SUBSET Nat /\ IsFiniteSet({r.id : r \in A})
         /\ {r.upd : r \in A} \in SUBSET Nat /\ IsFiniteSet({r.upd : r \in A})
<1> DEFINE I == {r.id : r \in A}
           U == {r.upd : r \in A}
           f == [r \in A |-> r.id]
           g == [r \in A |-> r.upd]
<1>1. f \in Surjection(A, I)
  BY DEF Surjection
<1>2. g \in Surjection(A, U)
  BY DEF Surjection
<1>3. I \subseteq Nat /\ U \subseteq Nat
  BY DEF Rows
<1>4. IsFiniteSet(I) /\ IsFiniteSet(U)
  <2> HIDE DEF f, g, I, U
  <2> QED  BY <1>1, <1>2, FS_Surjection
<1> QED  BY <1>3, <1>4

\* ActiveFingerprint returns three numbers.
LEMMA FingerprintType ==
  ASSUME NEW A \in SUBSET Rows, IsFiniteSet(A)
  PROVE  Fingerprint(A) \in Fingerprints
BY ColumnsFinite, MaxOfLemma, FS_CardinalityType DEF Fingerprint, Fingerprints

\* A table without active words has the zero fingerprint.
LEMMA FingerprintEmpty ==
  Fingerprint({}) = ZeroFingerprint
BY FS_EmptySet DEF Fingerprint, ZeroFingerprint, MaxOf

\* What an equal triple shows: if every row of A is one of B or was stamped
\* after all of B, then A is B.
LEMMA FingerprintEqual ==
  ASSUME NEW A \in SUBSET Rows, IsFiniteSet(A),
         NEW B \in SUBSET Rows, IsFiniteSet(B),
         Fingerprint(A) = Fingerprint(B),
         \A a \in A : a \in B \/ \A b \in B : b.upd < a.upd
  PROVE  A = B
<1> DEFINE UA == {r.upd : r \in A}
           UB == {r.upd : r \in B}
<1>1. Cardinality(A) = Cardinality(B) /\ MaxOf(UA) = MaxOf(UB)
  BY DEF Fingerprint
<1>2. CASE B = {}
  <2>1. Cardinality(A) = 0
    BY <1>1, <1>2, FS_EmptySet
  <2> QED  BY <2>1, <1>2, FS_EmptySet
<1>3. CASE B # {}
  <2>1. MaxOf(UB) \in UB
    BY <1>3, ColumnsFinite, MaxOfLemma
  <2>2. \A a \in A : a.upd <= MaxOf(UA)
    BY ColumnsFinite, MaxOfLemma
  <2>3. A \subseteq B
    <3> SUFFICES ASSUME NEW a \in A, a \notin B  PROVE FALSE
      OBVIOUS
    <3>1. PICK b \in B : b.upd = MaxOf(UB)
      BY <2>1
    <3>2. b.upd < a.upd /\ a.upd <= b.upd
      BY <3>1, <2>2, <1>1
    <3> QED  BY <3>2 DEF Rows
  <2> QED  BY <2>3, <1>1, FS_Subset
<1> QED  BY <1>2, <1>3

-----------------------------------------------------------------------------
(***************************************************************************)
(* Type correctness.                                                       *)
(***************************************************************************)
\* FindAllActive and ActiveFingerprint return values of their types.
LEMMA ActiveType ==
  ASSUME TypeOK
  PROVE  /\ Active \in SUBSET Rows /\ IsFiniteSet(Active)
         /\ Fingerprint(Active) \in Fingerprints
         /\ Entries(Active) \in SUBSET [text : Texts, meta : Metas]
<1>1. Active \in SUBSET table /\ IsFiniteSet(table) /\ table \in SUBSET Rows
  BY DEF TypeOK, Active, ActiveRows
<1>2. Active \in SUBSET Rows /\ IsFiniteSet(Active)
  BY <1>1, FS_Subset
<1> QED  BY <1>2, FingerprintType DEF Entries, EntryOf, Rows

\* What the history keeps of the active rows has its type.
LEMMA RememberedType ==
  ASSUME TypeOK
  PROVE  /\ Remembered(Active) \in SUBSET Rows /\ IsFiniteSet(Remembered(Active))
         /\ Standing(Active) \in Standings
BY ActiveType, FS_EmptySet DEF Remembered, Standing, Standings

\* The statements of the repository keep the table a finite set of rows.
LEMMA InsertType ==
  ASSUME NEW tab \in SUBSET Rows, IsFiniteSet(tab),
         NEW D \in SUBSET Drafts, IsFiniteSet(D),
         NEW E \in SUBSET D,
         NEW ids \in [D -> Nat], NEW upd \in Nat
  PROVE  Insert(tab, E, ids, upd) \in SUBSET Rows /\ IsFiniteSet(Insert(tab, E, ids, upd))
<1> DEFINE N == {RowOf(d, ids[d], upd) : d \in E}
           f == [d \in E |-> RowOf(d, ids[d], upd)]
<1>1. N \subseteq Rows
  BY DEF Rows, Drafts, RowOf
<1>2. f \in Surjection(E, N)
  BY DEF Surjection
<1>3. IsFiniteSet(E)
  BY FS_Subset
<1>4. IsFiniteSet(N)
  <2> HIDE DEF N, f
  <2> QED  BY <1>2, <1>3, FS_Surjection
<1>5. IsFiniteSet(tab \cup N)
  BY <1>4, FS_Union
<1> QED  BY <1>1, <1>5 DEF Insert

\* UPDATE keeps the table a finite set of rows.
LEMMA OverwriteType ==
  ASSUME NEW tab \in SUBSET Rows, IsFiniteSet(tab),
         NEW d \in Drafts, NEW upd \in Nat
  PROVE  Overwrite(tab, d, upd) \in SUBSET Rows /\ IsFiniteSet(Overwrite(tab, d, upd))
<1>1. RowOf(d, d.id, upd) \in Rows
  BY DEF Rows, Drafts, RowOf
<1>2. IsFiniteSet({r \in tab : r.id # d.id})
  BY FS_Subset
<1> QED  BY <1>1, <1>2, FS_AddElement DEF Overwrite

\* INSERT ... ON DUPLICATE KEY UPDATE keeps the table a finite set of rows.
LEMMA UpsertType ==
  ASSUME NEW tab \in SUBSET Rows, IsFiniteSet(tab),
         NEW d \in Drafts, NEW upd \in Nat
  PROVE  Upsert(tab, d, upd) \in SUBSET Rows /\ IsFiniteSet(Upsert(tab, d, upd))
<1> DEFINE H == {r \in tab : r.id = d.id \/ r.text = d.text}
           N == {RowOf(Defaulted(d), r.id, upd) : r \in H}
           O == {RowOf(Defaulted(d), d.id, upd)}
           f == [r \in H |-> RowOf(Defaulted(d), r.id, upd)]
<1>1. Defaulted(d) \in Drafts
  BY DEF Defaulted, Drafts
<1>2. N \subseteq Rows /\ O \subseteq Rows
  BY <1>1 DEF Rows, Drafts, RowOf
<1>3. IsFiniteSet(H) /\ IsFiniteSet(tab \ H)
  BY FS_Subset
<1>4. f \in Surjection(H, N)
  BY DEF Surjection
<1>5. IsFiniteSet(N)
  <2> HIDE DEF H, N, f
  <2> QED  BY <1>3, <1>4, FS_Surjection
<1>6. IsFiniteSet(O)
  BY FS_Singleton
<1>7. Upsert(tab, d, upd) = (tab \ H) \cup (IF H = {} THEN O ELSE N)
  BY DEF Upsert
<1>8. IsFiniteSet((tab \ H) \cup N) /\ IsFiniteSet((tab \ H) \cup O)
  <2> HIDE DEF H, N, O
  <2> QED  BY <1>3, <1>5, <1>6, FS_Union
<1> QED  BY <1>2, <1>7, <1>8

\* The words of an import request have distinct texts, so they are finitely
\* many.
LEMMA ImportFinite ==
  ASSUME NEW words \in SUBSET Drafts,
         \A v, w \in words : v.text = w.text => v = w
  PROVE  IsFiniteSet(words)
<1> DEFINE f == [w \in words |-> w.text]
<1>1. f \in Injection(words, Texts)
  BY DEF Injection, IsInjective, Drafts
<1> HIDE DEF f
<1> QED  BY <1>1, FS_Injection, TextsAssumption

\* A handler that has looked its word up holds a well-typed request.
LEMMA PrepareType ==
  ASSUME TypeOK, NEW h \in Handlers, NEW op \in Ops,
         NEW D \in SUBSET Drafts, IsFiniteSet(D), Prepare(h, op, D)
  PROVE  TypeOK'
<1>1. [op |-> op, at |-> "prepared", drafts |-> D, upd |-> 0] \in Requests
  BY DEF Requests, Points
<1>2. /\ req' \in [Handlers -> Requests]
      /\ \A g \in Handlers : IsFiniteSet(req'[g].drafts)
  BY <1>1 DEF Prepare, TypeOK
<1>3. requests' \in Nat
  BY DEF Prepare, TypeOK
<1> QED  BY <1>2, <1>3 DEF Prepare, TypeOK, loopVars, histVars

\* A handler that has answered holds no request.
LEMMA DoneType ==
  ASSUME TypeOK, NEW h \in Handlers, Done(h)
  PROVE  /\ req' \in [Handlers -> Requests]
         /\ \A g \in Handlers : IsFiniteSet(req'[g].drafts)
<1>1. Idle \in Requests /\ IsFiniteSet(Idle.drafts)
  BY FS_EmptySet DEF Idle, Requests, Ops, Points
<1> QED  BY <1>1 DEF Done, TypeOK

\* Each step of a request handler keeps the types.
LEMMA HandlerType ==
  ASSUME TypeOK, NEW h \in Handlers, HandlerNext(h)
  PROVE  TypeOK'
<1> USE ConstantsAssumption
<1>0. req[h] \in Requests /\ IsFiniteSet(req[h].drafts) /\ req[h].upd \in Nat
      /\ req[h].drafts \in SUBSET Drafts
  BY DEF TypeOK, Requests
<1>1. ASSUME NEW t \in Texts, NEW m \in Metas, CreateFind(h, t, m)
      PROVE  TypeOK'
  <2>1. NewDraft(t, m) \in Drafts
    BY DEF NewDraft, Drafts
  <2>2. {NewDraft(t, m)} \in SUBSET Drafts /\ IsFiniteSet({NewDraft(t, m)})
    BY <2>1, FS_Singleton
  <2> QED  BY <1>1, <2>2, PrepareType DEF CreateFind, Ops
<1>2. ASSUME NEW words \in SUBSET {NewDraft(t, m) : t \in Texts, m \in Metas},
             ImportBegin(h, words)
      PROVE  TypeOK'
  <2>1. words \in SUBSET Drafts
    BY DEF NewDraft, Drafts
  <2>2. IsFiniteSet(words)
    BY <1>2, <2>1, ImportFinite DEF ImportBegin
  <2> QED  BY <1>2, <2>1, <2>2, PrepareType DEF ImportBegin, Ops
<1>3. ASSUME NEW r \in table, NEW t \in Texts, NEW m \in Metas,
             NEW s \in {WordStatusInactive, WordStatusActive},
             UpdateFind(h, r, t, m, s)
      PROVE  TypeOK'
  <2> DEFINE d == [id |-> r.id, text |-> t, meta |-> m, status |-> s]
  <2>1. d \in Drafts
    BY DEF Drafts, TypeOK, Rows
  <2>2. {d} \in SUBSET Drafts /\ IsFiniteSet({d})
    BY <2>1, FS_Singleton
  <2> QED  BY <1>3, <2>2, PrepareType DEF UpdateFind, Ops
<1>4. ASSUME NEW r \in table, DeleteFind(h, r)
      PROVE  TypeOK'
  <2> DEFINE d == [id |-> r.id, text |-> r.text, meta |-> r.meta,
                   status |-> r.status]
  <2>1. d \in Drafts
    BY DEF Drafts, TypeOK, Rows
  <2>2. {d} \in SUBSET Drafts /\ IsFiniteSet({d})
    BY <2>1, FS_Singleton
  <2> QED  BY <1>4, <2>2, PrepareType DEF DeleteFind, Ops
<1>5. CASE Stamp(h)
  <2>1. /\ req' \in [Handlers -> Requests]
        /\ \A g \in Handlers : IsFiniteSet(req'[g].drafts)
    BY <1>5, <1>0 DEF Stamp, TypeOK, Requests, Points
  <2> QED  BY <1>5, <2>1 DEF Stamp, TypeOK, loopVars, histVars
<1>6. CASE InsertExec(h)
  <2> DEFINE D == req[h].drafts
  <2>1. Cardinality(D) \in Nat
    BY <1>0, FS_CardinalityType
  <2>2. PICK ids \in IdsFor(D) :
          table' = Insert(table, {d \in D : ~HasText(table, d.text)}, ids, req[h].upd)
    BY <1>6 DEF InsertExec
  <2>3. ids \in [D -> Nat]
    BY <2>1, <2>2 DEF IdsFor, TypeOK
  <2>4. table' \in SUBSET Rows /\ IsFiniteSet(table')
    BY <2>2, <2>3, <1>0, InsertType DEF TypeOK
  <2>5. nextId' \in Nat
    BY <1>6, <2>1 DEF InsertExec, TypeOK
  <2> QED  BY <1>6, <2>4, <2>5, DoneType DEF InsertExec, TypeOK, loopVars, histVars
<1>7. CASE SaveExec(h)
  <2>1. PICK d \in req[h].drafts :
          IF HasID(table, d.id)
          THEN /\ table' = IF TextClash(table, d.id, d.text) THEN table
                           ELSE Overwrite(table, d, req[h].upd)
               /\ Done(h)
          ELSE /\ req' = [req EXCEPT ![h].at = "upsert"]
               /\ UNCHANGED table
    BY <1>7 DEF SaveExec
  <2>2. table' \in SUBSET Rows /\ IsFiniteSet(table')
    BY <2>1, <1>0, OverwriteType DEF TypeOK
  <2>3. /\ req' \in [Handlers -> Requests]
        /\ \A g \in Handlers : IsFiniteSet(req'[g].drafts)
    <3>1. CASE HasID(table, d.id)
      BY <2>1, <3>1, DoneType
    <3>2. CASE ~HasID(table, d.id)
      <4>1. req' = [req EXCEPT ![h].at = "upsert"]
        BY <2>1, <3>2
      <4> QED  BY <4>1, <1>0 DEF TypeOK, Requests, Points
    <3> QED  BY <3>1, <3>2
  <2> QED  BY <1>7, <2>2, <2>3 DEF SaveExec, TypeOK, loopVars, histVars
<1>8. CASE UpsertExec(h)
  <2>1. PICK d \in req[h].drafts :
          table' = IF HasID(table, d.id) /\ TextClash(table, d.id, d.text)
                   THEN table ELSE Upsert(table, d, req[h].upd)
    BY <1>8 DEF UpsertExec
  <2>2. table' \in SUBSET Rows /\ IsFiniteSet(table')
    BY <2>1, <1>0, UpsertType DEF TypeOK
  <2> QED  BY <1>8, <2>2, DoneType DEF UpsertExec, TypeOK, loopVars, histVars
<1>9. CASE DeleteExec(h)
  <2>1. table' \in SUBSET table
    BY <1>9 DEF DeleteExec, DeleteByID
  <2>2. table' \in SUBSET Rows /\ IsFiniteSet(table')
    BY <2>1, FS_Subset DEF TypeOK
  <2> QED  BY <1>9, <2>2, DoneType DEF DeleteExec, TypeOK, loopVars, histVars
<1>10. CASE RequestError(h)
  BY <1>10, DoneType DEF RequestError, TypeOK, loopVars, histVars
<1> QED
  BY <1>1, <1>2, <1>3, <1>4, <1>5, <1>6, <1>7, <1>8, <1>9, <1>10 DEF HandlerNext

\* reconcileOnce's locals are reset to values of their types.
LEMMA ReturnType ==
  ASSUME TypeOK, NEW i \in Instances, NEW point \in PCs, Return(i, point)
  PROVE  /\ pc' \in [Instances -> PCs]
         /\ loaded' \in [Instances -> SUBSET Rows]
         /\ fpBefore' \in [Instances -> Fingerprints]
         /\ attempt' \in [Instances -> 0..MaxAttempts]
         /\ cand' \in [Instances -> SUBSET Rows]
         /\ candStanding' \in [Instances -> Standings]
BY ConstantsAssumption
   DEF Return, Goto, TypeOK, ZeroFingerprint, Fingerprints, Standings

\* Each step of a process keeps the types.
LEMMA ProcessType ==
  ASSUME TypeOK, AttemptsInv, NEW i \in Instances, ProcessNext(i)
  PROVE  TypeOK'
<1> USE ConstantsAssumption, ActiveType, RememberedType
<1>0. /\ Active \in SUBSET Rows /\ Fingerprint(Active) \in Fingerprints
      /\ Entries(Active) \in SUBSET [text : Texts, meta : Metas]
      /\ Entries(loaded[i]) \in SUBSET [text : Texts, meta : Metas]
  BY DEF TypeOK, Entries, EntryOf, Rows
<1>1. CASE PollTick(i) \/ FingerprintError(i) \/ InvalidateDone(i) \/ PollExit(i)
  BY <1>1 DEF PollTick, FingerprintError, InvalidateDone, PollExit,
     Goto, TypeOK, dbVars, histVars, PCs
<1>11. CASE StartProcess(i)
  BY <1>11 DEF StartProcess, Goto, TypeOK, dbVars, histVars, PCs
<1>12. CASE Close(i)
  BY <1>12 DEF Close, TypeOK, dbVars, histVars
<1>2. CASE InitLoad(i)
  BY <1>2, <1>0 DEF InitLoad, Goto, TypeOK, dbVars, histVars, PCs
<1>3. CASE InitFingerprint(i)
  BY <1>3, <1>0, ReturnType DEF InitFingerprint, TypeOK, dbVars, PCs
<1>4. CASE InitFingerprintError(i) \/ GiveUp(i)
  BY <1>4, ReturnType DEF InitFingerprintError, GiveUp, TypeOK, dbVars, PCs
<1>5. CASE FingerprintOk(i)
  BY <1>5, <1>0 DEF FingerprintOk, Goto, TypeOK, dbVars, PCs
<1>6. CASE LoadOk(i)
  BY <1>6, <1>0 DEF LoadOk, Goto, TypeOK, dbVars, histVars, PCs
<1>7. CASE LoadError(i)
  <2>1. CASE attempt[i] = MaxAttempts
    BY <1>7, <2>1, ReturnType DEF LoadError, TypeOK, dbVars, PCs
  <2>2. CASE attempt[i] # MaxAttempts
    BY <1>7, <2>2 DEF LoadError, Goto, TypeOK, dbVars, PCs
  <2> QED  BY <2>1, <2>2
<1>8. CASE Retry(i)
  <2>1. attempt[i] + 1 \in 0..MaxAttempts
    BY <1>8 DEF Retry, AttemptsInv, TypeOK
  <2> QED  BY <1>8, <2>1 DEF Retry, Goto, TypeOK, dbVars, histVars, PCs
<1>9. CASE Rebuild(i)
  BY <1>9, <1>0, ReturnType DEF Rebuild, TypeOK, dbVars, PCs
<1>10. CASE ProcessEnd(i)
  BY <1>10, ReturnType
     DEF ProcessEnd, TypeOK, dbVars, PCs, ZeroFingerprint, Fingerprints, Standings
<1> QED
  BY <1>1, <1>2, <1>3, <1>4, <1>5, <1>6, <1>7, <1>8, <1>9, <1>10,
     <1>11, <1>12 DEF ProcessNext

\* rebuildWithRetry never tries more often than maxAttempts.
LEMMA AttemptsStep ==
  ASSUME TypeOK, AttemptsInv, [Next]_vars
  PROVE  AttemptsInv'
<1> USE ConstantsAssumption
<1>1. ASSUME NEW i \in Instances, ProcessNext(i)
      PROVE  AttemptsInv'
  <2>1. CASE LoadError(i)
    BY <2>1 DEF LoadError, Return, Goto, AttemptsInv, TypeOK
  <2>2. CASE ~LoadError(i)
    <3>1. pc'[i] # "backoff" \/ (pc'[i] = pc[i] /\ attempt'[i] = attempt[i])
      BY <1>1, <2>2 DEF ProcessNext, StartProcess, InitLoad, InitFingerprint,
         InitFingerprintError, PollTick, FingerprintOk, FingerprintError, LoadOk, Retry,
         GiveUp, Rebuild, InvalidateDone, Close, PollExit, ProcessEnd, Return, Goto, TypeOK
    <3>2. \A j \in Instances \ {i} : pc'[j] = pc[j] /\ attempt'[j] = attempt[j]
      BY <1>1, <2>2 DEF ProcessNext, StartProcess, InitLoad, InitFingerprint,
         InitFingerprintError, PollTick, FingerprintOk, FingerprintError, LoadOk, Retry,
         GiveUp, Rebuild, InvalidateDone, Close, PollExit, ProcessEnd, Return, Goto, TypeOK
    <3> QED  BY <3>1, <3>2 DEF AttemptsInv
  <2> QED  BY <2>1, <2>2
<1>2. ASSUME NEW h \in Handlers, HandlerNext(h)
      PROVE  AttemptsInv'
  BY <1>2 DEF HandlerNext, CreateFind, ImportBegin, UpdateFind, DeleteFind, Prepare,
     Stamp, InsertExec, SaveExec, UpsertExec, DeleteExec, RequestError, loopVars, AttemptsInv
<1>3. CASE UNCHANGED vars \/ Tick
  BY <1>3 DEF vars, Tick, loopVars, AttemptsInv
<1> QED  BY <1>1, <1>2, <1>3 DEF Next

\* Before any process is started the types hold.
LEMMA TypeInit ==
  ASSUME Init
  PROVE  TypeOK /\ AttemptsInv
<1> USE ConstantsAssumption DEF Init
<1>1. Idle \in Requests /\ IsFiniteSet(Idle.drafts)
  BY FS_EmptySet DEF Idle, Requests, Ops, Points
<1>2. /\ table \in SUBSET Rows /\ IsFiniteSet(table)
      /\ nextId \in Nat /\ clock \in Nat /\ requests \in Nat
      /\ req \in [Handlers -> Requests]
      /\ \A h \in Handlers : IsFiniteSet(req[h].drafts)
  <2>1. InitialRows \in SUBSET Rows /\ IsFiniteSet(InitialRows)
    OBVIOUS
  <2>2. /\ MaxOf({r.id : r \in InitialRows}) \in Nat
        /\ MaxOf({r.upd : r \in InitialRows}) \in Nat
    BY <2>1, ColumnsFinite, MaxOfLemma
  <2> QED  BY <1>1, <2>1, <2>2
<1>3. ZeroFingerprint \in Fingerprints
  BY DEF ZeroFingerprint, Fingerprints
<1>4. AttemptsInv
  BY DEF AttemptsInv
<1> QED  BY <1>2, <1>3, <1>4 DEF TypeOK, PCs, Standings

\* Every step keeps the types.
LEMMA TypeStep ==
  ASSUME TypeOK, AttemptsInv, [Next]_vars
  PROVE  TypeOK'
<1>1. CASE UNCHANGED vars
  BY <1>1 DEF vars, TypeOK
<1>2. CASE Tick
  BY <1>2 DEF Tick, loopVars, histVars, TypeOK
<1> QED  BY <1>1, <1>2, HandlerType, ProcessType DEF Next

\* Every reachable state of the service, with any number of instances and
\* concurrent handlers and any interleaving and failure, is well typed; in
\* particular rebuildWithRetry makes at most MaxAttempts attempts.
THEOREM TypeCorrect == Spec => []TypeOK
<1>1. Init => TypeOK /\ AttemptsInv
  BY TypeInit
<1>2. TypeOK /\ AttemptsInv /\ [Next]_vars => (TypeOK /\ AttemptsInv)'
  BY TypeStep, AttemptsStep
<1> QED  BY <1>1, <1>2, PTL DEF Spec

-----------------------------------------------------------------------------
(***************************************************************************)
(* The fingerprint invariants.                                             *)
(***************************************************************************)
\* A step of a handler adds only rows that carry the stamp of a write it
\* completes.
LEMMA TableGrowth ==
  ASSUME TypeOK, NEW h \in Handlers, HandlerNext(h)
  PROVE  \A r \in table' \ table :
           Stamped(h) /\ r.upd = req[h].upd /\ ~Stamped(h)'
<1>0. req \in [Handlers -> Requests]
  BY DEF TypeOK
<1>1. Done(h) => ~Stamped(h)'
  BY <1>0 DEF Done, Stamped, Idle
<1>2. CASE InsertExec(h)
  BY <1>1, <1>2 DEF InsertExec, Insert, RowOf, Stamped
<1>3. CASE SaveExec(h)
  BY <1>1, <1>3 DEF SaveExec, At, Overwrite, RowOf, Stamped
<1>4. CASE UpsertExec(h)
  <2>1. \A d : \A r \in Upsert(table, d, req[h].upd) : r \in table \/ r.upd = req[h].upd
    BY DEF Upsert, RowOf
  <2> QED  BY <1>1, <1>4, <2>1 DEF UpsertExec, At, Stamped
<1>5. CASE DeleteExec(h)
  BY <1>5 DEF DeleteExec, DeleteByID
<1>6. CASE ~(InsertExec(h) \/ SaveExec(h) \/ UpsertExec(h) \/ DeleteExec(h))
  BY <1>6 DEF HandlerNext, CreateFind, ImportBegin, UpdateFind, DeleteFind,
     Prepare, Stamp, RequestError
<1> QED  BY <1>2, <1>3, <1>4, <1>5, <1>6

\* A stamp is kept until its write completes; a new one is read from the
\* clock.
LEMMA StampsMove ==
  ASSUME TypeOK, NEW h \in Handlers, HandlerNext(h)
  PROVE  /\ clock' = clock
         /\ \A g \in Handlers \ {h} : req'[g] = req[g]
         /\ Stamped(h)' => \/ Stamped(h) /\ req'[h].upd = req[h].upd
                           \/ req'[h].upd = clock
<1>0. req \in [Handlers -> Requests] /\ clock \in Nat
  BY DEF TypeOK
<1>1. CASE Stamp(h)
  BY <1>0, <1>1 DEF Stamp, Stamped, Requests
<1>2. CASE SaveExec(h)
  BY <1>0, <1>2 DEF SaveExec, At, Stamped, Requests, Done, Idle
<1>3. CASE ~Stamp(h) /\ ~SaveExec(h)
  BY <1>0, <1>3 DEF HandlerNext, CreateFind, ImportBegin, UpdateFind, DeleteFind,
     Prepare, InsertExec, UpsertExec, DeleteExec, RequestError, Stamped, Done, Idle
<1> QED  BY <1>1, <1>2, <1>3

\* What a handler's step does to a settled set B of rows: B stays settled, no
\* row of B becomes active again, and an active row that is not of B is
\* younger than all of B.
LEMMA SettledStep ==
  ASSUME TypeOK, NEW h \in Handlers, HandlerNext(h),
         NEW B \in SUBSET Rows, Settled(B)
  PROVE  /\ \A b \in B : /\ b.upd < clock'
                        /\ \A g \in Handlers : Stamped(g)' => b.upd < req'[g].upd
         /\ Active' \cap B \subseteq Active
         /\ Follows(B) => \A r \in Active' : r \in B \/ \A b \in B : b.upd < r.upd
<1> USE StampsMove, TableGrowth
<1>0. clock \in Nat /\ \A b \in B : b.upd \in Nat
  BY DEF TypeOK, Rows
<1>1. ASSUME NEW b \in B
      PROVE  b.upd < clock'
  BY <1>0 DEF Settled
<1>2. ASSUME NEW b \in B, NEW g \in Handlers, Stamped(g)'
      PROVE  b.upd < req'[g].upd
  <2>1. CASE g # h
    <3>1. Stamped(g) /\ req'[g].upd = req[g].upd
      BY <1>2, <2>1 DEF Stamped
    <3> QED  BY <3>1 DEF Settled
  <2>2. CASE g = h
    BY <1>0, <1>2, <2>2 DEF Settled
  <2> QED  BY <2>1, <2>2
<1>3. ASSUME NEW r \in Active', r \notin Active
      PROVE  \A b \in B : b.upd < r.upd
  <2>1. r \in table' \ table
    BY <1>3 DEF Active, ActiveRows
  <2> QED  BY <2>1 DEF Settled
<1>4. ASSUME NEW r \in Active' \cap B, r \notin Active
      PROVE  FALSE
  BY <1>3, <1>4, <1>0
<1> QED  BY <1>1, <1>2, <1>3, <1>4 DEF Follows

\* A tick of the clock does the same.
LEMMA SettledTick ==
  ASSUME TypeOK, Tick, NEW B \in SUBSET Rows, Settled(B)
  PROVE  /\ \A b \in B : /\ b.upd < clock'
                        /\ \A g \in Handlers : Stamped(g)' => b.upd < req'[g].upd
         /\ Active' \cap B \subseteq Active
         /\ Follows(B) => \A r \in Active' : r \in B \/ \A b \in B : b.upd < r.upd
<1>1. UNCHANGED <<table, req>> /\ clock \in Nat /\ clock' = clock + 1
  BY DEF Tick, TypeOK
<1>2. \A b \in B : b.upd \in Nat
  BY DEF Rows
<1> QED  BY <1>1, <1>2 DEF Settled, Follows, Stamped, Active

\* The parts of the invariant that speak of instance i.
InstanceInv(i) ==
  /\ IsFiniteSet(base[i])
  /\ standing[i] = "settled" =>
       /\ lastFp[i] = Fingerprint(base[i])
       /\ Settled(base[i]) /\ Follows(base[i])
       /\ trusted[i] => \A r \in Active \cap base[i] : EntryOf(r) \in engine[i]
  /\ IsFiniteSet(cand[i])
  /\ candStanding[i] = "settled" =>
       /\ fpBefore[i] = Fingerprint(cand[i])
       /\ Settled(cand[i]) /\ Follows(cand[i])
       /\ pc[i] = "rebuild" => Active \cap cand[i] \subseteq loaded[i]
  /\ pc[i] = "initFp" => engine[i] = Entries(loaded[i])

\* The two invariants, instance by instance.
LEMMA InstanceInvs ==
  (\A i \in Instances : InstanceInv(i)) <=> (BaselineInv /\ CandidateInv)
BY DEF InstanceInv, BaselineInv, CandidateInv

\* Request handlers and the clock preserve the invariant.
LEMMA HandlerStep ==
  ASSUME IInv, (\E h \in Handlers : HandlerNext(h)) \/ Tick
  PROVE  BaselineInv' /\ CandidateInv'
<1> USE DEF IInv
<1>0. UNCHANGED <<pc, engine, loaded, lastFp, fpBefore, histVars>>
  <2>1. CASE Tick
    BY <2>1 DEF Tick, loopVars
  <2>2. ASSUME NEW h \in Handlers, HandlerNext(h)
        PROVE  UNCHANGED <<pc, engine, loaded, lastFp, fpBefore, histVars>>
    BY <2>2 DEF HandlerNext, CreateFind, ImportBegin, UpdateFind, DeleteFind, Prepare,
       Stamp, InsertExec, SaveExec, UpsertExec, DeleteExec, RequestError, loopVars
  <2> QED  BY <2>1, <2>2
<1>1. ASSUME NEW B \in SUBSET Rows, Settled(B)
      PROVE  /\ \A b \in B : /\ b.upd < clock'
                             /\ \A g \in Handlers : Stamped(g)' => b.upd < req'[g].upd
             /\ Active' \cap B \subseteq Active
             /\ Follows(B) => \A r \in Active' : r \in B \/ \A b \in B : b.upd < r.upd
  BY <1>1, SettledStep, SettledTick
<1>2. ASSUME NEW i \in Instances
      PROVE  InstanceInv(i)'
  <2>0. /\ base'[i] = base[i] /\ cand'[i] = cand[i] /\ standing'[i] = standing[i]
        /\ candStanding'[i] = candStanding[i] /\ trusted'[i] = trusted[i]
        /\ pc'[i] = pc[i] /\ engine'[i] = engine[i] /\ loaded'[i] = loaded[i]
        /\ lastFp'[i] = lastFp[i] /\ fpBefore'[i] = fpBefore[i]
    BY <1>0 DEF histVars
  <2>1. InstanceInv(i) /\ base[i] \in SUBSET Rows /\ cand[i] \in SUBSET Rows
    BY InstanceInvs DEF TypeOK
  <2>2. standing[i] = "settled" =>
          Settled(base[i])' /\ Follows(base[i])' /\ Active' \cap base[i] \subseteq Active
    BY <1>1, <2>0, <2>1 DEF InstanceInv, Settled, Follows
  <2>3. candStanding[i] = "settled" =>
          Settled(cand[i])' /\ Follows(cand[i])' /\ Active' \cap cand[i] \subseteq Active
    BY <1>1, <2>0, <2>1 DEF InstanceInv, Settled, Follows
  <2> QED  BY <2>0, <2>1, <2>2, <2>3 DEF InstanceInv
<1> QED  BY <1>2, InstanceInvs DEF InstanceInv, BaselineInv, CandidateInv

\* A set of rows is as settled, and followed as well, after a step that leaves
\* the database alone.
LEMMA DatabaseUnchanged ==
  ASSUME UNCHANGED dbVars
  PROVE  /\ Active' = Active
         /\ \A B : Settled(B) => \A b \in B :
                /\ b.upd < clock'
                /\ \A h \in Handlers : Stamped(h)' => b.upd < req'[h].upd
         /\ \A B : Follows(B) => \A r \in Active' : r \in B \/ \A b \in B : b.upd < r.upd
BY DEF dbVars, Active, Settled, Follows, Stamped

\* The empty baseline satisfies the invariant, and so does the baseline taken
\* from the table now, if it is settled.
LEMMA Baselines ==
  ASSUME IInv
  PROVE  /\ IsFiniteSet({}) /\ Settled({}) /\ Follows({})
         /\ ZeroFingerprint = Fingerprint({})
         /\ IsFiniteSet(Remembered(Active))
         /\ Standing(Active) = "settled" =>
              Remembered(Active) = Active /\ Settled(Active) /\ Follows(Active)
<1>1. IsFiniteSet({}) /\ Settled({}) /\ Follows({}) /\ ZeroFingerprint = Fingerprint({})
  BY FS_EmptySet, FingerprintEmpty DEF Settled, Follows
<1>2. IsFiniteSet(Remembered(Active))
  BY RememberedType DEF IInv
<1>3. Standing(Active) = "settled" => Remembered(Active) = Active /\ Settled(Active)
  BY DEF Standing, Remembered
<1>4. Follows(Active)
  BY DEF Follows
<1> QED  BY <1>1, <1>2, <1>3, <1>4

\* An instance whose state a step does not touch keeps its invariant.
LEMMA OtherInstance ==
  ASSUME UNCHANGED dbVars, NEW j \in Instances, InstanceInv(j),
         pc'[j] = pc[j], engine'[j] = engine[j], loaded'[j] = loaded[j],
         lastFp'[j] = lastFp[j], fpBefore'[j] = fpBefore[j],
         base'[j] = base[j], cand'[j] = cand[j], trusted'[j] = trusted[j],
         standing'[j] = standing[j], candStanding'[j] = candStanding[j]
  PROVE  InstanceInv(j)'
<1>1. /\ Settled(base[j]) => Settled(base[j])'
      /\ Follows(base[j]) => Follows(base[j])'
      /\ Settled(cand[j]) => Settled(cand[j])'
      /\ Follows(cand[j]) => Follows(cand[j])'
  BY DatabaseUnchanged DEF Settled, Follows
<1> QED  BY <1>1, DatabaseUnchanged DEF InstanceInv

\* Processes preserve the invariant.
LEMMA ProcessStep ==
  ASSUME IInv, NEW i \in Instances, ProcessNext(i)
  PROVE  BaselineInv' /\ CandidateInv'
<1> USE DEF IInv
<1>0. UNCHANGED dbVars
  BY DEF ProcessNext, StartProcess, InitLoad, InitFingerprint,
     InitFingerprintError, PollTick, FingerprintOk, FingerprintError, LoadOk, LoadError,
     Retry, GiveUp, Rebuild, InvalidateDone, Close, PollExit, ProcessEnd
<1>1. \A j \in Instances : InstanceInv(j)
  BY InstanceInvs
<1>2. ASSUME NEW j \in Instances, j # i
      PROVE  InstanceInv(j)'
  <2>1. /\ pc'[j] = pc[j] /\ engine'[j] = engine[j] /\ loaded'[j] = loaded[j]
        /\ lastFp'[j] = lastFp[j] /\ fpBefore'[j] = fpBefore[j]
        /\ base'[j] = base[j] /\ cand'[j] = cand[j] /\ trusted'[j] = trusted[j]
        /\ standing'[j] = standing[j] /\ candStanding'[j] = candStanding[j]
    BY <1>2 DEF TypeOK, ProcessNext, StartProcess, InitLoad, InitFingerprint,
       InitFingerprintError, PollTick, FingerprintOk, FingerprintError, LoadOk, LoadError,
       Retry, GiveUp, Rebuild, InvalidateDone, Close, PollExit, ProcessEnd,
       Return, Goto, histVars
  <2> QED  BY <1>0, <1>1, <2>1, OtherInstance
<1>3. /\ Active' = Active
      /\ (Settled(base[i]) /\ Follows(base[i]) /\ base'[i] = base[i]
            => Settled(base[i])' /\ Follows(base[i])')
      /\ (Settled(cand[i]) /\ Follows(cand[i]) /\ cand'[i] = cand[i]
            => Settled(cand[i])' /\ Follows(cand[i])')
      /\ (Settled(cand[i]) /\ Follows(cand[i]) /\ base'[i] = cand[i]
            => Settled(base[i])' /\ Follows(base[i])')
      /\ (Settled(Active) /\ base'[i] = Active => Settled(base[i])' /\ Follows(base[i])')
      /\ (Settled(Active) /\ cand'[i] = Active => Settled(cand[i])' /\ Follows(cand[i])')
      /\ (base'[i] = {} => Settled(base[i])' /\ Follows(base[i])')
      /\ (cand'[i] = {} => Settled(cand[i])' /\ Follows(cand[i])')
  BY <1>0, DatabaseUnchanged DEF Settled, Follows
<1>4. InstanceInv(i)'
  <2> USE <1>1, <1>3, Baselines DEF InstanceInv
  <2>1. CASE StartProcess(i) \/ PollTick(i) \/ FingerprintError(i) \/ InvalidateDone(i)
             \/ PollExit(i) \/ Retry(i)
    BY <2>1 DEF StartProcess, PollTick, FingerprintError, InvalidateDone, PollExit,
       Retry, Goto, TypeOK, histVars
  <2>2. CASE Close(i)
    BY <2>2 DEF Close, histVars
  <2>3. CASE InitLoad(i)
    <3>1. pc[i] = "initLoad" /\ engine'[i] = Entries(loaded'[i]) /\ pc'[i] = "initFp"
      BY <2>3 DEF InitLoad, Goto, TypeOK
    <3>2. UNCHANGED <<lastFp, fpBefore, base, cand, standing, candStanding, trusted>>
      BY <2>3 DEF InitLoad, histVars
    <3>3. trusted'[i] => \A r \in Active' \cap base'[i] : EntryOf(r) \in engine'[i]
      <4>1. engine'[i] = Entries(Active)
        BY <2>3 DEF InitLoad, TypeOK
      <4> QED  BY <4>1 DEF Entries
    <3> QED  BY <3>1, <3>2, <3>3
  <2>4. CASE InitFingerprint(i)
    <3>1. /\ pc[i] = "initFp" /\ pc'[i] = "wait" /\ engine'[i] = engine[i]
          /\ base'[i] = Remembered(Active) /\ standing'[i] = Standing(Active)
          /\ lastFp'[i] = Fingerprint(Active)
          /\ cand'[i] = {} /\ fpBefore'[i] = ZeroFingerprint
      BY <2>4 DEF InitFingerprint, Return, Goto, TypeOK
    <3>2. trusted'[i] => engine'[i] = Entries(Active)
      BY <2>4, <3>1 DEF InitFingerprint, TypeOK
    <3>3. standing'[i] = "settled" /\ trusted'[i]
            => \A r \in Active' \cap base'[i] : EntryOf(r) \in engine'[i]
      BY <3>1, <3>2 DEF Entries
    <3> QED  BY <3>1, <3>3
  <2>5. CASE InitFingerprintError(i) \/ GiveUp(i)
    BY <2>5 DEF InitFingerprintError, GiveUp, Return, Goto, TypeOK
  <2>6. CASE FingerprintOk(i)
    <3>1. /\ pc'[i] \in {"wait", "load"}
          /\ UNCHANGED <<engine, loaded, lastFp, base, standing, trusted>>
          /\ \/ /\ cand'[i] = cand[i] /\ fpBefore'[i] = fpBefore[i]
                /\ candStanding'[i] = candStanding[i]
             \/ /\ cand'[i] = Remembered(Active) /\ fpBefore'[i] = Fingerprint(Active)
                /\ candStanding'[i] = Standing(Active)
      BY <2>6 DEF FingerprintOk, Goto, TypeOK
    <3> QED  BY <3>1
  <2>7. CASE LoadOk(i)
    BY <2>7 DEF LoadOk, Goto, TypeOK, histVars
  <2>8. CASE LoadError(i)
    <3>1. /\ pc'[i] \in {"wait", "backoff"}
          /\ UNCHANGED <<engine, lastFp, base, standing, trusted>>
          /\ \/ /\ cand'[i] = cand[i] /\ fpBefore'[i] = fpBefore[i]
                /\ candStanding'[i] = candStanding[i]
             \/ cand'[i] = {} /\ fpBefore'[i] = ZeroFingerprint
      BY <2>8 DEF LoadError, Return, Goto, TypeOK
    <3> QED  BY <3>1
  <2>9. CASE Rebuild(i)
    <3>1. /\ pc[i] = "rebuild" /\ pc'[i] = "invalidate"
          /\ engine'[i] = Entries(loaded[i]) /\ lastFp'[i] = fpBefore[i]
          /\ base'[i] = cand[i] /\ standing'[i] = candStanding[i]
          /\ cand'[i] = {} /\ fpBefore'[i] = ZeroFingerprint
      BY <2>9 DEF Rebuild, Return, Goto, TypeOK
    <3>2. standing'[i] = "settled"
            => \A r \in Active' \cap base'[i] : EntryOf(r) \in engine'[i]
      BY <3>1 DEF Entries
    <3> QED  BY <3>1, <3>2
  <2>10. CASE ProcessEnd(i)
    BY <2>10 DEF ProcessEnd, Return, Goto, TypeOK
  <2> QED
    BY <2>1, <2>2, <2>3, <2>4, <2>5, <2>6, <2>7, <2>8, <2>9, <2>10 DEF ProcessNext
<1> QED
  BY <1>2, <1>4, InstanceInvs DEF InstanceInv, BaselineInv, CandidateInv

\* Before any process is started the invariant holds.
LEMMA IInvInit ==
  ASSUME Init
  PROVE  IInv
<1>1. TypeOK /\ AttemptsInv
  BY TypeInit
<1>2. BaselineInv /\ CandidateInv
  BY FS_EmptySet, FingerprintEmpty
     DEF Init, BaselineInv, CandidateInv, Settled, Follows
<1> QED  BY <1>1, <1>2 DEF IInv

\* Every step preserves the invariant.
LEMMA IInvStep ==
  ASSUME IInv, [Next]_vars
  PROVE  IInv'
<1>1. TypeOK' /\ AttemptsInv'
  BY TypeStep, AttemptsStep DEF IInv
<1>2. BaselineInv' /\ CandidateInv'
  <2>1. CASE UNCHANGED vars
    BY <2>1 DEF vars, IInv, BaselineInv, CandidateInv, Settled, Follows, Stamped, Active
  <2> QED  BY <2>1, HandlerStep, ProcessStep DEF Next
<1> QED  BY <1>1, <1>2 DEF IInv

\* The invariant gives both properties: by FingerprintEqual the active rows
\* are those of base, and those are in the engine.
LEMMA IInvImplies ==
  ASSUME IInv
  PROVE  SettledFingerprintSound /\ NoMissedWord
<1>1. ASSUME NEW i \in Instances, standing[i] = "settled", Skips(i)
      PROVE  base[i] = Active
  <2>1. Active \in SUBSET Rows /\ IsFiniteSet(Active)
    BY ActiveType DEF IInv
  <2>2. /\ base[i] \in SUBSET Rows /\ IsFiniteSet(base[i])
        /\ Fingerprint(Active) = Fingerprint(base[i])
        /\ \A r \in Active : r \in base[i] \/ \A b \in base[i] : b.upd < r.upd
    BY <1>1 DEF IInv, TypeOK, BaselineInv, Skips, Follows
  <2> QED  BY <2>1, <2>2, FingerprintEqual
<1>2. ASSUME NEW i \in Instances, standing[i] = "settled", Skips(i), trusted[i]
      PROVE  Covered(i)
  BY <1>1, <1>2 DEF IInv, BaselineInv, Covered, Entries
<1> QED  BY <1>1, <1>2 DEF SettledFingerprintSound, NoMissedWord

\* The invariant holds in every reachable state.
LEMMA IInvAlways == Spec => []IInv
<1>1. Init => IInv
  BY IInvInit
<1>2. IInv /\ [Next]_vars => IInv'
  BY IInvStep
<1> QED  BY <1>1, <1>2, PTL DEF Spec

\* If no older or equal stamp was outstanding when a fingerprint was recorded,
\* an equal triple means that the set of active rows is the one it was taken
\* of, whatever overlapping writes with whatever stamps, deletes,
\* deactivations, resurrections, crashes and query errors happened meanwhile.
THEOREM FingerprintIsSound == Spec => []SettledFingerprintSound
<1>1. IInv => SettledFingerprintSound
  BY IInvImplies
<1> QED  BY <1>1, IInvAlways, PTL

\* A tick that skips the rebuild after such a fingerprint leaves no active
\* word out of the engine (reconcileOnce's key invariant), unless the baseline
\* dates from an InitEngine that a write interrupted.
THEOREM SkippedTickMissesNoWord == Spec => []NoMissedWord
<1>1. IInv => NoMissedWord
  BY IInvImplies
<1> QED  BY <1>1, IInvAlways, PTL
=============================================================================
