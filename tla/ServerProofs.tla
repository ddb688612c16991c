---------------------------- MODULE ServerProofs ----------------------------
(***************************************************************************)
(* Proofs about Server and WordExport for any number of requests, any      *)
(* table and any batch size.                                               *)
(***************************************************************************)
EXTENDS Server, FiniteSetTheorems, TLAPS

USE ExportAssumption

-----------------------------------------------------------------------------
(***************************************************************************)
(* The export.                                                             *)
(***************************************************************************)
\* The fields of an export that is under way or has ended.
LEMMA ExportFields ==
  ASSUME ExportTypeOK, NEW h \in HttpSlots, export[h].at # "none"
  PROVE  LET x == export[h] IN
         /\ x = [at |-> x.at, category |-> x.category, last |-> x.last, out |-> x.out,
                 twice |-> x.twice, due |-> x.due]
         /\ x.at \in {"query", "complete", "truncated"} /\ x.category \in BOOLEAN
         /\ x.last \in 0..IdLimit
         /\ x.out \in SUBSET Ids /\ x.twice \in SUBSET Ids /\ x.due \in SUBSET Ids
<1> DEFINE x == export[h]
<1>1. x \in Exports
  BY DEF ExportTypeOK
<1>2. x # NoExport
  BY DEF NoExport
<1> QED  BY <1>1, <1>2 DEF Exports

\* An export as the model has it
AnExport(at, category, last, out, twice, due) ==
  [at |-> at, category |-> category, last |-> last, out |-> out, twice |-> twice,
   due |-> due]

\* What the invariant says of one export, over a given table
Sound(x, tab) ==
  /\ x.at # "none" => x.twice = {}
  /\ x.at = "complete" => x.due \subseteq x.out
  /\ x.at = "query" =>
       /\ \A id \in x.out : id <= x.last
       /\ \A id \in x.due : id > x.last \/ id \in x.out
       /\ \A id \in x.due : Qualifies(tab, id, x.category)

\* Exports are sound one by one.
AllSound == \A h \in HttpSlots : Sound(export[h], table)

\* ExportInv says that every export is sound.
LEMMA SoundExports == ExportTypeOK => (ExportInv <=> AllSound)
<1> SUFFICES ASSUME ExportTypeOK PROVE ExportInv <=> AllSound
  OBVIOUS
<1>1. ASSUME NEW h \in HttpSlots, export[h].at = "query"
      PROVE  export[h].due \subseteq Matching(export[h])
               <=> \A id \in export[h].due : Qualifies(table, id, export[h].category)
  <2>1. export[h].due \in SUBSET Ids
    BY <1>1, ExportFields
  <2> QED  BY <2>1 DEF Matching
<1> QED  BY <1>1 DEF ExportInv, AllSound, Sound

\* Nothing is wrong with a request that exports nothing.
LEMMA NoExportSound == \A tab : Sound(NoExport, tab) /\ NoExport \in Exports
BY DEF Sound, NoExport, Exports

\* One export is replaced; the table stays.
LEMMA ReplaceExport ==
  ASSUME ExportTypeOK, ExportInv, NEW h \in HttpSlots, NEW x \in Exports, Sound(x, table),
         export' = [export EXCEPT ![h] = x], table' = table
  PROVE  ExportTypeOK' /\ ExportInv'
<1>1. ExportTypeOK'
  BY DEF ExportTypeOK
<1>2. \A g \in HttpSlots : Sound(export'[g], table')
  BY SoundExports DEF ExportTypeOK, AllSound
<1>3. AllSound'
  BY <1>2 DEF AllSound, Sound, Qualifies
<1>4. ExportTypeOK' => (ExportInv' <=> AllSound')
  BY SoundExports, PTL
<1> QED  BY <1>1, <1>3, <1>4

\* A statement leaves every row due that matches as before.
LEMMA WriteKeepsInv ==
  ASSUME ExportTypeOK, ExportInv, Write
  PROVE  ExportTypeOK' /\ ExportInv'
<1>1. table' \in [Ids -> {"free", "active", "inactive", "deleted"}]
  BY DEF Write, ExportTypeOK
<1>2. ASSUME NEW h \in HttpSlots
      PROVE  export'[h] \in Exports /\ Sound(export'[h], table')
  <2>0. export'[h] = KeepDue(h) /\ export[h] \in Exports /\ Sound(export[h], table)
    BY SoundExports DEF Write, ExportTypeOK, AllSound
  <2>1. CASE export[h].at # "query"
    <3>1. export'[h] = export[h]
      BY <2>0, <2>1 DEF KeepDue
    <3> QED  BY <2>0, <2>1, <3>1 DEF Sound
  <2>2. CASE export[h].at = "query"
    <3> DEFINE x == export[h]
               due == {id \in x.due : Qualifies(table', id, x.category)}
               y == AnExport(x.at, x.category, x.last, x.out, x.twice, due)
    <3>1. /\ x = AnExport(x.at, x.category, x.last, x.out, x.twice, x.due)
          /\ x.at \in {"query", "complete", "truncated"} /\ x.category \in BOOLEAN
          /\ x.last \in 0..IdLimit
          /\ x.out \in SUBSET Ids /\ x.twice \in SUBSET Ids /\ x.due \in SUBSET Ids
      BY <2>2, ExportFields DEF AnExport
    <3>2. export'[h] = [x EXCEPT !.due = due]
      BY <2>0, <2>2 DEF KeepDue
    <3>3. [x EXCEPT !.due = due] = y
      BY <3>1 DEF AnExport
    <3>4. y \in Exports
      BY <3>1 DEF Exports, AnExport
    <3>5. Sound(y, table')
      BY <2>0, <2>2 DEF Sound, AnExport
    <3> QED  BY <3>2, <3>3, <3>4, <3>5
  <2> QED  BY <2>1, <2>2
<1>3. ExportTypeOK'
  <2>1. export' = [h \in HttpSlots |-> export'[h]]
    BY DEF Write
  <2> QED  BY <1>1, <1>2, <2>1 DEF ExportTypeOK
<1>4. ExportTypeOK' => (ExportInv' <=> AllSound')
  BY SoundExports, PTL
<1>5. AllSound'
  BY <1>2 DEF AllSound, Sound, Qualifies
<1> QED  BY <1>3, <1>4, <1>5

\* The batches of an export follow one another without a gap and without an
\* overlap, whatever was written between them.
LEMMA BatchKeepsInv ==
  ASSUME ExportTypeOK, ExportInv, NEW h \in HttpSlots, ExportBatch(h)
  PROVE  ExportTypeOK' /\ ExportInv'
<1> DEFINE x == export[h]
           S == {id \in Matching(x) : id > x.last}
<1>0. x.at = "query" /\ table' = table
  BY DEF ExportBatch
<1>1. /\ x = AnExport(x.at, x.category, x.last, x.out, x.twice, x.due)
      /\ x.category \in BOOLEAN /\ x.last \in 0..IdLimit
      /\ x.out \in SUBSET Ids /\ x.twice \in SUBSET Ids /\ x.due \in SUBSET Ids
  BY <1>0, ExportFields DEF AnExport
<1>2. Sound(x, table)
  BY SoundExports DEF AllSound
<1>3. PICK rows \in SUBSET Ids, last \in 0..IdLimit :
        /\ AreFirst(rows, S, BatchSize)
        /\ IF rows = {} THEN last = x.last
           ELSE last \in rows /\ \A id \in rows : id <= last
        /\ export' = [export EXCEPT ![h] =
             [x EXCEPT !.out = @ \cup rows, !.twice = @ \cup (x.out \cap rows),
                       !.last = last,
                       !.at = IF Cardinality(rows) < BatchSize THEN "complete" ELSE @]]
  BY DEF ExportBatch, IsBatch
<1> DEFINE at == IF Cardinality(rows) < BatchSize THEN "complete" ELSE "query"
           y == AnExport(at, x.category, last, x.out \cup rows,
                         x.twice \cup (x.out \cap rows), x.due)
<1>4. export' = [export EXCEPT ![h] = y]
  <2>1. [x EXCEPT !.out = @ \cup rows, !.twice = @ \cup (x.out \cap rows), !.last = last,
                  !.at = IF Cardinality(rows) < BatchSize THEN "complete" ELSE @]
          = [x EXCEPT !.out = x.out \cup rows, !.twice = x.twice \cup (x.out \cap rows),
                      !.last = last, !.at = at]
    BY <1>0
  <2>2. [x EXCEPT !.out = x.out \cup rows, !.twice = x.twice \cup (x.out \cap rows),
                  !.last = last, !.at = at] = y
    <3> DEFINE o2 == x.out \cup rows
               t2 == x.twice \cup (x.out \cap rows)
               x1 == [x EXCEPT !.out = o2]
               x2 == [x1 EXCEPT !.twice = t2]
               x3 == [x2 EXCEPT !.last = last]
    <3> HIDE DEF o2, t2, at
    <3>1. x1 = AnExport(x.at, x.category, x.last, o2, x.twice, x.due)
      BY <1>1 DEF AnExport
    <3> HIDE DEF x1
    <3>2. x2 = AnExport(x.at, x.category, x.last, o2, t2, x.due)
      BY <3>1 DEF AnExport
    <3> HIDE DEF x2
    <3>3. x3 = AnExport(x.at, x.category, last, o2, t2, x.due)
      BY <3>2 DEF AnExport
    <3> HIDE DEF x3
    <3>4. [x3 EXCEPT !.at = at] = AnExport(at, x.category, last, o2, t2, x.due)
      BY <3>3 DEF AnExport
    <3>5. [x EXCEPT !.out = o2, !.twice = t2, !.last = last, !.at = at]
            = [x3 EXCEPT !.at = at]
      BY DEF x3, x2, x1
    <3> QED  BY <3>4, <3>5, Zenon DEF o2, t2
  <2> HIDE DEF y, at
  <2> QED  BY <1>3, <2>1, <2>2
<1>5. y \in Exports
  BY <1>1 DEF AnExport, Exports
<1>6. \A id \in rows : id > x.last /\ id \in Nat
  BY <1>1, <1>3 DEF AreFirst, Ids
<1>7. x.out \cap rows = {} /\ x.twice = {}
  BY <1>0, <1>1, <1>2, <1>6 DEF Sound, Ids
<1>8. \A id \in x.out \cup rows : id <= last
  <2>1. x.last <= last
    BY <1>1, <1>3, <1>6
  <2>2. \A id \in x.out : id <= x.last /\ id \in Nat
    BY <1>0, <1>1, <1>2 DEF Sound, Ids
  <2> QED  BY <1>1, <1>3, <2>1, <2>2
<1>9. \A id \in x.due : id \in x.out \/ id \in S
  BY <1>0, <1>1, <1>2 DEF Sound, Matching
<1>10. \A id \in x.due : id > last \/ id \in x.out \cup rows
  <2>1. \A id \in S \ rows : id > last
    <3>1. CASE rows = {}
      BY <1>3, <3>1
    <3>2. CASE rows # {}
      <4>1. \A id \in S \ rows : last < id /\ id \in Nat
        BY <1>3, <3>2 DEF AreFirst, Matching, Ids
      <4> QED  BY <4>1
    <3> QED  BY <3>1, <3>2
  <2> QED  BY <1>9, <2>1
<1>11. Cardinality(rows) < BatchSize => x.due \subseteq x.out \cup rows
  <2>1. Cardinality(rows) < BatchSize => rows = S
    BY <1>3 DEF AreFirst
  <2> QED  BY <1>9, <2>1
<1>12. \A id \in x.due : Qualifies(table, id, x.category)
  BY <1>0, <1>2 DEF Sound
<1>13. Sound(y, table)
  BY <1>7, <1>8, <1>10, <1>11, <1>12 DEF Sound, AnExport
<1> HIDE DEF y
<1> QED  BY <1>0, <1>4, <1>5, <1>13, ReplaceExport

\* The beginning and the end of an export keep the invariant.
LEMMA EndsKeepInv ==
  ASSUME ExportTypeOK, ExportInv, NEW h \in HttpSlots,
         ExportBegin(h) \/ ExportFail(h) \/ ExportReturn(h)
  PROVE  ExportTypeOK' /\ ExportInv'
<1> DEFINE x == export[h]
<1>0. table' = table
  BY DEF ExportBegin, ExportFail, ExportReturn
<1>1. CASE ExportBegin(h)
  <2>1. PICK category \in BOOLEAN : export' = [export EXCEPT ![h] =
          AnExport("query", category, 0, {}, {},
                   {id \in Ids : Qualifies(table, id, category)})]
    BY <1>1 DEF ExportBegin, AnExport
  <2> DEFINE y == AnExport("query", category, 0, {}, {},
                           {id \in Ids : Qualifies(table, id, category)})
  <2>2. y \in Exports
    BY DEF AnExport, Exports
  <2>3. Sound(y, table)
    BY DEF AnExport, Sound, Ids
  <2> HIDE DEF y
  <2> QED  BY <1>0, <2>1, <2>2, <2>3, ReplaceExport DEF y
<1>2. CASE ExportFail(h)
  <2> DEFINE y == AnExport("truncated", x.category, x.last, x.out, x.twice, x.due)
  <2>0. x.at = "query"
    BY <1>2 DEF ExportFail
  <2>1. /\ x = AnExport(x.at, x.category, x.last, x.out, x.twice, x.due)
        /\ x.category \in BOOLEAN /\ x.last \in 0..IdLimit
        /\ x.out \in SUBSET Ids /\ x.twice \in SUBSET Ids /\ x.due \in SUBSET Ids
    BY <2>0, ExportFields DEF AnExport
  <2>2. [x EXCEPT !.at = "truncated"] = y
    BY <2>1 DEF AnExport
  <2>3. export' = [export EXCEPT ![h] = y]
    BY <1>2, <2>2 DEF ExportFail
  <2>4. y \in Exports
    BY <2>1 DEF AnExport, Exports
  <2>5. Sound(y, table)
    BY <2>0, SoundExports DEF Sound, AnExport, AllSound
  <2> HIDE DEF y
  <2> QED  BY <1>0, <2>3, <2>4, <2>5, ReplaceExport
<1>3. CASE ExportReturn(h)
  BY <1>0, <1>3, NoExportSound, ReplaceExport DEF ExportReturn
<1> QED  BY <1>1, <1>2, <1>3

\* The process ends, or a handler panics: exports disappear.
LEMMA ForgetKeepsInv ==
  ASSUME ExportTypeOK, ExportInv, table' = table,
         export' \in [HttpSlots -> Exports],
         \A h \in HttpSlots : export'[h] \in {export[h], NoExport}
  PROVE  ExportTypeOK' /\ ExportInv'
<1>1. ExportTypeOK'
  BY DEF ExportTypeOK
<1>2. AllSound
  BY SoundExports
<1>3. \A h \in HttpSlots : Sound(export'[h], table')
  BY <1>2, NoExportSound DEF AllSound
<1>4. AllSound'
  BY <1>3 DEF AllSound, Sound, Qualifies
<1>5. ExportTypeOK' => (ExportInv' <=> AllSound')
  BY SoundExports, PTL
<1> QED  BY <1>1, <1>4, <1>5

-----------------------------------------------------------------------------
(***************************************************************************)
(* Requests.                                                               *)
(***************************************************************************)
\* A request that a slot can hold
Fits(r, x) == x \in Requests /\ (x # NoRequest => (r \in GrpcSlots <=> x.kind \in RpcKinds))

\* The part of TypeOK about requests
RequestsOK == request \in [Slots -> Requests] /\ \A r \in Slots : Fits(r, request[r])

\* Requests in the other slots stay as they are.
LEMMA ReplaceRequest ==
  ASSUME RequestsOK, NEW r \in Slots, NEW x, Fits(r, x),
         request' = [request EXCEPT ![r] = x]
  PROVE  /\ RequestsOK' /\ request'[r] = x
         /\ \A q \in Slots : q # r => request'[q] = request[q]
<1>1. request' \in [Slots -> Requests] /\ request'[r] = x
  BY DEF RequestsOK, Fits
<1>2. \A q \in Slots : q # r => request'[q] = request[q]
  BY DEF RequestsOK
<1>3. \A q \in Slots : Fits(q, request'[q])
  BY <1>1, <1>2 DEF RequestsOK
<1> QED  BY <1>1, <1>2, <1>3 DEF RequestsOK, Fits

\* Every slot can be empty.
LEMMA EmptyFits == \A r : Fits(r, NoRequest)
BY DEF Fits, Requests

\* A request on its way through the middleware still fits its slot.
LEMMA GotoFits ==
  ASSUME RequestsOK, NEW r \in Slots, request[r].at \in {"limit", "auth"},
         NEW at \in {"auth", "handle"}
  PROVE  [request[r] EXCEPT !.at = at] # NoRequest /\ Fits(r, [request[r] EXCEPT !.at = at])
<1> DEFINE x == request[r]
           y == [at |-> at, kind |-> x.kind]
<1>1. x \in Requests /\ x # NoRequest /\ Fits(r, x)
  BY DEF RequestsOK, NoRequest
<1>2. x \in [at : {"limit", "auth", "handle"}, kind : {"filter", "words", "export", "rpc"}]
  BY <1>1 DEF Requests, NoRequest
<1>3. [x EXCEPT !.at = at] = y /\ y.kind = x.kind /\ y \in Requests /\ y # NoRequest
  BY <1>2 DEF Requests, NoRequest
<1> QED  BY <1>1, <1>3 DEF Fits

\* The steps of a request touch no other, and a slot is filled only by a
\* server that is serving.
LEMMA RequestStep ==
  ASSUME RequestsOK, NEW r \in Slots,
         (r \in HttpSlots /\ HttpNext(r)) \/ (r \in GrpcSlots /\ RpcNext(r))
  PROVE  /\ RequestsOK' /\ UNCHANGED processVars
         /\ \A q \in Slots : request[q] = NoRequest /\ request'[q] # NoRequest =>
              \/ q \in HttpSlots \ GrpcSlots /\ httpSrv = "serving"
              \/ q \in GrpcSlots \ HttpSlots /\ grpcSrv = "serving"
<1> DEFINE Opens == \A q \in Slots : request[q] = NoRequest /\ request'[q] # NoRequest =>
              \/ q \in HttpSlots \ GrpcSlots /\ httpSrv = "serving"
              \/ q \in GrpcSlots \ HttpSlots /\ grpcSrv = "serving"
<1> USE ServerAssumption
<1>0. UNCHANGED processVars
  BY DEF HttpNext, RpcNext, RequestNext, AcceptHttp, AcceptRpc, RateLimit, Auth, Panic,
     FilterHandler, GrpcHandler, WordHandler, HealthHandler, Export
<1>1. CASE Answer(r)
  BY <1>0, <1>1, EmptyFits, ReplaceRequest DEF Answer
<1>2. ASSUME NEW at \in {"auth", "handle"}, Goto(r, at), request[r].at \in {"limit", "auth"}
      PROVE  RequestsOK' /\ Opens
  <2> DEFINE x == [request[r] EXCEPT !.at = at]
  <2>1. x # NoRequest /\ Fits(r, x)
    BY <1>2, GotoFits
  <2>2. request' = [request EXCEPT ![r] = x]
    BY <1>2 DEF Goto
  <2>3. request[r] # NoRequest
    BY <1>2 DEF NoRequest
  <2> HIDE DEF x
  <2> QED  BY <2>1, <2>2, <2>3, ReplaceRequest
<1>3. CASE UNCHANGED request
  BY <1>0, <1>3 DEF RequestsOK, Fits
<1>4. CASE r \in HttpSlots /\ AcceptHttp(r)
  <2>1. PICK kind \in HttpKinds : request' = [request EXCEPT ![r] =
          [at |-> IF kind = "health" THEN "handle" ELSE "limit", kind |-> kind]]
    BY <1>4 DEF AcceptHttp
  <2> DEFINE x == [at |-> IF kind = "health" THEN "handle" ELSE "limit", kind |-> kind]
  <2>2. x \in Requests
    <3>1. CASE kind = "health"
      BY <3>1 DEF Requests
    <3>2. CASE kind # "health"
      BY <3>2 DEF Requests, HttpKinds
    <3> QED  BY <3>1, <3>2
  <2>3. x.kind \notin RpcKinds /\ r \notin GrpcSlots
    BY <1>4 DEF HttpKinds, RpcKinds
  <2>4. httpSrv = "serving"
    BY <1>4 DEF AcceptHttp
  <2> HIDE DEF x
  <2>5. Fits(r, x)
    BY <2>2, <2>3 DEF Fits
  <2> QED  BY <1>0, <1>4, <2>1, <2>3, <2>4, <2>5, ReplaceRequest DEF x
<1>5. CASE r \in GrpcSlots /\ AcceptRpc(r)
  <2>1. PICK kind \in RpcKinds : request' = [request EXCEPT ![r] =
          [at |-> IF kind = "watch" THEN "handle" ELSE "limit", kind |-> kind]]
    BY <1>5 DEF AcceptRpc
  <2> DEFINE x == [at |-> IF kind = "watch" THEN "handle" ELSE "limit", kind |-> kind]
  <2>2. x \in Requests
    <3>1. CASE kind = "watch"
      BY <3>1 DEF Requests
    <3>2. CASE kind # "watch"
      BY <3>2 DEF Requests, RpcKinds
    <3> QED  BY <3>1, <3>2
  <2>3. x.kind \in RpcKinds /\ r \notin HttpSlots
    BY <1>5
  <2>4. grpcSrv = "serving"
    BY <1>5 DEF AcceptRpc
  <2> HIDE DEF x
  <2>5. Fits(r, x)
    BY <1>5, <2>2, <2>3 DEF Fits
  <2> QED  BY <1>0, <1>5, <2>1, <2>3, <2>4, <2>5, ReplaceRequest DEF x
<1>6. CASE RateLimit(r) \/ Auth(r)
  BY <1>0, <1>1, <1>2, <1>6 DEF RateLimit, Auth
<1>7. CASE Panic(r) \/ FilterHandler(r) \/ GrpcHandler(r) \/ WordHandler(r) \/ HealthHandler(r)
  BY <1>0, <1>1, <1>7 DEF Panic, FilterHandler, GrpcHandler, WordHandler, HealthHandler
<1>8. CASE Export(r)
  BY <1>0, <1>1, <1>3, <1>8 DEF Export
<1> QED  BY <1>0, <1>4, <1>5, <1>6, <1>7, <1>8, ReplaceRequest DEF HttpNext, RpcNext, RequestNext

-----------------------------------------------------------------------------
(***************************************************************************)
(* The process.                                                            *)
(***************************************************************************)
\* The part of TypeOK about main, the servers and the history
ProcessOK ==
  /\ main \in Boots \cup {"serve"} \cup Stops \cup Ends
  /\ open \in SUBSET {"mysql", "redis"}
  /\ poll \in {"off", "running", "ended"}
  /\ grpcSrv \in {"off", "listen", "bound", "serving", "stopping", "stopped"}
  /\ httpSrv \in {"off", "listen", "serving", "stopped"}
  /\ forced \in SUBSET {"poll", "grpc", "http"}

\* TypeOK is the conjunction of its three parts.
LEMMA TypeParts == TypeOK <=> ExportTypeOK /\ RequestsOK /\ ProcessOK
BY DEF TypeOK, RequestsOK, Fits, ProcessOK

\* What all steps of main and of the server goroutines have in common
MainNext == Boot \/ SignalEarly \/ Signal \/ PollEnds \/ Shutdown \/ Servers
Quiet == request' = [r \in Slots |-> NoRequest]
Forgets == export' = [h \in HttpSlots |-> NoExport]

\* main and the servers leave requests and exports alone, or end them all.
LEMMA MainFrame ==
  ASSUME MainNext
  PROVE  /\ table' = table
         /\ UNCHANGED <<request, export>> \/ (Quiet /\ Forgets /\ main' \in Ends)
<1> USE DEF Die, exportVars, Ends, Quiet, Forgets
<1>1. CASE Boot \/ SignalEarly \/ Signal \/ PollEnds
  BY <1>1 DEF Boot, LoadConfig, NewLogger, InitTracer, NewMySQL, AutoMigrate, NewRedis,
     InitEngine, Launch, Notify, Then, Fatal, SignalEarly, Signal, PollEnds
<1>2. CASE Shutdown
  BY <1>2 DEF Shutdown, CloseReturns, GrpcStops, HttpStops, CloseRedis, CloseMySQL,
     CloseTracer, Then
<1>3. CASE Servers
  BY <1>3 DEF Servers, GrpcListen, GrpcServe, HttpListen, AcceptFails, Fatal
<1> QED  BY <1>1, <1>2, <1>3 DEF MainNext

\* The states of main, of the servers and of the history keep their types.
LEMMA MainType ==
  ASSUME ProcessOK, MainNext
  PROVE  ProcessOK'
<1> USE DEF Ends, Boots, Stops, ProcessOK
<1>0. ASSUME Fatal \/ SignalEarly PROVE ProcessOK'
  BY <1>0 DEF Fatal, SignalEarly, Die
<1>1. CASE Boot
  <2>1. CASE LoadConfig \/ NewLogger \/ InitTracer
    BY <1>0, <2>1 DEF LoadConfig, NewLogger, InitTracer, Then
  <2>2. CASE NewMySQL \/ AutoMigrate
    BY <1>0, <2>2 DEF NewMySQL, AutoMigrate, Then
  <2>3. CASE NewRedis \/ InitEngine
    BY <1>0, <2>3 DEF NewRedis, InitEngine, Then
  <2>4. CASE Launch \/ Notify
    BY <2>4 DEF Launch, Notify, Then
  <2> QED  BY <1>1, <2>1, <2>2, <2>3, <2>4 DEF Boot
<1>2. CASE SignalEarly \/ Signal \/ PollEnds
  <2>1. CASE Signal
    BY <2>1 DEF Signal, Then
  <2>2. CASE PollEnds
    BY <2>2 DEF PollEnds
  <2> QED  BY <1>0, <1>2, <2>1, <2>2
<1>3. CASE Shutdown
  <2>1. ASSUME NEW timeout \in BOOLEAN,
               CloseReturns(timeout) \/ GrpcStops(timeout) \/ HttpStops(timeout)
        PROVE  ProcessOK'
    <3>1. CASE CloseReturns(timeout)
      BY <3>1 DEF CloseReturns
    <3>2. CASE GrpcStops(timeout)
      BY <3>2 DEF GrpcStops
    <3>3. CASE HttpStops(timeout)
      BY <3>3 DEF HttpStops
    <3> QED  BY <2>1, <3>1, <3>2, <3>3
  <2>2. CASE CloseRedis \/ CloseMySQL
    BY <2>2 DEF CloseRedis, CloseMySQL, Then
  <2>3. CASE CloseTracer
    BY <2>3 DEF CloseTracer, Die
  <2> QED  BY <1>3, <2>1, <2>2, <2>3 DEF Shutdown
<1>4. CASE Servers
  <2>1. CASE GrpcListen
    BY <1>0, <2>1 DEF GrpcListen
  <2>2. CASE GrpcServe
    BY <1>0, <2>2 DEF GrpcServe
  <2>3. CASE HttpListen
    BY <1>0, <2>3 DEF HttpListen
  <2>4. CASE AcceptFails
    BY <1>0, <2>4 DEF AcceptFails
  <2> QED  BY <1>4, <2>1, <2>2, <2>3, <2>4 DEF Servers
<1> QED  BY <1>1, <1>2, <1>3, <1>4 DEF MainNext

\* A stopped server stays stopped, and main leaves a wait with nothing in
\* flight or with its timer gone off.
LEMMA MainDrains ==
  ASSUME ProcessOK, DrainInv, MainNext
  PROVE  DrainInv'
<1> USE DEF Ends, Boots, Stops, GrpcStopCalled, HttpShutdownCalled
<1>1. CASE main' \in Ends \cup Boots \cup {"serve", "close"}
  BY <1>1 DEF DrainInv
<1>2. CASE main' \notin Ends \cup Boots \cup {"serve", "close"}
  <2>1. UNCHANGED request
    BY <1>2, MainFrame
  <2>2. InFlight(GrpcSlots)' = InFlight(GrpcSlots) /\ InFlight(HttpSlots)' = InFlight(HttpSlots)
    BY <2>1 DEF InFlight
  <2>3. CASE Boot \/ SignalEarly \/ Signal
    BY <1>2, <2>3 DEF Boot, LoadConfig, NewLogger, InitTracer, NewMySQL, AutoMigrate, NewRedis,
       InitEngine, Launch, Notify, Then, Fatal, Die, SignalEarly, Signal
  <2>4. CASE PollEnds
    BY <2>2, <2>4 DEF PollEnds, DrainInv
  <2>5. ASSUME NEW timeout \in BOOLEAN, CloseReturns(timeout)
        PROVE  DrainInv'
    BY <2>2, <2>5 DEF CloseReturns, DrainInv, ProcessOK
  <2>6. ASSUME NEW timeout \in BOOLEAN, GrpcStops(timeout)
        PROVE  DrainInv'
    BY <2>2, <2>6 DEF GrpcStops, DrainInv, ProcessOK
  <2>7. ASSUME NEW timeout \in BOOLEAN, HttpStops(timeout)
        PROVE  DrainInv'
    BY <2>2, <2>7 DEF HttpStops, DrainInv, ProcessOK
  <2>8. CASE CloseRedis \/ CloseMySQL
    BY <2>2, <2>8 DEF CloseRedis, CloseMySQL, Then, DrainInv
  <2>9. CASE CloseTracer
    BY <1>2, <2>9 DEF CloseTracer, Die
  <2>10. CASE Servers
    BY <1>2, <2>2, <2>10 DEF Servers, GrpcListen, GrpcServe, HttpListen, AcceptFails, Fatal,
       Die, DrainInv
  <2> QED
    BY <2>3, <2>4, <2>5, <2>6, <2>7, <2>8, <2>9, <2>10 DEF MainNext, Shutdown
<1> QED  BY <1>1, <1>2

-----------------------------------------------------------------------------
(***************************************************************************)
(* All steps.                                                              *)
(***************************************************************************)
IInv == TypeOK /\ DrainInv /\ ExportInv

\* What a request does to the exports
LEMMA RequestExport ==
  ASSUME ExportTypeOK, ExportInv, NEW r \in Slots,
         (r \in HttpSlots /\ HttpNext(r)) \/ (r \in GrpcSlots /\ RpcNext(r))
  PROVE  ExportTypeOK' /\ ExportInv'
<1>1. CASE UNCHANGED exportVars
  BY <1>1 DEF exportVars, ExportTypeOK, ExportInv, Matching, Qualifies
<1>2. CASE Write
  BY <1>2, WriteKeepsInv
<1>3. CASE Panic(r)
  <2>1. \A h \in HttpSlots : export'[h] \in {export[h], NoExport}
    BY <1>3 DEF Panic
  <2>2. export' \in [HttpSlots -> Exports] /\ table' = table
    BY <1>3, NoExportSound DEF Panic, ExportTypeOK
  <2> QED  BY <2>1, <2>2, ForgetKeepsInv
<1>4. CASE r \in HttpSlots /\ Export(r)
  BY <1>4, BatchKeepsInv, EndsKeepInv DEF Export
<1> QED  BY <1>1, <1>2, <1>3, <1>4 DEF HttpNext, RpcNext, RequestNext, AcceptHttp, AcceptRpc,
            RateLimit, Auth, FilterHandler, GrpcHandler, WordHandler, HealthHandler

\* A process that has not started yet satisfies the invariant.
LEMMA InitIInv == Init => IInv
<1> SUFFICES ASSUME Init PROVE IInv
  OBVIOUS
<1>1. ExportTypeOK /\ AllSound
  <2>1. \A h \in HttpSlots : export[h] = NoExport
    BY DEF Init, ExportInit
  <2>2. table \in [Ids -> {"free", "active", "inactive", "deleted"}]
    BY DEF Init, ExportInit
  <2> QED  BY <2>1, <2>2, NoExportSound DEF Init, ExportInit, ExportTypeOK, AllSound
<1>2. ExportInv
  BY <1>1, SoundExports
<1>3. RequestsOK
  BY EmptyFits DEF Init, RequestsOK, Fits
<1>4. ProcessOK /\ DrainInv
  BY DEF Init, ProcessOK, DrainInv, Boots, Stops, GrpcStopCalled, HttpShutdownCalled
<1> QED  BY <1>1, <1>2, <1>3, <1>4, TypeParts DEF IInv

\* Every step preserves it.
LEMMA NextIInv == IInv /\ [Next]_vars => IInv'
<1> SUFFICES ASSUME IInv, [Next]_vars PROVE IInv'
  OBVIOUS
<1>0. ExportTypeOK /\ RequestsOK /\ ProcessOK /\ DrainInv /\ ExportInv
  BY TypeParts DEF IInv
<1>1. TypeOK' <=> ExportTypeOK' /\ RequestsOK' /\ ProcessOK'
  BY TypeParts, PTL
<1>2. CASE MainNext
  <2>1. /\ table' = table
        /\ UNCHANGED <<request, export>> \/ (Quiet /\ Forgets)
    BY <1>2, MainFrame
  <2>2. RequestsOK'
    BY <1>0, <2>1, EmptyFits DEF Quiet, RequestsOK, Fits
  <2>3. ExportTypeOK' /\ ExportInv'
    <3>1. export' \in [HttpSlots -> Exports]
      BY <1>0, <2>1, NoExportSound DEF Forgets, ExportTypeOK
    <3>2. \A h \in HttpSlots : export'[h] \in {export[h], NoExport}
      BY <2>1 DEF Forgets
    <3> QED  BY <1>0, <2>1, <3>1, <3>2, ForgetKeepsInv
  <2> QED  BY <1>0, <1>1, <1>2, <2>2, <2>3, MainType, MainDrains DEF IInv
<1>3. ASSUME NEW r \in Slots,
             (r \in HttpSlots /\ HttpNext(r)) \/ (r \in GrpcSlots /\ RpcNext(r))
      PROVE  IInv'
  <2>1. /\ RequestsOK' /\ UNCHANGED processVars
        /\ \A q \in Slots : request[q] = NoRequest /\ request'[q] # NoRequest =>
             \/ q \in HttpSlots \ GrpcSlots /\ httpSrv = "serving"
             \/ q \in GrpcSlots \ HttpSlots /\ grpcSrv = "serving"
    BY <1>0, <1>3, RequestStep
  <2>2. ProcessOK'
    BY <1>0, <2>1 DEF ProcessOK, processVars
  <2>3. DrainInv'
    BY <1>0, <2>1 DEF DrainInv, processVars, InFlight, Slots, GrpcStopCalled,
       HttpShutdownCalled, Stops
  <2> QED  BY <1>0, <1>1, <1>3, <2>1, <2>2, <2>3, RequestExport DEF IInv
<1>4. CASE OtherProcess
  <2>1. UNCHANGED serverVars /\ Write
    BY <1>4 DEF OtherProcess
  <2>2. RequestsOK' /\ ProcessOK' /\ DrainInv'
    BY <1>0, <2>1 DEF serverVars, RequestsOK, Fits, ProcessOK, DrainInv, InFlight,
       GrpcStopCalled, HttpShutdownCalled
  <2> QED  BY <1>0, <1>1, <2>1, <2>2, WriteKeepsInv DEF IInv
<1>5. CASE UNCHANGED vars
  BY <1>0, <1>1, <1>5 DEF vars, exportVars, serverVars, IInv, RequestsOK, Fits, ProcessOK,
     DrainInv, InFlight, GrpcStopCalled, HttpShutdownCalled, ExportTypeOK, ExportInv,
     Matching, Qualifies
<1> QED  BY <1>2, <1>3, <1>4, <1>5 DEF Next, MainNext, Slots

\* Process, servers, requests and exports keep their types for any number of
\* requests, any table and any batch size.
THEOREM TypeCorrect == Spec => []TypeOK
<1>1. IInv => TypeOK
  BY DEF IInv
<1> QED  BY <1>1, InitIInv, NextIInv, PTL DEF Spec

\* Redis, MySQL and the tracer are closed under no request and no poll loop,
\* except those that used up the time they were given, for any number of
\* requests in flight.
THEOREM CleanupAfterDrain == Spec => []DrainedBeforeCleanup
<1>1. IInv => DrainedBeforeCleanup
  BY DEF IInv, DrainInv, DrainedBeforeCleanup, GrpcStopCalled, HttpShutdownCalled, Stops
<1> QED  BY <1>1, InitIInv, NextIInv, PTL DEF Spec

\* An export that met no error is complete and holds no row twice, for any
\* table, batch size and number of exports, whatever is inserted, updated or
\* deleted between its batches.
THEOREM ExportIsComplete == Spec => []ExportComplete
<1>1. IInv => ExportComplete
  BY DEF IInv, ExportInv, ExportComplete
<1> QED  BY <1>1, InitIInv, NextIInv, PTL DEF Spec
=============================================================================
