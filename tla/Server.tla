------------------------------- MODULE Server -------------------------------
(***************************************************************************)
(* The process (cmd/server/main.go): start-up, the goroutines of the gRPC   *)
(* and the HTTP server, requests on their way through interceptors,        *)
(* middleware and handlers, and the shutdown in its five bounded steps.     *)
(*                                                                         *)
(* What a handler computes is in the other modules; here it is answered,   *)
(* writes one statement, or exports (WordExport.tla).  Handlers, the poll  *)
(* loop and the clients may take as long as they like; timers may go off   *)
(* at any time while they are armed.                                       *)
(***************************************************************************)
EXTENDS WordExport

CONSTANT GrpcSlots   \* the RPCs that may be served at once

ASSUME ServerAssumption == HttpSlots \cap GrpcSlots = {}

VARIABLES
  main,      \* what main() does next
  open,      \* clients and pools that are open
  poll,      \* the poll loop
  grpcSrv,   \* the gRPC server and the goroutine that calls Serve
  httpSrv,   \* the HTTP server and its goroutine
  request,   \* the request in each slot
  forced     \* history: the waits that ended by their timer

serverVars == <<main, open, poll, grpcSrv, httpSrv, request, forced>>
vars == <<exportVars, serverVars>>

Slots == HttpSlots \cup GrpcSlots
HttpKinds == {"filter", "words", "export", "health"}
RpcKinds == {"rpc", "watch"}
NoRequest == [at |-> "none"]
Requests ==
  {NoRequest} \cup [at : {"handle"}, kind : {"health", "watch"}] \cup
  [at : {"limit", "auth", "handle"}, kind : {"filter", "words", "export", "rpc"}]

Boots == {"config", "logger", "tracer", "mysql", "migrate", "redis", "engine",
          "launch", "notify"}
Stops == {"close", "grpc", "http", "closeRedis", "closeMySQL", "closeTracer"}
Ends == {"exited", "fatal", "killed"}

TypeOK ==
  /\ ExportTypeOK
  /\ main \in Boots \cup {"serve"} \cup Stops \cup Ends
  /\ open \in SUBSET {"mysql", "redis"}
  /\ poll \in {"off", "running", "ended"}
  /\ grpcSrv \in {"off", "listen", "bound", "serving", "stopping", "stopped"}
  /\ httpSrv \in {"off", "listen", "serving", "stopped"}
  /\ request \in [Slots -> Requests]
  /\ \A r \in Slots : request[r] # NoRequest =>
       (r \in GrpcSlots <=> request[r].kind \in RpcKinds)
  /\ forced \in SUBSET {"poll", "grpc", "http"}

Init ==
  /\ ExportInit
  /\ main = "config" /\ open = {} /\ poll = "off"
  /\ grpcSrv = "off" /\ httpSrv = "off"
  /\ request = [r \in Slots |-> NoRequest]
  /\ forced = {}

-----------------------------------------------------------------------------
(***************************************************************************)
(* The end of the process: its goroutines and connections are gone.        *)
(***************************************************************************)
Alive == main \notin Ends

Die(how) ==
  /\ main' = how
  /\ open' = {} /\ poll' = "off"
  /\ request' = [r \in Slots |-> NoRequest]
  /\ export' = [h \in HttpSlots |-> NoExport]
  /\ UNCHANGED <<table, forced>>

\* log.Fatal and os.Exit(1) run no deferred call.
Fatal == Die("fatal") /\ UNCHANGED <<grpcSrv, httpSrv>>

-----------------------------------------------------------------------------
(***************************************************************************)
(* Start-up: every step but the tracer's ends the process when it fails.   *)
(***************************************************************************)
Then(next, pools) ==
  /\ main' = next /\ open' = pools
  /\ UNCHANGED <<exportVars, poll, grpcSrv, httpSrv, request, forced>>

LoadConfig == main = "config" /\ (Then("logger", open) \/ Fatal)
NewLogger == main = "logger" /\ (Then("tracer", open) \/ Fatal)
InitTracer == main = "tracer" /\ Then("mysql", open)
NewMySQL == main = "mysql" /\ (Then("migrate", {"mysql"}) \/ Fatal)
AutoMigrate == main = "migrate" /\ (Then("redis", open) \/ Fatal)
NewRedis == main = "redis" /\ (Then("engine", open \cup {"redis"}) \/ Fatal)
InitEngine == main = "engine" /\ (Then("launch", open) \/ Fatal)

\* Start and the two go statements
Launch ==
  /\ main = "launch"
  /\ main' = "notify" /\ poll' = "running"
  /\ grpcSrv' = "listen" /\ httpSrv' = "listen"
  /\ UNCHANGED <<exportVars, open, request, forced>>

Notify == main = "notify" /\ Then("serve", open)

\* Before signal.Notify a signal has its default effect.
SignalEarly ==
  /\ main \in Boots
  /\ Die("killed")
  /\ UNCHANGED <<grpcSrv, httpSrv>>

-----------------------------------------------------------------------------
(***************************************************************************)
(* The server goroutines.                                                  *)
(***************************************************************************)
\* net.Listen
GrpcListen ==
  /\ Alive /\ grpcSrv = "listen"
  /\ \/ Fatal
     \/ /\ grpcSrv' = "bound"
        /\ UNCHANGED <<exportVars, main, open, poll, httpSrv, request, forced>>

\* Has main called GracefulStop?
GrpcStopCalled == main \in Stops \ {"close"}

\* Serve on a server that has been stopped returns ErrServerStopped: a shutdown
\* that overtakes the goroutine ends in log.Fatal.
GrpcServe ==
  /\ Alive /\ grpcSrv = "bound"
  /\ \/ GrpcStopCalled /\ Fatal
     \/ /\ ~GrpcStopCalled
        /\ grpcSrv' = "serving"
        /\ UNCHANGED <<exportVars, main, open, poll, httpSrv, request, forced>>

HttpShutdownCalled == main \in Stops \ {"close", "grpc"}

\* ListenAndServe; after Shutdown it returns ErrServerClosed, which is no error.
HttpListen ==
  /\ Alive /\ httpSrv = "listen"
  /\ \/ ~HttpShutdownCalled /\ Fatal
     \/ /\ httpSrv' = IF HttpShutdownCalled THEN "stopped" ELSE "serving"
        /\ UNCHANGED <<exportVars, main, open, poll, grpcSrv, request, forced>>

\* A listener breaks: Serve returns an error.
AcceptFails ==
  /\ Alive /\ (grpcSrv = "serving" \/ httpSrv = "serving")
  /\ Fatal

-----------------------------------------------------------------------------
(***************************************************************************)
(* Requests.                                                               *)
(***************************************************************************)
Goto(r, at) == request' = [request EXCEPT ![r].at = at]
Answer(r) == request' = [request EXCEPT ![r] = NoRequest]
processVars == <<main, open, poll, grpcSrv, httpSrv, forced>>

\* Mutant: the health checks are routes of the API group.
AcceptHttpGrouped(h) ==
  /\ Alive /\ httpSrv = "serving" /\ request[h] = NoRequest
  /\ \E kind \in HttpKinds :
       request' = [request EXCEPT ![h] = [at |-> "limit", kind |-> kind]]
  /\ UNCHANGED <<exportVars, processVars>>

\* The routes: health checks bypass rate limit and authentication.
AcceptHttp(h) ==
  /\ Alive /\ httpSrv = "serving" /\ request[h] = NoRequest
  /\ \E kind \in HttpKinds :
       request' = [request EXCEPT ![h] =
         [at |-> IF kind = "health" THEN "handle" ELSE "limit", kind |-> kind]]
  /\ UNCHANGED <<exportVars, processVars>>

\* Unary calls go through the interceptors, those of the health service's
\* Check too; its Watch is a stream, which they do not see.
AcceptRpc(g) ==
  /\ Alive /\ grpcSrv = "serving" /\ request[g] = NoRequest
  /\ \E kind \in RpcKinds :
       request' = [request EXCEPT ![g] =
         [at |-> IF kind = "watch" THEN "handle" ELSE "limit", kind |-> kind]]
  /\ UNCHANGED <<exportVars, processVars>>

\* RateLimit: 429, ResourceExhausted, or on
RateLimit(r) ==
  /\ request[r].at = "limit"
  /\ Answer(r) \/ Goto(r, "auth")
  /\ UNCHANGED <<exportVars, processVars>>

\* Auth: 401, Unauthenticated, or on
Auth(r) ==
  /\ request[r].at = "auth"
  /\ Answer(r) \/ Goto(r, "handle")
  /\ UNCHANGED <<exportVars, processVars>>

Handles(r, kind) == request[r].at = "handle" /\ request[r].kind = kind

\* Detect, Replace, Highlight, BatchDetect: 400, an error or the result
FilterHandler(h) ==
  /\ Handles(h, "filter")
  /\ Answer(h)
  /\ UNCHANGED <<exportVars, processVars>>

\* The result or an error; Watch ends when its client leaves.
GrpcHandler(g) ==
  /\ \E kind \in RpcKinds : Handles(g, kind)
  /\ Answer(g)
  /\ UNCHANGED <<exportVars, processVars>>

\* Get and List only read; a request that is not valid, a word that is not
\* there and a query that fails are answered with an error.
WordHandler(h) ==
  /\ Handles(h, "words")
  /\ \/ "mysql" \in open /\ Write
     \/ UNCHANGED exportVars
  /\ Answer(h)
  /\ UNCHANGED processVars

\* Liveness and Readiness: alive, ready, or 503 when a ping fails
HealthHandler(h) ==
  /\ Handles(h, "health")
  /\ Answer(h)
  /\ UNCHANGED <<exportVars, processVars>>

Export(h) ==
  /\ Handles(h, "export")
  /\ \/ ExportBegin(h) /\ UNCHANGED request
     \/ "mysql" \in open /\ ExportBatch(h) /\ UNCHANGED request
     \/ ExportFail(h) /\ UNCHANGED request
     \/ ExportReturn(h) /\ Answer(h)
  /\ UNCHANGED processVars

\* A panic in a handler is answered by Recovery and RecoveryInterceptor; the
\* library's Watch is taken not to panic.
Panic(r) ==
  /\ request[r].at = "handle" /\ request[r].kind # "watch"
  /\ Answer(r)
  /\ export' = [h \in HttpSlots |-> IF h = r THEN NoExport ELSE export[h]]
  /\ UNCHANGED <<table, processVars>>

\* Another process of the service writes to the table.
OtherProcess == Write /\ UNCHANGED serverVars

-----------------------------------------------------------------------------
(***************************************************************************)
(* Shutdown.                                                               *)
(***************************************************************************)
\* <-quit and cancel(); a second signal is not read any more.
Signal == main = "serve" /\ Then("close", open)

\* pollLoop sees its context cancelled.
PollEnds ==
  /\ poll = "running" /\ main \in Stops
  /\ poll' = "ended"
  /\ UNCHANGED <<exportVars, main, open, grpcSrv, httpSrv, request, forced>>

\* Close waits for the loop or for shutdownTimeout; GracefulStop begins: it
\* closes the listener.
CloseReturns(timeout) ==
  /\ main = "close"
  /\ timeout \/ poll = "ended"
  /\ main' = "grpc"
  /\ grpcSrv' = IF grpcSrv = "serving" THEN "stopping" ELSE grpcSrv
  /\ forced' = IF timeout THEN forced \cup {"poll"} ELSE forced
  /\ UNCHANGED <<exportVars, open, poll, httpSrv, request>>

InFlight(S) == \E r \in S : request[r] # NoRequest

\* Mutant: main does not wait for grpcDone.
GrpcStopsAtOnce(timeout) ==
  /\ main = "grpc"
  /\ main' = "http"
  /\ grpcSrv' = IF grpcSrv = "stopping" THEN "stopped" ELSE grpcSrv
  /\ httpSrv' = IF httpSrv = "serving" THEN "stopped" ELSE httpSrv
  /\ forced' = IF timeout THEN forced \cup {"grpc"} ELSE forced
  /\ UNCHANGED <<exportVars, open, poll, request>>

\* Mutant: GracefulStop has no time limit.
GrpcStopsUnbounded(timeout) ==
  /\ main = "grpc"
  /\ ~timeout /\ ~InFlight(GrpcSlots)
  /\ main' = "http"
  /\ grpcSrv' = IF grpcSrv = "stopping" THEN "stopped" ELSE grpcSrv
  /\ httpSrv' = IF httpSrv = "serving" THEN "stopped" ELSE httpSrv
  /\ UNCHANGED <<exportVars, open, poll, request, forced>>

\* GracefulStop waits for every RPC; after five seconds Stop drops the
\* connections and leaves the handlers running.  Then Shutdown begins: it
\* closes the listener.
GrpcStops(timeout) ==
  /\ main = "grpc"
  /\ timeout \/ ~InFlight(GrpcSlots)
  /\ main' = "http"
  /\ grpcSrv' = IF grpcSrv = "stopping" THEN "stopped" ELSE grpcSrv
  /\ httpSrv' = IF httpSrv = "serving" THEN "stopped" ELSE httpSrv
  /\ forced' = IF timeout THEN forced \cup {"grpc"} ELSE forced
  /\ UNCHANGED <<exportVars, open, poll, request>>

\* Shutdown waits for the requests or for its context, whose ten seconds began
\* before the gRPC server was stopped: it has what that wait left of them.
HttpStops(timeout) ==
  /\ main = "http"
  /\ timeout \/ ~InFlight(HttpSlots)
  /\ main' = "closeRedis"
  /\ forced' = IF timeout THEN forced \cup {"http"} ELSE forced
  /\ UNCHANGED <<exportVars, open, poll, grpcSrv, httpSrv, request>>

\* The deferred calls, last first
CloseRedis == main = "closeRedis" /\ Then("closeMySQL", open \ {"redis"})
CloseMySQL == main = "closeMySQL" /\ Then("closeTracer", open \ {"mysql"})
CloseTracer ==
  /\ main = "closeTracer"
  /\ Die("exited")
  /\ UNCHANGED <<grpcSrv, httpSrv>>

-----------------------------------------------------------------------------
Boot ==
  \/ LoadConfig \/ NewLogger \/ InitTracer \/ NewMySQL \/ AutoMigrate
  \/ NewRedis \/ InitEngine \/ Launch \/ Notify
Shutdown ==
  \/ \E timeout \in BOOLEAN :
       CloseReturns(timeout) \/ GrpcStops(timeout) \/ HttpStops(timeout)
  \/ CloseRedis \/ CloseMySQL \/ CloseTracer
Servers == GrpcListen \/ GrpcServe \/ HttpListen \/ AcceptFails
RequestNext(r) == RateLimit(r) \/ Auth(r) \/ Panic(r)
HttpNext(h) ==
  \/ AcceptHttp(h) \/ RequestNext(h)
  \/ FilterHandler(h) \/ WordHandler(h) \/ HealthHandler(h) \/ Export(h)
RpcNext(g) == AcceptRpc(g) \/ RequestNext(g) \/ GrpcHandler(g)

Next ==
  \/ Boot \/ SignalEarly \/ Signal \/ PollEnds \/ Shutdown
  \/ Servers
  \/ \E h \in HttpSlots : HttpNext(h)
  \/ \E g \in GrpcSlots : RpcNext(g)
  \/ OtherProcess

Spec == Init /\ [][Next]_vars

\* main is scheduled and its timers go off.  Handlers, the poll loop and the
\* server goroutines may hang.
FairSpec == Spec /\ WF_vars(Shutdown)

-----------------------------------------------------------------------------
\* The connections are closed only when nobody uses them any more: a request
\* or a poll loop that is still running then has been given all the time its
\* server's, or Close's, limit allows.
DrainedBeforeCleanup ==
  main \in {"closeRedis", "closeMySQL", "closeTracer"} =>
    /\ poll = "running" => "poll" \in forced
    /\ InFlight(GrpcSlots) => "grpc" \in forced
    /\ InFlight(HttpSlots) => "http" \in forced

\* Once it has begun, shutdown ends, whatever handlers, clients and the poll
\* loop do: no wait of main is without a limit.
ShutdownEnds == main = "close" ~> main \in Ends

-----------------------------------------------------------------------------
(***************************************************************************)
(* The inductive invariant behind DrainedBeforeCleanup: once its stop was  *)
(* called a server accepts nothing, so what main waited for stays away.    *)
(***************************************************************************)
DrainInv ==
  /\ GrpcStopCalled => /\ grpcSrv # "serving"
                       /\ poll = "running" => "poll" \in forced
  /\ HttpShutdownCalled => /\ httpSrv # "serving"
                           /\ InFlight(GrpcSlots) => "grpc" \in forced
  /\ main \in {"closeRedis", "closeMySQL", "closeTracer"} =>
       (InFlight(HttpSlots) => "http" \in forced)
=============================================================================
