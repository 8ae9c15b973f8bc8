----------------------------- MODULE ApiGateway -----------------------------
(***************************************************************************)
(* A process (Process) and, in the API gateway, the service of its gRPC    *)
(* server (TaskService): requests are accepted while the server is up, and *)
(* GracefulStop lets Serve return once the handlers in progress are done.  *)
(* The context of a handler is that of its client's call, not that of the  *)
(* process: a signal does not end it.                                      *)
(***************************************************************************)
EXTENDS Process, TaskService

gatewayVars == <<processVars, serviceVars>>

GatewayInit == ProcessInit /\ ServiceInit

Up == binary = "apigateway" /\ phase = "run" /\ member["grpc"] = "up"

serviceState == <<repoVars, call, answers, request, asked, watch>>

GatewayNext ==
  \/ ProcessStep(Drained) /\ UNCHANGED serviceState
  \/ Signal /\ UNCHANGED serviceState
  \/ Up /\ NewRequest /\ UNCHANGED processVars
  \/ HandlerStep /\ UNCHANGED processVars
  \/ (\E u \in Stream : StreamBroken(u)) /\ UNCHANGED processVars
  \/ (\E t \in TaskID, next \in Status : Progress(t, next)) /\ UNCHANGED processVars

(***************************************************************************)
(* The process goes on as long as it can, the database answers and the     *)
(* tickers of the streams fire.  Nothing is assumed of clients, signals    *)
(* and the progress of tasks.                                              *)
(***************************************************************************)
GatewayFairness ==
  /\ WF_gatewayVars(ProcessStep(Drained) /\ UNCHANGED serviceState)
  /\ \A c \in Request : WF_gatewayVars(EnqueueCreate(c) /\ UNCHANGED processVars)
  /\ \A u \in Stream : WF_gatewayVars(StreamTick(u) /\ UNCHANGED processVars)

GatewaySpec == GatewayInit /\ [][GatewayNext]_gatewayVars /\ GatewayFairness

-----------------------------------------------------------------------------
(***************************************************************************)
(* No handler is in progress without the connection pool it uses: the      *)
(* deferred pool.Close of RunAPIGateway (apigateway.go:53) comes after the *)
(* last handler, whichever member of the errgroup ended first and why.     *)
(***************************************************************************)
HandlersHavePool == ~Drained => \E i \in DOMAIN open : open[i] = "pool"

\* A stream on a task that is not finished keeps its handler busy.
StreamWaits ==
  \E u \in Stream : watch[u] # NoTask /\ ~StreamEnds(tasks[watch[u]].status)

(***************************************************************************)
(* "signal.NotifyContext + errgroup give a correct graceful shutdown"      *)
(* (PLAN.md:511): a gateway that is signalled while it serves a stream     *)
(* ends.                                                                   *)
(***************************************************************************)
SignalStops == [](StreamWaits /\ ~signalled => [](signalled => <>Exited))

(***************************************************************************)
(* A process that is asked to stop, or one of whose members failed, ends   *)
(* (server.go:64-69, apigateway.go:71-74 and their counterparts), unless   *)
(* again and again a stream waits for a task that is not finished.         *)
(***************************************************************************)
StopsUnlessStreamWaits == (Cancelled ~> Exited) \/ []<>StreamWaits
=============================================================================
