------------------------------- MODULE Process ------------------------------
(***************************************************************************)
(* The life of a process of rsufz, from main to its exit code              *)
(* (cmd/*/main.go, internal/app, platform/shutdown): it opens what it      *)
(* needs, runs the members of an errgroup until a signal or the first      *)
(* error cancels their context, waits for all of them, closes what it      *)
(* opened in the opposite order and exits.                                 *)
(*                                                                         *)
(* The three binaries differ in their start-up and their members.          *)
(***************************************************************************)
EXTENDS Faults, Integers, Sequences

CONSTANTS Unset,       \* an environment variable that is not set
          Garbage,     \* one that is not a duration
          Durations    \* values POLL_INTERVAL and HEARTBEAT_TIMEOUT may have

ASSUME ProcessAssumption == Unset # Garbage

VARIABLES binary,
          env,         \* the environment variables of the scheduler's tickers
          phase,       \* "start", "run", "close" or "exited"
          todo,        \* calls of the start-up still to make
          open,        \* deferred closes, the last one runs first
          member,      \* state of each member of the errgroup
          err,         \* error Run... returns: "none", "canceled" or "other"
          signalled,   \* SIGINT or SIGTERM has arrived
          code         \* exit code; -1 before the exit

processVars == <<binary, env, phase, todo, open, member, err, signalled, code>>

Binary == {"apigateway", "scheduler", "worker"}

Resource == {"trace", "pool", "redis"}

StartUp(b) ==
  IF b = "apigateway" THEN <<"trace", "migrate", "pool", "ping">>
                      ELSE <<"trace", "pool", "ping", "redis", "ping">>

Members(b) ==
  CASE b = "apigateway" -> {"grpc", "metrics"}
    [] b = "scheduler"  -> {"loop", "heartbeat", "metrics"}
    [] b = "worker"     -> {"execute", "metrics"}

\* Of the environment only the scheduler's two durations matter here.
Environments(b) ==
  IF b = "scheduler" THEN [{"loop", "heartbeat"} -> Durations \cup {Unset, Garbage}]
                     ELSE {[m \in {"loop", "heartbeat"} |-> Unset]}

ProcessInit ==
  /\ binary \in Binary
  /\ env \in Environments(binary)
  /\ phase = "start"
  /\ todo = StartUp(binary)
  /\ open = <<>>
  /\ member = [m \in Members(binary) |-> "new"]
  /\ err = "none"
  /\ signalled = FALSE
  /\ code = -1

\* The members' context is cancelled: by the signal or by the errgroup.
Cancelled == signalled \/ err # "none"

\* The errgroup keeps the first error.
FirstError(e) == err' = IF err = "none" THEN e ELSE err

-----------------------------------------------------------------------------
(***************************************************************************)
(* Start-up.                                                               *)
(***************************************************************************)
\* The calls that the context of main cancels: migrate.Up and the two Pings.
UsesContext(c) == c \in {"migrate", "ping"}

StartStep ==
  /\ phase = "start"
  /\ todo # <<>>
  /\ signalled => ~UsesContext(Head(todo))
  /\ todo' = Tail(todo)
  /\ open' = IF Head(todo) \in Resource THEN Append(open, Head(todo)) ELSE open
  /\ UNCHANGED <<faults, binary, env, phase, member, err, signalled, code>>

\* A call returns an error: its own, or that of the cancelled context.
\* redis.NewClient has none.
StartFails ==
  /\ phase = "start"
  /\ todo # <<>>
  /\ \/ Head(todo) # "redis" /\ Fault /\ err' = "other"
     \/ signalled /\ UsesContext(Head(todo)) /\ err' = "canceled" /\ UNCHANGED faults
  /\ phase' = "close"
  /\ UNCHANGED <<binary, env, todo, open, member, signalled, code>>

Launch ==
  /\ phase = "start"
  /\ todo = <<>>
  /\ phase' = "run"
  /\ UNCHANGED <<faults, binary, env, todo, open, member, err, signalled, code>>

-----------------------------------------------------------------------------
(***************************************************************************)
(* The members.                                                            *)
(***************************************************************************)
MemberStep(m, from, to) ==
  /\ phase = "run"
  /\ m \in DOMAIN member
  /\ member[m] = from
  /\ member' = [member EXCEPT ![m] = to]
  /\ UNCHANGED <<binary, env, phase, todo, open, signalled, code>>

\* envDuration: the default of both intervals is positive.
envDuration(v) == IF v \in {Unset, Garbage} THEN 100 ELSE v

\* The interval of a ticker: the monitor's is half its timeout.
Interval(m) ==
  IF m = "heartbeat" THEN envDuration(env[m]) \div 2 ELSE envDuration(env[m])

Ticks(m) == m \in {"loop", "heartbeat"}

\* The member starts: its ticker, its subscription or its listener.
MemberStarts(m) ==
  /\ m # "grpc"
  /\ Ticks(m) => Interval(m) > 0
  /\ m = "execute" => ~Cancelled
  /\ MemberStep(m, "new", "up")
  /\ UNCHANGED <<faults, err>>

\* time.NewTicker panics, which ends the process on the spot.
TickerPanics(m) ==
  /\ phase = "run"
  /\ Ticks(m) /\ m \in DOMAIN member
  /\ member[m] = "new"
  /\ Interval(m) <= 0
  /\ phase' = "exited"
  /\ code' = 2
  /\ UNCHANGED <<faults, binary, env, todo, open, member, err, signalled>>

\* Listening or subscribing fails.
MemberFails(m) ==
  /\ ~Ticks(m)
  /\ MemberStep(m, "new", "error")
  /\ \/ Fault /\ FirstError("other")
     \/ m = "execute" /\ Cancelled /\ FirstError("canceled") /\ UNCHANGED faults

\* The loop or the metrics server returns because the context is cancelled.
MemberReturns(m) ==
  /\ m # "grpc"
  /\ Cancelled
  /\ MemberStep(m, "up", "nil")
  /\ UNCHANGED <<faults, err>>

(***************************************************************************)
(* grpcserver.Serve listens, starts the goroutine that waits for the       *)
(* context, and serves.  GracefulStop ends Serve when no handler is left;  *)
(* a server stopped before Serve makes it return ErrServerStopped.         *)
(***************************************************************************)
Listen ==
  /\ MemberStep("grpc", "new", "listening")
  /\ UNCHANGED <<faults, err>>

Serve ==
  /\ MemberStep("grpc", "listening", "up")
  /\ UNCHANGED <<faults, err>>

\* A wrong goroutine that waits for the context of main, not the errgroup's.
GracefulStopOnSignal ==
  /\ signalled
  /\ \/ MemberStep("grpc", "up", "stopping") /\ UNCHANGED err
     \/ MemberStep("grpc", "listening", "error") /\ FirstError("other")
  /\ UNCHANGED faults

GracefulStop ==
  /\ Cancelled
  /\ \/ MemberStep("grpc", "up", "stopping") /\ UNCHANGED err
     \/ MemberStep("grpc", "listening", "error") /\ FirstError("other")
  /\ UNCHANGED faults

\* A wrong server that stops without waiting for its handlers.
ServeReturnsAtOnce(drained) ==
  /\ MemberStep("grpc", "stopping", "nil")
  /\ UNCHANGED <<faults, err>>

ServeReturns(drained) ==
  /\ drained
  /\ MemberStep("grpc", "stopping", "nil")
  /\ UNCHANGED <<faults, err>>

-----------------------------------------------------------------------------
(***************************************************************************)
(* The end.                                                                *)
(***************************************************************************)
Ended(m) == member[m] \in {"nil", "error"}

\* grp.Wait returns.
Wait ==
  /\ phase = "run"
  /\ \A m \in DOMAIN member : Ended(m)
  /\ phase' = "close"
  /\ UNCHANGED <<faults, binary, env, todo, open, member, err, signalled, code>>

\* A deferred close.
Close ==
  /\ phase = "close"
  /\ open # <<>>
  /\ open' = SubSeq(open, 1, Len(open) - 1)
  /\ UNCHANGED <<faults, binary, env, phase, todo, member, err, signalled, code>>

\* A wrong main that forgets the error of Run...
ExitCodeZero == 0

\* os.Exit(1), unless Run... returned nil or context.Canceled.
ExitCode == IF err = "other" THEN 1 ELSE 0

Exit ==
  /\ phase = "close"
  /\ open = <<>>
  /\ phase' = "exited"
  /\ code' = ExitCode
  /\ UNCHANGED <<faults, binary, env, todo, open, member, err, signalled>>

Signal ==
  /\ ~signalled
  /\ phase # "exited"
  /\ signalled' = TRUE
  /\ UNCHANGED <<faults, binary, env, phase, todo, open, member, err, code>>

\* The steps the process takes by itself, with the handlers in progress or not.
ProcessStep(drained) ==
  \/ StartStep
  \/ StartFails
  \/ Launch
  \/ \E m \in DOMAIN member :
       MemberStarts(m) \/ TickerPanics(m) \/ MemberFails(m) \/ MemberReturns(m)
  \/ Listen
  \/ Serve
  \/ GracefulStop
  \/ ServeReturns(drained)
  \/ Wait
  \/ Close
  \/ Exit

Exited == phase = "exited"

(***************************************************************************)
(* The exit code says why the process ended (the last lines of each main,  *)
(* cmd/scheduler/main.go:29-32): 0 only if it was asked to stop, 1 only    *)
(* after an error or, asked to stop, when the gateway's server was stopped *)
(* before Serve (ErrServerStopped), 2 only for a ticker whose interval is  *)
(* not positive.  A restart policy that looks at the code relies on it.    *)
(***************************************************************************)
ServerStoppedEarly ==
  signalled /\ binary = "apigateway" /\ member["grpc"] = "error"

ExitCodeTellsCause ==
  /\ code = 0 => signalled
  /\ code = 1 => faults > 0 \/ ServerStoppedEarly
  /\ code = 2 => binary = "scheduler" /\ \E m \in {"loop", "heartbeat"} : Interval(m) <= 0
=============================================================================
