----------------------------- MODULE TaskStatus -----------------------------
(***************************************************************************)
(* The statuses of the protocol (TaskStatus of common.proto, a number) and *)
(* their conversion from and to the statuses of the domain                 *)
(* (internal/adapter/grpcserver/mapper.go).  A client may send a number    *)
(* the server does not know.                                               *)
(***************************************************************************)
EXTENDS Task

Unspecified == 0

statusToProto(s) ==
  CASE s = "pending"   -> 1
    [] s = "running"   -> 2
    [] s = "completed" -> 3
    [] s = "failed"    -> 4
    [] s = "cancelled" -> 5
    [] OTHER           -> Unspecified

\* No status: the filter of all tasks.
AnyStatus == ""

protoToStatus(n) ==
  CASE n = 1 -> "pending"
    [] n = 2 -> "running"
    [] n = 3 -> "completed"
    [] n = 4 -> "failed"
    [] n = 5 -> "cancelled"
    [] OTHER -> AnyStatus
=============================================================================
