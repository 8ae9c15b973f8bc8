---------------------------- MODULE MCApiGateway ----------------------------
(***************************************************************************)
(* An instance of ApiGateway for TLC.                                      *)
(***************************************************************************)
EXTENDS ApiGateway

Req(p, k) == [type |-> "registered", json |-> TRUE, priority |-> p, retry_limit |-> 1,
              wait |-> 0, key |-> k]

\* Priorities in range, past it, and past the range of a byte; a malformed payload.
SomeRequests ==
  {Req(3, k) : k \in Key} \cup
  {Req(p, NoKey) : p \in {11, 256}} \cup
  {[Req(0, NoKey) EXCEPT !.json = FALSE]}

ValidCmds == {ToCmd(r) : r \in {r \in SomeRequests : Valid(r)}}

SomeDurations == {0, 1, 2}
=============================================================================
