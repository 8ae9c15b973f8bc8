------------------------------ MODULE MCDomain ------------------------------
(***************************************************************************)
(* The algorithms of the domain layer against their definitions: a         *)
(* behaviour computes either retry delays (Backoff) or one cycle check     *)
(* (CycleCheck); the variables of the other one keep their first value.    *)
(*                                                                         *)
(* Delays are computed for all values of Base and Max a short machine word *)
(* holds and for a sequence of attempts that runs past its width; cycle    *)
(* checks for all graphs over Node, from every node.                       *)
(***************************************************************************)
EXTENDS Backoff, CycleCheck

VARIABLES base, max, attempt

delayVars == <<base, max, attempt>>

DelayInit ==
  /\ base \in -1..2^(Width - 1) - 1
  /\ max \in 1..2^(Width - 1) - 1
  /\ attempt = -1

NextAttempt ==
  /\ attempt < Width + 1
  /\ attempt' = attempt + 1
  /\ UNCHANGED <<base, max>>

NoDelay == base = 0 /\ max = 0 /\ attempt = -1

NoCheck ==
  /\ edges = [n \in Node |-> {}]
  /\ start = CHOOSE n \in Node : TRUE
  /\ color = [n \in Node |-> "white"]
  /\ stack = <<>>
  /\ verdict = "searching"

Init == (DelayInit /\ NoCheck) \/ (CycleInit /\ NoDelay)

Next ==
  \/ max # 0 /\ NextAttempt /\ UNCHANGED cycleVars
  \/ CycleNext /\ UNCHANGED delayVars

Spec == Init /\ [][Next]_<<delayVars, cycleVars>> /\ WF_cycleVars(CycleNext)

\* 2^attempt * Base without overflow, but at most Max; no Base means Max.
CappedPower ==
  LET d == base * 2^(IF attempt < 0 THEN 0 ELSE attempt)
  IN  IF base <= 0 \/ d > max THEN max ELSE d

\* base without its factors of two.
OddPart == CHOOSE k \in 1..base : k % 2 = 1 /\ \E j \in 0..Width : k * 2^j = base

(***************************************************************************)
(* A shift that overflows never passes for a valid delay as long as Max    *)
(* times the odd part of Base fits the word: the wrapped value is zero,    *)
(* negative or a multiple of a power of two above Max.  DefaultBackoff is  *)
(* within that range (1953125 * 3 * 10^11 < 2^63), so its delays follow    *)
(* the formula of backoff.go:5-6 for every attempt number.                 *)
(***************************************************************************)
DelayIsCappedPower ==
  (base <= 0 \/ OddPart * max < 2^(Width - 1)) => Delay(base, max, attempt) = CappedPower

(***************************************************************************)
(* The search of CheckCycle ends on every graph, cyclic ones included      *)
(* (dag.go:21-38): no node is entered twice.                               *)
(***************************************************************************)
CheckEnds == stack # <<>> ~> verdict # "searching"
=============================================================================
