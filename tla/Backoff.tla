------------------------------ MODULE Backoff -------------------------------
(***************************************************************************)
(* The retry delay (internal/domain/backoff.go): Base shifted left by the  *)
(* attempt number in a signed machine word of Width bits (64 in the code), *)
(* capped at Max.                                                          *)
(***************************************************************************)
EXTENDS Integers

CONSTANT Width  \* bits of a time.Duration

\* base << attempt in two's complement.
ShiftLeft(base, attempt) ==
  LET u == (base * 2^attempt) % 2^Width
  IN  IF u < 2^(Width - 1) THEN u ELSE u - 2^Width

\* A wrong Delay that forgets d <= 0, the trace an overflow leaves.
DelayNegative(base, max, attempt) ==
  IF attempt > Width - 2 \/ base <= 0
  THEN max
  ELSE LET d == ShiftLeft(base, IF attempt < 0 THEN 0 ELSE attempt)
       IN  IF d <= max THEN d ELSE max

Delay(base, max, attempt) ==
  IF attempt > Width - 2 \/ base <= 0
  THEN max
  ELSE LET d == ShiftLeft(base, IF attempt < 0 THEN 0 ELSE attempt)
       IN  IF d \in 1..max THEN d ELSE max
=============================================================================
