----------------------------- MODULE MCSysTimer -----------------------------
(* Instances of the timer scheduler: three handlers of a client.           *)
EXTENDS SysTimer, TLC

CONSTANTS a, b, c

Handlers == {a, b, c}

\* A period shorter than a tick, one of a tick, one that is not a multiple of
\* it, and one that is refused.
SomeMs == {5, 10, 25, 0}
=============================================================================
