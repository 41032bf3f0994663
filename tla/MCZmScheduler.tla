--------------------------- MODULE MCZmScheduler ---------------------------
(* Values of the constants of ZmScheduler for TLC *)
EXTENDS ZmScheduler

CONSTANTS a, m1, m2, t1

Timed(n) == [runs |-> 0, timed |-> 2, callers |-> {m1}, calls |-> n, time |-> 1]

Untimed(n, who, m) == [runs |-> n, timed |-> 0, callers |-> who, calls |-> m, time |-> 0]

\* A producer makes its calls while one caller, or two, start, drain and stop; or two deferred
\* calls meet a timer.
AllUses ==
  {Untimed(3, {m1}, 1), Untimed(2, {m1}, 2), Untimed(1, {m1}, 3), Untimed(1, {m1, m2}, 2), Timed(2)}
=============================================================================
