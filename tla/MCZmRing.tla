------------------------------ MODULE MCZmRing ------------------------------
(* ZmRing for TLC: writers a and b, and how often each of them pushes. *)
EXTENDS ZmRing, TLC

CONSTANTS a, b

Both == {a, b}
OnlyA == {a}

\* Five items with timeouts, of which one writer pushes enough to lap the other; or three, and eof()
\* with no timeout.
TwoUses ==
  {[timeout |-> TRUE, pushes |-> (a :> 1) @@ (b :> 4), eofs |-> 0],
   [timeout |-> FALSE, pushes |-> (a :> 2) @@ (b :> 1), eofs |-> 2]}

=============================================================================
