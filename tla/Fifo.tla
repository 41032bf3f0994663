-------------------------------- MODULE Fifo --------------------------------
(***************************************************************************)
(* What ZmRing promises ("FIFO ring buffer with fan-in (MPSC)",            *)
(* ZmRing.hpp): a bounded queue that many writers add to and one reader    *)
(* takes from, in the order in which the writers added.                    *)
(***************************************************************************)
EXTENDS Naturals, Sequences

CONSTANTS
  Item,      \* what can be queued
  NoItem,    \* nothing has been taken yet
  Capacity

VARIABLES
  queue,     \* the items added and not yet taken
  taken      \* the item taken last

Init == queue = << >> /\ taken = NoItem

Add(i) ==
  /\ Len(queue) < Capacity
  /\ queue' = Append(queue, i)
  /\ UNCHANGED taken

Take ==
  /\ queue # << >>
  /\ queue' = Tail(queue)
  /\ taken' = Head(queue)

Next == Take \/ \E i \in Item : Add(i)

Spec == Init /\ [][Next]_<<queue, taken>>

=============================================================================
