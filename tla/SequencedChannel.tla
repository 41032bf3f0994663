-------------------------- MODULE SequencedChannel --------------------------
(***************************************************************************)
(* What the sender and the receiver of z/zm ZmPQueue.hpp promise together: *)
(* numbered messages are delivered once each, in order, and a number is    *)
(* reported as a gap only if its message was withdrawn; a snapshot may     *)
(* stand for all the messages up to a number.                              *)
(***************************************************************************)
EXTENDS Naturals, Sequences

VARIABLES
  submitted,  \* how many messages were submitted: they are numbered from 0
  withdrawn,  \* the numbers whose message was aborted
  covered,    \* the number up to which a snapshot stands for the messages
  delivered   \* what the receiver's application was given, in order

vars == <<submitted, withdrawn, covered, delivered>>

Init == submitted = 0 /\ withdrawn = {} /\ covered = 0 /\ delivered = <<>>

Submit == submitted' = submitted + 1 /\ UNCHANGED <<withdrawn, covered, delivered>>

Withdraw == \E n \in 0..(submitted - 1) : withdrawn' = withdrawn \cup {n} /\ UNCHANGED <<submitted, covered, delivered>>

Next0 ==
  LET last == IF delivered = <<>> THEN 0 ELSE delivered[Len(delivered)].key + delivered[Len(delivered)].len
  IN IF covered > last THEN covered ELSE last

Cover == covered' \in Next0..submitted /\ UNCHANGED <<submitted, withdrawn, delivered>>

Deliver ==
  /\ Next0 < submitted
  /\ \E len \in 1..(submitted - Next0), gap \in BOOLEAN :
       /\ IF gap THEN Next0..(Next0 + len - 1) \subseteq withdrawn
          ELSE len = 1 /\ Next0 \notin withdrawn
       /\ delivered' = Append(delivered, [key |-> Next0, len |-> len, gap |-> gap])
  /\ UNCHANGED <<submitted, withdrawn, covered>>

Next == Submit \/ Withdraw \/ Cover \/ Deliver
Spec == Init /\ [][Next]_vars
=============================================================================
