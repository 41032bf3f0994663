----------------------------- MODULE MCMxEngine -----------------------------
(* An engine of two links, its rx thread and one other thread. *)
EXTENDS MxEngine

CONSTANTS link1, link2

TwoLinks == <<link1, link2>>

=============================================================================
