----------------------------- MODULE MCZdbStore -----------------------------
(* ZdbStore for TLC: all its constants are given in the configurations. *)
EXTENDS ZdbStore
=============================================================================
