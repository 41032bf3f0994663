---------------------------- MODULE MCPQChannel ----------------------------
(* Instances of PQChannel for TLC. *)
EXTENDS PQChannel

Use(messages, aborts, max, snapshots, stopInSend, fills) ==
  [messages |-> messages, aborts |-> aborts, faults |-> max,
   snapshots |-> snapshots, stopInSend |-> stopInSend, fills |-> fills]

Fillers == {"long", "single", "none"}

OrderUses ==
  {Use(3, 2, 1, TRUE, TRUE, fills) : fills \in Fillers} \cup
  {Use(2, 2, 2, TRUE, stop, fills) : stop \in BOOLEAN, fills \in Fillers}

ResendUses ==
  {Use(2, 2, 2, FALSE, FALSE, fills) : fills \in Fillers} \cup
  {Use(2, 2, 2, TRUE, FALSE, "single")}
=============================================================================
