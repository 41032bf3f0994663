---------------------------- MODULE MCZdbCluster ----------------------------
(* Instances of ZdbCluster for TLC: host IDs are 1, 2, 3. *)
EXTENDS ZdbCluster

CONSTANTS c1, c2

\* The master by configuration is the host the others connect to, or the one that connects.
LowFirst == [h \in Host |-> 10 - h]
HighFirst == [h \in Host |-> h]

\* Replication on the write thread, or in put(), by all hosts.
OnWrite == [h \in Host |-> 0]
InPut == [h \in Host |-> 1]

OneCxn == {c1}
TwoCxns == {c1, c2}

Empty == {[h \in Host |-> 0]}

\* Nothing breaks: a host with or without a record to recover replicates what is pushed.
Quietly == [init |-> {n \in [Host -> {0, 1}] : n[2] = 0}, records |-> 1, cxns |-> {c1}, aborts |-> TRUE,
            faults |-> 0, stops |-> 0, splits |-> 0]
\* A host pushes a record while it recovers another one, which the push may overtake.
Overtaking == [init |-> {[h \in Host |-> h - 1]}, records |-> 2, cxns |-> {c1}, aborts |-> FALSE,
               faults |-> 0, stops |-> 0, splits |-> 0]
\* The connection breaks, and a new one may be made before both ends have noticed.
Reconnecting == [init |-> Empty, records |-> 0, cxns |-> {c1, c2}, aborts |-> FALSE,
                 faults |-> 1, stops |-> 0, splits |-> 0]
\* The hosts are elected apart, before they connect or after their connection broke.
Parted == [init |-> Empty, records |-> 0, cxns |-> {c1}, aborts |-> FALSE,
           faults |-> 1, stops |-> 0, splits |-> 1]
\* The connection breaks, or a host is stopped, while records are replicated or recovered.
Breaking == [init |-> [Host -> {0, 1}], records |-> 1, cxns |-> {c1}, aborts |-> TRUE,
             faults |-> 1, stops |-> 1, splits |-> 0]
\* The connection breaks, and the host connects again, while records are replicated.
Replicating == [init |-> Empty, records |-> 1, cxns |-> {c1, c2}, aborts |-> TRUE,
                faults |-> 1, stops |-> 0, splits |-> 0]

PairUses == {Quietly, Overtaking, Parted}
BrokenUses == {Breaking, Reconnecting, Parted}
SilentUses == {Replicating}
=============================================================================
