----------------------------- MODULE ZdbCluster -----------------------------
(***************************************************************************)
(* The cluster half of Zdb, the replicated database (z/zdb Zdb.cpp,        *)
(* Zdb.hpp: ZdbEnv, ZdbHost, Zdb_Cxn): hosts start and stop, connect to    *)
(* each other, exchange heartbeats, elect a master, resolve a dual master, *)
(* and replicate and recover records down a chain of hosts.                *)
(*                                                                         *)
(* host[h][p] is the ZdbHost that process h keeps for host p, host[h][h]   *)
(* is m_self, whose state is the state of the process.  Each action is one *)
(* section of code under ZdbEnv::m_lock, or what runs without it between   *)
(* two such sections.  A timeout may fire at any time:                     *)
(* the election timer is armed whenever a host with peers starts, so an    *)
(* election may be held at any moment of Electing, however many votes are  *)
(* in.  One database is modelled (dbState is then one record number).      *)
(*                                                                         *)
(* A process's connections call back on one thread: rx[h] says how far it  *)
(* has got in connected() or disconnected(), and RxFree(h) that it is free *)
(* to run another callback.                                                *)
(*                                                                         *)
(* External: the multiplexer's connections (ordered and reliable until one *)
(* end closes) and the application, which pushes records while active.     *)
(***************************************************************************)
EXTENDS Integers, FiniteSets, Sequences, FiniteSetsExt

CONSTANTS
  Host,         \* host IDs: a host connects to the hosts with lower IDs
  Priority,     \* the configured priority of each host
  RepMode,      \* per host, 0: replicate on the write thread, 1: replicate in put()
  NoHost,       \* a null ZdbHost pointer
  Cxn, NoCxn,   \* connections, and a null connection pointer
  MaxRN,        \* bound: record numbers
  MaxHb,        \* bound: heartbeats are sent to a peer with fewer messages on the way
  Uses          \* how the cluster is used: the lengths a host's database may have when it is
                \* opened (init), the connections there may be (cxns), and bounds on the
                \* records, on the connections that break and the calls of stop() together
                \* (faults), on the calls of stop() (stops), and on the elections won by a
                \* host that is not Entitled (splits)

ASSUME HostAssumption == IsFiniteSet(Host) /\ Host \subseteq Nat /\ NoHost \notin Host
ASSUME PriorityAssumption == Priority \in [Host -> Nat]
ASSUME CxnAssumption == IsFiniteSet(Cxn) /\ NoCxn \notin Cxn
ASSUME ModeAssumption == RepMode \in [Host -> {0, 1}]
ASSUME BoundAssumption ==
  MaxRN \in Nat /\ MaxHb \in Nat
ASSUME UsesAssumption == \A u \in Uses :
  /\ u.records \in 0..MaxRN /\ u.init \subseteq [Host -> 0..u.records] /\ u.init # {}
  /\ u.cxns \subseteq Cxn
  /\ u.aborts \in BOOLEAN /\ u.faults \in Nat /\ u.stops \in Nat /\ u.splits \in Nat

RN == 0..(MaxRN - 1)

HostState == {"Instantiated", "Stopped", "Electing", "Activating", "Active",
              "Deactivating", "Inactive", "Stopping"}
ActiveStates == {"Activating", "Active"}
Elected == {"Activating", "Active", "Deactivating", "Inactive"}
Running == Elected \cup {"Electing"}

Known == [state : HostState, rn : 0..MaxRN, voted : BOOLEAN, cxn : Cxn \cup {NoCxn}]
Record == [op : {"none", "add", "del"}, by : Host \cup {NoHost}]
Missing == [op |-> "none", by |-> NoHost]
Deleted == [op |-> "del", by |-> NoHost]

\* One end of a connection: connected() not yet returned, connected, disconnect() called,
\* closed, or refused by connected(): that end is never read, nor closed.
EndState == {"none", "opening", "up", "closing", "closed", "refused"}

Heartbeats == [type : {"hb"}, from : Host, state : HostState, rn : 0..MaxRN]
Rep == [type : {"rep"}, rn : RN, rec : Record]
Msg == Heartbeats \cup Rep

VARIABLES
  host,       \* ZdbEnv::m_hosts of each process
  master, prev, next, nextCxn,
  recovery,   \* m_recovering, m_recover, m_recoverEnd; history: whether one was cut short
  nPeers, appActive,
  deact,      \* deactivate() is queued
  rx,         \* the callback of a connection that is under way, and how far it has got
  stopStep,   \* how far stop() has got
  dial,       \* hosts each process is connecting to, or will reconnect to
  nextRN,     \* ZdbAny::m_nextRN
  rec,        \* the records of each host's database
  pushed,     \* the records each application has pushed and not yet put or aborted
  unsent,     \* records the write thread is to replicate
  end,        \* the ends of each connection
  assoc,      \* Zdb_Cxn::m_host at each end
  chan,       \* messages on their way to a host
  hdr,        \* the ends that have read the header of a heartbeat, and not yet its data
  faults, stops, splits,
  use         \* the one of Uses at hand

envVars == <<master, prev, next, nextCxn, recovery, nPeers, appActive, deact, rx, stopStep, dial>>
dbVars == <<nextRN, rec, pushed, unsent>>
cxnVars == <<end, assoc, chan, hdr>>
boundVars == <<faults, stops, splits>>
vars == <<host, envVars, dbVars, cxnVars, boundVars, use>>

State(h) == host[h][h].state
IsRunning(h) == State(h) \in Running
IsActive(h) == State(h) \in ActiveStates

Recovery == [on : BOOLEAN, rn : 0..MaxRN, end : 0..MaxRN, cut : BOOLEAN]
NoRecovery(cut) == [on |-> FALSE, rn |-> 0, end |-> 0, cut |-> cut]

\* connected() has found the host running.  disconnected() has dropped a host's connection, counted
\* it down, and cleared the host's; it waits for a deactivation to end, or is to hold an election; it is
\* to reconnect.
Losing == {"dropped", "counted", "cleared"}
LosingStep == {"waiting", "electing", "redial"} \cup Losing
RxIdle == [step |-> "idle", cxn |-> NoCxn, host |-> NoHost]
Rx == {RxIdle} \cup [step : {"opening"}, cxn : Cxn, host : {NoHost}]
               \cup [step : LosingStep, cxn : Cxn, host : Host]
StopStep == {"none", "begun", "waiting"}

TypeOK ==
  /\ host \in [Host -> [Host -> Known]]
  /\ master \in [Host -> Host \cup {NoHost}]
  /\ prev \in [Host -> Host \cup {NoHost}]
  /\ next \in [Host -> Host \cup {NoHost}]
  /\ nextCxn \in [Host -> Cxn \cup {NoCxn}]
  /\ recovery \in [Host -> Recovery]
  /\ nPeers \in [Host -> Int]
  /\ appActive \in [Host -> BOOLEAN]
  /\ deact \in [Host -> BOOLEAN]
  /\ rx \in [Host -> Rx]
  /\ stopStep \in [Host -> StopStep]
  /\ dial \in [Host -> SUBSET Host]
  /\ nextRN \in [Host -> 0..MaxRN]
  /\ rec \in [Host -> [RN -> Record]]
  /\ pushed \in [Host -> SUBSET RN]
  /\ unsent \in [Host -> Seq(Rep)]
  /\ end \in [Cxn -> [Host -> EndState]]
  /\ assoc \in [Cxn -> [Host -> Host \cup {NoHost}]]
  /\ chan \in [Cxn -> [Host -> Seq(Msg)]]
  /\ hdr \in [Cxn -> SUBSET Host]
  /\ faults \in 0..use.faults /\ stops \in 0..use.stops /\ splits \in 0..use.splits
  /\ use \in Uses

\* After open(): each database holds the records it held when it was closed, all of
\* them written by some master.
Init ==
  /\ use \in Uses
  /\ nextRN \in use.init
  /\ host = [h \in Host |-> [p \in Host |->
               IF p = h
               THEN [state |-> "Stopped", rn |-> nextRN[h], voted |-> FALSE, cxn |-> NoCxn]
               ELSE [state |-> "Instantiated", rn |-> 0, voted |-> FALSE, cxn |-> NoCxn]]]
  /\ master = [h \in Host |-> NoHost]
  /\ prev = [h \in Host |-> NoHost]
  /\ next = [h \in Host |-> NoHost]
  /\ nextCxn = [h \in Host |-> NoCxn]
  /\ recovery = [h \in Host |-> NoRecovery(FALSE)]
  /\ nPeers = [h \in Host |-> 0]
  /\ appActive = [h \in Host |-> FALSE]
  /\ deact = [h \in Host |-> FALSE]
  /\ rx = [h \in Host |-> RxIdle]
  /\ stopStep = [h \in Host |-> "none"]
  /\ dial = [h \in Host |-> {}]
  /\ rec = [h \in Host |-> [n \in RN |->
              IF n < nextRN[h] THEN [op |-> "add", by |-> NoHost] ELSE Missing]]
  /\ pushed = [h \in Host |-> {}]
  /\ unsent = [h \in Host |-> << >>]
  /\ end = [c \in Cxn |-> [h \in Host |-> "none"]]
  /\ assoc = [c \in Cxn |-> [h \in Host |-> NoHost]]
  /\ chan = [c \in Cxn |-> [h \in Host |-> << >>]]
  /\ hdr = [c \in Cxn |-> {}]
  /\ faults = 0 /\ stops = 0 /\ splits = 0

-----------------------------------------------------------------------------
(* Ranking: by database state, then active before inactive, then priority *)

Above(v, p, q) ==
  LET active(x) == v[x].state \in ActiveStates
  IN \/ v[p].rn > v[q].rn
     \/ /\ v[p].rn = v[q].rn
        /\ \/ active(p) /\ ~active(q)
           \/ (active(p) <=> active(q)) /\ Priority[p] > Priority[q]

\* The loops keep the first of equals they meet, in order of ID.
FirstRanked(v, S) ==
  IF S = {} THEN NoHost
  ELSE CHOOSE p \in S : \A q \in S \ {p} : Above(v, p, q) \/ (~Above(v, q, p) /\ p < q)

Voted(v) == {p \in Host : v[p].voted}

\* dbStateRefresh_()
Refreshed(v, h) == [v EXCEPT ![h].rn = nextRN[h]]

\* A recovery is cut short when its host has received what comes after it already.
Cut(h, v) == recovery[h].cut \/ (recovery[h].on /\ next[h] # NoHost /\ recovery[h].rn < v[next[h]].rn)

\* Mutated: startReplication() overlooks a next in line that is one record behind.
ReplicateLate(h, v, p) ==
  /\ next' = [next EXCEPT ![h] = p]
  /\ nextCxn' = [nextCxn EXCEPT ![h] = IF p = NoHost THEN NoCxn ELSE v[p].cxn]
  /\ recovery' = [recovery EXCEPT ![h] =
       IF p # NoHost /\ v[p].rn + 1 < nextRN[h]
       THEN [on |-> TRUE, rn |-> v[p].rn, end |-> nextRN[h], cut |-> Cut(h, v)]
       ELSE NoRecovery(Cut(h, v))]
  /\ host' = [host EXCEPT ![h] = IF p = NoHost THEN v ELSE Refreshed(v, h)]

\* setNext(p) and startReplication(): p, or nobody, is the next in line.
Replicate(h, v, p) ==
  /\ next' = [next EXCEPT ![h] = p]
  /\ nextCxn' = [nextCxn EXCEPT ![h] = IF p = NoHost THEN NoCxn ELSE v[p].cxn]
  /\ recovery' = [recovery EXCEPT ![h] =
       IF p # NoHost /\ v[p].rn < nextRN[h]
       THEN [on |-> TRUE, rn |-> v[p].rn, end |-> nextRN[h], cut |-> Cut(h, v)]
       ELSE NoRecovery(Cut(h, v))]
  /\ host' = [host EXCEPT ![h] = IF p = NoHost THEN v ELSE Refreshed(v, h)]

\* setNext(): the first-ranked of the voted hosts below this one, the previous one excepted.
\* It compares with this host's state as it was last refreshed.
NextInLine(h, v) ==
  FirstRanked(v, {p \in Voted(v) \ {h, prev[h]} : Above(v, h, p)})

\* Mutated: vote() does not consider the host for next in line, or forgets to count it.
VoteUncounted(h, v, p) ==
  host' = [host EXCEPT ![h] = Refreshed(v, h)] /\ UNCHANGED <<next, nextCxn, recovery>>

\* vote(): p heartbeats; it may outrank the present next.
Vote(h, v, p) ==
  LET w == Refreshed([v EXCEPT ![p].voted = TRUE], h)
  IN IF /\ p \notin {next[h], prev[h]}
        /\ Above(w, h, p)
        /\ next[h] = NoHost \/ Above(w, p, next[h])
     THEN Replicate(h, w, p)
     ELSE host' = [host EXCEPT ![h] = w] /\ UNCHANGED <<next, nextCxn, recovery>>

-----------------------------------------------------------------------------
(* Connections *)

\* The thread that connections call back on is not in connected() or disconnected().
RxFree(h) == rx[h] = RxIdle

Ends(c) == {h \in Host : end[c][h] # "none"}
Peer(c, h) == CHOOSE p \in Ends(c) : p # h
Open == {"up", "closing"}
PeerGone(c, h) == end[c][Peer(c, h)] \in {"closed", "refused"}

\* This end is done with; when both are, the connection is no more.
Gone(c, h, how) ==
  /\ end' = [end EXCEPT ![c] = IF PeerGone(c, h) THEN [x \in Host |-> "none"]
                                               ELSE [@ EXCEPT ![h] = how]]
  /\ assoc' = [assoc EXCEPT ![c] = IF PeerGone(c, h) THEN [x \in Host |-> NoHost]
                                                   ELSE [@ EXCEPT ![h] = NoHost]]
  /\ chan' = [chan EXCEPT ![c][h] = << >>]
  /\ hdr' = [hdr EXCEPT ![c] = @ \ {h}]

\* send() on an open connection; what is sent to an end that does not read is lost.
Sent(ch, c, h, msgs) ==
  IF c # NoCxn /\ end[c][h] \in Open /\ ~PeerGone(c, h)
  THEN [ch EXCEPT ![c][Peer(c, h)] = @ \o msgs] ELSE ch

\* The state and dbState a heartbeat carries are read when it is sent.
Hb(h, v) == [type |-> "hb", from |-> h, state |-> v[h].state, rn |-> v[h].rn]

\* A connection that is no more may still be referred to.
Unused(c) ==
  /\ Ends(c) = {}
  /\ \A h \in Host : nextCxn[h] # c /\ rx[h].cxn # c /\ \A p \in Host : host[h][p].cxn # c

\* ZdbHost::connect() reaches a listening host; both ends are still to call connected().
Connect(h, p, c) ==
  /\ p \in dial[h] /\ c \in use.cxns /\ Unused(c) /\ RxFree(h)
  /\ dial' = [dial EXCEPT ![h] = @ \ {p}]
  /\ IF IsRunning(h) /\ host[h][p].cxn = NoCxn
     THEN /\ IsRunning(p) /\ RxFree(p)
          /\ end' = [end EXCEPT ![c][h] = "opening", ![c][p] = "opening"]
          /\ assoc' = [assoc EXCEPT ![c][h] = p]
     ELSE UNCHANGED <<end, assoc>>
  /\ UNCHANGED <<host, master, prev, next, nextCxn, recovery, nPeers, appActive, deact, rx, stopStep,
                 dbVars, chan, hdr, boundVars>>

\* associate(): c becomes p's connection; the one it replaces is orphaned and disconnected.
Associated(v, c, p) == [v EXCEPT ![p].cxn = c, ![p].voted = FALSE]
Replaced(v, c, p) == IF v[p].cxn \in {NoCxn, c} THEN {} ELSE {v[p].cxn}

Orphan(h, old, e) == [c \in Cxn |-> IF c \in old THEN [e[c] EXCEPT ![h] = "closing"] ELSE e[c]]
Disown(h, old, a) == [c \in Cxn |-> IF c \in old THEN [a[c] EXCEPT ![h] = NoHost] ELSE a[c]]

\* Zdb_Cxn::connected() tests running() before it takes the lock.
Connected(c, h) ==
  /\ end[c][h] = "opening" /\ RxFree(h)
  /\ IF IsRunning(h)
     THEN /\ rx' = [rx EXCEPT ![h] = [step |-> "opening", cxn |-> c, host |-> NoHost]]
          /\ UNCHANGED cxnVars
     ELSE /\ Gone(c, h, "refused")
          /\ UNCHANGED rx
  /\ UNCHANGED <<host, master, prev, next, nextCxn, recovery, nPeers, appActive, deact, stopStep, dial,
                 dbVars, boundVars>>

\* ZdbEnv::connected(), whatever the host's state is by now.
Opened(c, h) ==
  /\ rx[h].step = "opening" /\ rx[h].cxn = c
  /\ rx' = [rx EXCEPT ![h] = RxIdle]
  /\ LET p == assoc[c][h]
         old == IF p = NoHost THEN {} ELSE Replaced(host[h], c, p)
         v == IF p = NoHost THEN host[h] ELSE Associated(host[h], c, p)
         w == Refreshed(v, h)
     IN /\ host' = [host EXCEPT ![h] = w]
        /\ end' = [Orphan(h, old, end) EXCEPT ![c][h] = "up"]
        /\ assoc' = Disown(h, old, assoc)
        /\ chan' = IF PeerGone(c, h) THEN chan
                   ELSE [chan EXCEPT ![c][Peer(c, h)] = Append(@, Hb(h, w))]
  /\ UNCHANGED <<master, prev, next, nextCxn, recovery, nPeers, appActive, deact, stopStep, dial,
                 hdr, dbVars, boundVars>>

\* Mutated: disconnected() leaves m_nextCxn alone.
KeepNextCxn(c, h) == UNCHANGED nextCxn

DropNextCxn(c, h) == nextCxn' = [nextCxn EXCEPT ![h] = IF @ = c THEN NoCxn ELSE @]

\* ZdbEnv::disconnected(), begun by this end's disconnect(), the other end closed or silent
\* (hbTimeout()), or a fault.  Without the lock, it forgets the connection and looks for its host.
Disconnected(c, h) ==
  /\ end[c][h] \in Open /\ RxFree(h)
  /\ \/ /\ end[c][h] = "closing" \/ PeerGone(c, h)
        /\ UNCHANGED faults
     \/ /\ end[c][h] = "up" /\ ~PeerGone(c, h)
        /\ faults + stops < use.faults
        /\ faults' = faults + 1
  /\ LET p == assoc[c][h]
     IN rx' = IF p # NoHost /\ host[h][p].cxn = c
              THEN [rx EXCEPT ![h] = [step |-> "dropped", cxn |-> c, host |-> p]] ELSE rx
  /\ Gone(c, h, "closed")
  /\ DropNextCxn(c, h)
  /\ UNCHANGED <<host, master, prev, next, recovery, nPeers, appActive, deact, stopStep, dial,
                 dbVars, stops, splits>>

\* One of the connections that stop() waits for.
CountDisconnected(h) ==
  /\ rx[h].step = "dropped"
  /\ rx' = [rx EXCEPT ![h].step = "counted"]
  /\ nPeers' = [nPeers EXCEPT ![h] = IF State(h) = "Stopping" THEN @ - 1 ELSE @]
  /\ UNCHANGED <<host, master, prev, next, nextCxn, recovery, appActive, deact, stopStep, dial,
                 dbVars, cxnVars, boundVars>>

\* ZdbHost::disconnected(), without the lock.
ClearCxn(h) ==
  /\ rx[h].step = "counted"
  /\ rx' = [rx EXCEPT ![h].step = "cleared"]
  /\ host' = [host EXCEPT ![h][rx[h].host].cxn = NoCxn]
  /\ UNCHANGED <<master, prev, next, nextCxn, recovery, nPeers, appActive, deact, stopStep, dial,
                 dbVars, cxnVars, boundVars>>

\* A lost master is replaced in an election, when a deactivation under way has ended; a lost next
\* in line at once.
LoseHost(h) ==
  LET p == rx[h].host
      v == [host[h] EXCEPT ![p].state = "Instantiated", ![p].voted = FALSE]
      pv == IF prev[h] = p THEN NoHost ELSE prev[h]
      lostMaster == State(h) \in Elected /\ master[h] = p
      lostNext == State(h) \in Elected /\ ~lostMaster /\ next[h] = p
  IN /\ rx[h].step = "cleared"
     /\ rx' = [rx EXCEPT ![h].step = IF lostMaster /\ State(h) = "Deactivating" THEN "waiting"
                                     ELSE IF lostMaster /\ State(h) = "Inactive" THEN "electing"
                                     ELSE "redial"]
     /\ prev' = IF State(h) \in Elected THEN [prev EXCEPT ![h] = pv] ELSE prev
     /\ IF lostNext
        THEN Replicate(h, v, FirstRanked(v, {q \in Voted(v) \ {h, pv} : Above(v, h, q)}))
        ELSE /\ host' = [host EXCEPT ![h] = IF lostMaster /\ State(h) = "Inactive"
                                            THEN [v EXCEPT ![h].state = "Electing"] ELSE v]
             /\ UNCHANGED <<next, nextCxn, recovery>>
     /\ UNCHANGED <<master, nPeers, appActive, deact, stopStep, dial, dbVars, cxnVars, boundVars>>

\* The deactivation has ended.
Reelect(h) ==
  /\ rx[h].step = "waiting" /\ State(h) # "Deactivating"
  /\ IF State(h) = "Inactive"
     THEN /\ rx' = [rx EXCEPT ![h].step = "electing"]
          /\ host' = [host EXCEPT ![h][h].state = "Electing"]
     ELSE rx' = [rx EXCEPT ![h].step = "redial"] /\ UNCHANGED host
  /\ UNCHANGED <<master, prev, next, nextCxn, recovery, nPeers, appActive, deact, stopStep, dial,
                 dbVars, cxnVars, boundVars>>

\* The end of disconnected(), without the lock: the host is reconnected to if it is this end that
\* connects.  The election it was to hold is held (HoldElection), by it or by another thread:
\* holdElection() does nothing if another thread's has begun.
Redial(h) ==
  /\ rx[h].step = "redial" \/ (rx[h].step = "electing" /\ State(h) # "Electing")
  /\ rx' = [rx EXCEPT ![h] = RxIdle]
  /\ dial' = IF IsRunning(h) /\ rx[h].host < h THEN [dial EXCEPT ![h] = @ \cup {rx[h].host}] ELSE dial
  /\ UNCHANGED <<host, master, prev, next, nextCxn, recovery, nPeers, appActive, deact, stopStep,
                 dbVars, cxnVars, boundVars>>

-----------------------------------------------------------------------------
(* start() and stop() *)

\* stopReplication(): nobody has voted but this host.
Unvoted(v, h) == [p \in Host |-> [v[p] EXCEPT !.voted = (p = h)]]

StopReplication(h) ==
  /\ master' = [master EXCEPT ![h] = NoHost]
  /\ prev' = [prev EXCEPT ![h] = NoHost]
  /\ next' = [next EXCEPT ![h] = NoHost]
  /\ nextCxn' = [nextCxn EXCEPT ![h] = NoCxn]
  /\ recovery' = [recovery EXCEPT ![h] = NoRecovery(@.cut)]

Start(h) ==
  /\ State(h) = "Stopped"
  /\ StopReplication(h)
  /\ LET v == [Unvoted(host[h], h) EXCEPT ![h].state = "Electing"]
     IN host' = [host EXCEPT ![h] = IF Cardinality(Host) > 1 THEN Refreshed(v, h) ELSE v]
  /\ nPeers' = [nPeers EXCEPT ![h] = Cardinality(Host) - 1]
  /\ dial' = [dial EXCEPT ![h] = {p \in Host : p < h}]
  /\ UNCHANGED <<appActive, deact, rx, stopStep, dbVars, cxnVars, boundVars>>

\* stop() waits while the application is being activated or deactivated.
Stop(h) ==
  /\ stops < use.stops /\ faults + stops < use.faults
  /\ State(h) \in {"Electing", "Active", "Inactive"}
  /\ StopReplication(h)
  /\ host' = [host EXCEPT ![h] = [Unvoted(@, h) EXCEPT ![h].state = "Stopping"]]
  /\ nPeers' = [nPeers EXCEPT ![h] = 1]
  /\ stopStep' = [stopStep EXCEPT ![h] = "begun"]
  /\ stops' = stops + 1
  /\ UNCHANGED <<appActive, deact, rx, dial, dbVars, cxnVars, faults, splits>>

\* cancelConnect(), stopListening() and disconnectAll(), which may or may not still count
\* a connection that is closing already.
StopDisconnect(h) ==
  /\ stopStep[h] = "begun"
  /\ dial' = [dial EXCEPT ![h] = {}]
  /\ end' = [c \in Cxn |-> IF end[c][h] \in Open THEN [end[c] EXCEPT ![h] = "closing"] ELSE end[c]]
  /\ \/ /\ \E c \in Cxn : end[c][h] \in Open
        /\ stopStep' = [stopStep EXCEPT ![h] = "waiting"]
        /\ UNCHANGED host
     \/ /\ \A c \in Cxn : end[c][h] # "up"
        /\ stopStep' = [stopStep EXCEPT ![h] = "none"]
        /\ host' = [host EXCEPT ![h][h].state = "Stopped"]
  /\ UNCHANGED <<master, prev, next, nextCxn, recovery, nPeers, appActive, deact, rx, dbVars,
                 assoc, chan, hdr, boundVars>>

StopFinish(h) ==
  /\ stopStep[h] = "waiting" /\ nPeers[h] <= 0
  /\ stopStep' = [stopStep EXCEPT ![h] = "none"]
  /\ nPeers' = [nPeers EXCEPT ![h] = 0]
  /\ host' = [host EXCEPT ![h][h].state = "Stopped"]
  /\ UNCHANGED <<master, prev, next, nextCxn, recovery, appActive, deact, rx, dial, dbVars, cxnVars,
                 boundVars>>

-----------------------------------------------------------------------------
(* Elections *)

\* setMaster(): the first-ranked of the voted hosts; the others are counted.
SetMaster(h, v) ==
  /\ master' = [master EXCEPT ![h] = FirstRanked(v, Voted(v))]
  /\ nPeers' = [nPeers EXCEPT ![h] = Cardinality(Voted(v) \ {h})]

\* hbSend_(): a heartbeat on every open connection.
Announced(h, v) == [c \in Cxn |-> Sent(chan, c, h, <<Hb(h, v)>>)[c]]

\* No other host is active, or holds records this one does not.
Entitled(h) == \A p \in Host \ {h} : ~IsActive(p) /\ nextRN[p] <= nextRN[h]

\* holdElection() up to the application's callback: by timeout, or because all have voted.
HoldElection(h) ==
  /\ State(h) = "Electing"
  /\ LET v == Refreshed(host[h], h)
         won == FirstRanked(v, Voted(v)) = h
         w == [v EXCEPT ![h].state = IF won THEN "Activating" ELSE "Deactivating"]
     IN /\ SetMaster(h, v)
        /\ host' = [host EXCEPT ![h] = w]
        /\ appActive' = [appActive EXCEPT ![h] = won]
        /\ prev' = IF won THEN [prev EXCEPT ![h] = NoHost] ELSE prev
        /\ chan' = IF won /\ Voted(v) # {h} THEN Announced(h, w) ELSE chan
        /\ splits' = IF won /\ ~Entitled(h) THEN splits + 1 ELSE splits
        /\ splits' <= use.splits
  /\ UNCHANGED <<next, nextCxn, recovery, deact, rx, stopStep, dial, dbVars, end, assoc, hdr, faults, stops>>

\* deactivate(), queued when a dual master ranks above this one.  When it runs it takes
\* the first-ranked of the other voted hosts for its master; if none is left, setMaster()
\* dereferences a null pointer, and the model goes no further with this host's deactivation.
Deactivate(h) ==
  /\ deact[h] /\ State(h) # "Activating"
  /\ deact' = [deact EXCEPT ![h] = FALSE]
  /\ IF State(h) \in {"Active", "Electing"}
     THEN LET w == [Refreshed(host[h], h) EXCEPT ![h].voted = FALSE]
          IN /\ Voted(w) # {}
             /\ SetMaster(h, w)
             /\ host' = [host EXCEPT ![h] = [w EXCEPT ![h].voted = TRUE,
                                                      ![h].state = "Deactivating"]]
             /\ appActive' = [appActive EXCEPT ![h] = FALSE]
     ELSE UNCHANGED <<host, master, nPeers, appActive>>
  /\ UNCHANGED <<prev, next, nextCxn, recovery, rx, stopStep, dial, dbVars, cxnVars, boundVars>>

\* The application's callback returned: the end of holdElection() and of deactivate().
FinishElection(h) ==
  /\ State(h) \in {"Activating", "Deactivating"}
  /\ LET v == [host[h] EXCEPT ![h].state = IF @ = "Activating" THEN "Active" ELSE "Inactive"]
     IN Replicate(h, v, NextInLine(h, v))
  /\ UNCHANGED <<master, prev, nPeers, appActive, deact, rx, stopStep, dial, dbVars, cxnVars, boundVars>>

-----------------------------------------------------------------------------
(* Heartbeats *)

\* hbSend(), on the timer, and reactivate(): to one connection.
Heartbeat(c, h) ==
  /\ end[c][h] \in Open /\ IsRunning(h)
  /\ ~PeerGone(c, h) /\ Len(chan[c][Peer(c, h)]) < MaxHb
  /\ LET v == Refreshed(host[h], h)
     IN /\ host' = [host EXCEPT ![h] = v]
        /\ chan' = Sent(chan, c, h, <<Hb(h, v)>>)
  /\ UNCHANGED <<envVars, dbVars, end, assoc, hdr, boundVars>>

\* Mutated: of two active hosts none gives way, or both do.
OutrankedNever(h, v, p) == FALSE
OutrankedAlways(h, v, p) == TRUE

Outranked(h, v, p) == Above(Refreshed(v, h), p, h)

\* ZdbEnv::hbDataRcvd(), with the view as the message leaves it.
HbDataRcvd(h, v, p) ==
  \/ /\ State(h) = "Electing"
     /\ nPeers' = [nPeers EXCEPT ![h] = IF v[p].voted THEN @ ELSE @ - 1]
     /\ host' = [host EXCEPT ![h] = [v EXCEPT ![p].voted = TRUE]]
     /\ UNCHANGED <<next, nextCxn, recovery, deact>>
  \/ /\ IsActive(h) /\ v[p].state \in ActiveStates
     /\ Vote(h, v, p)
     /\ deact' = [deact EXCEPT ![h] = @ \/ Outranked(h, v, p)]
     /\ UNCHANGED nPeers
  \/ /\ State(h) \in Elected /\ ~(IsActive(h) /\ v[p].state \in ActiveStates)
     /\ IF v[p].voted
        THEN host' = [host EXCEPT ![h] = v] /\ UNCHANGED <<next, nextCxn, recovery, nPeers>>
        ELSE Vote(h, v, p) /\ nPeers' = [nPeers EXCEPT ![h] = @ + 1]
     /\ UNCHANGED deact
  \/ /\ ~IsRunning(h)
     /\ host' = [host EXCEPT ![h] = v]
     /\ UNCHANGED <<next, nextCxn, recovery, nPeers, deact>>

\* Zdb_Cxn::hbRcvd(): the header.  An accepted connection is associated by its first heartbeat.  A
\* header that does not is a step of its own only where another connection may orphan this one
\* before its data is read.
HbRcvd(c, h) ==
  /\ end[c][h] \in Open /\ RxFree(h) /\ chan[c][h] # << >> /\ Head(chan[c][h]).type = "hb"
  /\ h \notin hdr[c]
  /\ assoc[c][h] = NoHost \/ \E d \in Cxn \ {c} : end[d][h] # "none"
  /\ hdr' = [hdr EXCEPT ![c] = @ \cup {h}]
  /\ LET p == Head(chan[c][h]).from
         old == Replaced(host[h], c, p)
     IN IF assoc[c][h] = NoHost
        THEN /\ host' = [host EXCEPT ![h] = Associated(@, c, p)]
             /\ assoc' = [Disown(h, old, assoc) EXCEPT ![c][h] = p]
             /\ end' = Orphan(h, old, end)
        ELSE UNCHANGED <<host, assoc, end>>
  /\ UNCHANGED <<envVars, chan, dbVars, boundVars>>

\* Zdb_Cxn::hbDataRcvd(): the data, after the header.  If the connection was orphaned in between
\* (associate()), this dereferences a null pointer, and the model goes no further with it.
CxnHbDataRcvd(c, h) ==
  /\ end[c][h] \in Open /\ RxFree(h) /\ chan[c][h] # << >> /\ Head(chan[c][h]).type = "hb"
  /\ assoc[c][h] # NoHost
  /\ hdr' = [hdr EXCEPT ![c] = @ \ {h}]
  /\ LET m == Head(chan[c][h])
         p == assoc[c][h]
     IN HbDataRcvd(h, [host[h] EXCEPT ![p].state = m.state, ![p].rn = m.rn], p)
  /\ chan' = [chan EXCEPT ![c][h] = Tail(@)]
  /\ UNCHANGED <<master, prev, appActive, rx, stopStep, dial, end, assoc, dbVars, boundVars>>

-----------------------------------------------------------------------------
(* Replication *)

\* Mutated: replicate() sends the next record number.
RepMsgOffByOne(n, r) == [type |-> "rep", rn |-> n + 1, rec |-> r]

RepMsg(n, r) == [type |-> "rep", rn |-> n, rec |-> r]

\* ZdbEnv::write(): to the next in line at once, or when the write thread gets to it.
Deferred(h, m) == IF RepMode[h] = 0 THEN [unsent EXCEPT ![h] = Append(@, m)] ELSE unsent

Write(h, m) ==
  /\ unsent' = Deferred(h, m)
  /\ chan' = IF RepMode[h] = 1 THEN Sent(chan, nextCxn[h], h, <<m>>) ELSE chan

WriteThread(h) ==
  /\ unsent[h] # << >>
  /\ unsent' = [unsent EXCEPT ![h] = Tail(@)]
  /\ chan' = Sent(chan, nextCxn[h], h, <<Head(unsent[h])>>)
  /\ UNCHANGED <<host, envVars, nextRN, rec, pushed, end, assoc, hdr, boundVars>>

\* Mutated: push() does not check that the host is active.
PushUnchecked(h) ==
  /\ IsRunning(h) /\ nextRN[h] < use.records
  /\ nextRN' = [nextRN EXCEPT ![h] = @ + 1]
  /\ pushed' = [pushed EXCEPT ![h] = @ \cup {nextRN[h]}]
  /\ UNCHANGED <<host, envVars, rec, unsent, cxnVars, boundVars>>

\* ZdbAny::push(): the application holds the record until it puts or aborts it.
Push(h) ==
  /\ IsActive(h) /\ nextRN[h] < use.records
  /\ nextRN' = [nextRN EXCEPT ![h] = @ + 1]
  /\ pushed' = [pushed EXCEPT ![h] = @ \cup {nextRN[h]}]
  /\ UNCHANGED <<host, envVars, rec, unsent, cxnVars, boundVars>>

\* ZdbAny::put() and ZdbAny::abort()
Put(h, n) ==
  /\ n \in pushed[h]
  /\ pushed' = [pushed EXCEPT ![h] = @ \ {n}]
  /\ \E r \in {[op |-> "add", by |-> h]} \cup (IF use.aborts THEN {Deleted} ELSE {}) :
        rec' = [rec EXCEPT ![h][n] = r] /\ Write(h, RepMsg(n, r))
  /\ UNCHANGED <<host, envVars, nextRN, end, assoc, hdr, boundVars>>

\* Mutated: recSend() takes a committed record for a pending one.
RecoveredDeleted(r) == Deleted

\* What recSend() sends for a record: the record, or that it is deleted.
Recovered(r) == IF r.op = "add" THEN r ELSE Deleted

\* ZdbEnv::recSend(): the next record of the recovery.
RecSend(h) ==
  /\ recovery[h].on /\ nextCxn[h] # NoCxn
  /\ IF recovery[h].rn < recovery[h].end
     THEN LET n == recovery[h].rn
          IN /\ recovery' = [recovery EXCEPT ![h].rn = n + 1]
             /\ chan' = Sent(chan, nextCxn[h], h, <<RepMsg(n, Recovered(rec[h][n]))>>)
     ELSE /\ recovery' = [recovery EXCEPT ![h] = NoRecovery(@.cut)]
          /\ UNCHANGED chan
  /\ UNCHANGED <<host, master, prev, next, nextCxn, nPeers, appActive, deact, rx, stopStep, dial,
                 dbVars, end, assoc, hdr, boundVars>>

\* ZdbEnv::repDataRcvd(): a record p sent is applied, written and passed on.
RepDataRcvd(c, h, p, m) ==
  LET known == host[h][p].rn
      rest == [chan EXCEPT ![c][h] = Tail(@)]
      drop == (IsActive(h) \/ p = next[h]) /\ m.rn < known
      copies == IF RepMode[h] = 1 THEN <<m, m>> ELSE <<m>>
  IN IF drop
     THEN /\ chan' = rest
          /\ UNCHANGED <<host, prev, nextRN, rec, unsent>>
     ELSE /\ host' = [host EXCEPT ![h][p].rn = Max({known, m.rn + 1})]
          /\ prev' = IF prev[h] = NoHost THEN [prev EXCEPT ![h] = p] ELSE prev
          /\ nextRN' = [nextRN EXCEPT ![h] = Max({@, m.rn + 1})]
          /\ rec' = [rec EXCEPT ![h][m.rn] = m.rec]
          /\ unsent' = Deferred(h, m)
          /\ chan' = Sent(rest, nextCxn[h], h, copies)

\* Zdb_Cxn::repRcvd() and repDataRcvd(): data on a connection that is not the host's
\* connection disconnects it.
RepRcvd(c, h) ==
  /\ end[c][h] \in Open /\ RxFree(h) /\ chan[c][h] # << >> /\ Head(chan[c][h]).type = "rep"
  /\ LET m == Head(chan[c][h])
         p == assoc[c][h]
     IN IF p = NoHost \/ (m.rec.op # "del" /\ host[h][p].cxn # c)
        THEN /\ end' = [end EXCEPT ![c][h] = "closing"]
             /\ chan' = [chan EXCEPT ![c][h] = << >>]
             /\ UNCHANGED <<host, prev, nextRN, rec, unsent>>
        ELSE /\ RepDataRcvd(c, h, p, m)
             /\ UNCHANGED end
  /\ UNCHANGED <<pushed, master, next, nextCxn, recovery, nPeers, appActive, deact, rx, stopStep, dial,
                 assoc, hdr, boundVars>>

-----------------------------------------------------------------------------

\* What the environment's own threads and timers are bound to run.
HostStep(h) ==
  \/ HoldElection(h) \/ FinishElection(h) \/ Deactivate(h)
  \/ CountDisconnected(h) \/ ClearCxn(h) \/ LoseHost(h) \/ Reelect(h) \/ Redial(h)
  \/ StopDisconnect(h) \/ StopFinish(h)
  \/ WriteThread(h) \/ RecSend(h)

CxnStep(c, h) == Connected(c, h) \/ Opened(c, h) \/ HbRcvd(c, h) \/ CxnHbDataRcvd(c, h) \/ RepRcvd(c, h)

Next ==
  /\ UNCHANGED use
  /\ \/ \E h \in Host : Start(h) \/ Stop(h) \/ HostStep(h) \/ Push(h)
     \/ \E h \in Host, n \in RN : Put(h, n)
     \/ \E c \in Cxn, h \in Host : CxnStep(c, h) \/ Heartbeat(c, h) \/ Disconnected(c, h)
     \/ \E c \in Cxn, h, p \in Host : Connect(h, p, c)

Spec == Init /\ [][Next]_vars

\* Queued work, timers and the delivery of messages are fair, and the application finishes
\* what it pushed; nobody has to start or stop a host, to push, or to break a connection.
Fairness ==
  /\ \A h \in Host :
        /\ WF_vars(HostStep(h) /\ UNCHANGED use)
        /\ \A n \in RN : WF_vars(Put(h, n) /\ UNCHANGED use)
        /\ WF_vars(\E p \in Host, c \in Cxn : Connect(h, p, c) /\ UNCHANGED use)
  /\ \A c \in Cxn, h \in Host :
        /\ WF_vars(CxnStep(c, h) /\ UNCHANGED use)
        /\ WF_vars(Heartbeat(c, h) /\ UNCHANGED use)
        /\ WF_vars(Disconnected(c, h) /\ UNCHANGED <<faults, use>>)

FairSpec == Spec /\ Fairness

-----------------------------------------------------------------------------
(* Properties *)

\* Records are replicated to the next in line only: m_nextCxn is an open connection that m_next, and
\* no other host, is associated with (setNext(), associate(), disconnected()).  An election that ends
\* while disconnected() is under way may take the dying connection, which goes when disconnected() gets
\* to setNext(), or the election it holds does.
ReplicatesToNext ==
  \A h \in Host : nextCxn[h] # NoCxn =>
     /\ next[h] # NoHost
     /\ assoc[nextCxn[h]][h] \in {next[h], NoHost}
     /\ \/ end[nextCxn[h]][h] \in Open
        \/ rx[h].step \in Losing /\ rx[h].cxn = nextCxn[h]
        \/ State(h) \in {"Electing", "Activating", "Deactivating"}

\* Nothing is on its way or left to do, and every host has heard of every other's state.
Quiet ==
  /\ \A h \in Host :
        /\ State(h) \in {"Active", "Inactive"}
        /\ ~deact[h] /\ RxFree(h) /\ dial[h] = {}
        /\ unsent[h] = << >> /\ ~(recovery[h].on /\ nextCxn[h] # NoCxn)
        /\ pushed[h] = {}
        /\ \A p \in Host \ {h} :
              /\ host[h][p].voted
              /\ host[h][p].state = State(p)
              /\ host[h][p].rn = nextRN[p]
  /\ \A c \in Cxn, h \in Host : /\ \A i \in 1..Len(chan[c][h]) : chan[c][h][i].type = "hb"
                                /\ end[c][h] \in {"none", "up"}

Dual == \E h, p \in Host : h # p /\ State(h) = "Active" /\ State(p) = "Active"

\* Zdb.cpp:26 "first-ranked is master": once two hosts have heard of each other and are not
\* both active, one of them is active and both take it for their master, as long as no host is
\* stopped and either no election was won by a host that was not entitled to, or the databases are
\* empty; and a host that is to deactivate finds one to take for its master, as long as no
\* connection has broken either (setMaster() would otherwise dereference a null pointer,
\* Zdb.cpp:804).
MasterAgreed == stops = 0 =>
  /\ Quiet /\ ~Dual /\ (splits = 0 \/ \A h \in Host : nextRN[h] = 0) =>
       \E m \in Host : State(m) = "Active" /\ \A h \in Host : master[h] = m
  /\ faults = 0 => \A h \in Host : deact[h] /\ State(h) \in {"Active", "Electing"} =>
       \E p \in Host \ {h} : host[h][p].voted

\* Zdb.cpp:31 "recovery/replication restarts": when all is quiet again every host holds the
\* records every other holds, if no election was won by a host that was not entitled to, and no
\* recovery was cut short: a record that is pushed meanwhile overtakes it (write()), and setNext() then
\* drops it and finds nothing to recover (startReplication()).
ReplicasComplete ==
  Quiet /\ splits = 0 /\ (\A h \in Host : ~recovery[h].cut) => \A h, p \in Host : rec[h] = rec[p]

\* No two hosts hold records of different masters under one record number, whatever breaks
\* or stops, if no election was won by a host that was not entitled to (push(), put(),
\* repDataRcvd(), recSend()).
OneHistory ==
  splits = 0 => \A h, p \in Host, n \in RN :
     rec[h][n].op = "add" /\ rec[p][n].op = "add" => rec[h][n] = rec[p][n]

\* A record that was put, at its master or at a replica, is never deleted or replaced by
\* what arrives later, a late or repeated copy included (repDataRcvd(), recSend()), as long
\* as no host is stopped.
PutIsKept ==
  [][splits' = 0 /\ stops' = 0 => \A h \in Host, n \in RN :
       rec[h][n].op = "add" => rec'[h][n] = rec[h][n]]_vars

\* Of two active hosts that can hear each other one gives way (hbDataRcvd(), deactivate()).
DualResolves == []<>~Dual

\* While the hosts run, no connection breaks and no recovery is cut short (see ReplicasComplete),
\* replication and recovery end with the same records everywhere, in whatever order the hosts start,
\* elect, connect and push.
ReplicasConverge ==
  <>[](faults = 0 /\ stops = 0 /\ \A h \in Host : IsRunning(h) /\ ~recovery[h].cut) =>
    <>[](\A h, p \in Host : rec[h] = rec[p])

\* stop() returns: all connections are closed and the host is stopped (Zdb.cpp:291).
StopReturns == \A h \in Host : stopStep[h] # "none" ~> stopStep[h] = "none"

\* A stopped host is connected to no host (Zdb.cpp:291 "close all connections (and wait for
\* them to be disconnected)").  It may be: connected() may have found it running before, and
\* disconnected() counts a connection down before it clears the host's.
StoppedIsDisconnected ==
  \A h, p \in Host : State(h) = "Stopped" => host[h][p].cxn = NoCxn

=============================================================================
