-------------------------- MODULE ZdbClusterProofs --------------------------
(***************************************************************************)
(* Theorems about ZdbCluster, for any number of hosts, connections and     *)
(* records and any bounds: the ranking of hosts always has a first, every  *)
(* variable keeps its type, what is replicated goes to the next in line,   *)
(* and no two hosts hold records of different masters under one number.    *)
(* Of two hosts: they agree who is master.                                 *)
(***************************************************************************)
EXTENDS ZdbCluster, FiniteSetTheorems, SequenceTheorems, WellFoundedInduction, TLAPS

-----------------------------------------------------------------------------
(* Ranking: a total order, so that every set of hosts has a first.         *)

Before(v, p, q) == Above(v, p, q) \/ (~Above(v, q, p) /\ p < q)

LEMMA LeastExists ==
  ASSUME NEW S \in SUBSET Nat, S # {}
  PROVE  \E m \in S : \A n \in S : m <= n
<1>1. PICK m \in S : \A n \in S : ~(<<n, m>> \in OpToRel(<, Nat))
  BY NatLessThanWellFounded, WFMin, Zenon
<1>2. \A n \in S : ~(n < m)
  BY <1>1 DEF OpToRel
<1> QED
  BY <1>2

\* By record number, then activity, then priority, then ID.
LEMMA BeforeIs ==
  ASSUME NEW v \in [Host -> Known], NEW p \in Host, NEW q \in Host
  PROVE  /\ p \in Nat /\ q \in Nat /\ v[p].rn \in Nat /\ v[q].rn \in Nat
         /\ Priority[p] \in Nat /\ Priority[q] \in Nat
         /\ Before(v, p, q) <=>
              \/ v[p].rn > v[q].rn
              \/ /\ v[p].rn = v[q].rn
                 /\ \/ v[p].state \in ActiveStates /\ v[q].state \notin ActiveStates
                    \/ /\ v[p].state \in ActiveStates <=> v[q].state \in ActiveStates
                       /\ Priority[p] > Priority[q] \/ (Priority[p] = Priority[q] /\ p < q)
<1>1. /\ p \in Nat /\ q \in Nat /\ v[p].rn \in Nat /\ v[q].rn \in Nat
      /\ Priority[p] \in Nat /\ Priority[q] \in Nat
  BY HostAssumption, PriorityAssumption, BoundAssumption DEF Known
<1> QED
  BY <1>1 DEF Before, Above

LEMMA BeforeTransitive ==
  ASSUME NEW v \in [Host -> Known], NEW p \in Host, NEW q \in Host, NEW r \in Host,
         Before(v, p, q), Before(v, q, r)
  PROVE  Before(v, p, r)
  BY BeforeIs

LEMMA BeforeTotal ==
  ASSUME NEW v \in [Host -> Known], NEW p \in Host, NEW q \in Host, p # q
  PROVE  Before(v, p, q) \/ Before(v, q, p)
  BY BeforeIs

LEMMA FirstExists ==
  ASSUME NEW v \in [Host -> Known], NEW S \in SUBSET Host, S # {}
  PROVE  \E p \in S : \A q \in S \ {p} : Before(v, p, q)
<1> DEFINE First(T) == \E p \in T : \A q \in T \ {p} : Before(v, p, q)
           Sizes == {n \in Nat : \E T \in SUBSET S : T # {} /\ Cardinality(T) = n /\ ~First(T)}
<1>1. \A T \in SUBSET S : IsFiniteSet(T) /\ Cardinality(T) \in Nat
  BY HostAssumption, FS_Subset, FS_CardinalityType
<1>2. Sizes = {}
  <2> SUFFICES ASSUME Sizes # {}
               PROVE  FALSE
    OBVIOUS
  <2>1. PICK n \in Sizes : \A k \in Sizes : n <= k
    <3>1. Sizes \in SUBSET Nat
      OBVIOUS
    <3> HIDE DEF Sizes
    <3> QED
      BY <3>1, LeastExists
  <2>2. PICK T \in SUBSET S : T # {} /\ Cardinality(T) = n /\ ~First(T)
    BY <2>1
  <2>3. PICK x \in T : TRUE
    BY <2>2
  <2>4. n \in Nat /\ Cardinality(T \ {x}) = n - 1
    BY <1>1, <2>1, <2>2, <2>3, FS_RemoveElement
  <2>5. First(T \ {x})
    <3>1. CASE T \ {x} = {}
      <4>1. First(T)
        BY <2>3, <3>1
      <4> QED
        BY <2>2, <4>1
    <3>2. CASE T \ {x} # {} /\ ~First(T \ {x})
      <4>1. n - 1 \in Nat
        BY <1>1, <2>4
      <4>2. n - 1 \in Sizes
        BY <2>4, <3>2, <4>1
      <4>3. n <= n - 1
        BY <2>1, <4>2
      <4> QED
        BY <2>4, <4>3
    <3> QED
      BY <3>1, <3>2
  <2>6. PICK y \in T \ {x} : \A q \in T \ {x, y} : Before(v, y, q)
    BY <2>5
  <2>7. CASE Before(v, y, x)
    <3>1. \A q \in T \ {y} : Before(v, y, q)
      BY <2>6, <2>7
    <3> QED
      BY <2>2, <2>6, <3>1
  <2>8. CASE Before(v, x, y)
    <3>1. \A q \in T \ {x} : Before(v, x, q)
      BY <2>2, <2>3, <2>6, <2>8, BeforeTransitive
    <3> QED
      BY <2>2, <2>3, <3>1
  <2> QED
    BY <2>2, <2>3, <2>6, <2>7, <2>8, BeforeTotal
<1>3. Cardinality(S) \notin Sizes
  BY <1>2
<1> QED
  BY <1>1, <1>3

\* setMaster() and setNext() name one of the hosts they choose from, or none of none.
LEMMA FirstRankedIs ==
  ASSUME NEW v \in [Host -> Known], NEW S \in SUBSET Host
  PROVE  /\ FirstRanked(v, S) \in Host \cup {NoHost}
         /\ FirstRanked(v, S) # NoHost => FirstRanked(v, S) \in S
<1>1. CASE S = {}
  BY <1>1 DEF FirstRanked
<1>2. CASE S # {}
  <2>1. \E p \in S : \A q \in S \ {p} : Above(v, p, q) \/ (~Above(v, q, p) /\ p < q)
    BY <1>2, FirstExists DEF Before
  <2>2. FirstRanked(v, S) \in S
    BY <1>2, <2>1 DEF FirstRanked
  <2> QED
    BY <2>2
<1> QED
  BY <1>1, <1>2

-----------------------------------------------------------------------------
(* Types of what the handlers are built from                               *)

View == [Host -> Known]
Channels == [Cxn -> [Host -> Seq(Msg)]]

LEMMA NumbersType ==
  ASSUME TypeOK
  PROVE  /\ MaxRN \in Nat /\ use \in Uses
         /\ use.records \in 0..MaxRN /\ use.faults \in Nat /\ use.stops \in Nat /\ use.splits \in Nat
         /\ use.cxns \subseteq Cxn
  BY BoundAssumption, UsesAssumption DEF TypeOK

LEMMA KnownType ==
  ASSUME TypeOK, NEW h \in Host
  PROVE  host[h] \in View /\ State(h) \in HostState
  BY DEF TypeOK, View, Known, State

LEMMA RefreshedType ==
  ASSUME TypeOK, NEW h \in Host, NEW v \in View
  PROVE  /\ Refreshed(v, h) \in View
         /\ \A p \in Host : /\ Refreshed(v, h)[p].cxn = v[p].cxn
                            /\ Refreshed(v, h)[p].state = v[p].state
                            /\ Refreshed(v, h)[p].voted = v[p].voted
<1>1. nextRN[h] \in 0..MaxRN
  BY DEF TypeOK
<1>2. \A p \in Host : Refreshed(v, h)[p] = IF p = h THEN [v[h] EXCEPT !.rn = nextRN[h]] ELSE v[p]
  BY DEF View, Refreshed
<1>3. Refreshed(v, h) \in [Host -> Known]
  <2>1. DOMAIN Refreshed(v, h) = Host /\ [v[h] EXCEPT !.rn = nextRN[h]] \in Known
    BY <1>1 DEF View, Known, Refreshed
  <2>2. \A p \in Host : Refreshed(v, h)[p] \in Known
    BY <1>2, <2>1 DEF View
  <2>3. Refreshed(v, h) = [p \in Host |-> Refreshed(v, h)[p]]
    BY <2>1 DEF Refreshed, View
  <2> QED
    BY <2>2, <2>3
<1>4. \A p \in Host : /\ Refreshed(v, h)[p].cxn = v[p].cxn
                      /\ Refreshed(v, h)[p].state = v[p].state
                      /\ Refreshed(v, h)[p].voted = v[p].voted
  BY <1>2 DEF View, Known
<1> QED
  BY <1>3, <1>4 DEF View

LEMMA VotedType ==
  ASSUME NEW v, NEW T \in SUBSET Host
  PROVE  Voted(v) \subseteq Host /\ Cardinality(Voted(v) \ T) \in Nat
  BY HostAssumption, FS_Subset, FS_CardinalityType DEF Voted

LEMMA AssociatedType ==
  ASSUME NEW v \in View, NEW c \in Cxn \cup {NoCxn}, NEW p \in Host
  PROVE  Associated(v, c, p) \in View /\ \A q \in Host : Associated(v, c, p)[q].state = v[q].state
  BY DEF View, Known, Associated

LEMMA UnvotedType ==
  ASSUME NEW v \in View, NEW h \in Host
  PROVE  /\ Unvoted(v, h) \in View
         /\ \A p \in Host : Unvoted(v, h)[p].cxn = v[p].cxn
  BY DEF View, Known, Unvoted

LEMMA StateType ==
  ASSUME NEW v \in View, NEW h \in Host, NEW s \in HostState
  PROVE  /\ [v EXCEPT ![h].state = s] \in View
         /\ \A p \in Host : [v EXCEPT ![h].state = s][p].cxn = v[p].cxn
  BY DEF View, Known

\* A recovery is under way, begins, or ends.
Resumes == \A k \in Host : recovery'[k].end \in {recovery[k].end, nextRN[k], 0}

LEMMA RecoveryType ==
  ASSUME TypeOK
  PROVE  /\ \A cut \in BOOLEAN : NoRecovery(cut) \in Recovery /\ NoRecovery(cut).end = 0
         /\ \A h \in Host : recovery[h] \in Recovery /\ recovery[h].cut \in BOOLEAN
         /\ \A h \in Host : \A v : Cut(h, v) \in BOOLEAN
<1>1. \A h \in Host : recovery[h] \in Recovery /\ recovery[h].cut \in BOOLEAN
  BY DEF TypeOK, Recovery
<1>2. \A h \in Host : \A v : Cut(h, v) \in BOOLEAN
  BY <1>1 DEF Cut
<1> QED
  BY <1>1, <1>2, NumbersType DEF NoRecovery, Recovery

\* setNext() takes a host and its connection.
LEMMA ReplicateIs ==
  ASSUME TypeOK, NEW h \in Host, NEW v \in View, NEW p \in Host \cup {NoHost}, Replicate(h, v, p)
  PROVE  /\ next' \in [Host -> Host \cup {NoHost}]
         /\ nextCxn' \in [Host -> Cxn \cup {NoCxn}]
         /\ recovery' \in [Host -> Recovery]
         /\ host' \in [Host -> View]
         /\ next'[h] = p /\ nextCxn'[h] = (IF p = NoHost THEN NoCxn ELSE v[p].cxn)
         /\ \A k \in Host \ {h} : next'[k] = next[k] /\ nextCxn'[k] = nextCxn[k] /\ host'[k] = host[k]
         /\ \A q \in Host : host'[h][q].cxn = v[q].cxn /\ host'[h][q].state = v[q].state
         /\ Resumes
<1> USE HostAssumption
<1>1. /\ next \in [Host -> Host \cup {NoHost}] /\ nextCxn \in [Host -> Cxn \cup {NoCxn}]
      /\ recovery \in [Host -> Recovery] /\ host \in [Host -> View]
      /\ nextRN \in [Host -> 0..MaxRN]
  BY DEF TypeOK, View
<1>2. p # NoHost => v[p].cxn \in Cxn \cup {NoCxn} /\ v[p].rn \in 0..MaxRN
  BY DEF View, Known
<1>3. /\ next' \in [Host -> Host \cup {NoHost}]
      /\ nextCxn' \in [Host -> Cxn \cup {NoCxn}]
      /\ next'[h] = p /\ nextCxn'[h] = (IF p = NoHost THEN NoCxn ELSE v[p].cxn)
      /\ \A k \in Host \ {h} : next'[k] = next[k] /\ nextCxn'[k] = nextCxn[k]
  BY <1>1, <1>2 DEF Replicate
<1>4. recovery' \in [Host -> Recovery]
  <2>1. Cut(h, v) \in BOOLEAN /\ NoRecovery(Cut(h, v)) \in Recovery
    BY RecoveryType
  <2>2. p # NoHost => [on |-> TRUE, rn |-> v[p].rn, end |-> nextRN[h], cut |-> Cut(h, v)] \in Recovery
    BY <1>1, <1>2, <2>1 DEF Recovery
  <2> QED
    BY <1>1, <2>1, <2>2 DEF Replicate
<1>5. /\ host' \in [Host -> View]
      /\ \A k \in Host \ {h} : host'[k] = host[k]
      /\ \A q \in Host : host'[h][q].cxn = v[q].cxn /\ host'[h][q].state = v[q].state
  <2>1. host' = [host EXCEPT ![h] = IF p = NoHost THEN v ELSE Refreshed(v, h)]
    BY DEF Replicate
  <2> QED
    BY <1>1, <2>1, RefreshedType
<1>6. Resumes
  <2> DEFINE e == IF p # NoHost /\ v[p].rn < nextRN[h]
                  THEN [on |-> TRUE, rn |-> v[p].rn, end |-> nextRN[h], cut |-> Cut(h, v)]
                  ELSE NoRecovery(Cut(h, v))
  <2>1. recovery' = [recovery EXCEPT ![h] = e] /\ e.end \in {nextRN[h], 0}
    BY DEF Replicate, NoRecovery
  <2> HIDE DEF e
  <2> QED
    BY <1>1, <2>1 DEF Resumes
<1> QED
  BY <1>3, <1>4, <1>5, <1>6

LEMMA HbType ==
  ASSUME NEW h \in Host, NEW v \in View
  PROVE  Hb(h, v) \in Msg /\ Hb(h, v).type = "hb" /\ Hb(h, v).from = h
  BY DEF Hb, Msg, Heartbeats, View, Known

LEMMA RepMsgType ==
  ASSUME NEW n \in RN, NEW r \in Record
  PROVE  RepMsg(n, r) \in Rep /\ RepMsg(n, r) \in Msg /\ RepMsg(n, r).type = "rep"
  BY DEF RepMsg, Msg, Rep

LEMMA SentType ==
  ASSUME NEW ch \in Channels, NEW c, NEW h, NEW msgs \in Seq(Msg)
  PROVE  Sent(ch, c, h, msgs) \in Channels
<1>1. \A d \in Cxn, k \in Host : ch[d][k] \o msgs \in Seq(Msg)
  BY DEF Channels
<1> DEFINE sent == [ch EXCEPT ![c][Peer(c, h)] = @ \o msgs]
<1>2. sent \in Channels
  BY <1>1 DEF Channels
<1> QED
  BY <1>2 DEF Sent

LEMMA GoneType ==
  ASSUME TypeOK, NEW c \in Cxn, NEW h \in Host, NEW how \in EndState, Gone(c, h, how)
  PROVE  /\ end' \in [Cxn -> [Host -> EndState]]
         /\ assoc' \in [Cxn -> [Host -> Host \cup {NoHost}]]
         /\ chan' \in Channels
         /\ hdr' \in [Cxn -> SUBSET Host]
<1>1. end' \in [Cxn -> [Host -> EndState]]
  BY DEF TypeOK, Gone, EndState
<1>2. assoc' \in [Cxn -> [Host -> Host \cup {NoHost}]]
  BY DEF TypeOK, Gone
<1>3. chan' \in Channels
  BY DEF TypeOK, Gone, Channels
<1>4. hdr' \in [Cxn -> SUBSET Host]
  BY DEF TypeOK, Gone
<1> QED
  BY <1>1, <1>2, <1>3, <1>4

LEMMA OrphanType ==
  ASSUME TypeOK, NEW h \in Host, NEW old \in SUBSET Cxn
  PROVE  /\ Orphan(h, old, end) \in [Cxn -> [Host -> EndState]]
         /\ Disown(h, old, assoc) \in [Cxn -> [Host -> Host \cup {NoHost}]]
  BY DEF TypeOK, Orphan, Disown, EndState

LEMMA ReplacedType ==
  ASSUME NEW v \in View, NEW c, NEW p \in Host
  PROVE  Replaced(v, c, p) \in SUBSET Cxn
  BY DEF View, Known, Replaced

\* A host votes, and may become the next in line.
LEMMA VoteIs ==
  ASSUME TypeOK, NEW h \in Host, NEW v \in View, NEW p \in Host, Vote(h, v, p)
  PROVE  /\ next' \in [Host -> Host \cup {NoHost}]
         /\ nextCxn' \in [Host -> Cxn \cup {NoCxn}]
         /\ recovery' \in [Host -> Recovery]
         /\ host' \in [Host -> View]
         /\ \/ next'[h] = p /\ nextCxn'[h] = v[p].cxn
            \/ next'[h] = next[h] /\ nextCxn'[h] = nextCxn[h]
         /\ \A k \in Host \ {h} : next'[k] = next[k] /\ nextCxn'[k] = nextCxn[k] /\ host'[k] = host[k]
         /\ \A q \in Host : host'[h][q].cxn = v[q].cxn /\ host'[h][q].state = v[q].state
         /\ Resumes
<1> DEFINE y == [v EXCEPT ![p].voted = TRUE]
           w == Refreshed(y, h)
<1>1. y \in View /\ \A q \in Host : y[q].cxn = v[q].cxn /\ y[q].state = v[q].state
  BY DEF View, Known
<1> HIDE DEF y
<1>2. w \in View /\ \A q \in Host : w[q].cxn = v[q].cxn /\ w[q].state = v[q].state
  BY <1>1, RefreshedType
<1> HIDE DEF w
<1>3. CASE Replicate(h, w, p)
  <2>1. p \in Host \cup {NoHost} /\ p # NoHost
    BY HostAssumption
  <2> QED
    BY <1>2, <1>3, <2>1, ReplicateIs
<1>4. CASE host' = [host EXCEPT ![h] = w] /\ UNCHANGED <<next, nextCxn, recovery>>
  <2>1. Resumes
    BY <1>4 DEF Resumes
  <2> QED
    BY <1>2, <1>4, <2>1 DEF TypeOK, View
<1> QED
  BY <1>3, <1>4 DEF Vote, y, w

-----------------------------------------------------------------------------
(* Every step keeps the types                                              *)

\* A host's own environment, as start() and stop() leave it.
LEMMA StopReplicationType ==
  ASSUME TypeOK, NEW h \in Host, StopReplication(h)
  PROVE  /\ master' \in [Host -> Host \cup {NoHost}]
         /\ prev' \in [Host -> Host \cup {NoHost}]
         /\ next' \in [Host -> Host \cup {NoHost}]
         /\ nextCxn' \in [Host -> Cxn \cup {NoCxn}]
         /\ recovery' \in [Host -> Recovery]
         /\ nextCxn'[h] = NoCxn
         /\ \A k \in Host \ {h} : next'[k] = next[k] /\ nextCxn'[k] = nextCxn[k]
         /\ Resumes
<1>1. NoRecovery(recovery[h].cut) \in Recovery /\ NoRecovery(recovery[h].cut).end = 0
  BY RecoveryType
<1>2. recovery' = [recovery EXCEPT ![h] = NoRecovery(recovery[h].cut)]
  BY DEF StopReplication
<1>3. Resumes
  BY <1>1, <1>2 DEF TypeOK, Resumes
<1>4. recovery' \in [Host -> Recovery]
  BY <1>1, <1>2 DEF TypeOK
<1> QED
  BY <1>3, <1>4 DEF StopReplication, TypeOK

LEMMA StartType ==
  ASSUME TypeOK, NEW h \in Host, Start(h), UNCHANGED use
  PROVE  TypeOK'
<1> DEFINE v == [Unvoted(host[h], h) EXCEPT ![h].state = "Electing"]
<1>1. v \in View /\ Refreshed(v, h) \in View
  <2>1. v \in View
    BY KnownType, UnvotedType, StateType DEF HostState
  <2> QED
    BY <2>1, RefreshedType
<1> HIDE DEF v
<1>2. host' \in [Host -> [Host -> Known]]
  BY <1>1 DEF Start, TypeOK, View, v
<1>3. Cardinality(Host) \in Nat
  BY HostAssumption, FS_CardinalityType
<1>4. nPeers' \in [Host -> Int] /\ dial' \in [Host -> SUBSET Host]
  BY <1>3 DEF Start, TypeOK
<1>5. StopReplication(h)
  BY DEF Start
<1> QED
  BY <1>2, <1>4, <1>5, StopReplicationType DEF Start, TypeOK, dbVars, cxnVars, boundVars

LEMMA StopType ==
  ASSUME TypeOK, NEW h \in Host, Stop(h), UNCHANGED use
  PROVE  TypeOK'
<1> DEFINE v == [Unvoted(host[h], h) EXCEPT ![h].state = "Stopping"]
<1>1. v \in View
  BY KnownType, UnvotedType, StateType DEF HostState
<1>2. host' = [host EXCEPT ![h] = v]
  BY DEF Stop
<1> HIDE DEF v
<1>3. host' \in [Host -> [Host -> Known]]
  BY <1>1, <1>2 DEF TypeOK, View
<1>4. nPeers' \in [Host -> Int] /\ stopStep' \in [Host -> StopStep]
  BY DEF Stop, TypeOK, StopStep
<1>5. stops' \in 0..use.stops
  <2>1. stops \in 0..use.stops /\ use.stops \in Nat
    BY NumbersType DEF TypeOK
  <2>2. stops < use.stops /\ stops' = stops + 1
    BY DEF Stop
  <2> QED
    BY <2>1, <2>2
<1>6. StopReplication(h)
  BY DEF Stop
<1> QED
  BY <1>3, <1>4, <1>5, <1>6, StopReplicationType DEF Stop, TypeOK, dbVars, cxnVars

LEMMA HostStateType ==
  ASSUME TypeOK, NEW h \in Host, NEW s \in HostState
  PROVE  [host EXCEPT ![h][h].state = s] \in [Host -> [Host -> Known]]
<1> DEFINE v == [host[h] EXCEPT ![h].state = s]
<1>1. v \in View
  BY KnownType, StateType
<1>2. [host EXCEPT ![h][h].state = s] = [host EXCEPT ![h] = v]
  OBVIOUS
<1> HIDE DEF v
<1>3. [host EXCEPT ![h] = v] \in [Host -> [Host -> Known]]
  BY <1>1 DEF TypeOK, View
<1> QED
  BY <1>2, <1>3

LEMMA StopDisconnectType ==
  ASSUME TypeOK, NEW h \in Host, StopDisconnect(h), UNCHANGED use
  PROVE  TypeOK'
<1>1. host' \in [Host -> [Host -> Known]]
  <2>1. host' = host \/ host' = [host EXCEPT ![h][h].state = "Stopped"]
    BY DEF StopDisconnect
  <2>2. "Stopped" \in HostState /\ host \in [Host -> [Host -> Known]]
    BY DEF HostState, TypeOK
  <2> QED
    BY <2>1, <2>2, HostStateType
<1>2. end' \in [Cxn -> [Host -> EndState]]
  BY DEF StopDisconnect, TypeOK, EndState
<1>3. dial' \in [Host -> SUBSET Host] /\ stopStep' \in [Host -> StopStep]
  BY DEF StopDisconnect, TypeOK, StopStep
<1> QED
  BY <1>1, <1>2, <1>3 DEF StopDisconnect, TypeOK, dbVars, boundVars

LEMMA StopFinishType ==
  ASSUME TypeOK, NEW h \in Host, StopFinish(h), UNCHANGED use
  PROVE  TypeOK'
<1>1. host' \in [Host -> [Host -> Known]]
  BY HostStateType DEF StopFinish, HostState
<1>2. nPeers' \in [Host -> Int] /\ stopStep' \in [Host -> StopStep]
  BY DEF StopFinish, TypeOK, StopStep
<1> QED
  BY <1>1, <1>2 DEF StopFinish, TypeOK, dbVars, cxnVars, boundVars

\* setMaster()
LEMMA SetMasterType ==
  ASSUME TypeOK, NEW h \in Host, NEW v \in View, SetMaster(h, v)
  PROVE  master' \in [Host -> Host \cup {NoHost}] /\ nPeers' \in [Host -> Int]
<1>1. Voted(v) \in SUBSET Host
  BY DEF Voted
<1>2. FirstRanked(v, Voted(v)) \in Host \cup {NoHost}
  BY <1>1, FirstRankedIs DEF View
<1>3. Cardinality(Voted(v) \ {h}) \in Nat
  BY VotedType
<1> QED
  BY <1>2, <1>3 DEF SetMaster, TypeOK

LEMMA AnnouncedType ==
  ASSUME TypeOK, NEW h \in Host, NEW v \in View
  PROVE  Announced(h, v) \in Channels
<1>1. <<Hb(h, v)>> \in Seq(Msg)
  BY HbType
<1>2. \A c \in Cxn : Sent(chan, c, h, <<Hb(h, v)>>) \in Channels
  BY <1>1, SentType DEF TypeOK, Channels
<1> QED
  BY <1>2 DEF Announced, Channels

LEMMA HoldElectionType ==
  ASSUME TypeOK, NEW h \in Host, HoldElection(h), UNCHANGED use
  PROVE  TypeOK'
<1> DEFINE v == Refreshed(host[h], h)
           won == FirstRanked(v, Voted(v)) = h
           w == [v EXCEPT ![h].state = IF won THEN "Activating" ELSE "Deactivating"]
<1>1. v \in View
  BY KnownType, RefreshedType
<1> HIDE DEF v
<1>2. w \in View
  BY <1>1, StateType DEF HostState
<1>3. SetMaster(h, v) /\ host' = [host EXCEPT ![h] = w]
      /\ appActive' = [appActive EXCEPT ![h] = won]
  BY DEF HoldElection, v
<1>4. chan' \in Channels
  <2>1. chan' = Announced(h, w) \/ chan' = chan
    BY DEF HoldElection, v
  <2> QED
    BY <1>2, <2>1, AnnouncedType DEF TypeOK, Channels
<1>5. prev' \in [Host -> Host \cup {NoHost}]
  BY DEF HoldElection, TypeOK
<1>6. splits' \in 0..use.splits
  <2>1. (splits' = splits \/ splits' = splits + 1) /\ splits' <= use.splits
    BY DEF HoldElection
  <2> QED
    BY <2>1, NumbersType DEF TypeOK
<1> HIDE DEF w
<1>7. host' \in [Host -> [Host -> Known]]
  BY <1>2, <1>3 DEF TypeOK, View
<1>8. appActive' \in [Host -> BOOLEAN]
  BY <1>3 DEF TypeOK
<1>9. master' \in [Host -> Host \cup {NoHost}] /\ nPeers' \in [Host -> Int]
  BY <1>1, <1>3, SetMasterType
<1> QED
  BY <1>4, <1>5, <1>6, <1>7, <1>8, <1>9 DEF HoldElection, TypeOK, dbVars, Channels

LEMMA DeactivateType ==
  ASSUME TypeOK, NEW h \in Host, Deactivate(h), UNCHANGED use
  PROVE  TypeOK'
<1> DEFINE r == Refreshed(host[h], h)
           w == [r EXCEPT ![h].voted = FALSE]
           u == [w EXCEPT ![h].voted = TRUE, ![h].state = "Deactivating"]
<1>1. r \in View
  BY KnownType, RefreshedType
<1> HIDE DEF r
<1>2. w \in View
  BY <1>1 DEF View, Known
<1> HIDE DEF w
<1>3. u \in View
  BY <1>2 DEF View, Known, HostState
<1>4. deact' \in [Host -> BOOLEAN]
  BY DEF Deactivate, TypeOK
<1>5. \/ /\ SetMaster(h, w) /\ host' = [host EXCEPT ![h] = u]
         /\ appActive' = [appActive EXCEPT ![h] = FALSE]
      \/ UNCHANGED <<host, master, nPeers, appActive>>
  BY DEF Deactivate, w, r
<1> HIDE DEF u
<1>6. /\ host' \in [Host -> [Host -> Known]] /\ appActive' \in [Host -> BOOLEAN]
      /\ master' \in [Host -> Host \cup {NoHost}] /\ nPeers' \in [Host -> Int]
  <2>1. CASE SetMaster(h, w) /\ host' = [host EXCEPT ![h] = u] /\ appActive' = [appActive EXCEPT ![h] = FALSE]
    BY <1>2, <1>3, <2>1, SetMasterType DEF TypeOK, View
  <2> QED
    BY <1>5, <2>1 DEF TypeOK
<1> QED
  BY <1>4, <1>6 DEF Deactivate, TypeOK, dbVars, cxnVars, boundVars

LEMMA NextInLineType ==
  ASSUME NEW h \in Host, NEW v \in View
  PROVE  NextInLine(h, v) \in Host \cup {NoHost}
<1> DEFINE S == {p \in Voted(v) \ {h, prev[h]} : Above(v, h, p)}
<1>1. S \in SUBSET Host
  BY DEF Voted
<1> HIDE DEF S
<1>2. FirstRanked(v, S) \in Host \cup {NoHost}
  BY <1>1, FirstRankedIs DEF View
<1> QED
  BY <1>2 DEF NextInLine, S

LEMMA FinishElectionType ==
  ASSUME TypeOK, NEW h \in Host, FinishElection(h), UNCHANGED use
  PROVE  TypeOK'
<1> DEFINE s == IF host[h][h].state = "Activating" THEN "Active" ELSE "Inactive"
           v == [host[h] EXCEPT ![h].state = s]
<1>1. v \in View
  BY KnownType, StateType DEF HostState
<1>2. Replicate(h, v, NextInLine(h, v))
  BY KnownType DEF FinishElection, View
<1> HIDE DEF v
<1>3. NextInLine(h, v) \in Host \cup {NoHost}
  BY <1>1, NextInLineType
<1>4. /\ next' \in [Host -> Host \cup {NoHost}] /\ nextCxn' \in [Host -> Cxn \cup {NoCxn}]
      /\ recovery' \in [Host -> Recovery] /\ host' \in [Host -> View]
  BY <1>1, <1>2, <1>3, ReplicateIs
<1> QED
  BY <1>4 DEF FinishElection, TypeOK, dbVars, cxnVars, boundVars, View

\* Where a callback is.
LEMMA RxIs ==
  ASSUME TypeOK, NEW h \in Host
  PROVE  /\ \/ rx[h] = RxIdle /\ rx[h].step = "idle"
            \/ rx[h].step = "opening" /\ rx[h].cxn \in Cxn /\ rx[h].host = NoHost
            \/ rx[h] \in [step : LosingStep, cxn : Cxn, host : Host]
         /\ "idle" \notin LosingStep /\ "opening" \notin LosingStep
         /\ rx[h].step \in LosingStep => rx[h].cxn \in Cxn /\ rx[h].host \in Host
<1>1. \/ rx[h] = RxIdle
      \/ rx[h] \in [step : {"opening"}, cxn : Cxn, host : {NoHost}]
      \/ rx[h] \in [step : LosingStep, cxn : Cxn, host : Host]
  BY DEF TypeOK, Rx
<1>2. RxIdle.step = "idle" /\ "idle" \notin LosingStep /\ "opening" \notin LosingStep
  BY DEF RxIdle, LosingStep, Losing
<1>3. CASE rx[h] = RxIdle
  BY <1>2, <1>3
<1>4. CASE rx[h] \in [step : {"opening"}, cxn : Cxn, host : {NoHost}]
  BY <1>2, <1>4
<1>5. CASE rx[h] \in [step : LosingStep, cxn : Cxn, host : Host]
  BY <1>2, <1>5
<1> QED
  BY <1>1, <1>3, <1>4, <1>5

\* A callback goes on, or returns.
LEMMA RxType ==
  ASSUME TypeOK, NEW h \in Host
  PROVE  /\ [rx EXCEPT ![h] = RxIdle] \in [Host -> Rx]
         /\ \A c \in Cxn, p \in Host \cup {NoHost} :
               [rx EXCEPT ![h] = [step |-> IF p = NoHost THEN "opening" ELSE "dropped", cxn |-> c, host |-> p]]
                 \in [Host -> Rx]
         /\ rx[h].step \in LosingStep =>
              \A s \in LosingStep : [rx EXCEPT ![h].step = s] \in [Host -> Rx]
<1>1. \A c \in Cxn, p \in Host \cup {NoHost} :
         [step |-> IF p = NoHost THEN "opening" ELSE "dropped", cxn |-> c, host |-> p] \in Rx
  BY DEF Rx, LosingStep, Losing
<1>2. rx[h].step \in LosingStep => \A s \in LosingStep : [rx[h] EXCEPT !.step = s] \in Rx
  <2>1. rx[h].step \in LosingStep => rx[h] \in [step : LosingStep, cxn : Cxn, host : Host]
    BY RxIs
  <2> QED
    BY <2>1 DEF Rx
<1>3. \A s \in LosingStep : [rx EXCEPT ![h].step = s] = [rx EXCEPT ![h] = [rx[h] EXCEPT !.step = s]]
  BY DEF TypeOK
<1> QED
  BY <1>1, <1>2, <1>3 DEF TypeOK, Rx

LEMMA RedialType ==
  ASSUME TypeOK, NEW h \in Host, Redial(h), UNCHANGED use
  PROVE  TypeOK'
<1>1. rx' \in [Host -> Rx]
  BY RxType DEF Redial
<1>2. rx[h].host \in Host
  <2>1. rx[h].step \in {"redial", "electing"}
    BY DEF Redial
  <2> QED
    BY <2>1, RxIs DEF LosingStep
<1>3. dial' \in [Host -> SUBSET Host]
  BY <1>2 DEF Redial, TypeOK
<1> QED
  BY <1>1, <1>3 DEF Redial, TypeOK, dbVars, cxnVars, boundVars

LEMMA ReelectType ==
  ASSUME TypeOK, NEW h \in Host, Reelect(h), UNCHANGED use
  PROVE  TypeOK'
<1>1. host' \in [Host -> [Host -> Known]]
  <2>1. host' = host \/ host' = [host EXCEPT ![h][h].state = "Electing"]
    BY DEF Reelect
  <2>2. "Electing" \in HostState /\ host \in [Host -> [Host -> Known]]
    BY DEF HostState, TypeOK
  <2> QED
    BY <2>1, <2>2, HostStateType
<1>2. rx' \in [Host -> Rx]
  BY RxType DEF Reelect, LosingStep
<1> QED
  BY <1>1, <1>2 DEF Reelect, TypeOK, dbVars, cxnVars, boundVars

LEMMA WriteThreadType ==
  ASSUME TypeOK, NEW h \in Host, WriteThread(h), UNCHANGED use
  PROVE  TypeOK'
<1>1. Head(unsent[h]) \in Rep /\ Tail(unsent[h]) \in Seq(Rep)
  BY HeadTailProperties DEF WriteThread, TypeOK
<1>2. unsent' \in [Host -> Seq(Rep)]
  BY <1>1 DEF WriteThread, TypeOK
<1>3. <<Head(unsent[h])>> \in Seq(Msg)
  BY <1>1 DEF Msg
<1>4. chan' \in Channels
  BY <1>3, SentType DEF WriteThread, TypeOK, Channels
<1> QED
  BY <1>2, <1>4 DEF WriteThread, TypeOK, envVars, boundVars, Channels

LEMMA RecoveredType ==
  ASSUME NEW r \in Record
  PROVE  Recovered(r) \in Record
  BY DEF Recovered, Record, Deleted

LEMMA RecSendType ==
  ASSUME TypeOK, NEW h \in Host, RecSend(h), UNCHANGED use
  PROVE  TypeOK'
<1> DEFINE n == recovery[h].rn
<1>1. recovery[h] \in Recovery /\ MaxRN \in Nat
  BY NumbersType DEF TypeOK
<1>2. CASE n < recovery[h].end
  <2>1. n \in RN /\ n + 1 \in 0..MaxRN
    BY <1>1, <1>2 DEF Recovery, RN
  <2>2. recovery' = [recovery EXCEPT ![h].rn = n + 1]
        /\ chan' = Sent(chan, nextCxn[h], h, <<RepMsg(n, Recovered(rec[h][n]))>>)
    BY <1>2 DEF RecSend
  <2> HIDE DEF n
  <2>3. recovery' \in [Host -> Recovery]
    <3>1. [recovery[h] EXCEPT !.rn = n + 1] \in Recovery
      BY <1>1, <2>1 DEF Recovery
    <3>2. recovery' = [recovery EXCEPT ![h] = [recovery[h] EXCEPT !.rn = n + 1]]
      BY <2>2
    <3> QED
      BY <3>1, <3>2 DEF TypeOK
  <2>4. <<RepMsg(n, Recovered(rec[h][n]))>> \in Seq(Msg)
    BY <2>1, RecoveredType, RepMsgType DEF TypeOK
  <2>5. chan' \in Channels
    BY <2>2, <2>4, SentType DEF TypeOK, Channels
  <2> QED
    BY <2>3, <2>5 DEF RecSend, TypeOK, dbVars, boundVars, Channels
<1>3. CASE ~(n < recovery[h].end)
  <2>1. NoRecovery(recovery[h].cut) \in Recovery
    BY RecoveryType
  <2>2. recovery' = [recovery EXCEPT ![h] = NoRecovery(recovery[h].cut)] /\ UNCHANGED chan
    BY <1>3 DEF RecSend
  <2>3. recovery' \in [Host -> Recovery]
    BY <2>1, <2>2 DEF TypeOK
  <2> QED
    BY <2>2, <2>3 DEF RecSend, TypeOK, dbVars, boundVars
<1> QED
  BY <1>2, <1>3

LEMMA PushType ==
  ASSUME TypeOK, NEW h \in Host, Push(h), UNCHANGED use
  PROVE  TypeOK'
<1>1. nextRN[h] \in RN /\ nextRN[h] + 1 \in 0..MaxRN
  <2>1. nextRN[h] \in 0..MaxRN /\ use.records \in 0..MaxRN /\ MaxRN \in Nat
    BY NumbersType DEF TypeOK
  <2>2. nextRN[h] < use.records
    BY DEF Push
  <2> QED
    BY <2>1, <2>2 DEF RN
<1>2. nextRN' \in [Host -> 0..MaxRN] /\ pushed' \in [Host -> SUBSET RN]
  BY <1>1 DEF Push, TypeOK
<1> QED
  BY <1>2 DEF Push, TypeOK, envVars, cxnVars, boundVars

\* ZdbEnv::write() sends the message now or leaves it to the write thread.
LEMMA DeferredType ==
  ASSUME TypeOK, NEW h \in Host, NEW m \in Rep
  PROVE  Deferred(h, m) \in [Host -> Seq(Rep)]
  BY DEF TypeOK, Deferred

\* The application commits or aborts.
LEMMA PutIs ==
  ASSUME NEW h \in Host, NEW n \in RN, Put(h, n)
  PROVE  \E r \in {[op |-> "add", by |-> h], Deleted} :
           rec' = [rec EXCEPT ![h][n] = r] /\ Write(h, RepMsg(n, r))
  BY DEF Put

LEMMA PutType ==
  ASSUME TypeOK, NEW h \in Host, NEW n \in RN, Put(h, n), UNCHANGED use
  PROVE  TypeOK'
<1>1. PICK r \in {[op |-> "add", by |-> h], Deleted} :
         rec' = [rec EXCEPT ![h][n] = r] /\ Write(h, RepMsg(n, r))
  BY PutIs
<1>2. r \in Record
  BY DEF Record, Deleted
<1>3. rec' \in [Host -> [RN -> Record]]
  BY <1>1, <1>2 DEF TypeOK
<1>4. RepMsg(n, r) \in Rep /\ <<RepMsg(n, r)>> \in Seq(Msg)
  BY <1>2, RepMsgType
<1>5. unsent' \in [Host -> Seq(Rep)]
  BY <1>1, <1>4, DeferredType DEF Write
<1>6. chan' \in Channels
  BY <1>1, <1>4, SentType DEF Write, TypeOK, Channels
<1>7. pushed' \in [Host -> SUBSET RN]
  BY DEF Put, TypeOK
<1> QED
  BY <1>3, <1>5, <1>6, <1>7 DEF Put, TypeOK, envVars, boundVars, Channels

LEMMA ConnectType ==
  ASSUME TypeOK, NEW h \in Host, NEW p \in Host, NEW c \in Cxn, Connect(h, p, c), UNCHANGED use
  PROVE  TypeOK'
<1>1. \/ UNCHANGED <<end, assoc>>
      \/ /\ end' = [end EXCEPT ![c][h] = "opening", ![c][p] = "opening"]
         /\ assoc' = [assoc EXCEPT ![c][h] = p]
  BY DEF Connect
<1>2. end' \in [Cxn -> [Host -> EndState]] /\ assoc' \in [Cxn -> [Host -> Host \cup {NoHost}]]
  <2>1. "opening" \in EndState /\ end \in [Cxn -> [Host -> EndState]]
        /\ assoc \in [Cxn -> [Host -> Host \cup {NoHost}]]
    BY DEF EndState, TypeOK
  <2>2. [end EXCEPT ![c][h] = "opening", ![c][p] = "opening"] \in [Cxn -> [Host -> EndState]]
    BY <2>1
  <2>3. [assoc EXCEPT ![c][h] = p] \in [Cxn -> [Host -> Host \cup {NoHost}]]
    BY <2>1
  <2> QED
    BY <1>1, <2>1, <2>2, <2>3
<1>3. dial' \in [Host -> SUBSET Host]
  BY DEF Connect, TypeOK
<1> QED
  BY <1>2, <1>3 DEF Connect, TypeOK, dbVars, boundVars

LEMMA ConnectedType ==
  ASSUME TypeOK, NEW h \in Host, NEW c \in Cxn, Connected(c, h), UNCHANGED use
  PROVE  TypeOK'
<1>1. CASE ~IsRunning(h)
  <2>1. Gone(c, h, "refused") /\ UNCHANGED rx /\ "refused" \in EndState
    BY <1>1 DEF Connected, EndState
  <2> QED
    BY <2>1, GoneType DEF Connected, TypeOK, dbVars, boundVars, Channels
<1>2. CASE IsRunning(h)
  <2>1. rx' = [rx EXCEPT ![h] = [step |-> IF NoHost = NoHost THEN "opening" ELSE "dropped",
                                 cxn |-> c, host |-> NoHost]]
    BY <1>2 DEF Connected
  <2>2. rx' \in [Host -> Rx]
    BY <2>1, RxType
  <2> QED
    BY <1>2, <2>2 DEF Connected, TypeOK, dbVars, cxnVars, boundVars
<1> QED
  BY <1>1, <1>2

\* The host's view and the ends of its connections, once c is connected.
LEMMA OpenedIs ==
  ASSUME TypeOK, NEW h \in Host, NEW c \in Cxn, Opened(c, h)
  PROVE  \E old \in SUBSET Cxn, v \in View :
           /\ \/ assoc[c][h] = NoHost /\ old = {} /\ v = host[h]
              \/ /\ assoc[c][h] \in Host /\ old = Replaced(host[h], c, assoc[c][h])
                 /\ v = Associated(host[h], c, assoc[c][h])
           /\ host' = [host EXCEPT ![h] = Refreshed(v, h)]
           /\ end' = [Orphan(h, old, end) EXCEPT ![c][h] = "up"]
           /\ assoc' = Disown(h, old, assoc)
           /\ chan' = IF PeerGone(c, h) THEN chan
                      ELSE [chan EXCEPT ![c][Peer(c, h)] = Append(@, Hb(h, Refreshed(v, h)))]
<1> DEFINE p == assoc[c][h]
           old == IF p = NoHost THEN {} ELSE Replaced(host[h], c, p)
           v == IF p = NoHost THEN host[h] ELSE Associated(host[h], c, p)
<1>1. p \in Host \cup {NoHost} /\ host[h] \in View
  BY KnownType DEF TypeOK
<1>2. old \in SUBSET Cxn /\ v \in View
  BY <1>1, ReplacedType, AssociatedType
<1>3. /\ host' = [host EXCEPT ![h] = Refreshed(v, h)]
      /\ end' = [Orphan(h, old, end) EXCEPT ![c][h] = "up"]
      /\ assoc' = Disown(h, old, assoc)
      /\ chan' = IF PeerGone(c, h) THEN chan
                 ELSE [chan EXCEPT ![c][Peer(c, h)] = Append(@, Hb(h, Refreshed(v, h)))]
  BY DEF Opened
<1>4. \/ p = NoHost /\ old = {} /\ v = host[h]
      \/ p \in Host /\ old = Replaced(host[h], c, p) /\ v = Associated(host[h], c, p)
  BY <1>1
<1> HIDE DEF old, v, p
<1> QED
  BY <1>2, <1>3, <1>4 DEF p

LEMMA OpenedType ==
  ASSUME TypeOK, NEW h \in Host, NEW c \in Cxn, Opened(c, h), UNCHANGED use
  PROVE  TypeOK'
<1>1. PICK old \in SUBSET Cxn, v \in View :
         /\ host' = [host EXCEPT ![h] = Refreshed(v, h)]
         /\ end' = [Orphan(h, old, end) EXCEPT ![c][h] = "up"]
         /\ assoc' = Disown(h, old, assoc)
         /\ chan' = IF PeerGone(c, h) THEN chan
                    ELSE [chan EXCEPT ![c][Peer(c, h)] = Append(@, Hb(h, Refreshed(v, h)))]
  BY OpenedIs
<1>2. Refreshed(v, h) \in View /\ Hb(h, Refreshed(v, h)) \in Msg
  BY RefreshedType, HbType
<1>3. host' \in [Host -> [Host -> Known]]
  BY <1>1, <1>2 DEF TypeOK, View
<1>4. end' \in [Cxn -> [Host -> EndState]] /\ assoc' \in [Cxn -> [Host -> Host \cup {NoHost}]]
  BY <1>1, OrphanType DEF EndState
<1>5. chan' \in [Cxn -> [Host -> Seq(Msg)]]
  <2>1. \A d \in Cxn, k \in Host : Append(chan[d][k], Hb(h, Refreshed(v, h))) \in Seq(Msg)
    BY <1>2 DEF TypeOK
  <2> QED
    BY <1>1, <2>1 DEF TypeOK
<1>6. rx' \in [Host -> Rx]
  BY RxType DEF Opened
<1> QED
  BY <1>3, <1>4, <1>5, <1>6 DEF Opened, TypeOK, dbVars, boundVars

\* What the last section of disconnected() does with the lock.
LEMMA LoseHostIs ==
  ASSUME TypeOK, NEW h \in Host, LoseHost(h)
  PROVE  /\ rx[h] \in Rx /\ rx[h].step = "cleared" /\ rx[h].cxn \in Cxn /\ rx[h].host \in Host
         /\ rx' \in [Host -> Rx]
         /\ next' \in [Host -> Host \cup {NoHost}]
         /\ nextCxn' \in [Host -> Cxn \cup {NoCxn}]
         /\ recovery' \in [Host -> Recovery]
         /\ host' \in [Host -> View]
         /\ prev' \in [Host -> Host \cup {NoHost}]
         /\ \E s \in {"waiting", "electing", "redial"} : rx' = [rx EXCEPT ![h].step = s]
         /\ \A k \in Host \ {h} : next'[k] = next[k] /\ nextCxn'[k] = nextCxn[k] /\ host'[k] = host[k]
         /\ \A q \in Host : host'[h][q].cxn = host[h][q].cxn
         /\ rx[h].host # h => host'[h][h].state = (IF State(h) = "Inactive" /\ master[h] = rx[h].host
                                                   THEN "Electing" ELSE State(h))
         /\ Resumes
         /\ \/ next'[h] = NoHost /\ nextCxn'[h] = NoCxn
            \/ /\ State(h) \in Elected
               /\ next'[h] \in Host \ {rx[h].host} /\ nextCxn'[h] = host[h][next'[h]].cxn
            \/ /\ next'[h] = next[h] /\ nextCxn'[h] = nextCxn[h]
               /\ State(h) \in Elected => master[h] = rx[h].host \/ next[h] # rx[h].host
<1> DEFINE p == rx[h].host
           v == [host[h] EXCEPT ![p].state = "Instantiated", ![p].voted = FALSE]
           pv == IF prev[h] = p THEN NoHost ELSE prev[h]
           S == {q \in Voted(v) \ {h, pv} : Above(v, h, q)}
           lostMaster == State(h) \in Elected /\ master[h] = p
<1>0. rx[h] \in Rx /\ rx[h].step = "cleared" /\ rx[h].cxn \in Cxn /\ p \in Host
  BY RxIs DEF LoseHost, TypeOK, LosingStep, Losing
<1> HIDE DEF p
<1>1. /\ v \in View /\ \A q \in Host : v[q].cxn = host[h][q].cxn
      /\ p # h => v[h].state = State(h)
      /\ ~v[p].voted
  <2>1. host[h] \in [Host -> Known]
    BY KnownType DEF View
  <2> DEFINE lost == [host[h][p] EXCEPT !.state = "Instantiated", !.voted = FALSE]
  <2>2. lost \in Known /\ lost.cxn = host[h][p].cxn /\ lost.state = "Instantiated" /\ ~lost.voted
    BY <1>0, <2>1 DEF Known, HostState
  <2>3. v = [host[h] EXCEPT ![p] = lost]
    BY <1>0, <2>1
  <2> HIDE DEF lost, v
  <2> QED
    BY <1>0, <2>1, <2>2, <2>3 DEF View, State
<1>2. S \in SUBSET (Host \ {p})
  BY <1>1 DEF Voted
<1>3. /\ \E s \in {"waiting", "electing", "redial"} : rx' = [rx EXCEPT ![h].step = s]
      /\ prev' = IF State(h) \in Elected THEN [prev EXCEPT ![h] = pv] ELSE prev
  BY DEF LoseHost, p
<1>4. \/ Replicate(h, v, FirstRanked(v, S)) /\ State(h) \in Elected /\ ~lostMaster
      \/ /\ host' = [host EXCEPT ![h] = IF lostMaster /\ State(h) = "Inactive"
                                        THEN [v EXCEPT ![h].state = "Electing"] ELSE v]
         /\ UNCHANGED <<next, nextCxn, recovery>>
         /\ State(h) \in Elected => master[h] = p \/ next[h] # p
  BY DEF LoseHost, p
<1> HIDE DEF v, S
<1>5. rx' \in [Host -> Rx]
  <2>1. "cleared" \in LosingStep /\ {"waiting", "electing", "redial"} \subseteq LosingStep
    BY DEF LosingStep, Losing
  <2>2. \A s \in LosingStep : [rx EXCEPT ![h].step = s] \in [Host -> Rx]
    BY <1>0, <2>1, RxType
  <2> QED
    BY <1>3, <2>1, <2>2
<1>6. prev' \in [Host -> Host \cup {NoHost}]
  <2>1. prev \in [Host -> Host \cup {NoHost}] /\ pv \in Host \cup {NoHost}
    BY DEF TypeOK
  <2> HIDE DEF pv
  <2> QED
    BY <1>3, <2>1
<1>7. CASE Replicate(h, v, FirstRanked(v, S)) /\ State(h) \in Elected /\ ~lostMaster
  <2>1. FirstRanked(v, S) \in Host \cup {NoHost} /\ (FirstRanked(v, S) # NoHost => FirstRanked(v, S) \in Host \ {p})
    BY <1>1, <1>2, FirstRankedIs DEF View
  <2>2. /\ next' \in [Host -> Host \cup {NoHost}] /\ nextCxn' \in [Host -> Cxn \cup {NoCxn}]
        /\ recovery' \in [Host -> Recovery] /\ host' \in [Host -> View]
        /\ next'[h] = FirstRanked(v, S)
        /\ nextCxn'[h] = (IF FirstRanked(v, S) = NoHost THEN NoCxn ELSE v[FirstRanked(v, S)].cxn)
        /\ \A k \in Host \ {h} : next'[k] = next[k] /\ nextCxn'[k] = nextCxn[k] /\ host'[k] = host[k]
        /\ \A q \in Host : host'[h][q].cxn = v[q].cxn /\ host'[h][q].state = v[q].state
        /\ Resumes
    BY <1>1, <1>7, <2>1, ReplicateIs
  <2>3. \/ next'[h] = NoHost /\ nextCxn'[h] = NoCxn
        \/ next'[h] \in Host \ {p} /\ nextCxn'[h] = host[h][next'[h]].cxn
    BY <1>1, <2>1, <2>2
  <2>4. p # h => host'[h][h].state = (IF State(h) = "Inactive" /\ master[h] = p THEN "Electing" ELSE State(h))
    BY <1>1, <1>7, <2>2 DEF Elected
  <2> QED
    BY <1>0, <1>1, <1>3, <1>5, <1>6, <1>7, <2>2, <2>3, <2>4 DEF p
<1>8. CASE /\ host' = [host EXCEPT ![h] = IF lostMaster /\ State(h) = "Inactive"
                                          THEN [v EXCEPT ![h].state = "Electing"] ELSE v]
           /\ UNCHANGED <<next, nextCxn, recovery>>
           /\ State(h) \in Elected => master[h] = p \/ next[h] # p
  <2> DEFINE e == [v EXCEPT ![h].state = "Electing"]
             w == IF lostMaster /\ State(h) = "Inactive" THEN e ELSE v
  <2>1. "Electing" \in HostState
    BY DEF HostState
  <2>2. e \in View /\ (\A q \in Host : e[q].cxn = v[q].cxn) /\ e[h].state = "Electing"
    BY <1>1, <2>1, StateType DEF View, Known
  <2> HIDE DEF e
  <2>3. /\ w \in View /\ \A q \in Host : w[q].cxn = host[h][q].cxn
        /\ p # h => w[h].state = (IF State(h) = "Inactive" /\ master[h] = p THEN "Electing" ELSE State(h))
    BY <1>1, <2>2 DEF Elected
  <2>4. host' = [host EXCEPT ![h] = w]
    BY <1>8 DEF e
  <2> HIDE DEF w
  <2>5. /\ host' \in [Host -> View] /\ \A k \in Host \ {h} : host'[k] = host[k]
        /\ host'[h] = w
    BY <2>3, <2>4 DEF TypeOK, View
  <2>6. /\ next' \in [Host -> Host \cup {NoHost}] /\ nextCxn' \in [Host -> Cxn \cup {NoCxn}]
        /\ recovery' \in [Host -> Recovery] /\ Resumes
    BY <1>8 DEF TypeOK, Resumes
  <2> QED
    BY <1>0, <1>3, <1>5, <1>6, <1>8, <2>3, <2>5, <2>6 DEF p
<1> QED
  BY <1>4, <1>7, <1>8

LEMMA LoseHostType ==
  ASSUME TypeOK, NEW h \in Host, LoseHost(h), UNCHANGED use
  PROVE  TypeOK'
  BY LoseHostIs DEF LoseHost, TypeOK, dbVars, cxnVars, boundVars, View

LEMMA CountDisconnectedType ==
  ASSUME TypeOK, NEW h \in Host, CountDisconnected(h), UNCHANGED use
  PROVE  TypeOK'
<1>1. rx' \in [Host -> Rx]
  BY RxType DEF CountDisconnected, LosingStep, Losing
<1>2. nPeers' \in [Host -> Int]
  BY DEF CountDisconnected, TypeOK
<1> QED
  BY <1>1, <1>2 DEF CountDisconnected, TypeOK, dbVars, cxnVars, boundVars

\* The host has no connection any more.
LEMMA ClearCxnIs ==
  ASSUME TypeOK, NEW h \in Host, ClearCxn(h)
  PROVE  /\ rx[h] \in Rx /\ rx[h].step = "counted" /\ rx[h].cxn \in Cxn /\ rx[h].host \in Host
         /\ rx' \in [Host -> Rx] /\ rx' = [rx EXCEPT ![h].step = "cleared"]
         /\ host' \in [Host -> View]
         /\ \A k \in Host \ {h} : host'[k] = host[k]
         /\ \A q \in Host : /\ host'[h][q].cxn = IF q = rx[h].host THEN NoCxn ELSE host[h][q].cxn
                            /\ host'[h][q].state = host[h][q].state
                            /\ host'[h][q].rn = host[h][q].rn
                            /\ host'[h][q].voted = host[h][q].voted
<1>1. rx[h] \in Rx /\ rx[h].step = "counted" /\ rx[h].cxn \in Cxn /\ rx[h].host \in Host
  BY RxIs DEF ClearCxn, TypeOK, LosingStep, Losing
<1>2. rx' \in [Host -> Rx] /\ rx' = [rx EXCEPT ![h].step = "cleared"]
  BY <1>1, RxType DEF ClearCxn, LosingStep, Losing
<1> DEFINE p == rx[h].host
           u == [host[h][p] EXCEPT !.cxn = NoCxn]
           v == [host[h] EXCEPT ![p] = u]
<1>3. host[h] \in [Host -> Known]
  BY KnownType DEF View
<1>4. /\ u \in Known /\ u.cxn = NoCxn /\ u.state = host[h][p].state /\ u.rn = host[h][p].rn
      /\ u.voted = host[h][p].voted
  BY <1>1, <1>3 DEF Known
<1>5. host' = [host EXCEPT ![h] = v]
  BY <1>3 DEF ClearCxn
<1> HIDE DEF u
<1>6. /\ v \in View
      /\ \A q \in Host : /\ v[q].cxn = IF q = p THEN NoCxn ELSE host[h][q].cxn
                         /\ v[q].state = host[h][q].state /\ v[q].rn = host[h][q].rn
                         /\ v[q].voted = host[h][q].voted
  BY <1>1, <1>3, <1>4 DEF View
<1> HIDE DEF v
<1> QED
  BY <1>1, <1>2, <1>5, <1>6 DEF TypeOK, View

LEMMA ClearCxnType ==
  ASSUME TypeOK, NEW h \in Host, ClearCxn(h), UNCHANGED use
  PROVE  TypeOK'
  BY ClearCxnIs DEF ClearCxn, TypeOK, dbVars, cxnVars, boundVars, View

LEMMA DropNextCxnIs ==
  ASSUME TypeOK, NEW h \in Host, NEW c \in Cxn, DropNextCxn(c, h)
  PROVE  /\ nextCxn' \in [Host -> Cxn \cup {NoCxn}]
         /\ nextCxn'[h] = IF nextCxn[h] = c THEN NoCxn ELSE nextCxn[h]
         /\ \A k \in Host \ {h} : nextCxn'[k] = nextCxn[k]
  BY DEF TypeOK, DropNextCxn

\* What disconnected() forgets without the lock.
LEMMA DisconnectedIs ==
  ASSUME TypeOK, NEW h \in Host, NEW c \in Cxn, Disconnected(c, h)
  PROVE  /\ Gone(c, h, "closed") /\ DropNextCxn(c, h) /\ end[c][h] \in Open /\ rx[h] = RxIdle
         /\ rx' \in [Host -> Rx]
         /\ \/ UNCHANGED rx /\ ~(assoc[c][h] \in Host /\ host[h][assoc[c][h]].cxn = c)
            \/ \E p \in Host : /\ p = assoc[c][h] /\ host[h][p].cxn = c
                               /\ rx' = [rx EXCEPT ![h] = [step |-> "dropped", cxn |-> c, host |-> p]]
<1> DEFINE p == assoc[c][h]
<1>1. /\ Gone(c, h, "closed") /\ DropNextCxn(c, h) /\ end[c][h] \in Open /\ rx[h] = RxIdle
      /\ rx' = IF p # NoHost /\ host[h][p].cxn = c
               THEN [rx EXCEPT ![h] = [step |-> "dropped", cxn |-> c, host |-> p]] ELSE rx
  BY DEF Disconnected, RxFree
<1>2. p \in Host \cup {NoHost}
  BY DEF TypeOK
<1> HIDE DEF p
<1>3. p # NoHost => [rx EXCEPT ![h] = [step |-> "dropped", cxn |-> c, host |-> p]] \in [Host -> Rx]
  BY <1>2, RxType
<1>4. CASE p # NoHost /\ host[h][p].cxn = c
  <2>1. p \in Host /\ rx' = [rx EXCEPT ![h] = [step |-> "dropped", cxn |-> c, host |-> p]]
    BY <1>1, <1>2, <1>4
  <2> QED
    BY <1>1, <1>3, <1>4, <2>1 DEF p
<1>5. CASE ~(p # NoHost /\ host[h][p].cxn = c)
  <2>1. rx' = rx /\ ~(p \in Host /\ host[h][p].cxn = c)
    BY <1>1, <1>5, HostAssumption
  <2> QED
    BY <1>1, <2>1 DEF TypeOK, p
<1> QED
  BY <1>4, <1>5

LEMMA DisconnectedType ==
  ASSUME TypeOK, NEW h \in Host, NEW c \in Cxn, Disconnected(c, h), UNCHANGED use
  PROVE  TypeOK'
<1>1. Gone(c, h, "closed") /\ "closed" \in EndState
  BY DEF Disconnected, EndState
<1>2. /\ end' \in [Cxn -> [Host -> EndState]] /\ assoc' \in [Cxn -> [Host -> Host \cup {NoHost}]]
      /\ chan' \in Channels /\ hdr' \in [Cxn -> SUBSET Host]
  BY <1>1, GoneType
<1>3. faults' \in 0..use.faults
  <2>1. faults' = faults \/ (faults' = faults + 1 /\ faults + stops < use.faults)
    BY DEF Disconnected
  <2>2. faults \in 0..use.faults /\ use.faults \in Nat /\ stops \in 0..use.stops /\ use.stops \in Nat
    BY NumbersType DEF TypeOK
  <2> QED
    BY <2>1, <2>2
<1>4. rx' \in [Host -> Rx] /\ nextCxn' \in [Host -> Cxn \cup {NoCxn}]
  BY DisconnectedIs, DropNextCxnIs
<1> QED
  BY <1>2, <1>3, <1>4 DEF Disconnected, TypeOK, dbVars, Channels

LEMMA HeartbeatType ==
  ASSUME TypeOK, NEW h \in Host, NEW c \in Cxn, Heartbeat(c, h), UNCHANGED use
  PROVE  TypeOK'
<1> DEFINE v == Refreshed(host[h], h)
<1>1. v \in View
  BY KnownType, RefreshedType
<1>2. host' = [host EXCEPT ![h] = v] /\ chan' = Sent(chan, c, h, <<Hb(h, v)>>)
  BY DEF Heartbeat
<1> HIDE DEF v
<1>3. <<Hb(h, v)>> \in Seq(Msg)
  BY <1>1, HbType
<1>4. chan' \in Channels
  BY <1>2, <1>3, SentType DEF TypeOK, Channels
<1>5. host' \in [Host -> [Host -> Known]]
  BY <1>1, <1>2 DEF TypeOK, View
<1> QED
  BY <1>4, <1>5 DEF Heartbeat, TypeOK, envVars, dbVars, boundVars, Channels

\* What a heartbeat of p does to the host's view and its next in line.
LEMMA HbDataRcvdIs ==
  ASSUME TypeOK, NEW h \in Host, NEW v \in View, NEW p \in Host, HbDataRcvd(h, v, p)
  PROVE  /\ next' \in [Host -> Host \cup {NoHost}]
         /\ nextCxn' \in [Host -> Cxn \cup {NoCxn}]
         /\ recovery' \in [Host -> Recovery]
         /\ host' \in [Host -> View]
         /\ nPeers' \in [Host -> Int]
         /\ deact' \in [Host -> BOOLEAN]
         /\ \/ next'[h] = p /\ nextCxn'[h] = v[p].cxn /\ IsRunning(h)
            \/ next'[h] = next[h] /\ nextCxn'[h] = nextCxn[h]
         /\ \A k \in Host \ {h} : next'[k] = next[k] /\ nextCxn'[k] = nextCxn[k] /\ host'[k] = host[k]
         /\ \A q \in Host : host'[h][q].cxn = v[q].cxn /\ host'[h][q].state = v[q].state
         /\ Resumes
<1> DEFINE w == [v EXCEPT ![p].voted = TRUE]
<1>1. w \in View /\ \A q \in Host : w[q].cxn = v[q].cxn /\ w[q].state = v[q].state
  BY DEF View, Known
<1>2. nPeers' \in [Host -> Int]
  <2>1. \/ nPeers' = nPeers
        \/ nPeers' = [nPeers EXCEPT ![h] = IF v[p].voted THEN @ ELSE @ - 1]
        \/ nPeers' = [nPeers EXCEPT ![h] = @ + 1]
    BY DEF HbDataRcvd
  <2> QED
    BY <2>1 DEF TypeOK
<1>3. deact' \in [Host -> BOOLEAN]
  <2>1. deact' = deact \/ deact' = [deact EXCEPT ![h] = @ \/ Outranked(h, v, p)]
    BY DEF HbDataRcvd
  <2>2. (deact[h] \/ Outranked(h, v, p)) \in BOOLEAN
    BY DEF TypeOK
  <2> QED
    BY <2>1, <2>2 DEF TypeOK
<1>4. \/ Vote(h, v, p) /\ IsRunning(h)
      \/ \E u \in {v, w} : host' = [host EXCEPT ![h] = u] /\ UNCHANGED <<next, nextCxn, recovery>>
  BY DEF HbDataRcvd, IsActive, IsRunning, ActiveStates, Elected, Running
<1> HIDE DEF w
<1>5. CASE Vote(h, v, p) /\ IsRunning(h)
  BY <1>2, <1>3, <1>5, VoteIs
<1>6. CASE \E u \in {v, w} : host' = [host EXCEPT ![h] = u] /\ UNCHANGED <<next, nextCxn, recovery>>
  <2>1. PICK u \in {v, w} : host' = [host EXCEPT ![h] = u] /\ UNCHANGED <<next, nextCxn, recovery>>
    BY <1>6
  <2>2. u \in View /\ \A q \in Host : u[q].cxn = v[q].cxn /\ u[q].state = v[q].state
    BY <1>1
  <2>3. host' \in [Host -> View] /\ (\A k \in Host \ {h} : host'[k] = host[k]) /\ host'[h] = u
    BY <2>1, <2>2 DEF TypeOK, View
  <2>4. Resumes
    BY <2>1 DEF Resumes
  <2> QED
    BY <1>2, <1>3, <2>1, <2>2, <2>3, <2>4 DEF TypeOK
<1> QED
  BY <1>4, <1>5, <1>6

\* The message at the head of a connection.
LEMMA HeadType ==
  ASSUME TypeOK, NEW h \in Host, NEW c \in Cxn, chan[c][h] # << >>
  PROVE  /\ Head(chan[c][h]) \in Msg /\ Tail(chan[c][h]) \in Seq(Msg)
         /\ Head(chan[c][h]).type = "hb" => Head(chan[c][h]) \in Heartbeats
         /\ Head(chan[c][h]).type = "rep" => Head(chan[c][h]) \in Rep
         /\ [chan EXCEPT ![c][h] = Tail(@)] \in Channels
<1>1. chan[c][h] \in Seq(Msg)
  BY DEF TypeOK
<1>2. Head(chan[c][h]) \in Msg /\ Tail(chan[c][h]) \in Seq(Msg)
  BY <1>1, HeadTailProperties
<1>3. [chan EXCEPT ![c][h] = Tail(@)] \in Channels
  BY <1>2 DEF TypeOK, Channels
<1> QED
  BY <1>2, <1>3 DEF Msg, Heartbeats, Rep

\* What the header of a heartbeat does to the ends of the connections and to the host's view of p,
\* the sender.
LEMMA HbRcvdIs ==
  ASSUME TypeOK, NEW h \in Host, NEW c \in Cxn, HbRcvd(c, h)
  PROVE  \E p \in Host, old \in SUBSET Cxn, v \in View :
           /\ chan[c][h] # << >> /\ Head(chan[c][h]).type = "hb" /\ Head(chan[c][h]).from = p
           /\ end[c][h] \in Open /\ rx[h] = RxIdle
           /\ host' = [host EXCEPT ![h] = v]
           /\ \/ /\ assoc[c][h] = NoHost /\ old = Replaced(host[h], c, p)
                 /\ v = Associated(host[h], c, p)
                 /\ assoc' = [Disown(h, old, assoc) EXCEPT ![c][h] = p]
                 /\ end' = Orphan(h, old, end)
              \/ /\ assoc[c][h] # NoHost /\ v = host[h]
                 /\ UNCHANGED <<assoc, end, host>>
           /\ \A q \in Host : v[q].state = host[h][q].state
<1> DEFINE m == Head(chan[c][h])
           p == m.from
           old == Replaced(host[h], c, p)
           new == Associated(host[h], c, p)
<1>1. chan[c][h] # << >> /\ m.type = "hb" /\ end[c][h] \in Open /\ rx[h] = RxIdle
  BY DEF HbRcvd, RxFree
<1>2. m \in Heartbeats
  BY <1>1, HeadType
<1>3. p \in Host
  BY <1>2 DEF Heartbeats
<1>4. IF assoc[c][h] = NoHost
      THEN /\ host' = [host EXCEPT ![h] = new]
           /\ assoc' = [Disown(h, old, assoc) EXCEPT ![c][h] = p]
           /\ end' = Orphan(h, old, end)
      ELSE UNCHANGED <<host, assoc, end>>
  BY DEF HbRcvd
<1>5. host[h] \in View /\ host = [host EXCEPT ![h] = host[h]]
  BY KnownType DEF TypeOK
<1>6. old \in SUBSET Cxn /\ new \in View /\ \A q \in Host : new[q].state = host[h][q].state
  BY <1>3, <1>5, ReplacedType, AssociatedType
<1>7. CASE assoc[c][h] = NoHost
  BY <1>1, <1>3, <1>4, <1>6, <1>7
<1>8. CASE assoc[c][h] # NoHost
  BY <1>1, <1>3, <1>4, <1>5, <1>6, <1>8
<1> QED
  BY <1>7, <1>8

LEMMA HbRcvdType ==
  ASSUME TypeOK, NEW h \in Host, NEW c \in Cxn, HbRcvd(c, h), UNCHANGED use
  PROVE  TypeOK'
<1>1. PICK p \in Host, old \in SUBSET Cxn, v \in View :
           /\ chan[c][h] # << >> /\ Head(chan[c][h]).type = "hb" /\ Head(chan[c][h]).from = p
           /\ end[c][h] \in Open /\ rx[h] = RxIdle
           /\ host' = [host EXCEPT ![h] = v]
           /\ \/ /\ assoc[c][h] = NoHost /\ old = Replaced(host[h], c, p)
                 /\ v = Associated(host[h], c, p)
                 /\ assoc' = [Disown(h, old, assoc) EXCEPT ![c][h] = p]
                 /\ end' = Orphan(h, old, end)
              \/ /\ assoc[c][h] # NoHost /\ v = host[h]
                 /\ UNCHANGED <<assoc, end, host>>
           /\ \A q \in Host : v[q].state = host[h][q].state
  BY HbRcvdIs
<1>2. host' \in [Host -> [Host -> Known]]
  BY <1>1 DEF TypeOK, View
<1>3. end' \in [Cxn -> [Host -> EndState]] /\ assoc' \in [Cxn -> [Host -> Host \cup {NoHost}]]
  <2>1. CASE assoc' = [Disown(h, old, assoc) EXCEPT ![c][h] = p] /\ end' = Orphan(h, old, end)
    BY <2>1, OrphanType
  <2> QED
    BY <1>1, <2>1 DEF TypeOK
<1>4. hdr' \in [Cxn -> SUBSET Host]
  BY DEF HbRcvd, TypeOK
<1> QED
  BY <1>2, <1>3, <1>4 DEF HbRcvd, TypeOK, envVars, dbVars, boundVars

\* The data of a heartbeat, of the host that its connection is associated with.
LEMMA HbDataIs ==
  ASSUME TypeOK, NEW h \in Host, NEW c \in Cxn, CxnHbDataRcvd(c, h)
  PROVE  \E p \in Host, v \in View :
           /\ chan[c][h] # << >> /\ Head(chan[c][h]).type = "hb"
           /\ Head(chan[c][h]) \in Heartbeats
           /\ end[c][h] \in Open /\ p = assoc[c][h] /\ assoc[c][h] # NoHost /\ rx[h] = RxIdle
           /\ v = [host[h] EXCEPT ![p].state = Head(chan[c][h]).state, ![p].rn = Head(chan[c][h]).rn]
           /\ \A q \in Host : v[q].cxn = host[h][q].cxn
           /\ \A q \in Host \ {p} : v[q].state = host[h][q].state
           /\ chan' = [chan EXCEPT ![c][h] = Tail(@)]
           /\ HbDataRcvd(h, v, p)
<1> DEFINE m == Head(chan[c][h])
           p == assoc[c][h]
           v == [host[h] EXCEPT ![p].state = m.state, ![p].rn = m.rn]
<1>1. chan[c][h] # << >> /\ m.type = "hb" /\ end[c][h] \in Open /\ rx[h] = RxIdle /\ p \in Host /\ p # NoHost
  BY DEF CxnHbDataRcvd, RxFree, TypeOK
<1>2. m \in Heartbeats
  BY <1>1, HeadType
<1>3. m.state \in HostState /\ m.rn \in 0..MaxRN
  BY <1>2 DEF Heartbeats
<1>4. chan' = [chan EXCEPT ![c][h] = Tail(@)] /\ HbDataRcvd(h, v, p)
  BY DEF CxnHbDataRcvd
<1> HIDE DEF m, p
<1>5. host[h] \in View
  BY KnownType
<1>6. /\ v \in View /\ \A q \in Host : v[q].cxn = host[h][q].cxn
      /\ \A q \in Host \ {p} : v[q].state = host[h][q].state
  BY <1>1, <1>3, <1>5 DEF View, Known
<1> QED
  BY <1>1, <1>2, <1>4, <1>6 DEF m, p

LEMMA HbDataType ==
  ASSUME TypeOK, NEW h \in Host, NEW c \in Cxn, CxnHbDataRcvd(c, h), UNCHANGED use
  PROVE  TypeOK'
<1>1. PICK p \in Host, v \in View :
           /\ chan[c][h] # << >>
           /\ chan' = [chan EXCEPT ![c][h] = Tail(@)]
           /\ HbDataRcvd(h, v, p)
  BY HbDataIs
<1>2. /\ next' \in [Host -> Host \cup {NoHost}] /\ nextCxn' \in [Host -> Cxn \cup {NoCxn}]
      /\ recovery' \in [Host -> Recovery] /\ host' \in [Host -> View]
      /\ nPeers' \in [Host -> Int] /\ deact' \in [Host -> BOOLEAN]
  BY <1>1, HbDataRcvdIs
<1>3. chan' \in Channels
  BY <1>1, HeadType
<1>4. hdr' \in [Cxn -> SUBSET Host]
  BY DEF CxnHbDataRcvd, TypeOK
<1> QED
  BY <1>2, <1>3, <1>4 DEF CxnHbDataRcvd, TypeOK, dbVars, boundVars, View, Channels

LEMMA MaxIs ==
  ASSUME NEW a \in Nat, NEW b \in Nat
  PROVE  Max({a, b}) \in {a, b} /\ Max({a, b}) >= a /\ Max({a, b}) >= b
<1>1. \E x \in {a, b} : \A y \in {a, b} : x >= y
  <2>1. CASE a >= b
    BY <2>1
  <2>2. CASE ~(a >= b)
    BY <2>2
  <2> QED
    BY <2>1, <2>2
<1> QED
  BY <1>1 DEF Max

\* What repDataRcvd() changes apart from the message it passes on.
LEMMA RepDataRcvdIs ==
  ASSUME TypeOK, NEW h \in Host, NEW c \in Cxn, NEW p \in Host, NEW m \in Rep,
         Tail(chan[c][h]) \in Seq(Msg), RepDataRcvd(c, h, p, m)
  PROVE  /\ host' \in [Host -> View]
         /\ \A k, q \in Host : host'[k][q].cxn = host[k][q].cxn /\ host'[k][q].state = host[k][q].state
         /\ prev' \in [Host -> Host \cup {NoHost}]
         /\ nextRN' \in [Host -> 0..MaxRN]
         /\ rec' \in [Host -> [RN -> Record]]
         /\ unsent' \in [Host -> Seq(Rep)]
         /\ \/ chan' = [chan EXCEPT ![c][h] = Tail(@)]
            \/ \E copies \in Seq({m}) : chan' = Sent([chan EXCEPT ![c][h] = Tail(@)], nextCxn[h], h, copies)
<1> DEFINE rest == [chan EXCEPT ![c][h] = Tail(@)]
           known == host[h][p].rn
           drop == (IsActive(h) \/ p = next[h]) /\ m.rn < known
           copies == IF RepMode[h] = 1 THEN <<m, m>> ELSE <<m>>
           n == Max({known, m.rn + 1})
           r == Max({nextRN[h], m.rn + 1})
<1>1. CASE drop
  <2>1. chan' = rest /\ UNCHANGED <<host, prev, nextRN, rec, unsent>>
    BY <1>1 DEF RepDataRcvd
  <2> QED
    BY <2>1 DEF TypeOK, View
<1>2. CASE ~drop
  <2>1. /\ host' = [host EXCEPT ![h][p].rn = n]
        /\ prev' = IF prev[h] = NoHost THEN [prev EXCEPT ![h] = p] ELSE prev
        /\ nextRN' = [nextRN EXCEPT ![h] = r]
        /\ rec' = [rec EXCEPT ![h][m.rn] = m.rec]
        /\ unsent' = Deferred(h, m)
        /\ chan' = Sent(rest, nextCxn[h], h, copies)
    BY <1>2 DEF RepDataRcvd, TypeOK
  <2>2. m.rn \in RN /\ m.rec \in Record /\ m.rn + 1 \in 0..MaxRN /\ MaxRN \in Nat
    BY NumbersType DEF Rep, RN
  <2>3. n \in 0..MaxRN /\ r \in 0..MaxRN
    <3>1. known \in 0..MaxRN /\ nextRN[h] \in 0..MaxRN
      BY DEF TypeOK, Known
    <3>2. known \in Nat /\ nextRN[h] \in Nat /\ m.rn + 1 \in Nat
      BY <2>2, <3>1
    <3>3. n \in {known, m.rn + 1} /\ r \in {nextRN[h], m.rn + 1}
      BY <3>2, MaxIs
    <3> QED
      BY <2>2, <3>1, <3>3
  <2> HIDE DEF n, r, rest
  <2>4. /\ host' \in [Host -> View]
        /\ \A k, q \in Host : host'[k][q].cxn = host[k][q].cxn /\ host'[k][q].state = host[k][q].state
    <3> DEFINE u == [host[h] EXCEPT ![p].rn = n]
    <3>1. u \in View /\ \A q \in Host : u[q].cxn = host[h][q].cxn /\ u[q].state = host[h][q].state
      <4>1. host[h] \in View
        BY KnownType
      <4> QED
        BY <2>3, <4>1 DEF View, Known
    <3>2. host' = [host EXCEPT ![h] = u]
      BY <2>1
    <3> HIDE DEF u
    <3> QED
      BY <3>1, <3>2 DEF TypeOK, View
  <2>5. prev' \in [Host -> Host \cup {NoHost}] /\ nextRN' \in [Host -> 0..MaxRN]
    BY <2>1, <2>3 DEF TypeOK
  <2>6. rec' \in [Host -> [RN -> Record]]
    BY <2>1, <2>2 DEF TypeOK
  <2>7. unsent' \in [Host -> Seq(Rep)]
    BY <2>1, DeferredType
  <2>8. copies \in Seq({m})
    <3>1. <<m, m>> \in Seq({m}) /\ <<m>> \in Seq({m})
      OBVIOUS
    <3> QED
      BY <3>1
  <2>9. \E s \in Seq({m}) : chan' = Sent(rest, nextCxn[h], h, s)
    BY <2>1, <2>8
  <2> QED
    BY <2>4, <2>5, <2>6, <2>7, <2>9 DEF rest
<1> QED
  BY <1>1, <1>2

LEMMA RepRcvdIs ==
  ASSUME TypeOK, NEW h \in Host, NEW c \in Cxn, RepRcvd(c, h)
  PROVE  /\ end[c][h] \in Open
         /\ chan[c][h] # << >>
         /\ UNCHANGED <<next, nextCxn, dial, assoc>>
         /\ \/ /\ end' = [end EXCEPT ![c][h] = "closing"]
               /\ chan' = [chan EXCEPT ![c][h] = << >>]
               /\ UNCHANGED <<host, prev, nextRN, rec, unsent>>
            \/ /\ UNCHANGED end
               /\ Head(chan[c][h]) \in Rep
               /\ \E p \in Host : RepDataRcvd(c, h, p, Head(chan[c][h]))
<1> DEFINE m == Head(chan[c][h])
           p == assoc[c][h]
<1>1. /\ end[c][h] \in Open /\ chan[c][h] # << >> /\ m.type = "rep"
      /\ UNCHANGED <<next, nextCxn, dial, assoc>>
  BY DEF RepRcvd
<1>2. m \in Rep
  BY <1>1, HeadType
<1>3. p \in Host \cup {NoHost}
  BY DEF TypeOK
<1>4. IF p = NoHost \/ (m.rec.op # "del" /\ host[h][p].cxn # c)
      THEN /\ end' = [end EXCEPT ![c][h] = "closing"]
           /\ chan' = [chan EXCEPT ![c][h] = << >>]
           /\ UNCHANGED <<host, prev, nextRN, rec, unsent>>
      ELSE /\ RepDataRcvd(c, h, p, m)
           /\ UNCHANGED end
  BY DEF RepRcvd
<1> HIDE DEF m, p
<1>5. \/ /\ end' = [end EXCEPT ![c][h] = "closing"]
         /\ chan' = [chan EXCEPT ![c][h] = << >>]
         /\ UNCHANGED <<host, prev, nextRN, rec, unsent>>
      \/ UNCHANGED end /\ \E q \in Host : RepDataRcvd(c, h, q, m)
  BY <1>3, <1>4
<1> QED
  BY <1>1, <1>2, <1>5 DEF m

LEMMA RepRcvdType ==
  ASSUME TypeOK, NEW h \in Host, NEW c \in Cxn, RepRcvd(c, h), UNCHANGED use
  PROVE  TypeOK'
<1>1. CASE /\ end' = [end EXCEPT ![c][h] = "closing"]
           /\ chan' = [chan EXCEPT ![c][h] = << >>]
           /\ UNCHANGED <<host, prev, nextRN, rec, unsent>>
  <2>1. end' \in [Cxn -> [Host -> EndState]]
    BY <1>1 DEF TypeOK, EndState
  <2>2. << >> \in Seq(Msg)
    OBVIOUS
  <2>3. chan' \in [Cxn -> [Host -> Seq(Msg)]]
    BY <1>1, <2>2 DEF TypeOK
  <2> QED
    BY <1>1, <2>1, <2>3 DEF RepRcvd, TypeOK, boundVars
<1>2. CASE /\ UNCHANGED end /\ Head(chan[c][h]) \in Rep
           /\ \E p \in Host : RepDataRcvd(c, h, p, Head(chan[c][h]))
  <2>1. PICK p \in Host : RepDataRcvd(c, h, p, Head(chan[c][h]))
    BY <1>2
  <2>2. Tail(chan[c][h]) \in Seq(Msg) /\ [chan EXCEPT ![c][h] = Tail(@)] \in Channels
    BY HeadType, RepRcvdIs
  <2>3. /\ host' \in [Host -> View] /\ prev' \in [Host -> Host \cup {NoHost}]
        /\ nextRN' \in [Host -> 0..MaxRN] /\ rec' \in [Host -> [RN -> Record]]
        /\ unsent' \in [Host -> Seq(Rep)]
        /\ \/ chan' = [chan EXCEPT ![c][h] = Tail(@)]
           \/ \E copies \in Seq({Head(chan[c][h])}) :
                 chan' = Sent([chan EXCEPT ![c][h] = Tail(@)], nextCxn[h], h, copies)
    BY <1>2, <2>1, <2>2, RepDataRcvdIs
  <2>4. \A copies \in Seq({Head(chan[c][h])}) : copies \in Seq(Msg)
    <3>1. {Head(chan[c][h])} \subseteq Msg
      BY <1>2 DEF Msg
    <3> QED
      BY <3>1, SeqDef
  <2>5. chan' \in Channels
    <3>1. CASE chan' = [chan EXCEPT ![c][h] = Tail(@)]
      BY <2>2, <3>1
    <3>2. CASE \E copies \in Seq({Head(chan[c][h])}) :
                 chan' = Sent([chan EXCEPT ![c][h] = Tail(@)], nextCxn[h], h, copies)
      <4> DEFINE rest == [chan EXCEPT ![c][h] = Tail(@)]
      <4>1. PICK copies \in Seq({Head(chan[c][h])}) : chan' = Sent(rest, nextCxn[h], h, copies)
        BY <3>2
      <4>2. copies \in Seq(Msg) /\ rest \in Channels
        BY <2>2, <2>4
      <4> HIDE DEF rest
      <4> QED
        BY <4>1, <4>2, SentType
    <3> QED
      BY <2>3, <3>1, <3>2
  <2> QED
    BY <1>2, <2>3, <2>5 DEF RepRcvd, TypeOK, boundVars, View, Channels
<1> QED
  BY <1>1, <1>2, RepRcvdIs

LEMMA InitType == Init => TypeOK
<1> SUFFICES ASSUME Init
             PROVE  TypeOK
  OBVIOUS
<1>1. /\ use \in Uses /\ nextRN \in [Host -> 0..MaxRN] /\ MaxRN \in Nat
      /\ use.faults \in Nat /\ use.stops \in Nat /\ use.splits \in Nat
  <2>1. use \in Uses /\ nextRN \in use.init
    BY DEF Init
  <2>2. /\ MaxRN \in Nat /\ use.records \in 0..MaxRN /\ use.init \subseteq [Host -> 0..use.records]
        /\ use.faults \in Nat /\ use.stops \in Nat /\ use.splits \in Nat
    BY <2>1, BoundAssumption, UsesAssumption
  <2>3. nextRN \in [Host -> 0..use.records] /\ 0..use.records \subseteq 0..MaxRN
    BY <2>1, <2>2
  <2> QED
    BY <2>1, <2>2, <2>3
<1>2. host \in [Host -> [Host -> Known]]
  <2>1. \A h \in Host : /\ [state |-> "Stopped", rn |-> nextRN[h], voted |-> FALSE, cxn |-> NoCxn] \in Known
                        /\ [state |-> "Instantiated", rn |-> 0, voted |-> FALSE, cxn |-> NoCxn] \in Known
    BY <1>1 DEF Known, HostState
  <2> QED
    BY <2>1 DEF Init
<1>3. rec \in [Host -> [RN -> Record]]
  BY DEF Init, Record, Missing
<1>4. NoRecovery(FALSE) \in Recovery
  BY <1>1 DEF NoRecovery, Recovery
<1>5. end \in [Cxn -> [Host -> EndState]] /\ chan \in [Cxn -> [Host -> Seq(Msg)]] /\ unsent \in [Host -> Seq(Rep)]
  <2>1. << >> \in Seq(Msg) /\ << >> \in Seq(Rep)
    OBVIOUS
  <2> QED
    BY <2>1 DEF Init, EndState
<1>6. /\ master \in [Host -> Host \cup {NoHost}] /\ prev \in [Host -> Host \cup {NoHost}]
      /\ next \in [Host -> Host \cup {NoHost}] /\ rx \in [Host -> Rx]
      /\ assoc \in [Cxn -> [Host -> Host \cup {NoHost}]] /\ nextCxn \in [Host -> Cxn \cup {NoCxn}]
      /\ hdr \in [Cxn -> SUBSET Host]
  BY DEF Init, Rx
<1>9. recovery \in [Host -> Recovery]
  <2>1. recovery = [h \in Host |-> NoRecovery(FALSE)]
    BY DEF Init
  <2> QED
    BY <1>4, <2>1, Zenon
<1>7. /\ nPeers \in [Host -> Int] /\ appActive \in [Host -> BOOLEAN]
      /\ deact \in [Host -> BOOLEAN] /\ stopStep \in [Host -> StopStep] /\ dial \in [Host -> SUBSET Host]
      /\ pushed \in [Host -> SUBSET RN]
  BY DEF Init, StopStep
<1>8. faults \in 0..use.faults /\ stops \in 0..use.stops /\ splits \in 0..use.splits
  BY <1>1 DEF Init
<1> QED
  BY <1>1, <1>2, <1>3, <1>5, <1>6, <1>7, <1>8, <1>9 DEF TypeOK

LEMMA TypeStep ==
  ASSUME TypeOK, [Next]_vars
  PROVE  TypeOK'
<1>1. CASE UNCHANGED vars
  BY <1>1 DEF TypeOK, vars, envVars, dbVars, cxnVars, boundVars
<1>2. ASSUME Next
      PROVE  TypeOK'
  <2>1. UNCHANGED use
    BY <1>2 DEF Next
  <2>2. ASSUME NEW h \in Host, Start(h) \/ Stop(h) \/ HostStep(h) \/ Push(h)
        PROVE  TypeOK'
    BY <2>1, <2>2, StartType, StopType, HoldElectionType, FinishElectionType, DeactivateType,
       CountDisconnectedType, ClearCxnType, LoseHostType, ReelectType, RedialType,
       StopDisconnectType, StopFinishType, WriteThreadType, RecSendType, PushType DEF HostStep
  <2>3. ASSUME NEW h \in Host, NEW n \in RN, Put(h, n)
        PROVE  TypeOK'
    BY <2>1, <2>3, PutType
  <2>4. ASSUME NEW c \in Cxn, NEW h \in Host, CxnStep(c, h) \/ Heartbeat(c, h) \/ Disconnected(c, h)
        PROVE  TypeOK'
    BY <2>1, <2>4, ConnectedType, OpenedType, HbRcvdType, HbDataType, RepRcvdType, HeartbeatType,
       DisconnectedType DEF CxnStep
  <2>5. ASSUME NEW c \in Cxn, NEW h \in Host, NEW p \in Host, Connect(h, p, c)
        PROVE  TypeOK'
    BY <2>1, <2>5, ConnectType
  <2> QED
    BY <1>2, <2>2, <2>3, <2>4, <2>5 DEF Next
<1> QED
  BY <1>1, <1>2

\* Every variable of the cluster keeps its type, for any number of hosts, connections and
\* records: among them, setMaster() and setNext() always name a host of those they compare, and
\* no record number leaves its range.
THEOREM ClusterTypeCorrect == Spec => []TypeOK
<1>1. TypeOK /\ [Next]_vars => TypeOK'
  BY TypeStep
<1> QED
  BY <1>1, InitType, PTL DEF Spec

-----------------------------------------------------------------------------
(* The inductive invariant about connections                               *)

\* This end is read, or will be when connected() is called.
Live == Open \cup {"opening"}

\* A connection has two ends or none.
Paired == \A c \in Cxn : Ends(c) = {} \/ \E a, b \in Host : a # b /\ Ends(c) = {a, b}

\* A host dials hosts with lower IDs.
Dialled == \A h \in Host : \A p \in dial[h] : p < h

\* An end is associated with the host at the other end, as long as it is read.
Associates == \A c \in Cxn, h \in Host :
  assoc[c][h] # NoHost => end[c][h] \in Live /\ assoc[c][h] = Peer(c, h)

\* Messages are on their way to ends that are read, and heartbeats come from the other end.
Carry(ch) == \A c \in Cxn, h \in Host :
  /\ ch[c][h] # << >> => end[c][h] \in Live
  /\ \A i \in 1..Len(ch[c][h]) : ch[c][h][i].type = "hb" => ch[c][h][i].from = Peer(c, h)

\* connected() was called for an end that is not read yet; disconnected() for one that is no more,
\* and for a host other than its own.
Called == \A h \in Host :
  /\ rx[h].step = "opening" => end[rx[h].cxn][h] = "opening"
  /\ rx[h].step \in LosingStep => end[rx[h].cxn][h] \notin Live /\ rx[h].host # h

\* disconnected() is under way, and has not cleared the host's connection yet.
Dying == {"dropped", "counted"}

\* The connection of a host is open and associated with it, or disconnected() is about to clear it.
Linked == \A h, p \in Host : host[h][p].cxn # NoCxn =>
  \/ end[host[h][p].cxn][h] \in Open /\ assoc[host[h][p].cxn][h] = p
  \/ rx[h].step \in Dying /\ rx[h].cxn = host[h][p].cxn /\ rx[h].host = p

\* h has lost c, the connection of p, and disconnected() has yet to see to what follows.
Loses(h, c, p) == rx[h].step \in Losing /\ rx[h].cxn = c /\ rx[h].host = p

\* An election is still to name the next in line.
Unsettled == {"Electing", "Activating", "Deactivating"}

\* The connection to the next in line is open and has the next in line at its other end, or it is no
\* more and the next in line will be named again.
Directed == \A h \in Host : nextCxn[h] # NoCxn =>
  /\ next[h] # NoHost
  /\ \/ end[nextCxn[h]][h] \in Open /\ Peer(nextCxn[h], h) = next[h]
     \/ /\ end[nextCxn[h]][h] \notin Live
        /\ Loses(h, nextCxn[h], next[h]) \/ State(h) \in Unsettled

\* An active host is its own master, and one that does not run replicates to nobody.
Elects == \A h \in Host :
  /\ IsActive(h) => master[h] = h
  /\ ~IsRunning(h) => nextCxn[h] = NoCxn
  /\ stopStep[h] # "none" => State(h) = "Stopping"

Connections ==
  Paired /\ Dialled /\ Associates /\ Carry(chan) /\ Called /\ Linked /\ Directed /\ Elects

LEMMA PeerIs ==
  ASSUME Paired, NEW c \in Cxn, NEW h \in Host, end[c][h] # "none"
  PROVE  /\ Peer(c, h) \in Host \ {h} /\ Ends(c) = {h, Peer(c, h)}
         /\ Peer(c, Peer(c, h)) = h /\ end[c][Peer(c, h)] # "none"
         /\ \A x \in Host \ {h, Peer(c, h)} : end[c][x] = "none"
<1>1. h \in Ends(c)
  BY DEF Ends
<1>2. PICK b \in Host : b # h /\ Ends(c) = {h, b}
  BY <1>1 DEF Paired
<1>3. Peer(c, h) = b /\ Peer(c, b) = h
  BY <1>2 DEF Peer
<1>4. end[c][b] # "none" /\ \A x \in Host \ {h, b} : end[c][x] = "none"
  BY <1>2 DEF Ends
<1> QED
  BY <1>2, <1>3, <1>4

LEMMA LiveIs ==
  ASSUME NEW c \in Cxn, NEW h \in Host, end[c][h] \in Live
  PROVE  end[c][h] \notin {"none", "closed", "refused"}
  BY DEF Live, Open

\* What is sent from one end arrives at the other.
LEMMA SentCarried ==
  ASSUME TypeOK, Paired, NEW h \in Host, NEW c \in Cxn \cup {NoCxn}, NEW ch \in Channels, Carry(ch),
         NEW msgs \in Seq(Msg), \A i \in 1..Len(msgs) : msgs[i].type = "hb" => msgs[i].from = h
  PROVE  Carry(Sent(ch, c, h, msgs))
<1>1. CASE ~(c # NoCxn /\ end[c][h] \in Open /\ ~PeerGone(c, h))
  BY <1>1 DEF Sent
<1>2. CASE c # NoCxn /\ end[c][h] \in Open /\ ~PeerGone(c, h)
  <2> DEFINE p == Peer(c, h)
             s == [ch EXCEPT ![c][p] = @ \o msgs]
  <2>1. c \in Cxn /\ end[c][h] # "none"
    BY <1>2 DEF Open
  <2>2. p \in Host /\ Peer(c, p) = h /\ end[c][p] # "none"
    BY <2>1, PeerIs
  <2>3. end[c][p] \in Live
    BY <1>2, <2>1, <2>2 DEF PeerGone, TypeOK, EndState, Live, Open
  <2>4. s = Sent(ch, c, h, msgs)
    BY <1>2 DEF Sent
  <2> HIDE DEF p
  <2>5. ch[c][p] \in Seq(Msg) /\ s[c][p] = ch[c][p] \o msgs
    BY <2>1, <2>2 DEF Channels
  <2>6. \A d \in Cxn, k \in Host : d # c \/ k # p => s[d][k] = ch[d][k]
    BY DEF Channels
  <2> HIDE DEF s
  <2>7. \A i \in 1..Len(s[c][p]) : s[c][p][i].type = "hb" => s[c][p][i].from = h
    <3> SUFFICES ASSUME NEW i \in 1..Len(s[c][p]), s[c][p][i].type = "hb"
                 PROVE  s[c][p][i].from = h
      OBVIOUS
    <3>1. CASE i <= Len(ch[c][p])
      <4>1. s[c][p][i] = ch[c][p][i] /\ i \in 1..Len(ch[c][p])
        BY <2>5, <3>1
      <4> QED
        BY <2>1, <2>2, <4>1 DEF Carry
    <3>2. CASE i > Len(ch[c][p])
      <4>1. s[c][p][i] = msgs[i - Len(ch[c][p])] /\ i - Len(ch[c][p]) \in 1..Len(msgs)
        BY <2>5, <3>2
      <4> QED
        BY <4>1
    <3>3. i \in Int /\ Len(ch[c][p]) \in Int
      BY <2>5
    <3> QED
      BY <3>1, <3>2, <3>3
  <2> QED
    BY <2>2, <2>3, <2>4, <2>6, <2>7 DEF Carry
<1> QED
  BY <1>1, <1>2

\* The next in line and its connection stay, and what will name it again is still to come.
Stays(h) ==
  /\ nextCxn'[h] = nextCxn[h] /\ next'[h] = next[h]
  /\ State(h) \in Unsettled => State(h)' \in Unsettled
  /\ Loses(h, nextCxn[h], next[h]) => Loses(h, nextCxn[h], next[h])' \/ State(h)' \in Unsettled

\* What follows at the next in line, when the connections are as they should be.
Follows ==
  \A h \in Host : \/ nextCxn'[h] = NoCxn
                  \/ next'[h] \in Host /\ nextCxn'[h] = host'[h][next'[h]].cxn
                  \/ Stays(h)

\* Ends that are read stay so, or begin to be read.
Kept ==
  /\ \A c \in Cxn, h \in Host : \/ end'[c][h] = end[c][h]
                                \/ /\ end[c][h] \in Live /\ end'[c][h] \in Open
                                   /\ end[c][h] = "opening" => rx'[h] = RxIdle
  /\ \A c \in Cxn, h \in Host : \/ assoc'[c][h] \in {assoc[c][h], NoHost}
                                \/ assoc'[c][h] = Peer(c, h) /\ end'[c][h] \in Live

\* A callback begins, goes on, or returns; one that has a connection to clear keeps it.
RxGoes == \A h \in Host :
  \/ rx'[h] = rx[h]
  \/ rx'[h] = RxIdle
  \/ rx'[h].step = "opening" /\ end'[rx'[h].cxn][h] = "opening"
  \/ /\ rx[h].step \in LosingStep /\ rx'[h].step \in LosingStep
     /\ rx'[h].cxn = rx[h].cxn /\ rx'[h].host = rx[h].host
RxHolds == \A h \in Host :
  rx[h].step \in Dying => rx'[h].step \in Dying /\ rx'[h].cxn = rx[h].cxn /\ rx'[h].host = rx[h].host

\* A step that elects nobody, loses no host and replicates to those it did.
Steady == UNCHANGED <<next, nextCxn, rx, master, stopStep>> /\ \A k \in Host : State(k)' = State(k)

LEMMA RxStays ==
  ASSUME UNCHANGED rx
  PROVE  RxGoes /\ RxHolds
  BY DEF RxGoes, RxHolds

LEMMA SteadyIs ==
  ASSUME Elects, Steady
  PROVE  Follows /\ RxGoes /\ RxHolds /\ Elects'
<1>1. RxGoes /\ RxHolds
  BY RxStays DEF Steady
<1>2. Follows
  BY DEF Steady, Follows, Stays, Loses
<1>3. Elects'
  BY DEF Elects, Steady, IsActive, IsRunning
<1> QED
  BY <1>1, <1>2, <1>3

\* One host's step: the others stay.
LEMMA OthersFollow ==
  ASSUME NEW h \in Host,
         \A k \in Host \ {h} : /\ next'[k] = next[k] /\ nextCxn'[k] = nextCxn[k]
                               /\ rx'[k] = rx[k] /\ host'[k] = host[k],
         \/ nextCxn'[h] = NoCxn
         \/ next'[h] \in Host /\ nextCxn'[h] = host'[h][next'[h]].cxn
         \/ Stays(h)
  PROVE  Follows
<1>1. \A k \in Host \ {h} : Stays(k)
  BY DEF Stays, Loses, State
<1> QED
  BY <1>1 DEF Follows

LEMMA OthersElect ==
  ASSUME Elects, NEW h \in Host,
         \A k \in Host \ {h} : /\ nextCxn'[k] = nextCxn[k] /\ host'[k] = host[k]
                               /\ master'[k] = master[k] /\ stopStep'[k] = stopStep[k],
         IsActive(h)' => master'[h] = h,
         ~IsRunning(h)' => nextCxn'[h] = NoCxn,
         stopStep'[h] # "none" => State(h)' = "Stopping"
  PROVE  Elects'
<1>1. \A k \in Host \ {h} : State(k)' = State(k)
  BY DEF State
<1> SUFFICES ASSUME NEW k \in Host
             PROVE  /\ IsActive(k)' => master'[k] = k
                    /\ ~IsRunning(k)' => nextCxn'[k] = NoCxn
                    /\ stopStep'[k] # "none" => State(k)' = "Stopping"
  BY DEF Elects
<1>2. CASE k = h
  BY <1>2
<1>3. CASE k # h
  BY <1>1, <1>3 DEF Elects, IsActive, IsRunning
<1> QED
  BY <1>2, <1>3

\* The states that matter here.
LEMMA StatesAre ==
  /\ "Stopped" \notin Running /\ "Stopping" \notin Running /\ "Electing" \in Unsettled
  /\ "Activating" \in Unsettled /\ "Deactivating" \in Unsettled /\ "Active" \in ActiveStates
  /\ Unsettled \subseteq Running /\ "Inactive" \in Running /\ "Inactive" \notin ActiveStates
  /\ "Electing" \notin ActiveStates /\ "Deactivating" \notin ActiveStates /\ "Active" \in Running
  /\ "Stopped" \notin ActiveStates /\ "Stopping" \notin ActiveStates /\ "Stopping" \notin Unsettled
  /\ "Activating" \in ActiveStates /\ "Instantiated" \notin Running
  BY DEF Unsettled, Running, ActiveStates, Elected

LEMMA KeptPeers ==
  ASSUME Kept, NEW c \in Cxn, NEW h \in Host
  PROVE  Peer(c, h)' = Peer(c, h) /\ Ends(c)' = Ends(c)
<1>1. Ends(c)' = Ends(c)
  BY DEF Kept, Ends, Live, Open
<1> QED
  BY <1>1 DEF Peer

LEMMA KeptCalled ==
  ASSUME TypeOK, Called, Kept, RxGoes
  PROVE  Called'
<1> SUFFICES ASSUME NEW h \in Host
             PROVE  /\ rx'[h].step = "opening" => end'[rx'[h].cxn][h] = "opening"
                    /\ rx'[h].step \in LosingStep => end'[rx'[h].cxn][h] \notin Live /\ rx'[h].host # h
  BY DEF Called
<1>1. RxIdle.step = "idle" /\ "idle" \notin LosingStep /\ "opening" \notin LosingStep
  BY DEF RxIdle, LosingStep, Losing
<1>2. rx[h].step = "opening" \/ rx[h].step \in LosingStep => rx[h].cxn \in Cxn
  BY RxIs
<1>3. CASE rx'[h] = rx[h]
  BY <1>1, <1>2, <1>3 DEF Called, Kept
<1>4. CASE rx'[h] = RxIdle
  BY <1>1, <1>4
<1>5. CASE rx'[h].step = "opening" /\ end'[rx'[h].cxn][h] = "opening"
  BY <1>1, <1>5
<1>6. CASE /\ rx[h].step \in LosingStep /\ rx'[h].step \in LosingStep
           /\ rx'[h].cxn = rx[h].cxn /\ rx'[h].host = rx[h].host
  BY <1>1, <1>2, <1>6 DEF Called, Kept
<1> QED
  BY <1>3, <1>4, <1>5, <1>6 DEF RxGoes

LEMMA KeptConnections ==
  ASSUME TypeOK, TypeOK', Connections, Kept, RxGoes, Dialled', Carry(chan)', Linked', Follows, Elects'
  PROVE  Connections'
<1>1. \A c \in Cxn, h \in Host : Peer(c, h)' = Peer(c, h)
  BY KeptPeers
<1>2. Paired'
  <2> SUFFICES ASSUME NEW c \in Cxn
               PROVE  Ends(c)' = {} \/ \E a, b \in Host : a # b /\ Ends(c)' = {a, b}
    BY DEF Paired
  <2>1. Ends(c) = {} \/ \E a, b \in Host : a # b /\ Ends(c) = {a, b}
    BY DEF Paired, Connections
  <2>2. Ends(c)' = Ends(c)
    BY DEF Kept, Ends, Live, Open
  <2> QED
    BY <2>1, <2>2
<1>3. Associates'
  BY <1>1 DEF Associates, Connections, Kept, Live
<1>4. Called'
  BY KeptCalled DEF Connections
<1>5. Directed'
  <2> SUFFICES ASSUME NEW h \in Host, nextCxn'[h] # NoCxn
               PROVE  /\ next'[h] # NoHost
                      /\ \/ end'[nextCxn'[h]][h] \in Open /\ Peer(nextCxn[h], h)' = next'[h]
                         \/ /\ end'[nextCxn'[h]][h] \notin Live
                            /\ Loses(h, nextCxn[h], next[h])' \/ State(h)' \in Unsettled
    BY DEF Directed
  <2>1. PICK c \in Cxn : nextCxn'[h] = c
    BY DEF TypeOK
  <2>2. Peer(nextCxn[h], h)' = Peer(c, h)'
    BY <2>1 DEF Peer, Ends
  <2>3. CASE next'[h] \in Host /\ c = host'[h][next'[h]].cxn
    <3>1. next'[h] # NoHost
      BY <2>3, HostAssumption
    <3>2. CASE end'[c][h] \in Open /\ assoc'[c][h] = next'[h]
      <4>1. assoc'[c][h] = Peer(c, h)'
        BY <1>3, <2>1, <3>1, <3>2 DEF Associates
      <4> QED
        BY <2>1, <2>2, <3>1, <3>2, <4>1
    <3>3. CASE rx'[h].step \in Dying /\ rx'[h].cxn = c /\ rx'[h].host = next'[h]
      <4>1. Loses(h, nextCxn[h], next[h])' /\ rx'[h].step \in LosingStep
        BY <2>1, <3>3 DEF Loses, Dying, Losing, LosingStep
      <4>2. end'[c][h] \notin Live
        BY <1>4, <3>3, <4>1 DEF Called
      <4> QED
        BY <2>1, <3>1, <4>1, <4>2
    <3> QED
      BY <2>1, <2>3, <3>2, <3>3, CxnAssumption DEF Linked
  <2>4. CASE Stays(h)
    <3>1. /\ nextCxn[h] = c /\ next'[h] = next[h] /\ next[h] # NoHost
          /\ \/ end[c][h] \in Open /\ Peer(c, h) = next[h]
             \/ end[c][h] \notin Live /\ (Loses(h, nextCxn[h], next[h]) \/ State(h) \in Unsettled)
      BY <2>1, <2>4, CxnAssumption DEF Stays, Connections, Directed
    <3>2. CASE end[c][h] \in Open /\ Peer(c, h) = next[h]
      <4>1. end'[c][h] \in Open
        BY <2>1, <3>2 DEF Kept, Open, Live
      <4>2. Peer(c, h)' = Peer(c, h)
        BY <1>1, <2>1
      <4> QED
        BY <2>1, <2>2, <3>1, <3>2, <4>1, <4>2
    <3>3. CASE end[c][h] \notin Live /\ (Loses(h, nextCxn[h], next[h]) \/ State(h) \in Unsettled)
      <4>1. end'[c][h] \notin Live
        BY <2>1, <3>3 DEF Kept
      <4>2. Loses(h, nextCxn[h], next[h])' \/ State(h)' \in Unsettled
        BY <2>4, <3>3 DEF Stays
      <4> QED
        BY <2>1, <3>1, <4>1, <4>2
    <3> QED
      BY <3>1, <3>2, <3>3
  <2> QED
    BY <2>1, <2>3, <2>4, CxnAssumption DEF Follows
<1> QED
  BY <1>2, <1>3, <1>4, <1>5 DEF Connections

\* A host's connection stays linked while the ends of connections do.
LEMMA SameLinked ==
  ASSUME TypeOK, Linked, RxHolds, \A h, p \in Host : host'[h][p].cxn = host[h][p].cxn,
         \A c \in Cxn, h \in Host :
            end[c][h] \in Open => end'[c][h] \in Open /\ assoc'[c][h] = assoc[c][h]
  PROVE  Linked'
<1> SUFFICES ASSUME NEW h \in Host, NEW p \in Host, host[h][p].cxn # NoCxn
             PROVE  \/ end'[host[h][p].cxn][h] \in Open /\ assoc'[host[h][p].cxn][h] = p
                    \/ rx'[h].step \in Dying /\ rx'[h].cxn = host[h][p].cxn /\ rx'[h].host = p
  BY DEF Linked
<1>1. host[h][p].cxn \in Cxn
  <2>1. host[h][p] \in Known
    BY DEF TypeOK
  <2> QED
    BY <2>1 DEF Known
<1> QED
  BY <1>1 DEF Linked, RxHolds

\* The same for steps that leave the ends and the host's connections as they are.
LEMMA SameConnections ==
  ASSUME TypeOK, TypeOK', Connections, UNCHANGED <<end, assoc>>,
         \A h, p \in Host : host'[h][p].cxn = host[h][p].cxn,
         \A h \in Host : \A p \in dial'[h] : p < h,
         Carry(chan'), Follows, RxGoes, RxHolds, Elects'
  PROVE  Connections'
<1>1. Kept
  BY DEF Kept
<1>2. Linked'
  BY SameLinked DEF Connections
<1>3. Dialled'
  BY DEF Dialled
<1>4. Carry(chan)'
  <2>1. \A c \in Cxn, h \in Host : Peer(c, h)' = Peer(c, h)
    BY <1>1, KeptPeers
  <2> QED
    BY <2>1 DEF Carry
<1> QED
  BY <1>1, <1>2, <1>3, <1>4, KeptConnections

\* And for those that send nothing and connect nothing.
LEMMA QuietConnections ==
  ASSUME TypeOK, TypeOK', Connections, UNCHANGED <<end, assoc, chan, dial>>,
         \A h, p \in Host : host'[h][p].cxn = host[h][p].cxn, Follows, RxGoes, RxHolds, Elects'
  PROVE  Connections'
<1>1. Carry(chan') /\ \A h \in Host : \A p \in dial'[h] : p < h
  BY DEF Connections, Dialled
<1> QED
  BY <1>1, SameConnections

\* One end is done with.
LEMMA GoneConnections ==
  ASSUME TypeOK, TypeOK', Connections, NEW c \in Cxn, NEW h \in Host, NEW how \in {"closed", "refused"},
         end[c][h] \in Live, Gone(c, h, how),
         UNCHANGED <<host, next, dial, master, stopStep>>,
         \A k \in Host : nextCxn'[k] = IF k = h /\ nextCxn[k] = c THEN NoCxn ELSE nextCxn[k],
         rx[h] = RxIdle, \A k \in Host \ {h} : rx'[k] = rx[k],
         \/ rx'[h] = rx[h] /\ \A q \in Host : host[h][q].cxn # c
         \/ \E q \in Host : q = assoc[c][h] /\ rx'[h] = [step |-> "dropped", cxn |-> c, host |-> q]
  PROVE  Connections'
<1> DEFINE p == Peer(c, h)
<1>1. /\ p \in Host \ {h} /\ Ends(c) = {h, p} /\ Peer(c, p) = h
      /\ \A x \in Host \ {h, p} : end[c][x] = "none"
  BY LiveIs, PeerIs DEF Connections
<1>2. /\ end' = [end EXCEPT ![c] = IF PeerGone(c, h) THEN [x \in Host |-> "none"] ELSE [@ EXCEPT ![h] = how]]
      /\ assoc' = [assoc EXCEPT ![c] = IF PeerGone(c, h) THEN [x \in Host |-> NoHost]
                                                         ELSE [@ EXCEPT ![h] = NoHost]]
      /\ chan' = [chan EXCEPT ![c][h] = << >>]
  BY DEF Gone
<1>3. PeerGone(c, h) <=> end[c][p] \in {"closed", "refused"}
  BY DEF PeerGone
<1> HIDE DEF p
<1> DEFINE gone == PeerGone(c, h)
<1>4. \A d \in Cxn \ {c}, k \in Host : end'[d][k] = end[d][k] /\ assoc'[d][k] = assoc[d][k] /\ chan'[d][k] = chan[d][k]
  BY <1>2 DEF TypeOK
<1>5. /\ \A k \in Host : gone => end'[c][k] = "none" /\ assoc'[c][k] = NoHost
      /\ \A k \in Host \ {h} : ~gone => end'[c][k] = end[c][k] /\ assoc'[c][k] = assoc[c][k]
      /\ ~gone => end'[c][h] = how /\ assoc'[c][h] = NoHost
      /\ chan'[c][h] = << >> /\ \A k \in Host \ {h} : chan'[c][k] = chan[c][k]
  BY <1>2 DEF TypeOK
<1>6. gone => \A k \in Host \ {h} : end[c][k] \notin Live
  BY <1>1, <1>3 DEF Live, Open
<1> HIDE DEF gone
<1>7. how \notin Live /\ how # "none" /\ "none" \notin Live /\ end[c][h] # "none"
  BY LiveIs DEF Live, Open
<1>8. \A d \in Cxn \ {c}, k \in Host : Ends(d)' = Ends(d) /\ Peer(d, k)' = Peer(d, k)
  <2> SUFFICES ASSUME NEW d \in Cxn \ {c}, NEW k \in Host
               PROVE  Ends(d)' = Ends(d) /\ Peer(d, k)' = Peer(d, k)
    OBVIOUS
  <2>1. Ends(d)' = Ends(d)
    BY <1>4 DEF Ends
  <2> QED
    BY <2>1 DEF Peer
<1>9. gone => Ends(c)' = {}
  BY <1>5 DEF Ends
<1>10. ~gone => Ends(c)' = Ends(c) /\ \A k \in Host : Peer(c, k)' = Peer(c, k)
  <2> SUFFICES ASSUME ~gone
               PROVE  Ends(c)' = Ends(c) /\ \A k \in Host : Peer(c, k)' = Peer(c, k)
    OBVIOUS
  <2>1. Ends(c)' = Ends(c)
    BY <1>5, <1>7 DEF Ends
  <2> QED
    BY <2>1 DEF Peer
<1>11. Paired'
  <2> SUFFICES ASSUME NEW d \in Cxn
               PROVE  Ends(d)' = {} \/ \E a, b \in Host : a # b /\ Ends(d)' = {a, b}
    BY DEF Paired
  <2>1. Ends(d) = {} \/ \E a, b \in Host : a # b /\ Ends(d) = {a, b}
    BY DEF Paired, Connections
  <2>2. Ends(d)' = Ends(d) \/ Ends(d)' = {}
    BY <1>8, <1>9, <1>10
  <2> QED
    BY <2>1, <2>2
<1>12. \A d \in Cxn, k \in Host : end'[d][k] \in Live => end[d][k] = end'[d][k] /\ Peer(d, k)' = Peer(d, k)
  <2> SUFFICES ASSUME NEW d \in Cxn, NEW k \in Host, end'[d][k] \in Live
               PROVE  end[d][k] = end'[d][k] /\ Peer(d, k)' = Peer(d, k)
    OBVIOUS
  <2>1. CASE d # c
    BY <1>4, <1>8, <2>1
  <2>2. CASE d = c
    <3>1. ~gone /\ k # h
      BY <1>5, <1>7, <2>2
    <3> QED
      BY <1>5, <1>10, <2>2, <3>1
  <2> QED
    BY <2>1, <2>2
<1>13. \A d \in Cxn, k \in Host : end[d][k] \in Live /\ ~(d = c /\ k = h) =>
         end'[d][k] = end[d][k] /\ assoc'[d][k] = assoc[d][k] /\ chan'[d][k] = chan[d][k]
  BY <1>4, <1>5, <1>6
<1>14. Associates'
  <2> SUFFICES ASSUME NEW d \in Cxn, NEW k \in Host, assoc'[d][k] # NoHost
               PROVE  end'[d][k] \in Live /\ assoc'[d][k] = Peer(d, k)'
    BY DEF Associates
  <2>1. ~(d = c /\ k = h) /\ assoc'[d][k] = assoc[d][k]
    BY <1>4, <1>5
  <2>2. end[d][k] \in Live /\ assoc[d][k] = Peer(d, k)
    BY <2>1 DEF Connections, Associates
  <2> QED
    BY <1>12, <1>13, <2>1, <2>2
<1>15. Carry(chan)'
  <2> SUFFICES ASSUME NEW d \in Cxn, NEW k \in Host
               PROVE  /\ chan'[d][k] # << >> => end'[d][k] \in Live
                      /\ \A i \in 1..Len(chan'[d][k]) :
                           chan'[d][k][i].type = "hb" => chan'[d][k][i].from = Peer(d, k)'
    BY DEF Carry
  <2>1. CASE chan'[d][k] = << >>
    BY <2>1
  <2>2. CASE chan'[d][k] # << >>
    <3>1. ~(d = c /\ k = h) /\ chan'[d][k] = chan[d][k]
      BY <1>4, <1>5, <2>2
    <3>2. end[d][k] \in Live
      BY <2>2, <3>1 DEF Connections, Carry
    <3>3. end'[d][k] \in Live
      BY <1>13, <3>1, <3>2
    <3>4. Peer(d, k)' = Peer(d, k)
      BY <1>12, <3>3
    <3> QED
      BY <3>1, <3>3, <3>4 DEF Connections, Carry
  <2> QED
    BY <2>1, <2>2
<1>16. RxIdle.step = "idle" /\ "idle" \notin LosingStep /\ "idle" \notin Dying /\ "idle" # "opening"
       /\ "idle" \notin Losing /\ "opening" \notin LosingStep
  BY DEF RxIdle, LosingStep, Losing, Dying
<1>17. Called'
  <2> SUFFICES ASSUME NEW k \in Host
               PROVE  /\ rx'[k].step = "opening" => end'[rx'[k].cxn][k] = "opening"
                      /\ rx'[k].step \in LosingStep => end'[rx'[k].cxn][k] \notin Live /\ rx'[k].host # k
    BY DEF Called
  <2>1. CASE rx'[k] = rx[k]
    <3>1. rx[k].step = "opening" \/ rx[k].step \in LosingStep => rx[k].cxn \in Cxn /\ k # h
      BY <1>16, RxIs
    <3>2. rx[k].step = "opening" => end'[rx[k].cxn][k] = "opening"
      BY <1>13, <3>1 DEF Connections, Called, Live
    <3>3. rx[k].step \in LosingStep => end'[rx[k].cxn][k] \notin Live /\ rx[k].host # k
      BY <1>12, <3>1 DEF Connections, Called
    <3> QED
      BY <2>1, <3>2, <3>3
  <2>2. CASE k = h /\ \E q \in Host : q = assoc[c][h] /\ rx'[h] = [step |-> "dropped", cxn |-> c, host |-> q]
    <3>1. end'[c][h] \notin Live
      BY <1>5, <1>7
    <3>2. assoc[c][h] # h
      BY <1>1, <2>2, HostAssumption DEF Connections, Associates, p
    <3> QED
      BY <2>2, <3>1, <3>2
  <2> QED
    BY <2>1, <2>2
<1>18. Linked'
  <2> SUFFICES ASSUME NEW k \in Host, NEW q \in Host, host[k][q].cxn # NoCxn
               PROVE  \/ end'[host[k][q].cxn][k] \in Open /\ assoc'[host[k][q].cxn][k] = q
                      \/ rx'[k].step \in Dying /\ rx'[k].cxn = host[k][q].cxn /\ rx'[k].host = q
    BY DEF Linked
  <2> DEFINE d == host[k][q].cxn
  <2>1. d \in Cxn
    <3>1. host[k][q] \in Known
      BY DEF TypeOK
    <3> QED
      BY <3>1 DEF Known
  <2>2. CASE end[d][k] \in Open /\ assoc[d][k] = q
    <3>1. CASE d = c /\ k = h
      <4>1. q = assoc[c][h] /\ host[h][q].cxn = c
        BY <2>2, <3>1
      <4>2. rx'[h] = [step |-> "dropped", cxn |-> c, host |-> q]
        BY <4>1
      <4> QED
        BY <3>1, <4>2 DEF Dying
    <3>2. CASE ~(d = c /\ k = h)
      BY <1>13, <2>1, <2>2, <3>2 DEF Live
    <3> QED
      BY <3>1, <3>2
  <2>3. CASE rx[k].step \in Dying /\ rx[k].cxn = d /\ rx[k].host = q
    BY <1>16, <2>3
  <2> QED
    BY <2>2, <2>3 DEF Connections, Linked
<1>19. Directed'
  <2> SUFFICES ASSUME NEW k \in Host, nextCxn'[k] # NoCxn
               PROVE  /\ next'[k] # NoHost
                      /\ \/ end'[nextCxn'[k]][k] \in Open /\ Peer(nextCxn[k], k)' = next'[k]
                         \/ /\ end'[nextCxn'[k]][k] \notin Live
                            /\ Loses(k, nextCxn[k], next[k])' \/ State(k)' \in Unsettled
    BY DEF Directed
  <2>1. PICK d \in Cxn : nextCxn'[k] = d
    BY DEF TypeOK
  <2>2. Peer(nextCxn[k], k)' = Peer(d, k)'
    BY <2>1 DEF Peer, Ends
  <2>3. nextCxn[k] = d /\ ~(d = c /\ k = h) /\ d # NoCxn
    BY <2>1, CxnAssumption
  <2>4. /\ next[k] # NoHost
        /\ \/ end[d][k] \in Open /\ Peer(d, k) = next[k]
           \/ end[d][k] \notin Live /\ (Loses(k, nextCxn[k], next[k]) \/ State(k) \in Unsettled)
    BY <2>3 DEF Connections, Directed
  <2>5. CASE end[d][k] \in Open /\ Peer(d, k) = next[k]
    <3>1. end'[d][k] \in Open
      BY <1>13, <2>3, <2>5 DEF Live
    <3>2. next[k] = Peer(d, k)'
      BY <1>12, <2>5, <3>1 DEF Live
    <3> QED
      BY <2>1, <2>2, <2>4, <3>1, <3>2
  <2>6. CASE end[d][k] \notin Live /\ (Loses(k, nextCxn[k], next[k]) \/ State(k) \in Unsettled)
    <3>1. end'[d][k] \notin Live
      BY <1>12, <2>6
    <3>2. Loses(k, nextCxn[k], next[k])' \/ State(k)' \in Unsettled
      BY <1>16, <2>1, <2>3, <2>6 DEF Loses, State
    <3> QED
      BY <2>1, <2>4, <3>1, <3>2
  <2> QED
    BY <2>4, <2>5, <2>6
<1>20. Elects' /\ Dialled'
  BY DEF Connections, Elects, Dialled, IsActive, IsRunning, State
<1> QED
  BY <1>11, <1>14, <1>15, <1>17, <1>18, <1>19, <1>20 DEF Connections

\* A connection is made between a host and one it dials.
LEMMA ConnectConnections ==
  ASSUME TypeOK, TypeOK', Connections, NEW h \in Host, NEW p \in Host, NEW c \in Cxn, Connect(h, p, c)
  PROVE  Connections'
<1>1. /\ p < h /\ Ends(c) = {} /\ UNCHANGED <<host, next, nextCxn, chan>>
      /\ dial' = [dial EXCEPT ![h] = @ \ {p}]
  BY DEF Connect, Unused, Connections, Dialled
<1>2. h # p
  BY <1>1, HostAssumption
<1>3. Dialled'
  BY <1>1 DEF Connections, Dialled, TypeOK
<1>4. \A x \in Host : end[c][x] = "none"
  BY <1>1 DEF Ends
<1>0. /\ Follows /\ RxGoes /\ RxHolds /\ Elects' /\ UNCHANGED <<rx, host>>
      /\ \A k \in Host : nextCxn[k] # c /\ rx[k].cxn # c /\ \A q \in Host : host[k][q].cxn # c
  <2>1. Steady
    BY DEF Connect, Steady, State
  <2> QED
    BY <2>1, SteadyIs DEF Connections, Connect, Unused
<1>5. CASE UNCHANGED <<end, assoc>>
  BY <1>0, <1>1, <1>3, <1>5, SameConnections DEF Dialled, Connections
<1>6. CASE /\ end' = [end EXCEPT ![c][h] = "opening", ![c][p] = "opening"]
           /\ assoc' = [assoc EXCEPT ![c][h] = p]
  <2>1. /\ \A d \in Cxn \ {c}, k \in Host : end'[d][k] = end[d][k] /\ assoc'[d][k] = assoc[d][k]
        /\ end'[c][h] = "opening" /\ end'[c][p] = "opening" /\ assoc'[c][h] = p
        /\ \A k \in Host \ {h, p} : end'[c][k] = end[c][k]
        /\ \A k \in Host \ {h} : assoc'[c][k] = assoc[c][k]
    <3>1. end \in [Cxn -> [Host -> EndState]] /\ assoc \in [Cxn -> [Host -> Host \cup {NoHost}]]
      BY DEF TypeOK
    <3>2. end' = [end EXCEPT ![c] = [end[c] EXCEPT ![h] = "opening", ![p] = "opening"]]
      BY <1>6, <3>1
    <3>3. \A d \in Cxn \ {c}, k \in Host : end'[d][k] = end[d][k]
      BY <3>1, <3>2
    <3>4. end'[c] = [end[c] EXCEPT ![h] = "opening", ![p] = "opening"]
      BY <3>1, <3>2
    <3>5. end'[c][h] = "opening" /\ end'[c][p] = "opening" /\ \A k \in Host \ {h, p} : end'[c][k] = end[c][k]
      BY <1>2, <3>1, <3>4
    <3>6. /\ \A d \in Cxn \ {c}, k \in Host : assoc'[d][k] = assoc[d][k]
          /\ assoc'[c][h] = p /\ \A k \in Host \ {h} : assoc'[c][k] = assoc[c][k]
      BY <1>6, <3>1
    <3> QED
      BY <3>3, <3>5, <3>6
  <2>2. Ends(c)' = {h, p} /\ Peer(c, h)' = p /\ Peer(c, p)' = h
    <3>1. Ends(c)' = {h, p}
      BY <1>4, <2>1 DEF Ends
    <3> QED
      BY <1>2, <3>1 DEF Peer
  <2>3. \A d \in Cxn \ {c}, k \in Host : Ends(d)' = Ends(d) /\ Peer(d, k)' = Peer(d, k)
    <3> SUFFICES ASSUME NEW d \in Cxn \ {c}, NEW k \in Host
                 PROVE  Ends(d)' = Ends(d) /\ Peer(d, k)' = Peer(d, k)
      OBVIOUS
    <3>1. Ends(d)' = Ends(d)
      BY <2>1 DEF Ends
    <3> QED
      BY <3>1 DEF Peer
  <2>4. Paired'
    <3> SUFFICES ASSUME NEW d \in Cxn
                 PROVE  Ends(d)' = {} \/ \E a, b \in Host : a # b /\ Ends(d)' = {a, b}
      BY DEF Paired
    <3>1. CASE d = c
      BY <1>2, <2>2, <3>1
    <3>2. CASE d # c
      <4>1. Ends(d) = {} \/ \E a, b \in Host : a # b /\ Ends(d) = {a, b}
        BY DEF Paired, Connections
      <4> QED
        BY <2>3, <3>2, <4>1
    <3> QED
      BY <3>1, <3>2
  <2>5. \A k \in Host : /\ assoc[c][k] = NoHost /\ chan[c][k] = << >>
                        /\ \A q \in Host : host[k][q].cxn # c
                        /\ nextCxn[k] # c
    <3>1. "none" \notin Live /\ "none" \notin Open /\ c # NoCxn
      BY CxnAssumption DEF Live, Open
    <3>2. \A k \in Host : assoc[c][k] = NoHost
      BY <1>4, <3>1 DEF Connections, Associates
    <3>3. \A k \in Host : chan[c][k] = << >>
      BY <1>4, <3>1 DEF Connections, Carry
    <3> QED
      BY <1>0, <3>2, <3>3
  <2>6. Associates'
    <3> SUFFICES ASSUME NEW d \in Cxn, NEW k \in Host, assoc'[d][k] # NoHost
                 PROVE  end'[d][k] \in Live /\ assoc'[d][k] = Peer(d, k)'
      BY DEF Associates
    <3>1. CASE d = c
      <4>1. k = h
        BY <2>1, <2>5, <3>1
      <4> QED
        BY <2>1, <2>2, <3>1, <4>1 DEF Live
    <3>2. CASE d # c
      BY <2>1, <2>3, <3>2 DEF Connections, Associates
    <3> QED
      BY <3>1, <3>2
  <2>7. Carry(chan)'
    <3> SUFFICES ASSUME NEW d \in Cxn, NEW k \in Host
                 PROVE  /\ chan[d][k] # << >> => end'[d][k] \in Live
                        /\ \A i \in 1..Len(chan[d][k]) :
                             chan[d][k][i].type = "hb" => chan[d][k][i].from = Peer(d, k)'
      BY <1>1 DEF Carry
    <3>1. CASE d = c
      BY <2>5, <3>1
    <3>2. CASE d # c
      BY <2>1, <2>3, <3>2 DEF Connections, Carry
    <3> QED
      BY <3>1, <3>2
  <2>8. Linked'
    <3> SUFFICES ASSUME NEW k \in Host, NEW q \in Host, host[k][q].cxn # NoCxn
                 PROVE  \/ end'[host[k][q].cxn][k] \in Open /\ assoc'[host[k][q].cxn][k] = q
                        \/ rx[k].step \in Dying /\ rx[k].cxn = host[k][q].cxn /\ rx[k].host = q
      BY <1>0, <1>1 DEF Linked
    <3>1. host[k][q].cxn \in Cxn \ {c}
      <4>1. host[k][q] \in Known
        BY DEF TypeOK
      <4> QED
        BY <2>5, <4>1 DEF Known
    <3> QED
      BY <2>1, <3>1 DEF Connections, Linked
  <2>9. Directed'
    <3> SUFFICES ASSUME NEW k \in Host, nextCxn[k] # NoCxn
                 PROVE  /\ next[k] # NoHost
                        /\ \/ end'[nextCxn[k]][k] \in Open /\ Peer(nextCxn[k], k)' = next[k]
                           \/ /\ end'[nextCxn[k]][k] \notin Live
                              /\ Loses(k, nextCxn[k], next[k]) \/ State(k) \in Unsettled
      BY <1>0, <1>1 DEF Directed, Loses, State
    <3>1. PICK d \in Cxn \ {c} : nextCxn[k] = d
      BY <2>5 DEF TypeOK
    <3>2. Peer(nextCxn[k], k)' = Peer(d, k)'
      BY <1>1, <3>1 DEF Peer, Ends
    <3>3. /\ next[k] # NoHost
          /\ \/ end[d][k] \in Open /\ Peer(d, k) = next[k]
             \/ end[d][k] \notin Live /\ (Loses(k, nextCxn[k], next[k]) \/ State(k) \in Unsettled)
      BY <3>1, CxnAssumption DEF Connections, Directed
    <3> QED
      BY <2>1, <2>3, <3>1, <3>2, <3>3
  <2>10. Called'
    <3> SUFFICES ASSUME NEW k \in Host
                 PROVE  /\ rx[k].step = "opening" => end'[rx[k].cxn][k] = "opening"
                        /\ rx[k].step \in LosingStep => end'[rx[k].cxn][k] \notin Live /\ rx[k].host # k
      BY <1>0 DEF Called
    <3>1. rx[k].step = "opening" \/ rx[k].step \in LosingStep => rx[k].cxn \in Cxn \ {c}
      BY <1>0, RxIs
    <3> QED
      BY <2>1, <3>1 DEF Connections, Called
  <2> QED
    BY <1>0, <1>3, <2>4, <2>6, <2>7, <2>8, <2>9, <2>10 DEF Connections
<1> QED
  BY <1>5, <1>6 DEF Connect

-----------------------------------------------------------------------------
(* Every step keeps the connections                                        *)

LEMMA StopReplicationFollows ==
  ASSUME TypeOK, NEW h \in Host, StopReplication(h), UNCHANGED rx, \A k \in Host \ {h} : host'[k] = host[k]
  PROVE  Follows
  BY StopReplicationType, OthersFollow

LEMMA ReplicateFollows ==
  ASSUME TypeOK, NEW h \in Host, NEW v \in View, NEW p \in Host \cup {NoHost}, Replicate(h, v, p),
         \A q \in Host : v[q].cxn = host[h][q].cxn, UNCHANGED rx
  PROVE  Follows /\ \A k, q \in Host : host'[k][q].cxn = host[k][q].cxn
<1>1. /\ next'[h] = p /\ nextCxn'[h] = (IF p = NoHost THEN NoCxn ELSE v[p].cxn)
      /\ \A k \in Host \ {h} : next'[k] = next[k] /\ nextCxn'[k] = nextCxn[k] /\ host'[k] = host[k]
      /\ \A q \in Host : host'[h][q].cxn = v[q].cxn
  BY ReplicateIs
<1>2. \A k, q \in Host : host'[k][q].cxn = host[k][q].cxn
  BY <1>1
<1>3. nextCxn'[h] = NoCxn \/ (next'[h] \in Host /\ nextCxn'[h] = host'[h][next'[h]].cxn)
  BY <1>1
<1> QED
  BY <1>1, <1>2, <1>3, OthersFollow

LEMMA StartConnections ==
  ASSUME TypeOK, TypeOK', Connections, NEW h \in Host, Start(h)
  PROVE  Connections'
<1> DEFINE v == [Unvoted(host[h], h) EXCEPT ![h].state = "Electing"]
<1>1. v \in View /\ \A q \in Host : v[q].cxn = host[h][q].cxn
  <2>1. "Electing" \in HostState
    BY DEF HostState
  <2>2. Unvoted(host[h], h) \in View /\ \A q \in Host : Unvoted(host[h], h)[q].cxn = host[h][q].cxn
    BY KnownType, UnvotedType
  <2> QED
    BY <2>1, <2>2, StateType
<1>2. host' = [host EXCEPT ![h] = IF Cardinality(Host) > 1 THEN Refreshed(v, h) ELSE v]
  BY DEF Start
<1> HIDE DEF v
<1>3. \A k, q \in Host : host'[k][q].cxn = host[k][q].cxn
  <2>1. \A q \in Host : Refreshed(v, h)[q].cxn = v[q].cxn
    BY <1>1, RefreshedType
  <2>2. host \in [Host -> [Host -> Known]]
    BY DEF TypeOK
  <2>3. host'[h] \in {v, Refreshed(v, h)} /\ \A k \in Host \ {h} : host'[k] = host[k]
    BY <1>2, <2>2
  <2> QED
    BY <1>1, <2>1, <2>3
<1>4. StopReplication(h) /\ UNCHANGED <<end, assoc, chan>>
  BY DEF Start, cxnVars
<1>5. \A k \in Host : \A p \in dial'[k] : p < k
  BY DEF Start, TypeOK, Connections, Dialled
<1>6. Carry(chan')
  BY <1>4 DEF Connections
<1>7. v[h].state = "Electing"
  BY KnownType, UnvotedType DEF v, View, Known
<1>8. State(h)' = "Electing" /\ \A k \in Host \ {h} : host'[k] = host[k]
  <2>1. host' = [host EXCEPT ![h] = v] \/ host' = [host EXCEPT ![h] = Refreshed(v, h)]
    BY <1>2
  <2>2. Refreshed(v, h)[h].state = v[h].state
    BY <1>1, RefreshedType
  <2> QED
    BY <1>7, <2>1, <2>2 DEF State, TypeOK
<1>9. Follows /\ RxGoes /\ RxHolds
  BY <1>4, <1>8, StopReplicationFollows, RxStays DEF Start
<1>10. Elects'
  <2>1. \A k \in Host \ {h} : master'[k] = master[k] /\ stopStep'[k] = stopStep[k]
    BY <1>4 DEF StopReplication, Start, TypeOK
  <2>2. nextCxn'[h] = NoCxn /\ \A k \in Host \ {h} : nextCxn'[k] = nextCxn[k]
    BY <1>4, StopReplicationType
  <2>3. stopStep'[h] = "none"
    BY DEF Start, Connections, Elects
  <2>4. ~IsActive(h)'
    BY <1>8, StatesAre DEF IsActive
  <2> QED
    BY <1>8, <2>1, <2>2, <2>3, <2>4, OthersElect DEF Connections
<1> QED
  BY <1>3, <1>4, <1>5, <1>6, <1>9, <1>10, SameConnections

LEMMA StopConnections ==
  ASSUME TypeOK, TypeOK', Connections, NEW h \in Host, Stop(h)
  PROVE  Connections'
<1> DEFINE v == [Unvoted(host[h], h) EXCEPT ![h].state = "Stopping"]
<1>1. v \in View /\ \A q \in Host : v[q].cxn = host[h][q].cxn
  <2>1. "Stopping" \in HostState
    BY DEF HostState
  <2>2. Unvoted(host[h], h) \in View /\ \A q \in Host : Unvoted(host[h], h)[q].cxn = host[h][q].cxn
    BY KnownType, UnvotedType
  <2> QED
    BY <2>1, <2>2, StateType
<1>2. host' = [host EXCEPT ![h] = v]
  BY DEF Stop
<1> HIDE DEF v
<1>3. \A k, q \in Host : host'[k][q].cxn = host[k][q].cxn
  BY <1>1, <1>2 DEF TypeOK
<1>4. StopReplication(h) /\ UNCHANGED <<end, assoc, chan, dial>>
  BY DEF Stop, cxnVars
<1>7. v[h].state = "Stopping"
  BY KnownType, UnvotedType DEF v, View, Known
<1>8. State(h)' = "Stopping" /\ \A k \in Host \ {h} : host'[k] = host[k]
  BY <1>2, <1>7 DEF State, TypeOK
<1>9. Follows /\ RxGoes /\ RxHolds
  BY <1>4, <1>8, StopReplicationFollows, RxStays DEF Stop
<1>10. Elects'
  <2>1. \A k \in Host \ {h} : master'[k] = master[k] /\ stopStep'[k] = stopStep[k]
    BY <1>4 DEF StopReplication, Stop, TypeOK
  <2>2. nextCxn'[h] = NoCxn /\ \A k \in Host \ {h} : nextCxn'[k] = nextCxn[k]
    BY <1>4, StopReplicationType
  <2>3. ~IsActive(h)'
    BY <1>8, StatesAre DEF IsActive
  <2> QED
    BY <1>8, <2>1, <2>2, <2>3, OthersElect DEF Connections
<1> QED
  BY <1>3, <1>4, <1>9, <1>10, QuietConnections

\* A host's own state is no connection.
LEMMA HostStateCxn ==
  ASSUME TypeOK, NEW h \in Host, NEW s, host' = [host EXCEPT ![h][h].state = s]
  PROVE  /\ \A k, q \in Host : host'[k][q].cxn = host[k][q].cxn
         /\ State(h)' = s /\ \A k \in Host \ {h} : host'[k] = host[k]
  BY DEF TypeOK, Known, State

LEMMA StopDisconnectConnections ==
  ASSUME TypeOK, TypeOK', Connections, NEW h \in Host, StopDisconnect(h)
  PROVE  Connections'
<1>1. \A k, q \in Host : host'[k][q].cxn = host[k][q].cxn
  <2>1. UNCHANGED host \/ host' = [host EXCEPT ![h][h].state = "Stopped"]
    BY DEF StopDisconnect
  <2> QED
    BY <2>1, HostStateCxn
<1>2. /\ UNCHANGED <<next, nextCxn, assoc, chan, rx, master>> /\ dial' = [dial EXCEPT ![h] = {}]
      /\ end' = [c \in Cxn |-> IF end[c][h] \in Open THEN [end[c] EXCEPT ![h] = "closing"] ELSE end[c]]
  BY DEF StopDisconnect
<1>3. \A c \in Cxn, k \in Host : end'[c][k] = end[c][k] \/ (end[c][k] \in Open /\ end'[c][k] = "closing")
  BY <1>2 DEF TypeOK
<1>4. Kept
  BY <1>2, <1>3 DEF Kept, Live, Open
<1>5. Dialled'
  BY <1>2 DEF Connections, Dialled, TypeOK
<1>6. Carry(chan)'
  <2>1. \A c \in Cxn, k \in Host : Peer(c, k)' = Peer(c, k) /\ (end[c][k] \in Live => end'[c][k] \in Live)
    BY <1>3, <1>4, KeptPeers DEF Live, Open
  <2> QED
    BY <1>2, <2>1 DEF Carry, Connections
<1>7. RxGoes /\ RxHolds
  BY <1>2, RxStays
<1>8. Linked'
  <2>1. \A c \in Cxn, k \in Host : end[c][k] \in Open => end'[c][k] \in Open /\ assoc'[c][k] = assoc[c][k]
    BY <1>2, <1>3 DEF Open
  <2> QED
    BY <1>1, <1>7, <2>1, SameLinked DEF Connections
<1>9. nextCxn[h] = NoCxn /\ State(h) = "Stopping"
  BY StatesAre DEF StopDisconnect, Connections, Elects, IsRunning
<1>10. \A k \in Host \ {h} : host'[k] = host[k]
  BY HostStateCxn DEF StopDisconnect
<1>11. Follows
  BY <1>2, <1>9, <1>10, OthersFollow
<1>12. Elects'
  <2>1. \A k \in Host \ {h} : stopStep'[k] = stopStep[k]
    BY DEF StopDisconnect, TypeOK
  <2>2. State(h)' \in {"Stopping", "Stopped"} /\ (stopStep'[h] # "none" => State(h)' = "Stopping")
    <3>1. CASE UNCHANGED host
      BY <1>9, <3>1 DEF State
    <3>2. CASE /\ stopStep' = [stopStep EXCEPT ![h] = "none"]
               /\ host' = [host EXCEPT ![h][h].state = "Stopped"]
      <4>1. stopStep'[h] = "none"
        BY <3>2 DEF TypeOK
      <4> QED
        BY <3>2, <4>1, HostStateCxn
    <3> QED
      BY <3>1, <3>2 DEF StopDisconnect
  <2>3. ~IsActive(h)'
    BY <2>2, StatesAre DEF IsActive
  <2> QED
    BY <1>2, <1>9, <1>10, <2>1, <2>2, <2>3, OthersElect DEF Connections
<1> QED
  BY <1>4, <1>5, <1>6, <1>7, <1>8, <1>11, <1>12, KeptConnections

LEMMA StopFinishConnections ==
  ASSUME TypeOK, TypeOK', Connections, NEW h \in Host, StopFinish(h)
  PROVE  Connections'
<1>1. /\ \A k, q \in Host : host'[k][q].cxn = host[k][q].cxn
      /\ State(h)' = "Stopped" /\ \A k \in Host \ {h} : host'[k] = host[k]
  BY HostStateCxn DEF StopFinish
<1>2. UNCHANGED <<next, nextCxn, rx, master, end, assoc, chan, dial>>
  BY DEF StopFinish, cxnVars
<1>3. nextCxn[h] = NoCxn
  BY StatesAre DEF StopFinish, Connections, Elects, IsRunning
<1>4. Follows /\ RxGoes /\ RxHolds
  BY <1>1, <1>2, <1>3, OthersFollow, RxStays
<1>5. stopStep'[h] = "none" /\ \A k \in Host \ {h} : stopStep'[k] = stopStep[k]
  BY DEF StopFinish, TypeOK
<1>6. ~IsActive(h)'
  BY <1>1, StatesAre DEF IsActive
<1>7. Elects'
  BY <1>1, <1>2, <1>3, <1>5, <1>6, OthersElect DEF Connections
<1> QED
  BY <1>1, <1>2, <1>4, <1>7, QuietConnections

LEMMA AnnouncedCarried ==
  ASSUME TypeOK, Connections, NEW h \in Host, NEW v \in View
  PROVE  Carry(Announced(h, v))
<1>1. <<Hb(h, v)>> \in Seq(Msg) /\ \A i \in 1..Len(<<Hb(h, v)>>) : <<Hb(h, v)>>[i].from = h
  BY HbType
<1>2. chan \in Channels
  BY DEF TypeOK, Channels
<1>3. \A c \in Cxn : Carry(Sent(chan, c, h, <<Hb(h, v)>>))
  BY <1>1, <1>2, SentCarried DEF Connections
<1> QED
  BY <1>3 DEF Announced, Carry

LEMMA HoldElectionConnections ==
  ASSUME TypeOK, TypeOK', Connections, NEW h \in Host, HoldElection(h)
  PROVE  Connections'
<1> DEFINE v == Refreshed(host[h], h)
           won == FirstRanked(v, Voted(v)) = h
           w == [v EXCEPT ![h].state = IF won THEN "Activating" ELSE "Deactivating"]
<1>1. v \in View /\ \A q \in Host : v[q].cxn = host[h][q].cxn
  BY KnownType, RefreshedType
<1> HIDE DEF v
<1>2. w \in View /\ \A q \in Host : w[q].cxn = host[h][q].cxn
  <2>1. (IF won THEN "Activating" ELSE "Deactivating") \in HostState
    BY DEF HostState
  <2> QED
    BY <1>1, <2>1, StateType
<1>3. host' = [host EXCEPT ![h] = w] /\ chan' \in {chan, Announced(h, w)}
      /\ UNCHANGED <<next, nextCxn, dial, end, assoc>>
  BY DEF HoldElection, v
<1> HIDE DEF w
<1>4. \A k, q \in Host : host'[k][q].cxn = host[k][q].cxn
  BY <1>2, <1>3 DEF TypeOK
<1>5. Carry(chan')
  BY <1>2, <1>3, AnnouncedCarried DEF Connections
<1>6. \A k \in Host : \A p \in dial'[k] : p < k
  BY <1>3 DEF Connections, Dialled
<1>7. /\ UNCHANGED <<rx, stopStep>> /\ SetMaster(h, v) /\ State(h) = "Electing"
      /\ w[h].state = IF won THEN "Activating" ELSE "Deactivating"
  <2>1. w[h].state = IF won THEN "Activating" ELSE "Deactivating"
    BY <1>1 DEF w, View, Known
  <2> QED
    BY <2>1 DEF HoldElection, v
<1>8. State(h)' = w[h].state /\ \A k \in Host \ {h} : host'[k] = host[k]
  BY <1>3 DEF State, TypeOK
<1>9. Follows /\ RxGoes /\ RxHolds
  <2>1. Stays(h)
    BY <1>3, <1>7, <1>8, StatesAre DEF Stays
  <2> QED
    BY <1>3, <1>7, <1>8, <2>1, OthersFollow, RxStays
<1>10. Elects'
  <2>1. master'[h] = FirstRanked(v, Voted(v)) /\ \A k \in Host \ {h} : master'[k] = master[k]
    BY <1>7 DEF SetMaster, TypeOK
  <2>2. IsActive(h)' => master'[h] = h
    BY <1>7, <1>8, <2>1, StatesAre DEF IsActive
  <2>3. IsRunning(h)'
    BY <1>7, <1>8, StatesAre DEF IsRunning
  <2>4. stopStep'[h] = "none"
    BY <1>7 DEF Connections, Elects
  <2> QED
    BY <1>3, <1>7, <1>8, <2>1, <2>2, <2>3, <2>4, OthersElect DEF Connections
<1> QED
  BY <1>3, <1>4, <1>5, <1>6, <1>9, <1>10, SameConnections

LEMMA DeactivateConnections ==
  ASSUME TypeOK, TypeOK', Connections, NEW h \in Host, Deactivate(h)
  PROVE  Connections'
<1> DEFINE r == Refreshed(host[h], h)
           w == [r EXCEPT ![h].voted = FALSE]
           u == [w EXCEPT ![h].voted = TRUE, ![h].state = "Deactivating"]
<1>1. r \in View /\ \A q \in Host : r[q].cxn = host[h][q].cxn
  BY KnownType, RefreshedType
<1> HIDE DEF r
<1>2. \A q \in Host : u[q].cxn = host[h][q].cxn
  BY <1>1 DEF View, Known
<1>3. host' \in {host, [host EXCEPT ![h] = u]} /\ UNCHANGED <<next, nextCxn, end, assoc, chan, dial>>
  BY DEF Deactivate, r, cxnVars
<1> HIDE DEF u
<1>4. \A k, q \in Host : host'[k][q].cxn = host[k][q].cxn
  BY <1>2, <1>3 DEF TypeOK
<1>5. UNCHANGED <<next, nextCxn, rx, stopStep>>
  BY DEF Deactivate
<1>6. Follows /\ RxGoes /\ RxHolds /\ Elects'
  <2>1. CASE UNCHANGED <<host, master>>
    <3>1. Steady
      BY <1>5, <2>1 DEF Steady, State
    <3> QED
      BY <3>1, SteadyIs DEF Connections
  <2>2. CASE /\ State(h) \in {"Active", "Electing"} /\ SetMaster(h, w)
             /\ host' = [host EXCEPT ![h] = u]
    <3>1. State(h)' = "Deactivating" /\ \A k \in Host \ {h} : host'[k] = host[k]
      <4>1. u[h].state = "Deactivating"
        BY <1>1 DEF u, View, Known
      <4> QED
        BY <2>2, <4>1 DEF State, TypeOK
    <3>2. Stays(h)
      BY <1>5, <3>1, StatesAre DEF Stays
    <3>3. Follows /\ RxGoes /\ RxHolds
      BY <1>5, <3>1, <3>2, OthersFollow, RxStays
    <3>4. \A k \in Host \ {h} : master'[k] = master[k]
      BY <2>2 DEF SetMaster, TypeOK
    <3>5. ~IsActive(h)' /\ IsRunning(h)'
      BY <3>1, StatesAre DEF IsActive, IsRunning
    <3>6. stopStep'[h] = "none"
      BY <1>5, <2>2 DEF Connections, Elects
    <3>7. Elects'
      BY <1>5, <3>1, <3>4, <3>5, <3>6, OthersElect DEF Connections
    <3> QED
      BY <3>3, <3>7
  <2> QED
    BY <2>1, <2>2 DEF Deactivate, u, r
<1> QED
  BY <1>3, <1>4, <1>6, QuietConnections

LEMMA FinishElectionConnections ==
  ASSUME TypeOK, TypeOK', Connections, NEW h \in Host, FinishElection(h)
  PROVE  Connections'
<1> DEFINE s == IF host[h][h].state = "Activating" THEN "Active" ELSE "Inactive"
           v == [host[h] EXCEPT ![h].state = s]
<1>1. v \in View /\ \A q \in Host : v[q].cxn = host[h][q].cxn
  <2>1. s \in HostState /\ host[h] \in View
    BY KnownType DEF HostState
  <2> QED
    BY <2>1, StateType
<1>2. Replicate(h, v, NextInLine(h, v)) /\ UNCHANGED <<end, assoc, chan, dial, rx, master, stopStep>>
  BY KnownType DEF FinishElection, View, cxnVars
<1>3. v[h].state = s /\ State(h) \in {"Activating", "Deactivating"}
  BY KnownType DEF FinishElection, View, Known
<1> HIDE DEF v
<1>4. NextInLine(h, v) \in Host \cup {NoHost}
  BY <1>1, NextInLineType
<1>5. Follows /\ \A k, q \in Host : host'[k][q].cxn = host[k][q].cxn
  BY <1>1, <1>2, <1>4, ReplicateFollows
<1>6. Elects'
  <2>1. /\ State(h)' = s
        /\ \A k \in Host \ {h} : nextCxn'[k] = nextCxn[k] /\ host'[k] = host[k]
    BY <1>1, <1>2, <1>3, <1>4, ReplicateIs DEF State
  <2>2. IsActive(h)' => State(h) = "Activating"
    BY <2>1, StatesAre DEF IsActive, State
  <2>3. IsActive(h)' => master'[h] = h
    BY <1>2, <2>2, StatesAre DEF Connections, Elects, IsActive
  <2>4. IsRunning(h)'
    BY <2>1, StatesAre DEF IsRunning
  <2>5. stopStep'[h] = "none"
    BY <1>2, <1>3 DEF Connections, Elects
  <2> QED
    BY <1>2, <2>1, <2>3, <2>4, <2>5, OthersElect DEF Connections
<1> QED
  BY <1>2, <1>5, <1>6, RxStays, QuietConnections

\* A step of a callback that keeps its connection and its host.
LEMMA RxStepIs ==
  ASSUME TypeOK, NEW h \in Host, rx[h].step \in LosingStep, NEW s \in LosingStep,
         rx' = [rx EXCEPT ![h].step = s], rx[h].step \in Dying => s \in Dying
  PROVE  /\ RxGoes /\ RxHolds
         /\ rx'[h].step = s /\ rx'[h].cxn = rx[h].cxn /\ rx'[h].host = rx[h].host
         /\ \A k \in Host \ {h} : rx'[k] = rx[k]
<1>1. /\ rx'[h].step = s /\ rx'[h].cxn = rx[h].cxn /\ rx'[h].host = rx[h].host
      /\ \A k \in Host \ {h} : rx'[k] = rx[k]
  <2>1. rx \in [Host -> Rx] /\ rx[h] \in [step : LosingStep, cxn : Cxn, host : Host]
    BY RxIs DEF TypeOK
  <2> QED
    BY <2>1
<1>2. RxGoes
  BY <1>1 DEF RxGoes
<1>3. RxHolds
  <2> SUFFICES ASSUME NEW k \in Host, rx[k].step \in Dying
               PROVE  rx'[k].step \in Dying /\ rx'[k].cxn = rx[k].cxn /\ rx'[k].host = rx[k].host
    BY DEF RxHolds
  <2>1. CASE k = h
    BY <1>1, <2>1
  <2>2. CASE k # h
    BY <1>1, <2>2
  <2> QED
    BY <2>1, <2>2
<1> QED
  BY <1>1, <1>2, <1>3

LEMMA CountDisconnectedConnections ==
  ASSUME TypeOK, TypeOK', Connections, NEW h \in Host, CountDisconnected(h)
  PROVE  Connections'
<1>1. /\ UNCHANGED <<host, next, nextCxn, master, stopStep, end, assoc, chan, dial>>
      /\ rx[h].step = "dropped" /\ rx' = [rx EXCEPT ![h].step = "counted"]
  BY DEF CountDisconnected, cxnVars
<1>2. {"dropped", "counted"} \subseteq LosingStep /\ {"dropped", "counted"} \subseteq Losing
      /\ "counted" \in Dying
  BY DEF LosingStep, Losing, Dying
<1>3. /\ RxGoes /\ RxHolds
      /\ rx'[h].step = "counted" /\ rx'[h].cxn = rx[h].cxn /\ rx'[h].host = rx[h].host
      /\ \A k \in Host \ {h} : rx'[k] = rx[k]
  BY <1>1, <1>2, RxStepIs
<1>4. Stays(h)
  BY <1>1, <1>2, <1>3 DEF Stays, Loses, State
<1>5. Follows
  BY <1>1, <1>3, <1>4, OthersFollow
<1>6. Elects'
  BY <1>1 DEF Connections, Elects, IsActive, IsRunning, State
<1> QED
  BY <1>1, <1>3, <1>5, <1>6, QuietConnections

LEMMA ClearCxnConnections ==
  ASSUME TypeOK, TypeOK', Connections, NEW h \in Host, ClearCxn(h)
  PROVE  Connections'
<1>1. UNCHANGED <<next, nextCxn, master, stopStep, end, assoc, chan, dial>>
  BY DEF ClearCxn, cxnVars
<1> DEFINE p == rx[h].host
<1>2. /\ rx[h].step = "counted" /\ p \in Host /\ rx' = [rx EXCEPT ![h].step = "cleared"]
      /\ \A k \in Host \ {h} : host'[k] = host[k]
      /\ \A q \in Host : /\ host'[h][q].cxn = IF q = p THEN NoCxn ELSE host[h][q].cxn
                         /\ host'[h][q].state = host[h][q].state
  BY ClearCxnIs
<1>3. /\ "counted" \in LosingStep /\ "cleared" \in LosingStep /\ "cleared" \in Losing
      /\ "counted" \in Dying
  BY DEF LosingStep, Losing, Dying
<1>4. /\ rx'[h].step = "cleared" /\ rx'[h].cxn = rx[h].cxn /\ rx'[h].host = rx[h].host
      /\ \A k \in Host \ {h} : rx'[k] = rx[k]
  <2>1. rx \in [Host -> Rx] /\ rx[h] \in [step : LosingStep, cxn : Cxn, host : Host]
    BY <1>2, <1>3, RxIs DEF TypeOK
  <2> QED
    BY <1>2, <2>1
<1>5. Kept /\ RxGoes
  BY <1>1, <1>2, <1>3, <1>4 DEF Kept, RxGoes
<1> HIDE DEF p
<1>6. Stays(h)
  BY <1>1, <1>2, <1>3, <1>4 DEF Stays, Loses, State
<1>7. Follows
  BY <1>1, <1>2, <1>4, <1>6, OthersFollow
<1>8. State(h)' = State(h)
  BY <1>2 DEF State
<1>9. Elects'
  <2>1. /\ IsActive(h)' => master'[h] = h
        /\ ~IsRunning(h)' => nextCxn'[h] = NoCxn
        /\ stopStep'[h] # "none" => State(h)' = "Stopping"
    BY <1>1, <1>8 DEF Connections, Elects, IsActive, IsRunning
  <2> QED
    BY <1>1, <1>2, <2>1, OthersElect DEF Connections
<1>10. Linked'
  <2> SUFFICES ASSUME NEW k \in Host, NEW q \in Host, host'[k][q].cxn # NoCxn
               PROVE  \/ end'[host'[k][q].cxn][k] \in Open /\ assoc'[host'[k][q].cxn][k] = q
                      \/ rx'[k].step \in Dying /\ rx'[k].cxn = host'[k][q].cxn /\ rx'[k].host = q
    BY DEF Linked
  <2>1. host'[k][q].cxn = host[k][q].cxn /\ (k = h => q # p)
    BY <1>2
  <2>2. \/ end[host[k][q].cxn][k] \in Open /\ assoc[host[k][q].cxn][k] = q
        \/ rx[k].step \in Dying /\ rx[k].cxn = host[k][q].cxn /\ rx[k].host = q
    BY <2>1 DEF Connections, Linked
  <2>3. CASE end[host[k][q].cxn][k] \in Open /\ assoc[host[k][q].cxn][k] = q
    BY <1>1, <2>1, <2>3
  <2>4. CASE rx[k].step \in Dying /\ rx[k].cxn = host[k][q].cxn /\ rx[k].host = q
    BY <1>4, <2>1, <2>4 DEF p
  <2> QED
    BY <2>2, <2>3, <2>4
<1>11. Dialled' /\ Carry(chan)'
  <2>1. \A c \in Cxn, k \in Host : Peer(c, k)' = Peer(c, k)
    BY <1>5, KeptPeers
  <2> QED
    BY <1>1, <2>1 DEF Connections, Dialled, Carry
<1> QED
  BY <1>5, <1>7, <1>9, <1>10, <1>11, KeptConnections

LEMMA LoseHostConnections ==
  ASSUME TypeOK, TypeOK', Connections, NEW h \in Host, LoseHost(h)
  PROVE  Connections'
<1> DEFINE p == rx[h].host
<1>1. UNCHANGED <<master, stopStep, end, assoc, chan, dial>>
  BY DEF LoseHost, cxnVars
<1>2. /\ rx[h].step = "cleared" /\ p \in Host
      /\ \E s \in {"waiting", "electing", "redial"} : rx' = [rx EXCEPT ![h].step = s]
      /\ \A k \in Host \ {h} : next'[k] = next[k] /\ nextCxn'[k] = nextCxn[k] /\ host'[k] = host[k]
      /\ \A q \in Host : host'[h][q].cxn = host[h][q].cxn
      /\ p # h => host'[h][h].state = (IF State(h) = "Inactive" /\ master[h] = p
                                       THEN "Electing" ELSE State(h))
      /\ \/ next'[h] = NoHost /\ nextCxn'[h] = NoCxn
         \/ /\ State(h) \in Elected
            /\ next'[h] \in Host \ {p} /\ nextCxn'[h] = host[h][next'[h]].cxn
         \/ /\ next'[h] = next[h] /\ nextCxn'[h] = nextCxn[h]
            /\ State(h) \in Elected => master[h] = p \/ next[h] # p
  BY LoseHostIs
<1> HIDE DEF p
<1>3. /\ {"cleared", "waiting", "electing", "redial"} \subseteq LosingStep
      /\ "cleared" \notin Dying /\ {"waiting", "electing", "redial"} \cap Losing = {}
  BY DEF LosingStep, Losing, Dying
<1>4. p # h
  BY <1>2, <1>3 DEF Connections, Called, p
<1>5. /\ RxGoes /\ RxHolds
      /\ \A k \in Host \ {h} : rx'[k] = rx[k]
  <2>1. PICK s \in {"waiting", "electing", "redial"} : rx' = [rx EXCEPT ![h].step = s]
    BY <1>2
  <2>2. s \in LosingStep /\ rx[h].step \in LosingStep /\ rx[h].step \notin Dying
    BY <1>2, <1>3
  <2> QED
    BY <2>1, <2>2, RxStepIs
<1>6. State(h)' = IF State(h) = "Inactive" /\ master[h] = p THEN "Electing" ELSE State(h)
  BY <1>2, <1>4 DEF State
<1>7. nextCxn'[h] = NoCxn \/ (next'[h] \in Host /\ nextCxn'[h] = host'[h][next'[h]].cxn) \/ Stays(h)
  <2>1. ASSUME next'[h] = next[h], nextCxn'[h] = nextCxn[h],
               State(h) \in Elected => master[h] = p \/ next[h] # p, nextCxn[h] # NoCxn
        PROVE  Stays(h)
    <3>1. State(h) \in Unsettled => State(h)' \in Unsettled
      BY <1>6, StatesAre
    <3>2. ASSUME Loses(h, nextCxn[h], next[h])
          PROVE  State(h)' \in Unsettled
      <4>1. next[h] = p
        BY <3>2 DEF Loses, p
      <4>2. IsRunning(h)
        BY <2>1 DEF Connections, Elects
      <4>3. CASE State(h) \in Elected
        <5>1. master[h] = p
          BY <2>1, <4>1, <4>3
        <5>2. ~IsActive(h)
          BY <1>4, <5>1 DEF Connections, Elects
        <5>3. State(h) \in {"Deactivating", "Inactive"}
          BY <4>3, <5>2 DEF Elected, IsActive, ActiveStates
        <5> QED
          BY <1>6, <5>1, <5>3, StatesAre
      <4>4. CASE State(h) = "Electing"
        BY <1>6, <4>4, StatesAre
      <4> QED
        BY <4>2, <4>3, <4>4 DEF IsRunning, Running
    <3> QED
      BY <2>1, <3>1, <3>2 DEF Stays
  <2> QED
    BY <1>2, <2>1
<1>8. Follows
  BY <1>2, <1>5, <1>7, OthersFollow
<1>9. Elects'
  <2>1. IsActive(h)' => master'[h] = h
    BY <1>1, <1>6, StatesAre DEF Connections, Elects, IsActive
  <2>2. ~IsRunning(h)' => nextCxn'[h] = NoCxn
    <3> SUFFICES ASSUME ~IsRunning(h)'
                 PROVE  nextCxn'[h] = NoCxn
      OBVIOUS
    <3>1. State(h) \notin Running
      BY <1>6, StatesAre DEF IsRunning, Unsettled
    <3>2. State(h) \notin Elected /\ nextCxn[h] = NoCxn
      BY <3>1 DEF Running, IsRunning, Connections, Elects
    <3> QED
      BY <1>2, <3>2
  <2>3. stopStep'[h] # "none" => State(h)' = "Stopping"
    BY <1>1, <1>6 DEF Connections, Elects
  <2> QED
    BY <1>1, <1>2, <2>1, <2>2, <2>3, OthersElect DEF Connections
<1>10. \A k, q \in Host : host'[k][q].cxn = host[k][q].cxn
  BY <1>2
<1> QED
  BY <1>1, <1>5, <1>8, <1>9, <1>10, QuietConnections

LEMMA ReelectConnections ==
  ASSUME TypeOK, TypeOK', Connections, NEW h \in Host, Reelect(h)
  PROVE  Connections'
<1>1. /\ UNCHANGED <<master, next, nextCxn, stopStep, end, assoc, chan, dial>>
      /\ rx[h].step = "waiting"
      /\ \E s \in {"electing", "redial"} : rx' = [rx EXCEPT ![h].step = s]
      /\ UNCHANGED host \/ (State(h) = "Inactive" /\ host' = [host EXCEPT ![h][h].state = "Electing"])
  BY DEF Reelect, cxnVars
<1>2. /\ \A k, q \in Host : host'[k][q].cxn = host[k][q].cxn
      /\ \A k \in Host \ {h} : host'[k] = host[k]
      /\ State(h)' = State(h) \/ (State(h) = "Inactive" /\ State(h)' = "Electing")
  BY <1>1, HostStateCxn DEF State
<1>3. {"waiting", "electing", "redial"} \subseteq LosingStep /\ "waiting" \notin Dying /\ "waiting" \notin Losing
  BY DEF LosingStep, Losing, Dying
<1>4. RxGoes /\ RxHolds /\ \A k \in Host \ {h} : rx'[k] = rx[k]
  BY <1>1, <1>3, RxStepIs
<1>5. Stays(h)
  BY <1>1, <1>2, <1>3, StatesAre DEF Stays, Loses
<1>6. Follows
  BY <1>1, <1>2, <1>4, <1>5, OthersFollow
<1>7. Elects'
  <2>1. /\ IsActive(h)' => master'[h] = h
        /\ ~IsRunning(h)' => nextCxn'[h] = NoCxn
        /\ stopStep'[h] # "none" => State(h)' = "Stopping"
    BY <1>1, <1>2, StatesAre DEF Connections, Elects, IsActive, IsRunning, Unsettled
  <2> QED
    BY <1>1, <1>2, <2>1, OthersElect DEF Connections
<1> QED
  BY <1>1, <1>2, <1>4, <1>6, <1>7, QuietConnections

LEMMA RedialConnections ==
  ASSUME TypeOK, TypeOK', Connections, NEW h \in Host, Redial(h)
  PROVE  Connections'
<1>1. /\ UNCHANGED <<host, master, next, nextCxn, stopStep, end, assoc, chan>>
      /\ rx[h].step \in {"redial", "electing"} /\ rx' = [rx EXCEPT ![h] = RxIdle]
  BY DEF Redial, cxnVars
<1>2. {"redial", "electing"} \cap Losing = {} /\ {"redial", "electing"} \cap Dying = {}
  BY DEF Losing, Dying
<1>3. rx'[h] = RxIdle /\ \A k \in Host \ {h} : rx'[k] = rx[k]
  BY <1>1 DEF TypeOK
<1>4. RxGoes /\ RxHolds
  BY <1>1, <1>2, <1>3 DEF RxGoes, RxHolds
<1>5. Stays(h)
  BY <1>1, <1>2 DEF Stays, Loses, State
<1>6. Follows
  BY <1>1, <1>3, <1>5, OthersFollow
<1>7. Elects'
  BY <1>1 DEF Connections, Elects, IsActive, IsRunning, State
<1>8. Carry(chan') /\ \A k \in Host : \A q \in dial'[k] : q < k
  BY <1>1 DEF Redial, Connections, Dialled, TypeOK
<1> QED
  BY <1>1, <1>4, <1>6, <1>7, <1>8, SameConnections

\* Steps that only send: the host's view may change, its connections do not.
LEMMA SendConnections ==
  ASSUME TypeOK, TypeOK', Connections, NEW h \in Host, NEW c \in Cxn \cup {NoCxn},
         NEW msgs \in Seq(Msg), \A i \in 1..Len(msgs) : msgs[i].type = "hb" => msgs[i].from = h,
         chan' \in {chan, Sent(chan, c, h, msgs)},
         Steady, UNCHANGED <<dial, end, assoc>>,
         \A k, q \in Host : host'[k][q].cxn = host[k][q].cxn
  PROVE  Connections'
<1>1. chan \in Channels
  BY DEF TypeOK, Channels
<1>2. Carry(chan')
  BY <1>1, SentCarried DEF Connections
<1>3. \A k \in Host : \A p \in dial'[k] : p < k
  BY DEF Connections, Dialled
<1> QED
  BY <1>2, <1>3, SteadyIs, SameConnections DEF Connections

LEMMA RepIs ==
  ASSUME NEW m \in Rep
  PROVE  <<m>> \in Seq(Msg) /\ \A i \in 1..Len(<<m>>) : <<m>>[i].type # "hb"
<1>1. m \in Msg /\ m.type = "rep"
  BY DEF Rep, Msg
<1> QED
  BY <1>1

LEMMA WriteThreadConnections ==
  ASSUME TypeOK, TypeOK', Connections, NEW h \in Host, WriteThread(h)
  PROVE  Connections'
<1> DEFINE m == Head(unsent[h])
<1>1. m \in Rep
  BY HeadTailProperties DEF WriteThread, TypeOK
<1>2. chan' = Sent(chan, nextCxn[h], h, <<m>>) /\ Steady /\ UNCHANGED <<host, dial, end, assoc>>
  BY DEF WriteThread, envVars, Steady, State
<1>3. nextCxn[h] \in Cxn \cup {NoCxn}
  BY DEF TypeOK
<1> HIDE DEF m
<1> QED
  BY <1>1, <1>2, <1>3, RepIs, SendConnections

LEMMA RecSendConnections ==
  ASSUME TypeOK, TypeOK', Connections, NEW h \in Host, RecSend(h)
  PROVE  Connections'
<1> DEFINE n == recovery[h].rn
           m == RepMsg(n, Recovered(rec[h][n]))
<1>1. nextCxn[h] \in Cxn \cup {NoCxn} /\ Steady /\ UNCHANGED <<host, dial, end, assoc>>
  BY DEF RecSend, TypeOK, dbVars, Steady, State
<1>2. CASE n < recovery[h].end
  <2>1. n \in RN
    <3>1. recovery[h] \in Recovery /\ MaxRN \in Nat
      BY NumbersType DEF TypeOK
    <3> QED
      BY <1>2, <3>1 DEF Recovery, RN
  <2>2. chan' = Sent(chan, nextCxn[h], h, <<m>>)
    BY <1>2 DEF RecSend
  <2> HIDE DEF n
  <2>3. m \in Rep
    BY <2>1, RecoveredType, RepMsgType DEF TypeOK
  <2> HIDE DEF m
  <2> QED
    BY <1>1, <2>2, <2>3, RepIs, SendConnections
<1>3. CASE ~(n < recovery[h].end)
  <2>1. UNCHANGED chan
    BY <1>3 DEF RecSend
  <2> QED
    BY <1>1, <2>1, SteadyIs, QuietConnections DEF Connections
<1> QED
  BY <1>2, <1>3

LEMMA PushConnections ==
  ASSUME TypeOK, TypeOK', Connections, NEW h \in Host, Push(h)
  PROVE  Connections'
<1>1. Steady /\ UNCHANGED <<host, end, assoc, chan, dial>>
  BY DEF Push, envVars, cxnVars, Steady, State
<1> QED
  BY <1>1, SteadyIs, QuietConnections DEF Connections

LEMMA PutConnections ==
  ASSUME TypeOK, TypeOK', Connections, NEW h \in Host, NEW n \in RN, Put(h, n)
  PROVE  Connections'
<1>1. PICK r \in {[op |-> "add", by |-> h], Deleted} : Write(h, RepMsg(n, r))
  BY PutIs
<1>2. RepMsg(n, r) \in Rep
  <2>1. r \in Record
    BY DEF Record, Deleted
  <2> QED
    BY <2>1, RepMsgType
<1>3. chan' \in {chan, Sent(chan, nextCxn[h], h, <<RepMsg(n, r)>>)} /\ nextCxn[h] \in Cxn \cup {NoCxn}
  BY <1>1 DEF Write, TypeOK
<1>4. Steady /\ UNCHANGED <<host, dial, end, assoc>>
  BY DEF Put, envVars, Steady, State
<1> QED
  BY <1>2, <1>3, <1>4, RepIs, SendConnections

LEMMA HeartbeatConnections ==
  ASSUME TypeOK, TypeOK', Connections, NEW h \in Host, NEW c \in Cxn, Heartbeat(c, h)
  PROVE  Connections'
<1> DEFINE v == Refreshed(host[h], h)
<1>1. v \in View /\ \A q \in Host : v[q].cxn = host[h][q].cxn /\ v[q].state = host[h][q].state
  BY KnownType, RefreshedType
<1>2. host' = [host EXCEPT ![h] = v] /\ chan' = Sent(chan, c, h, <<Hb(h, v)>>)
      /\ UNCHANGED <<next, nextCxn, rx, master, stopStep, dial, end, assoc>>
  BY DEF Heartbeat, envVars
<1> HIDE DEF v
<1>3. <<Hb(h, v)>> \in Seq(Msg) /\ \A i \in 1..Len(<<Hb(h, v)>>) : <<Hb(h, v)>>[i].from = h
  BY <1>1, HbType
<1>4. \A k, q \in Host : host'[k][q].cxn = host[k][q].cxn
  BY <1>1, <1>2 DEF TypeOK
<1>5. Steady
  BY <1>1, <1>2 DEF Steady, State, TypeOK
<1> QED
  BY <1>2, <1>3, <1>4, <1>5, SendConnections

\* Reading a message leaves the others.
LEMMA TailCarried ==
  ASSUME TypeOK, Connections, NEW h \in Host, NEW c \in Cxn, chan[c][h] # << >>
  PROVE  Carry([chan EXCEPT ![c][h] = Tail(@)]) /\ [chan EXCEPT ![c][h] = Tail(@)] \in Channels
<1> DEFINE rest == [chan EXCEPT ![c][h] = Tail(@)]
<1>1. rest \in Channels
  BY HeadType
<1>2. /\ rest[c][h] = Tail(chan[c][h])
      /\ \A d \in Cxn, k \in Host : d # c \/ k # h => rest[d][k] = chan[d][k]
  BY DEF TypeOK
<1> HIDE DEF rest
<1>3. end[c][h] \in Live
  BY DEF Connections, Carry
<1>4. \A i \in 1..Len(rest[c][h]) : rest[c][h][i] = chan[c][h][i + 1] /\ i + 1 \in 1..Len(chan[c][h])
  <2>1. chan[c][h] \in Seq(Msg)
    BY DEF TypeOK
  <2> QED
    BY <1>2, <2>1, HeadTailProperties
<1>5. \A i \in 1..Len(rest[c][h]) : rest[c][h][i].type = "hb" => rest[c][h][i].from = Peer(c, h)
  BY <1>4 DEF Connections, Carry
<1>6. Carry(rest)
  <2> SUFFICES ASSUME NEW d \in Cxn, NEW k \in Host
               PROVE  /\ rest[d][k] # << >> => end[d][k] \in Live
                      /\ \A i \in 1..Len(rest[d][k]) :
                           rest[d][k][i].type = "hb" => rest[d][k][i].from = Peer(d, k)
    BY DEF Carry
  <2>1. CASE d = c /\ k = h
    BY <1>3, <1>5, <2>1
  <2>2. CASE d # c \/ k # h
    <3>1. rest[d][k] = chan[d][k]
      BY <1>2, <2>2
    <3> QED
      BY <3>1 DEF Connections, Carry
  <2> QED
    BY <2>1, <2>2
<1> QED
  BY <1>1, <1>6 DEF rest

LEMMA RepRcvdConnections ==
  ASSUME TypeOK, TypeOK', Connections, NEW h \in Host, NEW c \in Cxn, RepRcvd(c, h)
  PROVE  Connections'
<1>1. end[c][h] \in Open /\ chan[c][h] # << >> /\ UNCHANGED <<next, nextCxn, dial, assoc, rx, master, stopStep>>
  BY RepRcvdIs DEF RepRcvd
<1>2. CASE /\ end' = [end EXCEPT ![c][h] = "closing"]
           /\ chan' = [chan EXCEPT ![c][h] = << >>]
           /\ UNCHANGED host
  <2>1. \A d \in Cxn, k \in Host : end'[d][k] = end[d][k] \/ (end[d][k] \in Open /\ end'[d][k] = "closing")
    BY <1>1, <1>2 DEF TypeOK
  <2>2. Kept
    BY <1>1, <2>1 DEF Kept, Live, Open
  <2>3. \A d \in Cxn, k \in Host : chan'[d][k] = chan[d][k] \/ chan'[d][k] = << >>
    BY <1>2 DEF TypeOK
  <2>4. Carry(chan)'
    <3>1. \A d \in Cxn, k \in Host : Peer(d, k)' = Peer(d, k) /\ (end[d][k] \in Live => end'[d][k] \in Live)
      BY <2>1, <2>2, KeptPeers DEF Live, Open
    <3> SUFFICES ASSUME NEW d \in Cxn, NEW k \in Host
                 PROVE  /\ chan'[d][k] # << >> => end'[d][k] \in Live
                        /\ \A i \in 1..Len(chan'[d][k]) :
                             chan'[d][k][i].type = "hb" => chan'[d][k][i].from = Peer(d, k)'
      BY DEF Carry
    <3>2. CASE chan'[d][k] = << >>
      BY <3>2
    <3>3. CASE chan'[d][k] = chan[d][k]
      BY <3>1, <3>3 DEF Connections, Carry
    <3> QED
      BY <2>3, <3>2, <3>3
  <2>5. Steady
    BY <1>1, <1>2 DEF Steady, State
  <2>6. Follows /\ RxGoes /\ RxHolds /\ Elects'
    BY <2>5, SteadyIs DEF Connections
  <2>7. Linked'
    <3>1. \A d \in Cxn, k \in Host : end[d][k] \in Open => end'[d][k] \in Open /\ assoc'[d][k] = assoc[d][k]
      BY <1>1, <2>1 DEF Open
    <3> QED
      BY <1>2, <2>6, <3>1, SameLinked DEF Connections
  <2>8. Dialled'
    BY <1>1 DEF Dialled, Connections
  <2> QED
    BY <2>2, <2>4, <2>6, <2>7, <2>8, KeptConnections
<1>3. CASE /\ UNCHANGED end /\ Head(chan[c][h]) \in Rep
           /\ \E p \in Host : RepDataRcvd(c, h, p, Head(chan[c][h]))
  <2> DEFINE m == Head(chan[c][h])
             rest == [chan EXCEPT ![c][h] = Tail(@)]
  <2>1. PICK p \in Host : RepDataRcvd(c, h, p, m)
    BY <1>3
  <2>2. Tail(chan[c][h]) \in Seq(Msg) /\ Carry(rest) /\ rest \in Channels
    BY <1>1, HeadType, TailCarried
  <2>3. /\ \A k, q \in Host : host'[k][q].cxn = host[k][q].cxn /\ host'[k][q].state = host[k][q].state
        /\ chan' = rest \/ \E copies \in Seq({m}) : chan' = Sent(rest, nextCxn[h], h, copies)
    BY <1>3, <2>1, <2>2, RepDataRcvdIs
  <2>4. m \in Msg /\ m.type = "rep"
    BY <1>3 DEF Msg, Rep
  <2> HIDE DEF m, rest
  <2>5. Carry(chan')
    <3>1. CASE chan' = rest
      BY <2>2, <3>1
    <3>2. CASE \E copies \in Seq({m}) : chan' = Sent(rest, nextCxn[h], h, copies)
      <4>1. PICK copies \in Seq({m}) : chan' = Sent(rest, nextCxn[h], h, copies)
        BY <3>2
      <4>2. \A i \in 1..Len(copies) : copies[i] = m
        BY <4>1
      <4>3. copies \in Seq(Msg) /\ \A i \in 1..Len(copies) : copies[i].type # "hb"
        <5>1. copies \in [1..Len(copies) -> Msg] /\ Len(copies) \in Nat
          BY <2>4, <4>2
        <5>2. copies \in Seq(Msg)
          BY <5>1, SeqDef
        <5> QED
          BY <2>4, <4>2, <5>2
      <4>4. nextCxn[h] \in Cxn \cup {NoCxn}
        BY DEF TypeOK
      <4> QED
        BY <2>2, <4>1, <4>3, <4>4, SentCarried DEF Connections
    <3> QED
      BY <2>3, <3>1, <3>2
  <2>6. \A k \in Host : \A q \in dial'[k] : q < k
    BY <1>1 DEF Connections, Dialled
  <2>7. Steady
    BY <1>1, <2>3 DEF Steady, State
  <2> QED
    BY <1>1, <1>3, <2>3, <2>5, <2>6, <2>7, SteadyIs, SameConnections DEF Connections
<1> QED
  BY <1>2, <1>3, RepRcvdIs

\* What is done to a connection that is replaced: its end at the host alone.
LEMMA OrphanIs ==
  ASSUME TypeOK, NEW h \in Host, NEW old \in SUBSET Cxn, NEW d \in Cxn, NEW k \in Host
  PROVE  /\ d \in old /\ k = h => Orphan(h, old, end)[d][k] = "closing" /\ Disown(h, old, assoc)[d][k] = NoHost
         /\ ~(d \in old /\ k = h) => /\ Orphan(h, old, end)[d][k] = end[d][k]
                                    /\ Disown(h, old, assoc)[d][k] = assoc[d][k]
<1>1. end[d] \in [Host -> EndState] /\ assoc[d] \in [Host -> Host \cup {NoHost}]
  BY DEF TypeOK
<1>2. CASE d \in old
  <2>1. /\ Orphan(h, old, end)[d] = [end[d] EXCEPT ![h] = "closing"]
        /\ Disown(h, old, assoc)[d] = [assoc[d] EXCEPT ![h] = NoHost]
    BY <1>2 DEF Orphan, Disown
  <2> QED
    BY <1>1, <1>2, <2>1
<1>3. CASE d \notin old
  <2>1. Orphan(h, old, end)[d] = end[d] /\ Disown(h, old, assoc)[d] = assoc[d]
    BY <1>3 DEF Orphan, Disown
  <2> QED
    BY <1>3, <2>1
<1> QED
  BY <1>2, <1>3

\* A connection of h replaces another as p's: the other is given up by both p and its end.
LEMMA ReplacedConnections ==
  ASSUME TypeOK, TypeOK', Connections, NEW h \in Host, NEW c \in Cxn, NEW p \in Host, NEW v \in View,
         NEW old \in SUBSET Cxn, old = Replaced(host[h], c, p),
         \A q \in Host : v[q].cxn = Associated(host[h], c, p)[q].cxn,
         \A q \in Host : host'[h][q].cxn = v[q].cxn,
         \A k \in Host \ {h} : host'[k] = host[k],
         \A q \in Host \ {p} : host[h][q].cxn # c,
         rx[h].step \notin Dying, \A k \in Host \ {h} : rx'[k] = rx[k],
         end[c][h] = "opening" => rx'[h] = RxIdle,
         end'[c][h] \in Open, assoc'[c][h] = p, Peer(c, h) = p, end[c][h] \in Live,
         \A d \in Cxn, k \in Host : d # c \/ k # h =>
            /\ end'[d][k] = Orphan(h, old, end)[d][k] /\ assoc'[d][k] = Disown(h, old, assoc)[d][k]
  PROVE  Kept /\ Linked'
<1>1. \A d \in Cxn, k \in Host : d # c \/ k # h =>
        /\ d \in old /\ k = h => end'[d][k] = "closing" /\ assoc'[d][k] = NoHost
        /\ ~(d \in old /\ k = h) => end'[d][k] = end[d][k] /\ assoc'[d][k] = assoc[d][k]
  BY OrphanIs
<1>2. \A q \in Host : v[q].cxn = IF q = p THEN c ELSE host[h][q].cxn
  BY KnownType DEF Associated, View, Known
<1>3. \A d \in old : d # c /\ end[d][h] \in Open /\ assoc[d][h] = p
  <2>1. old = IF host[h][p].cxn \in {NoCxn, c} THEN {} ELSE {host[h][p].cxn}
    BY DEF Replaced
  <2> QED
    BY <2>1 DEF Connections, Linked
<1>4. Kept
  <2>1. \A d \in Cxn, k \in Host : \/ end'[d][k] = end[d][k]
                                   \/ /\ end[d][k] \in Live /\ end'[d][k] \in Open
                                      /\ end[d][k] = "opening" => rx'[k] = RxIdle
    <3> SUFFICES ASSUME NEW d \in Cxn, NEW k \in Host
                 PROVE  \/ end'[d][k] = end[d][k]
                        \/ /\ end[d][k] \in Live /\ end'[d][k] \in Open
                           /\ end[d][k] = "opening" => rx'[k] = RxIdle
      OBVIOUS
    <3>1. CASE d = c /\ k = h
      BY <3>1
    <3>2. CASE d # c \/ k # h
      BY <1>1, <1>3, <3>2 DEF Live, Open
    <3> QED
      BY <3>1, <3>2
  <2>2. \A d \in Cxn, k \in Host : \/ assoc'[d][k] \in {assoc[d][k], NoHost}
                                   \/ assoc'[d][k] = Peer(d, k) /\ end'[d][k] \in Live
    <3> SUFFICES ASSUME NEW d \in Cxn, NEW k \in Host
                 PROVE  \/ assoc'[d][k] \in {assoc[d][k], NoHost}
                        \/ assoc'[d][k] = Peer(d, k) /\ end'[d][k] \in Live
      OBVIOUS
    <3>1. CASE d = c /\ k = h
      BY <3>1 DEF Live
    <3>2. CASE d # c \/ k # h
      BY <1>1, <3>2
    <3> QED
      BY <3>1, <3>2
  <2> QED
    BY <2>1, <2>2 DEF Kept
<1>5. Linked'
  <2> SUFFICES ASSUME NEW k \in Host, NEW q \in Host, host'[k][q].cxn # NoCxn
               PROVE  \/ end'[host'[k][q].cxn][k] \in Open /\ assoc'[host'[k][q].cxn][k] = q
                      \/ rx'[k].step \in Dying /\ rx'[k].cxn = host'[k][q].cxn /\ rx'[k].host = q
    BY DEF Linked
  <2>1. CASE k = h /\ q = p
    BY <1>2, <2>1
  <2>2. CASE ~(k = h /\ q = p)
    <3>1. host'[k][q].cxn = host[k][q].cxn
      BY <1>2, <2>2
    <3>2. host[k][q].cxn \in Cxn
      <4>1. host[k][q] \in Known
        BY DEF TypeOK
      <4> QED
        BY <3>1, <4>1 DEF Known
    <3>3. \/ end[host[k][q].cxn][k] \in Open /\ assoc[host[k][q].cxn][k] = q
          \/ k # h /\ rx[k].step \in Dying /\ rx[k].cxn = host[k][q].cxn /\ rx[k].host = q
      BY <3>1 DEF Connections, Linked
    <3>4. CASE end[host[k][q].cxn][k] \in Open /\ assoc[host[k][q].cxn][k] = q
      <4>1. host[k][q].cxn # c \/ k # h
        BY <2>2
      <4>2. ~(host[k][q].cxn \in old /\ k = h)
        BY <1>3, <2>2, <3>4
      <4> QED
        BY <1>1, <3>1, <3>2, <3>4, <4>1, <4>2
    <3>5. CASE k # h /\ rx[k].step \in Dying /\ rx[k].cxn = host[k][q].cxn /\ rx[k].host = q
      BY <3>1, <3>5
    <3> QED
      BY <3>3, <3>4, <3>5
  <2> QED
    BY <2>1, <2>2
<1> QED
  BY <1>4, <1>5

\* An end that connected() is called for belongs to no host.
LEMMA OpeningIs ==
  ASSUME TypeOK, Connections, NEW h \in Host, NEW c \in Cxn, end[c][h] = "opening", rx[h].step \notin Dying
  PROVE  \A q \in Host : host[h][q].cxn # c
<1>1. c # NoCxn /\ end[c][h] \notin Open
  BY CxnAssumption DEF Open
<1> QED
  BY <1>1 DEF Connections, Linked

LEMMA ConnectedConnections ==
  ASSUME TypeOK, TypeOK', Connections, NEW h \in Host, NEW c \in Cxn, Connected(c, h)
  PROVE  Connections'
<1>1. /\ end[c][h] = "opening" /\ rx[h] = RxIdle /\ UNCHANGED <<host, next, nextCxn, dial, master, stopStep>>
  BY DEF Connected, RxFree
<1>2. RxIdle.step \notin Dying /\ RxIdle.step \notin Losing /\ end[c][h] \in Live
  BY <1>1 DEF RxIdle, Dying, Losing, Live
<1>3. CASE /\ IsRunning(h) /\ UNCHANGED cxnVars
           /\ rx' = [rx EXCEPT ![h] = [step |-> "opening", cxn |-> c, host |-> NoHost]]
  <2>1. /\ rx'[h].step = "opening" /\ rx'[h].cxn = c /\ \A k \in Host \ {h} : rx'[k] = rx[k]
        /\ UNCHANGED <<end, assoc, chan>>
    BY <1>3 DEF TypeOK, cxnVars
  <2>2. RxGoes /\ RxHolds
    BY <1>1, <1>2, <2>1 DEF RxGoes, RxHolds
  <2>3. Stays(h)
    BY <1>1, <1>2 DEF Stays, Loses, State
  <2>4. Follows
    BY <1>1, <2>1, <2>3, OthersFollow
  <2>5. Elects'
    BY <1>1 DEF Connections, Elects, IsActive, IsRunning, State
  <2> QED
    BY <1>1, <2>1, <2>2, <2>4, <2>5, QuietConnections
<1>4. CASE ~IsRunning(h) /\ Gone(c, h, "refused") /\ UNCHANGED rx
  <2>1. \A q \in Host : host[h][q].cxn # c
    BY <1>1, <1>2, OpeningIs
  <2>2. nextCxn[h] # c
    BY <1>4, CxnAssumption DEF Connections, Elects
  <2>3. \A k \in Host : nextCxn'[k] = IF k = h /\ nextCxn[k] = c THEN NoCxn ELSE nextCxn[k]
    BY <1>1, <2>2
  <2> QED
    BY <1>1, <1>2, <1>4, <2>1, <2>3, GoneConnections
<1> QED
  BY <1>3, <1>4 DEF Connected

LEMMA OpenedConnections ==
  ASSUME TypeOK, TypeOK', Connections, NEW h \in Host, NEW c \in Cxn, Opened(c, h)
  PROVE  Connections'
<1>1. /\ rx[h].step = "opening" /\ rx[h].cxn = c /\ rx'[h] = RxIdle /\ \A k \in Host \ {h} : rx'[k] = rx[k]
      /\ UNCHANGED <<next, nextCxn, dial, master, stopStep>>
  BY DEF Opened, TypeOK
<1>2. /\ end[c][h] = "opening" /\ end[c][h] \in Live /\ end[c][h] \notin Open
      /\ rx[h].step \notin Dying /\ rx[h].step \notin Losing
  BY <1>1 DEF Connections, Called, Live, Open, Dying, Losing
<1>3. \A q \in Host : host[h][q].cxn # c
  BY <1>2, OpeningIs
<1>4. PICK old \in SUBSET Cxn, v \in View :
         /\ \/ assoc[c][h] = NoHost /\ old = {} /\ v = host[h]
            \/ /\ assoc[c][h] \in Host /\ old = Replaced(host[h], c, assoc[c][h])
               /\ v = Associated(host[h], c, assoc[c][h])
         /\ host' = [host EXCEPT ![h] = Refreshed(v, h)]
         /\ end' = [Orphan(h, old, end) EXCEPT ![c][h] = "up"]
         /\ assoc' = Disown(h, old, assoc)
         /\ chan' = IF PeerGone(c, h) THEN chan
                    ELSE [chan EXCEPT ![c][Peer(c, h)] = Append(@, Hb(h, Refreshed(v, h)))]
  BY OpenedIs
<1>5. Refreshed(v, h) \in View /\ \A q \in Host : Refreshed(v, h)[q].cxn = v[q].cxn /\ Refreshed(v, h)[q].state = v[q].state
  BY RefreshedType
<1>6. /\ \A q \in Host : host'[h][q].cxn = v[q].cxn
      /\ \A k \in Host \ {h} : host'[k] = host[k]
  BY <1>4, <1>5 DEF TypeOK
<1>7. /\ end'[c][h] = "up"
      /\ \A d \in Cxn, k \in Host : d # c \/ k # h => end'[d][k] = Orphan(h, old, end)[d][k]
  BY <1>4, OrphanType
<1>8. Kept /\ Linked'
  <2>1. CASE assoc[c][h] = NoHost /\ old = {} /\ v = host[h]
    <3>1. /\ \A d \in Cxn, k \in Host : d # c \/ k # h => end'[d][k] = end[d][k]
          /\ \A d \in Cxn, k \in Host : assoc'[d][k] = assoc[d][k]
          /\ \A k, q \in Host : host'[k][q].cxn = host[k][q].cxn
      BY <1>4, <1>6, <1>7, <2>1 DEF Orphan, Disown
    <3>2. Kept
      BY <1>1, <1>2, <1>7, <3>1 DEF Kept, Open
    <3>3. Linked'
      <4>1. \A k \in Host : \A q \in Host : host[k][q].cxn # c \/ k # h
        BY <1>3
      <4> SUFFICES ASSUME NEW k \in Host, NEW q \in Host, host[k][q].cxn # NoCxn
                   PROVE  \/ end'[host[k][q].cxn][k] \in Open /\ assoc'[host[k][q].cxn][k] = q
                          \/ rx'[k].step \in Dying /\ rx'[k].cxn = host[k][q].cxn /\ rx'[k].host = q
        BY <3>1 DEF Linked
      <4>2. host[k][q].cxn \in Cxn
        <5>1. host[k][q] \in Known
          BY DEF TypeOK
        <5> QED
          BY <5>1 DEF Known
      <4>3. \/ end[host[k][q].cxn][k] \in Open /\ assoc[host[k][q].cxn][k] = q
            \/ k # h /\ rx[k].step \in Dying /\ rx[k].cxn = host[k][q].cxn /\ rx[k].host = q
        BY <1>2 DEF Connections, Linked
      <4>4. host[k][q].cxn # c \/ k # h
        BY <4>1
      <4> QED
        BY <1>1, <3>1, <4>2, <4>3, <4>4
    <3> QED
      BY <3>2, <3>3
  <2>2. CASE /\ assoc[c][h] \in Host /\ old = Replaced(host[h], c, assoc[c][h])
             /\ v = Associated(host[h], c, assoc[c][h])
    <3> DEFINE p == assoc[c][h]
    <3>1. p \in Host /\ p # NoHost
      BY <2>2, HostAssumption
    <3>2. Peer(c, h) = p
      BY <3>1 DEF Connections, Associates
    <3>3. c \notin old
      BY <1>3, <2>2, <3>1 DEF Replaced
    <3>4. \A d \in Cxn, k \in Host : assoc'[d][k] = Disown(h, old, assoc)[d][k]
      BY <1>4
    <3>5. assoc'[c][h] = p
      BY <3>3, <3>4 DEF Disown, TypeOK
    <3>6. end'[c][h] \in Open
      BY <1>7 DEF Open
    <3>7. old = Replaced(host[h], c, p) /\ \A q \in Host : v[q].cxn = Associated(host[h], c, p)[q].cxn
      BY <2>2
    <3> HIDE DEF p
    <3>8. \A d \in Cxn, k \in Host : d # c \/ k # h =>
            end'[d][k] = Orphan(h, old, end)[d][k] /\ assoc'[d][k] = Disown(h, old, assoc)[d][k]
      BY <1>7, <3>4
    <3>9. (\A q \in Host \ {p} : host[h][q].cxn # c) /\ (end[c][h] = "opening" => rx'[h] = RxIdle)
          /\ (\A k \in Host \ {h} : rx'[k] = rx[k])
      BY <1>1, <1>3
    <3> QED
      BY <1>2, <1>6, <3>1, <3>2, <3>5, <3>6, <3>7, <3>8, <3>9, ReplacedConnections
  <2> QED
    BY <1>4, <2>1, <2>2
<1>9. Carry(chan)'
  <2> DEFINE m == Hb(h, Refreshed(v, h))
  <2>1. m \in Msg /\ m.type = "hb" /\ m.from = h
    BY <1>5, HbType
  <2>2. \A d \in Cxn, k \in Host : Peer(d, k)' = Peer(d, k) /\ (end[d][k] \in Live => end'[d][k] \in Live)
    BY <1>8, KeptPeers DEF Kept, Live
  <2>3. Carry(chan')
    <3>1. CASE PeerGone(c, h)
      BY <1>4, <3>1 DEF Connections
    <3>2. CASE ~PeerGone(c, h)
      <4> DEFINE p == Peer(c, h)
      <4>1. p \in Host /\ Peer(c, p) = h /\ end[c][p] # "none"
        BY <1>2, LiveIs, PeerIs DEF Connections
      <4>2. end[c][p] \in Live
        BY <3>2, <4>1 DEF PeerGone, TypeOK, EndState, Live, Open
      <4>3. chan' = [chan EXCEPT ![c][p] = Append(@, m)]
        BY <1>4, <3>2
      <4> HIDE DEF p, m
      <4>4. chan[c][p] \in Seq(Msg)
        BY <4>1 DEF TypeOK
      <4>5. /\ chan'[c][p] = Append(chan[c][p], m)
            /\ \A d \in Cxn, k \in Host : d # c \/ k # p => chan'[d][k] = chan[d][k]
        BY <4>1, <4>3 DEF TypeOK
      <4>6. \A i \in 1..Len(chan'[c][p]) : chan'[c][p][i].type = "hb" => chan'[c][p][i].from = h
        <5> SUFFICES ASSUME NEW i \in 1..Len(chan'[c][p]), chan'[c][p][i].type = "hb"
                     PROVE  chan'[c][p][i].from = h
          OBVIOUS
        <5>1. CASE i \in 1..Len(chan[c][p])
          <6>1. chan'[c][p][i] = chan[c][p][i]
            BY <4>4, <4>5, <5>1
          <6> QED
            BY <4>1, <5>1, <6>1 DEF Connections, Carry
        <5>2. CASE i \notin 1..Len(chan[c][p])
          <6>1. chan'[c][p][i] = m
            BY <4>4, <4>5, <5>2
          <6> QED
            BY <2>1, <6>1
        <5> QED
          BY <5>1, <5>2
      <4> SUFFICES ASSUME NEW d \in Cxn, NEW k \in Host
                   PROVE  /\ chan'[d][k] # << >> => end[d][k] \in Live
                          /\ \A i \in 1..Len(chan'[d][k]) :
                               chan'[d][k][i].type = "hb" => chan'[d][k][i].from = Peer(d, k)
        BY DEF Carry
      <4>7. CASE d = c /\ k = p
        BY <4>1, <4>2, <4>6, <4>7
      <4>8. CASE d # c \/ k # p
        <5>1. chan'[d][k] = chan[d][k]
          BY <4>5, <4>8
        <5> QED
          BY <5>1 DEF Connections, Carry
      <4> QED
        BY <4>7, <4>8
    <3> QED
      BY <3>1, <3>2
  <2> QED
    BY <2>2, <2>3 DEF Carry
<1>10. State(h)' = State(h)
  <2>1. v[h].state = host[h][h].state
    BY <1>4, KnownType, AssociatedType
  <2>2. host'[h] = Refreshed(v, h)
    BY <1>4 DEF TypeOK
  <2> QED
    BY <1>5, <2>1, <2>2 DEF State
<1>11. Follows /\ RxGoes /\ Elects'
  <2>1. Stays(h)
    BY <1>1, <1>2, <1>10 DEF Stays, Loses
  <2>2. /\ IsActive(h)' => master'[h] = h
        /\ ~IsRunning(h)' => nextCxn'[h] = NoCxn
        /\ stopStep'[h] # "none" => State(h)' = "Stopping"
    BY <1>1, <1>10 DEF Connections, Elects, IsActive, IsRunning
  <2>3. RxGoes
    BY <1>1 DEF RxGoes
  <2> QED
    BY <1>1, <1>6, <2>1, <2>2, <2>3, OthersFollow, OthersElect DEF Connections
<1>12. Dialled'
  BY <1>1 DEF Connections, Dialled
<1> QED
  BY <1>8, <1>9, <1>11, <1>12, KeptConnections

LEMMA HbRcvdConnections ==
  ASSUME TypeOK, TypeOK', Connections, NEW h \in Host, NEW c \in Cxn, HbRcvd(c, h)
  PROVE  Connections'
<1>1. PICK p \in Host, old \in SUBSET Cxn, v \in View :
           /\ chan[c][h] # << >> /\ Head(chan[c][h]).type = "hb" /\ Head(chan[c][h]).from = p
           /\ end[c][h] \in Open /\ rx[h] = RxIdle
           /\ host' = [host EXCEPT ![h] = v]
           /\ \/ /\ assoc[c][h] = NoHost /\ old = Replaced(host[h], c, p)
                 /\ v = Associated(host[h], c, p)
                 /\ assoc' = [Disown(h, old, assoc) EXCEPT ![c][h] = p]
                 /\ end' = Orphan(h, old, end)
              \/ /\ assoc[c][h] # NoHost /\ v = host[h]
                 /\ UNCHANGED <<assoc, end, host>>
           /\ \A q \in Host : v[q].state = host[h][q].state
  BY HbRcvdIs
<1>2. Peer(c, h) = p
  <2>1. chan[c][h] \in Seq(Msg)
    BY DEF TypeOK
  <2>2. 1 \in 1..Len(chan[c][h]) /\ chan[c][h][1] = Head(chan[c][h])
    BY <1>1, <2>1
  <2> QED
    BY <1>1, <2>2 DEF Connections, Carry
<1>3. UNCHANGED <<next, nextCxn, rx, master, stopStep, dial, chan>>
  BY DEF HbRcvd, envVars
<1>4. Steady
  BY <1>1, <1>3 DEF Steady, State, TypeOK
<1>5. Follows /\ RxGoes /\ RxHolds /\ Elects'
  BY <1>4, SteadyIs DEF Connections
<1>6. CASE /\ assoc[c][h] = NoHost /\ old = Replaced(host[h], c, p)
           /\ v = Associated(host[h], c, p)
           /\ assoc' = [Disown(h, old, assoc) EXCEPT ![c][h] = p]
           /\ end' = Orphan(h, old, end)
  <2>1. /\ assoc'[c][h] = p
        /\ \A d \in Cxn, k \in Host : end'[d][k] = Orphan(h, old, end)[d][k]
        /\ \A d \in Cxn, k \in Host : d # c \/ k # h => assoc'[d][k] = Disown(h, old, assoc)[d][k]
    <3>1. Disown(h, old, assoc) \in [Cxn -> [Host -> Host \cup {NoHost}]]
      BY OrphanType
    <3> QED
      BY <1>6, <3>1
  <2>2. rx[h].step \notin Dying /\ rx'[h] = RxIdle /\ end[c][h] \in Live
    BY <1>1, <1>3 DEF RxIdle, Dying, Live
  <2>3. \A q \in Host : host[h][q].cxn # c
    BY <1>6, <2>2, CxnAssumption, HostAssumption DEF Connections, Linked
  <2>4. c \notin old
    BY <1>6, <2>3 DEF Replaced
  <2>5. end'[c][h] \in Open
    BY <1>1, <2>1, <2>4, OrphanIs
  <2>6. /\ \A q \in Host : v[q].cxn = Associated(host[h], c, p)[q].cxn /\ host'[h][q].cxn = v[q].cxn
        /\ \A k \in Host \ {h} : host'[k] = host[k]
    BY <1>1, <1>6 DEF TypeOK
  <2>7. Kept /\ Linked'
    BY <1>2, <1>3, <1>6, <2>1, <2>2, <2>3, <2>5, <2>6, ReplacedConnections
  <2>8. Carry(chan)'
    <3>1. \A d \in Cxn, k \in Host : Peer(d, k)' = Peer(d, k) /\ (end[d][k] \in Live => end'[d][k] \in Live)
      BY <2>7, KeptPeers DEF Kept, Live
    <3> QED
      BY <1>3, <3>1 DEF Connections, Carry
  <2>9. Dialled'
    BY <1>3 DEF Connections, Dialled
  <2> QED
    BY <1>5, <2>7, <2>8, <2>9, KeptConnections
<1>7. CASE UNCHANGED <<assoc, end, host>>
  BY <1>3, <1>5, <1>7, QuietConnections
<1> QED
  BY <1>1, <1>6, <1>7

LEMMA HbDataConnections ==
  ASSUME TypeOK, TypeOK', Connections, NEW h \in Host, NEW c \in Cxn, CxnHbDataRcvd(c, h)
  PROVE  Connections'
<1>1. PICK p \in Host, v \in View :
           /\ chan[c][h] # << >> /\ end[c][h] \in Open /\ p = assoc[c][h] /\ assoc[c][h] # NoHost
           /\ \A q \in Host : v[q].cxn = host[h][q].cxn
           /\ \A q \in Host \ {p} : v[q].state = host[h][q].state
           /\ chan' = [chan EXCEPT ![c][h] = Tail(@)]
           /\ HbDataRcvd(h, v, p)
  BY HbDataIs
<1>2. p # h
  <2>1. end[c][h] # "none"
    BY <1>1 DEF Open
  <2> QED
    BY <1>1, <2>1, PeerIs DEF Connections, Associates
<1>3. UNCHANGED <<rx, master, stopStep, dial, end, assoc>>
  BY DEF CxnHbDataRcvd
<1>4. /\ \/ next'[h] = p /\ nextCxn'[h] = v[p].cxn /\ IsRunning(h)
         \/ next'[h] = next[h] /\ nextCxn'[h] = nextCxn[h]
      /\ \A k \in Host \ {h} : next'[k] = next[k] /\ nextCxn'[k] = nextCxn[k] /\ host'[k] = host[k]
      /\ \A q \in Host : host'[h][q].cxn = v[q].cxn /\ host'[h][q].state = v[q].state
  BY <1>1, HbDataRcvdIs
<1>5. State(h)' = State(h)
  BY <1>1, <1>2, <1>4 DEF State
<1>6. (next'[h] \in Host /\ nextCxn'[h] = host'[h][next'[h]].cxn) \/ Stays(h)
  BY <1>3, <1>4, <1>5 DEF Stays, Loses
<1>7. Follows
  BY <1>3, <1>4, <1>6, OthersFollow
<1>8. Elects'
  <2>1. /\ IsActive(h)' => master'[h] = h
        /\ ~IsRunning(h)' => nextCxn'[h] = NoCxn
        /\ stopStep'[h] # "none" => State(h)' = "Stopping"
    BY <1>3, <1>4, <1>5 DEF Connections, Elects, IsActive, IsRunning
  <2> QED
    BY <1>3, <1>4, <2>1, OthersElect DEF Connections
<1>9. Carry(chan')
  BY <1>1, TailCarried
<1>10. /\ \A k, q \in Host : host'[k][q].cxn = host[k][q].cxn
       /\ \A k \in Host : \A q \in dial'[k] : q < k
  BY <1>1, <1>3, <1>4 DEF Connections, Dialled
<1> QED
  BY <1>3, <1>7, <1>8, <1>9, <1>10, RxStays, SameConnections

LEMMA DisconnectedConnections ==
  ASSUME TypeOK, TypeOK', Connections, NEW h \in Host, NEW c \in Cxn, Disconnected(c, h)
  PROVE  Connections'
<1>1. /\ Gone(c, h, "closed") /\ DropNextCxn(c, h) /\ end[c][h] \in Open /\ rx[h] = RxIdle
      /\ \/ UNCHANGED rx /\ ~(assoc[c][h] \in Host /\ host[h][assoc[c][h]].cxn = c)
         \/ \E p \in Host : /\ p = assoc[c][h] /\ host[h][p].cxn = c
                            /\ rx' = [rx EXCEPT ![h] = [step |-> "dropped", cxn |-> c, host |-> p]]
  BY DisconnectedIs
<1>2. end[c][h] \in Live /\ UNCHANGED <<host, next, dial, master, stopStep>>
  BY <1>1 DEF Disconnected, Live
<1>3. \A k \in Host : nextCxn'[k] = IF k = h /\ nextCxn[k] = c THEN NoCxn ELSE nextCxn[k]
  BY <1>1, DropNextCxnIs
<1>4. rx[h].step \notin Dying
  BY <1>1 DEF RxIdle, Dying
<1>5. CASE UNCHANGED rx /\ ~(assoc[c][h] \in Host /\ host[h][assoc[c][h]].cxn = c)
  <2>1. \A q \in Host : host[h][q].cxn # c
    BY <1>4, <1>5, CxnAssumption DEF Connections, Linked
  <2> QED
    BY <1>1, <1>2, <1>3, <1>5, <2>1, GoneConnections
<1>6. CASE \E p \in Host : /\ p = assoc[c][h] /\ host[h][p].cxn = c
                           /\ rx' = [rx EXCEPT ![h] = [step |-> "dropped", cxn |-> c, host |-> p]]
  <2>1. PICK p \in Host : /\ p = assoc[c][h]
                          /\ rx' = [rx EXCEPT ![h] = [step |-> "dropped", cxn |-> c, host |-> p]]
    BY <1>6
  <2>2. /\ rx'[h] = [step |-> "dropped", cxn |-> c, host |-> p]
        /\ \A k \in Host \ {h} : rx'[k] = rx[k]
    BY <2>1 DEF TypeOK
  <2> QED
    BY <1>1, <1>2, <1>3, <2>1, <2>2, GoneConnections
<1> QED
  BY <1>1, <1>5, <1>6

LEMMA InitConnections == Init => Connections
<1> SUFFICES ASSUME Init
             PROVE  Connections
  OBVIOUS
<1>1. TypeOK
  BY InitType
<1>2. \A c \in Cxn, h \in Host : end[c][h] = "none" /\ assoc[c][h] = NoHost /\ chan[c][h] = << >>
  BY DEF Init
<1>3. Paired
  <2>1. \A c \in Cxn : Ends(c) = {}
    BY <1>2 DEF Ends
  <2> QED
    BY <2>1 DEF Paired
<1>4. Associates /\ Carry(chan)
  BY <1>2 DEF Associates, Carry
<1>5. Dialled /\ Directed /\ Called
  <2>1. \A h \in Host : rx[h] = RxIdle /\ nextCxn[h] = NoCxn /\ dial[h] = {}
    BY DEF Init
  <2>2. \A h \in Host : rx[h].step # "opening" /\ rx[h].step \notin LosingStep
    BY <1>1, <2>1, RxIs DEF RxIdle
  <2> QED
    BY <2>1, <2>2 DEF Dialled, Directed, Called
<1>6. Linked
  <2>1. \A h, p \in Host : host[h][p].cxn = NoCxn
    BY DEF Init
  <2> QED
    BY <2>1 DEF Linked
<1>7. Elects
  <2>1. \A h \in Host : State(h) = "Stopped" /\ nextCxn[h] = NoCxn /\ stopStep[h] = "none"
    BY DEF Init, State
  <2> QED
    BY <2>1, StatesAre DEF Elects, IsActive
<1> QED
  BY <1>3, <1>4, <1>5, <1>6, <1>7 DEF Connections

LEMMA StepConnections ==
  ASSUME TypeOK, TypeOK', Connections, [Next]_vars
  PROVE  Connections'
<1>1. CASE UNCHANGED vars
  <2>1. Steady /\ UNCHANGED <<host, dial, end, assoc, chan>>
    BY <1>1 DEF vars, envVars, cxnVars, Steady, State
  <2> QED
    BY <2>1, SteadyIs, QuietConnections DEF Connections
<1>2. ASSUME Next
      PROVE  Connections'
  <2>1. ASSUME NEW h \in Host, Start(h) \/ Stop(h) \/ HostStep(h) \/ Push(h)
        PROVE  Connections'
    BY <2>1, StartConnections, StopConnections, HoldElectionConnections, FinishElectionConnections,
       DeactivateConnections, CountDisconnectedConnections, ClearCxnConnections, LoseHostConnections,
       ReelectConnections, RedialConnections, StopDisconnectConnections, StopFinishConnections,
       WriteThreadConnections, RecSendConnections, PushConnections DEF HostStep
  <2>2. ASSUME NEW h \in Host, NEW n \in RN, Put(h, n)
        PROVE  Connections'
    BY <2>2, PutConnections
  <2>3. ASSUME NEW c \in Cxn, NEW h \in Host, CxnStep(c, h) \/ Heartbeat(c, h) \/ Disconnected(c, h)
        PROVE  Connections'
    BY <2>3, ConnectedConnections, OpenedConnections, HbRcvdConnections, HbDataConnections,
       RepRcvdConnections, HeartbeatConnections,
       DisconnectedConnections DEF CxnStep
  <2>4. ASSUME NEW c \in Cxn, NEW h \in Host, NEW p \in Host, Connect(h, p, c)
        PROVE  Connections'
    BY <2>4, ConnectConnections
  <2> QED
    BY <1>2, <2>1, <2>2, <2>3, <2>4 DEF Next
<1> QED
  BY <1>1, <1>2

LEMMA ConnectionsDirect ==
  ASSUME TypeOK, Connections
  PROVE  ReplicatesToNext
<1> SUFFICES ASSUME NEW h \in Host, nextCxn[h] # NoCxn
             PROVE  /\ next[h] # NoHost
                    /\ assoc[nextCxn[h]][h] \in {next[h], NoHost}
                    /\ \/ end[nextCxn[h]][h] \in Open
                       \/ rx[h].step \in Losing /\ rx[h].cxn = nextCxn[h]
                       \/ State(h) \in {"Electing", "Activating", "Deactivating"}
  BY DEF ReplicatesToNext
<1>1. PICK c \in Cxn : nextCxn[h] = c
  BY DEF TypeOK
<1>2. /\ next[h] # NoHost
      /\ \/ end[c][h] \in Open /\ Peer(c, h) = next[h]
         \/ end[c][h] \notin Live /\ (Loses(h, c, next[h]) \/ State(h) \in Unsettled)
  BY <1>1, CxnAssumption DEF Connections, Directed
<1>3. assoc[c][h] # NoHost => end[c][h] \in Live /\ assoc[c][h] = Peer(c, h)
  BY DEF Connections, Associates
<1> QED
  BY <1>1, <1>2, <1>3 DEF Loses, Unsettled

\* Records are replicated to the next in line only, for any number of hosts and connections,
\* whatever breaks, is refused or connects again: no host but m_next is associated with m_nextCxn,
\* which is open but while disconnected() has yet to see to its end, or an election to name the next
\* in line (setNext(), associate(), disconnected()).
THEOREM ReplicationDirected == Spec => []ReplicatesToNext
<1>1. Connections /\ TypeOK /\ TypeOK' /\ [Next]_vars => Connections'
  BY StepConnections
<1>2. TypeOK /\ Connections => ReplicatesToNext
  BY ConnectionsDirect
<1> QED
  BY <1>1, <1>2, ClusterTypeCorrect, InitConnections, PTL DEF Spec

-----------------------------------------------------------------------------
(* The inductive invariant about the records                               *)

Masters == [RN -> Host \cup {NoHost}]

\* A record on its way is of the host that pushed its number, and has a number some host
\* has counted.
Fits(w, m) == m.type = "rep" =>
  /\ m.rec.op = "add" => m.rec.by = w[m.rn]
  /\ \E p \in Host : m.rn < nextRN[p]

Fitting(w, ch) == \A c \in Cxn, h \in Host : \A i \in 1..Len(ch[c][h]) : Fits(w, ch[c][h][i])
Queued(w, us) == \A h \in Host : \A i \in 1..Len(us[h]) : Fits(w, us[h][i])
Written(w) == \A h \in Host, n \in RN : rec[h][n].op = "add" => n < nextRN[h] /\ rec[h][n].by = w[n]
Pending(w) == \A h \in Host : \A n \in pushed[h] : n < nextRN[h] /\ w[n] = h

\* What is recovered is what the host holds.
Recovers == \A h \in Host : recovery[h].end <= nextRN[h]

\* An active host is the only one, and has counted every number.
Leads == \A h, p \in Host : IsActive(h) => nextRN[p] <= nextRN[h] /\ (IsActive(p) => p = h)

\* w names the host that pushed each record number.
Histories(w) ==
  Leads /\ Recovers /\ Written(w) /\ Pending(w) /\ Queued(w, unsent) /\ Fitting(w, chan)

OneMaster == splits = 0 => \E w \in Masters : Histories(w)

LEMMA RepTypes ==
  ASSUME NEW m \in Msg, m.type = "rep"
  PROVE  m \in Rep /\ m.rn \in RN /\ m.rec \in Record
  BY DEF Msg, Heartbeats, Rep

LEMMA NextRNType ==
  ASSUME TypeOK, NEW h \in Host
  PROVE  nextRN[h] \in Nat /\ nextRN[h] \in 0..MaxRN
<1>1. nextRN[h] \in 0..MaxRN /\ MaxRN \in Nat
  BY NumbersType DEF TypeOK
<1> QED
  BY <1>1

\* What fits still does when record numbers are counted.
LEMMA FitsGrows ==
  ASSUME TypeOK, TypeOK', NEW w, NEW m \in Msg, \A k \in Host : nextRN[k] <= nextRN'[k], Fits(w, m)
  PROVE  Fits(w, m)'
<1> SUFFICES ASSUME m.type = "rep"
             PROVE  (m.rec.op = "add" => m.rec.by = w[m.rn]) /\ \E p \in Host : m.rn < nextRN'[p]
  BY DEF Fits
<1>1. PICK p \in Host : m.rn < nextRN[p]
  BY DEF Fits
<1>2. m.rn \in Nat /\ nextRN[p] \in Nat /\ nextRN'[p] \in Nat
  <2>1. MaxRN \in Nat /\ nextRN[p] \in 0..MaxRN /\ nextRN'[p] \in 0..MaxRN
    BY NumbersType DEF TypeOK
  <2>2. m.rn \in RN
    BY RepTypes
  <2> QED
    BY <2>1, <2>2 DEF RN
<1>3. m.rn < nextRN'[p]
  BY <1>1, <1>2
<1> QED
  BY <1>3 DEF Fits

LEMMA GrowHistories ==
  ASSUME TypeOK, TypeOK', NEW w \in Masters, Histories(w), \A k \in Host : nextRN[k] <= nextRN'[k],
         Resumes, Leads', Written(w)', Pending(w)', Queued(w, unsent'), Fitting(w, chan')
  PROVE  Histories(w)'
<1>1. Recovers'
  <2> SUFFICES ASSUME NEW k \in Host
               PROVE  recovery'[k].end <= nextRN'[k]
    BY DEF Recovers
  <2>1. recovery'[k].end \in {recovery[k].end, nextRN[k], 0} /\ recovery[k].end <= nextRN[k]
    BY DEF Resumes, Histories, Recovers
  <2>2. nextRN[k] \in Nat /\ nextRN'[k] \in Nat /\ recovery[k].end \in Nat /\ nextRN[k] <= nextRN'[k]
    <3>1. MaxRN \in Nat /\ nextRN[k] \in 0..MaxRN /\ nextRN'[k] \in 0..MaxRN /\ recovery[k] \in Recovery
      BY NumbersType DEF TypeOK
    <3> QED
      BY <3>1 DEF Recovery
  <2> QED
    BY <2>1, <2>2
<1>2. Queued(w, unsent)'
  <2> SUFFICES ASSUME NEW k \in Host, NEW i \in 1..Len(unsent'[k])
               PROVE  Fits(w, unsent[k][i])'
    BY DEF Queued
  <2>1. unsent'[k][i] \in Msg
    <3>1. unsent'[k] \in Seq(Rep)
      BY DEF TypeOK
    <3>2. unsent'[k][i] \in Rep
      BY <3>1
    <3> QED
      BY <3>2 DEF Msg
  <2>2. Fits(w, unsent'[k][i])
    BY DEF Queued
  <2>3. PICK m \in Msg : m = unsent'[k][i]
    BY <2>1
  <2>4. Fits(w, m)'
    BY <2>2, <2>3, FitsGrows
  <2> QED
    BY <2>3, <2>4 DEF Fits
<1>3. Fitting(w, chan)'
  <2> SUFFICES ASSUME NEW c \in Cxn, NEW k \in Host, NEW i \in 1..Len(chan'[c][k])
               PROVE  Fits(w, chan[c][k][i])'
    BY DEF Fitting
  <2>1. chan'[c][k][i] \in Msg
    <3>1. chan'[c][k] \in Seq(Msg)
      BY DEF TypeOK
    <3> QED
      BY <3>1
  <2>2. Fits(w, chan'[c][k][i])
    BY DEF Fitting
  <2>3. PICK m \in Msg : m = chan'[c][k][i]
    BY <2>1
  <2>4. Fits(w, m)'
    BY <2>2, <2>3, FitsGrows
  <2> QED
    BY <2>3, <2>4 DEF Fits
<1> QED
  BY <1>1, <1>2, <1>3 DEF Histories

\* Steps that write no record and make no host active.
LEMMA QuietHistories ==
  ASSUME TypeOK, TypeOK', NEW w \in Masters, Histories(w), UNCHANGED <<nextRN, rec, pushed, unsent>>,
         \A k \in Host : host'[k][k].state \in ActiveStates => host[k][k].state \in ActiveStates,
         Resumes, Fitting(w, chan')
  PROVE  Histories(w)'
<1>1. \A k \in Host : nextRN[k] <= nextRN'[k]
  BY NextRNType
<1>2. Leads'
  BY DEF Histories, Leads, IsActive, State
<1>3. Written(w)' /\ Pending(w)'
  BY DEF Histories, Written, Pending
<1>4. Queued(w, unsent')
  BY DEF Histories
<1> QED
  BY <1>1, <1>2, <1>3, <1>4, GrowHistories

LEMMA SentFits ==
  ASSUME NEW w, NEW ch \in Channels, Fitting(w, ch), NEW c, NEW h, NEW msgs \in Seq(Msg),
         \A i \in 1..Len(msgs) : Fits(w, msgs[i])
  PROVE  Fitting(w, Sent(ch, c, h, msgs))
<1> DEFINE s == [ch EXCEPT ![c][Peer(c, h)] = @ \o msgs]
<1>1. Sent(ch, c, h, msgs) = ch \/ Sent(ch, c, h, msgs) = s
  BY DEF Sent
<1>2. Fitting(w, s)
  <2> SUFFICES ASSUME NEW d \in Cxn, NEW k \in Host, NEW i \in 1..Len(s[d][k])
               PROVE  Fits(w, s[d][k][i])
    BY DEF Fitting
  <2>1. ch[d][k] \in Seq(Msg) /\ s[d][k] \in {ch[d][k], ch[d][k] \o msgs}
    BY DEF Channels
  <2> HIDE DEF s
  <2>2. CASE s[d][k] = ch[d][k]
    BY <2>2 DEF Fitting
  <2>3. CASE s[d][k] = ch[d][k] \o msgs
    <3>1. CASE i <= Len(ch[d][k])
      <4>1. s[d][k][i] = ch[d][k][i] /\ i \in 1..Len(ch[d][k])
        BY <2>1, <2>3, <3>1
      <4> QED
        BY <4>1 DEF Fitting
    <3>2. CASE i > Len(ch[d][k])
      <4>1. s[d][k][i] = msgs[i - Len(ch[d][k])] /\ i - Len(ch[d][k]) \in 1..Len(msgs)
        BY <2>1, <2>3, <3>2
      <4> QED
        BY <4>1
    <3>3. i \in Int /\ Len(ch[d][k]) \in Int
      BY <2>1
    <3> QED
      BY <3>1, <3>2, <3>3
  <2> QED
    BY <2>1, <2>2, <2>3
<1> QED
  BY <1>1, <1>2

LEMMA HbFits ==
  ASSUME NEW w, NEW h \in Host, NEW v \in View
  PROVE  /\ <<Hb(h, v)>> \in Seq(Msg) /\ Fits(w, Hb(h, v))
         /\ \A i \in 1..Len(<<Hb(h, v)>>) : Fits(w, <<Hb(h, v)>>[i])
<1>1. Hb(h, v) \in Msg /\ Fits(w, Hb(h, v))
  BY HbType DEF Fits
<1> HIDE DEF Fits
<1> QED
  BY <1>1

\* Reading a message leaves the others, and the one that is read fits.
LEMMA TailFits ==
  ASSUME TypeOK, NEW w, Fitting(w, chan), NEW h \in Host, NEW c \in Cxn, chan[c][h] # << >>
  PROVE  /\ Fitting(w, [chan EXCEPT ![c][h] = Tail(@)]) /\ Fits(w, Head(chan[c][h]))
         /\ [chan EXCEPT ![c][h] = Tail(@)] \in Channels
<1> DEFINE rest == [chan EXCEPT ![c][h] = Tail(@)]
<1>1. chan[c][h] \in Seq(Msg) /\ rest \in Channels
  BY HeadType DEF TypeOK
<1>2. 1 \in 1..Len(chan[c][h]) /\ chan[c][h][1] = Head(chan[c][h])
  BY <1>1
<1>3. /\ rest[c][h] = Tail(chan[c][h])
      /\ \A d \in Cxn, k \in Host : d # c \/ k # h => rest[d][k] = chan[d][k]
  BY DEF TypeOK
<1> HIDE DEF rest
<1>4. \A i \in 1..Len(rest[c][h]) : rest[c][h][i] = chan[c][h][i + 1] /\ i + 1 \in 1..Len(chan[c][h])
  BY <1>1, <1>3, HeadTailProperties
<1>5. Fitting(w, rest)
  <2> SUFFICES ASSUME NEW d \in Cxn, NEW k \in Host, NEW i \in 1..Len(rest[d][k])
               PROVE  Fits(w, rest[d][k][i])
    BY DEF Fitting
  <2>1. CASE d = c /\ k = h
    BY <1>4, <2>1 DEF Fitting
  <2>2. CASE d # c \/ k # h
    <3>1. rest[d][k] = chan[d][k]
      BY <1>3, <2>2
    <3> QED
      BY <3>1 DEF Fitting
  <2> QED
    BY <2>1, <2>2
<1>6. Fits(w, Head(chan[c][h]))
  BY <1>2 DEF Fitting
<1> QED
  BY <1>1, <1>5, <1>6 DEF rest

LEMMA EmptyFits ==
  ASSUME TypeOK, NEW w, Fitting(w, chan), NEW h \in Host, NEW c \in Cxn,
         chan' = [chan EXCEPT ![c][h] = << >>]
  PROVE  Fitting(w, chan')
<1>1. \A d \in Cxn, k \in Host : chan'[d][k] \in {chan[d][k], << >>}
  BY DEF TypeOK
<1> QED
  BY <1>1 DEF Fitting

LEMMA DeferredFits ==
  ASSUME TypeOK, NEW w, Queued(w, unsent), NEW h \in Host, NEW m \in Rep, Fits(w, m)
  PROVE  Queued(w, Deferred(h, m))
<1> DEFINE us == Deferred(h, m)
<1> SUFFICES ASSUME NEW k \in Host, NEW i \in 1..Len(us[k])
             PROVE  Fits(w, us[k][i])
  BY DEF Queued
<1>1. unsent[k] \in Seq(Rep) /\ us[k] \in {unsent[k], Append(unsent[k], m)}
  BY DEF TypeOK, Deferred
<1> HIDE DEF us
<1>2. CASE us[k] = unsent[k]
  BY <1>2 DEF Queued
<1>3. CASE us[k] = Append(unsent[k], m)
  <2>1. CASE i \in 1..Len(unsent[k])
    <3>1. us[k][i] = unsent[k][i]
      BY <1>1, <1>3, <2>1
    <3> QED
      BY <2>1, <3>1 DEF Queued
  <2>2. CASE i \notin 1..Len(unsent[k])
    <3>1. us[k][i] = m
      BY <1>1, <1>3, <2>2
    <3> QED
      BY <3>1
  <2> QED
    BY <2>1, <2>2
<1> QED
  BY <1>1, <1>2, <1>3

\* Setting the state of a host's own entry.
LEMMA HostStateIs ==
  ASSUME TypeOK, NEW h \in Host, NEW s \in HostState, host' = [host EXCEPT ![h][h].state = s]
  PROVE  host'[h][h].state = s /\ \A k \in Host \ {h} : host'[k] = host[k]
<1> DEFINE v == [host[h] EXCEPT ![h].state = s]
<1>1. v[h].state = s
  BY KnownType DEF View, Known
<1>2. host' = [host EXCEPT ![h] = v]
  OBVIOUS
<1> HIDE DEF v
<1> QED
  BY <1>1, <1>2 DEF TypeOK

LEMMA StartHistories ==
  ASSUME TypeOK, TypeOK', NEW w \in Masters, Histories(w), NEW h \in Host, Start(h)
  PROVE  Histories(w)'
<1> DEFINE v == [Unvoted(host[h], h) EXCEPT ![h].state = "Electing"]
<1>1. v \in View /\ v[h].state = "Electing"
  <2>1. Unvoted(host[h], h) \in View /\ "Electing" \in HostState
    BY KnownType, UnvotedType DEF HostState
  <2> QED
    BY <2>1 DEF View, Known
<1>2. host' = [host EXCEPT ![h] = IF Cardinality(Host) > 1 THEN Refreshed(v, h) ELSE v]
      /\ StopReplication(h) /\ UNCHANGED <<nextRN, rec, pushed, unsent, chan>>
  BY DEF Start, dbVars, cxnVars
<1> HIDE DEF v
<1>3. Refreshed(v, h)[h].state = "Electing"
  BY <1>1, RefreshedType
<1>4. host'[h][h].state = "Electing" /\ \A k \in Host \ {h} : host'[k] = host[k]
  BY <1>1, <1>2, <1>3 DEF TypeOK
<1>5. Resumes
  BY <1>2, StopReplicationType
<1> QED
  BY <1>2, <1>4, <1>5, QuietHistories DEF ActiveStates, Histories

LEMMA StopHistories ==
  ASSUME TypeOK, TypeOK', NEW w \in Masters, Histories(w), NEW h \in Host, Stop(h)
  PROVE  Histories(w)'
<1> DEFINE v == [Unvoted(host[h], h) EXCEPT ![h].state = "Stopping"]
<1>1. v[h].state = "Stopping"
  <2>1. Unvoted(host[h], h) \in View
    BY KnownType, UnvotedType
  <2> QED
    BY <2>1 DEF View, Known
<1>2. host' = [host EXCEPT ![h] = v]
      /\ StopReplication(h) /\ UNCHANGED <<nextRN, rec, pushed, unsent, chan>>
  BY DEF Stop, dbVars, cxnVars
<1> HIDE DEF v
<1>3. host'[h][h].state = "Stopping" /\ \A k \in Host \ {h} : host'[k] = host[k]
  BY <1>1, <1>2 DEF TypeOK
<1>4. Resumes
  BY <1>2, StopReplicationType
<1> QED
  BY <1>2, <1>3, <1>4, QuietHistories DEF ActiveStates, Histories

LEMMA SettleHistories ==
  ASSUME TypeOK, TypeOK', NEW w \in Masters, Histories(w), NEW h \in Host, NEW s \in {"Stopped", "Electing"},
         host' = host \/ host' = [host EXCEPT ![h][h].state = s],
         UNCHANGED <<recovery, nextRN, rec, pushed, unsent, chan>>
  PROVE  Histories(w)'
<1>1. s \in HostState
  BY DEF HostState
<1>2. \A k \in Host : host'[k][k].state \in ActiveStates => host[k][k].state \in ActiveStates
  BY <1>1, HostStateIs DEF ActiveStates
<1>3. Resumes
  BY DEF Resumes
<1> QED
  BY <1>2, <1>3, QuietHistories DEF Histories

LEMMA StoppingHistories ==
  ASSUME TypeOK, TypeOK', NEW w \in Masters, Histories(w), NEW h \in Host,
         StopDisconnect(h) \/ StopFinish(h) \/ Reelect(h) \/ Redial(h) \/ CountDisconnected(h)
  PROVE  Histories(w)'
<1>1. \E s \in {"Stopped", "Electing"} : host' = host \/ host' = [host EXCEPT ![h][h].state = s]
  BY DEF StopDisconnect, StopFinish, Reelect, Redial, CountDisconnected
<1>2. UNCHANGED <<recovery, nextRN, rec, pushed, unsent, chan>>
  BY DEF StopDisconnect, StopFinish, Reelect, Redial, CountDisconnected, dbVars, cxnVars
<1> QED
  BY <1>1, <1>2, SettleHistories

LEMMA AnnouncedFits ==
  ASSUME TypeOK, NEW w, Fitting(w, chan), NEW h \in Host, NEW v \in View
  PROVE  Fitting(w, Announced(h, v))
<1> SUFFICES ASSUME NEW c \in Cxn, NEW k \in Host, NEW i \in 1..Len(Announced(h, v)[c][k])
             PROVE  Fits(w, Announced(h, v)[c][k][i])
  BY DEF Fitting
<1>1. Announced(h, v)[c] = Sent(chan, c, h, <<Hb(h, v)>>)[c]
  BY DEF Announced
<1>2. Fitting(w, Sent(chan, c, h, <<Hb(h, v)>>))
  BY HbFits, SentFits DEF TypeOK, Channels
<1> QED
  BY <1>1, <1>2 DEF Fitting

\* A host that wins an election is entitled to, so it has counted every number and is alone.
LEMMA HoldElectionHistories ==
  ASSUME TypeOK, TypeOK', NEW w \in Masters, Histories(w), NEW h \in Host, HoldElection(h),
         splits = 0, splits' = 0
  PROVE  Histories(w)'
<1> DEFINE v == Refreshed(host[h], h)
           won == FirstRanked(v, Voted(v)) = h
           s == IF won THEN "Activating" ELSE "Deactivating"
           x == [v EXCEPT ![h].state = s]
<1>1. v \in View
  BY KnownType, RefreshedType
<1>2. /\ host' = [host EXCEPT ![h] = x]
      /\ chan' = Announced(h, x) \/ chan' = chan
      /\ won => Entitled(h)
      /\ UNCHANGED <<recovery, nextRN, rec, pushed, unsent>>
  BY DEF HoldElection, dbVars
<1> HIDE DEF v
<1>3. x \in View /\ x[h].state = s
  <2>1. s \in HostState
    BY DEF HostState
  <2> HIDE DEF s
  <2> QED
    BY <1>1, <2>1 DEF View, Known
<1>4. (s = "Activating" /\ Entitled(h)) \/ s = "Deactivating"
  BY <1>2
<1> HIDE DEF x, s
<1>5. host'[h][h].state = s /\ \A k \in Host \ {h} : host'[k] = host[k]
  BY <1>2, <1>3 DEF TypeOK
<1>6. Fitting(w, chan')
  BY <1>2, <1>3, AnnouncedFits DEF Histories
<1>7. Leads'
  <2>1. CASE s = "Deactivating"
    BY <1>2, <1>5, <2>1 DEF Histories, Leads, IsActive, State, ActiveStates
  <2>2. CASE Entitled(h)
    <3>1. \A k \in Host \ {h} : ~IsActive(k)' /\ nextRN[k] <= nextRN[h]
      BY <1>5, <2>2 DEF Entitled, IsActive, State
    <3>2. nextRN[h] <= nextRN[h]
      BY NextRNType
    <3> QED
      BY <1>2, <3>1, <3>2 DEF Leads
  <2> QED
    BY <1>4, <2>1, <2>2
<1>8. \A k \in Host : nextRN[k] <= nextRN'[k]
  BY <1>2, NextRNType
<1>9. Resumes /\ Written(w)' /\ Pending(w)' /\ Queued(w, unsent')
  BY <1>2 DEF Histories, Resumes, Written, Pending, Queued
<1> QED
  BY <1>6, <1>7, <1>8, <1>9, GrowHistories

LEMMA DeactivateHistories ==
  ASSUME TypeOK, TypeOK', NEW w \in Masters, Histories(w), NEW h \in Host, Deactivate(h)
  PROVE  Histories(w)'
<1> DEFINE x == [Refreshed(host[h], h) EXCEPT ![h].voted = FALSE]
           u == [x EXCEPT ![h].voted = TRUE, ![h].state = "Deactivating"]
<1>1. x \in View
  <2>1. Refreshed(host[h], h) \in View
    BY KnownType, RefreshedType
  <2> QED
    BY <2>1 DEF View, Known
<1>2. host' = [host EXCEPT ![h] = u] \/ host' = host
  BY DEF Deactivate
<1> HIDE DEF x
<1>3. u[h].state = "Deactivating"
  BY <1>1 DEF View, Known
<1> HIDE DEF u
<1>4. \A k \in Host : host'[k][k].state \in ActiveStates => host[k][k].state \in ActiveStates
  BY <1>2, <1>3 DEF TypeOK, ActiveStates
<1>5. UNCHANGED <<recovery, nextRN, rec, pushed, unsent, chan>>
  BY DEF Deactivate, dbVars, cxnVars
<1>6. Resumes
  BY <1>5 DEF Resumes
<1> QED
  BY <1>4, <1>5, <1>6, QuietHistories DEF Histories

LEMMA FinishElectionHistories ==
  ASSUME TypeOK, TypeOK', NEW w \in Masters, Histories(w), NEW h \in Host, FinishElection(h)
  PROVE  Histories(w)'
<1> DEFINE s == IF host[h][h].state = "Activating" THEN "Active" ELSE "Inactive"
           v == [host[h] EXCEPT ![h].state = s]
<1>1. v \in View /\ v[h].state = s
  <2>1. s \in HostState
    BY DEF HostState
  <2> HIDE DEF s
  <2> QED
    BY <2>1, KnownType DEF View, Known
<1>2. Replicate(h, v, NextInLine(h, v))
  BY KnownType DEF FinishElection, View
<1>3. s \in ActiveStates => host[h][h].state \in ActiveStates
  BY DEF ActiveStates
<1> HIDE DEF v, s
<1>4. NextInLine(h, v) \in Host \cup {NoHost}
  BY <1>1, NextInLineType
<1>5. Resumes /\ host'[h][h].state = s /\ \A k \in Host \ {h} : host'[k] = host[k]
  BY <1>1, <1>2, <1>4, ReplicateIs
<1>6. \A k \in Host : host'[k][k].state \in ActiveStates => host[k][k].state \in ActiveStates
  BY <1>3, <1>5
<1>7. UNCHANGED <<nextRN, rec, pushed, unsent, chan>>
  BY DEF FinishElection, dbVars, cxnVars
<1> QED
  BY <1>5, <1>6, <1>7, QuietHistories DEF Histories

LEMMA WriteThreadHistories ==
  ASSUME TypeOK, TypeOK', NEW w \in Masters, Histories(w), NEW h \in Host, WriteThread(h)
  PROVE  Histories(w)'
<1> DEFINE m == Head(unsent[h])
           rest == Tail(unsent[h])
<1>1. unsent[h] \in Seq(Rep) /\ unsent[h] # << >>
  BY DEF WriteThread, TypeOK
<1>2. /\ unsent' = [unsent EXCEPT ![h] = rest]
      /\ chan' = Sent(chan, nextCxn[h], h, <<m>>)
      /\ UNCHANGED <<host, recovery, nextRN, rec, pushed>>
  BY DEF WriteThread, envVars
<1>3. /\ m \in Rep /\ rest \in Seq(Rep)
      /\ \A i \in 1..Len(rest) : rest[i] = unsent[h][i + 1] /\ i + 1 \in 1..Len(unsent[h])
      /\ 1 \in 1..Len(unsent[h]) /\ m = unsent[h][1]
  BY <1>1, HeadTailProperties
<1> HIDE DEF m, rest
<1>4. Fits(w, m) /\ \A i \in 1..Len(rest) : Fits(w, rest[i])
  BY <1>3 DEF Histories, Queued
<1>5. Queued(w, unsent')
  <2> SUFFICES ASSUME NEW k \in Host, NEW i \in 1..Len(unsent'[k])
               PROVE  Fits(w, unsent'[k][i])
    BY DEF Queued
  <2>1. CASE k = h
    <3>1. unsent'[k] = rest
      BY <1>2, <2>1 DEF TypeOK
    <3> QED
      BY <1>4, <3>1
  <2>2. CASE k # h
    <3>1. unsent'[k] = unsent[k]
      BY <1>2, <2>2 DEF TypeOK
    <3> QED
      BY <3>1 DEF Histories, Queued
  <2> QED
    BY <2>1, <2>2
<1>6. Fitting(w, chan')
  <2>1. <<m>> \in Seq(Msg) /\ \A i \in 1..Len(<<m>>) : <<m>>[i] = m
    BY <1>3 DEF Msg
  <2>2. chan \in Channels /\ Fitting(w, chan)
    BY DEF Histories, TypeOK, Channels
  <2>3. \A i \in 1..Len(<<m>>) : Fits(w, <<m>>[i])
    BY <1>4, <2>1
  <2> QED
    BY <1>2, <2>1, <2>2, <2>3, SentFits
<1>7. \A k \in Host : nextRN[k] <= nextRN'[k]
  BY <1>2, NextRNType
<1>8. Resumes /\ Leads' /\ Written(w)' /\ Pending(w)'
  BY <1>2 DEF Histories, Resumes, Leads, IsActive, State, Written, Pending
<1> QED
  BY <1>5, <1>6, <1>7, <1>8, GrowHistories

\* What is recovered was put by the host that pushed it.
LEMMA RecSendHistories ==
  ASSUME TypeOK, TypeOK', NEW w \in Masters, Histories(w), NEW h \in Host, RecSend(h)
  PROVE  Histories(w)'
<1> DEFINE n == recovery[h].rn
<1>1. recovery[h] \in Recovery /\ MaxRN \in Nat /\ nextRN[h] \in 0..MaxRN
  BY NumbersType DEF TypeOK
<1>2. UNCHANGED <<host, nextRN, rec, pushed, unsent>>
  BY DEF RecSend, dbVars
<1>3. CASE n < recovery[h].end
  <2>1. recovery' = [recovery EXCEPT ![h].rn = n + 1]
        /\ chan' = Sent(chan, nextCxn[h], h, <<RepMsg(n, Recovered(rec[h][n]))>>)
    BY <1>3 DEF RecSend
  <2>2. n \in RN
    BY <1>1, <1>3 DEF Recovery, RN
  <2>3. n < nextRN[h]
    <3>1. recovery[h].end <= nextRN[h]
      BY DEF Histories, Recovers
    <3> QED
      BY <1>1, <1>3, <3>1 DEF Recovery
  <2> HIDE DEF n
  <2> DEFINE m == RepMsg(n, Recovered(rec[h][n]))
  <2>4. <<m>> \in Seq(Msg)
    BY <2>2, RecoveredType, RepMsgType DEF TypeOK
  <2>5. Fits(w, m)
    <3>1. Recovered(rec[h][n]).op = "add" => Recovered(rec[h][n]) = rec[h][n]
      BY DEF Recovered, Deleted
    <3>2. rec[h][n].op = "add" => rec[h][n].by = w[n]
      BY <2>2 DEF Histories, Written
    <3> QED
      BY <2>3, <3>1, <3>2 DEF Fits, RepMsg
  <2> HIDE DEF m
  <2>6. \A i \in 1..Len(<<m>>) : <<m>>[i] = m
    OBVIOUS
  <2>7. \A i \in 1..Len(<<m>>) : Fits(w, <<m>>[i])
    BY <2>5, <2>6
  <2>8. chan \in Channels /\ Fitting(w, chan)
    BY DEF Histories, TypeOK, Channels
  <2>9. Fitting(w, chan')
    BY <2>1, <2>4, <2>7, <2>8, SentFits DEF m
  <2>10. Resumes
    <3>1. recovery' = [recovery EXCEPT ![h] = [recovery[h] EXCEPT !.rn = n + 1]]
      BY <2>1
    <3>2. [recovery[h] EXCEPT !.rn = n + 1].end = recovery[h].end
      BY <1>1 DEF Recovery
    <3> QED
      BY <3>1, <3>2 DEF Resumes, TypeOK
  <2> QED
    BY <1>2, <2>9, <2>10, QuietHistories
<1>4. CASE ~(n < recovery[h].end)
  <2>1. recovery' = [recovery EXCEPT ![h] = NoRecovery(recovery[h].cut)] /\ UNCHANGED chan
    BY <1>4 DEF RecSend
  <2>2. Resumes
    BY <2>1 DEF Resumes, TypeOK, NoRecovery
  <2> QED
    BY <1>2, <2>1, <2>2, QuietHistories DEF Histories
<1> QED
  BY <1>3, <1>4

\* The number an active host pushes is new to every host and to every message.
LEMMA PushHistories ==
  ASSUME TypeOK, TypeOK', NEW w \in Masters, Histories(w), NEW h \in Host, Push(h)
  PROVE  \E x \in Masters : Histories(x)'
<1> DEFINE n == nextRN[h]
<1>1. /\ IsActive(h) /\ n \in RN
      /\ nextRN' = [nextRN EXCEPT ![h] = n + 1]
      /\ pushed' = [pushed EXCEPT ![h] = @ \cup {n}]
      /\ UNCHANGED <<host, recovery, rec, unsent, chan>>
  <2>1. nextRN[h] \in 0..MaxRN /\ use.records \in 0..MaxRN /\ MaxRN \in Nat /\ nextRN[h] < use.records
    BY NumbersType DEF TypeOK, Push
  <2>2. n \in RN
    BY <2>1 DEF RN
  <2> QED
    BY <2>2 DEF Push, envVars, cxnVars
<1>2. PICK x \in Masters : x[n] = h /\ \A i \in RN : i # n => x[i] = w[i]
  <2> DEFINE x == [w EXCEPT ![n] = h]
  <2>1. x \in Masters /\ x[n] = h /\ \A i \in RN : i # n => x[i] = w[i]
    BY <1>1 DEF Masters
  <2> QED
    BY <2>1
<1>3. \A k \in Host : nextRN[k] <= n /\ nextRN[k] \in Nat
  BY <1>1, NextRNType DEF Histories, Leads
<1>4. n \in Nat /\ \A i \in RN : i \in Int
  BY <1>3 DEF RN
<1> HIDE DEF n
<1>5. \A m \in Msg : Fits(w, m) => Fits(x, m)
  <2> SUFFICES ASSUME NEW m \in Msg, Fits(w, m), m.type = "rep"
               PROVE  (m.rec.op = "add" => m.rec.by = x[m.rn]) /\ \E p \in Host : m.rn < nextRN[p]
    BY DEF Fits
  <2>1. PICK p \in Host : m.rn < nextRN[p]
    BY DEF Fits
  <2>2. m.rn \in RN /\ m.rn # n
    BY <1>3, <1>4, <2>1, RepTypes
  <2> QED
    BY <1>2, <2>1, <2>2 DEF Fits
<1>6. Queued(x, unsent) /\ Fitting(x, chan)
  <2>1. \A k \in Host : \A i \in 1..Len(unsent[k]) : unsent[k][i] \in Msg
    BY DEF TypeOK, Msg
  <2>2. \A c \in Cxn, k \in Host : \A i \in 1..Len(chan[c][k]) : chan[c][k][i] \in Msg
    <3>1. \A c \in Cxn, k \in Host : chan[c][k] \in Seq(Msg)
      BY DEF TypeOK
    <3> QED
      BY <3>1
  <2> QED
    BY <1>5, <2>1, <2>2 DEF Histories, Queued, Fitting
<1>7. Written(x)
  <2> SUFFICES ASSUME NEW k \in Host, NEW i \in RN, rec[k][i].op = "add"
               PROVE  i < nextRN[k] /\ rec[k][i].by = x[i]
    BY DEF Written
  <2>1. i < nextRN[k] /\ rec[k][i].by = w[i]
    BY DEF Histories, Written
  <2> QED
    BY <1>2, <1>3, <1>4, <2>1
<1>8. Pending(x)
  <2> SUFFICES ASSUME NEW k \in Host, NEW i \in pushed[k]
               PROVE  i < nextRN[k] /\ x[i] = k
    BY DEF Pending
  <2>1. i \in RN /\ i < nextRN[k] /\ w[i] = k
    BY DEF Histories, Pending, TypeOK
  <2> QED
    BY <1>2, <1>3, <1>4, <2>1
<1>9. Histories(x)
  BY <1>6, <1>7, <1>8 DEF Histories
<1>10. /\ nextRN'[h] = n + 1 /\ nextRN[h] = n
       /\ \A k \in Host \ {h} : nextRN'[k] = nextRN[k]
  BY <1>1 DEF TypeOK, n
<1>11. \A k \in Host : nextRN[k] <= nextRN'[k] /\ nextRN'[k] <= n + 1
  BY <1>3, <1>4, <1>10
<1>12. Leads'
  <2>1. \A k \in Host : IsActive(k)' => k = h
    BY <1>1 DEF Histories, Leads, IsActive, State
  <2> QED
    BY <1>10, <1>11, <2>1 DEF Leads
<1>13. Written(x)'
  <2> SUFFICES ASSUME NEW k \in Host, NEW i \in RN, rec[k][i].op = "add"
               PROVE  i < nextRN'[k] /\ rec[k][i].by = x[i]
    BY <1>1 DEF Written
  <2> QED
    BY <1>3, <1>4, <1>7, <1>10 DEF Written
<1>14. Pending(x)'
  <2> SUFFICES ASSUME NEW k \in Host, NEW i \in pushed'[k]
               PROVE  i < nextRN'[k] /\ x[i] = k
    BY DEF Pending
  <2>1. i \in pushed[k] \/ (k = h /\ i = n)
    BY <1>1 DEF TypeOK
  <2>2. CASE i \in pushed[k]
    <3>1. i \in RN /\ i < nextRN[k] /\ x[i] = k
      BY <1>8, <2>2 DEF Pending, TypeOK
    <3> QED
      BY <1>3, <1>4, <1>10, <3>1
  <2>3. CASE k = h /\ i = n
    BY <1>2, <1>4, <1>10, <2>3
  <2> QED
    BY <2>1, <2>2, <2>3
<1>15. Resumes /\ Queued(x, unsent') /\ Fitting(x, chan')
  BY <1>1, <1>6 DEF Resumes
<1>16. Histories(x)'
  BY <1>2, <1>9, <1>11, <1>12, <1>13, <1>14, <1>15, GrowHistories
<1> QED
  BY <1>2, <1>16

LEMMA PutHistories ==
  ASSUME TypeOK, TypeOK', NEW w \in Masters, Histories(w), NEW h \in Host, NEW n \in RN, Put(h, n)
  PROVE  Histories(w)'
<1>1. PICK r \in {[op |-> "add", by |-> h], Deleted} :
         rec' = [rec EXCEPT ![h][n] = r] /\ Write(h, RepMsg(n, r))
  BY PutIs
<1> DEFINE m == RepMsg(n, r)
<1>2. r \in Record /\ (r.op = "add" => r.by = h)
  BY DEF Record, Deleted
<1>3. m \in Rep /\ <<m>> \in Seq(Msg)
  BY <1>2, RepMsgType
<1>4. n < nextRN[h] /\ w[n] = h
  BY DEF Put, Histories, Pending
<1>5. Fits(w, m)
  BY <1>2, <1>4 DEF Fits, RepMsg
<1>6. /\ unsent' = Deferred(h, m) /\ chan' \in {chan, Sent(chan, nextCxn[h], h, <<m>>)}
      /\ pushed' = [pushed EXCEPT ![h] = @ \ {n}]
      /\ UNCHANGED <<host, recovery, nextRN>>
  BY <1>1 DEF Put, Write, envVars
<1> HIDE DEF m
<1>7. Queued(w, unsent')
  BY <1>3, <1>5, <1>6, DeferredFits DEF Histories
<1>8. Fitting(w, chan')
  <2>1. \A i \in 1..Len(<<m>>) : <<m>>[i] = m
    OBVIOUS
  <2>2. \A i \in 1..Len(<<m>>) : Fits(w, <<m>>[i])
    BY <1>5, <2>1
  <2>3. chan \in Channels /\ Fitting(w, chan)
    BY DEF Histories, TypeOK, Channels
  <2>4. Fitting(w, Sent(chan, nextCxn[h], h, <<m>>))
    BY <1>3, <2>2, <2>3, SentFits
  <2> QED
    BY <1>6, <2>3, <2>4
<1>9. Written(w)'
  <2> SUFFICES ASSUME NEW k \in Host, NEW i \in RN, rec'[k][i].op = "add"
               PROVE  i < nextRN[k] /\ rec'[k][i].by = w[i]
    BY <1>6 DEF Written
  <2>1. CASE k = h /\ i = n
    <3>1. rec'[k][i] = r
      BY <1>1, <2>1 DEF TypeOK
    <3> QED
      BY <1>2, <1>4, <2>1, <3>1
  <2>2. CASE k # h \/ i # n
    <3>1. rec'[k][i] = rec[k][i]
      BY <1>1, <2>2 DEF TypeOK
    <3> QED
      BY <3>1 DEF Histories, Written
  <2> QED
    BY <2>1, <2>2
<1>10. Pending(w)'
  <2>1. \A k \in Host : pushed'[k] \subseteq pushed[k]
    BY <1>6 DEF TypeOK
  <2> QED
    BY <1>6, <2>1 DEF Histories, Pending
<1>11. \A k \in Host : nextRN[k] <= nextRN'[k]
  BY <1>6, NextRNType
<1>12. Resumes /\ Leads'
  BY <1>6 DEF Histories, Resumes, Leads, IsActive, State
<1> QED
  BY <1>7, <1>8, <1>9, <1>10, <1>11, <1>12, GrowHistories

LEMMA ConnectHistories ==
  ASSUME TypeOK, TypeOK', NEW w \in Masters, Histories(w), NEW h \in Host, NEW p \in Host, NEW c \in Cxn,
         Connect(h, p, c)
  PROVE  Histories(w)'
<1>1. UNCHANGED <<host, recovery, nextRN, rec, pushed, unsent, chan>>
  BY DEF Connect, dbVars
<1>2. Resumes
  BY <1>1 DEF Resumes
<1> QED
  BY <1>1, <1>2, QuietHistories DEF Histories

LEMMA HeartbeatHistories ==
  ASSUME TypeOK, TypeOK', NEW w \in Masters, Histories(w), NEW h \in Host, NEW c \in Cxn, Heartbeat(c, h)
  PROVE  Histories(w)'
<1> DEFINE v == Refreshed(host[h], h)
<1>1. /\ host' = [host EXCEPT ![h] = v] /\ chan' = Sent(chan, c, h, <<Hb(h, v)>>)
      /\ UNCHANGED <<recovery, nextRN, rec, pushed, unsent>>
  BY DEF Heartbeat, envVars, dbVars
<1>2. v \in View /\ v[h].state = host[h][h].state
  BY KnownType, RefreshedType
<1> HIDE DEF v
<1>3. \A k \in Host : host'[k][k].state = host[k][k].state
  BY <1>1, <1>2 DEF TypeOK
<1>4. Fitting(w, chan')
  BY <1>1, <1>2, HbFits, SentFits DEF Histories, TypeOK, Channels
<1>5. Resumes
  BY <1>1 DEF Resumes
<1> QED
  BY <1>1, <1>3, <1>4, <1>5, QuietHistories

LEMMA ConnectedHistories ==
  ASSUME TypeOK, TypeOK', NEW w \in Masters, Histories(w), NEW h \in Host, NEW c \in Cxn, Connected(c, h)
  PROVE  Histories(w)'
<1>1. UNCHANGED <<host, recovery, nextRN, rec, pushed, unsent>>
  BY DEF Connected, dbVars
<1>2. Resumes /\ Fitting(w, chan)
  BY <1>1 DEF Resumes, Histories
<1>3. UNCHANGED chan \/ chan' = [chan EXCEPT ![c][h] = << >>]
  BY DEF Connected, Gone, cxnVars
<1>4. Fitting(w, chan')
  BY <1>2, <1>3, EmptyFits
<1> QED
  BY <1>1, <1>2, <1>4, QuietHistories

LEMMA OpenedHistories ==
  ASSUME TypeOK, TypeOK', NEW w \in Masters, Histories(w), NEW h \in Host, NEW c \in Cxn, Opened(c, h)
  PROVE  Histories(w)'
<1>1. UNCHANGED <<recovery, nextRN, rec, pushed, unsent>>
  BY DEF Opened, dbVars
<1>2. Resumes /\ Fitting(w, chan)
  BY <1>1 DEF Resumes, Histories
<1>3. PICK v \in View :
         /\ v = host[h] \/ \E p \in Host : v = Associated(host[h], c, p)
         /\ host' = [host EXCEPT ![h] = Refreshed(v, h)]
         /\ chan' = IF PeerGone(c, h) THEN chan
                    ELSE [chan EXCEPT ![c][Peer(c, h)] = Append(@, Hb(h, Refreshed(v, h)))]
  BY OpenedIs
<1> DEFINE m == Hb(h, Refreshed(v, h))
<1>4. Refreshed(v, h) \in View /\ Refreshed(v, h)[h].state = host[h][h].state
  <2>1. v[h].state = host[h][h].state
    BY <1>3, KnownType, AssociatedType
  <2> QED
    BY <2>1, RefreshedType
<1>5. m \in Msg /\ Fits(w, m)
  BY <1>4, HbType, HbFits
<1>6. \A k \in Host : host'[k][k].state = host[k][k].state
  BY <1>3, <1>4 DEF TypeOK
<1> HIDE DEF m
<1>7. \A d \in Cxn, k \in Host : chan'[d][k] \in {chan[d][k], Append(chan[d][k], m)}
  <2>1. chan' = chan \/ chan' = [chan EXCEPT ![c][Peer(c, h)] = Append(@, m)]
    BY <1>3 DEF m
  <2>2. \A d \in Cxn : chan[d] \in [Host -> Seq(Msg)]
    BY DEF TypeOK
  <2>3. chan \in [Cxn -> [Host -> Seq(Msg)]]
    BY DEF TypeOK
  <2> SUFFICES ASSUME NEW d \in Cxn, NEW k \in Host
               PROVE  chan'[d][k] \in {chan[d][k], Append(chan[d][k], m)}
    OBVIOUS
  <2>4. CASE chan' = chan
    BY <2>4
  <2>5. CASE chan' = [chan EXCEPT ![c][Peer(c, h)] = Append(@, m)]
    <3>1. CASE d = c /\ k = Peer(c, h)
      BY <2>2, <2>3, <2>5, <3>1
    <3>2. CASE ~(d = c /\ k = Peer(c, h))
      BY <2>2, <2>3, <2>5, <3>2
    <3> QED
      BY <3>1, <3>2
  <2> QED
    BY <2>1, <2>4, <2>5
<1>8. Fitting(w, chan')
  <2> SUFFICES ASSUME NEW d \in Cxn, NEW k \in Host, NEW i \in 1..Len(chan'[d][k])
               PROVE  Fits(w, chan'[d][k][i])
    BY DEF Fitting
  <2>1. chan[d][k] \in Seq(Msg)
    BY DEF TypeOK
  <2>2. CASE i \in 1..Len(chan[d][k])
    <3>1. \A s \in Seq(Msg) : i \in 1..Len(s) => Append(s, m)[i] = s[i]
      BY <1>5
    <3>2. chan'[d][k][i] = chan[d][k][i]
      BY <1>7, <2>1, <2>2, <3>1
    <3> QED
      BY <1>2, <2>2, <3>2 DEF Fitting
  <2>3. CASE i \notin 1..Len(chan[d][k])
    <3>1. chan'[d][k][i] = m
      BY <1>5, <1>7, <2>1, <2>3
    <3> QED
      BY <1>5, <3>1
  <2> QED
    BY <2>2, <2>3
<1> QED
  BY <1>1, <1>2, <1>6, <1>8, QuietHistories

LEMMA DisconnectedHistories ==
  ASSUME TypeOK, TypeOK', NEW w \in Masters, Histories(w), NEW h \in Host, NEW c \in Cxn, Disconnected(c, h)
  PROVE  Histories(w)'
<1>1. /\ chan' = [chan EXCEPT ![c][h] = << >>]
      /\ UNCHANGED <<host, recovery, nextRN, rec, pushed, unsent>>
  BY DEF Disconnected, Gone, dbVars
<1>2. Fitting(w, chan') /\ Resumes
  BY <1>1, EmptyFits DEF Histories, Resumes
<1> QED
  BY <1>1, <1>2, QuietHistories

LEMMA ClearCxnHistories ==
  ASSUME TypeOK, TypeOK', NEW w \in Masters, Histories(w), NEW h \in Host, ClearCxn(h)
  PROVE  Histories(w)'
<1>1. UNCHANGED <<recovery, nextRN, rec, pushed, unsent, chan>>
  BY DEF ClearCxn, dbVars, cxnVars
<1>2. \A k \in Host : host'[k][k].state = host[k][k].state
  BY ClearCxnIs
<1> QED
  BY <1>1, <1>2, QuietHistories DEF Resumes, Histories

\* The host that is lost is another.
LEMMA LoseHostHistories ==
  ASSUME TypeOK, TypeOK', Connections, NEW w \in Masters, Histories(w), NEW h \in Host, LoseHost(h)
  PROVE  Histories(w)'
<1>1. UNCHANGED <<nextRN, rec, pushed, unsent, chan>>
  BY DEF LoseHost, dbVars, cxnVars
<1>2. rx[h].host # h
  <2>1. "cleared" \in LosingStep
    BY DEF LosingStep, Losing
  <2> QED
    BY <2>1, LoseHostIs DEF Connections, Called
<1>3. /\ \A k \in Host \ {h} : host'[k] = host[k]
      /\ host'[h][h].state \in {host[h][h].state, "Electing"} /\ Resumes
  BY <1>2, LoseHostIs DEF State
<1>4. \A k \in Host : host'[k][k].state \in ActiveStates => host[k][k].state \in ActiveStates
  BY <1>3 DEF ActiveStates
<1> QED
  BY <1>1, <1>3, <1>4, QuietHistories DEF Histories

LEMMA HbRcvdHistories ==
  ASSUME TypeOK, TypeOK', NEW w \in Masters, Histories(w), NEW h \in Host, NEW c \in Cxn, HbRcvd(c, h)
  PROVE  Histories(w)'
<1>1. UNCHANGED <<recovery, nextRN, rec, pushed, unsent, chan>>
  BY DEF HbRcvd, envVars, dbVars
<1>2. PICK v \in View : host' = [host EXCEPT ![h] = v] /\ \A q \in Host : v[q].state = host[h][q].state
  BY HbRcvdIs
<1>3. \A k \in Host : host'[k][k].state = host[k][k].state
  BY <1>2 DEF TypeOK
<1> QED
  BY <1>1, <1>3, QuietHistories DEF Resumes, Histories

\* A heartbeat comes from the other end, so it says nothing of the host's own state.
LEMMA HbDataHistories ==
  ASSUME TypeOK, TypeOK', Connections, NEW w \in Masters, Histories(w), NEW h \in Host, NEW c \in Cxn,
         CxnHbDataRcvd(c, h)
  PROVE  Histories(w)'
<1>1. PICK p \in Host, v \in View :
           /\ chan[c][h] # << >> /\ end[c][h] \in Open /\ p = assoc[c][h] /\ assoc[c][h] # NoHost
           /\ \A q \in Host \ {p} : v[q].state = host[h][q].state
           /\ chan' = [chan EXCEPT ![c][h] = Tail(@)]
           /\ HbDataRcvd(h, v, p)
  BY HbDataIs
<1>2. p # h
  <2>1. end[c][h] # "none"
    BY <1>1 DEF Open
  <2> QED
    BY <1>1, <2>1, PeerIs DEF Connections, Associates
<1>3. /\ \A k \in Host \ {h} : host'[k] = host[k]
      /\ host'[h][h].state = v[h].state /\ Resumes
  BY <1>1, HbDataRcvdIs
<1>4. \A k \in Host : host'[k][k].state = host[k][k].state
  BY <1>1, <1>2, <1>3
<1>5. Fitting(w, chan')
  BY <1>1, TailFits DEF Histories
<1>6. UNCHANGED <<nextRN, rec, pushed, unsent>>
  BY DEF CxnHbDataRcvd, dbVars
<1> QED
  BY <1>3, <1>4, <1>5, <1>6, QuietHistories

\* What repDataRcvd() writes, if it does not drop the record.
LEMMA RepDataHistories ==
  ASSUME TypeOK, TypeOK', NEW w \in Masters, Histories(w), NEW h \in Host, NEW m \in Rep, Fits(w, m),
         nextRN' = [nextRN EXCEPT ![h] = Max({@, m.rn + 1})],
         rec' = [rec EXCEPT ![h][m.rn] = m.rec], unsent' = Deferred(h, m),
         \A k \in Host : host'[k][k].state = host[k][k].state,
         UNCHANGED <<recovery, pushed>>, Fitting(w, chan')
  PROVE  Histories(w)'
<1>1. m.type = "rep" /\ m.rn \in RN /\ m.rn \in Nat /\ m.rec \in Record
  BY DEF Rep, RN
<1>2. PICK q \in Host : m.rn < nextRN[q]
  BY <1>1 DEF Fits
<1>3. \A k \in Host : nextRN[k] \in Nat
  BY NextRNType
<1> DEFINE r == Max({nextRN[h], m.rn + 1})
<1>4. r \in Nat /\ r \in {nextRN[h], m.rn + 1} /\ r >= nextRN[h] /\ r >= m.rn + 1
  <2>1. nextRN[h] \in Nat /\ m.rn + 1 \in Nat
    BY <1>1, <1>3
  <2>2. PICK a \in Nat, b \in Nat : a = nextRN[h] /\ b = m.rn + 1
    BY <2>1
  <2>3. Max({a, b}) \in {a, b} /\ Max({a, b}) >= a /\ Max({a, b}) >= b
    BY MaxIs
  <2> QED
    BY <2>1, <2>2, <2>3
<1>5. nextRN'[h] = r /\ \A k \in Host \ {h} : nextRN'[k] = nextRN[k]
  BY DEF TypeOK
<1> HIDE DEF r
<1>6. \A k \in Host : nextRN[k] <= nextRN'[k] /\ nextRN'[k] \in Nat
  <2> SUFFICES ASSUME NEW k \in Host
               PROVE  nextRN[k] <= nextRN'[k] /\ nextRN'[k] \in Nat
    OBVIOUS
  <2>1. CASE k = h
    BY <1>3, <1>4, <1>5, <2>1
  <2>2. CASE k # h
    BY <1>3, <1>5, <2>2
  <2> QED
    BY <2>1, <2>2
<1>7. Leads'
  <2> SUFFICES ASSUME NEW k \in Host, NEW p \in Host, IsActive(k)'
               PROVE  nextRN'[p] <= nextRN'[k] /\ (IsActive(p)' => p = k)
    BY DEF Leads
  <2>1. IsActive(k) /\ (IsActive(p)' => IsActive(p))
    BY DEF IsActive, State
  <2>2. \A x \in Host : nextRN[x] <= nextRN[k] /\ (IsActive(x) => x = k)
    BY <2>1 DEF Histories, Leads
  <2>3. nextRN[p] <= nextRN[k] /\ nextRN[h] <= nextRN[k] /\ m.rn + 1 <= nextRN[k]
    BY <1>1, <1>2, <1>3, <2>2
  <2>4. nextRN'[p] <= nextRN[k]
    BY <1>3, <1>4, <1>5, <2>3
  <2>5. nextRN[k] \in Nat /\ nextRN'[k] \in Nat /\ nextRN'[p] \in Nat /\ nextRN[k] <= nextRN'[k]
    BY <1>3, <1>6
  <2> QED
    BY <2>1, <2>2, <2>4, <2>5
<1>8. Written(w)'
  <2> SUFFICES ASSUME NEW k \in Host, NEW i \in RN, rec'[k][i].op = "add"
               PROVE  i < nextRN'[k] /\ rec'[k][i].by = w[i]
    BY DEF Written
  <2>1. CASE k = h /\ i = m.rn
    <3>1. rec'[k][i] = m.rec
      BY <2>1 DEF TypeOK
    <3>2. i < nextRN'[k]
      BY <1>1, <1>3, <1>4, <1>5, <2>1
    <3> QED
      BY <1>1, <2>1, <3>1, <3>2 DEF Fits
  <2>2. CASE k # h \/ i # m.rn
    <3>1. rec'[k][i] = rec[k][i]
      BY <1>1, <2>2 DEF TypeOK
    <3>2. i < nextRN[k] /\ rec[k][i].by = w[i]
      BY <3>1 DEF Histories, Written
    <3>3. i < nextRN'[k]
      <4>1. nextRN[k] \in Nat /\ nextRN'[k] \in Nat /\ nextRN[k] <= nextRN'[k]
        BY <1>3, <1>6
      <4>2. i \in Nat
        BY BoundAssumption DEF RN
      <4> QED
        BY <3>2, <4>1, <4>2
    <3> QED
      BY <3>1, <3>2, <3>3
  <2> QED
    BY <2>1, <2>2
<1>9. Pending(w)'
  <2> SUFFICES ASSUME NEW k \in Host, NEW i \in pushed[k]
               PROVE  i < nextRN'[k] /\ w[i] = k
    BY DEF Pending
  <2>1. i \in RN /\ i < nextRN[k] /\ w[i] = k
    BY DEF Histories, Pending, TypeOK
  <2>2. nextRN[k] \in Nat /\ nextRN'[k] \in Nat /\ nextRN[k] <= nextRN'[k]
    BY <1>3, <1>6
  <2>3. i \in Nat
    BY <2>1, BoundAssumption DEF RN
  <2> QED
    BY <2>1, <2>2, <2>3
<1>10. Queued(w, unsent')
  BY DeferredFits DEF Histories
<1>11. Resumes
  BY DEF Resumes
<1> QED
  BY <1>6, <1>7, <1>8, <1>9, <1>10, <1>11, GrowHistories

LEMMA RepRcvdHistories ==
  ASSUME TypeOK, TypeOK', NEW w \in Masters, Histories(w), NEW h \in Host, NEW c \in Cxn, RepRcvd(c, h)
  PROVE  Histories(w)'
<1>1. UNCHANGED <<recovery, pushed>> /\ chan[c][h] # << >>
  BY DEF RepRcvd
<1>2. Resumes /\ Fitting(w, chan)
  BY <1>1 DEF Resumes, Histories
<1>3. CASE /\ chan' = [chan EXCEPT ![c][h] = << >>]
           /\ UNCHANGED <<host, nextRN, rec, unsent>>
  <2>1. Fitting(w, chan')
    BY <1>2, <1>3, EmptyFits
  <2> QED
    BY <1>1, <1>2, <1>3, <2>1, QuietHistories
<1>4. CASE /\ Head(chan[c][h]) \in Rep
           /\ \E p \in Host : RepDataRcvd(c, h, p, Head(chan[c][h]))
  <2>1. PICK m \in Rep, p \in Host : m = Head(chan[c][h]) /\ RepDataRcvd(c, h, p, m)
    BY <1>4
  <2> DEFINE rest == [chan EXCEPT ![c][h] = Tail(@)]
  <2>2. Tail(chan[c][h]) \in Seq(Msg) /\ rest \in Channels /\ Fitting(w, rest) /\ Fits(w, m)
    BY <1>1, <1>2, <2>1, HeadType, TailFits
  <2>3. /\ \A k, q \in Host : host'[k][q].state = host[k][q].state
        /\ chan' = rest \/ \E copies \in Seq({m}) : chan' = Sent(rest, nextCxn[h], h, copies)
    BY <2>1, <2>2, RepDataRcvdIs
  <2> HIDE DEF rest
  <2>4. Fitting(w, chan')
    <3>1. CASE \E copies \in Seq({m}) : chan' = Sent(rest, nextCxn[h], h, copies)
      <4>1. PICK copies \in Seq({m}) : chan' = Sent(rest, nextCxn[h], h, copies)
        BY <3>1
      <4>2. \A i \in 1..Len(copies) : copies[i] = m
        BY <4>1
      <4>3. copies \in Seq(Msg)
        <5>1. copies \in [1..Len(copies) -> Msg] /\ Len(copies) \in Nat
          BY <4>2 DEF Msg
        <5> QED
          BY <5>1, SeqDef
      <4>4. \A i \in 1..Len(copies) : Fits(w, copies[i])
        BY <2>2, <4>2
      <4> QED
        BY <2>2, <4>1, <4>3, <4>4, SentFits
    <3> QED
      BY <2>2, <2>3, <3>1
  <2>5. CASE UNCHANGED <<nextRN, rec, unsent>>
    BY <1>1, <1>2, <2>3, <2>4, <2>5, QuietHistories
  <2>6. CASE /\ nextRN' = [nextRN EXCEPT ![h] = Max({@, m.rn + 1})]
             /\ rec' = [rec EXCEPT ![h][m.rn] = m.rec]
             /\ unsent' = Deferred(h, m)
    BY <1>1, <2>2, <2>3, <2>4, <2>6, RepDataHistories
  <2>7. \/ UNCHANGED <<nextRN, rec, unsent>>
        \/ /\ nextRN' = [nextRN EXCEPT ![h] = Max({@, m.rn + 1})]
           /\ rec' = [rec EXCEPT ![h][m.rn] = m.rec]
           /\ unsent' = Deferred(h, m)
    BY <2>1 DEF RepDataRcvd
  <2> QED
    BY <2>5, <2>6, <2>7
<1> QED
  BY <1>3, <1>4, RepRcvdIs

LEMMA InitHistories == Init => OneMaster
<1> SUFFICES ASSUME Init
             PROVE  OneMaster
  OBVIOUS
<1>1. PICK w \in Masters : w = [n \in RN |-> NoHost]
  BY DEF Masters
<1>2. TypeOK
  BY InitType
<1>3. Leads
  BY DEF Init, Leads, IsActive, State, ActiveStates
<1>4. Recovers
  <2>1. \A h \in Host : recovery[h].end = 0 /\ nextRN[h] \in Nat
    BY <1>2, NextRNType DEF Init, NoRecovery
  <2> QED
    BY <2>1 DEF Recovers
<1>5. Written(w)
  <2>1. \A h \in Host, n \in RN :
          rec[h][n] = IF n < nextRN[h] THEN [op |-> "add", by |-> NoHost] ELSE Missing
    BY DEF Init
  <2> QED
    BY <1>1, <2>1 DEF Written, Missing
<1>6. Pending(w) /\ Queued(w, unsent) /\ Fitting(w, chan)
  BY DEF Init, Pending, Queued, Fitting
<1> QED
  BY <1>3, <1>4, <1>5, <1>6 DEF OneMaster, Histories

LEMMA StepHistories ==
  ASSUME TypeOK, TypeOK', Connections, OneMaster, [Next]_vars
  PROVE  OneMaster'
<1> SUFFICES ASSUME splits' = 0
             PROVE  \E x \in Masters : Histories(x)'
  BY DEF OneMaster
<1>1. CASE UNCHANGED vars
  <2>1. UNCHANGED <<host, recovery, nextRN, rec, pushed, unsent, chan, splits>>
    BY <1>1 DEF vars, envVars, dbVars, cxnVars, boundVars
  <2>2. PICK w \in Masters : Histories(w)
    BY <2>1 DEF OneMaster
  <2>3. Histories(w)'
    BY <2>1, <2>2, QuietHistories DEF Resumes, Histories
  <2> QED
    BY <2>3
<1>2. ASSUME Next
      PROVE  \E x \in Masters : Histories(x)'
  <2>1. splits = 0
    <3>1. splits' = splits \/ splits' = splits + 1
      <4>1. ASSUME NEW h \in Host, Start(h) \/ Stop(h) \/ Push(h) PROVE splits' = splits
        BY <4>1 DEF Start, Stop, Push, boundVars
      <4>2. ASSUME NEW h \in Host, HostStep(h) PROVE splits' = splits \/ splits' = splits + 1
        <5>1. CASE HoldElection(h)
          BY <5>1 DEF HoldElection
        <5>2. CASE FinishElection(h) \/ Deactivate(h)
          BY <5>2 DEF FinishElection, Deactivate, boundVars
        <5>4. CASE CountDisconnected(h) \/ ClearCxn(h) \/ LoseHost(h) \/ Reelect(h) \/ Redial(h)
          BY <5>4 DEF CountDisconnected, ClearCxn, LoseHost, Reelect, Redial, boundVars
        <5>3. CASE StopDisconnect(h) \/ StopFinish(h) \/ WriteThread(h) \/ RecSend(h)
          BY <5>3 DEF StopDisconnect, StopFinish, WriteThread, RecSend, boundVars
        <5> QED
          BY <4>2, <5>1, <5>2, <5>3, <5>4 DEF HostStep
      <4>3. ASSUME NEW h \in Host, NEW n \in RN, Put(h, n) PROVE splits' = splits
        BY <4>3 DEF Put, boundVars
      <4>4. ASSUME NEW c \in Cxn, NEW h \in Host, CxnStep(c, h) \/ Heartbeat(c, h) \/ Disconnected(c, h)
            PROVE  splits' = splits
        BY <4>4 DEF CxnStep, Connected, Opened, HbRcvd, CxnHbDataRcvd, RepRcvd, Heartbeat, Disconnected, boundVars
      <4>5. ASSUME NEW c \in Cxn, NEW h \in Host, NEW p \in Host, Connect(h, p, c) PROVE splits' = splits
        BY <4>5 DEF Connect, boundVars
      <4> QED
        BY <1>2, <4>1, <4>2, <4>3, <4>4, <4>5 DEF Next
    <3>2. splits \in Nat
      BY NumbersType DEF TypeOK
    <3> QED
      BY <3>1, <3>2
  <2>2. PICK w \in Masters : Histories(w)
    BY <2>1 DEF OneMaster
  <2>3. ASSUME NEW h \in Host, Start(h) \/ Stop(h) \/ HostStep(h) \/ Push(h)
        PROVE  \E x \in Masters : Histories(x)'
    <3>1. CASE Push(h)
      BY <2>2, <3>1, PushHistories
    <3>2. CASE Start(h) \/ Stop(h) \/ HostStep(h)
      <4>1. Histories(w)'
        BY <2>1, <2>2, <3>2, StartHistories, StopHistories, HoldElectionHistories, FinishElectionHistories,
           DeactivateHistories, StoppingHistories, ClearCxnHistories, LoseHostHistories, WriteThreadHistories, RecSendHistories DEF HostStep
      <4> QED
        BY <4>1
    <3> QED
      BY <2>3, <3>1, <3>2
  <2>4. ASSUME NEW h \in Host, NEW n \in RN, Put(h, n)
        PROVE  \E x \in Masters : Histories(x)'
    BY <2>2, <2>4, PutHistories
  <2>5. ASSUME NEW c \in Cxn, NEW h \in Host, CxnStep(c, h) \/ Heartbeat(c, h) \/ Disconnected(c, h)
        PROVE  \E x \in Masters : Histories(x)'
    BY <2>2, <2>5, ConnectedHistories, OpenedHistories, HbRcvdHistories, HbDataHistories,
       RepRcvdHistories, HeartbeatHistories,
       DisconnectedHistories DEF CxnStep
  <2>6. ASSUME NEW c \in Cxn, NEW h \in Host, NEW p \in Host, Connect(h, p, c)
        PROVE  \E x \in Masters : Histories(x)'
    BY <2>2, <2>6, ConnectHistories
  <2> QED
    BY <1>2, <2>3, <2>4, <2>5, <2>6 DEF Next
<1> QED
  BY <1>1, <1>2

LEMMA MasterIsOne ==
  ASSUME TypeOK, OneMaster
  PROVE  OneHistory
<1> SUFFICES ASSUME splits = 0, NEW h \in Host, NEW p \in Host, NEW n \in RN,
                    rec[h][n].op = "add", rec[p][n].op = "add"
             PROVE  rec[h][n] = rec[p][n]
  BY DEF OneHistory
<1>1. PICK w \in Masters : Histories(w)
  BY DEF OneMaster
<1>2. rec[h][n].by = rec[p][n].by
  BY <1>1 DEF Histories, Written
<1>3. rec[h][n] \in Record /\ rec[p][n] \in Record
  BY DEF TypeOK
<1> QED
  BY <1>2, <1>3 DEF Record

\* No two hosts hold records of different masters under one record number, for any number of
\* hosts, connections and records, whatever breaks, stops or starts again, as long as no
\* election is won by a host that is not entitled to (push(), put(), repDataRcvd(), recSend(),
\* holdElection()).
THEOREM HistoriesAgree == Spec => []OneHistory
<1>1. Connections /\ TypeOK /\ TypeOK' /\ [Next]_vars => Connections'
  BY StepConnections
<1>2. OneMaster /\ Connections /\ TypeOK /\ TypeOK' /\ [Next]_vars => OneMaster'
  BY StepHistories
<1>3. TypeOK /\ OneMaster => OneHistory
  BY MasterIsOne
<1> QED
  BY <1>1, <1>2, <1>3, ClusterTypeCorrect, InitConnections, InitHistories, PTL DEF Spec

-----------------------------------------------------------------------------
(* The inductive invariant about who is master                             *)
(*                                                                         *)
(* It is about hosts that are never stopped, and that are elected as they  *)
(* are entitled to or hold no records (Calm).  Two hosts then know each    *)
(* other's records exactly until one is active, so that one of them is     *)
(* before the other for both, and an active host gives way only to another *)
(* that stays active.                                                      *)

\* The messages that are on their way.
OnWay(ch) == {m \in Msg : \E c \in Cxn, h \in Host : \E i \in 1..Len(ch[c][h]) : m = ch[c][h][i]}

\* Nobody has more than one peer.
Pair == Host # {} /\ \A h, p, q \in Host : h # p /\ h # q => p = q

Blank == \A h \in Host : nextRN[h] = 0
Idle == \A h \in Host : ~IsActive(h)
Calm == stops = 0 /\ (splits = 0 \/ Blank)

\* p comes before h, neither of them active.
Precedes(p, h) ==
  \/ nextRN[p] > nextRN[h]
  \/ /\ nextRN[p] = nextRN[h]
     /\ Priority[p] > Priority[h] \/ (Priority[p] = Priority[h] /\ p < h)

\* An active host is above h, or is p.
Beaten(h) == splits # 0 /\ \E q \in Host : IsActive(q) /\ Priority[q] > Priority[h]
Seated(p) == IsActive(p) \/ Beaten(p)

Claim(m) == m.type = "hb" /\ m.state \in ActiveStates => Seated(m.from)
Exact(m) == m.type = "hb" /\ m.rn = nextRN[m.from]

\* Whoever is known to be active is, or is above no more, as is whoever is to deactivate.
Claims ==
  /\ \A m \in OnWay(chan) : Claim(m)
  /\ \A h, p \in Host : h # p /\ host[h][p].state \in ActiveStates => Seated(p)
  /\ \A h \in Host : deact[h] => Beaten(h)

\* Nothing is replicated, and all that is known of records is exact.
Still ==
  /\ \A m \in OnWay(chan) : Exact(m)
  /\ \A h \in Host : unsent[h] = << >> /\ pushed[h] = {} /\ recovery[h].rn >= recovery[h].end
  /\ \A h, p \in Host : p = h \/ host[h][p].voted => host[h][p].rn = nextRN[p]

\* Nobody is active yet: a host that lost an election lost it to one that precedes it.
Lost == \A h \in Host :
  /\ next[h] = NoHost
  /\ State(h) \in {"Deactivating", "Inactive"} => Precedes(master[h], h)

Settled == Claims /\ (Blank \/ Idle => Still) /\ (Idle => Lost)
CalmInv == Calm => Settled

\* A host takes itself for the master while it is active, and another while it is not.
Seats ==
  /\ stops = 0 => \A h \in Host : stopStep[h] = "none"
  /\ \A h \in Host :
       /\ State(h) \in Running => host[h][h].voted
       /\ State(h) \in ActiveStates => master[h] = h
       /\ State(h) \in {"Deactivating", "Inactive"} => master[h] \in Host \ {h}

-----------------------------------------------------------------------------
(* Messages on their way                                                   *)

LEMMA OnWayIs ==
  ASSUME NEW ch \in Channels
  PROVE  /\ \A c \in Cxn, h \in Host : \A i \in 1..Len(ch[c][h]) : ch[c][h][i] \in OnWay(ch)
         /\ \A m \in OnWay(ch) : \E c \in Cxn, h \in Host : \E i \in 1..Len(ch[c][h]) : m = ch[c][h][i]
<1>1. \A c \in Cxn, h \in Host : ch[c][h] \in Seq(Msg)
  BY DEF Channels
<1> QED
  BY <1>1 DEF OnWay

LEMMA SentOnWay ==
  ASSUME NEW ch \in Channels, NEW c, NEW h, NEW msgs \in Seq(Msg), NEW m \in OnWay(Sent(ch, c, h, msgs))
  PROVE  m \in OnWay(ch) \/ \E i \in 1..Len(msgs) : m = msgs[i]
<1> DEFINE s == [ch EXCEPT ![c][Peer(c, h)] = @ \o msgs]
<1>1. Sent(ch, c, h, msgs) = ch \/ Sent(ch, c, h, msgs) = s
  BY DEF Sent
<1>2. CASE Sent(ch, c, h, msgs) = s
  <2> HIDE DEF s
  <2>0. m \in OnWay(s) /\ s \in Channels
    BY <1>2, SentType
  <2>1. PICK d \in Cxn, k \in Host : \E i \in 1..Len(s[d][k]) : m = s[d][k][i]
    BY <2>0, OnWayIs
  <2>2. PICK i \in 1..Len(s[d][k]) : m = s[d][k][i]
    BY <2>1
  <2>3. ch[d][k] \in Seq(Msg) /\ s[d][k] \in {ch[d][k], ch[d][k] \o msgs}
    BY DEF Channels, s
  <2>4. CASE i \in 1..Len(ch[d][k])
    <3>1. s[d][k][i] = ch[d][k][i]
      BY <2>3, <2>4
    <3> QED
      BY <2>2, <2>4, <3>1, OnWayIs
  <2>5. CASE i \notin 1..Len(ch[d][k])
    <3>1. s[d][k][i] = msgs[i - Len(ch[d][k])] /\ i - Len(ch[d][k]) \in 1..Len(msgs)
      BY <2>3, <2>5
    <3> QED
      BY <2>2, <3>1
  <2> QED
    BY <2>4, <2>5
<1> QED
  BY <1>1, <1>2

LEMMA TailOnWay ==
  ASSUME TypeOK, NEW h \in Host, NEW c \in Cxn, chan[c][h] # << >>
  PROVE  /\ \A m \in OnWay([chan EXCEPT ![c][h] = Tail(@)]) : m \in OnWay(chan)
         /\ Head(chan[c][h]) \in OnWay(chan)
<1> DEFINE rest == [chan EXCEPT ![c][h] = Tail(@)]
<1>1. \A d \in Cxn, k \in Host : rest[d][k] = IF d = c /\ k = h THEN Tail(chan[c][h]) ELSE chan[d][k]
  BY DEF TypeOK
<1>2. chan[c][h] \in Seq(Msg) /\ chan \in Channels /\ rest \in Channels
  BY HeadType DEF TypeOK, Channels
<1> HIDE DEF rest
<1>3. Head(chan[c][h]) \in OnWay(chan)
  <2>1. Head(chan[c][h]) = chan[c][h][1] /\ 1 \in 1..Len(chan[c][h])
    BY <1>2
  <2> QED
    BY <1>2, <2>1, OnWayIs
<1>4. ASSUME NEW m \in OnWay(rest)
      PROVE  m \in OnWay(chan)
  <2>1. PICK d \in Cxn, k \in Host : \E i \in 1..Len(rest[d][k]) : m = rest[d][k][i]
    BY <1>2, OnWayIs
  <2>2. PICK i \in 1..Len(rest[d][k]) : m = rest[d][k][i]
    BY <2>1
  <2>3. CASE d = c /\ k = h
    <3>1. i \in 1..Len(Tail(chan[c][h])) /\ m = Tail(chan[c][h])[i]
      BY <1>1, <2>2, <2>3
    <3>2. i + 1 \in 1..Len(chan[c][h]) /\ m = chan[c][h][i + 1]
      BY <1>2, <3>1, HeadTailProperties
    <3> QED
      BY <1>2, <3>2, OnWayIs
  <2>4. CASE ~(d = c /\ k = h)
    <3>1. rest[d][k] = chan[d][k]
      BY <1>1, <2>4
    <3> QED
      BY <1>2, <2>2, <3>1, OnWayIs
  <2> QED
    BY <2>3, <2>4
<1> QED
  BY <1>3, <1>4 DEF rest

LEMMA EmptyOnWay ==
  ASSUME TypeOK, NEW h \in Host, NEW c \in Cxn
  PROVE  \A m \in OnWay([chan EXCEPT ![c][h] = << >>]) : m \in OnWay(chan)
<1> DEFINE rest == [chan EXCEPT ![c][h] = << >>]
<1>1. \A d \in Cxn, k \in Host : rest[d][k] = IF d = c /\ k = h THEN << >> ELSE chan[d][k]
  BY DEF TypeOK
<1>2. chan \in Channels /\ rest \in Channels
  BY DEF TypeOK, Channels
<1> HIDE DEF rest
<1>3. ASSUME NEW m \in OnWay(rest)
      PROVE  m \in OnWay(chan)
  <2>1. PICK d \in Cxn, k \in Host : \E i \in 1..Len(rest[d][k]) : m = rest[d][k][i]
    BY <1>2, OnWayIs
  <2>2. PICK i \in 1..Len(rest[d][k]) : m = rest[d][k][i]
    BY <2>1
  <2>3. ~(d = c /\ k = h)
    BY <1>1, <2>2
  <2>4. rest[d][k] = chan[d][k]
    BY <1>1, <2>3
  <2> QED
    BY <1>2, <2>2, <2>4, OnWayIs
<1> QED
  BY <1>3 DEF rest

LEMMA OneOnWay ==
  ASSUME NEW ch \in Channels, NEW c, NEW h, NEW x \in Msg, NEW m \in OnWay(Sent(ch, c, h, <<x>>))
  PROVE  m \in OnWay(ch) \/ m = x
<1> DEFINE one == <<x>>
<1>1. one \in Seq(Msg) /\ \A i \in 1..Len(one) : one[i] = x
  OBVIOUS
<1>2. m \in OnWay(Sent(ch, c, h, one))
  OBVIOUS
<1> HIDE DEF one
<1> QED
  BY <1>1, <1>2, SentOnWay

LEMMA AnnouncedOnWay ==
  ASSUME TypeOK, NEW h \in Host, NEW v \in View, NEW m \in OnWay(Announced(h, v))
  PROVE  m \in OnWay(chan) \/ m = Hb(h, v)
<1> DEFINE x == Hb(h, v)
           a == Announced(h, v)
<1>1. chan \in Channels /\ x \in Msg
  BY HbType DEF TypeOK, Channels
<1>2. \A c \in Cxn : a[c] = Sent(chan, c, h, <<x>>)[c] /\ Sent(chan, c, h, <<x>>) \in Channels
  <2> SUFFICES ASSUME NEW c \in Cxn
               PROVE  a[c] = Sent(chan, c, h, <<x>>)[c] /\ Sent(chan, c, h, <<x>>) \in Channels
    OBVIOUS
  <2>1. <<x>> \in Seq(Msg)
    BY <1>1
  <2>2. Sent(chan, c, h, <<x>>) \in Channels
    BY <1>1, <2>1, SentType
  <2> QED
    BY <2>2 DEF Announced
<1>3. a \in Channels
  <2>1. a = [c \in Cxn |-> a[c]]
    BY DEF Announced
  <2>2. \A c \in Cxn : a[c] \in [Host -> Seq(Msg)]
    BY <1>2 DEF Channels
  <2> HIDE DEF a
  <2> QED
    BY <2>1, <2>2 DEF Channels
<1>4. m \in OnWay(a)
  OBVIOUS
<1> HIDE DEF x, a
<1>5. PICK c \in Cxn, k \in Host : \E i \in 1..Len(a[c][k]) : m = a[c][k][i]
  BY <1>3, <1>4, OnWayIs
<1>6. PICK s \in Channels : s = Sent(chan, c, h, <<x>>) /\ a[c] = s[c]
  BY <1>2
<1>7. m \in OnWay(s)
  BY <1>5, <1>6, OnWayIs
<1>8. m \in OnWay(chan) \/ m = x
  BY <1>1, <1>6, <1>7, OneOnWay
<1> QED
  BY <1>8 DEF x

-----------------------------------------------------------------------------
(* What a step leaves of a host's view of the hosts                        *)

\* h knows no more of the others than it did, and of itself no less; no other view changes.
Sees(h) ==
  /\ \A k \in Host \ {h} : host'[k] = host[k]
  /\ \A q \in Host \ {h} : /\ host'[h][q].rn = host[h][q].rn
                           /\ host'[h][q].state \in {host[h][q].state, "Instantiated"}
                           /\ host'[h][q].voted => host[h][q].voted
  /\ host'[h][h].rn \in {host[h][h].rn, nextRN[h]}
  /\ host[h][h].voted => host'[h][h].voted

\* The same, and whoever had voted has.
Looks(h) ==
  /\ Sees(h)
  /\ \A q \in Host \ {h} : host[h][q].voted => host'[h][q].voted

LEMMA SetStateIs ==
  ASSUME NEW v \in View, NEW h \in Host, NEW s \in HostState, NEW x, x = [v EXCEPT ![h].state = s]
  PROVE  /\ x \in View /\ \A q \in Host \ {h} : x[q] = v[q]
         /\ x[h].state = s /\ x[h].rn = v[h].rn /\ x[h].voted = v[h].voted /\ x[h].cxn = v[h].cxn
  BY DEF View, Known

LEMMA RefreshedIs ==
  ASSUME TypeOK, NEW h \in Host, NEW v \in View
  PROVE  /\ \A q \in Host \ {h} : Refreshed(v, h)[q] = v[q]
         /\ Refreshed(v, h)[h].rn = nextRN[h]
  BY DEF View, Known, Refreshed

LEMMA UnvotedIs ==
  ASSUME NEW v \in View, NEW h \in Host
  PROVE  \A q \in Host : /\ Unvoted(v, h)[q].state = v[q].state /\ Unvoted(v, h)[q].rn = v[q].rn
                         /\ Unvoted(v, h)[q].voted = (q = h)
  BY DEF View, Known, Unvoted

LEMMA SetHostIs ==
  ASSUME TypeOK, NEW h \in Host, NEW v, host' = [host EXCEPT ![h] = v]
  PROVE  host'[h] = v /\ \A k \in Host \ {h} : host'[k] = host[k]
  BY DEF TypeOK

LEMMA SameLooks ==
  ASSUME UNCHANGED host, NEW h \in Host
  PROVE  Looks(h)
  BY DEF Looks, Sees

LEMMA StartSees ==
  ASSUME TypeOK, NEW h \in Host, Start(h)
  PROVE  Sees(h) /\ host'[h][h].state = "Electing" /\ host'[h][h].voted
<1> DEFINE u == Unvoted(host[h], h)
           v == [u EXCEPT ![h].state = "Electing"]
           x == IF Cardinality(Host) > 1 THEN Refreshed(v, h) ELSE v
<1>1. host' = [host EXCEPT ![h] = x]
  BY DEF Start
<1>2. /\ u \in View
      /\ \A q \in Host : u[q].state = host[h][q].state /\ u[q].rn = host[h][q].rn /\ u[q].voted = (q = h)
  BY KnownType, UnvotedType, UnvotedIs
<1> HIDE DEF u
<1>3. /\ v \in View /\ \A q \in Host \ {h} : v[q] = u[q]
      /\ v[h].state = "Electing" /\ v[h].rn = u[h].rn /\ v[h].voted = u[h].voted
  BY <1>2, SetStateIs DEF HostState
<1> HIDE DEF v
<1>4. /\ \A q \in Host \ {h} : x[q] = u[q]
      /\ x[h].state = "Electing" /\ x[h].rn \in {u[h].rn, nextRN[h]} /\ x[h].voted = u[h].voted
  BY <1>3, RefreshedIs, RefreshedType
<1> HIDE DEF x
<1>5. host'[h] = x /\ \A k \in Host \ {h} : host'[k] = host[k]
  BY <1>1, SetHostIs
<1> QED
  BY <1>2, <1>4, <1>5 DEF Sees

LEMMA StopSees ==
  ASSUME TypeOK, NEW h \in Host, Stop(h)
  PROVE  Sees(h) /\ host'[h][h].state = "Stopping" /\ host'[h][h].voted
<1> DEFINE u == Unvoted(host[h], h)
           x == [u EXCEPT ![h].state = "Stopping"]
<1>1. host' = [host EXCEPT ![h] = x]
  BY DEF Stop
<1>2. /\ u \in View
      /\ \A q \in Host : u[q].state = host[h][q].state /\ u[q].rn = host[h][q].rn /\ u[q].voted = (q = h)
  BY KnownType, UnvotedType, UnvotedIs
<1> HIDE DEF u
<1>3. /\ x \in View /\ \A q \in Host \ {h} : x[q] = u[q]
      /\ x[h].state = "Stopping" /\ x[h].rn = u[h].rn /\ x[h].voted = u[h].voted
  BY <1>2, SetStateIs DEF HostState
<1> HIDE DEF x
<1>4. host'[h] = x /\ \A k \in Host \ {h} : host'[k] = host[k]
  BY <1>1, SetHostIs
<1> QED
  BY <1>2, <1>3, <1>4 DEF Sees

LEMMA StateLooks ==
  ASSUME TypeOK, NEW h \in Host, NEW s \in HostState, host' = [host EXCEPT ![h][h].state = s]
  PROVE  Looks(h) /\ host'[h][h].state = s /\ host'[h][h].rn = host[h][h].rn
<1> DEFINE x == [host[h] EXCEPT ![h].state = s]
<1>1. host' = [host EXCEPT ![h] = x]
  OBVIOUS
<1>2. /\ \A q \in Host \ {h} : x[q] = host[h][q]
      /\ x[h].state = s /\ x[h].rn = host[h][h].rn /\ x[h].voted = host[h][h].voted
  BY KnownType DEF View, Known
<1> HIDE DEF x
<1>3. host'[h] = x /\ \A k \in Host \ {h} : host'[k] = host[k]
  BY <1>1, SetHostIs
<1> QED
  BY <1>2, <1>3 DEF Looks, Sees

\* setNext() and startReplication() in a view v.
LEMMA ReplicateLooks ==
  ASSUME TypeOK, NEW h \in Host, NEW v \in View, NEW p \in Host \cup {NoHost}, Replicate(h, v, p)
  PROVE  /\ \A k \in Host \ {h} : host'[k] = host[k]
         /\ \A q \in Host \ {h} : host'[h][q] = v[q]
         /\ host'[h][h].rn \in {v[h].rn, nextRN[h]}
         /\ host'[h][h].voted = v[h].voted /\ host'[h][h].state = v[h].state
<1> DEFINE x == IF p = NoHost THEN v ELSE Refreshed(v, h)
<1>1. host' = [host EXCEPT ![h] = x]
  BY DEF Replicate
<1>2. /\ \A q \in Host \ {h} : x[q] = v[q]
      /\ x[h].rn \in {v[h].rn, nextRN[h]} /\ x[h].voted = v[h].voted /\ x[h].state = v[h].state
  BY RefreshedIs, RefreshedType
<1> HIDE DEF x
<1>3. host'[h] = x /\ \A k \in Host \ {h} : host'[k] = host[k]
  BY <1>1, SetHostIs
<1> QED
  BY <1>2, <1>3

LEMMA FinishElectionLooks ==
  ASSUME TypeOK, NEW h \in Host, FinishElection(h)
  PROVE  /\ Looks(h)
         /\ \/ host[h][h].state = "Activating" /\ host'[h][h].state = "Active"
            \/ host[h][h].state = "Deactivating" /\ host'[h][h].state = "Inactive"
<1> DEFINE s == IF host[h][h].state = "Activating" THEN "Active" ELSE "Inactive"
           v == [host[h] EXCEPT ![h].state = s]
<1>1. host[h][h].state \in {"Activating", "Deactivating"} /\ Replicate(h, v, NextInLine(h, v))
  BY KnownType DEF FinishElection, View, State
<1>2. /\ v \in View /\ \A q \in Host \ {h} : v[q] = host[h][q]
      /\ v[h].state = s /\ v[h].rn = host[h][h].rn /\ v[h].voted = host[h][h].voted
  BY KnownType, SetStateIs DEF HostState
<1>3. NextInLine(h, v) \in Host \cup {NoHost}
  BY <1>2, NextInLineType
<1> HIDE DEF v
<1>4. /\ \A k \in Host \ {h} : host'[k] = host[k]
      /\ \A q \in Host \ {h} : host'[h][q] = v[q]
      /\ host'[h][h].rn \in {v[h].rn, nextRN[h]}
      /\ host'[h][h].voted = v[h].voted /\ host'[h][h].state = v[h].state
  BY <1>1, <1>2, <1>3, ReplicateLooks
<1> QED
  BY <1>1, <1>2, <1>4 DEF Looks, Sees

LEMMA HeartbeatLooks ==
  ASSUME TypeOK, NEW h \in Host, NEW c \in Cxn, Heartbeat(c, h)
  PROVE  Looks(h) /\ host'[h][h].state = host[h][h].state
<1> DEFINE x == Refreshed(host[h], h)
<1>1. host' = [host EXCEPT ![h] = x]
  BY DEF Heartbeat
<1>2. /\ \A q \in Host \ {h} : x[q] = host[h][q]
      /\ x[h].rn = nextRN[h] /\ x[h].voted = host[h][h].voted /\ x[h].state = host[h][h].state
  BY KnownType, RefreshedIs, RefreshedType
<1> HIDE DEF x
<1>3. host'[h] = x /\ \A k \in Host \ {h} : host'[k] = host[k]
  BY <1>1, SetHostIs
<1> QED
  BY <1>2, <1>3 DEF Looks, Sees

\* The first of some hosts is before the others.
LEMMA FirstRankedFirst ==
  ASSUME NEW v \in View, NEW S \in SUBSET Host, S # {}
  PROVE  /\ FirstRanked(v, S) \in S
         /\ \A q \in S \ {FirstRanked(v, S)} : Before(v, FirstRanked(v, S), q)
<1>1. \E p \in S : \A q \in S \ {p} : Above(v, p, q) \/ (~Above(v, q, p) /\ p < q)
  BY FirstExists DEF Before, View
<1>2. FirstRanked(v, S) = CHOOSE p \in S : \A q \in S \ {p} : Above(v, p, q) \/ (~Above(v, q, p) /\ p < q)
  BY DEF FirstRanked
<1> DEFINE f == FirstRanked(v, S)
<1>3. f \in S /\ \A q \in S \ {f} : Above(v, f, q) \/ (~Above(v, q, f) /\ f < q)
  BY <1>1, <1>2
<1> QED
  BY <1>3 DEF Before

\* The state of a heartbeat is that of its sender, as is the number of records if it was refreshed.
LEMMA HbIs ==
  ASSUME NEW h \in Host, NEW v \in View
  PROVE  /\ Hb(h, v) \in Msg /\ Hb(h, v).type = "hb" /\ Hb(h, v).from = h
         /\ Hb(h, v).state = v[h].state /\ Hb(h, v).rn = v[h].rn
  BY DEF Hb, Msg, Heartbeats, View, Known

\* What is on its way was, or is a heartbeat of h that says what h is.
News(h) == \A m \in OnWay(chan') :
  \/ m \in OnWay(chan)
  \/ m.type = "hb" /\ m.from = h /\ m.state = host'[h][h].state /\ m.rn = nextRN[h]

LEMMA HoldElectionLooks ==
  ASSUME TypeOK, NEW h \in Host, HoldElection(h), host[h][h].voted
  PROVE  /\ Looks(h) /\ host[h][h].state = "Electing" /\ host'[h][h].rn = nextRN[h]
         /\ \A k \in Host \ {h} : master'[k] = master[k]
         /\ News(h)
         /\ \/ host'[h][h].state = "Activating" /\ master'[h] = h
            \/ /\ host'[h][h].state = "Deactivating" /\ master'[h] \in Host \ {h} /\ splits' = splits
               /\ host[h][master'[h]].voted /\ Before(Refreshed(host[h], h), master'[h], h)
<1> DEFINE v == Refreshed(host[h], h)
           m == FirstRanked(v, Voted(v))
           s == IF m = h THEN "Activating" ELSE "Deactivating"
           x == [v EXCEPT ![h].state = s]
<1>1. /\ host[h][h].state = "Electing"
      /\ master' = [master EXCEPT ![h] = m]
      /\ host' = [host EXCEPT ![h] = x]
      /\ chan' = chan \/ chan' = Announced(h, x)
      /\ m # h => splits' = splits
  BY DEF HoldElection, SetMaster, State
<1>2. v \in View /\ \A q \in Host : v[q].voted = host[h][q].voted
  BY KnownType, RefreshedType
<1>3. v[h].rn = nextRN[h] /\ \A q \in Host \ {h} : v[q] = host[h][q]
  BY KnownType, RefreshedIs
<1>4. h \in Voted(v) /\ Voted(v) \subseteq Host
  BY <1>2 DEF Voted
<1>5. m \in Voted(v) /\ \A q \in Voted(v) \ {m} : Before(v, m, q)
  BY <1>2, <1>4, FirstRankedFirst
<1>6. m \in Host /\ host[h][m].voted /\ (m # h => Before(v, m, h))
  BY <1>2, <1>4, <1>5 DEF Voted
<1> HIDE DEF v
<1>7. master'[h] = m /\ \A k \in Host \ {h} : master'[k] = master[k]
  BY <1>1 DEF TypeOK
<1>8. s \in HostState
  BY DEF HostState
<1>9. (s = "Activating" /\ m = h) \/ (s = "Deactivating" /\ m # h)
  OBVIOUS
<1> HIDE DEF m, s
<1>10. /\ x \in View /\ \A q \in Host \ {h} : x[q] = v[q]
       /\ x[h].state = s /\ x[h].rn = v[h].rn /\ x[h].voted = v[h].voted
  BY <1>2, <1>8 DEF View, Known
<1> HIDE DEF x
<1>11. host'[h] = x /\ \A k \in Host \ {h} : host'[k] = host[k]
  BY <1>1, SetHostIs
<1>12. Looks(h)
  BY <1>2, <1>3, <1>10, <1>11 DEF Looks, Sees
<1>13. News(h)
  <2> SUFFICES ASSUME NEW y \in OnWay(chan'), y \notin OnWay(chan)
               PROVE  y.type = "hb" /\ y.from = h /\ y.state = host'[h][h].state /\ y.rn = nextRN[h]
    BY DEF News
  <2>1. y = Hb(h, x)
    BY <1>1, <1>10, AnnouncedOnWay
  <2> QED
    BY <1>3, <1>10, <1>11, <2>1, HbIs
<1>14. m # h => Before(Refreshed(host[h], h), m, h)
  BY <1>6 DEF v
<1> QED
  BY <1>1, <1>3, <1>6, <1>7, <1>9, <1>10, <1>11, <1>12, <1>13, <1>14

LEMMA DeactivateLooks ==
  ASSUME TypeOK, NEW h \in Host, Deactivate(h)
  PROVE  /\ Looks(h) /\ deact[h]
         /\ \A k \in Host \ {h} : master'[k] = master[k]
         /\ \/ host'[h][h].state = host[h][h].state /\ host[h][h].state \notin ActiveStates /\ master'[h] = master[h]
            \/ /\ host[h][h].state \in {"Active", "Electing"} /\ host'[h][h].state = "Deactivating"
               /\ master'[h] \in Host \ {h}
<1>1. deact[h] /\ host[h][h].state # "Activating"
  BY DEF Deactivate, State
<1>2. CASE host[h][h].state \in {"Active", "Electing"}
  <2> DEFINE r == Refreshed(host[h], h)
             w == [r EXCEPT ![h].voted = FALSE]
             u == [w EXCEPT ![h].voted = TRUE]
             x == [u EXCEPT ![h].state = "Deactivating"]
             m == FirstRanked(w, Voted(w))
  <2>1. /\ host' = [host EXCEPT ![h] = x]
        /\ Voted(w) # {} /\ master' = [master EXCEPT ![h] = m]
    BY <1>2 DEF Deactivate, SetMaster, State
  <2>2. r \in View /\ r[h].rn = nextRN[h] /\ \A q \in Host \ {h} : r[q] = host[h][q]
    BY KnownType, RefreshedType, RefreshedIs
  <2> HIDE DEF r
  <2>3. /\ w \in View /\ w[h].rn = r[h].rn /\ ~w[h].voted /\ \A q \in Host \ {h} : w[q] = r[q]
    BY <2>2 DEF View, Known
  <2>4. /\ u \in View /\ u[h].rn = w[h].rn /\ u[h].voted /\ \A q \in Host \ {h} : u[q] = w[q]
    <3> HIDE DEF w
    <3> QED
      BY <2>3 DEF View, Known
  <2>5. /\ x[h].rn = u[h].rn /\ x[h].voted /\ x[h].state = "Deactivating" /\ \A q \in Host \ {h} : x[q] = u[q]
    <3> HIDE DEF u
    <3> QED
      BY <2>4 DEF View, Known, HostState
  <2> HIDE DEF x, u
  <2>6. m \in Voted(w)
    <3>1. Voted(w) \in SUBSET Host
      BY DEF Voted
    <3> HIDE DEF w
    <3> QED
      BY <2>1, <2>3, <3>1, FirstRankedFirst
  <2>7. m \in Host \ {h}
    <3> HIDE DEF w
    <3> QED
      BY <2>3, <2>6 DEF Voted
  <2> HIDE DEF w, m
  <2>8. host'[h] = x /\ \A k \in Host \ {h} : host'[k] = host[k]
    BY <2>1, SetHostIs
  <2>9. master'[h] = m /\ \A k \in Host \ {h} : master'[k] = master[k]
    BY <2>1 DEF TypeOK
  <2>10. Looks(h)
    BY <2>2, <2>3, <2>4, <2>5, <2>8 DEF Looks, Sees
  <2> QED
    BY <1>1, <1>2, <2>5, <2>7, <2>8, <2>9, <2>10
<1>3. CASE host[h][h].state \notin {"Active", "Electing"}
  <2>1. UNCHANGED <<host, master>>
    BY <1>3 DEF Deactivate, State
  <2> QED
    BY <1>1, <1>3, <2>1, SameLooks DEF ActiveStates
<1> QED
  BY <1>2, <1>3

\* disconnected() forgets a host's connection, and then the host: nothing else is known of it.
LEMMA ClearCxnSees ==
  ASSUME TypeOK, NEW h \in Host, ClearCxn(h)
  PROVE  Looks(h) /\ host'[h][h].state = host[h][h].state
<1>1. /\ \A k \in Host \ {h} : host'[k] = host[k]
      /\ \A q \in Host : /\ host'[h][q].state = host[h][q].state
                         /\ host'[h][q].rn = host[h][q].rn
                         /\ host'[h][q].voted = host[h][q].voted
  BY ClearCxnIs
<1> QED
  BY <1>1 DEF Looks, Sees

LEMMA LoseHostSees ==
  ASSUME TypeOK, Connections, NEW h \in Host, LoseHost(h)
  PROVE  /\ Sees(h)
         /\ \/ host'[h][h].state = host[h][h].state
            \/ host[h][h].state = "Inactive" /\ host'[h][h].state = "Electing"
<1> DEFINE p == rx[h].host
<1>2. p \in Host \ {h}
  BY LoseHostIs DEF LosingStep, Losing, Connections, Called
<1> HIDE DEF p
<1> DEFINE v == [host[h] EXCEPT ![p].state = "Instantiated", ![p].voted = FALSE]
           pv == IF prev[h] = p THEN NoHost ELSE prev[h]
           f == FirstRanked(v, {q \in Voted(v) \ {h, pv} : Above(v, h, q)})
           s == IF host[h][h].state = "Inactive" THEN "Electing" ELSE host[h][h].state
           e == [v EXCEPT ![h].state = "Electing"]
<1>3. /\ v \in View /\ v[p].rn = host[h][p].rn /\ v[p].state = "Instantiated" /\ ~v[p].voted
      /\ \A q \in Host \ {p} : v[q] = host[h][q]
  <2>1. host[h] \in [Host -> Known]
    BY KnownType DEF View
  <2> DEFINE lost == [host[h][p] EXCEPT !.state = "Instantiated", !.voted = FALSE]
  <2>2. /\ lost \in Known /\ lost.rn = host[h][p].rn /\ lost.state = "Instantiated" /\ ~lost.voted
    BY <1>2, <2>1 DEF Known, HostState
  <2>3. v = [host[h] EXCEPT ![p] = lost]
    BY <1>2, <2>1
  <2> HIDE DEF lost, v
  <2> QED
    BY <1>2, <2>1, <2>2, <2>3 DEF View
<1>4. \/ Replicate(h, v, f)
      \/ host' = [host EXCEPT ![h] = v]
      \/ host' = [host EXCEPT ![h] = e] /\ host[h][h].state = "Inactive"
  BY DEF LoseHost, State, p
<1>6. f \in Host \cup {NoHost}
  <2>1. {q \in Voted(v) \ {h, pv} : Above(v, h, q)} \in SUBSET Host
    BY DEF Voted
  <2> HIDE DEF v, pv
  <2> QED
    BY <1>3, <2>1, FirstRankedIs DEF View
<1> HIDE DEF v, pv, f
<1>7. CASE Replicate(h, v, f)
  <2>1. /\ \A k \in Host \ {h} : host'[k] = host[k]
        /\ \A q \in Host \ {h} : host'[h][q] = v[q]
        /\ host'[h][h].rn \in {v[h].rn, nextRN[h]}
        /\ host'[h][h].voted = v[h].voted /\ host'[h][h].state = v[h].state
    BY <1>3, <1>6, <1>7, ReplicateLooks
  <2> QED
    BY <1>2, <1>3, <2>1 DEF Sees
<1>8. CASE host' = [host EXCEPT ![h] = v]
  BY <1>2, <1>3, <1>8, SetHostIs DEF Sees
<1>9. CASE host' = [host EXCEPT ![h] = e] /\ host[h][h].state = "Inactive"
  <2>1. /\ \A q \in Host \ {h} : e[q] = v[q]
        /\ e[h].state = "Electing" /\ e[h].rn = v[h].rn /\ e[h].voted = v[h].voted
    BY <1>3 DEF View, Known
  <2> HIDE DEF e
  <2> QED
    BY <1>2, <1>3, <1>9, <2>1, SetHostIs DEF Sees
<1> QED
  BY <1>4, <1>7, <1>8, <1>9

LEMMA AppendOnWay ==
  ASSUME NEW ch \in Channels, NEW c, NEW k, NEW x \in Msg,
         NEW m \in OnWay([ch EXCEPT ![c][k] = Append(@, x)])
  PROVE  m \in OnWay(ch) \/ m = x
<1> DEFINE s == [ch EXCEPT ![c][k] = Append(@, x)]
<1>2. \A d \in Cxn, j \in Host : ch[d][j] \in Seq(Msg) /\ s[d][j] \in {ch[d][j], Append(ch[d][j], x)}
  BY DEF Channels
<1>1. s \in Channels
  <2>1. \A d \in Cxn, j \in Host : s[d][j] \in Seq(Msg)
    <3> HIDE DEF s
    <3>1. \A d \in Cxn, j \in Host : Append(ch[d][j], x) \in Seq(Msg)
      BY <1>2
    <3> QED
      BY <1>2, <3>1
  <2>2. \A d \in Cxn : s[d] = [j \in Host |-> s[d][j]]
    BY DEF Channels
  <2>3. s = [d \in Cxn |-> s[d]]
    BY DEF Channels
  <2> HIDE DEF s
  <2>4. \A d \in Cxn : s[d] \in [Host -> Seq(Msg)]
    BY <2>1, <2>2
  <2> QED
    BY <2>3, <2>4 DEF Channels
<1>3. m \in OnWay(s)
  OBVIOUS
<1> HIDE DEF s
<1>4. PICK d \in Cxn, j \in Host : \E i \in 1..Len(s[d][j]) : m = s[d][j][i]
  BY <1>1, <1>3, OnWayIs
<1>5. PICK i \in 1..Len(s[d][j]) : m = s[d][j][i]
  BY <1>4
<1>6. CASE i \in 1..Len(ch[d][j])
  <2>1. s[d][j][i] = ch[d][j][i]
    BY <1>2, <1>6
  <2> QED
    BY <1>5, <1>6, <2>1, OnWayIs
<1>7. CASE i \notin 1..Len(ch[d][j])
  BY <1>2, <1>5, <1>7
<1> QED
  BY <1>6, <1>7

\* An end that is refused is not read.
LEMMA ConnectedSees ==
  ASSUME TypeOK, NEW h \in Host, NEW c \in Cxn, Connected(c, h)
  PROVE  UNCHANGED host /\ \A m \in OnWay(chan') : m \in OnWay(chan)
<1>1. UNCHANGED host /\ (UNCHANGED chan \/ chan' = [chan EXCEPT ![c][h] = << >>])
  BY DEF Connected, Gone, cxnVars
<1> QED
  BY <1>1, EmptyOnWay

\* connected(): the host's vote is not counted any more.
LEMMA OpenedSees ==
  ASSUME TypeOK, Connections, NEW h \in Host, NEW c \in Cxn, Opened(c, h)
  PROVE  /\ Sees(h) /\ News(h) /\ host'[h][h].state = host[h][h].state
         /\ \A q \in Host \ {h, assoc[c][h]} : host[h][q].voted => host'[h][q].voted
<1>0. chan \in Channels
  BY DEF TypeOK, Channels
<1> DEFINE p == assoc[c][h]
<1>1. PICK old \in SUBSET Cxn, v \in View :
         /\ \/ assoc[c][h] = NoHost /\ old = {} /\ v = host[h]
            \/ /\ assoc[c][h] \in Host /\ old = Replaced(host[h], c, assoc[c][h])
               /\ v = Associated(host[h], c, assoc[c][h])
         /\ host' = [host EXCEPT ![h] = Refreshed(v, h)]
         /\ end' = [Orphan(h, old, end) EXCEPT ![c][h] = "up"]
         /\ assoc' = Disown(h, old, assoc)
         /\ chan' = IF PeerGone(c, h) THEN chan
                    ELSE [chan EXCEPT ![c][Peer(c, h)] = Append(@, Hb(h, Refreshed(v, h)))]
  BY OpenedIs
<1>11. (p = NoHost /\ v = host[h]) \/ (p \in Host /\ v = Associated(host[h], c, p))
  BY <1>1
<1>2. p # NoHost => p \in Host \ {h}
  <2>1. p # NoHost => p = Peer(c, h)
    BY DEF Connections, Associates
  <2>2. end[c][h] # "none"
    BY DEF Opened, Connections, Called
  <2> QED
    BY <2>1, <2>2, PeerIs DEF Connections
<1> HIDE DEF p
<1>3. /\ \A q \in Host : v[q].state = host[h][q].state /\ v[q].rn = host[h][q].rn
      /\ \A q \in Host \ {p} : v[q].voted = host[h][q].voted
      /\ p \in Host => ~v[p].voted
  <2>1. CASE p = NoHost
    BY <1>11, <2>1, HostAssumption
  <2>2. CASE p \in Host /\ v = Associated(host[h], c, p)
    BY <2>2, KnownType DEF Associated, View, Known
  <2> QED
    BY <1>11, <2>1, <2>2
<1> DEFINE w == Refreshed(v, h)
<1>4. /\ w \in View /\ w[h].rn = nextRN[h] /\ w[h].state = v[h].state /\ w[h].voted = v[h].voted
      /\ \A q \in Host \ {h} : w[q] = v[q]
  BY RefreshedType, RefreshedIs
<1>5. host' = [host EXCEPT ![h] = w]
      /\ chan' \in {chan, [chan EXCEPT ![c][Peer(c, h)] = Append(@, Hb(h, w))]}
  BY <1>1
<1> HIDE DEF w
<1>6. host'[h] = w /\ \A k \in Host \ {h} : host'[k] = host[k]
  BY <1>5, SetHostIs
<1>7. p # h
  BY <1>2, HostAssumption
<1>8. Sees(h) /\ host'[h][h].state = host[h][h].state
  <2>1. \A q \in Host : v[q].voted => host[h][q].voted
    BY <1>3
  <2>2. v[h].voted = host[h][h].voted
    BY <1>3, <1>7
  <2> QED
    BY <1>3, <1>4, <1>6, <2>1, <2>2 DEF Sees
<1>9. \A q \in Host \ {h, p} : host[h][q].voted => host'[h][q].voted
  BY <1>3, <1>4, <1>6
<1>10. News(h)
  <2> SUFFICES ASSUME NEW m \in OnWay(chan'), m \notin OnWay(chan)
               PROVE  m.type = "hb" /\ m.from = h /\ m.state = host'[h][h].state /\ m.rn = nextRN[h]
    BY DEF News
  <2>1. /\ Hb(h, w) \in Msg /\ Hb(h, w).type = "hb" /\ Hb(h, w).from = h
        /\ Hb(h, w).state = w[h].state /\ Hb(h, w).rn = w[h].rn
    BY <1>4, HbIs
  <2>2. m = Hb(h, w)
    <3>1. PICK x \in Msg : x = Hb(h, w)
      BY <2>1
    <3>2. m \in OnWay([chan EXCEPT ![c][Peer(c, h)] = Append(@, x)])
      BY <1>5, <3>1
    <3> QED
      BY <1>0, <3>1, <3>2, AppendOnWay
  <2> QED
    BY <1>4, <1>6, <2>1, <2>2
<1> QED
  BY <1>8, <1>9, <1>10 DEF p

LEMMA HeartbeatNews ==
  ASSUME TypeOK, NEW h \in Host, NEW c \in Cxn, Heartbeat(c, h)
  PROVE  News(h)
<1> DEFINE v == Refreshed(host[h], h)
<1>1. chan' = Sent(chan, c, h, <<Hb(h, v)>>) /\ chan \in Channels /\ host' = [host EXCEPT ![h] = v]
  BY DEF Heartbeat, TypeOK, Channels
<1>2. v \in View /\ v[h].rn = nextRN[h]
  BY KnownType, RefreshedType, RefreshedIs
<1> HIDE DEF v
<1>3. host'[h] = v
  BY <1>1, SetHostIs
<1>4. /\ Hb(h, v) \in Msg /\ Hb(h, v).type = "hb" /\ Hb(h, v).from = h
      /\ Hb(h, v).state = v[h].state /\ Hb(h, v).rn = v[h].rn
  BY <1>2, HbIs
<1>5. \A m \in OnWay(chan') : m \in OnWay(chan) \/ m = Hb(h, v)
  BY <1>1, <1>4, OneOnWay
<1> QED
  BY <1>2, <1>3, <1>4, <1>5 DEF News

\* Data leaves all states and votes, and brings nothing on its way that was not.
LEMMA RepRcvdLooks ==
  ASSUME TypeOK, Connections, NEW h \in Host, NEW c \in Cxn, RepRcvd(c, h)
  PROVE  /\ \A k, q \in Host : host'[k][q].state = host[k][q].state /\ host'[k][q].voted = host[k][q].voted
         /\ \A k \in Host : nextRN[k] <= nextRN'[k]
         /\ \A m \in OnWay(chan') : m \in OnWay(chan)
         /\ \E m \in OnWay(chan) : m.type = "rep"
         /\ UNCHANGED <<next, master, deact, stopStep, stops, splits, faults>>
<1> DEFINE m == Head(chan[c][h])
           p == assoc[c][h]
           rest == [chan EXCEPT ![c][h] = Tail(@)]
<1>1. /\ chan[c][h] # << >> /\ m.type = "rep" /\ end[c][h] # "none"
      /\ UNCHANGED <<next, master, deact, stopStep, stops, splits, faults>>
  BY DEF RepRcvd, boundVars, Open
<1>2. m \in OnWay(chan) /\ (\A y \in OnWay(rest) : y \in OnWay(chan)) /\ rest \in Channels /\ m \in Rep
  BY <1>1, TailOnWay, HeadType
<1>3. \/ UNCHANGED <<host, nextRN>> /\ chan' = [chan EXCEPT ![c][h] = << >>]
      \/ p # NoHost /\ RepDataRcvd(c, h, p, m)
  BY DEF RepRcvd
<1>4. \A k \in Host : nextRN[k] \in Nat
  BY NextRNType
<1>5. CASE UNCHANGED <<host, nextRN>> /\ chan' = [chan EXCEPT ![c][h] = << >>]
  <2>1. \A y \in OnWay(chan') : y \in OnWay(chan)
    BY <1>5, EmptyOnWay
  <2>2. \A k \in Host : nextRN[k] <= nextRN'[k]
    BY <1>4, <1>5
  <2>3. \A k, q \in Host : host'[k][q].state = host[k][q].state /\ host'[k][q].voted = host[k][q].voted
    BY <1>5
  <2> QED
    BY <1>1, <1>2, <2>1, <2>2, <2>3 DEF m
<1>6. CASE p # NoHost /\ RepDataRcvd(c, h, p, m)
  <2> HIDE DEF m, p
  <2>1. p \in Host
    BY <1>6 DEF TypeOK, p
  <2> DEFINE known == host[h][p].rn
             top == Max({known, m.rn + 1})
             copies == IF RepMode[h] = 1 THEN <<m, m>> ELSE <<m>>
  <2>2. \/ UNCHANGED <<host, nextRN>> /\ chan' = rest
        \/ /\ host' = [host EXCEPT ![h][p].rn = top]
           /\ nextRN' = [nextRN EXCEPT ![h] = Max({@, m.rn + 1})]
           /\ chan' = Sent(rest, nextCxn[h], h, copies)
    BY <1>6 DEF RepDataRcvd
  <2>3. copies \in Seq(Msg) /\ \A i \in 1..Len(copies) : copies[i] = m
    <3>1. m \in Msg
      BY <1>2 DEF Msg
    <3>2. <<m, m>> \in Seq(Msg) /\ \A i \in 1..Len(<<m, m>>) : <<m, m>>[i] = m
      BY <3>1
    <3>3. <<m>> \in Seq(Msg) /\ \A i \in 1..Len(<<m>>) : <<m>>[i] = m
      BY <3>1
    <3> QED
      BY <3>2, <3>3
  <2> HIDE DEF rest, copies, top
  <2>4. \A y \in OnWay(chan') : y \in OnWay(chan)
    BY <1>2, <2>2, <2>3, SentOnWay
  <2>5. \A k, q \in Host : host'[k][q].state = host[k][q].state /\ host'[k][q].voted = host[k][q].voted
    <3>1. CASE host' = [host EXCEPT ![h][p].rn = top]
      <4> DEFINE x == [host[h] EXCEPT ![p].rn = top]
      <4>1. host' = [host EXCEPT ![h] = x]
        BY <3>1
      <4>2. \A q \in Host : x[q].state = host[h][q].state /\ x[q].voted = host[h][q].voted
        BY <2>1, KnownType DEF View, Known
      <4> HIDE DEF x
      <4> QED
        BY <4>1, <4>2, SetHostIs
    <3> QED
      BY <2>2, <3>1
  <2>6. \A k \in Host : nextRN[k] <= nextRN'[k]
    <3>1. m.rn \in Nat
      <4>1. m.rn \in RN /\ MaxRN \in Nat
        BY <1>2, NumbersType DEF Rep
      <4> QED
        BY <4>1 DEF RN
    <3>2. nextRN[h] <= Max({nextRN[h], m.rn + 1})
      BY <1>4, <3>1, MaxIs
    <3>3. CASE nextRN' = [nextRN EXCEPT ![h] = Max({nextRN[h], m.rn + 1})]
      BY <1>4, <3>2, <3>3 DEF TypeOK
    <3> QED
      BY <1>4, <2>2, <3>3
  <2> QED
    BY <1>1, <1>2, <2>4, <2>5, <2>6 DEF m
<1> QED
  BY <1>3, <1>5, <1>6

\* How p ranks below h, with n records.
Below(h, n, s, p) ==
  \/ nextRN[h] > n
  \/ /\ nextRN[h] = n
     /\ \/ IsActive(h) /\ s \notin ActiveStates
        \/ (IsActive(h) <=> s \in ActiveStates) /\ Priority[h] > Priority[p]

\* If h begins a recovery, it begins it at n.
Begins(h, n) ==
  /\ \A k \in Host \ {h} : recovery'[k] = recovery[k]
  /\ n < nextRN[h] \/ recovery'[h].rn >= recovery'[h].end

\* A vote is counted, and the voter may become the next in line if it is below h.
LEMMA VoteLooks ==
  ASSUME TypeOK, NEW h \in Host, NEW v \in View, NEW p \in Host \ {h}, v[h].state = host[h][h].state,
         Vote(h, v, p)
  PROVE  /\ \A k \in Host \ {h} : host'[k] = host[k]
         /\ \A q \in Host \ {h, p} : host'[h][q] = v[q]
         /\ host'[h][p].state = v[p].state /\ host'[h][p].rn = v[p].rn /\ host'[h][p].voted
         /\ host'[h][h].state = v[h].state /\ host'[h][h].rn = nextRN[h] /\ host'[h][h].voted = v[h].voted
         /\ \/ UNCHANGED <<next, recovery>>
            \/ /\ next' = [next EXCEPT ![h] = p] /\ Below(h, v[p].rn, v[p].state, p)
               /\ Begins(h, v[p].rn)
<1> DEFINE y == [v EXCEPT ![p].voted = TRUE]
           w == Refreshed(y, h)
<1>1. /\ y \in View /\ y[p].state = v[p].state /\ y[p].rn = v[p].rn /\ y[p].voted
      /\ \A q \in Host \ {p} : y[q] = v[q]
  BY DEF View, Known
<1> HIDE DEF y
<1>2. /\ w \in View /\ w[h].rn = nextRN[h] /\ w[h].state = v[h].state /\ w[h].voted = v[h].voted
      /\ \A q \in Host \ {h} : w[q] = y[q]
  BY <1>1, RefreshedType, RefreshedIs
<1>3. (Replicate(h, w, p) /\ Above(w, h, p)) \/ (host' = [host EXCEPT ![h] = w] /\ UNCHANGED <<next, recovery>>)
  BY DEF Vote, w, y
<1> HIDE DEF w
<1>4. CASE host' = [host EXCEPT ![h] = w] /\ UNCHANGED <<next, recovery>>
  <2>1. host'[h] = w /\ \A k \in Host \ {h} : host'[k] = host[k]
    BY <1>4, SetHostIs
  <2> QED
    BY <1>1, <1>2, <1>4, <2>1
<1>5. CASE Replicate(h, w, p) /\ Above(w, h, p)
  <2>1. /\ \A k \in Host \ {h} : host'[k] = host[k]
        /\ \A q \in Host \ {h} : host'[h][q] = w[q]
        /\ host'[h][h].rn \in {w[h].rn, nextRN[h]}
        /\ host'[h][h].voted = w[h].voted /\ host'[h][h].state = w[h].state
    BY <1>2, <1>5, ReplicateLooks
  <2>2. Below(h, v[p].rn, v[p].state, p)
    <3>1. w[h].state = host[h][h].state /\ w[p].state = v[p].state /\ w[h].rn = nextRN[h] /\ w[p].rn = v[p].rn
      BY <1>1, <1>2
    <3> QED
      BY <1>5, <3>1 DEF Below, Above, IsActive, State
  <2>3. next' = [next EXCEPT ![h] = p] /\ Begins(h, w[p].rn)
    <3>1. /\ next' = [next EXCEPT ![h] = p]
          /\ recovery' = [recovery EXCEPT ![h] =
               IF w[p].rn < nextRN[h]
               THEN [on |-> TRUE, rn |-> w[p].rn, end |-> nextRN[h], cut |-> Cut(h, w)]
               ELSE NoRecovery(Cut(h, w))]
      BY <1>5, HostAssumption DEF Replicate
    <3> QED
      BY <3>1 DEF Begins, NoRecovery, TypeOK
  <2> QED
    BY <1>1, <1>2, <2>1, <2>2, <2>3
<1> QED
  BY <1>3, <1>4, <1>5

\* A heartbeat of p is handled, in the view v it leaves.
LEMMA HbDataLooks ==
  ASSUME TypeOK, NEW h \in Host, NEW v \in View, NEW p \in Host \ {h}, v[h].state = host[h][h].state,
         HbDataRcvd(h, v, p)
  PROVE  /\ \A k \in Host \ {h} : host'[k] = host[k]
         /\ \A q \in Host \ {h, p} : host'[h][q] = v[q]
         /\ host'[h][p].state = v[p].state /\ host'[h][p].rn = v[p].rn
         /\ IsRunning(h) => host'[h][p].voted
         /\ host'[h][h].state = v[h].state /\ host'[h][h].rn \in {v[h].rn, nextRN[h]}
         /\ host'[h][h].voted = v[h].voted
         /\ \/ UNCHANGED <<next, recovery>>
            \/ /\ next' = [next EXCEPT ![h] = p] /\ Below(h, v[p].rn, v[p].state, p)
               /\ host[h][h].state \in Elected
               /\ Begins(h, v[p].rn)
         /\ \/ UNCHANGED deact
            \/ /\ IsActive(h) /\ v[p].state \in ActiveStates
               /\ \A k \in Host \ {h} : deact'[k] = deact[k]
               /\ deact'[h] => \/ deact[h] \/ v[p].rn > nextRN[h]
                               \/ v[p].rn = nextRN[h] /\ Priority[p] > Priority[h]
<1> DEFINE y == [v EXCEPT ![p].voted = TRUE]
<1>1. CASE host' = [host EXCEPT ![h] = y] /\ UNCHANGED <<next, recovery, deact>>
  <2>1. /\ y[p].state = v[p].state /\ y[p].rn = v[p].rn /\ y[p].voted /\ \A q \in Host \ {p} : y[q] = v[q]
    BY DEF View, Known
  <2> HIDE DEF y
  <2>2. host'[h] = y /\ \A k \in Host \ {h} : host'[k] = host[k]
    BY <1>1, SetHostIs
  <2> QED
    BY <1>1, <2>1, <2>2
<1>2. CASE host' = [host EXCEPT ![h] = v] /\ (IsRunning(h) => v[p].voted) /\ UNCHANGED <<next, recovery, deact>>
  <2>1. host'[h] = v /\ \A k \in Host \ {h} : host'[k] = host[k]
    BY <1>2, SetHostIs
  <2> QED
    BY <1>2, <2>1
<1>3. CASE Vote(h, v, p) /\ UNCHANGED deact /\ host[h][h].state \in Elected
  BY <1>3, VoteLooks
<1>4. CASE /\ IsActive(h) /\ v[p].state \in ActiveStates /\ Vote(h, v, p)
           /\ deact' = [deact EXCEPT ![h] = @ \/ Outranked(h, v, p)]
  <2>1. deact'[h] = (deact[h] \/ Outranked(h, v, p)) /\ \A k \in Host \ {h} : deact'[k] = deact[k]
    BY <1>4 DEF TypeOK
  <2>2. Outranked(h, v, p) => v[p].rn > nextRN[h] \/ (v[p].rn = nextRN[h] /\ Priority[p] > Priority[h])
    <3> DEFINE w == Refreshed(v, h)
    <3>1. w[h].rn = nextRN[h] /\ w[h].state = v[h].state /\ w[p] = v[p]
      BY RefreshedType, RefreshedIs
    <3>2. Outranked(h, v, p) => Above(w, p, h)
      BY DEF Outranked
    <3> HIDE DEF w
    <3>3. w[h].state \in ActiveStates /\ w[p].state \in ActiveStates
      BY <1>4, <3>1 DEF IsActive, State
    <3> QED
      BY <3>1, <3>2, <3>3 DEF Above
  <2>3. deact'[h] => \/ deact[h] \/ v[p].rn > nextRN[h]
                     \/ v[p].rn = nextRN[h] /\ Priority[p] > Priority[h]
    BY <2>1, <2>2
  <2>4. Vote(h, v, p)
    BY <1>4
  <2> HIDE DEF y
  <2>5. /\ \A k \in Host \ {h} : host'[k] = host[k]
        /\ \A q \in Host \ {h, p} : host'[h][q] = v[q]
        /\ host'[h][p].state = v[p].state /\ host'[h][p].rn = v[p].rn /\ host'[h][p].voted
        /\ host'[h][h].state = v[h].state /\ host'[h][h].rn = nextRN[h] /\ host'[h][h].voted = v[h].voted
        /\ \/ UNCHANGED <<next, recovery>>
           \/ /\ next' = [next EXCEPT ![h] = p] /\ Below(h, v[p].rn, v[p].state, p)
              /\ Begins(h, v[p].rn)
    BY <2>4, VoteLooks
  <2>6. host[h][h].state \in Elected
    BY <1>4 DEF IsActive, State, ActiveStates, Elected
  <2> QED
    BY <1>4, <2>1, <2>3, <2>5, <2>6
<1> QED
  BY <1>1, <1>2, <1>3, <1>4 DEF HbDataRcvd, IsRunning, Running, State

\* The header of a heartbeat: what the connection of its sender is, and that its vote is not counted.
LEMMA HbRcvdLooks ==
  ASSUME TypeOK, Connections, NEW h \in Host, NEW c \in Cxn, HbRcvd(c, h)
  PROVE  Sees(h) /\ UNCHANGED chan /\ host'[h][h].state = host[h][h].state
<1>1. PICK p \in Host, v \in View :
        /\ chan[c][h] # << >> /\ Head(chan[c][h]).type = "hb" /\ Head(chan[c][h]).from = p
        /\ end[c][h] \in Open
        /\ host' = [host EXCEPT ![h] = v]
        /\ v = Associated(host[h], c, p) \/ v = host[h]
  BY HbRcvdIs
<1>2. UNCHANGED chan
  BY DEF HbRcvd
<1>3. p \in Host \ {h}
  <2>1. chan[c][h] \in Seq(Msg)
    BY DEF TypeOK
  <2>2. 1 \in 1..Len(chan[c][h]) /\ Head(chan[c][h]) = chan[c][h][1]
    BY <1>1, <2>1
  <2>3. p = Peer(c, h)
    BY <1>1, <2>2 DEF Connections, Carry
  <2>4. end[c][h] # "none"
    BY <1>1 DEF Open
  <2> QED
    BY <2>3, <2>4, PeerIs DEF Connections
<1>4. /\ \A q \in Host : v[q].state = host[h][q].state /\ v[q].rn = host[h][q].rn
                         /\ (v[q].voted => host[h][q].voted)
      /\ v[h].voted = host[h][h].voted
  <2>1. CASE v = Associated(host[h], c, p)
    BY <1>3, <2>1, KnownType DEF Associated, View, Known
  <2> QED
    BY <1>1, <2>1
<1>5. host'[h] = v /\ \A k \in Host \ {h} : host'[k] = host[k]
  BY <1>1, SetHostIs
<1> QED
  BY <1>2, <1>4, <1>5 DEF Sees

\* The data of a heartbeat of p.
LEMMA CxnHbDataLooks ==
  ASSUME TypeOK, Connections, NEW h \in Host, NEW c \in Cxn, CxnHbDataRcvd(c, h)
  PROVE  \E p \in Host \ {h} : \E m \in OnWay(chan) :
           /\ m.type = "hb" /\ m.from = p /\ m.state \in HostState /\ m.rn \in 0..MaxRN
           /\ p = Peer(c, h) /\ m = Head(chan[c][h])
           /\ \A y \in OnWay(chan') : y \in OnWay(chan)
           /\ \A k \in Host \ {h} : host'[k] = host[k]
           /\ \A q \in Host \ {h, p} : host'[h][q] = host[h][q]
           /\ host'[h][p].state = m.state /\ host'[h][p].rn = m.rn
           /\ IsRunning(h) => host'[h][p].voted
           /\ host'[h][h].state = host[h][h].state /\ host'[h][h].rn \in {host[h][h].rn, nextRN[h]}
           /\ host'[h][h].voted = host[h][h].voted
           /\ \/ UNCHANGED <<next, recovery>>
              \/ /\ next' = [next EXCEPT ![h] = p] /\ Below(h, m.rn, m.state, p)
                 /\ host[h][h].state \in Elected
                 /\ Begins(h, m.rn)
           /\ \/ UNCHANGED deact
              \/ /\ IsActive(h) /\ m.state \in ActiveStates
                 /\ \A k \in Host \ {h} : deact'[k] = deact[k]
                 /\ deact'[h] => deact[h] \/ m.rn > nextRN[h] \/ (m.rn = nextRN[h] /\ Priority[p] > Priority[h])
<1> DEFINE m == Head(chan[c][h])
           p == assoc[c][h]
           v == [host[h] EXCEPT ![p].state = m.state, ![p].rn = m.rn]
<1>1. /\ end[c][h] # "none" /\ chan[c][h] # << >> /\ m.type = "hb" /\ p # NoHost
      /\ chan' = [chan EXCEPT ![c][h] = Tail(@)]
      /\ HbDataRcvd(h, v, p)
  BY DEF CxnHbDataRcvd, Open
<1>2. m \in OnWay(chan) /\ (\A y \in OnWay(chan') : y \in OnWay(chan)) /\ m \in Heartbeats
  BY <1>1, TailOnWay, HeadType
<1>3. p = Peer(c, h) /\ m.from = p
  <2>1. p = Peer(c, h)
    BY <1>1 DEF Connections, Associates
  <2>2. chan[c][h] \in Seq(Msg) /\ chan[c][h] # << >>
    BY <1>1 DEF TypeOK
  <2>3. 1 \in 1..Len(chan[c][h]) /\ m = chan[c][h][1]
    BY <2>2
  <2> QED
    BY <1>1, <2>1, <2>3 DEF Connections, Carry
<1>5. m.state \in HostState /\ m.rn \in 0..MaxRN
  BY <1>2 DEF Heartbeats
<1>12. m = Head(chan[c][h])
  OBVIOUS
<1> HIDE DEF m, p
<1>4. p \in Host \ {h}
  <2>1. Paired /\ end[c][h] # "none"
    BY <1>1 DEF Connections
  <2> QED
    BY <1>3, <2>1, PeerIs
<1>7. /\ v \in View /\ v[p].state = m.state /\ v[p].rn = m.rn /\ \A q \in Host \ {p} : v[q] = host[h][q]
  <2> DEFINE heard == [host[h][p] EXCEPT !.state = m.state, !.rn = m.rn]
  <2>1. host[h] \in [Host -> Known]
    BY KnownType DEF View
  <2>2. heard \in Known /\ heard.state = m.state /\ heard.rn = m.rn
    BY <1>4, <1>5, <2>1 DEF Known
  <2>3. v = [host[h] EXCEPT ![p] = heard]
    BY <1>4, <2>1
  <2> HIDE DEF heard, v
  <2> QED
    BY <1>4, <2>1, <2>2, <2>3 DEF View
<1> HIDE DEF v
<1>8. v[h].state = host[h][h].state /\ v[h] = host[h][h]
  BY <1>4, <1>7
<1>9. /\ \A k \in Host \ {h} : host'[k] = host[k]
      /\ \A q \in Host \ {h, p} : host'[h][q] = v[q]
      /\ host'[h][p].state = v[p].state /\ host'[h][p].rn = v[p].rn
      /\ IsRunning(h) => host'[h][p].voted
      /\ host'[h][h].state = v[h].state /\ host'[h][h].rn \in {v[h].rn, nextRN[h]}
      /\ host'[h][h].voted = v[h].voted
      /\ \/ UNCHANGED <<next, recovery>>
         \/ /\ next' = [next EXCEPT ![h] = p] /\ Below(h, v[p].rn, v[p].state, p)
            /\ host[h][h].state \in Elected
            /\ Begins(h, v[p].rn)
      /\ \/ UNCHANGED deact
         \/ /\ IsActive(h) /\ v[p].state \in ActiveStates
            /\ \A k \in Host \ {h} : deact'[k] = deact[k]
            /\ deact'[h] => \/ deact[h] \/ v[p].rn > nextRN[h]
                            \/ v[p].rn = nextRN[h] /\ Priority[p] > Priority[h]
  BY <1>1, <1>4, <1>7, <1>8, HbDataLooks
<1>10. \A q \in Host \ {h, p} : host'[h][q] = host[h][q]
  BY <1>7, <1>9
<1> USE <1>2, <1>4
<1> WITNESS p \in Host \ {h}
<1> WITNESS m \in OnWay(chan)
<1> QED
  BY <1>1, <1>2, <1>3, <1>5, <1>7, <1>8, <1>9, <1>10, <1>12

-----------------------------------------------------------------------------
(* Who a host takes for its master                                         *)

LEMMA CountsType ==
  ASSUME TypeOK
  PROVE  stops \in Nat /\ splits \in Nat /\ faults \in Nat
<1>1. /\ use.stops \in Nat /\ use.splits \in Nat /\ use.faults \in Nat
      /\ stops \in 0..use.stops /\ splits \in 0..use.splits /\ faults \in 0..use.faults
  BY NumbersType DEF TypeOK
<1> QED
  BY <1>1

LEMMA SeatsKept ==
  ASSUME Seats, NEW h \in Host, stops' = 0 => stops = 0 /\ UNCHANGED stopStep,
         \A k \in Host \ {h} : host'[k] = host[k] /\ master'[k] = master[k],
         host[h][h].voted => host'[h][h].voted,
         host'[h][h].state \in Running => host[h][h].state \in Running \/ host'[h][h].voted,
         host'[h][h].state \in ActiveStates =>
           (host[h][h].state \in ActiveStates /\ master'[h] = master[h]) \/ master'[h] = h,
         host'[h][h].state \in {"Deactivating", "Inactive"} =>
           (host[h][h].state \in {"Deactivating", "Inactive"} /\ master'[h] = master[h]) \/ master'[h] \in Host \ {h}
  PROVE  Seats'
<1>1. stops' = 0 => \A k \in Host : stopStep'[k] = "none"
  BY DEF Seats
<1>2. ASSUME NEW k \in Host
      PROVE  /\ host'[k][k].state \in Running => host'[k][k].voted
             /\ host'[k][k].state \in ActiveStates => master'[k] = k
             /\ host'[k][k].state \in {"Deactivating", "Inactive"} => master'[k] \in Host \ {k}
  BY DEF Seats, State
<1> QED
  BY <1>1, <1>2 DEF Seats, State

\* The states a step may leave a host in, and its master then.
LEMMA HostStepSeats ==
  ASSUME TypeOK, TypeOK', Connections, Seats, NEW h \in Host, Start(h) \/ Stop(h) \/ HostStep(h)
  PROVE  Seats'
<1>1. CASE Start(h)
  <2>1. Sees(h) /\ host'[h][h].state = "Electing" /\ host'[h][h].voted
    BY <1>1, StartSees
  <2>2. master' = [master EXCEPT ![h] = NoHost] /\ UNCHANGED <<stops, stopStep>>
    BY <1>1 DEF Start, StopReplication, boundVars
  <2>3. \A k \in Host \ {h} : master'[k] = master[k]
    BY <2>2 DEF TypeOK
  <2> QED
    BY <2>1, <2>2, <2>3, SeatsKept DEF Sees, ActiveStates
<1>2. CASE Stop(h)
  <2>1. Sees(h) /\ host'[h][h].state = "Stopping"
    BY <1>2, StopSees
  <2>2. master' = [master EXCEPT ![h] = NoHost] /\ stops' = stops + 1
    BY <1>2 DEF Stop, StopReplication
  <2>3. \A k \in Host \ {h} : master'[k] = master[k]
    BY <2>2 DEF TypeOK
  <2>4. stops' # 0
    BY <2>2, CountsType
  <2> QED
    BY <2>1, <2>3, <2>4, SeatsKept DEF Sees, ActiveStates, Running, Elected
<1>3. CASE HoldElection(h)
  <2>1. host[h][h].voted
    BY <1>3 DEF HoldElection, Seats, State, Running
  <2>2. /\ Looks(h)
        /\ \A k \in Host \ {h} : master'[k] = master[k]
        /\ \/ host'[h][h].state = "Activating" /\ master'[h] = h
           \/ host'[h][h].state = "Deactivating" /\ master'[h] \in Host \ {h}
    BY <1>3, <2>1, HoldElectionLooks
  <2>3. UNCHANGED <<stops, stopStep>>
    BY <1>3 DEF HoldElection
  <2> QED
    BY <2>1, <2>2, <2>3, SeatsKept DEF Looks, Sees, ActiveStates
<1>4. CASE Deactivate(h)
  <2>1. /\ Looks(h)
        /\ \A k \in Host \ {h} : master'[k] = master[k]
        /\ \/ host'[h][h].state = host[h][h].state /\ master'[h] = master[h]
           \/ /\ host[h][h].state \in {"Active", "Electing"} /\ host'[h][h].state = "Deactivating"
              /\ master'[h] \in Host \ {h}
    BY <1>4, DeactivateLooks
  <2>2. UNCHANGED <<stops, stopStep>>
    BY <1>4 DEF Deactivate, boundVars
  <2> QED
    BY <2>1, <2>2, SeatsKept DEF Looks, Sees, ActiveStates, Running, Elected
<1>5. CASE FinishElection(h)
  <2>1. /\ Looks(h)
        /\ \/ host[h][h].state = "Activating" /\ host'[h][h].state = "Active"
           \/ host[h][h].state = "Deactivating" /\ host'[h][h].state = "Inactive"
    BY <1>5, FinishElectionLooks
  <2>2. UNCHANGED <<master, stops, stopStep>>
    BY <1>5 DEF FinishElection, boundVars
  <2> QED
    BY <2>1, <2>2, SeatsKept DEF Looks, Sees, ActiveStates, Running, Elected
<1>6. CASE Reelect(h)
  <2>1. UNCHANGED <<master, stops, stopStep>>
    BY <1>6 DEF Reelect, boundVars
  <2>2. UNCHANGED host \/ (host[h][h].state = "Inactive" /\ host' = [host EXCEPT ![h][h].state = "Electing"])
    BY <1>6 DEF Reelect, State
  <2>3. Looks(h) /\ (host'[h][h].state = host[h][h].state \/ (host[h][h].state = "Inactive" /\ host'[h][h].state = "Electing"))
    BY <2>2, SameLooks, StateLooks DEF HostState
  <2> QED
    BY <2>1, <2>3, SeatsKept DEF Looks, Sees, ActiveStates, Running, Elected
<1>7. CASE StopDisconnect(h) \/ StopFinish(h)
  <2>1. UNCHANGED <<master, stops>> /\ stopStep[h] # "none"
    BY <1>7 DEF StopDisconnect, StopFinish, boundVars
  <2>2. stops' # 0
    BY <2>1 DEF Seats
  <2>3. UNCHANGED host \/ host' = [host EXCEPT ![h][h].state = "Stopped"]
    BY <1>7 DEF StopDisconnect, StopFinish
  <2>4. Looks(h) /\ (host'[h][h].state = host[h][h].state \/ host'[h][h].state = "Stopped")
    BY <2>3, SameLooks, StateLooks DEF HostState
  <2> QED
    BY <2>1, <2>2, <2>4, SeatsKept DEF Looks, Sees, ActiveStates, Running, Elected
<1>8. CASE WriteThread(h) \/ RecSend(h) \/ CountDisconnected(h) \/ Redial(h)
  <2>1. UNCHANGED <<host, master, stops, stopStep>>
    BY <1>8 DEF WriteThread, RecSend, CountDisconnected, Redial, envVars, boundVars
  <2> QED
    BY <2>1, SeatsKept
<1>9. CASE ClearCxn(h) \/ LoseHost(h)
  <2>1. UNCHANGED <<master, stops, stopStep>>
    BY <1>9 DEF ClearCxn, LoseHost, boundVars
  <2>2. /\ Sees(h)
        /\ \/ host'[h][h].state = host[h][h].state
           \/ host[h][h].state = "Inactive" /\ host'[h][h].state = "Electing"
    BY <1>9, ClearCxnSees, LoseHostSees DEF Looks
  <2> QED
    BY <2>1, <2>2, SeatsKept DEF Sees, ActiveStates, Running, Elected
<1> QED
  BY <1>1, <1>2, <1>3, <1>4, <1>5, <1>6, <1>7, <1>8, <1>9 DEF HostStep

LEMMA CxnStepSeats ==
  ASSUME TypeOK, TypeOK', Connections, Seats, NEW h \in Host, NEW c \in Cxn,
         CxnStep(c, h) \/ Heartbeat(c, h) \/ Disconnected(c, h)
  PROVE  Seats'
<1>1. UNCHANGED <<master, stops, stopStep>>
  BY DEF CxnStep, Connected, Opened, HbRcvd, CxnHbDataRcvd, RepRcvd, Heartbeat, Disconnected, envVars,
       boundVars
<1>2. /\ \A k \in Host \ {h} : host'[k][k].state = host[k][k].state /\ host'[k][k].voted = host[k][k].voted
      /\ host[h][h].voted => host'[h][h].voted
      /\ host'[h][h].state = host[h][h].state
  <2>1. CASE Connected(c, h) \/ Disconnected(c, h)
    BY <2>1 DEF Connected, Disconnected
  <2>2. CASE CxnHbDataRcvd(c, h)
    BY <2>2, CxnHbDataLooks
  <2>3. CASE RepRcvd(c, h)
    BY <2>3, RepRcvdLooks
  <2>4. CASE Heartbeat(c, h)
    BY <2>4, HeartbeatLooks DEF Looks, Sees
  <2>5. CASE Opened(c, h) \/ HbRcvd(c, h)
    BY <2>5, OpenedSees, HbRcvdLooks DEF Sees
  <2> QED
    BY <2>1, <2>2, <2>3, <2>4, <2>5 DEF CxnStep
<1> QED
  BY <1>1, <1>2 DEF Seats, State, Running, Elected, ActiveStates

LEMMA SeatsStep ==
  ASSUME TypeOK, TypeOK', Connections, Seats, [Next]_vars
  PROVE  Seats'
<1>1. CASE UNCHANGED vars
  BY <1>1 DEF vars, envVars, boundVars, Seats, State
<1>2. ASSUME NEW h \in Host, Push(h) \/ \E n \in RN : Put(h, n)
      PROVE  Seats'
  BY <1>2 DEF Push, Put, envVars, boundVars, Seats, State
<1>3. ASSUME NEW h \in Host, NEW p \in Host, NEW c \in Cxn, Connect(h, p, c)
      PROVE  Seats'
  BY <1>3 DEF Connect, boundVars, Seats, State
<1> QED
  BY <1>1, <1>2, <1>3, HostStepSeats, CxnStepSeats DEF Next

LEMMA InitSeats == Init => Seats
<1> SUFFICES ASSUME Init
             PROVE  Seats
  OBVIOUS
<1>1. \A h \in Host : State(h) = "Stopped"
  BY DEF Init, State
<1> QED
  BY <1>1 DEF Init, Seats, Running, Elected, ActiveStates

-----------------------------------------------------------------------------
(* Every step keeps CalmInv                                                *)

\* Who is active stays so, or gives way to a host that does.
Remains ==
  /\ \A p \in Host : (Seated(p) => Seated(p)') /\ (Beaten(p) => Beaten(p)')
  /\ Idle' => Idle

LEMMA ActiveStays ==
  ASSUME \A k \in Host : IsActive(k) => IsActive(k)', splits' = 0 => splits = 0
  PROVE  Remains
  BY DEF Remains, Seated, Beaten, Idle

\* A host that is to deactivate is not above a host that stays active.
LEMMA DeactivateStays ==
  ASSUME TypeOK, NEW h \in Host, Beaten(h), UNCHANGED splits,
         \A k \in Host \ {h} : IsActive(k) => IsActive(k)'
  PROVE  Remains
<1>1. PICK q \in Host : IsActive(q) /\ Priority[q] > Priority[h] /\ splits # 0
  BY DEF Beaten
<1>2. \A p \in Host : Priority[p] \in Nat
  BY PriorityAssumption
<1>3. q # h
  BY <1>1, <1>2
<1>4. IsActive(q)'
  BY <1>1, <1>3
<1>5. ASSUME NEW p \in Host, Beaten(p)
      PROVE  Beaten(p)'
  <2>1. PICK r \in Host : IsActive(r) /\ Priority[r] > Priority[p]
    BY <1>5 DEF Beaten
  <2>2. CASE r = h
    <3>1. Priority[q] > Priority[p]
      BY <1>1, <1>2, <2>1, <2>2
    <3> QED
      BY <1>1, <1>4, <3>1 DEF Beaten
  <2>3. CASE r # h
    BY <1>1, <2>1, <2>3 DEF Beaten
  <2> QED
    BY <2>2, <2>3
<1>6. ASSUME NEW p \in Host, Seated(p)
      PROVE  Seated(p)'
  BY <1>5, <1>6 DEF Seated
<1> QED
  BY <1>4, <1>5, <1>6 DEF Remains, Idle

LEMMA OnWayType ==
  ASSUME NEW ch, NEW m \in OnWay(ch)
  PROVE  m \in Msg /\ (m.type = "hb" => m.from \in Host)
  BY DEF OnWay, Msg, Heartbeats, Rep

LEMMA ClaimsKept ==
  ASSUME Claims, Remains,
         \A m \in OnWay(chan') : m \in OnWay(chan) \/ (m.type = "hb" /\ m.state \in ActiveStates => Seated(m.from)'),
         \A k, p \in Host : k # p => \/ host'[k][p].state \in {host[k][p].state, "Instantiated"}
                                     \/ host'[k][p].state \in ActiveStates => Seated(p)',
         \A k \in Host : deact'[k] => deact[k] \/ Beaten(k)'
  PROVE  Claims'
<1>1. ASSUME NEW m \in OnWay(chan')
      PROVE  Claim(m)'
  <2>1. CASE m \in OnWay(chan)
    <3>1. Claim(m) /\ (m.type = "hb" => m.from \in Host)
      BY <2>1, OnWayType DEF Claims
    <3> QED
      BY <3>1 DEF Claim, Remains
  <2> QED
    BY <1>1, <2>1 DEF Claim
<1>2. ASSUME NEW k \in Host, NEW p \in Host, k # p, host'[k][p].state \in ActiveStates
      PROVE  Seated(p)'
  <2>1. "Instantiated" \notin ActiveStates
    BY DEF ActiveStates
  <2>2. host[k][p].state \in ActiveStates => Seated(p)
    BY <1>2 DEF Claims
  <2> QED
    BY <1>2, <2>1, <2>2 DEF Remains
<1>3. ASSUME NEW k \in Host, deact'[k]
      PROVE  Beaten(k)'
  BY <1>3 DEF Claims, Remains
<1> QED
  BY <1>1, <1>2, <1>3 DEF Claims

\* A step that sends no more than a heartbeat, by a host that hears none.
LEMMA SeesSettled ==
  ASSUME Settled, Remains, NEW h \in Host, Sees(h), News(h), \A k \in Host : deact'[k] => deact[k],
         UNCHANGED <<nextRN, unsent, pushed>>,
         Blank \/ Idle => \A k \in Host : recovery'[k].rn >= recovery'[k].end,
         Idle /\ Idle' => Lost'
  PROVE  Settled'
<1>1. Claims'
  <2>1. \A m \in OnWay(chan') : m \in OnWay(chan) \/ (m.type = "hb" /\ m.state \in ActiveStates => Seated(m.from)')
    BY DEF News, Seated, IsActive, State
  <2>2. \A k, p \in Host : k # p => host'[k][p].state \in {host[k][p].state, "Instantiated"}
    BY DEF Sees
  <2> QED
    BY <2>1, <2>2, ClaimsKept DEF Settled
<1>2. (Blank' => Blank) /\ (Idle' => Idle)
  BY DEF Remains, Blank
<1>3. ASSUME Blank \/ Idle
      PROVE  Still'
  <2>1. Still
    BY <1>3 DEF Settled
  <2>2. \A m \in OnWay(chan') : Exact(m)'
    BY <2>1 DEF Still, News, Exact
  <2>3. \A k, p \in Host : p = k \/ host'[k][p].voted => host'[k][p].rn = nextRN'[p]
    BY <2>1 DEF Still, Sees
  <2> QED
    BY <1>3, <2>1, <2>2, <2>3 DEF Still
<1> QED
  BY <1>1, <1>2, <1>3 DEF Settled

LEMMA SameNews ==
  ASSUME NEW h \in Host, \A m \in OnWay(chan') : m \in OnWay(chan)
  PROVE  News(h)
  BY DEF News

\* Who has lost an election still has, and replicates to nobody.
LEMMA LostKept ==
  ASSUME Lost, UNCHANGED nextRN, \A k \in Host : next'[k] \in {next[k], NoHost},
         \A k \in Host : host'[k][k].state \in {"Deactivating", "Inactive"} =>
            host[k][k].state \in {"Deactivating", "Inactive"} /\ master'[k] = master[k]
  PROVE  Lost'
<1>1. ASSUME NEW k \in Host, host'[k][k].state \in {"Deactivating", "Inactive"}
      PROVE  Precedes(master[k], k)'
  BY <1>1 DEF Lost, Precedes, State
<1> QED
  BY <1>1 DEF Lost, State

LEMMA StartSettled ==
  ASSUME TypeOK, Settled, NEW h \in Host, Start(h)
  PROVE  Settled'
<1>1. Sees(h) /\ host[h][h].state = "Stopped" /\ host'[h][h].state = "Electing"
  BY StartSees DEF Start, State
<1>2. /\ UNCHANGED <<nextRN, unsent, pushed, chan, deact, splits>>
      /\ next' = [next EXCEPT ![h] = NoHost] /\ recovery' = [recovery EXCEPT ![h] = NoRecovery(@.cut)]
      /\ master' = [master EXCEPT ![h] = NoHost]
  BY DEF Start, StopReplication, dbVars, cxnVars, boundVars
<1>3. Remains
  BY <1>1, <1>2, ActiveStays DEF Sees, IsActive, State, ActiveStates
<1>4. Blank \/ Idle => \A k \in Host : recovery'[k].rn >= recovery'[k].end
  BY <1>2 DEF Settled, Still, NoRecovery, TypeOK
<1>5. \A k \in Host : next'[k] \in {next[k], NoHost} /\ (k # h => master'[k] = master[k])
  BY <1>2 DEF TypeOK
<1>6. Idle => Lost'
  BY <1>1, <1>2, <1>5, LostKept DEF Settled, Sees
<1> QED
  BY <1>1, <1>2, <1>3, <1>4, <1>6, SameNews, SeesSettled

\* Steps that elect nobody and leave everything but the connections as it is.
LEMMA PlainSettled ==
  ASSUME TypeOK, Settled, NEW h \in Host, Sees(h), News(h),
         \/ host'[h][h].state = host[h][h].state
         \/ host[h][h].state = "Inactive" /\ host'[h][h].state = "Electing",
         UNCHANGED <<nextRN, unsent, pushed, deact, next, recovery, master, splits>>
  PROVE  Settled'
<1>1. Remains
  BY ActiveStays DEF Sees, IsActive, State, ActiveStates
<1>2. Blank \/ Idle => \A k \in Host : recovery'[k].rn >= recovery'[k].end
  BY DEF Settled, Still
<1>3. Idle => Lost'
  BY LostKept DEF Settled, Sees
<1> QED
  BY <1>1, <1>2, <1>3, SeesSettled

\* Nobody is known to be active when nobody is.
LEMMA IdleViews ==
  ASSUME Claims, Idle, NEW h \in Host, NEW p \in Host
  PROVE  host[h][p].state \notin ActiveStates
  BY DEF Claims, Seated, Beaten, Idle, IsActive, State

\* A host that loses the first election loses it to one that precedes it.
LEMMA HoldElectionSettled ==
  ASSUME TypeOK, Settled, Seats, NEW h \in Host, HoldElection(h)
  PROVE  Settled'
<1>1. host[h][h].voted
  BY DEF HoldElection, Seats, State, Running
<1> DEFINE v == Refreshed(host[h], h)
<1>2. /\ Looks(h) /\ host[h][h].state = "Electing"
      /\ \A k \in Host \ {h} : master'[k] = master[k]
      /\ News(h)
      /\ \/ host'[h][h].state = "Activating"
         \/ /\ host'[h][h].state = "Deactivating" /\ master'[h] \in Host \ {h}
            /\ host[h][master'[h]].voted /\ Before(v, master'[h], h)
  BY <1>1, HoldElectionLooks
<1>3. UNCHANGED <<nextRN, unsent, pushed, deact, next, recovery>> /\ (splits' = 0 => splits = 0)
  <2>1. splits' = splits \/ splits' = splits + 1
    BY DEF HoldElection
  <2> QED
    BY <2>1, CountsType DEF HoldElection, dbVars
<1>4. Remains
  BY <1>2, <1>3, ActiveStays DEF Looks, Sees, IsActive, State, ActiveStates
<1>5. ASSUME Idle, Idle'
      PROVE  Lost'
  <2>1. host'[h][h].state = "Deactivating" /\ master'[h] \in Host \ {h}
        /\ host[h][master'[h]].voted /\ Before(v, master'[h], h)
    BY <1>2, <1>5 DEF Idle, IsActive, State, ActiveStates
  <2>2. PICK m \in Host \ {h} : m = master'[h]
    BY <2>1
  <2>3. v \in View /\ v[h].state = "Electing" /\ v[h].rn = nextRN[h] /\ v[m] = host[h][m]
    BY <1>2, <2>2, KnownType, RefreshedType, RefreshedIs
  <2>4. v[m].state \notin ActiveStates /\ v[m].rn = nextRN[m]
    BY <1>5, <2>1, <2>2, <2>3, IdleViews DEF Settled, Still
  <2> HIDE DEF v
  <2>5. Precedes(m, h)
    BY <2>1, <2>2, <2>3, <2>4, BeforeIs DEF View, Precedes, ActiveStates
  <2>6. Precedes(master[h], h)'
    BY <1>3, <2>2, <2>5 DEF Precedes
  <2>7. ASSUME NEW k \in Host \ {h}, host'[k][k].state \in {"Deactivating", "Inactive"}
        PROVE  Precedes(master[k], k)'
    <3>1. Precedes(master[k], k)
      BY <1>2, <1>5, <2>7 DEF Settled, Lost, Looks, Sees, State
    <3> QED
      BY <1>2, <1>3, <3>1 DEF Precedes
  <2>8. \A k \in Host : next'[k] = NoHost
    BY <1>3, <1>5 DEF Settled, Lost
  <2> QED
    BY <2>6, <2>7, <2>8 DEF Lost, State
<1>6. Blank \/ Idle => \A k \in Host : recovery'[k].rn >= recovery'[k].end
  BY <1>3 DEF Settled, Still
<1> QED
  BY <1>2, <1>3, <1>4, <1>5, <1>6, SeesSettled DEF Looks

LEMMA DeactivateSettled ==
  ASSUME TypeOK, Settled, NEW h \in Host, Deactivate(h)
  PROVE  Settled'
<1>1. /\ Looks(h) /\ deact[h]
      /\ \/ host'[h][h].state = host[h][h].state
         \/ host'[h][h].state = "Deactivating"
  BY DeactivateLooks
<1>2. UNCHANGED <<nextRN, unsent, pushed, chan, next, recovery, splits>> /\ deact' = [deact EXCEPT ![h] = FALSE]
  BY DEF Deactivate, dbVars, cxnVars, boundVars
<1>3. Beaten(h) /\ ~Idle
  BY <1>1 DEF Settled, Claims, Beaten, Idle
<1>4. Remains
  BY <1>1, <1>2, <1>3, DeactivateStays DEF Looks, Sees, IsActive, State
<1>5. Blank \/ Idle => \A k \in Host : recovery'[k].rn >= recovery'[k].end
  BY <1>2 DEF Settled, Still
<1>6. \A k \in Host : deact'[k] => deact[k]
  BY <1>2 DEF TypeOK
<1> QED
  BY <1>1, <1>2, <1>3, <1>4, <1>5, <1>6, SameNews, SeesSettled DEF Looks

\* Replicating to a host that has what this one has begins no recovery.
LEMMA ReplicateStill ==
  ASSUME TypeOK, NEW h \in Host, NEW v \in View, NEW p \in Host \cup {NoHost}, Replicate(h, v, p),
         p = NoHost \/ Blank, \A k \in Host : recovery[k].rn >= recovery[k].end
  PROVE  \A k \in Host : recovery'[k].rn >= recovery'[k].end
<1>1. p # NoHost => ~(v[p].rn < nextRN[h])
  <2>1. p # NoHost => v[p].rn \in Nat
    <3>1. p # NoHost => v[p].rn \in 0..MaxRN /\ MaxRN \in Nat
      BY BoundAssumption DEF View, Known
    <3> QED
      BY <3>1
  <2> QED
    BY <2>1 DEF Blank
<1>2. recovery' = [recovery EXCEPT ![h] = NoRecovery(Cut(h, v))]
  BY <1>1 DEF Replicate
<1> QED
  BY <1>2 DEF TypeOK, NoRecovery

\* Nobody is next in line while nobody is active: the only peer precedes the host.
LEMMA FinishElectionSettled ==
  ASSUME TypeOK, Pair, Settled, Seats, NEW h \in Host, FinishElection(h)
  PROVE  Settled'
<1> DEFINE s == IF host[h][h].state = "Activating" THEN "Active" ELSE "Inactive"
           v == [host[h] EXCEPT ![h].state = s]
           S == {p \in Voted(v) \ {h, prev[h]} : Above(v, h, p)}
<1>1. Replicate(h, v, NextInLine(h, v))
  BY KnownType DEF FinishElection, View, State
<1>2. /\ v \in View /\ \A q \in Host \ {h} : v[q] = host[h][q]
      /\ v[h].state = s /\ v[h].rn = host[h][h].rn /\ v[h].voted = host[h][h].voted
  BY KnownType, SetStateIs DEF HostState
<1>3. NextInLine(h, v) \in Host \cup {NoHost}
  BY <1>2, NextInLineType
<1>4. NextInLine(h, v) = FirstRanked(v, S)
  BY DEF NextInLine
<1> HIDE DEF v
<1>5. /\ Looks(h)
      /\ \/ host[h][h].state = "Activating" /\ host'[h][h].state = "Active"
         \/ host[h][h].state = "Deactivating" /\ host'[h][h].state = "Inactive"
  BY FinishElectionLooks
<1>6. UNCHANGED <<nextRN, unsent, pushed, chan, deact, master, splits>>
  BY DEF FinishElection, dbVars, cxnVars, boundVars
<1>7. ASSUME Idle
      PROVE  NextInLine(h, v) = NoHost
  <2>1. host[h][h].state = "Deactivating" /\ v[h].state \notin ActiveStates
    BY <1>2, <1>5, <1>7 DEF Idle, IsActive, State, ActiveStates
  <2>2. Still /\ Lost /\ Claims
    BY <1>7 DEF Settled
  <2>3. ASSUME NEW p \in S
        PROVE  FALSE
    <3>1. p \in Host \ {h} /\ host[h][p].voted /\ Above(v, h, p)
      BY <1>2 DEF Voted
    <3>2. p = master[h] /\ Precedes(p, h)
      BY <2>1, <2>2, <3>1 DEF Pair, Seats, Lost, State
    <3>3. v[h].rn = nextRN[h] /\ v[p].rn = nextRN[p] /\ v[p].state \notin ActiveStates
      BY <1>2, <1>7, <2>2, <3>1, IdleViews DEF Still
    <3>4. nextRN[h] \in Nat /\ nextRN[p] \in Nat /\ Priority[p] \in Nat /\ Priority[h] \in Nat
      BY <3>1, NextRNType, PriorityAssumption
    <3> QED
      BY <2>1, <3>1, <3>2, <3>3, <3>4 DEF Above, Precedes
  <2>4. S = {}
    BY <2>3
  <2> QED
    BY <1>4, <2>4 DEF FirstRanked
<1>8. Blank \/ Idle => \A k \in Host : recovery'[k].rn >= recovery'[k].end
  BY <1>1, <1>2, <1>3, <1>7, ReplicateStill DEF Settled, Still
<1>9. ASSUME Idle
      PROVE  Lost'
  <2>1. \A k \in Host : next'[k] \in {next[k], NoHost}
    BY <1>1, <1>2, <1>3, <1>7, <1>9, ReplicateIs
  <2>2. \A k \in Host : host'[k][k].state \in {"Deactivating", "Inactive"} => host[k][k].state \in {"Deactivating", "Inactive"}
    BY <1>5 DEF Looks, Sees
  <2> QED
    BY <1>6, <1>9, <2>1, <2>2, LostKept DEF Settled
<1>10. Remains
  BY <1>5, <1>6, ActiveStays DEF Looks, Sees, IsActive, State, ActiveStates
<1> QED
  BY <1>5, <1>6, <1>8, <1>9, <1>10, SameNews, SeesSettled DEF Looks

\* disconnected() replaces a lost next in line, or leaves the next in line.
LEMMA LoseHostNext ==
  ASSUME TypeOK, NEW h \in Host, LoseHost(h)
  PROVE  /\ \/ UNCHANGED <<next, recovery>>
            \/ /\ next[h] \in Host
               /\ \E v \in View, p \in Host \cup {NoHost} : Replicate(h, v, p)
         /\ UNCHANGED <<nextRN, unsent, pushed, deact, master, splits, stops, chan>>
<1> DEFINE p == rx[h].host
           v == [host[h] EXCEPT ![p].state = "Instantiated", ![p].voted = FALSE]
           pv == IF prev[h] = p THEN NoHost ELSE prev[h]
           S == {q \in Voted(v) \ {h, pv} : Above(v, h, q)}
<1>1. UNCHANGED <<nextRN, unsent, pushed, deact, master, splits, stops, chan>>
  BY DEF LoseHost, dbVars, cxnVars, boundVars
<1>2. UNCHANGED <<next, recovery>> \/ (next[h] = p /\ Replicate(h, v, FirstRanked(v, S)))
  BY DEF LoseHost
<1>3. p \in Host
  BY LoseHostIs
<1> HIDE DEF p
<1>4. v \in View
  <2>1. host[h] \in [Host -> Known]
    BY KnownType DEF View
  <2> DEFINE lost == [host[h][p] EXCEPT !.state = "Instantiated", !.voted = FALSE]
  <2>2. lost \in Known
    BY <1>3, <2>1 DEF Known, HostState
  <2>3. v = [host[h] EXCEPT ![p] = lost]
    BY <1>3, <2>1
  <2> HIDE DEF lost, v
  <2> QED
    BY <1>3, <2>1, <2>2, <2>3 DEF View
<1>5. S \in SUBSET Host
  BY DEF Voted
<1> HIDE DEF v, S
<1>6. FirstRanked(v, S) \in Host \cup {NoHost}
  BY <1>4, <1>5, FirstRankedIs DEF View
<1> QED
  BY <1>1, <1>2, <1>3, <1>4, <1>6

LEMMA LoseHostSettled ==
  ASSUME TypeOK, Connections, Settled, NEW h \in Host, LoseHost(h)
  PROVE  Settled'
<1>1. /\ Sees(h)
      /\ \/ host'[h][h].state = host[h][h].state
         \/ host[h][h].state = "Inactive" /\ host'[h][h].state = "Electing"
  BY LoseHostSees
<1>2. /\ \/ UNCHANGED <<next, recovery>>
         \/ next[h] \in Host /\ \E v \in View, p \in Host \cup {NoHost} : Replicate(h, v, p)
      /\ UNCHANGED <<nextRN, unsent, pushed, deact, master, splits, chan>>
  BY LoseHostNext
<1>3. CASE UNCHANGED <<next, recovery>>
  BY <1>1, <1>2, <1>3, SameNews, PlainSettled
<1>4. CASE next[h] \in Host /\ \E v \in View, p \in Host \cup {NoHost} : Replicate(h, v, p)
  <2>1. ~Idle
    BY <1>4, HostAssumption DEF Settled, Lost
  <2>2. Blank => \A k \in Host : recovery'[k].rn >= recovery'[k].end
    BY <1>4, ReplicateStill DEF Settled, Still
  <2>3. Remains
    BY <1>1, <1>2, ActiveStays DEF Sees, IsActive, State, ActiveStates
  <2> QED
    BY <1>1, <1>2, <2>1, <2>2, <2>3, SameNews, SeesSettled
<1> QED
  BY <1>2, <1>3, <1>4

LEMMA CxnHbDataSettled ==
  ASSUME TypeOK, Connections, Pair, OneMaster, Seats, Calm, Settled, NEW h \in Host, NEW c \in Cxn,
         CxnHbDataRcvd(c, h)
  PROVE  Settled'
<1>1. PICK p \in Host \ {h} : \E m \in OnWay(chan) :
           /\ m.type = "hb" /\ m.from = p /\ m.state \in HostState /\ m.rn \in 0..MaxRN
           /\ p = Peer(c, h) /\ m = Head(chan[c][h])
           /\ \A y \in OnWay(chan') : y \in OnWay(chan)
           /\ \A k \in Host \ {h} : host'[k] = host[k]
           /\ \A q \in Host \ {h, p} : host'[h][q] = host[h][q]
           /\ host'[h][p].state = m.state /\ host'[h][p].rn = m.rn
           /\ IsRunning(h) => host'[h][p].voted
           /\ host'[h][h].state = host[h][h].state /\ host'[h][h].rn \in {host[h][h].rn, nextRN[h]}
           /\ host'[h][h].voted = host[h][h].voted
           /\ \/ UNCHANGED <<next, recovery>>
              \/ /\ next' = [next EXCEPT ![h] = p] /\ Below(h, m.rn, m.state, p)
                 /\ host[h][h].state \in Elected
                 /\ Begins(h, m.rn)
           /\ \/ UNCHANGED deact
              \/ /\ IsActive(h) /\ m.state \in ActiveStates
                 /\ \A k \in Host \ {h} : deact'[k] = deact[k]
                 /\ deact'[h] => deact[h] \/ m.rn > nextRN[h] \/ (m.rn = nextRN[h] /\ Priority[p] > Priority[h])
  BY CxnHbDataLooks
<1>2. PICK m \in OnWay(chan) :
           /\ m.type = "hb" /\ m.from = p
           /\ \A y \in OnWay(chan') : y \in OnWay(chan)
           /\ \A k \in Host \ {h} : host'[k] = host[k]
           /\ \A q \in Host \ {h, p} : host'[h][q] = host[h][q]
           /\ host'[h][p].state = m.state /\ host'[h][p].rn = m.rn
           /\ host'[h][h].state = host[h][h].state /\ host'[h][h].rn \in {host[h][h].rn, nextRN[h]}
           /\ \/ UNCHANGED <<next, recovery>>
              \/ /\ next' = [next EXCEPT ![h] = p] /\ Below(h, m.rn, m.state, p)
                 /\ host[h][h].state \in Elected
                 /\ Begins(h, m.rn)
           /\ \/ UNCHANGED deact
              \/ /\ IsActive(h) /\ m.state \in ActiveStates
                 /\ \A k \in Host \ {h} : deact'[k] = deact[k]
                 /\ deact'[h] => deact[h] \/ m.rn > nextRN[h] \/ (m.rn = nextRN[h] /\ Priority[p] > Priority[h])
  BY <1>1
<1>3. UNCHANGED <<nextRN, unsent, pushed, master, splits>>
  BY DEF CxnHbDataRcvd, dbVars, boundVars
<1>4. m.state \in ActiveStates => Seated(p)
  BY <1>2 DEF Settled, Claims, Claim
<1>5. /\ nextRN[h] \in Nat /\ nextRN[p] \in Nat
      /\ \A k \in Host : Priority[k] \in Nat
  BY NextRNType, PriorityAssumption
<1>6. Blank \/ Idle => m.rn = nextRN[p]
  BY <1>2 DEF Settled, Still, Exact
<1>7. Remains
  BY <1>2, <1>3, ActiveStays DEF IsActive, State
<1>8. ASSUME deact'[h], ~deact[h]
      PROVE  Beaten(h)
  <2>1. /\ IsActive(h) /\ Seated(p)
        /\ m.rn > nextRN[h] \/ (m.rn = nextRN[h] /\ Priority[p] > Priority[h])
    BY <1>2, <1>4, <1>8
  <2>2. splits # 0
    <3> SUFFICES ASSUME splits = 0
                 PROVE  FALSE
      OBVIOUS
    <3>1. IsActive(p)
      BY <2>1 DEF Seated, Beaten
    <3>2. Leads
      BY DEF OneMaster, Histories
    <3> QED
      BY <2>1, <3>1, <3>2 DEF Leads
  <2>3. Blank
    BY <2>2 DEF Calm
  <2>4. Priority[p] > Priority[h]
    BY <1>5, <1>6, <2>1, <2>3 DEF Blank
  <2>5. CASE IsActive(p)
    BY <2>2, <2>4, <2>5 DEF Beaten
  <2>6. CASE Beaten(p)
    <3>1. PICK q \in Host : IsActive(q) /\ Priority[q] > Priority[p]
      BY <2>6 DEF Beaten
    <3>2. Priority[q] > Priority[h]
      BY <1>5, <2>4, <3>1
    <3> QED
      BY <2>2, <3>1, <3>2 DEF Beaten
  <2> QED
    BY <2>1, <2>5, <2>6 DEF Seated
<1>9. Claims'
  <2>1. \A k \in Host : deact'[k] => deact[k] \/ Beaten(k)'
    BY <1>2, <1>7, <1>8 DEF Remains
  <2>2. \A k, q \in Host : k # q => \/ host'[k][q].state \in {host[k][q].state, "Instantiated"}
                                    \/ host'[k][q].state \in ActiveStates => Seated(q)'
    BY <1>2, <1>4, <1>7 DEF Remains
  <2> QED
    BY <1>2, <1>7, <2>1, <2>2, ClaimsKept DEF Settled
<1>10. ASSUME Idle
       PROVE  UNCHANGED <<next, recovery>>
  <2> SUFFICES ASSUME Below(h, m.rn, m.state, p), host[h][h].state \in Elected
               PROVE  FALSE
    BY <1>2
  <2>1. host[h][h].state \in {"Deactivating", "Inactive"}
    BY <1>10 DEF Idle, IsActive, State, Elected, ActiveStates
  <2>2. p = master[h] /\ Precedes(p, h)
    BY <1>10, <2>1 DEF Pair, Seats, Settled, Lost, State
  <2>3. m.state \notin ActiveStates /\ ~IsActive(h) /\ m.rn = nextRN[p]
    BY <1>4, <1>6, <1>10 DEF Idle, Seated, Beaten
  <2> QED
    BY <1>5, <2>2, <2>3 DEF Below, Precedes
<1>11. ASSUME Blank \/ Idle
       PROVE  Still'
  <2>1. Still
    BY <1>11 DEF Settled
  <2>2. \A y \in OnWay(chan') : Exact(y)'
    BY <1>2, <1>3, <2>1 DEF Still, Exact
  <2>3. \A k \in Host : recovery'[k].rn >= recovery'[k].end
    <3>1. CASE UNCHANGED <<next, recovery>>
      BY <2>1, <3>1 DEF Still
    <3>2. CASE ~UNCHANGED <<next, recovery>>
      <4>1. ~(m.rn < nextRN[h])
        BY <1>5, <1>6, <1>10, <1>11, <3>2 DEF Blank
      <4>2. Begins(h, m.rn)
        BY <1>2, <3>2
      <4> QED
        BY <2>1, <4>1, <4>2 DEF Still, Begins
    <3> QED
      BY <3>1, <3>2
  <2>4. \A k, q \in Host : q = k \/ host'[k][q].voted => host'[k][q].rn = nextRN'[q]
    BY <1>2, <1>3, <1>6, <1>11, <2>1 DEF Still
  <2> QED
    BY <1>3, <2>1, <2>2, <2>3, <2>4 DEF Still
<1>12. ASSUME Idle
       PROVE  Lost'
  <2>1. \A k \in Host : host'[k][k].state = host[k][k].state
    BY <1>2
  <2> QED
    BY <1>3, <1>10, <1>12, <2>1, LostKept DEF Settled
<1> QED
  BY <1>3, <1>7, <1>9, <1>11, <1>12 DEF Settled, Remains, Blank

\* Where data is on its way, or is to be sent, a host is active and records are held.
LEMMA RepSettled ==
  ASSUME TypeOK, Settled, ~Blank, ~Idle, \A k, q \in Host : host'[k][q].state = host[k][q].state,
         \A k \in Host : nextRN[k] <= nextRN'[k],
         \A m \in OnWay(chan') : m \in OnWay(chan) \/ m.type = "rep",
         UNCHANGED <<deact, splits>>
  PROVE  Settled'
<1>1. Remains
  BY ActiveStays DEF IsActive, State
<1>2. Claims'
  BY <1>1, ClaimsKept DEF Settled
<1>3. ~Blank'
  <2>1. PICK k \in Host : nextRN[k] # 0
    BY DEF Blank
  <2>2. nextRN'[k] # 0
    BY <2>1, NextRNType
  <2> QED
    BY <2>2 DEF Blank
<1> QED
  BY <1>1, <1>2, <1>3 DEF Settled, Remains

LEMMA RepRcvdSettled ==
  ASSUME TypeOK, Connections, Settled, NEW h \in Host, NEW c \in Cxn, RepRcvd(c, h)
  PROVE  Settled'
<1>1. /\ \A k, q \in Host : host'[k][q].state = host[k][q].state
      /\ \A k \in Host : nextRN[k] <= nextRN'[k]
      /\ \A m \in OnWay(chan') : m \in OnWay(chan)
      /\ \E m \in OnWay(chan) : m.type = "rep"
      /\ UNCHANGED <<deact, splits>>
  BY RepRcvdLooks
<1>2. ~Still
  BY <1>1 DEF Still, Exact
<1> QED
  BY <1>1, <1>2, RepSettled DEF Settled

LEMMA WriteThreadSettled ==
  ASSUME TypeOK, Settled, NEW h \in Host, WriteThread(h)
  PROVE  Settled'
<1>1. /\ unsent[h] # << >> /\ chan' = Sent(chan, nextCxn[h], h, <<Head(unsent[h])>>)
      /\ UNCHANGED <<host, nextRN, deact, splits>>
  BY DEF WriteThread, envVars, boundVars
<1>2. Head(unsent[h]) \in Rep
  <2>1. unsent[h] \in Seq(Rep)
    BY DEF TypeOK
  <2> QED
    BY <1>1, <2>1, HeadTailProperties
<1>3. PICK x \in Msg : x = Head(unsent[h]) /\ x.type = "rep"
  BY <1>2 DEF Msg, Rep
<1>4. chan \in Channels
  BY DEF TypeOK, Channels
<1>5. \A m \in OnWay(chan') : m \in OnWay(chan) \/ m = x
  BY <1>1, <1>3, <1>4, OneOnWay
<1>6. ~Still
  BY <1>1 DEF Still
<1>7. \A k \in Host : nextRN[k] <= nextRN'[k]
  BY <1>1, NextRNType
<1> QED
  BY <1>1, <1>3, <1>5, <1>6, <1>7, RepSettled DEF Settled

LEMMA PutSettled ==
  ASSUME TypeOK, Settled, NEW h \in Host, NEW n \in RN, Put(h, n)
  PROVE  Settled'
<1>1. n \in pushed[h] /\ UNCHANGED <<host, nextRN, deact, splits>>
  BY DEF Put, envVars, boundVars
<1>2. PICK r \in {[op |-> "add", by |-> h], Deleted} : Write(h, RepMsg(n, r))
  BY PutIs
<1>3. PICK x \in Msg : x = RepMsg(n, r) /\ x.type = "rep"
  BY RepMsgType DEF Record, Deleted
<1>4. chan' = chan \/ chan' = Sent(chan, nextCxn[h], h, <<x>>)
  BY <1>2, <1>3 DEF Write
<1>5. chan \in Channels
  BY DEF TypeOK, Channels
<1>6. \A m \in OnWay(chan') : m \in OnWay(chan) \/ m = x
  BY <1>4, <1>5, OneOnWay
<1>7. ~Still
  BY <1>1 DEF Still
<1>8. \A k \in Host : nextRN[k] <= nextRN'[k]
  BY <1>1, NextRNType
<1> QED
  BY <1>1, <1>3, <1>6, <1>7, <1>8, RepSettled DEF Settled

LEMMA RecSendSettled ==
  ASSUME TypeOK, Settled, NEW h \in Host, RecSend(h)
  PROVE  Settled'
<1>1. UNCHANGED <<host, nextRN, deact, splits, master, next, unsent, pushed>>
  BY DEF RecSend, dbVars, boundVars
<1>2. CASE recovery[h].rn < recovery[h].end
  <2> DEFINE n == recovery[h].rn
  <2>1. chan' = Sent(chan, nextCxn[h], h, <<RepMsg(n, Recovered(rec[h][n]))>>)
    BY <1>2 DEF RecSend
  <2>2. recovery[h].rn \in Nat /\ recovery[h].end \in Nat /\ n \in RN
    <3>1. recovery[h] \in Recovery /\ MaxRN \in Nat
      BY NumbersType DEF TypeOK
    <3> QED
      BY <1>2, <3>1 DEF Recovery, RN
  <2>3. PICK x \in Msg : x = RepMsg(n, Recovered(rec[h][n])) /\ x.type = "rep"
    BY <2>2, RecoveredType, RepMsgType DEF TypeOK
  <2>4. chan \in Channels
    BY DEF TypeOK, Channels
  <2>5. \A m \in OnWay(chan') : m \in OnWay(chan) \/ m = x
    BY <2>1, <2>3, <2>4, OneOnWay
  <2>6. ~Still
    BY <1>2, <2>2 DEF Still
  <2>7. \A k \in Host : nextRN[k] <= nextRN'[k]
    BY <1>1, NextRNType
  <2> QED
    BY <1>1, <2>3, <2>5, <2>6, <2>7, RepSettled DEF Settled
<1>3. CASE ~(recovery[h].rn < recovery[h].end)
  <2>1. recovery' = [recovery EXCEPT ![h] = NoRecovery(@.cut)] /\ UNCHANGED chan
    BY <1>3 DEF RecSend
  <2>2. Blank \/ Idle => \A k \in Host : recovery'[k].rn >= recovery'[k].end
    BY <2>1 DEF Settled, Still, TypeOK, NoRecovery
  <2>3. Remains
    BY <1>1, ActiveStays DEF IsActive, State
  <2>4. Idle => Lost'
    BY <1>1, LostKept DEF Settled
  <2>5. Sees(h) /\ News(h)
    BY <1>1, <2>1, SameLooks, SameNews DEF Looks
  <2> QED
    BY <1>1, <2>2, <2>3, <2>4, <2>5, SeesSettled
<1> QED
  BY <1>2, <1>3

LEMMA PushSettled ==
  ASSUME TypeOK, Settled, NEW h \in Host, Push(h)
  PROVE  Settled'
<1>1. IsActive(h) /\ nextRN' = [nextRN EXCEPT ![h] = @ + 1] /\ UNCHANGED <<host, deact, splits, chan>>
  BY DEF Push, envVars, cxnVars, boundVars
<1>2. nextRN'[h] = nextRN[h] + 1 /\ nextRN[h] \in Nat
  BY <1>1, NextRNType DEF TypeOK
<1>3. Remains
  BY <1>1, ActiveStays DEF IsActive, State
<1>4. Claims'
  BY <1>1, <1>3, ClaimsKept DEF Settled
<1>5. ~Blank' /\ ~Idle
  <2>1. nextRN'[h] # 0
    BY <1>2
  <2> QED
    BY <1>1, <2>1 DEF Blank, Idle
<1> QED
  BY <1>3, <1>4, <1>5 DEF Settled, Remains

LEMMA CountsGrow ==
  ASSUME TypeOK, TypeOK', Connections, [Next]_vars
  PROVE  /\ \A k \in Host : nextRN[k] <= nextRN'[k]
         /\ stops' = 0 => stops = 0
         /\ splits' = 0 => splits = 0
         /\ faults' = 0 => faults = 0
<1>1. stops \in Nat /\ splits \in Nat /\ faults \in Nat
  BY CountsType
<1>2. \A k \in Host : nextRN[k] \in Nat
  BY NextRNType
<1>3. CASE UNCHANGED vars
  BY <1>2, <1>3 DEF vars, dbVars, boundVars
<1>4. ASSUME NEW h \in Host, Start(h) \/ Stop(h) \/ HostStep(h) \/ Push(h) \/ \E n \in RN : Put(h, n)
      PROVE  /\ \A k \in Host : nextRN[k] <= nextRN'[k]
             /\ stops' = 0 => stops = 0
             /\ splits' = 0 => splits = 0
             /\ faults' = 0 => faults = 0
  <2>1. /\ stops' \in {stops, stops + 1} /\ splits' \in {splits, splits + 1} /\ faults' = faults
    BY <1>4 DEF Start, Stop, HostStep, HoldElection, FinishElection, Deactivate, CountDisconnected, ClearCxn,
         LoseHost, Reelect, Redial, StopDisconnect, StopFinish, WriteThread, RecSend, Push, Put, boundVars
  <2>2. nextRN' \in {nextRN, [nextRN EXCEPT ![h] = @ + 1]}
    BY <1>4 DEF Start, Stop, HostStep, HoldElection, FinishElection, Deactivate, CountDisconnected, ClearCxn,
         LoseHost, Reelect, Redial, StopDisconnect, StopFinish, WriteThread, RecSend, Push, Put, dbVars
  <2>3. \A k \in Host : nextRN'[k] \in {nextRN[k], nextRN[k] + 1}
    BY <2>2 DEF TypeOK
  <2>4. \A k \in Host : nextRN[k] <= nextRN'[k]
    BY <1>2, <2>3
  <2> QED
    BY <1>1, <2>1, <2>4
<1>5. ASSUME NEW h \in Host, NEW c \in Cxn, CxnStep(c, h) \/ Heartbeat(c, h) \/ Disconnected(c, h)
      PROVE  /\ \A k \in Host : nextRN[k] <= nextRN'[k]
             /\ stops' = 0 => stops = 0
             /\ splits' = 0 => splits = 0
             /\ faults' = 0 => faults = 0
  <2>1. CASE RepRcvd(c, h)
    BY <2>1, RepRcvdLooks
  <2>2. CASE ~RepRcvd(c, h)
    <3>1. UNCHANGED <<nextRN, stops, splits>> /\ faults' \in {faults, faults + 1}
      BY <1>5, <2>2 DEF CxnStep, Connected, Opened, HbRcvd, CxnHbDataRcvd, Heartbeat, Disconnected, dbVars, boundVars
    <3> QED
      BY <1>1, <1>2, <3>1
  <2> QED
    BY <2>1, <2>2
<1>6. ASSUME NEW h \in Host, NEW p \in Host, NEW c \in Cxn, Connect(h, p, c)
      PROVE  UNCHANGED <<nextRN, stops, splits, faults>>
  BY <1>6 DEF Connect, dbVars, boundVars
<1> QED
  BY <1>2, <1>3, <1>4, <1>5, <1>6 DEF Next

LEMMA HostStepSettled ==
  ASSUME TypeOK, Connections, Pair, Seats, stops' = 0, stops = 0, Settled, NEW h \in Host,
         Start(h) \/ Stop(h) \/ HostStep(h) \/ Push(h)
  PROVE  Settled'
<1>1. ~Stop(h)
  <2>1. stops + 1 # 0
    BY CountsType
  <2> QED
    BY <2>1 DEF Stop
<1>2. ~StopDisconnect(h) /\ ~StopFinish(h)
  BY DEF Seats, StopDisconnect, StopFinish
<1>3. CASE Reelect(h)
  <2>1. UNCHANGED host \/ (host[h][h].state = "Inactive" /\ host' = [host EXCEPT ![h][h].state = "Electing"])
    BY <1>3 DEF Reelect, State
  <2>2. Looks(h) /\ (host'[h][h].state = host[h][h].state \/ (host[h][h].state = "Inactive" /\ host'[h][h].state = "Electing"))
    BY <2>1, SameLooks, StateLooks DEF HostState
  <2>3. UNCHANGED <<nextRN, unsent, pushed, deact, next, recovery, master, splits, chan>>
    BY <1>3 DEF Reelect, dbVars, cxnVars, boundVars
  <2> QED
    BY <2>2, <2>3, SameNews, PlainSettled DEF Looks
<1>4. CASE CountDisconnected(h) \/ ClearCxn(h) \/ Redial(h)
  <2>1. UNCHANGED <<nextRN, unsent, pushed, deact, next, recovery, master, splits, chan>>
    BY <1>4 DEF CountDisconnected, ClearCxn, Redial, dbVars, cxnVars, boundVars
  <2>2. UNCHANGED host \/ ClearCxn(h)
    BY <1>4 DEF CountDisconnected, Redial
  <2>3. Looks(h) /\ host'[h][h].state = host[h][h].state
    BY <2>2, SameLooks, ClearCxnSees
  <2> QED
    BY <2>1, <2>3, SameNews, PlainSettled DEF Looks
<1> QED
  BY <1>1, <1>2, <1>3, <1>4, LoseHostSettled, StartSettled, HoldElectionSettled, DeactivateSettled, FinishElectionSettled,
     WriteThreadSettled, RecSendSettled, PushSettled DEF HostStep

LEMMA CxnStepSettled ==
  ASSUME TypeOK, Connections, Pair, OneMaster, Seats, Calm, Settled, NEW h \in Host, NEW c \in Cxn,
         CxnStep(c, h) \/ Heartbeat(c, h) \/ Disconnected(c, h)
  PROVE  Settled'
<1>1. CASE Connected(c, h) \/ Opened(c, h) \/ HbRcvd(c, h) \/ Disconnected(c, h)
  <2>1. Sees(h) /\ News(h) /\ host'[h][h].state = host[h][h].state
    <3>1. CASE Connected(c, h)
      BY <3>1, ConnectedSees, SameLooks, SameNews DEF Looks
    <3>2. CASE Opened(c, h)
      BY <3>2, OpenedSees
    <3>3. CASE HbRcvd(c, h)
      BY <3>3, HbRcvdLooks, SameNews
    <3>4. CASE Disconnected(c, h)
      <4>1. UNCHANGED host /\ chan' = [chan EXCEPT ![c][h] = << >>]
        BY <3>4 DEF Disconnected, Gone
      <4> QED
        BY <4>1, EmptyOnWay, SameLooks, SameNews DEF Looks
    <3> QED
      BY <1>1, <3>1, <3>2, <3>3, <3>4
  <2>2. UNCHANGED <<nextRN, unsent, pushed, deact, next, recovery, master, splits>>
    BY <1>1 DEF Connected, Opened, HbRcvd, Disconnected, envVars, dbVars, boundVars
  <2> QED
    BY <2>1, <2>2, PlainSettled
<1>2. CASE Heartbeat(c, h)
  <2>1. Looks(h) /\ News(h) /\ host'[h][h].state = host[h][h].state
    BY <1>2, HeartbeatLooks, HeartbeatNews
  <2>2. UNCHANGED <<nextRN, unsent, pushed, deact, next, recovery, master, splits>>
    BY <1>2 DEF Heartbeat, envVars, dbVars, boundVars
  <2> QED
    BY <2>1, <2>2, PlainSettled DEF Looks
<1> QED
  BY <1>1, <1>2, CxnHbDataSettled, RepRcvdSettled DEF CxnStep

LEMMA CalmStep ==
  ASSUME TypeOK, TypeOK', Connections, Pair, OneMaster, Seats, CalmInv, [Next]_vars
  PROVE  CalmInv'
<1> SUFFICES ASSUME Calm'
             PROVE  Settled'
  BY DEF CalmInv
<1>1. Calm /\ stops = 0 /\ stops' = 0
  <2>1. /\ \A k \in Host : nextRN[k] <= nextRN'[k]
        /\ stops' = 0 => stops = 0
        /\ splits' = 0 => splits = 0
    BY CountsGrow
  <2>2. \A k \in Host : nextRN'[k] = 0 => nextRN[k] = 0
    BY <2>1, NextRNType
  <2> QED
    BY <2>1, <2>2 DEF Calm, Blank
<1>2. Settled
  BY <1>1 DEF CalmInv
<1>3. PICK a \in Host : TRUE
  BY DEF Pair
<1>4. CASE UNCHANGED vars
  <2>1. UNCHANGED <<host, nextRN, unsent, pushed, deact, next, recovery, master, splits, chan>>
    BY <1>4 DEF vars, envVars, dbVars, cxnVars, boundVars
  <2> QED
    BY <1>2, <1>3, <2>1, SameLooks, SameNews, PlainSettled DEF Looks
<1>5. ASSUME NEW h \in Host, NEW p \in Host, NEW c \in Cxn, Connect(h, p, c)
      PROVE  Settled'
  <2>1. UNCHANGED <<host, nextRN, unsent, pushed, deact, next, recovery, master, splits, chan>>
    BY <1>5 DEF Connect, dbVars, boundVars
  <2> QED
    BY <1>2, <2>1, SameLooks, SameNews, PlainSettled DEF Looks
<1> QED
  BY <1>1, <1>2, <1>4, <1>5, HostStepSettled, CxnStepSettled, PutSettled DEF Next

LEMMA InitCalm == Init => CalmInv
<1> SUFFICES ASSUME Init
             PROVE  Settled
  BY DEF CalmInv
<1>1. TypeOK
  BY InitType
<1>2. \A m : m \notin OnWay(chan)
  <2> SUFFICES ASSUME NEW m \in OnWay(chan)
               PROVE  FALSE
    OBVIOUS
  <2>1. chan \in Channels /\ \A c \in Cxn, k \in Host : chan[c][k] = << >>
    BY DEF Init, Channels
  <2>2. PICK c \in Cxn, k \in Host : \E i \in 1..Len(chan[c][k]) : m = chan[c][k][i]
    BY <2>1, OnWayIs
  <2> QED
    BY <2>1, <2>2
<1>3. \A h, p \in Host : /\ host[h][p].state = IF p = h THEN "Stopped" ELSE "Instantiated"
                         /\ ~host[h][p].voted
                         /\ p = h => host[h][p].rn = nextRN[h]
  BY DEF Init
<1>4. \A h \in Host : /\ ~deact[h] /\ unsent[h] = << >> /\ pushed[h] = {} /\ next[h] = NoHost
                      /\ recovery[h].rn >= recovery[h].end
  BY DEF Init, NoRecovery
<1>5. Claims
  BY <1>2, <1>3, <1>4 DEF Claims, ActiveStates
<1>6. Still
  BY <1>2, <1>3, <1>4 DEF Still
<1>7. Lost
  BY <1>3, <1>4 DEF Lost, State
<1> QED
  BY <1>5, <1>6, <1>7 DEF Settled

\* Two hosts that are elected, not both active: one of them is, and both take it for the master.
LEMMA MasterElected ==
  ASSUME TypeOK, Pair, Seats, CalmInv, Calm, Quiet, ~Dual
  PROVE  \E m \in Host : State(m) = "Active" /\ \A h \in Host : master[h] = m
<1>1. \A h \in Host : State(h) \in {"Active", "Inactive"}
  BY DEF Quiet
<1>2. CASE \E m \in Host : State(m) = "Active"
  <2>1. PICK m \in Host : State(m) = "Active"
    BY <1>2
  <2>2. ASSUME NEW h \in Host
        PROVE  master[h] = m
    <3>1. CASE h = m
      BY <2>1, <3>1 DEF Seats, ActiveStates
    <3>2. CASE h # m
      <4>1. State(h) = "Inactive"
        BY <1>1, <2>1, <3>2 DEF Dual
      <4>2. master[h] \in Host \ {h}
        BY <4>1 DEF Seats
      <4> QED
        BY <3>2, <4>2 DEF Pair
    <3> QED
      BY <3>1, <3>2
  <2> QED
    BY <2>1, <2>2
<1>3. CASE \A m \in Host : State(m) = "Inactive"
  <2>1. Lost
    BY <1>3 DEF CalmInv, Settled, Idle, IsActive, ActiveStates
  <2>2. PICK h \in Host : TRUE
    BY DEF Pair
  <2>3. PICK p \in Host \ {h} : p = master[h]
    BY <1>3, <2>2 DEF Seats
  <2>4. master[p] \in Host \ {p}
    BY <1>3, <2>3 DEF Seats
  <2>5. master[p] = h
    BY <2>3, <2>4 DEF Pair
  <2>6. Precedes(p, h) /\ Precedes(h, p)
    BY <1>3, <2>1, <2>2, <2>3, <2>5 DEF Lost
  <2>7. /\ nextRN[h] \in Nat /\ nextRN[p] \in Nat /\ Priority[h] \in Nat /\ Priority[p] \in Nat
        /\ h \in Nat /\ p \in Nat
    BY <2>2, <2>3, NextRNType, PriorityAssumption, HostAssumption
  <2> QED
    BY <2>3, <2>6, <2>7 DEF Precedes
<1> QED
  BY <1>1, <1>2, <1>3

-----------------------------------------------------------------------------
(* The inductive invariant about connections that do not break             *)
(*                                                                         *)
(* Of two hosts that are never stopped, and whose connection does not      *)
(* break, each hears of the other once and for all: a host that is to      *)
(* deactivate has heard of the one that is above it.                       *)

\* An end that is connected has sent a heartbeat, which the other end is yet to read as long
\* as it is not associated; one that is to be connected has sent nothing.
Spoken(ch) == \A c \in Cxn, h, p \in Host :
  h # p /\ end[c][h] = "up" /\ end[c][p] # "none" /\ assoc[c][p] = NoHost =>
    ch[c][p] # << >> /\ Head(ch[c][p]).type = "hb"
Silent(ch) == \A c \in Cxn, h, p \in Host :
  h # p /\ end[c][h] = "opening" /\ end[c][p] # "none" => ch[c][p] = << >>

Intact ==
  /\ \A c \in Cxn, h \in Host : end[c][h] \in {"none", "opening", "up"}
  /\ \A c, d \in Cxn, h, p \in Host : end[c][h] # "none" /\ end[d][p] # "none" => c = d
  /\ \A c \in Cxn, h, p \in Host : end[c][h] # "none" => dial[p] = {} /\ host[p][p].state \in Running
  /\ \A h \in Host : rx[h].step \notin LosingStep
  /\ \A h, p \in Host : h # p /\ host[h][p].voted => \E c \in Cxn : end[c][h] = "up" /\ assoc[c][h] = p
  /\ \A c \in Cxn, h, p \in Host : end[c][h] = "up" /\ assoc[c][h] = p => host[h][p].cxn = c
  /\ Spoken(chan) /\ Silent(chan)
  /\ \A h \in Host : deact[h] => \E p \in Host \ {h} : host[h][p].voted

Unbroken == faults = 0 /\ stops = 0 => Intact

LEMMA IntactPeer ==
  ASSUME TypeOK, Intact, Connections, NEW c \in Cxn, NEW h \in Host, end[c][h] \in Open
  PROVE  /\ end[c][h] = "up" /\ Peer(c, h) \in Host \ {h} /\ ~PeerGone(c, h)
         /\ end[c][Peer(c, h)] # "none"
<1>1. end[c][h] = "up"
  BY DEF Intact, Open
<1>2. Peer(c, h) \in Host \ {h} /\ end[c][Peer(c, h)] # "none"
  BY <1>1, PeerIs DEF Connections
<1>3. end[c][Peer(c, h)] \in {"none", "opening", "up"}
  BY <1>2 DEF Intact
<1> QED
  BY <1>1, <1>2, <1>3 DEF PeerGone

\* What an end that is connected sends is behind its heartbeat.
LEMMA SentSpoken ==
  ASSUME TypeOK, Intact, Connections, NEW h \in Host, NEW c \in Cxn \cup {NoCxn}, NEW ch \in Channels,
         NEW msgs \in Seq(Msg), Spoken(ch), Silent(ch)
  PROVE  Spoken(Sent(ch, c, h, msgs)) /\ Silent(Sent(ch, c, h, msgs))
<1>1. CASE ~(c # NoCxn /\ end[c][h] \in Open /\ ~PeerGone(c, h))
  BY <1>1 DEF Sent
<1>2. CASE c # NoCxn /\ end[c][h] \in Open /\ ~PeerGone(c, h)
  <2> DEFINE p == Peer(c, h)
             s == [ch EXCEPT ![c][p] = @ \o msgs]
  <2>1. c \in Cxn /\ end[c][h] = "up" /\ p \in Host \ {h}
    BY <1>2, IntactPeer
  <2>2. s = Sent(ch, c, h, msgs)
    BY <1>2 DEF Sent
  <2>3. /\ end[c][p] # "none" /\ \A x \in Host \ {h, p} : end[c][x] = "none"
    BY <2>1, PeerIs DEF Connections
  <2> HIDE DEF p
  <2>4. ch[c][p] \in Seq(Msg) /\ s[c][p] = ch[c][p] \o msgs
    BY <2>1 DEF Channels
  <2>5. \A d \in Cxn, k \in Host : d # c \/ k # p => s[d][k] = ch[d][k]
    BY DEF Channels
  <2> HIDE DEF s
  <2>6. ch[c][p] # << >> => s[c][p] # << >> /\ Head(s[c][p]) = Head(ch[c][p])
    <3> SUFFICES ASSUME ch[c][p] # << >>
                 PROVE  s[c][p] # << >> /\ Head(s[c][p]) = Head(ch[c][p])
      OBVIOUS
    <3>1. Len(ch[c][p]) \in Nat /\ Len(ch[c][p]) > 0 /\ Len(msgs) \in Nat
      BY <2>4
    <3>2. Len(s[c][p]) = Len(ch[c][p]) + Len(msgs) /\ s[c][p] \in Seq(Msg) /\ s[c][p][1] = ch[c][p][1]
      BY <2>4, <3>1
    <3> QED
      BY <2>4, <3>1, <3>2
  <2>7. Spoken(s)
    BY <2>1, <2>5, <2>6 DEF Spoken
  <2>8. Silent(s)
    <3> SUFFICES ASSUME NEW d \in Cxn, NEW k \in Host, NEW q \in Host,
                        k # q, end[d][k] = "opening", end[d][q] # "none"
                 PROVE  s[d][q] = << >>
      BY DEF Silent
    <3>1. ~(d = c /\ q = p)
      BY <2>1, <2>3
    <3> QED
      BY <2>5, <3>1 DEF Silent
  <2> QED
    BY <2>2, <2>7, <2>8
<1> QED
  BY <1>1, <1>2

LEMMA AnnouncedSpoken ==
  ASSUME TypeOK, Intact, Connections, NEW h \in Host, NEW v \in View
  PROVE  Spoken(Announced(h, v)) /\ Silent(Announced(h, v))
<1>1. PICK x \in Msg : x = Hb(h, v)
  BY HbType
<1>2. chan \in Channels /\ <<x>> \in Seq(Msg)
  BY DEF TypeOK, Channels
<1>3. \A c \in Cxn : Spoken(Sent(chan, c, h, <<x>>)) /\ Silent(Sent(chan, c, h, <<x>>))
  BY <1>2, SentSpoken DEF Intact
<1>4. \A c \in Cxn : Announced(h, v)[c] = Sent(chan, c, h, <<x>>)[c]
  BY <1>1 DEF Announced
<1> QED
  BY <1>3, <1>4 DEF Spoken, Silent

\* An end that is associated may read on.
LEMMA TailSpoken ==
  ASSUME TypeOK, Intact, NEW h \in Host, NEW c \in Cxn, chan[c][h] # << >>, assoc[c][h] # NoHost
  PROVE  Spoken([chan EXCEPT ![c][h] = Tail(@)]) /\ Silent([chan EXCEPT ![c][h] = Tail(@)])
<1> DEFINE rest == [chan EXCEPT ![c][h] = Tail(@)]
<1>1. \A d \in Cxn, k \in Host : d # c \/ k # h => rest[d][k] = chan[d][k]
  BY DEF TypeOK
<1> HIDE DEF rest
<1>2. Spoken(rest)
  BY <1>1 DEF Spoken, Intact
<1>3. Silent(rest)
  BY <1>1 DEF Silent, Intact
<1> QED
  BY <1>2, <1>3 DEF rest

\* Steps that connect nothing and count no new vote.
LEMMA IntactKept ==
  ASSUME Intact, UNCHANGED <<end, assoc, rx, dial>>,
         \A k, p \in Host : k # p => (host'[k][p].voted <=> host[k][p].voted),
         \A k \in Host : host[k][k].state \in Running => host'[k][k].state \in Running,
         \A k, p \in Host : host'[k][p].cxn = host[k][p].cxn,
         \A k \in Host : deact'[k] => deact[k],
         Spoken(chan'), Silent(chan')
  PROVE  Intact'
<1>1. /\ \A c \in Cxn, h \in Host : end'[c][h] \in {"none", "opening", "up"}
      /\ \A c, d \in Cxn, h, p \in Host : end'[c][h] # "none" /\ end'[d][p] # "none" => c = d
      /\ \A h \in Host : rx'[h].step \notin LosingStep
  BY DEF Intact
<1>2. \A c \in Cxn, h, p \in Host : end'[c][h] # "none" => dial'[p] = {} /\ host'[p][p].state \in Running
  BY DEF Intact
<1>3. \A h, p \in Host : h # p /\ host'[h][p].voted => \E c \in Cxn : end'[c][h] = "up" /\ assoc'[c][h] = p
  BY DEF Intact
<1>4. \A c \in Cxn, h, p \in Host : end'[c][h] = "up" /\ assoc'[c][h] = p => host'[h][p].cxn = c
  BY DEF Intact
<1>5. Spoken(chan)' /\ Silent(chan)'
  BY DEF Spoken, Silent
<1>6. \A h \in Host : deact'[h] => \E p \in Host \ {h} : host'[h][p].voted
  BY DEF Intact
<1> QED
  BY <1>1, <1>2, <1>3, <1>4, <1>5, <1>6 DEF Intact

\* Nobody has heard of anybody while nothing is connected.
LEMMA ApartIs ==
  ASSUME Intact, \A c \in Cxn, h \in Host : end[c][h] # "up"
  PROVE  /\ \A h, p \in Host : h # p => ~host[h][p].voted
         /\ \A h \in Host : ~deact[h]
  BY DEF Intact

LEMMA LooksVotes ==
  ASSUME NEW h \in Host, Looks(h), host[h][h].state \in Running => host'[h][h].state \in Running
  PROVE  /\ \A k, p \in Host : k # p /\ host'[k][p].voted => host[k][p].voted
         /\ \A k, p \in Host : k # p /\ host[k][p].voted => host'[k][p].voted
         /\ \A k \in Host : host[k][k].state \in Running => host'[k][k].state \in Running
  BY DEF Looks, Sees

LEMMA LooksIntact ==
  ASSUME Intact, NEW h \in Host, Looks(h), host[h][h].state \in Running => host'[h][h].state \in Running,
         UNCHANGED <<end, assoc, rx, dial>>,
         \A k, p \in Host : host'[k][p].cxn = host[k][p].cxn,
         \A k \in Host : deact'[k] => deact[k],
         Spoken(chan'), Silent(chan')
  PROVE  Intact'
<1>1. \A k, p \in Host : k # p => (host'[k][p].voted <=> host[k][p].voted)
  BY LooksVotes
<1>2. \A k \in Host : host[k][k].state \in Running => host'[k][k].state \in Running
  BY LooksVotes
<1> QED
  BY <1>1, <1>2, IntactKept

\* start(): the host is connected to nobody yet.
LEMMA StartIntact ==
  ASSUME TypeOK, Connections, Intact, NEW h \in Host, Start(h)
  PROVE  Intact'
<1>1. host[h][h].state = "Stopped" /\ UNCHANGED <<deact, rx, end, assoc, chan>>
  BY DEF Start, State, cxnVars
<1>2. \A c \in Cxn, k \in Host : end[c][k] = "none"
  BY <1>1 DEF Intact, Running, Elected
<1>3. /\ \A k, p \in Host : k # p => ~host[k][p].voted
      /\ \A k \in Host : ~deact[k]
  BY <1>2, ApartIs
<1>4. \A k, p \in Host : k # p => ~host'[k][p].voted
  BY <1>3, StartSees DEF Sees
<1> QED
  BY <1>1, <1>2, <1>3, <1>4 DEF Intact, Spoken, Silent

LEMMA HoldElectionIntact ==
  ASSUME TypeOK, Connections, Seats, Intact, NEW h \in Host, HoldElection(h)
  PROVE  Intact'
<1> DEFINE v == Refreshed(host[h], h)
           s == IF FirstRanked(v, Voted(v)) = h THEN "Activating" ELSE "Deactivating"
           w == [v EXCEPT ![h].state = s]
<1>1. /\ host[h][h].state = "Electing" /\ host' = [host EXCEPT ![h] = w] /\ chan' \in {chan, Announced(h, w)}
      /\ UNCHANGED <<end, assoc, rx, dial, deact>>
  BY DEF HoldElection, State
<1>2. v \in View /\ \A q \in Host : v[q].cxn = host[h][q].cxn
  BY KnownType, RefreshedType
<1>3. s \in HostState
  BY DEF HostState
<1> HIDE DEF v, s
<1>4. w \in View /\ \A q \in Host : w[q].cxn = host[h][q].cxn
  BY <1>2, <1>3, StateType
<1> HIDE DEF w
<1>5. \A k, q \in Host : host'[k][q].cxn = host[k][q].cxn
  BY <1>1, <1>4 DEF TypeOK
<1>6. Spoken(chan') /\ Silent(chan')
  BY <1>1, <1>4, AnnouncedSpoken DEF Intact
<1>7. host[h][h].voted
  BY <1>1 DEF Seats, State, Running
<1>8. Looks(h) /\ host'[h][h].state \in Running
  BY <1>7, HoldElectionLooks DEF Running, Elected
<1> QED
  BY <1>1, <1>5, <1>6, <1>8, LooksIntact

LEMMA DeactivateIntact ==
  ASSUME TypeOK, Connections, Intact, NEW h \in Host, Deactivate(h)
  PROVE  Intact'
<1> DEFINE r == Refreshed(host[h], h)
           w == [r EXCEPT ![h].voted = FALSE]
           u == [w EXCEPT ![h].voted = TRUE, ![h].state = "Deactivating"]
<1>1. r \in View /\ \A q \in Host : r[q].cxn = host[h][q].cxn
  BY KnownType, RefreshedType
<1> HIDE DEF r
<1>2. \A q \in Host : u[q].cxn = host[h][q].cxn
  BY <1>1 DEF View, Known
<1>3. /\ host' \in {host, [host EXCEPT ![h] = u]} /\ deact' = [deact EXCEPT ![h] = FALSE]
      /\ UNCHANGED <<end, assoc, chan, dial, rx>>
  BY DEF Deactivate, r, cxnVars
<1> HIDE DEF u
<1>4. \A k, q \in Host : host'[k][q].cxn = host[k][q].cxn
  BY <1>2, <1>3 DEF TypeOK
<1>5. \A k \in Host : deact'[k] => deact[k]
  BY <1>3 DEF TypeOK
<1>6. Looks(h) /\ (host[h][h].state \in Running => host'[h][h].state \in Running)
  BY DeactivateLooks DEF Running, Elected
<1>7. Spoken(chan') /\ Silent(chan')
  BY <1>3 DEF Intact
<1> QED
  BY <1>3, <1>4, <1>5, <1>6, <1>7, LooksIntact

LEMMA FinishElectionIntact ==
  ASSUME TypeOK, Connections, Intact, NEW h \in Host, FinishElection(h)
  PROVE  Intact'
<1> DEFINE s == IF host[h][h].state = "Activating" THEN "Active" ELSE "Inactive"
           v == [host[h] EXCEPT ![h].state = s]
<1>1. v \in View /\ \A q \in Host : v[q].cxn = host[h][q].cxn
  <2>1. s \in HostState /\ host[h] \in View
    BY KnownType DEF HostState
  <2> QED
    BY <2>1, StateType
<1>2. Replicate(h, v, NextInLine(h, v)) /\ UNCHANGED <<end, assoc, chan, dial, rx, deact>>
  BY KnownType DEF FinishElection, View, cxnVars
<1> HIDE DEF v
<1>3. NextInLine(h, v) \in Host \cup {NoHost}
  BY <1>1, NextInLineType
<1>4. \A k, q \in Host : host'[k][q].cxn = host[k][q].cxn
  BY <1>1, <1>2, <1>3, ReplicateFollows
<1>5. Looks(h) /\ host'[h][h].state \in Running
  BY FinishElectionLooks DEF Running, Elected
<1>6. Spoken(chan') /\ Silent(chan')
  BY <1>2 DEF Intact
<1> QED
  BY <1>2, <1>4, <1>5, <1>6, LooksIntact

LEMMA HeartbeatIntact ==
  ASSUME TypeOK, Connections, Intact, NEW h \in Host, NEW c \in Cxn, Heartbeat(c, h)
  PROVE  Intact'
<1> DEFINE v == Refreshed(host[h], h)
<1>1. v \in View /\ \A q \in Host : v[q].cxn = host[h][q].cxn
  BY KnownType, RefreshedType
<1>2. /\ host' = [host EXCEPT ![h] = v] /\ chan' = Sent(chan, c, h, <<Hb(h, v)>>)
      /\ UNCHANGED <<dial, end, assoc, rx, deact>>
  BY DEF Heartbeat, envVars
<1> HIDE DEF v
<1>3. PICK x \in Msg : x = Hb(h, v)
  BY <1>1, HbType
<1>4. chan \in Channels /\ <<x>> \in Seq(Msg)
  BY DEF TypeOK, Channels
<1>5. Spoken(chan') /\ Silent(chan')
  BY <1>2, <1>3, <1>4, SentSpoken DEF Intact
<1>6. \A k, q \in Host : host'[k][q].cxn = host[k][q].cxn
  BY <1>1, <1>2 DEF TypeOK
<1> QED
  BY <1>2, <1>5, <1>6, HeartbeatLooks, LooksIntact

\* The write thread, recovery and the application send behind the heartbeat.
LEMMA SendIntact ==
  ASSUME TypeOK, Connections, Intact, NEW h \in Host, NEW c \in Cxn \cup {NoCxn}, NEW m \in Msg,
         chan' \in {chan, Sent(chan, c, h, <<m>>)}, UNCHANGED <<host, end, assoc, rx, dial, deact>>
  PROVE  Intact'
<1>1. chan \in Channels /\ <<m>> \in Seq(Msg)
  BY DEF TypeOK, Channels
<1>2. Spoken(chan) /\ Silent(chan)
  BY DEF Intact
<1>3. Spoken(Sent(chan, c, h, <<m>>)) /\ Silent(Sent(chan, c, h, <<m>>))
  BY <1>1, <1>2, SentSpoken
<1>4. Spoken(chan') /\ Silent(chan')
  BY <1>2, <1>3
<1> QED
  BY <1>4, SameLooks, LooksIntact

LEMMA WriteThreadIntact ==
  ASSUME TypeOK, Connections, Intact, NEW h \in Host, WriteThread(h)
  PROVE  Intact'
<1>1. /\ unsent[h] # << >> /\ chan' = Sent(chan, nextCxn[h], h, <<Head(unsent[h])>>)
      /\ UNCHANGED <<host, end, assoc, rx, dial, deact>>
  BY DEF WriteThread, envVars
<1>2. unsent[h] \in Seq(Rep) /\ nextCxn[h] \in Cxn \cup {NoCxn}
  BY DEF TypeOK
<1>3. Head(unsent[h]) \in Msg
  BY <1>1, <1>2, HeadTailProperties DEF Msg
<1> QED
  BY <1>1, <1>2, <1>3, SendIntact

LEMMA RecSendIntact ==
  ASSUME TypeOK, Connections, Intact, NEW h \in Host, RecSend(h)
  PROVE  Intact'
<1>1. UNCHANGED <<host, end, assoc, rx, dial, deact>>
  BY DEF RecSend
<1>2. nextCxn[h] \in Cxn \cup {NoCxn}
  BY DEF TypeOK
<1>3. CASE recovery[h].rn < recovery[h].end
  <2> DEFINE x == RepMsg(recovery[h].rn, Recovered(rec[h][recovery[h].rn]))
  <2>1. chan' = Sent(chan, nextCxn[h], h, <<x>>)
    BY <1>3 DEF RecSend
  <2>2. x \in Msg
    <3>1. recovery[h].rn \in 0..MaxRN /\ recovery[h].end \in 0..MaxRN
      BY DEF TypeOK, Recovery
    <3>2. recovery[h].rn \in RN
      BY <1>3, <3>1, NumbersType DEF RN
    <3> QED
      BY <3>2, RecoveredType, RepMsgType DEF TypeOK
  <2> HIDE DEF x
  <2> QED
    BY <1>1, <1>2, <2>1, <2>2, SendIntact
<1>4. CASE ~(recovery[h].rn < recovery[h].end)
  <2>1. UNCHANGED chan
    BY <1>4 DEF RecSend
  <2>2. PICK m \in Msg : m = Hb(h, host[h])
    BY KnownType, HbType
  <2> QED
    BY <1>1, <1>2, <2>1, <2>2, SendIntact
<1> QED
  BY <1>3, <1>4

LEMMA PutIntact ==
  ASSUME TypeOK, Connections, Intact, NEW h \in Host, NEW n \in RN, Put(h, n)
  PROVE  Intact'
<1>1. UNCHANGED <<host, end, assoc, rx, dial, deact>>
  BY DEF Put, envVars
<1>2. PICK r \in {[op |-> "add", by |-> h], Deleted} : Write(h, RepMsg(n, r))
  BY PutIs
<1>3. RepMsg(n, r) \in Msg /\ nextCxn[h] \in Cxn \cup {NoCxn}
  BY RepMsgType DEF Record, Deleted, TypeOK
<1>4. chan' \in {chan, Sent(chan, nextCxn[h], h, <<RepMsg(n, r)>>)}
  BY <1>2 DEF Write
<1> QED
  BY <1>1, <1>3, <1>4, SendIntact

\* A record is read from a host that has been heard of, on the connection to it.
LEMMA RepRcvdIntact ==
  ASSUME TypeOK, Connections, Intact, NEW h \in Host, NEW c \in Cxn, RepRcvd(c, h)
  PROVE  Intact'
<1> DEFINE m == Head(chan[c][h])
           p == assoc[c][h]
           rest == [chan EXCEPT ![c][h] = Tail(@)]
<1>1. /\ end[c][h] \in Open /\ chan[c][h] # << >> /\ m.type = "rep"
      /\ UNCHANGED <<assoc, rx, dial, deact>>
  BY DEF RepRcvd
<1>2. end[c][h] = "up" /\ Peer(c, h) \in Host \ {h} /\ end[c][Peer(c, h)] \in {"opening", "up"}
  <2>1. /\ end[c][h] = "up" /\ Peer(c, h) \in Host \ {h} /\ end[c][Peer(c, h)] # "none"
    BY <1>1, IntactPeer
  <2> QED
    BY <2>1 DEF Intact
<1>3. p # NoHost
  <2> SUFFICES ASSUME p = NoHost
               PROVE  FALSE
    OBVIOUS
  <2>1. end[c][Peer(c, h)] = "up"
    <3>1. end[c][Peer(c, h)] # "opening"
      BY <1>1, <1>2 DEF Intact, Silent
    <3> QED
      BY <1>2, <3>1
  <2>2. m.type = "hb"
    BY <1>2, <2>1 DEF Intact, Spoken
  <2> QED
    BY <1>1, <2>2
<1>4. p \in Host /\ host[h][p].cxn = c
  BY <1>2, <1>3 DEF TypeOK, Intact
<1>5. RepDataRcvd(c, h, p, m) /\ UNCHANGED end
  BY <1>3, <1>4 DEF RepRcvd
<1>6. m \in Rep /\ Tail(chan[c][h]) \in Seq(Msg) /\ rest \in Channels
  BY <1>1, HeadType
<1> HIDE DEF m, p
<1>7. Spoken(rest) /\ Silent(rest)
  BY <1>1, <1>3, TailSpoken DEF p
<1> HIDE DEF rest
<1>8. /\ \A k, q \in Host : host'[k][q].cxn = host[k][q].cxn
      /\ chan' = rest \/ \E copies \in Seq({m}) : chan' = Sent(rest, nextCxn[h], h, copies)
  BY <1>4, <1>5, <1>6, RepDataRcvdIs DEF rest
<1>9. Spoken(chan') /\ Silent(chan')
  <2>1. CASE chan' = rest
    BY <1>7, <2>1
  <2>2. CASE \E copies \in Seq({m}) : chan' = Sent(rest, nextCxn[h], h, copies)
    <3>1. PICK copies \in Seq({m}) : chan' = Sent(rest, nextCxn[h], h, copies)
      BY <2>2
    <3>2. copies \in Seq(Msg) /\ nextCxn[h] \in Cxn \cup {NoCxn}
      BY <1>6 DEF Msg, TypeOK
    <3> QED
      BY <1>6, <1>7, <3>1, <3>2, SentSpoken
  <2> QED
    BY <1>8, <2>1, <2>2
<1>10. \A k, q \in Host : host'[k][q].state = host[k][q].state /\ host'[k][q].voted = host[k][q].voted
  BY RepRcvdLooks
<1> QED
  BY <1>1, <1>5, <1>8, <1>9, <1>10, IntactKept

\* A host is dialled while nothing is connected, and then neither dials any more.
LEMMA ConnectIntact ==
  ASSUME TypeOK, Connections, Pair, Intact, NEW h \in Host, NEW p \in Host, NEW c \in Cxn, Connect(h, p, c)
  PROVE  Intact'
<1>1. /\ p \in dial[h] /\ dial' = [dial EXCEPT ![h] = @ \ {p}]
      /\ UNCHANGED <<host, deact, rx, chan>>
  BY DEF Connect
<1>2. \A d \in Cxn, k \in Host : end[d][k] = "none"
  BY <1>1 DEF Intact
<1>3. /\ \A k, q \in Host : k # q => ~host[k][q].voted
      /\ \A k \in Host : ~deact[k]
  BY <1>2, ApartIs
<1>4. \A d \in Cxn, k \in Host : chan[d][k] = << >>
  BY <1>2 DEF Connections, Carry, Live, Open
<1>5. CASE UNCHANGED end
  BY <1>1, <1>2, <1>3, <1>5 DEF Intact, Spoken, Silent
<1>6. CASE ~UNCHANGED end
  <2>1. /\ IsRunning(h) /\ IsRunning(p)
        /\ end' = [end EXCEPT ![c][h] = "opening", ![c][p] = "opening"]
    BY <1>6 DEF Connect
  <2>2. p < h /\ p # h /\ h \in Nat /\ p \in Nat
    BY <1>1, HostAssumption DEF Connections, Dialled
  <2>3. \A k \in Host : k = h \/ k = p
    BY <2>2 DEF Pair
  <2>4. dial'[h] = {}
    <3>1. \A q \in dial[h] : q \in Host /\ q < h /\ q # h
      BY HostAssumption DEF Connections, Dialled, TypeOK
    <3>2. \A q \in dial[h] : q = p
      BY <2>3, <3>1
    <3> QED
      BY <1>1, <3>2 DEF TypeOK
  <2>5. dial'[p] = {}
    <3>1. \A q \in dial[p] : q \in Host /\ q < p
      BY DEF Connections, Dialled, TypeOK
    <3>2. \A q \in dial[p] : q \in Nat
      BY <3>1, HostAssumption
    <3>3. \A q \in dial[p] : q # h /\ q # p
      BY <2>2, <3>1, <3>2
    <3>4. dial[p] = {}
      BY <2>3, <3>1, <3>3
    <3> QED
      BY <1>1, <2>2, <3>4 DEF TypeOK
  <2>6. \A k \in Host : dial'[k] = {} /\ host'[k][k].state \in Running
    BY <1>1, <2>1, <2>3, <2>4, <2>5 DEF IsRunning, State
  <2>7. \A d \in Cxn, k \in Host : end'[d][k] \in {"none", "opening"} /\ (end'[d][k] # "none" => d = c)
    BY <1>2, <2>1 DEF TypeOK
  <2> QED
    BY <1>1, <1>3, <1>4, <2>6, <2>7 DEF Intact, Spoken, Silent
<1> QED
  BY <1>5, <1>6

\* No connection replaces another.
LEMMA NoneReplaced ==
  ASSUME TypeOK, Connections, Intact, NEW h \in Host, NEW p \in Host, NEW c \in Cxn, end[c][h] # "none"
  PROVE  Replaced(host[h], c, p) = {}
<1>1. host[h][p].cxn \in Cxn \cup {NoCxn}
  BY KnownType DEF View, Known
<1>2. host[h][p].cxn \in {NoCxn, c}
  <2>1. host[h][p].cxn # NoCxn => end[host[h][p].cxn][h] # "none"
    BY DEF Connections, Linked, Open, Intact, Dying, LosingStep, Losing
  <2> QED
    BY <1>1, <2>1 DEF Intact
<1> QED
  BY <1>2 DEF Replaced

LEMMA NothingOld ==
  ASSUME TypeOK, NEW h \in Host
  PROVE  Orphan(h, {}, end) = end /\ Disown(h, {}, assoc) = assoc
  BY DEF Orphan, Disown, TypeOK

\* connected() finds the host running.
LEMMA ConnectedIntact ==
  ASSUME TypeOK, Connections, Intact, NEW h \in Host, NEW c \in Cxn, Connected(c, h)
  PROVE  Intact'
<1>1. end[c][h] = "opening" /\ UNCHANGED <<host, deact, dial>>
  BY DEF Connected
<1>2. IsRunning(h)
  BY <1>1 DEF Intact, IsRunning, State
<1>3. UNCHANGED <<end, assoc, chan>> /\ rx' = [rx EXCEPT ![h] = [step |-> "opening", cxn |-> c, host |-> NoHost]]
  BY <1>2 DEF Connected, cxnVars
<1>4. \A k \in Host : rx'[k].step \notin LosingStep
  <2> DEFINE o == [step |-> "opening", cxn |-> c, host |-> NoHost]
  <2>1. o.step \notin LosingStep
    BY DEF LosingStep, Losing
  <2> HIDE DEF o
  <2>2. rx' = [rx EXCEPT ![h] = o] /\ rx \in [Host -> Rx]
    BY <1>3 DEF o, TypeOK
  <2> QED
    BY <2>1, <2>2 DEF Intact
<1>5. Spoken(chan)' /\ Silent(chan)'
  BY <1>3 DEF Intact, Spoken, Silent
<1> QED
  BY <1>1, <1>3, <1>4, <1>5 DEF Intact

\* ZdbEnv::connected(): the other end has nothing to read but this end's heartbeat.
LEMMA OpenedIntact ==
  ASSUME TypeOK, Connections, Intact, NEW h \in Host, NEW c \in Cxn, Opened(c, h)
  PROVE  Intact'
<1>1. end[c][h] = "opening" /\ UNCHANGED <<deact, dial>>
  BY DEF Opened, Connections, Called
<1>2. \A k \in Host : rx'[k].step \notin LosingStep
  <2>1. rx' = [rx EXCEPT ![h] = RxIdle] /\ RxIdle.step \notin LosingStep
    BY DEF Opened, RxIdle, LosingStep, Losing
  <2> QED
    BY <2>1 DEF Intact, TypeOK
<1>3. PICK old \in SUBSET Cxn, v \in View :
         /\ \/ assoc[c][h] = NoHost /\ old = {} /\ v = host[h]
            \/ /\ assoc[c][h] \in Host /\ old = Replaced(host[h], c, assoc[c][h])
               /\ v = Associated(host[h], c, assoc[c][h])
         /\ host' = [host EXCEPT ![h] = Refreshed(v, h)]
         /\ end' = [Orphan(h, old, end) EXCEPT ![c][h] = "up"]
         /\ assoc' = Disown(h, old, assoc)
         /\ chan' = IF PeerGone(c, h) THEN chan
                    ELSE [chan EXCEPT ![c][Peer(c, h)] = Append(@, Hb(h, Refreshed(v, h)))]
  BY OpenedIs
<1>4. old = {}
  BY <1>1, <1>3, NoneReplaced
<1>5. end' = [end EXCEPT ![c][h] = "up"] /\ assoc' = assoc
  BY <1>3, <1>4, NothingOld
<1>6. /\ end'[c][h] = "up"
      /\ \A d \in Cxn, k \in Host : d # c \/ k # h => end'[d][k] = end[d][k]
  BY <1>5 DEF TypeOK
<1>7. \A d \in Cxn, k \in Host : end[d][k] # "none" => d = c
  BY <1>1 DEF Intact
<1>8. \A q \in Host : host'[h][q].cxn = IF q = assoc[c][h] THEN c ELSE host[h][q].cxn
  <2>1. host'[h] = Refreshed(v, h)
    BY <1>3, SetHostIs
  <2>2. \A q \in Host : host'[h][q].cxn = v[q].cxn
    BY <2>1, RefreshedType
  <2>3. \A q \in Host : v[q].cxn = IF q = assoc[c][h] THEN c ELSE host[h][q].cxn
    <3>1. CASE assoc[c][h] = NoHost /\ v = host[h]
      BY <3>1, HostAssumption
    <3>2. CASE assoc[c][h] \in Host /\ v = Associated(host[h], c, assoc[c][h])
      BY <3>2, KnownType DEF Associated, View, Known
    <3> QED
      BY <1>3, <3>1, <3>2
  <2> QED
    BY <2>2, <2>3
<1>9. /\ \A k \in Host \ {h} : host'[k] = host[k]
      /\ \A q \in Host \ {h} : host'[h][q].voted => host[h][q].voted
      /\ host'[h][h].state = host[h][h].state
  BY OpenedSees DEF Sees
<1>10. \A q \in Host \ {h} : ~host[h][q].voted
  BY <1>1 DEF Intact
<1>11. PICK p \in Host \ {h} : p = Peer(c, h) /\ \A x \in Host \ {h, p} : end[c][x] = "none"
  BY <1>1, PeerIs DEF Connections
<1>12. /\ chan[c][p] = << >>
       /\ chan' = [chan EXCEPT ![c][p] = Append(@, Hb(h, Refreshed(v, h)))]
  <2>1. end[c][p] \in {"opening", "up"}
    BY <1>1, <1>11, PeerIs DEF Connections, Intact
  <2>2. ~PeerGone(c, h)
    BY <1>11, <2>1 DEF PeerGone
  <2> QED
    BY <1>1, <1>3, <1>11, <2>1, <2>2 DEF Intact, Silent
<1>13. /\ chan'[c][p] # << >> /\ Head(chan'[c][p]).type = "hb"
       /\ \A d \in Cxn, k \in Host : d # c \/ k # p => chan'[d][k] = chan[d][k]
  <2>1. PICK x \in Msg : x = Hb(h, Refreshed(v, h)) /\ x.type = "hb"
    BY RefreshedType, HbType
  <2>2. chan'[c][p] = Append(chan[c][p], x)
    BY <1>12, <2>1 DEF TypeOK
  <2>3. \A d \in Cxn, k \in Host : d # c \/ k # p => chan'[d][k] = chan[d][k]
    BY <1>12 DEF TypeOK
  <2>4. chan'[c][p] = <<x>>
    BY <1>12, <2>2
  <2> QED
    BY <2>1, <2>3, <2>4
<1>14. Spoken(chan)'
  <2> SUFFICES ASSUME NEW d \in Cxn, NEW k \in Host, NEW q \in Host,
                      k # q, end'[d][k] = "up", end'[d][q] # "none", assoc'[d][q] = NoHost
               PROVE  chan'[d][q] # << >> /\ Head(chan'[d][q]).type = "hb"
    BY DEF Spoken
  <2>1. d = c /\ end[c][q] # "none" /\ q \in {h, p}
    BY <1>1, <1>6, <1>7, <1>11
  <2>2. CASE q = p
    BY <1>13, <2>1, <2>2
  <2>3. CASE q = h
    BY <1>5, <1>6, <1>11, <1>13, <2>1, <2>3 DEF Intact, Spoken
  <2> QED
    BY <2>1, <2>2, <2>3
<1>15. Silent(chan)'
  <2> SUFFICES ASSUME NEW d \in Cxn, NEW k \in Host, NEW q \in Host,
                      k # q, end'[d][k] = "opening", end'[d][q] # "none"
               PROVE  chan'[d][q] = << >>
    BY DEF Silent
  <2>1. end[d][k] = "opening" /\ end[d][q] # "none" /\ d = c /\ k # h
    BY <1>1, <1>6, <1>7
  <2>2. k = p /\ q = h
    BY <1>11, <2>1
  <2> QED
    BY <1>13, <2>1, <2>2 DEF Intact, Silent
<1>16. /\ \A d \in Cxn, k \in Host : end'[d][k] \in {"none", "opening", "up"} /\ (end'[d][k] # "none" => end[d][k] # "none")
  BY <1>1, <1>6 DEF Intact
<1>17. /\ \A d, e \in Cxn, k, q \in Host : end'[d][k] # "none" /\ end'[e][q] # "none" => d = e
       /\ \A k \in Host : rx'[k].step \notin LosingStep
  BY <1>1, <1>2, <1>16 DEF Intact
<1>18. \A d \in Cxn, k, q \in Host : end'[d][k] # "none" => dial'[q] = {} /\ host'[q][q].state \in Running
  BY <1>1, <1>9, <1>16 DEF Intact
<1>19. \A k, q \in Host : k # q /\ host'[k][q].voted => \E d \in Cxn : end'[d][k] = "up" /\ assoc'[d][k] = q
  BY <1>5, <1>6, <1>9, <1>10 DEF Intact
<1>20. \A d \in Cxn, k, q \in Host : end'[d][k] = "up" /\ assoc'[d][k] = q => host'[k][q].cxn = d
  <2> SUFFICES ASSUME NEW d \in Cxn, NEW k \in Host, NEW q \in Host, end'[d][k] = "up", assoc'[d][k] = q
               PROVE  host'[k][q].cxn = d
    OBVIOUS
  <2>1. CASE k = h
    <3>1. d = c
      BY <1>7, <1>16
    <3> QED
      BY <1>5, <1>8, <2>1, <3>1
  <2>2. CASE k # h
    BY <1>5, <1>6, <1>9, <2>2 DEF Intact
  <2> QED
    BY <2>1, <2>2
<1>21. \A k \in Host : deact'[k] => \E q \in Host \ {k} : host'[k][q].voted
  BY <1>1, <1>9, <1>10 DEF Intact
<1> QED
  BY <1>14, <1>15, <1>16, <1>17, <1>18, <1>19, <1>20, <1>21 DEF Intact

\* hbRcvd(): an accepted connection is the one connection of the sender.
LEMMA HbRcvdIntact ==
  ASSUME TypeOK, Connections, Intact, NEW h \in Host, NEW c \in Cxn, HbRcvd(c, h)
  PROVE  Intact'
<1>1. PICK p \in Host, old \in SUBSET Cxn, v \in View :
        /\ chan[c][h] # << >> /\ Head(chan[c][h]).type = "hb" /\ Head(chan[c][h]).from = p
        /\ end[c][h] \in Open /\ rx[h] = RxIdle
        /\ host' = [host EXCEPT ![h] = v]
        /\ \/ /\ assoc[c][h] = NoHost /\ old = Replaced(host[h], c, p)
              /\ v = Associated(host[h], c, p)
              /\ assoc' = [Disown(h, old, assoc) EXCEPT ![c][h] = p]
              /\ end' = Orphan(h, old, end)
           \/ /\ assoc[c][h] # NoHost /\ v = host[h]
              /\ UNCHANGED <<assoc, end, host>>
        /\ \A q \in Host : v[q].state = host[h][q].state
  BY HbRcvdIs
<1>2. end[c][h] = "up" /\ Peer(c, h) \in Host \ {h} /\ end[c][Peer(c, h)] # "none"
  BY <1>1, IntactPeer
<1>3. UNCHANGED <<rx, dial, deact, chan>>
  BY DEF HbRcvd, envVars
<1>4. CASE assoc[c][h] # NoHost
  <2>1. UNCHANGED <<assoc, end, host>>
    BY <1>1, <1>4
  <2>2. Spoken(chan') /\ Silent(chan')
    BY <1>3 DEF Intact
  <2> QED
    BY <1>3, <2>1, <2>2, IntactKept
<1>5. CASE assoc[c][h] = NoHost
  <2>1. old = {}
    BY <1>1, <1>2, <1>5, NoneReplaced
  <2>2. UNCHANGED end /\ assoc' = [assoc EXCEPT ![c][h] = p] /\ v = Associated(host[h], c, p)
    BY <1>1, <1>5, <2>1, NothingOld
  <2>3. /\ assoc'[c][h] = p
        /\ \A d \in Cxn, k \in Host : d # c \/ k # h => assoc'[d][k] = assoc[d][k]
    BY <2>2 DEF TypeOK
  <2>4. \A d \in Cxn, k \in Host : end[d][k] # "none" => d = c
    BY <1>2 DEF Intact
  <2>5. host'[h] = v /\ \A k \in Host \ {h} : host'[k] = host[k]
    BY <1>1, SetHostIs
  <2>6. /\ v[p].cxn = c /\ ~v[p].voted
        /\ \A q \in Host \ {p} : v[q] = host[h][q]
        /\ v[p].state = host[h][p].state
    BY <2>2, KnownType DEF Associated, View, Known
  <2>7. \A q \in Host \ {h} : ~host[h][q].voted
    <3> SUFFICES ASSUME NEW q \in Host \ {h}, host[h][q].voted
                 PROVE  FALSE
      OBVIOUS
    <3>1. PICK d \in Cxn : end[d][h] = "up" /\ assoc[d][h] = q
      BY DEF Intact
    <3> QED
      BY <1>5, <2>4, <3>1, HostAssumption
  <2>8. Spoken(chan)' /\ Silent(chan)'
    <3>1. \A d \in Cxn, k \in Host : assoc'[d][k] = NoHost => assoc[d][k] = NoHost
      BY <2>3, HostAssumption
    <3> QED
      BY <1>3, <2>2, <3>1 DEF Intact, Spoken, Silent
  <2>9. \A k, q \in Host : k # q /\ host'[k][q].voted => \E d \in Cxn : end'[d][k] = "up" /\ assoc'[d][k] = q
    <3> SUFFICES ASSUME NEW k \in Host, NEW q \in Host, k # q, host'[k][q].voted
                 PROVE  \E d \in Cxn : end'[d][k] = "up" /\ assoc'[d][k] = q
      OBVIOUS
    <3>1. k # h
      BY <2>5, <2>6, <2>7
    <3> QED
      BY <2>2, <2>3, <2>5, <3>1 DEF Intact
  <2>10. \A d \in Cxn, k, q \in Host : end'[d][k] = "up" /\ assoc'[d][k] = q => host'[k][q].cxn = d
    <3> SUFFICES ASSUME NEW d \in Cxn, NEW k \in Host, NEW q \in Host, end'[d][k] = "up", assoc'[d][k] = q
                 PROVE  host'[k][q].cxn = d
      OBVIOUS
    <3>1. CASE k = h
      BY <2>2, <2>3, <2>4, <2>5, <2>6, <3>1
    <3>2. CASE k # h
      BY <2>2, <2>3, <2>5, <3>2 DEF Intact
    <3> QED
      BY <3>1, <3>2
  <2>11. \A k \in Host : deact'[k] => \E q \in Host \ {k} : host'[k][q].voted
    BY <1>3, <2>5, <2>7 DEF Intact
  <2>12. \A k \in Host : host'[k][k].state = host[k][k].state
    <3>1. \A q \in Host : v[q].state = host[h][q].state
      BY <2>6
    <3> QED
      BY <2>5, <3>1
  <2> QED
    BY <1>3, <2>2, <2>8, <2>9, <2>10, <2>11, <2>12 DEF Intact
<1> QED
  BY <1>4, <1>5

\* hbDataRcvd(): the sender has been heard of, on the one connection.
LEMMA CxnHbDataIntact ==
  ASSUME TypeOK, Connections, Intact, NEW h \in Host, NEW c \in Cxn, CxnHbDataRcvd(c, h)
  PROVE  Intact'
<1>1. PICK p \in Host, v \in View :
        /\ chan[c][h] # << >>
        /\ end[c][h] \in Open /\ p = assoc[c][h] /\ assoc[c][h] # NoHost
        /\ \A q \in Host : v[q].cxn = host[h][q].cxn
        /\ chan' = [chan EXCEPT ![c][h] = Tail(@)]
        /\ HbDataRcvd(h, v, p)
  BY HbDataIs
<1>2. end[c][h] = "up" /\ Peer(c, h) \in Host \ {h}
  BY <1>1, IntactPeer
<1>3. UNCHANGED <<rx, dial, end, assoc>>
  BY DEF CxnHbDataRcvd
<1>4. Spoken(chan') /\ Silent(chan')
  BY <1>1, TailSpoken
<1>5. IsRunning(h)
  BY <1>2 DEF Intact, IsRunning, State
<1>6. /\ p # h /\ p = Peer(c, h)
      /\ \A k \in Host \ {h} : host'[k] = host[k]
      /\ \A q \in Host \ {h, p} : host'[h][q] = host[h][q]
      /\ host'[h][p].voted /\ host'[h][h].state = host[h][h].state
      /\ \A k \in Host \ {h} : deact'[k] => deact[k]
  <2>1. p = Peer(c, h)
    BY <1>1 DEF Connections, Associates
  <2> QED
    BY <1>5, <2>1, CxnHbDataLooks
<1>7. \A k, q \in Host : host'[k][q].cxn = host[k][q].cxn
  BY <1>1, <1>6, HbDataRcvdIs
<1>8. Spoken(chan)' /\ Silent(chan)'
  BY <1>3, <1>4 DEF Spoken, Silent
<1>9. \A k, q \in Host : k # q /\ host'[k][q].voted => \E d \in Cxn : end'[d][k] = "up" /\ assoc'[d][k] = q
  <2> SUFFICES ASSUME NEW k \in Host, NEW q \in Host, k # q, host'[k][q].voted
               PROVE  \E d \in Cxn : end'[d][k] = "up" /\ assoc'[d][k] = q
    OBVIOUS
  <2>1. CASE k = h /\ q = p
    BY <1>1, <1>2, <1>3, <2>1
  <2>2. CASE ~(k = h /\ q = p)
    <3>1. host[k][q].voted
      BY <1>6, <2>2
    <3> QED
      BY <1>3, <3>1 DEF Intact
  <2> QED
    BY <2>1, <2>2
<1>10. \A k \in Host : deact'[k] => \E q \in Host \ {k} : host'[k][q].voted
  BY <1>6 DEF Intact
<1>11. \A k \in Host : host'[k][k].state = host[k][k].state
  BY <1>6
<1> QED
  BY <1>3, <1>7, <1>8, <1>9, <1>10, <1>11 DEF Intact

\* Nothing disconnects but what breaks.
LEMMA NotDisconnected ==
  ASSUME TypeOK, Connections, Intact, NEW h \in Host, NEW c \in Cxn, Disconnected(c, h)
  PROVE  faults' # 0
<1>1. end[c][h] = "up" /\ ~PeerGone(c, h)
  <2>1. end[c][h] \in Open
    BY DEF Disconnected
  <2> QED
    BY <2>1, IntactPeer
<1>2. faults' = faults + 1
  BY <1>1 DEF Disconnected
<1> QED
  BY <1>2, CountsType

LEMMA HostStepIntact ==
  ASSUME TypeOK, Connections, Pair, Seats, Intact, stops = 0, stops' = 0, NEW h \in Host,
         Start(h) \/ Stop(h) \/ HostStep(h) \/ Push(h)
  PROVE  Intact'
<1>1. ~Stop(h)
  <2>1. stops + 1 # 0
    BY CountsType
  <2> QED
    BY <2>1 DEF Stop
<1>2. ~StopDisconnect(h) /\ ~StopFinish(h)
  BY DEF Seats, StopDisconnect, StopFinish
<1>3. ~(CountDisconnected(h) \/ ClearCxn(h) \/ LoseHost(h) \/ Reelect(h) \/ Redial(h))
  BY DEF Intact, CountDisconnected, ClearCxn, LoseHost, Reelect, Redial, LosingStep, Losing
<1>4. CASE Push(h)
  <2>1. UNCHANGED <<host, end, assoc, rx, dial, deact, chan>>
    BY <1>4 DEF Push, envVars, cxnVars
  <2>2. Spoken(chan') /\ Silent(chan')
    BY <2>1 DEF Intact
  <2> QED
    BY <2>1, <2>2, SameLooks, LooksIntact
<1> QED
  BY <1>1, <1>2, <1>3, <1>4, StartIntact, HoldElectionIntact, DeactivateIntact, FinishElectionIntact,
     WriteThreadIntact, RecSendIntact DEF HostStep

LEMMA UnbrokenStep ==
  ASSUME TypeOK, TypeOK', Connections, Pair, Seats, Unbroken, [Next]_vars
  PROVE  Unbroken'
<1> SUFFICES ASSUME faults' = 0, stops' = 0
             PROVE  Intact'
  BY DEF Unbroken
<1>1. faults = 0 /\ stops = 0
  BY CountsGrow
<1>2. Intact
  BY <1>1 DEF Unbroken
<1>3. CASE UNCHANGED vars
  <2>1. PICK h \in Host : TRUE
    BY DEF Pair
  <2>2. UNCHANGED <<host, end, assoc, rx, dial, deact, chan>>
    BY <1>3 DEF vars, envVars, cxnVars
  <2>3. Spoken(chan') /\ Silent(chan')
    BY <1>2, <2>2 DEF Intact
  <2> QED
    BY <1>2, <2>2, <2>3, SameLooks, LooksIntact
<1>4. ASSUME NEW h \in Host, NEW c \in Cxn, CxnStep(c, h) \/ Heartbeat(c, h) \/ Disconnected(c, h)
      PROVE  Intact'
  BY <1>2, <1>4, ConnectedIntact, OpenedIntact, HbRcvdIntact, CxnHbDataIntact, RepRcvdIntact, HeartbeatIntact, NotDisconnected
     DEF CxnStep
<1> QED
  BY <1>1, <1>2, <1>3, <1>4, HostStepIntact, PutIntact, ConnectIntact DEF Next

LEMMA InitUnbroken == Init => Unbroken
  BY DEF Init, Unbroken, Intact, Spoken, Silent, RxIdle, LosingStep, Losing

LEMMA MasterIsAgreed ==
  ASSUME TypeOK, Pair, Seats, CalmInv, Unbroken
  PROVE  MasterAgreed
<1> SUFFICES ASSUME stops = 0
             PROVE  /\ Quiet /\ ~Dual /\ (splits = 0 \/ \A h \in Host : nextRN[h] = 0) =>
                         \E m \in Host : State(m) = "Active" /\ \A h \in Host : master[h] = m
                    /\ faults = 0 => \A h \in Host : deact[h] /\ State(h) \in {"Active", "Electing"} =>
                         \E p \in Host \ {h} : host[h][p].voted
  BY DEF MasterAgreed
<1>1. Quiet /\ ~Dual /\ (splits = 0 \/ \A h \in Host : nextRN[h] = 0) =>
        \E m \in Host : State(m) = "Active" /\ \A h \in Host : master[h] = m
  BY MasterElected DEF Calm, Blank
<1>2. faults = 0 => \A h \in Host : deact[h] => \E p \in Host \ {h} : host[h][p].voted
  BY DEF Unbroken, Intact
<1> QED
  BY <1>1, <1>2

\* Of two hosts that have heard of each other and are not both active, one is active and both
\* take it for their master, and a host that is to deactivate finds one to take for its master,
\* for any numbers of connections and records, priorities and replication modes, as long as no
\* host is stopped and either no election is won by a host that is not entitled to or there are
\* no records (holdElection(), hbDataRcvd(), vote(), deactivate(), setMaster()).
THEOREM PairAgrees == ASSUME Pair PROVE Spec => []MasterAgreed
<1>1. Connections /\ TypeOK /\ TypeOK' /\ [Next]_vars => Connections'
  BY StepConnections
<1>2. OneMaster /\ Connections /\ TypeOK /\ TypeOK' /\ [Next]_vars => OneMaster'
  BY StepHistories
<1>3. Seats /\ Connections /\ TypeOK /\ TypeOK' /\ [Next]_vars => Seats'
  BY SeatsStep
<1>4. CalmInv /\ Seats /\ OneMaster /\ Connections /\ TypeOK /\ TypeOK' /\ [Next]_vars => CalmInv'
  BY CalmStep
<1>5. Unbroken /\ Seats /\ Connections /\ TypeOK /\ TypeOK' /\ [Next]_vars => Unbroken'
  BY UnbrokenStep
<1>6. TypeOK /\ Seats /\ CalmInv /\ Unbroken => MasterAgreed
  BY MasterIsAgreed
<1> QED
  BY <1>1, <1>2, <1>3, <1>4, <1>5, <1>6, ClusterTypeCorrect, InitConnections, InitHistories, InitSeats,
     InitCalm, InitUnbroken, PTL DEF Spec

=============================================================================
