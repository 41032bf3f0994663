------------------------- MODULE ZmSchedulerProofs -------------------------
(***************************************************************************)
(* Theorems about ZmScheduler, for any number of threads, producers,       *)
(* callers and timers and any size of the rings: who holds what, the type  *)
(* invariant, and its calls: none is lost or executed twice, none that was *)
(* cancelled is executed, drain() waits for all that were queued, and one  *)
(* producer's calls are executed in order.                                 *)
(***************************************************************************)
EXTENDS ZmScheduler, FiniteSetTheorems, SequenceTheorems, TLAPS

-----------------------------------------------------------------------------
(* The inductive invariant: who holds what *)

InHand(x) == client[x].pc # "idle"

\* The deferred calls that wait for their time, or that the timer thread has in hand.
Entries == (schedule \cup {timer.entry}) \ {None}
Waiting == {f.call : f \in Entries}

\* A producer has its last call in hand, a caller of drain() has Drained.
HandsOfClients ==
  /\ \A x \in Producer : InHand(x) => client[x].call = <<x, made[x]>> /\ client[x].call \in Call
  /\ \A x \in Caller : InHand(x) => client[x].call = Drained /\ client[x].pc # "add"
Moving(t) == worker[t].pc = "move"
HandsOfThreads == \A t \in Thread : Moving(t) <=> worker[t].call # None
HandsOfTimers ==
  /\ timer.pc \in {"dispatch", "again"} <=> timer.entry # None
  /\ \A f \in Entries : f.call \in DeferredCall

\* overCount counts what is in the overflow ring, on its way into it or out of it.
Adding(t) == {x \in Client : client[x].pc = "over" /\ client[x].thread = t}
Counting ==
  \A t \in Thread :
    overCount[t] = Len(overRing[t]) + (IF worker[t].pc \in {"move", "count"} THEN 1 ELSE 0)
                   + Cardinality(Adding(t))

\* Only one call of start() or stop() is under way at a time.
Starter(x) == caller[x].pc \in {"threads", "running"}
Stopper(x) == caller[x].pc \in {"eof", "join", "joinTimer"}
InCharge ==
  /\ \A x \in Caller : (Starter(x) => state = "Starting") /\ (Stopper(x) => state = "Stopping")
  /\ \A x, y \in Caller : (Starter(x) \/ Stopper(x)) /\ (Starter(y) \/ Stopper(y)) => x = y
  /\ \A x \in Caller : InHand(x) => caller[x].pc = "drain" /\ client[x].thread < caller[x].thread

\* Threads end while stop() joins them; runThreads is never less than how many there are,
\* although two threads that end may both take the same number for it.
Live == {t \in Thread : worker[t].pc \notin {"none", "ended"}}
Joining == \E x \in Caller : caller[x].pc = "join"
TimerRests == state = "Stopped" \/ (\E x \in Caller : caller[x].pc = "threads") => timer.pc = "none"
Ending ==
  /\ \A t \in Thread : eof[t] \/ worker[t].pc \in {"final", "exit", "ended"} => Joining
  /\ state = "Stopped" \/ (\E x \in Caller : caller[x].pc \in {"threads", "joinTimer"}) =>
       \A t \in Thread : worker[t].pc = "none"
  /\ Cardinality(Live) <= runThreads
  /\ \A t \in Thread : worker[t].pc = "exit" => Cardinality(Live) <= worker[t].count

Held ==
  HandsOfClients /\ HandsOfThreads /\ HandsOfTimers /\ Counting /\ InCharge /\ Ending /\ TimerRests

-----------------------------------------------------------------------------
(* Types *)

ClientType == [pc : ClientPC, thread : Thread, call : Call \cup {None}]
WorkerType == [pc : WorkerPC, call : Call \cup {None}, count : 0..NThreads]
CallerType == [pc : CallerPC, call : {"start", "drain", "stop"}, want : State, thread : Thread \cup {NThreads + 1}]
TimerType == [pc : TimerPC, time : Time \cup {None}, entry : EntryType \cup {None}]

LEMMA ThreadIs == Thread \subseteq Nat /\ IsFiniteSet(Thread) /\ Cardinality(Thread) = NThreads /\ NThreads \in Nat
  BY ThreadAssumption, FS_Interval DEF Thread

\* A nonempty set of natural numbers has a least one.
LEMMA LeastExists ==
  ASSUME NEW S, S \subseteq Nat, S # {}
  PROVE  \E x \in S : \A y \in S : x <= y
<1> DEFINE R == OpToRel(<, Nat)
<1>1. IsWellFoundedOn(R, Nat)
  BY NatLessThanWellFounded
<1>2. \A x, y \in Nat : y < x => <<y, x>> \in R
  BY DEF OpToRel
<1> HIDE DEF R
<1>3. \E x \in S : \A y \in S : ~ (<<y, x>> \in R)
  BY <1>1, WFMin
<1>4. \A x, y \in S : ~(y < x) => x <= y
  OBVIOUS
<1> QED
  BY <1>2, <1>3, <1>4

\* What a caller has in hand is a call.
LEMMA HandIsCall ==
  ASSUME HandsOfClients, NEW x \in Client, InHand(x)
  PROVE  client[x].call \in Call
  BY DEF HandsOfClients, Client, Call

LEMMA DeferredIs ==
  ASSUME NEW c \in DeferredCall
  PROVE  c \in Call /\ c[1] \in Timer /\ c[2] \in Nat /\ c = <<c[1], c[2]>>
<1>1. PICK u \in Uses : c \in Timer \X (1..u.timed)
  BY DEF DeferredCall
<1> QED
  BY <1>1 DEF Call

LEMMA QueuedIsProducers ==
  ASSUME NEW c \in QueuedCall
  PROVE  c \in Call /\ c[1] \in Producer /\ c[2] \in Nat /\ c = <<c[1], c[2]>>
<1>1. PICK u \in Uses : c \in Producer \X (1..u.runs)
  BY DEF QueuedCall
<1> QED
  BY <1>1 DEF Call

LEMMA NoneIsNoCall == None \notin Call
  BY CallAssumption

LEMMA ClientAtType ==
  ASSUME TypeOK, NEW x \in Client, NEW pc \in ClientPC, ClientAt(x, pc)
  PROVE  client' \in [Client -> ClientType]
<1>1. client \in [Client -> ClientType] /\ client' = [client EXCEPT ![x].pc = pc]
  BY DEF TypeOK, ClientAt, ClientType
<1> QED
  BY <1>1 DEF ClientType

LEMMA WorkerAtType ==
  ASSUME TypeOK, NEW t \in Thread, NEW pc \in WorkerPC, WorkerAt(t, pc)
  PROVE  worker' \in [Thread -> WorkerType]
<1>1. worker \in [Thread -> WorkerType] /\ worker' = [worker EXCEPT ![t].pc = pc]
  BY DEF TypeOK, WorkerAt, WorkerType
<1> QED
  BY <1>1 DEF WorkerType

LEMMA WorkerMovesType ==
  ASSUME TypeOK, NEW t \in Thread, NEW pc \in WorkerPC, NEW c \in Call \cup {None},
         worker' = [worker EXCEPT ![t].pc = pc, ![t].call = c]
  PROVE  worker' \in [Thread -> WorkerType]
<1>1. worker \in [Thread -> WorkerType]
  BY DEF TypeOK, WorkerType
<1> QED
  BY <1>1 DEF WorkerType

LEMMA WorkerCountsType ==
  ASSUME TypeOK, NEW t \in Thread, NEW pc \in WorkerPC, NEW n \in 0..NThreads,
         worker' = [worker EXCEPT ![t].pc = pc, ![t].count = n]
  PROVE  worker' \in [Thread -> WorkerType]
<1>1. worker \in [Thread -> WorkerType]
  BY DEF TypeOK, WorkerType
<1> QED
  BY <1>1 DEF WorkerType

LEMMA CallerAtType ==
  ASSUME TypeOK, NEW x \in Caller, NEW pc \in CallerPC, CallerAt(x, pc)
  PROVE  caller' \in [Caller -> CallerType]
<1>1. caller \in [Caller -> CallerType] /\ caller' = [caller EXCEPT ![x].pc = pc]
  BY DEF TypeOK, CallerAt, CallerType
<1> QED
  BY <1>1 DEF CallerType

LEMMA CallerGoesType ==
  ASSUME TypeOK, NEW x \in Caller, NEW pc \in CallerPC, NEW n \in Thread \cup {NThreads + 1},
         caller' = [caller EXCEPT ![x].pc = pc, ![x].thread = n]
  PROVE  caller' \in [Caller -> CallerType]
<1>1. caller \in [Caller -> CallerType]
  BY DEF TypeOK, CallerType
<1> QED
  BY <1>1 DEF CallerType

LEMMA CallerSendsType ==
  ASSUME TypeOK, NEW x \in Caller, NEW n \in Thread \cup {NThreads + 1},
         caller' = [caller EXCEPT ![x].thread = n]
  PROVE  caller' \in [Caller -> CallerType]
<1>1. caller \in [Caller -> CallerType]
  BY DEF TypeOK, CallerType
<1> QED
  BY <1>1 DEF CallerType

LEMMA OneWorkerType ==
  ASSUME TypeOK, NEW t \in Thread, NEW pc \in WorkerPC
  PROVE  worker[t] \in WorkerType /\ [worker[t] EXCEPT !.pc = pc] \in WorkerType
<1>1. worker[t] \in WorkerType
  BY DEF TypeOK, WorkerType
<1> QED
  BY <1>1 DEF WorkerType

\* A call is put into a ring that has room.
LEMMA PushType ==
  ASSUME TypeOK, NEW t \in Thread, NEW c \in Call, HasRoom(t), Push(t, c)
  PROVE  ring' \in [Thread -> Seq(Call)] /\ \A u \in Thread : Len(ring'[u]) <= RingSize
<1>1. ring[t] \in Seq(Call) /\ Len(ring[t]) < RingSize /\ RingSize \in Nat
  BY ThreadAssumption DEF TypeOK, HasRoom
<1>2. Append(ring[t], c) \in Seq(Call) /\ Len(Append(ring[t], c)) = Len(ring[t]) + 1
  BY <1>1
<1>3. Len(ring[t]) + 1 <= RingSize
  BY <1>1
<1> QED
  BY <1>1, <1>2, <1>3 DEF TypeOK, Push

LEMMA ClientKeepsType ==
  ASSUME TypeOK, Held, NEW x \in Client, ClientStep(x)
  PROVE  TypeOK'
<1> USE DEF TypeOK
<1>1. ClientPC = {"idle", "add", "load", "push", "status", "count", "over"}
  BY DEF ClientPC
<1>2. client[x].pc # "idle" => client[x].call \in Call
  BY HandIsCall DEF Held, InHand
<1>3. CASE AddTry(x)
  <2>1. \E pc \in ClientPC : ClientAt(x, pc)
    BY <1>1, <1>3 DEF AddTry
  <2>2. client' \in [Client -> ClientType]
    BY <2>1, ClientAtType
  <2>3. ring' \in [Thread -> Seq(Call)] /\ \A u \in Thread : Len(ring'[u]) <= RingSize
    BY <1>2, <1>3, PushType DEF AddTry
  <2> QED
    BY <1>3, <2>2, <2>3 DEF AddTry, lifeVars, timerVars, ClientType
<1>4. CASE RunLoad(x)
  <2>1. client' \in [Client -> ClientType]
    BY <1>1, <1>4, ClientAtType DEF RunLoad
  <2> QED
    BY <1>4, <2>1 DEF RunLoad, lifeVars, queueVars, timerVars, ClientType
<1>5. CASE RunPush(x)
  <2>1. \E pc \in ClientPC : ClientAt(x, pc)
    BY <1>1, <1>5 DEF RunPush
  <2>2. client' \in [Client -> ClientType]
    BY <2>1, ClientAtType
  <2>3. client[x].thread \in Thread
    OBVIOUS
  <2>4. ring' \in [Thread -> Seq(Call)] /\ \A u \in Thread : Len(ring'[u]) <= RingSize
    BY <1>2, <1>5, <2>3, PushType DEF RunPush
  <2> QED
    BY <1>5, <2>2, <2>4 DEF RunPush, lifeVars, timerVars, ClientType
<1>6. CASE RunStatus(x)
  <2>1. \E pc \in ClientPC : ClientAt(x, pc)
    BY <1>1, <1>6 DEF RunStatus
  <2>2. client' \in [Client -> ClientType]
    BY <2>1, ClientAtType
  <2>3. refused' \subseteq Call
    BY <1>2, <1>6 DEF RunStatus
  <2> QED
    BY <1>6, <2>2, <2>3 DEF RunStatus, lifeVars, queueVars, timerVars, ClientType
<1>7. CASE RunCount(x)
  <2>1. client' \in [Client -> ClientType]
    BY <1>1, <1>7, ClientAtType DEF RunCount
  <2>2. overCount' \in [Thread -> Nat]
    BY <1>7 DEF RunCount
  <2> QED
    BY <1>7, <2>1, <2>2 DEF RunCount, lifeVars, timerVars, ClientType
<1>8. CASE RunOver(x)
  <2>1. client' \in [Client -> ClientType]
    BY <1>1, <1>8, ClientAtType DEF RunOver
  <2>2. overRing[client[x].thread] \in Seq(Call) /\ client[x].call \in Call
    BY <1>2, <1>8 DEF RunOver
  <2>3. Append(overRing[client[x].thread], client[x].call) \in Seq(Call)
    BY <2>2
  <2>4. overRing' \in [Thread -> Seq(Call)]
    BY <1>8, <2>3 DEF RunOver
  <2> QED
    BY <1>8, <2>1, <2>4 DEF RunOver, lifeVars, timerVars, ClientType
<1> QED
  BY <1>3, <1>4, <1>5, <1>6, <1>7, <1>8 DEF ClientStep

LEMMA RunKeepsType ==
  ASSUME TypeOK, NEW x \in Producer, Run(x)
  PROVE  TypeOK'
<1> USE DEF TypeOK
<1> DEFINE call == <<x, made[x] + 1>>
<1>1. call \in Call
  <2>1. use \in Uses /\ use.runs \in Nat /\ made[x] \in Nat /\ made[x] < use.runs
    BY BoundAssumption DEF Run
  <2>2. call \in Producer \X (1..use.runs)
    BY <2>1
  <2>3. call \in QueuedCall
    BY <2>1, <2>2 DEF QueuedCall
  <2> QED
    BY <2>3 DEF Call
<1> HIDE DEF call
<1>2. /\ \E pc \in {"load", "add"}, t \in Thread :
           client' = [client EXCEPT ![x] = [pc |-> pc, thread |-> t, call |-> call]]
      /\ added' = added \/ added' = added \cup {call}
      /\ made' = [made EXCEPT ![x] = @ + 1]
      /\ UNCHANGED <<lifeVars, queueVars, timerVars, worker, ran, refused>>
  BY DEF Run, call
<1>3. client' \in [Client -> ClientType]
  BY <1>1, <1>2 DEF Client, ClientType, ClientPC
<1>4. made' \in [Producer \cup Timer -> Nat]
  BY <1>2
<1> QED
  BY <1>1, <1>2, <1>3, <1>4 DEF lifeVars, queueVars, timerVars, ClientType

\* A set of threads, or of clients, has a size.
LEMMA LiveIs == IsFiniteSet(Live) /\ Cardinality(Live) \in Nat /\ Cardinality(Live) <= NThreads
  BY ThreadIs, FS_Subset, FS_CardinalityType DEF Live

LEMMA AddingIs ==
  ASSUME NEW t \in Thread
  PROVE  IsFiniteSet(Adding(t)) /\ Cardinality(Adding(t)) \in Nat
<1>1. IsFiniteSet(Client)
  BY ClientAssumption, FS_Union DEF Client
<1>2. Adding(t) \in SUBSET Client
  BY DEF Adding
<1> QED
  BY <1>1, <1>2, FS_Subset, FS_CardinalityType

LEMMA WorkKeepsType ==
  ASSUME TypeOK, Held, NEW t \in Thread, Work(t)
  PROVE  TypeOK'
<1> USE DEF TypeOK
<1>1. WorkerPC = {"none", "load", "over", "move", "count", "shift", "final", "exit", "ended"}
  BY DEF WorkerPC
<1>2. ring[t] \in Seq(Call) /\ overRing[t] \in Seq(Call) /\ NThreads \in Nat \ {0}
  BY ThreadAssumption
<1>3. CASE WorkLoad(t)
  <2>1. worker' \in [Thread -> WorkerType]
    BY <1>1, <1>3, WorkerAtType DEF WorkLoad
  <2> QED
    BY <1>3, <2>1 DEF WorkLoad, lifeVars, queueVars, timerVars, WorkerType
<1>4. CASE WorkOver(t)
  <2>1. CASE overRing[t] = << >>
    <3>1. worker' \in [Thread -> WorkerType] /\ UNCHANGED overRing
      BY <1>1, <1>4, <2>1, WorkerAtType DEF WorkOver
    <3> QED
      BY <1>4, <3>1 DEF WorkOver, lifeVars, timerVars, WorkerType
  <2>2. CASE overRing[t] # << >>
    <3>1. Head(overRing[t]) \in Call /\ Tail(overRing[t]) \in Seq(Call)
      BY <1>2, <2>2, HeadTailProperties
    <3>2. /\ worker' = [worker EXCEPT ![t].pc = "move", ![t].call = Head(overRing[t])]
          /\ overRing' = [overRing EXCEPT ![t] = Tail(@)]
      BY <1>4, <2>2 DEF WorkOver
    <3>3. overRing' \in [Thread -> Seq(Call)]
      BY <3>1, <3>2
    <3>4. worker' \in [Thread -> WorkerType]
      BY <1>1, <3>1, <3>2, WorkerMovesType
    <3> QED
      BY <1>4, <3>3, <3>4 DEF WorkOver, lifeVars, timerVars, WorkerType
  <2> QED
    BY <2>1, <2>2
<1>5. CASE WorkMove(t)
  <2>1. worker[t].call \in Call
    BY <1>5, NoneIsNoCall DEF WorkMove, Held, HandsOfThreads, Moving
  <2>2. \E pc \in {"count", "shift"} : worker' = [worker EXCEPT ![t].pc = pc, ![t].call = None]
    BY <1>5 DEF WorkMove
  <2>4. worker' \in [Thread -> WorkerType]
    BY <1>1, <2>2, WorkerMovesType
  <2>5. ring' \in [Thread -> Seq(Call)] /\ \A u \in Thread : Len(ring'[u]) <= RingSize
    BY <1>5, <2>1, PushType DEF WorkMove
  <2>6. overRing' \in [Thread -> Seq(Call)]
    <3>1. <<worker[t].call>> \o overRing[t] \in Seq(Call)
      BY <1>2, <2>1
    <3> QED
      BY <1>5, <3>1 DEF WorkMove
  <2> QED
    BY <1>5, <2>4, <2>5, <2>6 DEF WorkMove, lifeVars, timerVars, WorkerType
<1>6. CASE WorkCount(t)
  <2>1. worker' \in [Thread -> WorkerType]
    BY <1>1, <1>6, WorkerAtType DEF WorkCount
  <2>2. Cardinality(Adding(t)) \in Nat
    BY AddingIs
  <2>3. overCount[t] = Len(overRing[t]) + 1 + Cardinality(Adding(t)) /\ Len(overRing[t]) \in Nat
    BY <1>2, <1>6 DEF WorkCount, Held, Counting
  <2>4. overCount[t] - 1 \in Nat
    BY <2>2, <2>3
  <2>5. overCount' \in [Thread -> Nat]
    BY <1>6, <2>4 DEF WorkCount
  <2> QED
    BY <1>6, <2>1, <2>5 DEF WorkCount, lifeVars, timerVars, WorkerType
<1>7. CASE WorkShift(t)
  <2>1. worker' \in [Thread -> WorkerType]
    BY <1>1, <1>7, WorkerAtType DEF WorkShift
  <2>2. Head(ring[t]) \in Call /\ Tail(ring[t]) \in Seq(Call) /\ Len(Tail(ring[t])) = Len(ring[t]) - 1
    BY <1>2, <1>7, HeadTailProperties DEF WorkShift
  <2>3. ring' \in [Thread -> Seq(Call)] /\ \A u \in Thread : Len(ring'[u]) <= RingSize
    <3>1. Len(ring[t]) \in Nat /\ Len(ring[t]) <= RingSize /\ RingSize \in Nat
      BY <1>2, ThreadAssumption
    <3>2. ring' = [ring EXCEPT ![t] = Tail(ring[t])] /\ Len(Tail(ring[t])) <= RingSize
      BY <1>7, <2>2, <3>1 DEF WorkShift
    <3> QED
      BY <2>2, <3>2
  <2>4. state' \in State /\ drained' \in 0..NThreads /\ ran' \subseteq Call
    BY <1>2, <1>7, <2>2 DEF WorkShift, Execute, State
  <2> QED
    BY <1>7, <2>1, <2>3, <2>4 DEF WorkShift, timerVars, WorkerType
<1>8. CASE WorkEmpty(t)
  <2>1. \E pc \in WorkerPC : WorkerAt(t, pc)
    BY <1>1, <1>8 DEF WorkEmpty
  <2>2. worker' \in [Thread -> WorkerType]
    BY <2>1, WorkerAtType
  <2> QED
    BY <1>8, <2>2 DEF WorkEmpty, lifeVars, queueVars, timerVars, WorkerType
<1>9. CASE WorkFinal(t)
  <2>2. worker' \in [Thread -> WorkerType]
    BY <1>1, <1>9, WorkerCountsType DEF WorkFinal
  <2> QED
    BY <1>9, <2>2 DEF WorkFinal, lifeVars, queueVars, timerVars, WorkerType
<1>10. CASE WorkExit(t)
  <2>2. 0 \in 0..NThreads
    BY <1>2
  <2>3. worker' \in [Thread -> WorkerType]
    BY <1>1, <1>10, <2>2, WorkerCountsType DEF WorkExit
  <2>4. t \in Live
    BY <1>10 DEF WorkExit, Live
  <2>5. Cardinality(Live) # 0
    BY <2>4, LiveIs, FS_EmptySet
  <2>6. Cardinality(Live) <= worker[t].count
    BY <1>10 DEF WorkExit, Held, Ending
  <2>7. runThreads' = worker[t].count - 1 /\ worker[t].count \in 0..NThreads
    BY <1>10 DEF WorkExit
  <2>8. runThreads' \in 0..NThreads
    BY <1>2, <2>5, <2>6, <2>7, LiveIs
  <2> QED
    BY <1>10, <2>3, <2>8 DEF WorkExit, queueVars, timerVars, WorkerType
<1> QED
  BY <1>3, <1>4, <1>5, <1>6, <1>7, <1>8, <1>9, <1>10 DEF Work

LEMMA ProceedType ==
  ASSUME TypeOK, NEW x \in Caller, NEW call, Proceed(x, call)
  PROVE  /\ caller' \in [Caller -> CallerType] /\ state' \in State /\ drained' \in 0..NThreads
         /\ before' \subseteq Call
<1> USE DEF TypeOK
<1>1. CallerPC = {"idle", "waiting", "threads", "running", "drain", "draining", "eof", "join", "joinTimer"}
  BY DEF CallerPC
<1>2. NThreads \in Nat \ {0} /\ 1 \in Thread /\ 0 \in 0..NThreads
  BY ThreadAssumption DEF Thread
<1>3. Queued \subseteq Call
  <2>1. \A t \in Thread : Rng(ring[t]) \subseteq Call /\ Rng(overRing[t]) \subseteq Call
    BY DEF Rng
  <2>2. \A t \in Thread : {worker[t].call} \subseteq Call \cup {None}
    OBVIOUS
  <2> DEFINE Parts == {Rng(ring[t]) \cup Rng(overRing[t]) \cup {worker[t].call} : t \in Thread}
  <2>3. ASSUME NEW P \in Parts
        PROVE  P \subseteq Call \cup {None}
    <3>1. PICK t \in Thread : P = Rng(ring[t]) \cup Rng(overRing[t]) \cup {worker[t].call}
      OBVIOUS
    <3> HIDE DEF Parts
    <3> QED
      BY <2>1, <2>2, <3>1
  <2>4. Queued = (UNION Parts) \ {None}
    BY DEF Queued
  <2> HIDE DEF Parts
  <2> QED
    BY <2>3, <2>4
<1>4. CASE Start(x)
  <2>1. \E pc \in CallerPC : CallerAt(x, pc)
    BY <1>1, <1>4 DEF Start
  <2>2. caller' \in [Caller -> CallerType]
    BY <2>1, CallerAtType
  <2> QED
    BY <1>4, <2>2 DEF Start, State
<1>5. CASE Drain(x)
  <2>2. CallerAt(x, "idle") \/ caller' = [caller EXCEPT ![x].pc = "drain", ![x].thread = 1]
    BY <1>5 DEF Drain
  <2>3. caller' \in [Caller -> CallerType]
    BY <1>1, <1>2, <2>2, CallerAtType, CallerGoesType
  <2>4. state' \in State /\ drained' \in 0..NThreads
    BY <1>2, <1>5 DEF Drain, State
  <2>5. before' = before \/ before' = Queued
    BY <1>5 DEF Drain
  <2> QED
    BY <1>3, <2>3, <2>4, <2>5
<1>6. CASE Stop(x)
  <2>1. \E pc \in CallerPC : CallerAt(x, pc)
    BY <1>1, <1>6 DEF Stop
  <2>2. caller' \in [Caller -> CallerType]
    BY <2>1, CallerAtType
  <2> QED
    BY <1>6, <2>2 DEF Stop, State
<1> QED
  BY <1>4, <1>5, <1>6 DEF Proceed

LEMMA LifeCallKeepsType ==
  ASSUME TypeOK, NEW x \in Caller, LifeCall(x)
  PROVE  TypeOK'
<1> USE DEF TypeOK
<1>1. Settled(state) \in State /\ 1 \in Thread
  BY ThreadAssumption DEF Settled, State, Thread
<1>2. calls' \in 0..use.calls
  <2>1. use \in Uses /\ use.calls \in Nat
    BY BoundAssumption
  <2> QED
    BY <2>1 DEF LifeCall
<1>3. /\ caller' \in [Caller -> CallerType] /\ state' \in State /\ drained' \in 0..NThreads
      /\ before' \subseteq Call
  <2>1. CASE \E call \in {"start", "drain", "stop"} : Proceed(x, call)
    BY <2>1, ProceedType
  <2>2. CASE ~\E call \in {"start", "drain", "stop"} : Proceed(x, call)
    <3>1. PICK call \in {"start", "drain", "stop"} :
            /\ caller' = [caller EXCEPT ![x] = [pc |-> "waiting", call |-> call, want |-> Settled(state), thread |-> 1]]
            /\ UNCHANGED <<state, drained, before>>
      BY <2>2 DEF LifeCall
    <3>2. caller' \in [Caller -> CallerType]
      BY <1>1, <3>1 DEF CallerType, CallerPC
    <3> QED
      BY <3>1, <3>2
  <2> QED
    BY <2>1, <2>2
<1> QED
  BY <1>2, <1>3 DEF LifeCall, LifeUnchanged, queueVars, timerVars, CallerType

LEMMA NextThread ==
  ASSUME NEW n \in Thread \cup {NThreads + 1}, n <= NThreads
  PROVE  n \in Thread /\ n + 1 \in Thread \cup {NThreads + 1}
  BY ThreadAssumption DEF Thread

LEMMA LifeKeepsType ==
  ASSUME TypeOK, Held, NEW x \in Caller, LifeStep(x)
  PROVE  TypeOK'
<1> USE DEF TypeOK
<1>1. CallerPC = {"idle", "waiting", "threads", "running", "drain", "draining", "eof", "join", "joinTimer"}
  BY DEF CallerPC
<1>2. NThreads \in Nat \ {0}
  BY ThreadAssumption
<1>3. CASE LifeResume(x)
  BY <1>3, ProceedType DEF LifeResume, LifeUnchanged, queueVars, timerVars, CallerType
<1>4. CASE StartThreads(x)
  <2>1. caller' \in [Caller -> CallerType]
    BY <1>1, <1>4, CallerAtType DEF StartThreads
  <2>3. \A t \in Thread : worker[t] \in WorkerType /\ [worker[t] EXCEPT !.pc = "load"] \in WorkerType
    BY OneWorkerType DEF WorkerPC
  <2>4. worker' \in [Thread -> WorkerType]
    BY <1>4, <2>3 DEF StartThreads
  <2>5. timer \in TimerType /\ timer' = [timer EXCEPT !.pc = "check"]
    BY <1>4 DEF StartThreads, TimerType, EntryType
  <2>6. timer' \in TimerType
    BY <2>5 DEF TimerType, TimerPC
  <2>7. runThreads' \in 0..NThreads
    BY <1>2, <1>4 DEF StartThreads
  <2> QED
    BY <1>4, <2>1, <2>4, <2>6, <2>7 DEF StartThreads, queueVars, CallerType, WorkerType, TimerType, EntryType
<1>5. CASE StartRunning(x)
  <2>1. caller' \in [Caller -> CallerType]
    BY <1>1, <1>5, CallerAtType DEF StartRunning
  <2> QED
    BY <1>5, <2>1 DEF StartRunning, LifeUnchanged, queueVars, timerVars, CallerType, State
<1>6. CASE DrainThread(x)
  <2>1. CASE caller[x].thread <= NThreads
    <3>0. caller[x].thread \in Thread \cup {NThreads + 1}
      OBVIOUS
    <3>1. caller[x].thread \in Thread /\ caller[x].thread + 1 \in Thread \cup {NThreads + 1}
      BY <2>1, <3>0, NextThread
    <3>2. /\ client' = [client EXCEPT ![x] = [pc |-> "load", thread |-> caller[x].thread, call |-> Drained]]
          /\ caller' = [caller EXCEPT ![x].thread = @ + 1]
      BY <1>6, <2>1 DEF DrainThread
    <3>3. Drained \in Call /\ x \in Client
      BY DEF Call, Client
    <3>4. client' \in [Client -> ClientType]
      BY <3>1, <3>2, <3>3 DEF ClientType, ClientPC
    <3>6. caller' \in [Caller -> CallerType]
      BY <3>1, <3>2, CallerSendsType
    <3> QED
      BY <1>6, <3>4, <3>6 DEF DrainThread, queueVars, timerVars, ClientType, CallerType
  <2>2. CASE ~(caller[x].thread <= NThreads)
    <3>1. CallerAt(x, "draining") /\ UNCHANGED client
      BY <1>6, <2>2 DEF DrainThread
    <3>2. caller' \in [Caller -> CallerType]
      BY <1>1, <3>1, CallerAtType
    <3> QED
      BY <1>6, <3>1, <3>2 DEF DrainThread, queueVars, timerVars, CallerType
  <2> QED
    BY <2>1, <2>2
<1>7. CASE DrainWait(x)
  <2>1. caller' \in [Caller -> CallerType]
    BY <1>1, <1>7, CallerAtType DEF DrainWait
  <2> QED
    BY <1>7, <2>1 DEF DrainWait, LifeUnchanged, queueVars, timerVars, CallerType
<1>8. CASE StopEof(x)
  <2>1. caller' \in [Caller -> CallerType]
    BY <1>1, <1>8, CallerAtType DEF StopEof
  <2>2. eof' \in [Thread -> BOOLEAN]
    BY <1>8 DEF StopEof
  <2> QED
    BY <1>8, <2>1, <2>2 DEF StopEof, timerVars, CallerType
<1>9. CASE StopJoin(x)
  <2>1. caller' \in [Caller -> CallerType]
    BY <1>1, <1>9, CallerAtType DEF StopJoin
  <2>2. eof' \in [Thread -> BOOLEAN] /\ pending' \in Nat
    BY <1>9 DEF StopJoin
  <2>4. \A t \in Thread : [worker[t] EXCEPT !.pc = "none"] \in WorkerType
    BY OneWorkerType DEF WorkerPC
  <2>5. worker' \in [Thread -> WorkerType]
    BY <1>9, <2>4 DEF StopJoin
  <2> QED
    BY <1>9, <2>1, <2>2, <2>5 DEF StopJoin, CallerType, WorkerType
<1>10. CASE StopTimer(x)
  <2>1. caller' \in [Caller -> CallerType]
    BY <1>1, <1>10, CallerAtType DEF StopTimer
  <2>2. timer \in TimerType /\ timer' = [timer EXCEPT !.pc = "none"]
    BY <1>10 DEF StopTimer, TimerType, EntryType
  <2>3. timer' \in TimerType
    BY <2>2 DEF TimerType, TimerPC
  <2> QED
    BY <1>10, <2>1, <2>3 DEF StopTimer, LifeUnchanged, queueVars, CallerType, State, TimerType, EntryType
<1> QED
  BY <1>3, <1>4, <1>5, <1>6, <1>7, <1>8, <1>9, <1>10 DEF LifeStep

LEMMA TimeIs == Time \subseteq Nat
<1> SUFFICES ASSUME NEW i \in Time
             PROVE  i \in Nat
  OBVIOUS
<1>1. PICK u \in Uses : i \in 0..u.time
  BY DEF Time
<1> QED
  BY <1>1, BoundAssumption

LEMMA EarliestIs ==
  ASSUME TypeOK, schedule # {}
  PROVE  Earliest(schedule) \in schedule
<1> DEFINE S == {f.at : f \in schedule}
<1>1. S \subseteq Nat /\ S # {}
  <2>1. \A f \in schedule : f.at \in Nat
    BY TimeIs DEF TypeOK, EntryType
  <2> QED
    BY <2>1
<1>2. PICK m \in S : \A y \in S : m <= y
  BY <1>1, LeastExists
<1>3. \E f \in schedule : \A g \in schedule : f.at <= g.at
  BY <1>2
<1> QED
  BY <1>3 DEF Earliest

LEMMA TimerGoesType ==
  ASSUME TypeOK, NEW pc \in TimerPC, NEW time \in Time \cup {None}, NEW entry \in EntryType \cup {None},
         timer' = [timer EXCEPT !.pc = pc, !.time = time, !.entry = entry]
  PROVE  timer' \in TimerType
<1>1. timer \in TimerType
  BY DEF TypeOK, TimerType, EntryType
<1> QED
  BY <1>1 DEF TimerType

LEMMA TimerFieldsType ==
  ASSUME TypeOK, NEW pc \in TimerPC, NEW time \in Time \cup {None}, NEW entry \in EntryType \cup {None},
         \/ timer' = [timer EXCEPT !.pc = pc]
         \/ timer' = [timer EXCEPT !.pc = pc, !.time = time]
         \/ timer' = [timer EXCEPT !.pc = pc, !.entry = entry]
  PROVE  timer' \in TimerType
<1>1. timer \in TimerType
  BY DEF TypeOK, TimerType, EntryType
<1>2. timer' = [timer EXCEPT !.pc = pc] => timer' \in TimerType
  BY <1>1 DEF TimerType
<1>3. timer' = [timer EXCEPT !.pc = pc, !.time = time] => timer' \in TimerType
  BY <1>1 DEF TimerType
<1>4. timer' = [timer EXCEPT !.pc = pc, !.entry = entry] => timer' \in TimerType
  BY <1>1 DEF TimerType
<1> QED
  BY <1>2, <1>3, <1>4

LEMMA TimerKeepsType ==
  ASSUME TypeOK, Held, TimerThread
  PROVE  TypeOK'
<1> USE DEF TypeOK, EntryType
<1>1. TimerPC = {"none", "check", "pending", "gate", "due", "dispatch", "again", "ended"}
  BY DEF TimerPC
<1>2. now \in Time /\ None \in Time \cup {None} /\ None \in EntryType \cup {None}
  OBVIOUS
<1>3. timer \in TimerType /\ (timer.pc \in {"dispatch", "again"} => timer.entry \in EntryType)
  BY DEF Held, HandsOfTimers, TimerType
<1>4. CASE TimerCheck
  <2>1. schedule # {} => Earliest(schedule).at \in Time
    BY EarliestIs
  <2>2. \E pc \in {"ended", "pending"}, time \in Time \cup {None} :
          timer' = [timer EXCEPT !.pc = pc] \/ timer' = [timer EXCEPT !.pc = pc, !.time = time]
    BY <1>4, <2>1 DEF TimerCheck
  <2>3. timer' \in TimerType
    BY <1>1, <1>2, <2>2, TimerFieldsType
  <2> QED
    BY <1>4, <2>3 DEF TimerCheck, TimerUnchanged, lifeVars, TimerType
<1>5. CASE TimerPending
  <2>1. timer' \in TimerType
    BY <1>1, <1>2, <1>5, TimerFieldsType DEF TimerPending
  <2>2. pending' \in Nat
    BY <1>5 DEF TimerPending
  <2> QED
    BY <1>5, <2>1, <2>2 DEF TimerPending, TimerUnchanged, lifeVars, TimerType
<1>6. CASE TimerGate
  <2>1. \E pc \in {"ended", "due"} :
          timer' = [timer EXCEPT !.pc = pc] \/ timer' = [timer EXCEPT !.pc = pc, !.time = now]
    BY <1>6 DEF TimerGate
  <2>2. timer' \in TimerType
    BY <1>1, <1>2, <2>1, TimerFieldsType
  <2> QED
    BY <1>6, <2>2 DEF TimerGate, TimerUnchanged, lifeVars, TimerType
<1>7. CASE TimerDue
  <2>1. \/ timer' = [timer EXCEPT !.pc = "check", !.time = None] /\ UNCHANGED <<schedule, handle>>
        \/ \E f \in schedule : /\ timer' = [timer EXCEPT !.pc = "dispatch", !.entry = f]
                               /\ schedule' = schedule \ {f}
                               /\ handle' = [handle EXCEPT ![f.call[1]] = None]
    BY <1>7 DEF TimerDue
  <2>2. timer' \in TimerType
    BY <1>1, <1>2, <2>1, TimerFieldsType
  <2>3. schedule' \subseteq schedule /\ handle' \in [Timer -> Call \cup {None}]
    BY <2>1
  <2> QED
    BY <1>7, <2>2, <2>3 DEF TimerDue, TimerUnchanged, lifeVars, TimerType
<1>8. CASE TimerDispatch
  <2>1. \/ timer' = [timer EXCEPT !.pc = "due", !.entry = None]
        \/ timer' = [timer EXCEPT !.pc = "again", !.time = None]
    BY <1>8 DEF TimerDispatch
  <2>2. timer' \in TimerType
    BY <1>1, <1>2, <2>1, TimerFieldsType
  <2>3. timer.entry.call \in Call
    BY <1>3, <1>8 DEF TimerDispatch
  <2>4. ring' \in [Thread -> Seq(Call)] /\ \A u \in Thread : Len(ring'[u]) <= RingSize
    BY <1>8, <2>3, PushType DEF TimerDispatch, Takes
  <2>5. retried' \subseteq Timer
    <3>1. timer.entry \in Entries
      BY <1>8 DEF TimerDispatch, Held, HandsOfTimers, Entries
    <3>2. timer.entry.call[1] \in Timer
      BY <3>1, DeferredIs DEF Held, HandsOfTimers
    <3> QED
      BY <1>8, <3>2 DEF TimerDispatch
  <2> QED
    BY <1>8, <2>2, <2>4, <2>5 DEF TimerDispatch, TimerUnchanged, lifeVars, TimerType
<1>9. CASE TimerAgain
  <2>1. timer' \in TimerType
    BY <1>1, <1>2, <1>9, TimerFieldsType DEF TimerAgain
  <2>2. schedule' \subseteq EntryType
    BY <1>3, <1>9 DEF TimerAgain
  <2> QED
    BY <1>9, <2>1, <2>2 DEF TimerAgain, TimerUnchanged, lifeVars, TimerType
<1> QED
  BY <1>4, <1>5, <1>6, <1>7, <1>8, <1>9 DEF TimerThread

LEMMA DeferredKeepsType ==
  ASSUME TypeOK, NEW x \in Timer, RunTimed(x) \/ Del(x)
  PROVE  TypeOK'
<1> USE DEF TypeOK
<1>1. Outstanding(x) \subseteq Call
  BY DEF Outstanding, EntryType
<1>2. CASE RunTimed(x)
  <2> DEFINE call == <<x, made[x] + 1>>
  <2>1. call \in Call
    <3>1. use \in Uses /\ use.timed \in Nat /\ made[x] \in Nat /\ made[x] < use.timed
      BY <1>2, BoundAssumption DEF RunTimed
    <3>2. call \in Timer \X (1..use.timed)
      BY <3>1
    <3>3. call \in DeferredCall
      BY <3>1, <3>2 DEF DeferredCall
    <3> QED
      BY <3>3 DEF Call
  <2> HIDE DEF call
  <2>2. PICK at \in Time, thread \in Thread \cup {None} :
          /\ revoked' = revoked \cup Outstanding(x)
          /\ \/ /\ \E t \in Takes(thread) : Push(t, call)
                /\ schedule' = schedule \ Referred(x) /\ handle' = [handle EXCEPT ![x] = None]
                /\ UNCHANGED pending
             \/ /\ schedule' = (schedule \ Referred(x)) \cup {[call |-> call, at |-> at, thread |-> thread]}
                /\ handle' = [handle EXCEPT ![x] = call]
                /\ pending' = pending + 1 \/ pending' = pending
                /\ UNCHANGED ring
    BY <1>2 DEF RunTimed, call
  <2>3. ring' \in [Thread -> Seq(Call)] /\ \A u \in Thread : Len(ring'[u]) <= RingSize
    BY <2>1, <2>2, PushType DEF Takes
  <2>4. made' \in [Producer \cup Timer -> Nat]
    BY <1>2 DEF RunTimed
  <2>5. schedule' \subseteq EntryType
    BY <2>1, <2>2 DEF EntryType
  <2>6. handle' \in [Timer -> Call \cup {None}]
    BY <2>1, <2>2
  <2>7. pending' \in Nat
    BY <2>2
  <2>8. revoked' \subseteq Call
    BY <1>1, <2>2
  <2> QED
    BY <1>2, <2>3, <2>4, <2>5, <2>6, <2>7, <2>8 DEF RunTimed, lifeVars
<1>3. CASE Del(x)
  BY <1>1, <1>3 DEF Del, lifeVars, queueVars
<1> QED
  BY <1>2, <1>3

LEMMA TickKeepsType ==
  ASSUME TypeOK, Tick
  PROVE  TypeOK'
<1>1. now' \in Time
  <2>1. use \in Uses /\ use.time \in Nat /\ now \in Nat
    BY BoundAssumption, TimeIs DEF TypeOK
  <2>2. now + 1 \in 0..use.time
    BY <2>1 DEF Tick
  <2> QED
    BY <2>1, <2>2 DEF Tick, Time
<1> QED
  BY <1>1 DEF Tick, TypeOK, lifeVars, queueVars

LEMMA TypeStep ==
  ASSUME TypeOK, Held, [Next]_vars
  PROVE  TypeOK'
<1>1. CASE UNCHANGED vars
  BY <1>1 DEF TypeOK, vars, lifeVars, queueVars, timerVars
<1>2. CASE Next
  BY <1>2, ClientKeepsType, RunKeepsType, WorkKeepsType, LifeCallKeepsType, LifeKeepsType, TimerKeepsType,
     DeferredKeepsType, TickKeepsType DEF Next
<1> QED
  BY <1>1, <1>2

-----------------------------------------------------------------------------
(* What the steps of each actor leave alone *)

LEMMA ClientFrame ==
  ASSUME NEW x \in Client, ClientStep(x)
  PROVE  /\ UNCHANGED <<state, drained, runThreads, caller, calls, use, before, eof, worker, made, ran, added>>
         /\ UNCHANGED <<schedule, handle, pending, timer, now, revoked, retried>>
         /\ \E pc \in ClientPC : client' = [client EXCEPT ![x].pc = pc]
  BY DEF ClientStep, AddTry, RunLoad, RunPush, RunStatus, RunCount, RunOver, ClientAt, ClientPC,
         lifeVars, queueVars, timerVars

LEMMA RunFrame ==
  ASSUME NEW x \in Producer, Run(x)
  PROVE  /\ UNCHANGED <<state, drained, runThreads, caller, calls, use, before, ring, eof, overCount, overRing>>
         /\ UNCHANGED <<schedule, handle, pending, timer, now, revoked, retried, worker, ran, refused>>
  BY DEF Run, lifeVars, queueVars, timerVars

LEMMA WorkFrame ==
  ASSUME NEW t \in Thread, Work(t)
  PROVE  /\ UNCHANGED <<caller, calls, use, before, eof, client, made, added, refused>>
         /\ UNCHANGED <<schedule, handle, pending, timer, now, revoked, retried>>
  BY DEF Work, WorkLoad, WorkOver, WorkMove, WorkCount, WorkShift, WorkEmpty, WorkFinal, WorkExit,
         lifeVars, queueVars, timerVars

LEMMA LifeFrame ==
  ASSUME NEW x \in Caller, LifeCall(x) \/ LifeStep(x)
  PROVE  /\ UNCHANGED <<ring, overCount, overRing, made, ran, added, refused, use>>
         /\ UNCHANGED <<schedule, handle, now, revoked, retried>>
  BY DEF LifeCall, LifeStep, LifeResume, StartThreads, StartRunning, DrainThread, DrainWait, StopEof,
         StopJoin, StopTimer, LifeUnchanged, queueVars, timerVars

LEMMA DeferredFrame ==
  ASSUME NEW x \in Timer, RunTimed(x) \/ Del(x)
  PROVE  /\ UNCHANGED <<state, drained, runThreads, caller, calls, use, before, eof, overCount, overRing>>
         /\ UNCHANGED <<timer, now, retried, worker, client, ran, added, refused>>
         /\ \A y \in Producer : made'[y] = made[y] \/ made \notin [Producer \cup Timer -> Nat]
<1>1. x \notin Producer
  BY ClientAssumption
<1> QED
  BY <1>1 DEF RunTimed, Del, lifeVars, queueVars

LEMMA TimerFrame ==
  ASSUME TimerThread
  PROVE  /\ UNCHANGED <<state, drained, runThreads, caller, calls, use, before, eof, overCount, overRing>>
         /\ UNCHANGED <<now, revoked, worker, client, made, ran, added, refused>>
  BY DEF TimerThread, TimerCheck, TimerPending, TimerGate, TimerDue, TimerDispatch, TimerAgain,
         TimerUnchanged, lifeVars

LEMMA TickFrame ==
  ASSUME Tick
  PROVE  /\ UNCHANGED <<state, drained, runThreads, caller, calls, use, before, ring, eof, overCount, overRing>>
         /\ UNCHANGED <<schedule, handle, pending, timer, revoked, retried, worker, client, made, ran, added, refused>>
  BY DEF Tick, lifeVars, queueVars

-----------------------------------------------------------------------------
(* Who holds what, step by step *)

LEMMA RunIs ==
  ASSUME TypeOK, NEW x \in Producer, Run(x)
  PROVE  /\ <<x, made[x] + 1>> \in QueuedCall
         /\ client[x].pc = "idle"
         /\ \E pc \in {"load", "add"}, t \in Thread :
              /\ client' = [client EXCEPT ![x] = [pc |-> pc, thread |-> t, call |-> <<x, made[x] + 1>>]]
              /\ added' = IF pc = "add" THEN added \cup {<<x, made[x] + 1>>} ELSE added
         /\ made' = [made EXCEPT ![x] = @ + 1] /\ made[x] \in Nat
<1>1. use \in Uses /\ use.runs \in Nat /\ made[x] \in Nat /\ made[x] < use.runs
  BY BoundAssumption DEF Run, TypeOK
<1>2. <<x, made[x] + 1>> \in Producer \X (1..use.runs)
  BY <1>1
<1>3. <<x, made[x] + 1>> \in QueuedCall
  BY <1>1, <1>2 DEF QueuedCall
<1> QED
  BY <1>1, <1>3 DEF Run

\* The steps of start(), drain() and stop() that give a client a call.
LEMMA LifeClient ==
  ASSUME TypeOK, NEW x \in Caller, LifeCall(x) \/ LifeStep(x)
  PROVE  \/ UNCHANGED client
         \/ /\ caller[x].pc = "drain" /\ client[x].pc = "idle" /\ caller[x].thread \in Thread
            /\ client' = [client EXCEPT ![x] = [pc |-> "load", thread |-> caller[x].thread, call |-> Drained]]
            /\ caller' = [caller EXCEPT ![x].thread = @ + 1]
            /\ UNCHANGED <<state, drained, worker, timer, eof, before, runThreads>>
<1>1. caller[x].thread \in Thread \cup {NThreads + 1} /\ NThreads \in Nat
  BY ThreadAssumption DEF TypeOK
<1>2. caller[x].thread <= NThreads => caller[x].thread \in Thread
  BY <1>1 DEF Thread
<1> QED
  BY <1>2 DEF LifeCall, LifeStep, LifeResume, StartThreads, StartRunning, DrainThread, DrainWait, StopEof,
         StopJoin, StopTimer, LifeUnchanged, queueVars, timerVars

LEMMA ClientStepHands ==
  ASSUME TypeOK, HandsOfClients, NEW x \in Client, ClientStep(x)
  PROVE  HandsOfClients'
<1>1. \A y \in Client : /\ client'[y].call = client[y].call /\ client'[y].thread = client[y].thread
                        /\ client'[y].pc # "idle" => client[y].pc # "idle"
                        /\ client'[y].pc = "add" => client[y].pc = "add"
                        /\ y # x => client'[y] = client[y]
  BY DEF TypeOK, ClientStep, AddTry, RunLoad, RunPush, RunStatus, RunCount, RunOver, ClientAt, ClientPC
<1>2. UNCHANGED made
  BY ClientFrame
<1> QED
  BY <1>1, <1>2 DEF HandsOfClients, InHand, Client

LEMMA ClientsHold ==
  ASSUME TypeOK, HandsOfClients, [Next]_vars
  PROVE  HandsOfClients'
<1>1. CASE UNCHANGED <<client, made>>
  BY <1>1 DEF HandsOfClients, InHand
<1>2. ASSUME NEW x \in Client, ClientStep(x)
      PROVE  HandsOfClients'
  BY <1>2, ClientStepHands
<1>3. ASSUME NEW x \in Producer, Run(x)
      PROVE  HandsOfClients'
  <2>1. <<x, made[x] + 1>> \in Call
    BY <1>3, RunIs DEF Call
  <2>2. \A y \in Client : y # x => client'[y] = client[y]
    BY <1>3, RunIs DEF TypeOK
  <2>3. client'[x].call = <<x, made[x] + 1>>
    <3>1. PICK pc \in {"load", "add"}, t \in Thread :
            client' = [client EXCEPT ![x] = [pc |-> pc, thread |-> t, call |-> <<x, made[x] + 1>>]]
      BY <1>3, RunIs
    <3>2. x \in Client /\ client \in [Client -> ClientType]
      BY DEF TypeOK, ClientType, Client
    <3> QED
      BY <3>1, <3>2
  <2>4. made'[x] = made[x] + 1 /\ \A y \in Producer : y # x => made'[y] = made[y]
    <3>1. made \in [Producer \cup Timer -> Nat] /\ made' = [made EXCEPT ![x] = @ + 1]
      BY <1>3, RunIs DEF TypeOK
    <3> QED
      BY <3>1
  <2>5. x \notin Caller
    BY ClientAssumption
  <2> QED
    BY <2>1, <2>2, <2>3, <2>4, <2>5 DEF HandsOfClients, InHand, Client
<1>4. ASSUME NEW x \in Caller, LifeCall(x) \/ LifeStep(x)
      PROVE  HandsOfClients'
  <2>1. UNCHANGED made
    BY <1>4, LifeFrame
  <2>2. CASE UNCHANGED client
    BY <1>1, <2>1, <2>2
  <2>3. CASE client' = [client EXCEPT ![x] = [pc |-> "load", thread |-> caller[x].thread, call |-> Drained]]
    <3>1. \A y \in Client : y # x => client'[y] = client[y]
      BY <2>3 DEF TypeOK
    <3>2. client'[x].pc = "load" /\ client'[x].call = Drained
      BY <2>3 DEF TypeOK, Client
    <3>3. x \notin Producer
      BY ClientAssumption
    <3> QED
      BY <2>1, <3>1, <3>2, <3>3 DEF HandsOfClients, InHand, Client
  <2> QED
    BY <1>4, <2>2, <2>3, LifeClient
<1>5. ASSUME NEW t \in Thread, Work(t)
      PROVE  HandsOfClients'
  BY <1>1, <1>5, WorkFrame
<1>6. ASSUME NEW x \in Timer, RunTimed(x) \/ Del(x)
      PROVE  HandsOfClients'
  <2>1. UNCHANGED client /\ \A y \in Producer : made'[y] = made[y]
    BY <1>6, DeferredFrame DEF TypeOK
  <2> QED
    BY <2>1 DEF HandsOfClients, InHand
<1>7. CASE TimerThread
  BY <1>1, <1>7, TimerFrame
<1>8. CASE Tick
  BY <1>1, <1>8, TickFrame
<1>9. CASE UNCHANGED vars
  BY <1>1, <1>9 DEF vars
<1> QED
  BY <1>2, <1>3, <1>4, <1>5, <1>6, <1>7, <1>8, <1>9 DEF Next

LEMMA RunTimedIs ==
  ASSUME TypeOK, NEW x \in Timer, RunTimed(x)
  PROVE  <<x, made[x] + 1>> \in DeferredCall /\ made[x] \in Nat /\ made' = [made EXCEPT ![x] = @ + 1]
<1>1. use \in Uses /\ use.timed \in Nat /\ made[x] \in Nat /\ made[x] < use.timed
  BY BoundAssumption DEF RunTimed, TypeOK
<1>2. <<x, made[x] + 1>> \in Timer \X (1..use.timed)
  BY <1>1
<1>3. <<x, made[x] + 1>> \in DeferredCall
  BY <1>1, <1>2 DEF DeferredCall
<1> QED
  BY <1>1, <1>3 DEF RunTimed

LEMMA LifeTimer ==
  ASSUME NEW x \in Caller, LifeCall(x) \/ LifeStep(x)
  PROVE  \/ UNCHANGED timer
         \/ caller[x].pc = "threads" /\ timer' = [timer EXCEPT !.pc = "check"]
         \/ timer.pc = "ended" /\ timer' = [timer EXCEPT !.pc = "none"]
  BY DEF LifeCall, LifeStep, LifeResume, StartThreads, StartRunning, DrainThread, DrainWait, StopEof,
         StopJoin, StopTimer, LifeUnchanged, queueVars, timerVars

\* A step of work() is a step of its thread.
LEMMA WorkerMoves ==
  ASSUME TypeOK, NEW t \in Thread, Work(t)
  PROVE  /\ worker[t].pc \notin {"none", "ended"}
         /\ \A u \in Thread : u # t => worker'[u] = worker[u]
         /\ worker'[t].pc # "none"
         /\ IF worker[t].pc = "over" /\ overRing[t] # <<>>
            THEN worker'[t].pc = "move" /\ worker'[t].call = Head(overRing[t])
            ELSE worker'[t].pc # "move" /\ worker'[t].call = (IF worker[t].pc = "move" THEN None ELSE worker[t].call)
<1>1. worker \in [Thread -> WorkerType]
  BY DEF TypeOK, WorkerType
<1> QED
  BY <1>1 DEF Work, WorkLoad, WorkOver, WorkMove, WorkCount, WorkShift, WorkEmpty, WorkFinal, WorkExit,
         WorkerAt, WorkerType

LEMMA LifeWorker ==
  ASSUME TypeOK, NEW x \in Caller, LifeCall(x) \/ LifeStep(x)
  PROVE  \/ UNCHANGED worker /\ UNCHANGED runThreads
         \/ /\ caller[x].pc = "threads" /\ CallerAt(x, "running") /\ runThreads' = NThreads
            /\ worker' = [t \in Thread |-> IF t > runThreads THEN [worker[t] EXCEPT !.pc = "load"] ELSE worker[t]]
            /\ timer' = [timer EXCEPT !.pc = "check"] /\ UNCHANGED <<state, eof>>
         \/ /\ caller[x].pc = "join" /\ CallerAt(x, "joinTimer") /\ UNCHANGED <<state, timer, runThreads>>
            /\ \A t \in Thread : worker[t].pc \in {"none", "ended"}
            /\ worker' = [t \in Thread |-> [worker[t] EXCEPT !.pc = "none"]]
            /\ eof' = [t \in Thread |-> FALSE]
  BY DEF LifeCall, LifeStep, LifeResume, StartThreads, StartRunning, DrainThread, DrainWait, StopEof,
         StopJoin, StopTimer, LifeUnchanged, queueVars, timerVars

LEMMA ThreadsHold ==
  ASSUME TypeOK, Held, [Next]_vars
  PROVE  HandsOfThreads'
<1> USE DEF HandsOfThreads, Moving
<1>1. CASE UNCHANGED worker
  BY <1>1 DEF Held
<1>2. ASSUME NEW t \in Thread, Work(t)
      PROVE  HandsOfThreads'
  <2>1. overRing[t] # <<>> => Head(overRing[t]) # None
    <3>1. overRing[t] \in Seq(Call)
      BY DEF TypeOK
    <3> QED
      BY <3>1, NoneIsNoCall, HeadTailProperties
  <2> QED
    BY <1>2, <2>1, WorkerMoves DEF Held
<1>3. ASSUME NEW x \in Caller, LifeCall(x) \/ LifeStep(x)
      PROVE  HandsOfThreads'
  <2>1. worker \in [Thread -> WorkerType]
    BY DEF TypeOK, WorkerType
  <2>2. caller[x].pc = "threads" => \A t \in Thread : worker[t].pc = "none"
    BY DEF Held, Ending
  <2>3. CASE worker' = [t \in Thread |-> IF t > runThreads THEN [worker[t] EXCEPT !.pc = "load"] ELSE worker[t]]
             /\ caller[x].pc = "threads"
    <3>1. \A t \in Thread : worker'[t].pc \in {"none", "load"} /\ worker'[t].call = worker[t].call
      BY <2>1, <2>2, <2>3 DEF WorkerType
    <3> QED
      BY <2>2, <2>3, <3>1 DEF Held
  <2>4. CASE worker' = [t \in Thread |-> [worker[t] EXCEPT !.pc = "none"]]
             /\ \A t \in Thread : worker[t].pc \in {"none", "ended"}
    <3>1. \A t \in Thread : worker'[t].pc = "none" /\ worker'[t].call = worker[t].call
      BY <2>1, <2>4 DEF WorkerType
    <3> QED
      BY <2>4, <3>1 DEF Held
  <2> QED
    BY <1>1, <1>3, <2>3, <2>4, LifeWorker
<1> QED
  BY <1>1, <1>2, <1>3, ClientFrame, RunFrame, DeferredFrame, TimerFrame, TickFrame DEF Next, vars

\* What the timer thread has in hand.
LEMMA TimersHold ==
  ASSUME TypeOK, Held, [Next]_vars
  PROVE  HandsOfTimers'
<1> USE DEF HandsOfTimers
<1>1. CASE UNCHANGED <<timer, schedule>>
  BY <1>1 DEF Held, Entries
<1>2. timer \in TimerType
  BY DEF TypeOK, TimerType, EntryType
<1>3. None \notin EntryType /\ schedule \subseteq EntryType
  BY CallAssumption DEF TypeOK, EntryType
<1>4. CASE TimerThread
  <2>1. /\ \A f \in schedule' : f \in schedule \/ f = timer.entry
        /\ timer'.entry \in schedule \cup {timer.entry, None}
    BY <1>2, <1>4 DEF TimerThread, TimerCheck, TimerPending, TimerGate, TimerDue, TimerDispatch, TimerAgain,
       TimerType
  <2>2. timer'.pc \in {"dispatch", "again"} <=> timer'.entry # None
    BY <1>2, <1>3, <1>4 DEF TimerThread, TimerCheck, TimerPending, TimerGate, TimerDue, TimerDispatch, TimerAgain,
       TimerType, Held
  <2>3. Entries' \subseteq Entries
    BY <2>1 DEF Entries
  <2> QED
    BY <2>2, <2>3 DEF Held
<1>5. ASSUME NEW x \in Timer, RunTimed(x)
      PROVE  HandsOfTimers'
  <2>1. <<x, made[x] + 1>> \in DeferredCall
    BY <1>5, RunTimedIs
  <2>2. \A f \in Entries' : f \in Entries \/ f.call = <<x, made[x] + 1>>
    BY <1>5 DEF RunTimed, Entries
  <2>3. UNCHANGED timer
    BY <1>5, DeferredFrame
  <2> QED
    BY <2>1, <2>2, <2>3 DEF Held
<1>6. ASSUME NEW x \in Timer, Del(x)
      PROVE  HandsOfTimers'
  <2>1. Entries' \subseteq Entries /\ UNCHANGED timer
    BY <1>6 DEF Del, Entries
  <2> QED
    BY <2>1 DEF Held
<1>7. ASSUME NEW x \in Caller, LifeCall(x) \/ LifeStep(x)
      PROVE  HandsOfTimers'
  <2>1. UNCHANGED timer \/ (caller[x].pc = "threads" /\ timer' = [timer EXCEPT !.pc = "check"])
        \/ (timer.pc = "ended" /\ timer' = [timer EXCEPT !.pc = "none"])
    BY <1>7, LifeTimer
  <2>2. caller[x].pc = "threads" => timer.pc = "none"
    BY DEF Held, TimerRests
  <2>3. timer'.entry = timer.entry /\ (timer'.pc = timer.pc
            \/ (timer.pc \in {"none", "ended"} /\ timer'.pc \in {"none", "check"}))
    <3>1. timer' = [timer EXCEPT !.pc = "check"] => timer'.pc = "check" /\ timer'.entry = timer.entry
      BY <1>2 DEF TimerType
    <3>2. timer' = [timer EXCEPT !.pc = "none"] => timer'.pc = "none" /\ timer'.entry = timer.entry
      BY <1>2 DEF TimerType
    <3>3. CASE UNCHANGED timer
      BY <3>3
    <3>4. CASE timer.pc = "none" /\ timer' = [timer EXCEPT !.pc = "check"]
      BY <3>1, <3>4
    <3>5. CASE timer.pc = "ended" /\ timer' = [timer EXCEPT !.pc = "none"]
      BY <3>2, <3>5
    <3> QED
      BY <2>1, <2>2, <3>3, <3>4, <3>5
  <2>4. UNCHANGED schedule
    BY <1>7, LifeFrame
  <2> QED
    BY <2>3, <2>4 DEF Held, Entries
<1> QED
  BY <1>1, <1>4, <1>5, <1>6, <1>7, ClientFrame, RunFrame, WorkFrame, TickFrame DEF Next, vars, timerVars

\* overCount counts what is in the overflow ring.
Leaving(t) == IF worker[t].pc \in {"move", "count"} THEN 1 ELSE 0

LEMMA AddingSame ==
  ASSUME TypeOK, NEW x \in Client, client[x].pc # "over",
         \A y \in Client : y # x => client'[y] = client[y], client'[x].pc # "over"
  PROVE  \A t \in Thread : Adding(t)' = Adding(t)
  BY DEF Adding

LEMMA CountingSame ==
  ASSUME Counting, UNCHANGED <<overCount, overRing>>,
         \A t \in Thread : Adding(t)' = Adding(t) /\ Leaving(t)' = Leaving(t)
  PROVE  Counting'
  BY DEF Counting, Leaving

LEMMA ClientCounts ==
  ASSUME TypeOK, Held, NEW x \in Client, ClientStep(x)
  PROVE  Counting'
<1>0. PICK th \in Thread : th = client[x].thread
  BY DEF TypeOK
<1>1. client \in [Client -> ClientType] /\ overCount \in [Thread -> Nat]
      /\ overRing \in [Thread -> Seq(Call)]
  BY DEF TypeOK, ClientType
<1>2. \A t \in Thread : Leaving(t)' = Leaving(t)
  BY ClientFrame DEF Leaving
<1>3. CASE RunCount(x)
  <2>1. client' = [client EXCEPT ![x].pc = "over"] /\ client[x].pc = "count"
        /\ overCount' = [overCount EXCEPT ![th] = @ + 1] /\ UNCHANGED overRing
    BY <1>0, <1>3 DEF RunCount, ClientAt
  <2>2. Adding(th)' = Adding(th) \cup {x} /\ x \notin Adding(th)
    BY <1>0, <1>1, <2>1 DEF Adding, ClientType
  <2>3. \A t \in Thread : t # th => Adding(t)' = Adding(t)
    BY <1>0, <1>1, <2>1 DEF Adding, ClientType
  <2>4. Cardinality(Adding(th)') = Cardinality(Adding(th)) + 1
    BY <1>1, <2>2, AddingIs, FS_AddElement
  <2>5. \A t \in Thread : Cardinality(Adding(t)) \in Nat /\ Leaving(t) \in Nat /\ Len(overRing[t]) \in Nat
    BY <1>1, AddingIs DEF Leaving
  <2>6. \A t \in Thread : overCount[t] = Len(overRing[t]) + Leaving(t) + Cardinality(Adding(t))
    BY DEF Held, Counting, Leaving
  <2>7. \A t \in Thread : overCount'[t] = Len(overRing'[t]) + Leaving(t)' + Cardinality(Adding(t)')
    BY <1>1, <1>2, <2>1, <2>3, <2>4, <2>5, <2>6
  <2> QED
    BY <2>7 DEF Counting, Leaving
<1>4. CASE RunOver(x)
  <2>1. client' = [client EXCEPT ![x].pc = "idle"] /\ client[x].pc = "over"
        /\ overRing' = [overRing EXCEPT ![th] = Append(@, client[x].call)] /\ UNCHANGED overCount
    BY <1>0, <1>4 DEF RunOver, ClientAt
  <2>2. Adding(th)' = Adding(th) \ {x} /\ x \in Adding(th)
    BY <1>0, <1>1, <2>1 DEF Adding, ClientType
  <2>3. \A t \in Thread : t # th => Adding(t)' = Adding(t)
    BY <1>0, <1>1, <2>1 DEF Adding, ClientType
  <2>4. Cardinality(Adding(th)') = Cardinality(Adding(th)) - 1
    BY <1>1, <2>2, AddingIs, FS_RemoveElement
  <2>5. \A t \in Thread : Cardinality(Adding(t)) \in Nat /\ Leaving(t) \in Nat /\ Len(overRing[t]) \in Nat
    BY <1>1, AddingIs DEF Leaving
  <2>6. \A t \in Thread : overCount[t] = Len(overRing[t]) + Leaving(t) + Cardinality(Adding(t))
    BY DEF Held, Counting, Leaving
  <2>7. Len(overRing'[th]) = Len(overRing[th]) + 1 /\ \A t \in Thread : t # th => overRing'[t] = overRing[t]
    <3>1. overRing[th] \in Seq(Call) /\ overRing'[th] = Append(overRing[th], client[x].call)
      BY <1>1, <2>1
    <3>2. Len(overRing'[th]) = Len(overRing[th]) + 1
      BY <3>1
    <3> QED
      BY <1>1, <2>1, <3>2
  <2>8. \A t \in Thread : overCount'[t] = Len(overRing'[t]) + Leaving(t)' + Cardinality(Adding(t)')
    BY <1>1, <1>2, <2>1, <2>3, <2>4, <2>5, <2>6, <2>7
  <2> QED
    BY <2>8 DEF Counting, Leaving
<1>5. CASE ~RunCount(x) /\ ~RunOver(x)
  <2>1. UNCHANGED <<overCount, overRing>> /\ client[x].pc # "over"
        /\ \E pc \in {"idle", "load", "push", "count", "status"} : ClientAt(x, pc)
    <3>1. UNCHANGED <<overCount, overRing>> /\ client[x].pc # "over"
      BY <1>5 DEF ClientStep, AddTry, RunLoad, RunPush, RunStatus, queueVars
    <3>2. CASE AddTry(x)
      BY <3>1, <3>2 DEF AddTry
    <3>3. CASE RunLoad(x)
      BY <3>1, <3>3 DEF RunLoad
    <3>4. CASE RunPush(x)
      BY <3>1, <3>4 DEF RunPush
    <3>5. CASE RunStatus(x)
      BY <3>1, <3>5 DEF RunStatus
    <3> QED
      BY <1>5, <3>2, <3>3, <3>4, <3>5 DEF ClientStep
  <2>2. client'[x].pc # "over" /\ \A y \in Client : y # x => client'[y] = client[y]
    BY <1>1, <2>1 DEF ClientType, ClientAt
  <2>3. \A t \in Thread : Adding(t)' = Adding(t)
    BY <2>1, <2>2, AddingSame
  <2> QED
    BY <1>2, <2>1, <2>3, CountingSame DEF Held
<1> QED
  BY <1>3, <1>4, <1>5

LEMMA WorkCounts ==
  ASSUME TypeOK, Held, NEW t \in Thread, Work(t)
  PROVE  Counting'
<1>1. worker \in [Thread -> WorkerType] /\ overCount \in [Thread -> Nat] /\ overRing \in [Thread -> Seq(Call)]
  BY DEF TypeOK, WorkerType
<1>2. \A u \in Thread : Adding(u)' = Adding(u)
  BY WorkFrame DEF Adding
<1>3. \A u \in Thread : Cardinality(Adding(u)) \in Nat /\ Leaving(u) \in Nat /\ Len(overRing[u]) \in Nat
  BY <1>1, AddingIs DEF Leaving
<1>4. \A u \in Thread : overCount[u] = Len(overRing[u]) + Leaving(u) + Cardinality(Adding(u))
  BY DEF Held, Counting, Leaving
<1>5. \A u \in Thread : u # t => /\ overCount'[u] = overCount[u] /\ overRing'[u] = overRing[u]
                                 /\ Leaving(u)' = Leaving(u)
  <2>1. \A u \in Thread : u # t => worker'[u] = worker[u]
    BY WorkerMoves
  <2>2. \A u \in Thread : u # t => overCount'[u] = overCount[u] /\ overRing'[u] = overRing[u]
    BY <1>1 DEF Work, WorkLoad, WorkOver, WorkMove, WorkCount, WorkShift, WorkEmpty, WorkFinal, WorkExit,
         queueVars
  <2> QED
    BY <2>1, <2>2 DEF Leaving
<1>6. overCount'[t] = Len(overRing'[t]) + Leaving(t)' + Cardinality(Adding(t))
  <2>1. CASE WorkOver(t) /\ overRing[t] # <<>>
    <3>1. overCount'[t] = overCount[t] /\ Leaving(t) = 0 /\ Leaving(t)' = 1 /\ overRing'[t] = Tail(overRing[t])
      BY <1>1, <2>1 DEF WorkOver, Leaving, WorkerType
    <3>2. Len(overRing'[t]) = Len(overRing[t]) - 1
      BY <1>1, <2>1, <3>1, HeadTailProperties
    <3> QED
      BY <1>3, <1>4, <3>1, <3>2
  <2>2. CASE WorkMove(t)
    <3>1. overCount'[t] = overCount[t] /\ Leaving(t) = 1
      BY <1>1, <2>2 DEF WorkMove, Leaving
    <3>2. CASE HasRoom(t)
      <4>1. overRing'[t] = overRing[t] /\ Leaving(t)' = 1
        BY <1>1, <2>2, <3>2 DEF WorkMove, Leaving, WorkerType
      <4> QED
        BY <1>3, <1>4, <3>1, <4>1
    <3>3. CASE ~HasRoom(t)
      <4>1. overRing'[t] = <<worker[t].call>> \o overRing[t] /\ Leaving(t)' = 0 /\ worker[t].call \in Call
        <5>1. worker[t].call \in Call
          BY <1>1, <2>2 DEF WorkMove, WorkerType, Held, HandsOfThreads, Moving
        <5>2. overRing'[t] = <<worker[t].call>> \o overRing[t]
          BY <1>1, <2>2, <3>3 DEF WorkMove
        <5>3. Leaving(t)' = 0
          BY <1>1, <2>2, <3>3 DEF WorkMove, Leaving, WorkerType
        <5> QED
          BY <5>1, <5>2, <5>3
      <4>2. <<worker[t].call>> \in Seq(Call) /\ Len(<<worker[t].call>>) = 1
        BY <4>1
      <4>3. Len(overRing'[t]) = 1 + Len(overRing[t])
        BY <1>1, <4>1, <4>2, ConcatProperties
      <4> QED
        BY <1>3, <1>4, <3>1, <4>1, <4>3
    <3> QED
      BY <3>2, <3>3
  <2>3. CASE WorkCount(t)
    <3>1. overCount'[t] = overCount[t] - 1 /\ Leaving(t) = 1 /\ Leaving(t)' = 0 /\ overRing'[t] = overRing[t]
      BY <1>1, <2>3 DEF WorkCount, WorkerAt, Leaving, WorkerType
    <3> QED
      BY <1>3, <1>4, <3>1
  <2>4. CASE ~(WorkOver(t) /\ overRing[t] # <<>>) /\ ~WorkMove(t) /\ ~WorkCount(t)
    <3>1. overCount'[t] = overCount[t] /\ Leaving(t) = 0 /\ Leaving(t)' = 0 /\ overRing'[t] = overRing[t]
      BY <1>1, <2>4 DEF Work, WorkLoad, WorkOver, WorkShift, WorkEmpty, WorkFinal, WorkExit, WorkerAt, Leaving,
         WorkerType, queueVars
    <3> QED
      BY <1>3, <1>4, <3>1
  <2> QED
    BY <2>1, <2>2, <2>3, <2>4
<1>7. \A u \in Thread : overCount'[u] = Len(overRing'[u]) + Leaving(u)' + Cardinality(Adding(u)')
  BY <1>2, <1>4, <1>5, <1>6
<1> QED
  BY <1>7 DEF Counting, Leaving

LEMMA CountsHold ==
  ASSUME TypeOK, Held, [Next]_vars
  PROVE  Counting'
<1>1. CASE UNCHANGED <<client, worker, overCount, overRing>>
  BY <1>1 DEF Held, Counting, Adding
<1>2. client \in [Client -> ClientType] /\ worker \in [Thread -> WorkerType]
  BY DEF TypeOK, WorkerType, ClientType
<1>3. ASSUME NEW x \in Producer, Run(x)
      PROVE  Counting'
  <2>1. PICK pc \in {"load", "add"}, t \in Thread :
          client' = [client EXCEPT ![x] = [pc |-> pc, thread |-> t, call |-> <<x, made[x] + 1>>]]
    BY <1>3, RunIs
  <2>2. x \in Client /\ client[x].pc = "idle"
    BY <1>3 DEF Client, Run
  <2>3. client'[x].pc # "over" /\ \A y \in Client : y # x => client'[y] = client[y]
    BY <1>2, <2>1, <2>2
  <2>4. \A u \in Thread : Adding(u)' = Adding(u) /\ Leaving(u)' = Leaving(u)
    BY <1>3, <2>2, <2>3, AddingSame, RunFrame DEF Leaving
  <2> QED
    BY <1>3, <2>4, CountingSame, RunFrame DEF Held
<1>4. ASSUME NEW x \in Caller, LifeCall(x) \/ LifeStep(x)
      PROVE  Counting'
  <2>1. UNCHANGED <<overCount, overRing>>
    BY <1>4, LifeFrame
  <2>2. \A t \in Thread : Adding(t)' = Adding(t)
    <3>1. CASE UNCHANGED client
      BY <3>1 DEF Adding
    <3>2. CASE client[x].pc = "idle" /\
               client' = [client EXCEPT ![x] = [pc |-> "load", thread |-> caller[x].thread, call |-> Drained]]
      <4>1. x \in Client
        BY DEF Client
      <4>2. client'[x].pc # "over" /\ \A y \in Client : y # x => client'[y] = client[y]
        BY <1>2, <3>2, <4>1
      <4> QED
        BY <3>2, <4>1, <4>2, AddingSame
    <3> QED
      BY <1>4, <3>1, <3>2, LifeClient
  <2>3. \A t \in Thread : Leaving(t)' = Leaving(t)
    <3>1. CASE UNCHANGED worker
      BY <3>1 DEF Leaving
    <3>2. CASE /\ caller[x].pc = "threads"
               /\ worker' = [t \in Thread |-> IF t > runThreads THEN [worker[t] EXCEPT !.pc = "load"] ELSE worker[t]]
      <4>1. \A t \in Thread : worker[t].pc = "none"
        BY <3>2 DEF Held, Ending
      <4>2. \A t \in Thread : worker'[t].pc \in {"none", "load"}
        BY <1>2, <3>2, <4>1 DEF WorkerType
      <4> QED
        BY <4>1, <4>2 DEF Leaving
    <3>3. CASE /\ \A t \in Thread : worker[t].pc \in {"none", "ended"}
               /\ worker' = [t \in Thread |-> [worker[t] EXCEPT !.pc = "none"]]
      <4>1. \A t \in Thread : worker'[t].pc = "none"
        BY <1>2, <3>3 DEF WorkerType
      <4> QED
        BY <3>3, <4>1 DEF Leaving
    <3> QED
      BY <1>4, <3>1, <3>2, <3>3, LifeWorker
  <2> QED
    BY <2>1, <2>2, <2>3, CountingSame DEF Held
<1> QED
  BY <1>1, <1>3, <1>4, ClientCounts, WorkCounts, DeferredFrame, TimerFrame, TickFrame DEF Next, vars, queueVars

\* Who starts and who stops.
Charged(x) == Starter(x) \/ Stopper(x)

LEMMA CallerChanges ==
  ASSUME TypeOK, NEW x \in Caller, NEW pc \in CallerPC, CallerAt(x, pc)
  PROVE  /\ caller'[x].pc = pc /\ caller'[x].thread = caller[x].thread
         /\ \A y \in Caller : y # x => caller'[y] = caller[y]
<1>1. caller \in [Caller -> CallerType]
  BY DEF TypeOK, CallerType
<1> QED
  BY <1>1 DEF CallerAt, CallerType

LEMMA ProceedCases ==
  ASSUME TypeOK, NEW x \in Caller, NEW call, Proceed(x, call), ~Charged(x)
  PROVE  /\ \A y \in Caller : y # x => caller'[y] = caller[y]
         /\ \/ state' = state /\ caller'[x].pc = "idle"
            \/ state = "Drained" /\ state' = "Running" /\ caller'[x].pc = "idle"
            \/ state = "Running" /\ state' = "Draining" /\ caller'[x].pc = "drain" /\ caller'[x].thread = 1
            \/ state = "Stopped" /\ state' = "Starting" /\ caller'[x].pc = "threads"
            \/ state \in {"Running", "Drained"} /\ state' = "Stopping" /\ caller'[x].pc = "eof"
<1>1. caller \in [Caller -> CallerType]
  BY DEF TypeOK, CallerType
<1>2. \A pc \in {"idle", "threads", "eof"} : CallerAt(x, pc) =>
        caller'[x].pc = pc /\ \A y \in Caller : y # x => caller'[y] = caller[y]
  BY CallerChanges DEF CallerPC
<1>3. CASE Start(x)
  BY <1>2, <1>3 DEF Start
<1>4. CASE Drain(x)
  <2>1. CASE state \in {"Drained", "Stopped"} /\ CallerAt(x, "idle") /\ UNCHANGED state
    BY <1>2, <2>1
  <2>2. CASE state = "Running" /\ state' = "Draining" /\ caller' = [caller EXCEPT ![x].pc = "drain", ![x].thread = 1]
    BY <1>1, <2>2 DEF CallerType
  <2> QED
    BY <1>4, <2>1, <2>2 DEF Drain
<1>5. CASE Stop(x)
  BY <1>2, <1>5 DEF Stop
<1> QED
  BY <1>3, <1>4, <1>5 DEF Proceed

LEMMA LifeCases ==
  ASSUME TypeOK, NEW x \in Caller, LifeCall(x) \/ LifeStep(x)
  PROVE  /\ \A y \in Caller : y # x => caller'[y] = caller[y]
         /\ ~(caller[x].pc = "drain" /\ client[x].pc # "idle")
         /\ \/ state' = state /\ ~Charged(x) /\ ~Charged(x)' /\ caller[x].pc # "drain" /\ caller'[x].pc # "drain"
            \/ state' = state /\ caller[x].pc = "drain" /\ caller'[x].pc = "drain" /\ LifeStep(x)
                 /\ caller[x].thread \in Thread /\ caller'[x].thread = caller[x].thread + 1
            \/ state' = state /\ caller[x].pc = "drain" /\ caller[x].thread = NThreads + 1 /\ caller'[x].pc = "draining"
            \/ state' = state /\ caller[x].pc = "threads" /\ caller'[x].pc = "running"
            \/ state' = state /\ caller[x].pc = "eof" /\ caller'[x].pc = "join"
            \/ state' = state /\ caller[x].pc = "join" /\ caller'[x].pc = "joinTimer"
            \/ state = "Drained" /\ state' = "Running" /\ ~Charged(x) /\ caller[x].pc # "drain" /\ caller'[x].pc = "idle"
            \/ state = "Running" /\ state' = "Draining" /\ ~Charged(x) /\ caller[x].pc # "drain"
                 /\ caller'[x].pc = "drain" /\ caller'[x].thread = 1
            \/ state = "Stopped" /\ state' = "Starting" /\ ~Charged(x) /\ caller[x].pc # "drain" /\ caller'[x].pc = "threads"
            \/ state \in {"Running", "Drained"} /\ state' = "Stopping" /\ ~Charged(x) /\ caller[x].pc # "drain"
                 /\ caller'[x].pc = "eof"
            \/ caller[x].pc = "running" /\ state' = "Running" /\ caller'[x].pc = "idle"
            \/ caller[x].pc = "joinTimer" /\ state' = "Stopped" /\ caller'[x].pc = "idle" /\ timer'.pc = "none"
<1> USE DEF Charged, Starter, Stopper
<1>1. caller \in [Caller -> CallerType] /\ timer \in TimerType
  BY DEF TypeOK, CallerType, TimerType, EntryType
<1>2. \A pc \in CallerPC : CallerAt(x, pc) =>
        caller'[x].pc = pc /\ \A y \in Caller : y # x => caller'[y] = caller[y]
  BY CallerChanges
<1>3. CASE LifeCall(x)
  <2>1. caller[x].pc = "idle"
    BY <1>3 DEF LifeCall
  <2>2. CASE \E call \in {"start", "drain", "stop"} : Proceed(x, call)
    BY <2>1, <2>2, ProceedCases
  <2>3. ASSUME NEW call \in {"start", "drain", "stop"}, UNCHANGED state,
               caller' = [caller EXCEPT ![x] = [pc |-> "waiting", call |-> call, want |-> Settled(state), thread |-> 1]]
        PROVE  state' = state /\ caller'[x].pc = "waiting" /\ \A y \in Caller : y # x => caller'[y] = caller[y]
    BY <1>1, <2>3
  <2> QED
    BY <1>3, <2>1, <2>2, <2>3 DEF LifeCall
<1>4. CASE LifeResume(x)
  BY <1>4, ProceedCases DEF LifeResume
<1>5. CASE StartThreads(x)
  BY <1>2, <1>5 DEF StartThreads, CallerPC
<1>6. CASE StartRunning(x)
  BY <1>2, <1>6 DEF StartRunning, CallerPC
<1>7. CASE DrainThread(x)
  <2>1. caller[x].thread \in Thread \cup {NThreads + 1}
    BY <1>1 DEF CallerType
  <2>2. CASE caller[x].thread <= NThreads
    <3>1. caller[x].thread \in Thread
      BY <2>1, <2>2, NextThread
    <3>2. caller' = [caller EXCEPT ![x].thread = @ + 1]
      BY <1>7, <2>2 DEF DrainThread
    <3>3. caller'[x].thread = caller[x].thread + 1 /\ caller'[x].pc = caller[x].pc
          /\ \A y \in Caller : y # x => caller'[y] = caller[y]
      BY <1>1, <3>2 DEF CallerType
    <3> QED
      BY <1>7, <3>1, <3>3 DEF DrainThread, LifeStep
  <2>3. CASE ~(caller[x].thread <= NThreads)
    <3>1. caller[x].thread = NThreads + 1
      BY <2>1, <2>3, ThreadAssumption DEF Thread
    <3>2. CallerAt(x, "draining") /\ UNCHANGED state
      BY <1>7, <2>3 DEF DrainThread
    <3> QED
      BY <1>2, <1>7, <3>1, <3>2 DEF DrainThread, CallerPC
  <2> QED
    BY <2>2, <2>3
<1>8. CASE DrainWait(x)
  BY <1>2, <1>8 DEF DrainWait, CallerPC
<1>9. CASE StopEof(x)
  BY <1>2, <1>9 DEF StopEof, CallerPC
<1>10. CASE StopJoin(x)
  BY <1>2, <1>10 DEF StopJoin, CallerPC
<1>11. CASE StopTimer(x)
  <2>1. timer'.pc = "none"
    BY <1>1, <1>11 DEF StopTimer, TimerType
  <2> QED
    BY <1>2, <1>11, <2>1 DEF StopTimer, CallerPC
<1> QED
  BY <1>3, <1>4, <1>5, <1>6, <1>7, <1>8, <1>9, <1>10, <1>11 DEF LifeStep

\* work() changes the state when the last thread executes drained().
LEMMA WorkState ==
  ASSUME NEW t \in Thread, Work(t)
  PROVE  state' = state \/ (state = "Draining" /\ state' = "Drained")
  BY DEF Work, WorkLoad, WorkOver, WorkMove, WorkCount, WorkShift, WorkEmpty, WorkFinal, WorkExit,
         Execute, lifeVars

LEMMA InChargeSame ==
  ASSUME InCharge, UNCHANGED caller,
         state' = state \/ (state = "Draining" /\ state' = "Drained"),
         \A x \in Caller : InHand(x)' => InHand(x) /\ client'[x].thread = client[x].thread
  PROVE  InCharge'
  BY DEF InCharge, Starter, Stopper

LEMMA InChargeHolds ==
  ASSUME TypeOK, Held, [Next]_vars
  PROVE  InCharge'
<1>1. CASE UNCHANGED <<caller, state, client>>
  BY <1>1, InChargeSame DEF Held, InHand
<1>2. client \in [Client -> ClientType]
  BY DEF TypeOK, ClientType
<1>3. ASSUME NEW x \in Client, ClientStep(x)
      PROVE  InCharge'
  <2>1. \A y \in Client : client'[y].thread = client[y].thread /\ (client'[y].pc # "idle" => client[y].pc # "idle")
    <3>1. PICK pc \in ClientPC : client' = [client EXCEPT ![x].pc = pc]
      BY <1>3, ClientFrame
    <3>2. client[x].pc # "idle"
      BY <1>3 DEF ClientStep, AddTry, RunLoad, RunPush, RunStatus, RunCount, RunOver
    <3> QED
      BY <1>2, <3>1, <3>2 DEF ClientType
  <2> QED
    BY <1>3, <2>1, InChargeSame, ClientFrame DEF Held, InHand, Client
<1>4. ASSUME NEW x \in Producer, Run(x)
      PROVE  InCharge'
  <2>1. \A y \in Caller : client'[y] = client[y]
    <3>1. x \notin Caller
      BY ClientAssumption
    <3> QED
      BY <1>2, <1>4, <3>1, RunIs DEF Client
  <2> QED
    BY <1>4, <2>1, InChargeSame, RunFrame DEF Held, InHand
<1>5. ASSUME NEW t \in Thread, Work(t)
      PROVE  InCharge'
  BY <1>5, InChargeSame, WorkFrame, WorkState DEF Held, InHand
<1>6. ASSUME NEW x \in Caller, LifeCall(x) \/ LifeStep(x)
      PROVE  InCharge'
  <2> USE DEF Charged, Starter, Stopper
  <2>1. /\ \A y \in Caller : (Starter(y) => state = "Starting") /\ (Stopper(y) => state = "Stopping")
        /\ \A y, z \in Caller : Charged(y) /\ Charged(z) => y = z
    BY DEF Held, InCharge
  <2>2. \A y \in Caller : (Starter(y)' => state' = "Starting") /\ (Stopper(y)' => state' = "Stopping")
    BY <1>6, <2>1, LifeCases
  <2>3. \A y, z \in Caller : Charged(y)' /\ Charged(z)' => y = z
    BY <1>6, <2>1, LifeCases
  <2>4. \A y \in Caller : InHand(y)' => caller'[y].pc = "drain" /\ client'[y].thread < caller'[y].thread
    <3>1. CASE UNCHANGED client
      BY <1>6, <3>1, LifeCases DEF Held, InCharge, InHand
    <3>2. CASE /\ caller[x].pc = "drain" /\ client[x].pc = "idle" /\ caller[x].thread \in Thread
               /\ client' = [client EXCEPT ![x] = [pc |-> "load", thread |-> caller[x].thread, call |-> Drained]]
               /\ caller' = [caller EXCEPT ![x].thread = @ + 1]
      <4>1. caller \in [Caller -> CallerType] /\ x \in Client /\ caller[x].thread \in Nat
        BY <3>2, ThreadIs DEF TypeOK, CallerType, Client
      <4>2. client'[x].thread = caller[x].thread /\ caller'[x].thread = caller[x].thread + 1 /\ caller'[x].pc = "drain"
        BY <1>2, <3>2, <4>1 DEF CallerType
      <4>3. \A y \in Caller : y # x => client'[y] = client[y] /\ caller'[y] = caller[y]
        BY <1>2, <3>2, <4>1 DEF Client
      <4> QED
        BY <4>1, <4>2, <4>3 DEF Held, InCharge, InHand
    <3> QED
      BY <1>6, <3>1, <3>2, LifeClient
  <2> QED
    BY <2>2, <2>3, <2>4 DEF InCharge
<1> QED
  BY <1>1, <1>3, <1>4, <1>5, <1>6, DeferredFrame, TimerFrame, TickFrame DEF Next, vars, lifeVars

\* How threads end.
LEMMA LifeEof ==
  ASSUME TypeOK, NEW x \in Caller, LifeCall(x) \/ LifeStep(x)
  PROVE  \/ UNCHANGED eof /\ caller[x].pc # "join"
         \/ caller'[x].pc = "join" /\ UNCHANGED worker
         \/ caller[x].pc = "join" /\ eof' = [t \in Thread |-> FALSE]
<1>1. StopEof(x) => caller'[x].pc = "join"
  BY CallerChanges DEF StopEof, CallerPC
<1> QED
  BY <1>1 DEF LifeCall, LifeStep, LifeResume, StartThreads, StartRunning, DrainThread, DrainWait, StopEof,
         StopJoin, StopTimer, LifeUnchanged, queueVars, timerVars

LEMMA LiveSubset ==
  ASSUME Live' \subseteq Live
  PROVE  Cardinality(Live') <= Cardinality(Live) /\ Cardinality(Live') \in Nat
  BY LiveIs, FS_Subset, FS_CardinalityType

LEMMA EndingSame ==
  ASSUME Ending, UNCHANGED <<state, caller, eof, worker, runThreads>>
  PROVE  Ending'
  BY DEF Ending, Live, Joining

LEMMA WorkEnds ==
  ASSUME TypeOK, Held, NEW t \in Thread, Work(t)
  PROVE  Ending'
<1>1. worker \in [Thread -> WorkerType] /\ runThreads \in 0..NThreads
  BY DEF TypeOK, WorkerType
<1>2. UNCHANGED <<caller, eof>> /\ (state' = state \/ (state = "Draining" /\ state' = "Drained"))
  BY WorkFrame, WorkState
<1>3. /\ worker[t].pc \notin {"none", "ended"}
      /\ \A u \in Thread : u # t => worker'[u] = worker[u]
  BY WorkerMoves
<1>4. Joining' <=> Joining
  BY <1>2 DEF Joining
<1>5. \A u \in Thread : eof'[u] \/ worker'[u].pc \in {"final", "exit", "ended"} => Joining'
  <2>1. worker'[t].pc \in {"final", "exit", "ended"} => eof[t] \/ worker[t].pc \in {"final", "exit", "ended"}
    BY <1>1 DEF Work, WorkLoad, WorkOver, WorkMove, WorkCount, WorkShift, WorkEmpty, WorkFinal, WorkExit, WorkerAt,
       WorkerType
  <2> QED
    BY <1>2, <1>3, <1>4, <2>1 DEF Held, Ending
<1>6. ~(state = "Stopped" \/ \E x \in Caller : caller[x].pc \in {"threads", "joinTimer"})
  BY <1>3 DEF Held, Ending
<1>7. ~(state' = "Stopped" \/ \E x \in Caller : caller'[x].pc \in {"threads", "joinTimer"})
  BY <1>2, <1>6
<1>8. /\ Cardinality(Live') <= runThreads'
      /\ \A u \in Thread : worker'[u].pc = "exit" => Cardinality(Live') <= worker'[u].count
  <2>1. /\ Cardinality(Live) <= runThreads /\ Cardinality(Live) \in Nat
        /\ \A u \in Thread : worker[u].pc = "exit" => Cardinality(Live) <= worker[u].count
    BY LiveIs DEF Held, Ending
  <2>2. \A u \in Thread : worker[u].count \in Nat
    BY <1>1, ThreadIs DEF WorkerType
  <2>3. CASE WorkExit(t)
    <3>1. worker'[t].pc = "ended" /\ runThreads' = worker[t].count - 1 /\ worker[t].pc = "exit"
      BY <1>1, <2>3 DEF WorkExit, WorkerType
    <3>2. Live' = Live \ {t} /\ t \in Live
      BY <1>3, <3>1 DEF Live
    <3>3. Cardinality(Live') = Cardinality(Live) - 1
      BY <3>2, LiveIs, FS_RemoveElement
    <3> QED
      BY <1>3, <2>1, <2>2, <3>1, <3>3
  <2>4. CASE WorkFinal(t)
    <3>1. worker'[t].pc = "exit" /\ runThreads' = runThreads /\ worker'[t].count = runThreads
      BY <1>1, <2>4, ThreadIs DEF WorkFinal, WorkerType, lifeVars
    <3>2. Live' = Live
      BY <1>3, <3>1 DEF Live
    <3> QED
      BY <1>3, <2>1, <3>1, <3>2
  <2>5. CASE ~WorkExit(t) /\ ~WorkFinal(t)
    <3>1. worker'[t].pc \notin {"none", "ended", "exit"} /\ runThreads' = runThreads
      BY <1>1, <2>5 DEF Work, WorkLoad, WorkOver, WorkMove, WorkCount, WorkShift, WorkEmpty, WorkerAt, WorkerType,
         lifeVars
    <3>2. Live' = Live
      BY <1>3, <3>1 DEF Live
    <3> QED
      BY <1>3, <2>1, <3>1, <3>2
  <2> QED
    BY <2>3, <2>4, <2>5
<1> QED
  BY <1>5, <1>7, <1>8 DEF Ending

LEMMA LifeEnds ==
  ASSUME TypeOK, Held, NEW x \in Caller, LifeCall(x) \/ LifeStep(x)
  PROVE  Ending'
<1>1. worker \in [Thread -> WorkerType] /\ runThreads \in 0..NThreads /\ NThreads \in Nat
  BY ThreadIs DEF TypeOK, WorkerType
<1>2. \A y \in Caller : y # x => caller'[y] = caller[y]
  BY LifeCases
<1>3. \A y, z \in Caller : Charged(y) /\ Charged(z) => y = z
  BY DEF Held, InCharge, Charged
<1>4. \A y \in Caller : (Starter(y) => state = "Starting") /\ (Stopper(y) => state = "Stopping")
  BY DEF Held, InCharge
<1>5. (\E y \in Caller : y # x /\ caller[y].pc = "join") => Joining'
  BY <1>2 DEF Joining
<1>6. CASE UNCHANGED worker /\ UNCHANGED runThreads
  <2>1. \A t \in Thread : eof'[t] \/ worker'[t].pc \in {"final", "exit", "ended"} => Joining'
    <3>1. CASE UNCHANGED eof /\ caller[x].pc # "join"
      BY <1>5, <1>6, <3>1 DEF Held, Ending, Joining
    <3>2. CASE caller'[x].pc = "join"
      BY <3>2 DEF Joining
    <3>3. CASE caller[x].pc = "join" /\ eof' = [t \in Thread |-> FALSE]
      <4>1. LifeStep(x) => StopJoin(x)
        BY <3>3 DEF LifeStep, LifeResume, StartThreads, StartRunning, DrainThread, DrainWait, StopEof,
           StopJoin, StopTimer
      <4>2. StopJoin(x)
        BY <3>3, <4>1 DEF LifeCall
      <4>3. \A t \in Thread : worker'[t].pc = "none"
        BY <1>1, <4>2 DEF StopJoin, WorkerType
      <4> QED
        BY <3>3, <4>3
    <3> QED
      BY <3>1, <3>2, <3>3, LifeEof
  <2>2. state' = "Stopped" \/ (\E y \in Caller : caller'[y].pc \in {"threads", "joinTimer"}) =>
          \A t \in Thread : worker'[t].pc = "none"
    <3>1. ASSUME NEW y \in Caller, y # x, caller'[y].pc \in {"threads", "joinTimer"}
          PROVE  \A t \in Thread : worker'[t].pc = "none"
      BY <1>2, <1>6, <3>1 DEF Held, Ending
    <3>2. ASSUME state' = "Stopped" \/ caller'[x].pc \in {"threads", "joinTimer"}
          PROVE  state = "Stopped" \/ caller[x].pc \in {"threads", "join", "joinTimer"}
      BY <3>2, LifeCases DEF Charged, Starter, Stopper
    <3>3. ASSUME state' = "Stopped" \/ caller'[x].pc \in {"threads", "joinTimer"}, caller[x].pc = "join"
          PROVE  \A t \in Thread : worker'[t].pc = "none"
      <4>1. StopJoin(x)
        BY <3>3 DEF LifeCall, LifeStep, LifeResume, StartThreads, StartRunning, DrainThread, DrainWait, StopEof,
           StopJoin, StopTimer
      <4> QED
        BY <1>1, <4>1 DEF StopJoin, WorkerType
    <3> QED
      BY <1>6, <3>1, <3>2, <3>3 DEF Held, Ending
  <2>3. Live' = Live
    BY <1>6 DEF Live
  <2> QED
    BY <1>6, <2>1, <2>2, <2>3 DEF Held, Ending
<1>7. CASE /\ caller[x].pc = "threads" /\ CallerAt(x, "running") /\ runThreads' = NThreads /\ UNCHANGED <<state, eof>>
           /\ worker' = [t \in Thread |-> IF t > runThreads THEN [worker[t] EXCEPT !.pc = "load"] ELSE worker[t]]
  <2>1. \A t \in Thread : worker'[t].pc \in {"none", "load"}
    <3>1. \A t \in Thread : worker[t].pc = "none"
      BY <1>7 DEF Held, Ending
    <3> QED
      BY <1>1, <1>7, <3>1 DEF WorkerType
  <2>2. caller'[x].pc = "running"
    BY <1>7, CallerChanges DEF CallerPC
  <2>3. \A t \in Thread : eof'[t] => Joining'
    BY <1>5, <1>7 DEF Held, Ending, Joining
  <2>4. \A y \in Caller : caller'[y].pc \notin {"threads", "joinTimer"}
    BY <1>2, <1>3, <1>7, <2>2 DEF Charged, Starter, Stopper
  <2>5. state' = "Starting"
    BY <1>4, <1>7 DEF Starter
  <2>6. Cardinality(Live') <= NThreads
    <3>1. Live' \subseteq Thread
      BY DEF Live
    <3> QED
      BY <3>1, ThreadIs, FS_Subset
  <2> QED
    BY <1>7, <2>1, <2>3, <2>4, <2>5, <2>6 DEF Ending
<1>8. CASE /\ eof' = [t \in Thread |-> FALSE] /\ UNCHANGED runThreads
           /\ worker' = [t \in Thread |-> [worker[t] EXCEPT !.pc = "none"]]
  <2>1. \A t \in Thread : worker'[t].pc = "none" /\ ~eof'[t]
    BY <1>1, <1>8 DEF WorkerType
  <2>2. Live' = {}
    BY <2>1 DEF Live
  <2>3. Cardinality(Live') = 0
    BY <2>2, FS_EmptySet
  <2> QED
    BY <1>1, <1>8, <2>1, <2>3 DEF Ending
<1> QED
  BY <1>6, <1>7, <1>8, LifeWorker

LEMMA EndingHolds ==
  ASSUME TypeOK, Held, [Next]_vars
  PROVE  Ending'
<1>1. CASE UNCHANGED <<state, caller, eof, worker, runThreads>>
  BY <1>1, EndingSame DEF Held
<1> QED
  BY <1>1, WorkEnds, LifeEnds, ClientFrame, RunFrame, DeferredFrame, TimerFrame, TickFrame
     DEF Next, vars, lifeVars, queueVars

LEMMA TimerRestsHolds ==
  ASSUME TypeOK, Held, [Next]_vars
  PROVE  TimerRests'
<1> USE DEF TimerRests
<1>1. CASE UNCHANGED <<state, caller, timer>>
  BY <1>1 DEF Held
<1>2. ASSUME NEW t \in Thread, Work(t)
      PROVE  TimerRests'
  BY <1>2, WorkFrame, WorkState DEF Held
<1>3. ASSUME NEW x \in Caller, LifeCall(x) \/ LifeStep(x)
      PROVE  TimerRests'
  <2>1. ASSUME state' = "Stopped" \/ (\E y \in Caller : caller'[y].pc = "threads")
        PROVE  timer'.pc = "none"
    <3>1. \A y, z \in Caller : Charged(y) /\ Charged(z) => y = z
      BY DEF Held, InCharge, Charged
    <3>2. \A y \in Caller : (Starter(y) => state = "Starting") /\ (Stopper(y) => state = "Stopping")
      BY DEF Held, InCharge
    <3>3. state = "Stopped" \/ (\E y \in Caller : caller[y].pc = "threads" /\ caller[x].pc # "threads")
             \/ timer'.pc = "none"
      <4>1. caller[x].pc = "threads" => caller'[x].pc = "running" /\ state' = state
        <5>1. caller[x].pc = "threads" => StartThreads(x)
          BY <1>3 DEF LifeCall, LifeStep, LifeResume, StartThreads, StartRunning, DrainThread, DrainWait, StopEof,
             StopJoin, StopTimer
        <5> QED
          BY <5>1, CallerChanges DEF StartThreads, CallerPC
      <4>2. CASE caller[x].pc = "threads"
        BY <1>3, <2>1, <3>1, <3>2, <4>1, <4>2, LifeCases DEF Charged, Starter, Stopper
      <4>3. CASE caller[x].pc # "threads"
        BY <1>3, <2>1, <4>3, LifeCases DEF Charged, Starter, Stopper
      <4> QED
        BY <4>2, <4>3
    <3>4. CASE timer'.pc # "none"
      <4>1. timer.pc = "none"
        BY <3>3, <3>4 DEF Held
      <4>2. caller[x].pc = "threads" /\ state # "Stopped"
        BY <1>3, <3>2, <3>4, <4>1, LifeTimer DEF Starter
      <4> QED
        BY <3>3, <3>4, <4>2, <3>1 DEF Charged, Starter
    <3> QED
      BY <3>4
  <2> QED
    BY <2>1
<1>4. CASE TimerThread
  <2>1. timer.pc # "none" /\ UNCHANGED <<state, caller>>
    BY <1>4, TimerFrame DEF TimerThread, TimerCheck, TimerPending, TimerGate, TimerDue, TimerDispatch, TimerAgain
  <2> QED
    BY <2>1 DEF Held
<1> QED
  BY <1>1, <1>2, <1>3, <1>4, ClientFrame, RunFrame, DeferredFrame, TickFrame DEF Next, vars, lifeVars, timerVars

LEMMA HeldStep ==
  ASSUME TypeOK, Held, [Next]_vars
  PROVE  Held'
  BY ClientsHold, ThreadsHold, TimersHold, CountsHold, InChargeHolds, EndingHolds, TimerRestsHolds DEF Held

LEMMA InitType ==
  ASSUME Init
  PROVE  TypeOK /\ Held
<1> USE DEF Init
<1>1. NThreads \in Nat \ {0} /\ 1 \in Thread /\ RingSize \in Nat
  BY ThreadAssumption DEF Thread
<1>2. 0 \in Time
  BY BoundAssumption DEF Time
<1>3. TypeOK
  BY <1>1, <1>2, BoundAssumption DEF TypeOK, State, CallerPC, WorkerPC, ClientPC, TimerPC, EntryType
<1>4. \A t \in Thread : Adding(t) = {} /\ Cardinality(Adding(t)) = 0
  BY FS_EmptySet DEF Adding
<1>5. Live = {} /\ Cardinality(Live) = 0
  BY FS_EmptySet DEF Live
<1>6. HandsOfClients /\ HandsOfThreads /\ HandsOfTimers
  BY DEF HandsOfClients, HandsOfThreads, HandsOfTimers, InHand, Moving, Client, Entries
<1>7. Counting
  BY <1>4 DEF Counting
<1>8. InCharge
  BY DEF InCharge, Starter, Stopper, InHand, Client
<1>9. Ending
  BY <1>1, <1>5 DEF Ending
<1> QED
  BY <1>3, <1>6, <1>7, <1>8, <1>9 DEF Held, TimerRests

\* The types of ZmScheduler's state are right whatever its threads, callers and timers do:
\* among them, overCount never falls below 0 and runThreads neither.
THEOREM SchedulerTypeCorrect == Spec => []TypeOK
<1>1. TypeOK /\ Held /\ [Next]_vars => TypeOK' /\ Held'
  BY TypeStep, HeldStep
<1>2. Init => TypeOK /\ Held
  BY InitType
<1> QED
  BY <1>1, <1>2, PTL DEF Spec

-----------------------------------------------------------------------------
(* The line of a thread: the calls in its ring, the call its work() moves  *)
(* from the overflow ring to the ring, and the calls in the overflow ring. *)

Over(t) == Len(ring[t]) + (IF Moving(t) THEN 1 ELSE 0)
LineLen(t) == Over(t) + Len(overRing[t])
LineAt(t, i) ==
  IF i <= Len(ring[t]) THEN ring[t][i]
  ELSE IF i <= Over(t) THEN worker[t].call
  ELSE overRing[t][i - Over(t)]

-----------------------------------------------------------------------------
(* The inductive invariant: where calls are *)

Taken == ran \cup refused
Sent == Queued \cup Taken

\* A call is in one place at a time, but for Drained.
Alone ==
  \A t, u \in Thread : \A i \in 1..LineLen(t), j \in 1..LineLen(u) :
    LineAt(t, i) = LineAt(u, j) /\ LineAt(t, i) # Drained => t = u /\ i = j
Apart ==
  /\ Alone
  /\ Queued \cap Taken = {}
  /\ Drained \notin Taken
  /\ \A x \in Producer : InHand(x) => client[x].call \notin Sent
  /\ \A f \in Entries : f.call \notin Sent
  /\ \A f, g \in Entries : f.call = g.call => f = g
  /\ timer.entry \notin schedule

\* Calls are numbered.
Numbered ==
  \A x \in Producer \cup Timer, i \in Nat :
    <<x, i>> \in Sent \cup revoked \cup added \cup Waiting => i <= made[x]

Kept == \A x \in Producer : Finished(x) \subseteq Sent

\* What was cancelled is nowhere; a deferred call not put back is the one its timer refers to.
Cancelled ==
  /\ \A c \in revoked : c \in DeferredCall /\ (c[1] \notin retried => c \notin Sent \cup Waiting)
  /\ \A f \in schedule : f.call[1] \notin retried => handle[f.call[1]] = f.call
  /\ timer.pc = "again" => timer.entry.call[1] \in retried

Placed == Apart /\ Numbered /\ Kept /\ Cancelled

-----------------------------------------------------------------------------
(* The inductive invariant: the order of calls *)

\* c is not to be executed before d.
Late(c, d) ==
  \/ c = Drained /\ d \in before
  \/ \E x \in Producer, i, j \in Nat :
       c = <<x, j>> /\ d = <<x, i>> /\ i < j /\ c \notin added /\ d \notin added

Ordered ==
  /\ \A t \in Thread : \A i, j \in 1..LineLen(t) : i < j => ~Late(LineAt(t, i), LineAt(t, j))
  /\ \A x \in Client, t \in Thread : client[x].pc = "push" /\ client[x].thread = t =>
       \A j \in 1..LineLen(t) : j > Len(ring[t]) => ~Late(client[x].call, LineAt(t, j))
  /\ \A x \in Producer : client[x].pc = "add" => client[x].call \in added

\* The threads drained() is still to be executed on.
Owes(x, t) == (caller[x].pc = "drain" /\ caller[x].thread <= t) \/ (InHand(x) /\ client[x].thread = t)
Owed(t) == \E x \in Caller : Owes(x, t)
Marked(t) == \E i \in 1..LineLen(t) : LineAt(t, i) = Drained
Once(t) == \A i, j \in 1..LineLen(t) : LineAt(t, i) = Drained /\ LineAt(t, j) = Drained => i = j
Awaited == {t \in Thread : Owed(t) \/ Marked(t)}

Draining ==
  /\ state = "Draining" <=> Awaited # {}
  /\ state = "Draining" => drained + Cardinality(Awaited) = NThreads
  /\ \A t \in Thread : (Owed(t) => ~Marked(t)) /\ Once(t)
  /\ \A x, y \in Caller : \A t, u \in Thread : Owes(x, t) /\ Owes(y, u) => x = y

\* What was queued before drain() was called is executed when drained() has been.
Before ==
  /\ before \subseteq Queued \cup ran /\ Drained \notin before
  /\ state = "Draining" =>
       \A t \in Thread \ Awaited : \A i \in 1..LineLen(t) : LineAt(t, i) \notin before
  /\ state = "Drained" => before \subseteq ran

\* One thread: what is queued was called after what has been executed.
After ==
  NThreads = 1 =>
    \A x \in Producer, i, j \in Nat :
      <<x, i>> \in Queued \ added /\ <<x, j>> \in ran \ added => j < i

Lined == Ordered /\ Before /\ After

-----------------------------------------------------------------------------
(* What a step does to a line *)

Same(t) == LineLen(t)' = LineLen(t) /\ \A i \in 1..LineLen(t) : LineAt(t, i)' = LineAt(t, i)

\* c enters the line at position k.
Enters(t, k, c) ==
  /\ k \in 1..(LineLen(t) + 1) /\ LineLen(t)' = LineLen(t) + 1
  /\ \A i \in 1..(LineLen(t) + 1) :
       LineAt(t, i)' = IF i < k THEN LineAt(t, i) ELSE IF i = k THEN c ELSE LineAt(t, i - 1)

\* The first of the line leaves it.
Leaves(t) ==
  /\ LineLen(t) > 0 /\ LineLen(t)' = LineLen(t) - 1
  /\ \A i \in 1..(LineLen(t) - 1) : LineAt(t, i)' = LineAt(t, i + 1)

LEMMA LineIs ==
  ASSUME TypeOK, Held, NEW t \in Thread
  PROVE  /\ ring[t] \in Seq(Call) /\ overRing[t] \in Seq(Call) /\ Len(ring[t]) \in Nat /\ Len(overRing[t]) \in Nat
         /\ worker[t].call \in Call \cup {None} /\ (Moving(t) <=> worker[t].call # None)
         /\ Over(t) \in Nat /\ LineLen(t) \in Nat /\ LineLen(t) = Over(t) + Len(overRing[t])
         /\ IF Moving(t) THEN Over(t) = Len(ring[t]) + 1 ELSE Over(t) = Len(ring[t])
         /\ \A i \in 1..LineLen(t) : LineAt(t, i) \in Call
<1>1. ring[t] \in Seq(Call) /\ overRing[t] \in Seq(Call)
  BY DEF TypeOK
<1>2. worker[t].call \in Call \cup {None} /\ (Moving(t) <=> worker[t].call # None)
  BY DEF TypeOK, Held, HandsOfThreads
<1>3. Len(ring[t]) \in Nat /\ Len(overRing[t]) \in Nat
  BY <1>1
<1>4. /\ Over(t) \in Nat /\ LineLen(t) \in Nat /\ LineLen(t) = Over(t) + Len(overRing[t])
      /\ IF Moving(t) THEN Over(t) = Len(ring[t]) + 1 ELSE Over(t) = Len(ring[t])
  <2>1. IF Moving(t) THEN Over(t) = Len(ring[t]) + 1 ELSE Over(t) = Len(ring[t])
    BY <1>3 DEF Over
  <2>2. LineLen(t) = Over(t) + Len(overRing[t])
    BY DEF LineLen
  <2> QED
    BY <1>3, <2>1, <2>2
<1>5. ASSUME NEW i \in 1..LineLen(t)
      PROVE  LineAt(t, i) \in Call
  <2>1. CASE i <= Len(ring[t])
    BY <1>1, <1>4, <2>1 DEF LineAt
  <2>2. CASE i > Len(ring[t]) /\ i <= Over(t)
    BY <1>2, <1>3, <1>4, <2>2 DEF LineAt
  <2>3. CASE i > Over(t)
    <3>1. i - Over(t) \in 1..Len(overRing[t]) /\ i > Len(ring[t])
      BY <1>3, <1>4, <2>3
    <3>2. LineAt(t, i) = overRing[t][i - Over(t)]
      BY <1>3, <1>4, <2>3, <3>1 DEF LineAt
    <3> QED
      BY <1>1, <3>1, <3>2
  <2> QED
    BY <1>3, <1>4, <2>1, <2>2, <2>3
<1> QED
  BY <1>1, <1>2, <1>3, <1>4, <1>5

LEMMA RngIs ==
  ASSUME NEW s \in Seq(Call), NEW c
  PROVE  c \in Rng(s) <=> \E i \in 1..Len(s) : s[i] = c
  BY DEF Rng

\* What is queued is what is in the lines.
LEMMA QueuedIs ==
  ASSUME TypeOK, Held, NEW c
  PROVE  c \in Queued <=> \E t \in Thread : \E i \in 1..LineLen(t) : LineAt(t, i) = c
<1> DEFINE Part(t) == Rng(ring[t]) \cup Rng(overRing[t]) \cup {worker[t].call}
<1>1. c \in Queued <=> (\E t \in Thread : c \in Part(t)) /\ c # None
  BY DEF Queued
<1> HIDE DEF Part
<1>2. ASSUME NEW t \in Thread
      PROVE  (c \in Part(t) /\ c # None) <=> \E i \in 1..LineLen(t) : LineAt(t, i) = c
  <2>1. /\ ring[t] \in Seq(Call) /\ overRing[t] \in Seq(Call) /\ Len(ring[t]) \in Nat /\ Len(overRing[t]) \in Nat
        /\ worker[t].call \in Call \cup {None} /\ (Moving(t) <=> worker[t].call # None)
        /\ Over(t) \in Nat /\ LineLen(t) \in Nat /\ LineLen(t) = Over(t) + Len(overRing[t])
        /\ IF Moving(t) THEN Over(t) = Len(ring[t]) + 1 ELSE Over(t) = Len(ring[t])
        /\ \A i \in 1..LineLen(t) : LineAt(t, i) \in Call
    BY LineIs
  <2>2. c \in Part(t) <=> (\E i \in 1..Len(ring[t]) : ring[t][i] = c) \/ (\E i \in 1..Len(overRing[t]) : overRing[t][i] = c)
                             \/ c = worker[t].call
    BY <2>1, RngIs DEF Part
  <2>3. \A i \in 1..Len(ring[t]) : i \in 1..LineLen(t) /\ LineAt(t, i) = ring[t][i]
    BY <2>1 DEF LineAt
  <2>4. \A i \in 1..Len(overRing[t]) : i + Over(t) \in 1..LineLen(t) /\ LineAt(t, i + Over(t)) = overRing[t][i]
    BY <2>1 DEF LineAt
  <2>5. Moving(t) => Over(t) \in 1..LineLen(t) /\ LineAt(t, Over(t)) = worker[t].call
    BY <2>1 DEF LineAt
  <2>6. ASSUME c \in Part(t), c # None
        PROVE  \E i \in 1..LineLen(t) : LineAt(t, i) = c
    BY <2>1, <2>2, <2>3, <2>4, <2>5, <2>6
  <2>7. ASSUME NEW i \in 1..LineLen(t), LineAt(t, i) = c
        PROVE  c \in Part(t) /\ c # None
    <3>1. c # None
      BY <2>1, <2>7, NoneIsNoCall
    <3>2. CASE i <= Len(ring[t])
      <4>1. i \in 1..Len(ring[t]) /\ ring[t][i] = c
        BY <2>1, <2>7, <3>2 DEF LineAt
      <4> QED
        BY <2>2, <3>1, <4>1
    <3>3. CASE i > Len(ring[t]) /\ i <= Over(t)
      BY <2>1, <2>2, <2>7, <3>1, <3>3 DEF LineAt
    <3>4. CASE i > Over(t)
      <4>1. i - Over(t) \in 1..Len(overRing[t]) /\ i > Len(ring[t])
        BY <2>1, <3>4
      <4>2. overRing[t][i - Over(t)] = c
        BY <2>1, <2>7, <3>4, <4>1 DEF LineAt
      <4> QED
        BY <2>2, <3>1, <4>1, <4>2
    <3> QED
      BY <2>1, <3>2, <3>3, <3>4
  <2> QED
    BY <2>6, <2>7
<1> QED
  BY <1>1, <1>2

LEMMA QueuedIsNext ==
  TypeOK' /\ Held' =>
    \A c : c \in Queued' <=> \E t \in Thread : \E i \in 1..LineLen(t)' : LineAt(t, i)' = c
<1> DEFINE Is == \A c : c \in Queued <=> \E t \in Thread : \E i \in 1..LineLen(t) : LineAt(t, i) = c
<1>1. TypeOK /\ Held => Is
  BY QueuedIs
<1> HIDE DEF Is
<1>2. TypeOK' /\ Held' => Is'
  BY <1>1, PTL
<1> QED
  BY <1>2 DEF Is

LEMMA LineIsNext ==
  TypeOK' /\ Held' => \A t \in Thread : \A i \in 1..LineLen(t)' : LineAt(t, i)' \in Call
<1> DEFINE Is == \A t \in Thread : \A i \in 1..LineLen(t) : LineAt(t, i) \in Call
<1>1. TypeOK /\ Held => Is
  BY LineIs
<1> HIDE DEF Is
<1>2. TypeOK' /\ Held' => Is'
  BY <1>1, PTL
<1> QED
  BY <1>2 DEF Is

LEMMA StaysSame ==
  ASSUME NEW t \in Thread, ring'[t] = ring[t], overRing'[t] = overRing[t], worker'[t].call = worker[t].call,
         Moving(t)' <=> Moving(t)
  PROVE  Same(t)
<1>1. Over(t)' = Over(t) /\ LineLen(t)' = LineLen(t)
  BY DEF Over, LineLen
<1>2. \A i \in 1..LineLen(t) : LineAt(t, i)' = LineAt(t, i)
  BY <1>1 DEF LineAt
<1> QED
  BY <1>1, <1>2 DEF Same

LEMMA PushEnters ==
  ASSUME TypeOK, Held, NEW t \in Thread, NEW c \in Call, Push(t, c), UNCHANGED <<worker, overRing>>
  PROVE  /\ Enters(t, Len(ring[t]) + 1, c) /\ Len(ring'[t]) = Len(ring[t]) + 1
         /\ \A u \in Thread : u # t => Same(u) /\ ring'[u] = ring[u]
<1>1. /\ ring[t] \in Seq(Call) /\ Len(ring[t]) \in Nat /\ Len(overRing[t]) \in Nat
      /\ Over(t) \in Nat /\ LineLen(t) \in Nat /\ LineLen(t) = Over(t) + Len(overRing[t])
  BY LineIs
<1>0. IF Moving(t) THEN Over(t) = Len(ring[t]) + 1 ELSE Over(t) = Len(ring[t])
  BY LineIs
<1>2. ring'[t] = Append(ring[t], c) /\ \A u \in Thread : u # t => ring'[u] = ring[u]
  BY DEF TypeOK, Push
<1>3. Len(ring'[t]) = Len(ring[t]) + 1 /\ ring'[t][Len(ring[t]) + 1] = c
      /\ \A i \in 1..Len(ring[t]) : ring'[t][i] = ring[t][i]
  BY <1>1, <1>2
<1>4. Over(t)' = Over(t) + 1
  <2>1. Len(ring'[t]) = Len(ring[t]) + 1 /\ Len(ring[t]) \in Nat
    BY <1>1, <1>3
  <2>2. CASE worker[t].pc = "move"
    <3>1. Over(t)' = Len(ring'[t]) + 1 /\ Over(t) = Len(ring[t]) + 1
      BY <2>1, <2>2 DEF Over, Moving
    <3> QED
      BY <2>1, <3>1
  <2>3. CASE worker[t].pc # "move"
    <3>1. Over(t)' = Len(ring'[t]) + 0 /\ Over(t) = Len(ring[t]) + 0
      BY <2>1, <2>3 DEF Over, Moving
    <3> QED
      BY <2>1, <3>1
  <2> QED
    BY <2>2, <2>3
<1>5. LineLen(t)' = LineLen(t) + 1
  BY <1>1, <1>4 DEF LineLen
<1>6. Len(ring[t]) + 1 \in 1..(LineLen(t) + 1)
  BY <1>0, <1>1
<1>7. ASSUME NEW i \in 1..(LineLen(t) + 1)
      PROVE  LineAt(t, i)' = IF i < Len(ring[t]) + 1 THEN LineAt(t, i)
                             ELSE IF i = Len(ring[t]) + 1 THEN c ELSE LineAt(t, i - 1)
  <2>1. CASE i <= Len(ring[t])
    BY <1>1, <1>3, <2>1 DEF LineAt
  <2>2. CASE i = Len(ring[t]) + 1
    BY <1>1, <1>3, <2>2 DEF LineAt
  <2>3. CASE i > Len(ring[t]) + 1 /\ i <= Over(t) + 1
    BY <1>1, <1>3, <1>4, <2>3 DEF LineAt
  <2>4. CASE i > Len(ring[t]) + 1 /\ i > Over(t) + 1
    <3>1. i - (Over(t) + 1) = (i - 1) - Over(t) /\ i - 1 > Len(ring[t]) /\ i - 1 > Over(t)
      BY <1>1, <2>4
    <3> QED
      BY <1>1, <1>3, <1>4, <2>4, <3>1 DEF LineAt
  <2> QED
    BY <1>1, <2>1, <2>2, <2>3, <2>4
<1>8. \A u \in Thread : u # t => Same(u) /\ ring'[u] = ring[u]
  BY <1>2, StaysSame DEF Moving
<1> QED
  BY <1>3, <1>5, <1>6, <1>7, <1>8 DEF Enters

LEMMA OverEnters ==
  ASSUME TypeOK, Held, NEW x \in Client, RunOver(x), NEW t \in Thread, t = client[x].thread
  PROVE  /\ Enters(t, LineLen(t) + 1, client[x].call)
         /\ \A u \in Thread : u # t => Same(u)
<1>1. PICK c \in Call : c = client[x].call
  BY HandIsCall DEF Held, InHand, RunOver
<1>2. /\ overRing[t] \in Seq(Call) /\ Len(ring[t]) \in Nat /\ Len(overRing[t]) \in Nat
      /\ Over(t) \in Nat /\ LineLen(t) \in Nat /\ LineLen(t) = Over(t) + Len(overRing[t])
  BY LineIs
<1>0. IF Moving(t) THEN Over(t) = Len(ring[t]) + 1 ELSE Over(t) = Len(ring[t])
  BY LineIs
<1>3. overRing'[t] = Append(overRing[t], c) /\ \A u \in Thread : u # t => overRing'[u] = overRing[u]
  BY <1>1 DEF TypeOK, RunOver
<1>4. UNCHANGED <<ring, worker>>
  BY DEF RunOver
<1>5. Len(overRing'[t]) = Len(overRing[t]) + 1 /\ overRing'[t][Len(overRing[t]) + 1] = c
      /\ \A i \in 1..Len(overRing[t]) : overRing'[t][i] = overRing[t][i]
  BY <1>1, <1>2, <1>3
<1>6. Over(t)' = Over(t)
  BY <1>4 DEF Over, Moving
<1>7. LineLen(t)' = LineLen(t) + 1
  BY <1>2, <1>5, <1>6 DEF LineLen
<1>8. ASSUME NEW i \in 1..(LineLen(t) + 1)
      PROVE  LineAt(t, i)' = IF i < LineLen(t) + 1 THEN LineAt(t, i) ELSE c
  <2>1. CASE i <= Over(t)
    BY <1>2, <1>4, <1>6, <2>1 DEF LineAt
  <2>2. CASE i > Over(t)
    <3>1. LineAt(t, i) = overRing[t][i - Over(t)] /\ LineAt(t, i)' = overRing'[t][i - Over(t)]
      <4>1. ~(i <= Len(ring[t])) /\ ~(i <= Over(t))
        BY <1>0, <1>2, <2>2
      <4> QED
        BY <1>4, <1>6, <4>1 DEF LineAt
    <3>2. IF i < LineLen(t) + 1 THEN i - Over(t) \in 1..Len(overRing[t]) ELSE i - Over(t) = Len(overRing[t]) + 1
      <4>1. PICK o \in Nat, l \in Nat, m \in Nat :
              o = Over(t) /\ l = LineLen(t) /\ m = Len(overRing[t]) /\ l = o + m
        BY <1>2
      <4>2. i \in 1..(l + 1) /\ i > o
        BY <2>2, <4>1
      <4>3. IF i < l + 1 THEN i - o \in 1..m ELSE i - o = m + 1
        BY <4>1, <4>2
      <4> QED
        BY <4>1, <4>3
    <3> QED
      BY <1>5, <3>1, <3>2
  <2> QED
    BY <1>2, <2>1, <2>2
<1>9. \A u \in Thread : u # t => Same(u)
  BY <1>3, <1>4, StaysSame DEF Moving
<1>10. Enters(t, LineLen(t) + 1, c)
  BY <1>2, <1>7, <1>8 DEF Enters
<1> QED
  BY <1>1, <1>9, <1>10

\* The call that leaves the overflow ring for the ring keeps its place in the line.
LEMMA WorkLine ==
  ASSUME TypeOK, Held, NEW t \in Thread, Work(t)
  PROVE  /\ IF worker[t].pc = "shift" /\ ring[t] # <<>> THEN Leaves(t) ELSE Same(t)
         /\ \A u \in Thread : u # t => Same(u)
         /\ Len(ring'[t]) >= Len(ring[t]) \/ (Len(ring'[t]) = Len(ring[t]) - 1 /\ Leaves(t))
<1>0. PICK n \in Nat, m \in Nat : n = Len(ring[t]) /\ m = Len(overRing[t])
  BY LineIs
<1>1. /\ Over(t) \in Nat /\ LineLen(t) \in Nat /\ LineLen(t) = Over(t) + m
      /\ IF Moving(t) THEN Over(t) = n + 1 ELSE Over(t) = n
  BY <1>0, LineIs
<1>2. worker \in [Thread -> WorkerType] /\ ring \in [Thread -> Seq(Call)] /\ overRing \in [Thread -> Seq(Call)]
  BY DEF TypeOK, WorkerType
<1>3. \A u \in Thread : u # t => Same(u)
  <2>1. \A u \in Thread : u # t => worker'[u] = worker[u]
    BY WorkerMoves
  <2>2. \A u \in Thread : u # t => ring'[u] = ring[u] /\ overRing'[u] = overRing[u]
    BY <1>2 DEF Work, WorkLoad, WorkOver, WorkMove, WorkCount, WorkShift, WorkEmpty, WorkFinal, WorkExit, Push,
       queueVars
  <2> QED
    BY <2>1, <2>2, StaysSame DEF Moving
<1>4. ring[t] \in Seq(Call) /\ overRing[t] \in Seq(Call) /\ (Moving(t) => worker[t].call \in Call)
  BY LineIs
\* Lengths and places are those of the two rings, one after the other.
<1>5. ASSUME NEW k \in Nat, NEW l \in Nat, Len(ring'[t]) = k, Len(overRing'[t]) = l
      PROVE  /\ Moving(t)' => Over(t)' = k + 1 /\ LineLen(t)' = k + 1 + l
             /\ ~Moving(t)' => Over(t)' = k /\ LineLen(t)' = k + l
             /\ \A i \in Nat : IF i <= k THEN LineAt(t, i)' = ring'[t][i]
                               ELSE IF i <= Over(t)' THEN LineAt(t, i)' = worker'[t].call
                               ELSE LineAt(t, i)' = overRing'[t][i - Over(t)']
  <2>1. Over(t)' = (IF Moving(t)' THEN k + 1 ELSE k)
    BY <1>5 DEF Over
  <2>2. LineLen(t)' = Over(t)' + l
    BY <1>5 DEF LineLen
  <2>3. \A i \in Nat : IF i <= k THEN LineAt(t, i)' = ring'[t][i]
                       ELSE IF i <= Over(t)' THEN LineAt(t, i)' = worker'[t].call
                       ELSE LineAt(t, i)' = overRing'[t][i - Over(t)']
    BY <1>5 DEF LineAt
  <2> QED
    BY <2>1, <2>2, <2>3
<1>6. \A i \in Nat : IF i <= n THEN LineAt(t, i) = ring[t][i]
                     ELSE IF i <= Over(t) THEN LineAt(t, i) = worker[t].call
                     ELSE LineAt(t, i) = overRing[t][i - Over(t)]
  BY <1>0 DEF LineAt
<1>7. CASE WorkShift(t)
  <2>1. ring'[t] = Tail(ring[t]) /\ overRing'[t] = overRing[t] /\ ring[t] # <<>> /\ worker[t].pc = "shift"
    BY <1>2, <1>7 DEF WorkShift
  <2>2. worker'[t].pc = "load" /\ ~Moving(t) /\ ~Moving(t)'
    BY <1>2, <1>7 DEF WorkShift, WorkerAt, WorkerType, Moving
  <2>3. /\ n > 0 /\ Len(ring'[t]) = n - 1 /\ Len(overRing'[t]) = m
        /\ \A i \in 1..(n - 1) : ring'[t][i] = ring[t][i + 1]
    BY <1>0, <1>4, <2>1, HeadTailProperties
  <2>4. /\ Over(t)' = n - 1 /\ LineLen(t)' = n - 1 + m /\ Over(t) = n /\ LineLen(t) = n + m
        /\ \A i \in Nat : IF i <= n - 1 THEN LineAt(t, i)' = ring'[t][i]
                          ELSE IF i <= n - 1 THEN LineAt(t, i)' = worker'[t].call
                          ELSE LineAt(t, i)' = overRing[t][i - (n - 1)]
    <3>1. n - 1 \in Nat /\ m \in Nat /\ Len(ring'[t]) = n - 1 /\ Len(overRing'[t]) = m
      BY <2>3
    <3>2. PICK k \in Nat, l \in Nat : k = n - 1 /\ l = m
      BY <3>1
    <3>3. Len(ring'[t]) = k /\ Len(overRing'[t]) = l
      BY <3>1, <3>2
    <3>4. /\ Over(t)' = k /\ LineLen(t)' = k + l
          /\ \A i \in Nat : IF i <= k THEN LineAt(t, i)' = ring'[t][i]
                             ELSE IF i <= Over(t)' THEN LineAt(t, i)' = worker'[t].call
                             ELSE LineAt(t, i)' = overRing'[t][i - Over(t)']
      BY <1>5, <2>2, <3>3
    <3>5. Over(t) = n /\ LineLen(t) = n + m
      BY <1>1, <2>2
    <3> QED
      BY <2>1, <3>2, <3>4, <3>5
  <2>5. LineLen(t) > 0 /\ LineLen(t)' = LineLen(t) - 1
    BY <2>3, <2>4
  <2>6. ASSUME NEW i \in 1..(LineLen(t) - 1)
        PROVE  LineAt(t, i)' = LineAt(t, i + 1)
    <3>1. i \in Nat /\ i >= 1 /\ i + 1 \in Nat /\ i - (n - 1) = (i + 1) - n
      BY <2>4
    <3>2. CASE i <= n - 1
      <4>1. i \in 1..(n - 1) /\ i + 1 <= n
        BY <3>1, <3>2
      <4>2. LineAt(t, i)' = ring'[t][i]
        BY <2>4, <3>1, <3>2
      <4>3. LineAt(t, i + 1) = ring[t][i + 1]
        BY <1>6, <3>1, <4>1
      <4> QED
        BY <2>3, <4>1, <4>2, <4>3
    <3>3. CASE ~(i <= n - 1)
      <4>1. LineAt(t, i + 1) = overRing[t][(i + 1) - n]
        BY <1>6, <2>4, <3>1, <3>3
      <4>2. LineAt(t, i)' = overRing[t][i - (n - 1)]
        BY <2>4, <3>1, <3>3
      <4> QED
        BY <3>1, <4>1, <4>2
    <3> QED
      BY <3>2, <3>3
  <2> QED
    BY <1>0, <1>3, <2>1, <2>3, <2>5, <2>6 DEF Leaves
<1>8. CASE WorkOver(t) /\ overRing[t] # <<>>
  <2>1. /\ overRing'[t] = Tail(overRing[t]) /\ ring'[t] = ring[t] /\ worker[t].pc = "over"
        /\ worker'[t].pc = "move" /\ worker'[t].call = Head(overRing[t])
    BY <1>2, <1>8 DEF WorkOver, WorkerType
  <2>2. ~Moving(t) /\ Moving(t)'
    BY <2>1 DEF Moving
  <2>3. /\ m > 0 /\ Len(overRing'[t]) = m - 1 /\ Len(ring'[t]) = n /\ Head(overRing[t]) = overRing[t][1]
        /\ \A i \in 1..(m - 1) : overRing'[t][i] = overRing[t][i + 1]
    BY <1>0, <1>4, <1>8, <2>1, HeadTailProperties
  <2>4. /\ Over(t)' = n + 1 /\ LineLen(t)' = n + 1 + (m - 1) /\ Over(t) = n /\ LineLen(t) = n + m
        /\ \A i \in Nat : IF i <= n THEN LineAt(t, i)' = ring[t][i]
                          ELSE IF i <= n + 1 THEN LineAt(t, i)' = overRing[t][1]
                          ELSE LineAt(t, i)' = overRing'[t][i - (n + 1)]
    <3>1. n \in Nat /\ m - 1 \in Nat /\ Len(ring'[t]) = n /\ Len(overRing'[t]) = m - 1
      BY <2>3
    <3>2. PICK k \in Nat, l \in Nat : k = n /\ l = m - 1
      BY <3>1
    <3>3. Len(ring'[t]) = k /\ Len(overRing'[t]) = l
      BY <3>1, <3>2
    <3>4. /\ Over(t)' = k + 1 /\ LineLen(t)' = k + 1 + l
          /\ \A i \in Nat : IF i <= k THEN LineAt(t, i)' = ring'[t][i]
                             ELSE IF i <= Over(t)' THEN LineAt(t, i)' = worker'[t].call
                             ELSE LineAt(t, i)' = overRing'[t][i - Over(t)']
      BY <1>5, <2>2, <3>3
    <3>5. Over(t) = n /\ LineLen(t) = n + m
      BY <1>1, <2>2
    <3> QED
      BY <2>1, <2>3, <3>2, <3>4, <3>5
  <2>5. LineLen(t)' = LineLen(t)
    BY <2>3, <2>4
  <2>6. ASSUME NEW i \in 1..LineLen(t)
        PROVE  LineAt(t, i)' = LineAt(t, i)
    <3>1. i \in Nat /\ i <= n + m
      BY <2>4
    <3>2. CASE i <= n
      BY <1>6, <2>4, <3>1, <3>2
    <3>3. CASE i = n + 1
      <4>1. LineAt(t, i) = overRing[t][i - n] /\ i - n = 1
        BY <1>6, <2>4, <3>1, <3>3
      <4>2. LineAt(t, i)' = overRing[t][1]
        BY <2>4, <3>1, <3>3
      <4> QED
        BY <4>1, <4>2
    <3>4. CASE i > n + 1
      <4>1. i - (n + 1) \in 1..(m - 1) /\ (i - (n + 1)) + 1 = i - n
        BY <3>1, <3>4
      <4>2. LineAt(t, i)' = overRing'[t][i - (n + 1)] /\ LineAt(t, i) = overRing[t][i - n]
        BY <1>6, <2>4, <3>1, <3>4
      <4> QED
        BY <2>3, <4>1, <4>2
    <3> QED
      BY <3>1, <3>2, <3>3, <3>4
  <2> QED
    BY <1>0, <1>3, <2>1, <2>3, <2>5, <2>6 DEF Same
<1>9. CASE WorkMove(t) /\ HasRoom(t)
  <2>1. /\ overRing'[t] = overRing[t] /\ ring'[t] = Append(ring[t], worker[t].call) /\ worker[t].pc = "move"
        /\ worker'[t].pc = "count"
    BY <1>2, <1>9 DEF WorkMove, WorkerType, Push
  <2>2. Moving(t) /\ ~Moving(t)' /\ worker[t].call \in Call
    BY <1>4, <2>1 DEF Moving
  <2>3. /\ Len(ring'[t]) = n + 1 /\ Len(overRing'[t]) = m /\ ring'[t][n + 1] = worker[t].call
        /\ \A i \in 1..n : ring'[t][i] = ring[t][i]
    BY <1>0, <1>4, <2>1, <2>2
  <2>4. /\ Over(t)' = n + 1 /\ LineLen(t)' = n + 1 + m /\ Over(t) = n + 1 /\ LineLen(t) = n + 1 + m
        /\ \A i \in Nat : IF i <= n + 1 THEN LineAt(t, i)' = ring'[t][i]
                          ELSE IF i <= n + 1 THEN LineAt(t, i)' = worker'[t].call
                          ELSE LineAt(t, i)' = overRing[t][i - (n + 1)]
    BY <1>1, <1>5, <2>1, <2>2, <2>3
  <2>5. ASSUME NEW i \in 1..LineLen(t)
        PROVE  LineAt(t, i)' = LineAt(t, i)
    <3>1. i \in Nat
      BY <2>4
    <3>2. CASE i <= n
      BY <1>6, <2>3, <2>4, <3>1, <3>2
    <3>3. CASE i = n + 1
      <4>1. LineAt(t, i)' = worker[t].call
        BY <2>3, <2>4, <3>1, <3>3
      <4> QED
        BY <1>6, <2>4, <3>1, <3>3, <4>1
    <3>4. CASE i > n + 1
      <4>1. LineAt(t, i)' = overRing[t][i - (n + 1)] /\ LineAt(t, i) = overRing[t][i - (n + 1)]
        BY <1>6, <2>4, <3>1, <3>4
      <4> QED
        BY <4>1
    <3> QED
      BY <3>1, <3>2, <3>3, <3>4
  <2>6. LineLen(t)' = LineLen(t) /\ Len(ring'[t]) >= Len(ring[t])
    BY <1>0, <2>3, <2>4
  <2> QED
    BY <1>3, <2>1, <2>5, <2>6 DEF Same
<1>10. CASE WorkMove(t) /\ ~HasRoom(t)
  <2>1. /\ overRing'[t] = <<worker[t].call>> \o overRing[t] /\ ring'[t] = ring[t] /\ worker[t].pc = "move"
        /\ worker'[t].pc = "shift"
    BY <1>2, <1>10 DEF WorkMove, WorkerType
  <2>2. Moving(t) /\ ~Moving(t)' /\ worker[t].call \in Call
    BY <1>4, <2>1 DEF Moving
  <2>3. <<worker[t].call>> \in Seq(Call) /\ Len(<<worker[t].call>>) = 1 /\ <<worker[t].call>>[1] = worker[t].call
    BY <2>2
  <2>4. /\ Len(overRing'[t]) = m + 1 /\ Len(ring'[t]) = n
        /\ \A i \in 1..(m + 1) : overRing'[t][i] = IF i <= 1 THEN worker[t].call ELSE overRing[t][i - 1]
    <3>1. /\ Len(overRing'[t]) = 1 + m
          /\ \A i \in 1..(1 + m) : overRing'[t][i] = IF i <= 1 THEN <<worker[t].call>>[i] ELSE overRing[t][i - 1]
      BY <1>0, <1>4, <2>1, <2>3, ConcatProperties
    <3>2. \A i \in 1..(m + 1) : i \in 1..(1 + m) /\ (i <= 1 => i = 1)
      OBVIOUS
    <3> QED
      BY <1>0, <2>1, <2>3, <3>1, <3>2
  <2>5. /\ Over(t)' = n /\ LineLen(t)' = n + (m + 1) /\ Over(t) = n + 1 /\ LineLen(t) = n + 1 + m
        /\ \A i \in Nat : IF i <= n THEN LineAt(t, i)' = ring[t][i]
                          ELSE IF i <= n THEN LineAt(t, i)' = worker'[t].call
                          ELSE LineAt(t, i)' = overRing'[t][i - n]
    <3>1. n \in Nat /\ m + 1 \in Nat /\ Len(ring'[t]) = n /\ Len(overRing'[t]) = m + 1
      BY <2>4
    <3>2. PICK k \in Nat, l \in Nat : k = n /\ l = m + 1
      BY <3>1
    <3>3. Len(ring'[t]) = k /\ Len(overRing'[t]) = l
      BY <3>1, <3>2
    <3>4. /\ Over(t)' = k /\ LineLen(t)' = k + l
          /\ \A i \in Nat : IF i <= k THEN LineAt(t, i)' = ring'[t][i]
                             ELSE IF i <= Over(t)' THEN LineAt(t, i)' = worker'[t].call
                             ELSE LineAt(t, i)' = overRing'[t][i - Over(t)']
      BY <1>5, <2>2, <3>3
    <3>5. Over(t) = n + 1 /\ LineLen(t) = n + 1 + m
      BY <1>1, <2>2
    <3> QED
      BY <2>1, <3>2, <3>4, <3>5
  <2>6. ASSUME NEW i \in 1..LineLen(t)
        PROVE  LineAt(t, i)' = LineAt(t, i)
    <3>1. i \in Nat /\ i <= n + 1 + m
      BY <2>5
    <3>2. CASE i <= n
      BY <1>6, <2>5, <3>1, <3>2
    <3>3. CASE i = n + 1
      <4>1. LineAt(t, i)' = overRing'[t][i - n] /\ i - n = 1 /\ 1 \in 1..(m + 1)
        BY <2>5, <3>1, <3>3
      <4>2. LineAt(t, i) = worker[t].call
        BY <1>6, <2>5, <3>1, <3>3
      <4> QED
        BY <2>4, <4>1, <4>2
    <3>4. CASE i > n + 1
      <4>1. i - n \in 1..(m + 1) /\ ~(i - n <= 1) /\ (i - n) - 1 = i - (n + 1)
        BY <3>1, <3>4
      <4>2. LineAt(t, i)' = overRing'[t][i - n] /\ LineAt(t, i) = overRing[t][i - (n + 1)]
        BY <1>6, <2>5, <3>1, <3>4
      <4> QED
        BY <2>4, <4>1, <4>2
    <3> QED
      BY <3>1, <3>2, <3>3, <3>4
  <2>7. LineLen(t)' = LineLen(t)
    BY <2>5
  <2> QED
    BY <1>0, <1>3, <2>1, <2>4, <2>6, <2>7 DEF Same
<1>11. CASE ~WorkShift(t) /\ ~(WorkOver(t) /\ overRing[t] # <<>>) /\ ~WorkMove(t)
  <2>1. /\ ring'[t] = ring[t] /\ overRing'[t] = overRing[t] /\ worker'[t].call = worker[t].call
        /\ worker[t].pc # "move" /\ worker'[t].pc # "move"
    BY ZenonT(40), <1>2, <1>11 DEF Work, WorkLoad, WorkOver, WorkCount, WorkEmpty, WorkFinal, WorkExit, WorkerAt, WorkerType,
       queueVars
  <2>2. Same(t)
    BY <2>1, StaysSame DEF Moving
  <2>3. ~(worker[t].pc = "shift" /\ ring[t] # <<>>)
    BY <1>11 DEF Work, WorkLoad, WorkOver, WorkCount, WorkEmpty, WorkFinal, WorkExit
  <2> QED
    BY <1>0, <1>3, <2>1, <2>2, <2>3
<1> QED
  BY <1>7, <1>8, <1>9, <1>10, <1>11

-----------------------------------------------------------------------------
(* drained() is queued once for every thread *)

LEMMA SameMarked ==
  ASSUME NEW t \in Thread, Same(t)
  PROVE  (Marked(t)' <=> Marked(t)) /\ (Once(t) => Once(t)')
  BY DEF Same, Marked, Once

LEMMA EntersMarked ==
  ASSUME NEW t \in Thread, NEW k, NEW c, Enters(t, k, c), LineLen(t) \in Nat
  PROVE  (Marked(t)' <=> Marked(t) \/ c = Drained) /\ (Once(t) /\ (c # Drained \/ ~Marked(t)) => Once(t)')
<1>1. PICK n \in Nat : n = LineLen(t)
  OBVIOUS
<1>2. /\ k \in 1..(n + 1) /\ LineLen(t)' = n + 1
      /\ \A i \in 1..(n + 1) :
           LineAt(t, i)' = IF i < k THEN LineAt(t, i) ELSE IF i = k THEN c ELSE LineAt(t, i - 1)
  BY <1>1 DEF Enters
<1>3. \A i \in 1..(n + 1) : (i < k => LineAt(t, i)' = LineAt(t, i) /\ i \in 1..n)
          /\ (i = k => LineAt(t, i)' = c) /\ (i > k => LineAt(t, i)' = LineAt(t, i - 1) /\ i - 1 \in 1..n)
  BY <1>2
<1>4. \A i \in 1..n : (i < k => i \in 1..(n + 1) /\ LineAt(t, i)' = LineAt(t, i))
          /\ (i >= k => i + 1 \in 1..(n + 1) /\ LineAt(t, i + 1)' = LineAt(t, i))
  <2>1. ASSUME NEW i \in 1..n, i >= k
        PROVE  i + 1 \in 1..(n + 1) /\ LineAt(t, i + 1)' = LineAt(t, i)
    <3>1. i + 1 \in 1..(n + 1) /\ i + 1 > k /\ (i + 1) - 1 = i
      BY <1>2, <2>1
    <3> QED
      BY <1>3, <3>1
  <2> QED
    BY <1>2, <1>3, <2>1
<1>5. Marked(t)' => Marked(t) \/ c = Drained
  <2>1. ASSUME NEW i \in 1..(n + 1), LineAt(t, i)' = Drained, c # Drained
        PROVE  \E j \in 1..n : LineAt(t, j) = Drained
    <3>1. i < k \/ i > k
      BY <1>2, <1>3, <2>1
    <3> QED
      BY <1>3, <2>1, <3>1
  <2> QED
    BY <1>1, <1>2, <2>1 DEF Marked
<1>6. Marked(t) \/ c = Drained => Marked(t)'
  <2>1. ASSUME NEW j \in 1..n, LineAt(t, j) = Drained
        PROVE  \E i \in 1..(n + 1) : LineAt(t, i)' = Drained
    <3>1. j < k \/ j >= k
      BY <1>2
    <3> QED
      BY <1>4, <2>1, <3>1
  <2>2. LineAt(t, k)' = c
    BY <1>2, <1>3
  <2> QED
    BY <1>1, <1>2, <2>1, <2>2 DEF Marked
<1>7. ASSUME Once(t), c # Drained \/ ~Marked(t)
      PROVE  Once(t)'
  <2> SUFFICES ASSUME NEW i \in 1..(n + 1), NEW j \in 1..(n + 1), LineAt(t, i)' = Drained, LineAt(t, j)' = Drained
               PROVE  i = j
    BY <1>2 DEF Once
  <2>1. \A a, b \in 1..n : LineAt(t, a) = Drained /\ LineAt(t, b) = Drained => a = b
    BY <1>1, <1>7 DEF Once
  <2>2. CASE c = Drained
    <3>1. \A a \in 1..n : LineAt(t, a) # Drained
      BY <1>1, <1>7, <2>2 DEF Marked
    <3>2. i = k
      BY <1>2, <1>3, <3>1
    <3>3. j = k
      BY <1>2, <1>3, <3>1
    <3> QED
      BY <3>2, <3>3
  <2>3. CASE c # Drained
    <3>1. i # k /\ j # k
      BY <1>3, <2>3
    <3>2. CASE i < k /\ j < k
      BY <1>3, <2>1, <3>2
    <3>3. CASE i > k /\ j > k
      <4>1. i - 1 = j - 1
        BY <1>3, <2>1, <3>3
      <4> QED
        BY <4>1
    <3>4. CASE i < k /\ j > k
      <4>1. i = j - 1
        BY <1>3, <2>1, <3>4
      <4> QED
        BY <1>2, <3>4, <4>1
    <3>5. CASE i > k /\ j < k
      <4>1. i - 1 = j
        BY <1>3, <2>1, <3>5
      <4> QED
        BY <1>2, <3>5, <4>1
    <3> QED
      BY <1>2, <3>1, <3>2, <3>3, <3>4, <3>5
  <2> QED
    BY <2>2, <2>3
<1> QED
  BY <1>5, <1>6, <1>7

LEMMA LeavesMarked ==
  ASSUME NEW t \in Thread, Leaves(t), LineLen(t) \in Nat, Once(t)
  PROVE  /\ Once(t)'
         /\ IF LineAt(t, 1) = Drained THEN Marked(t) /\ ~Marked(t)' ELSE Marked(t)' <=> Marked(t)
<1>1. PICK n \in Nat : n = LineLen(t)
  OBVIOUS
<1>2. n > 0 /\ LineLen(t)' = n - 1 /\ \A i \in 1..(n - 1) : LineAt(t, i)' = LineAt(t, i + 1)
  BY <1>1 DEF Leaves
<1>3. \A a, b \in 1..n : LineAt(t, a) = Drained /\ LineAt(t, b) = Drained => a = b
  BY <1>1 DEF Once
<1>4. \A i \in 1..(n - 1) : i + 1 \in 1..n /\ i + 1 # 1
  OBVIOUS
<1>5. Once(t)'
  <2> SUFFICES ASSUME NEW i \in 1..(n - 1), NEW j \in 1..(n - 1), LineAt(t, i)' = Drained, LineAt(t, j)' = Drained
               PROVE  i = j
    BY <1>2 DEF Once
  <2>1. i + 1 = j + 1
    BY <1>2, <1>3, <1>4
  <2> QED
    BY <2>1
<1>6. Marked(t)' => \E i \in 1..n : i # 1 /\ LineAt(t, i) = Drained
  BY <1>2, <1>4 DEF Marked
<1>7. CASE LineAt(t, 1) = Drained
  <2>1. Marked(t)
    BY <1>1, <1>2, <1>7 DEF Marked
  <2>2. ~Marked(t)'
    BY <1>2, <1>3, <1>6, <1>7
  <2> QED
    BY <1>5, <1>7, <2>1, <2>2
<1>8. CASE LineAt(t, 1) # Drained
  <2>1. Marked(t)' => Marked(t)
    BY <1>1, <1>6 DEF Marked
  <2>2. ASSUME Marked(t)
        PROVE  Marked(t)'
    <3>1. PICK i \in 1..n : LineAt(t, i) = Drained
      BY <1>1, <2>2 DEF Marked
    <3>2. i - 1 \in 1..(n - 1) /\ (i - 1) + 1 = i
      BY <1>8, <3>1
    <3>3. LineAt(t, i - 1)' = Drained
      BY <1>2, <3>1, <3>2
    <3> QED
      BY <1>2, <3>2, <3>3 DEF Marked
  <2> QED
    BY <1>5, <1>8, <2>1, <2>2
<1> QED
  BY <1>7, <1>8

\* A call enters the line of thread t at the end of the ring, or of the overflow ring.
Arrives(t, c) ==
  /\ \E k : /\ Enters(t, k, c)
            /\ \/ k = Len(ring[t]) + 1 /\ Len(ring'[t]) = Len(ring[t]) + 1
               \/ k = LineLen(t) + 1 /\ ring'[t] = ring[t]
  /\ \A u \in Thread : u # t => Same(u) /\ ring'[u] = ring[u]

LEMMA AllSame ==
  ASSUME UNCHANGED <<ring, overRing, worker>>
  PROVE  \A t \in Thread : Same(t)
  BY StaysSame DEF Moving

LEMMA PushArrives ==
  ASSUME TypeOK, Held, NEW t \in Thread, NEW c \in Call, Push(t, c), UNCHANGED <<worker, overRing>>
  PROVE  Arrives(t, c)
  BY PushEnters DEF Arrives

\* A step of a client's run__() leaves the lines alone, is refused, or its call arrives.
LEMMA ClientLine ==
  ASSUME TypeOK, Held, NEW x \in Client, ClientStep(x)
  PROVE  /\ client[x].pc # "idle" /\ client[x].call \in Call /\ client[x].thread \in Thread
         /\ \A y \in Client : y # x => client'[y] = client[y]
         /\ client'[x].call = client[x].call /\ client'[x].thread = client[x].thread
         /\ \/ /\ \A t \in Thread : Same(t) /\ ring'[t] = ring[t]
               /\ client'[x].pc # "idle" /\ refused' = refused
               /\ client'[x].pc = "push" => client[x].pc = "load" /\ overCount[client[x].thread] = 0
            \/ /\ \A t \in Thread : Same(t) /\ ring'[t] = ring[t]
               /\ client'[x].pc = "idle" /\ refused' = refused \cup {client[x].call}
               /\ client[x].pc = "status" /\ eof[client[x].thread]
            \/ /\ client'[x].pc = "idle" /\ refused' = refused
               /\ IF client[x].pc = "add" THEN \E t \in Thread : Arrives(t, client[x].call) /\ Len(ring'[t]) = Len(ring[t]) + 1
                  ELSE /\ Arrives(client[x].thread, client[x].call)
                       /\ client[x].pc \in {"push", "over"}
                       /\ client[x].pc = "push" => Len(ring'[client[x].thread]) = Len(ring[client[x].thread]) + 1
<1>1. client[x].pc # "idle"
  BY DEF ClientStep, AddTry, RunLoad, RunPush, RunStatus, RunCount, RunOver
<1>2. client[x].call \in Call /\ client[x].thread \in Thread
  BY <1>1, HandIsCall DEF TypeOK, Held, InHand
<1>3. PICK th \in Thread, c \in Call : th = client[x].thread /\ c = client[x].call
  BY <1>2
<1>4. client \in [Client -> ClientType]
  BY DEF TypeOK, ClientType
<1>5. /\ \A y \in Client : y # x => client'[y] = client[y]
      /\ client'[x].call = client[x].call /\ client'[x].thread = client[x].thread
  BY <1>4, ClientFrame DEF ClientType
<1>6. \A pc \in {"idle", "load", "push", "status", "count", "over"} : ClientAt(x, pc) => client'[x].pc = pc
  BY <1>4 DEF ClientAt, ClientType
<1>7. UNCHANGED worker
  BY ClientFrame
<1>8. CASE UNCHANGED <<ring, overRing>>
  <2>1. \A t \in Thread : Same(t) /\ ring'[t] = ring[t]
    BY <1>7, <1>8, AllSame
  <2>2. CASE AddTry(x)
    <3>1. CASE ClientAt(x, "load")
      BY <1>1, <1>2, <1>5, <1>6, <2>1, <2>2, <3>1 DEF AddTry
    <3>2. CASE ~ClientAt(x, "load")
      <4>1. PICK t \in Thread : HasRoom(t) /\ Push(t, c)
        BY <1>3, <2>2, <3>2 DEF AddTry
      <4>2. Len(ring'[t]) = Len(ring[t]) + 1 /\ Len(ring[t]) \in Nat
        BY <1>7, <1>8, <4>1, PushEnters, LineIs
      <4> QED
        BY <1>8, <4>2
    <3> QED
      BY <3>1, <3>2
  <2>3. CASE RunLoad(x)
    <3>1. client'[x].pc = IF overCount[th] = 0 THEN "push" ELSE "count"
      BY <1>3, <1>4, <2>3 DEF RunLoad, ClientAt, ClientType
    <3> QED
      BY <1>1, <1>2, <1>3, <1>5, <2>1, <2>3, <3>1 DEF RunLoad
  <2>4. CASE RunPush(x)
    <3>1. CASE ClientAt(x, "status")
      BY <1>1, <1>2, <1>5, <1>6, <2>1, <2>4, <3>1 DEF RunPush
    <3>2. CASE ~ClientAt(x, "status")
      <4>1. Push(th, c)
        BY <1>3, <2>4, <3>2 DEF RunPush
      <4>2. Len(ring'[th]) = Len(ring[th]) + 1 /\ Len(ring[th]) \in Nat
        BY <1>7, <1>8, <4>1, PushEnters, LineIs
      <4> QED
        BY <1>8, <4>2
    <3> QED
      BY <3>1, <3>2
  <2>5. CASE RunStatus(x)
    <3>1. CASE eof[client[x].thread]
      BY <1>1, <1>2, <1>5, <1>6, <2>1, <2>5, <3>1 DEF RunStatus
    <3>2. CASE ~eof[client[x].thread]
      BY <1>1, <1>2, <1>5, <1>6, <2>1, <2>5, <3>2 DEF RunStatus
    <3> QED
      BY <3>1, <3>2
  <2>6. CASE RunCount(x)
    BY <1>1, <1>2, <1>5, <1>6, <2>1, <2>6 DEF RunCount
  <2>7. CASE RunOver(x)
    <3>1. overRing'[th] = Append(overRing[th], c) /\ overRing[th] \in Seq(Call)
      BY <1>3, <2>7, LineIs DEF RunOver, TypeOK
    <3>2. Len(overRing'[th]) = Len(overRing[th]) + 1 /\ Len(overRing[th]) \in Nat
      BY <3>1
    <3> QED
      BY <1>8, <3>2
  <2> QED
    BY <2>2, <2>3, <2>4, <2>5, <2>6, <2>7 DEF ClientStep
<1>9. CASE ~UNCHANGED <<ring, overRing>>
  <2>1. CASE AddTry(x)
    <3>1. PICK t \in Thread : HasRoom(t) /\ Push(t, c) /\ ClientAt(x, "idle") /\ UNCHANGED <<overRing, refused>>
      BY <1>3, <1>9, <2>1 DEF AddTry
    <3>2. Arrives(t, c) /\ Len(ring'[t]) = Len(ring[t]) + 1
      BY <1>7, <3>1, PushArrives, PushEnters
    <3> QED
      BY <1>1, <1>2, <1>3, <1>5, <1>6, <2>1, <3>1, <3>2 DEF AddTry
  <2>2. CASE RunPush(x)
    <3>1. HasRoom(th) /\ Push(th, c) /\ ClientAt(x, "idle") /\ UNCHANGED <<overRing, refused>>
      BY <1>3, <1>9, <2>2 DEF RunPush
    <3>2. Arrives(th, c) /\ Len(ring'[th]) = Len(ring[th]) + 1
      BY <1>7, <3>1, PushArrives, PushEnters
    <3> QED
      BY <1>1, <1>2, <1>3, <1>5, <1>6, <2>2, <3>1, <3>2 DEF RunPush
  <2>3. CASE RunOver(x)
    <3>1. Enters(th, LineLen(th) + 1, c) /\ \A u \in Thread : u # th => Same(u)
      BY <1>3, <2>3, OverEnters
    <3>2. ClientAt(x, "idle") /\ UNCHANGED <<ring, refused>> /\ client[x].pc = "over"
      BY <2>3 DEF RunOver
    <3>3. Arrives(th, c)
      BY <3>1, <3>2 DEF Arrives
    <3> QED
      BY <1>1, <1>2, <1>3, <1>5, <1>6, <3>2, <3>3
  <2> QED
    BY <1>9, <2>1, <2>2, <2>3 DEF ClientStep, RunLoad, RunStatus, RunCount, queueVars
<1> QED
  BY <1>8, <1>9

\* A deferred call waits, or arrives when it is due.
LEMMA DeferredLine ==
  ASSUME TypeOK, Held, NEW x \in Timer, RunTimed(x) \/ Del(x)
  PROVE  \/ \A t \in Thread : Same(t) /\ ring'[t] = ring[t]
         \/ /\ RunTimed(x) /\ \E t \in Thread : Arrives(t, <<x, made[x] + 1>>) /\ Len(ring'[t]) = Len(ring[t]) + 1
            /\ schedule' = schedule \ Referred(x) /\ handle' = [handle EXCEPT ![x] = None]
            /\ revoked' = revoked \cup Outstanding(x)
<1>1. UNCHANGED <<overRing, worker>>
  BY DeferredFrame
<1>2. CASE UNCHANGED ring
  BY <1>1, <1>2, AllSame
<1>3. CASE ~UNCHANGED ring
  <2>1. RunTimed(x)
    BY <1>3 DEF Del, queueVars
  <2>2. <<x, made[x] + 1>> \in Call
    BY <2>1, RunTimedIs, DeferredIs
  <2>3. PICK c \in Call : c = <<x, made[x] + 1>>
    BY <2>2
  <2>4. PICK t \in Thread : Push(t, c) /\ schedule' = schedule \ Referred(x) /\ handle' = [handle EXCEPT ![x] = None]
                            /\ revoked' = revoked \cup Outstanding(x)
    BY <1>3, <2>1, <2>3 DEF RunTimed, Takes
  <2>5. Arrives(t, c) /\ Len(ring'[t]) = Len(ring[t]) + 1
    BY <1>1, <2>4, PushArrives, PushEnters
  <2> QED
    BY <2>1, <2>3, <2>4, <2>5
<1> QED
  BY <1>2, <1>3

LEMMA TimerLine ==
  ASSUME TypeOK, Held, TimerThread
  PROVE  \/ \A t \in Thread : Same(t) /\ ring'[t] = ring[t]
         \/ /\ TimerDispatch /\ \E t \in Thread : Arrives(t, timer.entry.call) /\ Len(ring'[t]) = Len(ring[t]) + 1
            /\ timer' = [timer EXCEPT !.pc = "due", !.entry = None] /\ UNCHANGED <<schedule, retried, handle>>
            /\ timer.entry \in Entries /\ timer.entry.call \in DeferredCall
<1>1. UNCHANGED <<overRing, worker>>
  BY TimerFrame
<1>2. CASE UNCHANGED ring
  BY <1>1, <1>2, AllSame
<1>3. CASE ~UNCHANGED ring
  <2>1. TimerDispatch
    BY <1>3 DEF TimerThread, TimerCheck, TimerPending, TimerGate, TimerDue, TimerAgain
  <2>2. timer.entry \in Entries /\ timer.entry.call \in DeferredCall
    BY <2>1 DEF TimerDispatch, Held, HandsOfTimers, Entries
  <2>3. PICK c \in Call : c = timer.entry.call
    BY <2>2, DeferredIs
  <2>4. PICK t \in Thread : Push(t, c) /\ timer' = [timer EXCEPT !.pc = "due", !.entry = None]
                            /\ UNCHANGED <<schedule, retried, handle>>
    BY <1>3, <2>1, <2>3 DEF TimerDispatch, Takes
  <2>5. Arrives(t, c) /\ Len(ring'[t]) = Len(ring[t]) + 1
    BY <1>1, <2>4, PushArrives, PushEnters
  <2> QED
    BY <2>1, <2>2, <2>3, <2>4, <2>5
<1> QED
  BY <1>2, <1>3

\* start(), drain() and stop() leave the lines alone.
LEMMA LifeLine ==
  ASSUME TypeOK, Held, NEW x \in Caller, LifeCall(x) \/ LifeStep(x)
  PROVE  \A t \in Thread : Same(t) /\ ring'[t] = ring[t]
<1>1. UNCHANGED <<ring, overRing>>
  BY LifeFrame
<1>2. \A t \in Thread : worker'[t].call = worker[t].call /\ (Moving(t)' <=> Moving(t))
  <2>1. worker \in [Thread -> WorkerType]
    BY DEF TypeOK, WorkerType
  <2>2. CASE UNCHANGED worker
    BY <2>2 DEF Moving
  <2>3. CASE worker' = [t \in Thread |-> IF t > runThreads THEN [worker[t] EXCEPT !.pc = "load"] ELSE worker[t]]
             /\ caller[x].pc = "threads"
    <3>1. \A t \in Thread : worker[t].pc = "none"
      BY <2>3 DEF Held, Ending
    <3>2. \A t \in Thread : worker'[t].pc \in {"none", "load"} /\ worker'[t].call = worker[t].call
      BY <2>1, <2>3, <3>1 DEF WorkerType
    <3> QED
      BY <3>1, <3>2 DEF Moving
  <2>4. CASE worker' = [t \in Thread |-> [worker[t] EXCEPT !.pc = "none"]]
             /\ \A t \in Thread : worker[t].pc \in {"none", "ended"}
    <3>1. \A t \in Thread : worker'[t].pc = "none" /\ worker'[t].call = worker[t].call
      BY <2>1, <2>4 DEF WorkerType
    <3> QED
      BY <2>4, <3>1 DEF Moving
  <2> QED
    BY <2>2, <2>3, <2>4, LifeWorker
<1> QED
  BY <1>1, <1>2, StaysSame

LEMMA NotDrained ==
  /\ \A x \in Producer \cup Timer, i \in Nat : <<x, i>> # Drained
  /\ \A c \in DeferredCall \cup QueuedCall : c # Drained
  BY CallAssumption, DeferredIs, QueuedIsProducers

LEMMA ProducerHand ==
  ASSUME TypeOK, Held, NEW x \in Producer, InHand(x)
  PROVE  client[x].call = <<x, made[x]>> /\ made[x] \in Nat /\ client[x].call # Drained
<1>1. client[x].call = <<x, made[x]>> /\ made[x] \in Nat
  BY DEF TypeOK, Held, HandsOfClients
<1> QED
  BY <1>1, NotDrained

LEMMA DrainingSame ==
  ASSUME Draining, UNCHANGED <<state, drained>>, Awaited' = Awaited,
         \A t \in Thread : (Owed(t)' => ~Marked(t)') /\ Once(t)',
         \A x, y \in Caller : \A t, u \in Thread : Owes(x, t)' /\ Owes(y, u)' => x = y
  PROVE  Draining'
<1>1. (state' = "Draining" <=> Awaited' # {}) /\ (state' = "Draining" => drained' + Cardinality(Awaited') = NThreads)
  BY DEF Draining
<1> QED
  BY <1>1 DEF Draining

\* A call other than Drained, or none, arrives, and no caller of drain() goes on.
LEMMA DrainingOther ==
  ASSUME TypeOK, Held, Draining, UNCHANGED <<state, drained, caller>>, \A x \in Caller : client'[x] = client[x],
         \/ \A t \in Thread : Same(t)
         \/ \E t \in Thread : \E c : c # Drained /\ Arrives(t, c)
  PROVE  Draining' /\ Awaited' = Awaited
<1>1. \A x \in Caller, t \in Thread : Owes(x, t)' <=> Owes(x, t)
  BY DEF Owes, InHand
<1>2. \A t \in Thread : (Marked(t)' <=> Marked(t)) /\ Once(t)'
  <2>1. CASE \A t \in Thread : Same(t)
    BY <2>1, SameMarked DEF Draining
  <2>2. ASSUME NEW t \in Thread, NEW c, c # Drained, Arrives(t, c)
        PROVE  \A u \in Thread : (Marked(u)' <=> Marked(u)) /\ Once(u)'
    <3>1. (Marked(t)' <=> Marked(t)) /\ Once(t)'
      BY <2>2, EntersMarked, LineIs DEF Arrives, Draining
    <3>2. \A u \in Thread : u # t => Same(u)
      BY <2>2 DEF Arrives
    <3> QED
      BY <3>1, <3>2, SameMarked DEF Draining
  <2> QED
    BY <2>1, <2>2
<1>3. Awaited' = Awaited
  BY <1>1, <1>2 DEF Awaited, Owed
<1>4. \A t \in Thread : (Owed(t)' => ~Marked(t)') /\ Once(t)'
  BY <1>1, <1>2 DEF Owed, Draining
<1>5. \A x, y \in Caller : \A t, u \in Thread : Owes(x, t)' /\ Owes(y, u)' => x = y
  BY <1>1 DEF Draining
<1> QED
  BY <1>3, <1>4, <1>5, DrainingSame

\* run__() does not refuse Drained: no ring is at its end while the scheduler drains.
LEMMA DrainedIsTaken ==
  ASSUME TypeOK, Held, Draining, NEW x \in Caller, InHand(x)
  PROVE  state = "Draining" /\ \A t \in Thread : ~eof[t]
<1>1. client[x].thread \in Thread
  BY DEF TypeOK, Client
<1>2. client[x].thread \in Awaited
  BY <1>1 DEF Awaited, Owed, Owes
<1>3. state = "Draining"
  BY <1>2 DEF Draining
<1>4. ~Joining
  BY <1>3 DEF Held, InCharge, Joining, Stopper
<1> QED
  BY <1>3, <1>4 DEF Held, Ending

LEMMA ThreadIsNat ==
  ASSUME NEW n \in Thread \cup {NThreads + 1}
  PROVE  n \in Nat
  BY ThreadAssumption DEF Thread

LEMMA ClientDrains ==
  ASSUME TypeOK, Held, Draining, NEW x \in Client, ClientStep(x)
  PROVE  Draining' /\ Awaited' = Awaited
<1>1. UNCHANGED <<state, drained, caller>> /\ client[x].pc # "idle"
  BY ClientFrame, ClientLine
<1>2. CASE x \in Producer
  <2>1. \A y \in Caller : client'[y] = client[y]
    BY <1>2, ClientLine, ClientAssumption DEF Client
  <2>2. client[x].call # Drained
    BY <1>1, <1>2, ProducerHand DEF InHand
  <2>3. \/ \A t \in Thread : Same(t)
        \/ \E t \in Thread : \E c : c # Drained /\ Arrives(t, c)
    BY <2>2, ClientLine
  <2> QED
    BY <1>1, <2>1, <2>3, DrainingOther
<1>3. CASE x \in Caller
  <2>1. InHand(x) /\ client[x].call = Drained /\ client[x].pc # "add"
        /\ caller[x].pc = "drain" /\ client[x].thread < caller[x].thread
    BY <1>1, <1>3 DEF Held, HandsOfClients, InCharge, InHand
  <2>2. PICK th \in Thread : th = client[x].thread
    BY ClientLine
  <2>3. caller[x].thread \in Nat /\ th \in Nat
    <3>1. caller[x].thread \in Thread \cup {NThreads + 1}
      BY <1>3 DEF TypeOK
    <3> QED
      BY <2>2, <3>1, ThreadIsNat
  <2>4. ~eof[th]
    BY <1>3, <2>1, DrainedIsTaken
  <2>5. \A y \in Caller : y # x => client'[y] = client[y]
    BY ClientLine DEF Client
  <2>6. client'[x].thread = th
    BY <2>2, ClientLine
  <2>7. \A y \in Caller, t \in Thread : y # x => (Owes(y, t)' <=> Owes(y, t))
    BY <1>1, <2>5 DEF Owes, InHand
  <2>8. CASE client'[x].pc # "idle"
    <3>1. \A t \in Thread : Same(t)
      BY <2>8, ClientLine
    <3>2. \A t \in Thread : Owes(x, t)' <=> Owes(x, t)
      BY <1>1, <2>1, <2>2, <2>6, <2>8 DEF Owes, InHand
    <3>3. \A y \in Caller, t \in Thread : Owes(y, t)' <=> Owes(y, t)
      BY <2>7, <3>2
    <3>4. \A t \in Thread : (Marked(t)' <=> Marked(t)) /\ Once(t)'
      BY <3>1, SameMarked DEF Draining
    <3>5. Awaited' = Awaited
      BY <3>3, <3>4 DEF Awaited, Owed
    <3>6. \A t \in Thread : (Owed(t)' => ~Marked(t)') /\ Once(t)'
      BY <3>3, <3>4 DEF Owed, Draining
    <3>7. \A y, z \in Caller : \A t, u \in Thread : Owes(y, t)' /\ Owes(z, u)' => y = z
      BY <3>3 DEF Draining
    <3> QED
      BY <1>1, <3>5, <3>6, <3>7, DrainingSame
  <2>9. CASE client'[x].pc = "idle"
    <3>1. Arrives(th, Drained)
      BY <2>1, <2>2, <2>4, <2>9, ClientLine
    <3>2. Owes(x, th) /\ Owed(th) /\ ~Marked(th)
      BY <1>3, <2>1, <2>2 DEF Owes, Owed, Draining
    <3>3. Marked(th)' /\ Once(th)'
      BY <3>1, <3>2, EntersMarked, LineIs DEF Arrives, Draining
    <3>4. \A t \in Thread : t # th => (Marked(t)' <=> Marked(t)) /\ Once(t)'
      BY <3>1, SameMarked DEF Arrives, Draining
    <3>5. \A t \in Thread : t # th => (Owes(x, t)' <=> Owes(x, t))
      BY <1>1, <2>1, <2>2, <2>6, <2>9 DEF Owes, InHand
    <3>6. \A y \in Caller : ~Owes(y, th)'
      <4>1. ~Owes(x, th)'
        <5>1. ~(caller[x].thread <= th)
          BY <2>1, <2>2, <2>3
        <5> QED
          BY <1>1, <2>9, <5>1 DEF Owes, InHand
      <4>2. \A y \in Caller : y # x => ~Owes(y, th)
        BY <1>3, <3>2 DEF Draining
      <4> QED
        BY <2>7, <4>1, <4>2
    <3>7. \A y \in Caller, t \in Thread : t # th => (Owes(y, t)' <=> Owes(y, t))
      BY <2>7, <3>5
    <3>8. \A t \in Thread : Owed(t)' \/ Marked(t)' <=> Owed(t) \/ Marked(t)
      BY <3>2, <3>3, <3>4, <3>7 DEF Owed
    <3>9. Awaited' = Awaited
      BY <3>8 DEF Awaited
    <3>10. \A t \in Thread : (Owed(t)' => ~Marked(t)') /\ Once(t)'
      BY <3>3, <3>4, <3>6, <3>7 DEF Owed, Draining
    <3>11. \A y, z \in Caller : \A t, u \in Thread : Owes(y, t)' /\ Owes(z, u)' => y = z
      BY <3>6, <3>7 DEF Draining
    <3> QED
      BY <1>1, <3>9, <3>10, <3>11, DrainingSame
  <2> QED
    BY <2>8, <2>9
<1> QED
  BY <1>2, <1>3 DEF Client

LEMMA AwaitedIs == IsFiniteSet(Awaited) /\ Cardinality(Awaited) \in Nat
  BY ThreadIs, FS_Subset, FS_CardinalityType DEF Awaited

\* What leaves the line is executed.
LEMMA ShiftIs ==
  ASSUME TypeOK, Held, NEW t \in Thread, WorkShift(t)
  PROVE  /\ Leaves(t) /\ LineLen(t) \in Nat /\ LineLen(t) > 0 /\ \A u \in Thread : u # t => Same(u)
         /\ Execute(LineAt(t, 1)) /\ LineAt(t, 1) \in Call
         /\ refused' = refused /\ client' = client /\ caller' = caller /\ worker[t].pc = "shift"
<1>1. worker[t].pc = "shift" /\ ring[t] # <<>> /\ Work(t)
  BY DEF WorkShift, Work
<1>2. Leaves(t) /\ LineLen(t) \in Nat /\ LineLen(t) > 0 /\ \A u \in Thread : u # t => Same(u)
  BY <1>1, WorkLine, LineIs DEF Leaves
<1>3. ring[t] \in Seq(Call) /\ 1 <= Len(ring[t])
  BY <1>1, LineIs, EmptySeq
<1>4. Head(ring[t]) = LineAt(t, 1)
  BY <1>1, <1>3, HeadTailProperties DEF LineAt
<1>5. LineAt(t, 1) \in Call
  BY <1>2, LineIs
<1> QED
  BY <1>1, <1>2, <1>4, <1>5 DEF WorkShift

LEMMA WorkDrains ==
  ASSUME TypeOK, Held, Draining, NEW t \in Thread, Work(t)
  PROVE  Draining'
<1>1. UNCHANGED <<caller, client>>
  BY WorkFrame
<1>2. CASE ~WorkShift(t)
  <2>1. \A u \in Thread : Same(u)
    <3>1. ~(worker[t].pc = "shift" /\ ring[t] # <<>>)
      BY <1>2 DEF Work, WorkLoad, WorkOver, WorkMove, WorkCount, WorkEmpty, WorkFinal, WorkExit
    <3> QED
      BY <3>1, WorkLine
  <2>2. UNCHANGED <<state, drained>>
    BY <1>2 DEF Work, WorkLoad, WorkOver, WorkMove, WorkCount, WorkEmpty, WorkFinal, WorkExit, lifeVars
  <2> QED
    BY <1>1, <2>1, <2>2, DrainingOther
<1>3. CASE WorkShift(t)
  <2>1. \A x \in Caller, u \in Thread : Owes(x, u)' <=> Owes(x, u)
    BY <1>1 DEF Owes, InHand
  <2>2. /\ Leaves(t) /\ LineLen(t) \in Nat /\ LineLen(t) > 0 /\ \A u \in Thread : u # t => Same(u)
        /\ Execute(LineAt(t, 1))
    BY <1>3, ShiftIs
  <2>3. \A u \in Thread : u # t => (Marked(u)' <=> Marked(u)) /\ Once(u)'
    BY <2>2, SameMarked DEF Draining
  <2>4. /\ Once(t)'
        /\ IF LineAt(t, 1) = Drained THEN Marked(t) /\ ~Marked(t)' ELSE Marked(t)' <=> Marked(t)
    BY <2>2, LeavesMarked DEF Draining
  <2>5. \A u \in Thread : (Owed(u)' => ~Marked(u)') /\ Once(u)'
    BY <2>1, <2>3, <2>4 DEF Owed, Draining
  <2>6. \A x, y \in Caller : \A u, v \in Thread : Owes(x, u)' /\ Owes(y, v)' => x = y
    BY <2>1 DEF Draining
  <2>7. CASE LineAt(t, 1) # Drained
    <3>1. UNCHANGED <<state, drained>>
      BY <2>2, <2>7 DEF Execute
    <3>2. \A u \in Thread : Marked(u)' <=> Marked(u)
      BY <2>3, <2>4, <2>7
    <3>3. Awaited' = Awaited
      BY <2>1, <3>2 DEF Awaited, Owed
    <3> QED
      BY <2>5, <2>6, <3>1, <3>3, DrainingSame
  <2>8. CASE LineAt(t, 1) = Drained
    <3>1. Marked(t) /\ ~Marked(t)' /\ ~Owed(t)
      BY <2>4, <2>8 DEF Draining
    <3>2. t \in Awaited /\ state = "Draining"
      BY <3>1 DEF Awaited, Draining
    <3>3. Awaited' = Awaited \ {t}
      BY <2>1, <2>3, <3>1 DEF Awaited, Owed
    <3>4. Cardinality(Awaited') = Cardinality(Awaited) - 1 /\ Cardinality(Awaited) \in Nat /\ Cardinality(Awaited') \in Nat
      <4>1. Cardinality(Awaited \ {t}) = Cardinality(Awaited) - 1
        BY <3>2, AwaitedIs, FS_RemoveElement
      <4>2. IsFiniteSet(Awaited \ {t})
        BY AwaitedIs, FS_Subset
      <4> QED
        BY <3>3, <4>1, <4>2, AwaitedIs, FS_CardinalityType
    <3>5. drained + Cardinality(Awaited) = NThreads /\ drained \in Nat /\ NThreads \in Nat
      BY <3>2, ThreadIs DEF Draining, TypeOK
    <3>6. CASE drained + 1 < NThreads
      <4>1. drained' = drained + 1 /\ state' = "Draining"
        BY <2>2, <2>8, <3>2, <3>6 DEF Execute
      <4>2. drained' + Cardinality(Awaited') = NThreads
        BY <3>4, <3>5, <4>1
      <4>3. Cardinality(Awaited') # 0
        BY <3>4, <3>5, <3>6
      <4>4. Awaited' # {}
        BY <4>3, FS_EmptySet
      <4> QED
        BY <2>5, <2>6, <4>1, <4>2, <4>4 DEF Draining
    <3>7. CASE ~(drained + 1 < NThreads)
      <4>1. state' = "Drained"
        BY <2>2, <2>8, <3>2, <3>7 DEF Execute
      <4>2. Cardinality(Awaited') = 0
        BY <3>4, <3>5, <3>7
      <4>3. Awaited' = {}
        BY <4>2, <3>3, AwaitedIs, FS_Subset, FS_EmptySet
      <4> QED
        BY <2>5, <2>6, <4>1, <4>3 DEF Draining
    <3> QED
      BY <3>6, <3>7
  <2> QED
    BY <2>7, <2>8
<1> QED
  BY <1>2, <1>3

LEMMA LifeDrains ==
  ASSUME TypeOK, Held, Draining, NEW x \in Caller, LifeCall(x) \/ LifeStep(x)
  PROVE  Draining' /\ Awaited \subseteq Awaited' /\ (state # "Draining" /\ state' = "Draining" => Awaited' = Thread)
<1>1. \A t \in Thread : Same(t)
  BY LifeLine
<1>2. \A t \in Thread : (Marked(t)' <=> Marked(t)) /\ Once(t)'
  BY <1>1, SameMarked DEF Draining
<1>3. \A y \in Caller : y # x => caller'[y] = caller[y]
  BY LifeCases
<1>4. client \in [Client -> ClientType] /\ caller \in [Caller -> CallerType] /\ x \in Client
  BY DEF TypeOK, ClientType, CallerType, Client
<1>5. CASE DrainThread(x) /\ caller[x].thread <= NThreads
  <2>1. PICK th \in Thread : th = caller[x].thread
    BY <1>4, <1>5, NextThread DEF CallerType
  <2>2. /\ client' = [client EXCEPT ![x] = [pc |-> "load", thread |-> th, call |-> Drained]]
        /\ caller' = [caller EXCEPT ![x].thread = @ + 1]
        /\ caller[x].pc = "drain" /\ client[x].pc = "idle" /\ UNCHANGED <<state, drained>>
    BY <1>5, <2>1 DEF DrainThread
  <2>3. /\ client'[x].pc = "load" /\ client'[x].thread = th
        /\ caller'[x].pc = "drain" /\ caller'[x].thread = th + 1
    BY <1>4, <2>1, <2>2 DEF CallerType
  <2>4. \A y \in Caller : y # x => client'[y] = client[y]
    BY <1>4, <2>2 DEF Client
  <2>5. \A y \in Caller, t \in Thread : Owes(y, t)' <=> Owes(y, t)
    <3>1. \A t \in Thread : (th + 1 <= t \/ th = t) <=> th <= t
      BY ThreadIs
    <3>2. \A t \in Thread : Owes(x, t)' <=> Owes(x, t)
      BY <2>1, <2>2, <2>3, <3>1 DEF Owes, InHand
    <3> QED
      BY <1>3, <2>4, <3>2 DEF Owes, InHand
  <2>6. Awaited' = Awaited
    BY <1>2, <2>5 DEF Awaited, Owed
  <2>7. \A t \in Thread : (Owed(t)' => ~Marked(t)') /\ Once(t)'
    BY <1>2, <2>5 DEF Owed, Draining
  <2>8. \A y, z \in Caller : \A t, u \in Thread : Owes(y, t)' /\ Owes(z, u)' => y = z
    BY <2>5 DEF Draining
  <2> QED
    BY <2>2, <2>6, <2>7, <2>8, DrainingSame
<1>6. CASE ~(DrainThread(x) /\ caller[x].thread <= NThreads)
  <2>1. UNCHANGED client
    BY <1>6 DEF LifeCall, LifeStep, LifeResume, StartThreads, StartRunning, DrainThread, DrainWait, StopEof,
           StopJoin, StopTimer, LifeUnchanged
  <2>2. \A y \in Caller, t \in Thread : y # x => (Owes(y, t)' <=> Owes(y, t))
    BY <1>3, <2>1 DEF Owes, InHand
  <2>3. caller[x].pc = "drain" => DrainThread(x) /\ ~(caller[x].thread <= NThreads)
    BY <1>6 DEF LifeCall, LifeStep, LifeResume, StartThreads, StartRunning, DrainThread, DrainWait, StopEof,
           StopJoin, StopTimer
  <2>4. ~InHand(x) /\ ~InHand(x)'
    BY <2>1, <2>3 DEF Held, InCharge, DrainThread, InHand
  <2>5. caller[x].pc = "drain" => caller'[x].pc = "draining" /\ UNCHANGED state
    BY <2>3, CallerChanges DEF DrainThread, CallerPC
  <2>6. \A t \in Thread : ~Owes(x, t)
    <3>1. \A t \in Thread : t <= NThreads /\ t \in Nat
      BY ThreadIs DEF Thread
    <3>2. caller[x].thread \in Nat /\ NThreads \in Nat
      <4>1. caller[x].thread \in Thread \cup {NThreads + 1}
        BY <1>4 DEF CallerType
      <4> QED
        BY <4>1, ThreadIsNat, ThreadIs
    <3> QED
      BY <2>3, <2>4, <3>1, <3>2 DEF Owes
  <2>7. CASE caller'[x].pc # "drain"
    <3>1. \A t \in Thread : ~Owes(x, t)'
      BY <2>4, <2>7 DEF Owes
    <3>2. \A y \in Caller, t \in Thread : Owes(y, t)' <=> Owes(y, t)
      BY <2>2, <2>6, <3>1
    <3>3. Awaited' = Awaited
      BY <1>2, <3>2 DEF Awaited, Owed
    <3>4. \A t \in Thread : (Owed(t)' => ~Marked(t)') /\ Once(t)'
      BY <1>2, <3>2 DEF Owed, Draining
    <3>5. \A y, z \in Caller : \A t, u \in Thread : Owes(y, t)' /\ Owes(z, u)' => y = z
      BY <3>2 DEF Draining
    <3>6. state' = state \/ (state # "Draining" /\ state' # "Draining")
      BY <2>7, LifeCases DEF Held, InCharge, Starter, Stopper
    <3>7. CASE state # "Draining" /\ state' # "Draining"
      BY <3>3, <3>4, <3>5, <3>7 DEF Draining
    <3>8. CASE state' = state /\ state = "Draining"
      <4>1. UNCHANGED drained
        <5>1. \A call : Proceed(x, call) => state # "Draining"
          BY <2>7, <3>8 DEF Proceed, Start, Drain, Stop
        <5> QED
          BY <3>8, <5>1 DEF LifeCall, LifeStep, LifeResume, StartThreads, StartRunning, DrainThread, DrainWait, StopEof,
             StopJoin, StopTimer, LifeUnchanged
      <4> QED
        BY <3>3, <3>4, <3>5, <3>8, <4>1, DrainingSame
    <3> QED
      BY <3>3, <3>4, <3>5, <3>6, <3>7, <3>8 DEF Draining
  <2>8. CASE caller'[x].pc = "drain"
    <3>1. state = "Running" /\ state' = "Draining" /\ caller[x].pc # "drain" /\ caller'[x].thread = 1
      BY <2>5, <2>8, LifeCases
    <3>2. drained' = 0
      BY <3>1 DEF LifeCall, LifeStep, LifeResume, StartThreads, StartRunning, DrainThread, DrainWait, StopEof,
         StopJoin, StopTimer, Proceed, Start, Drain, Stop
    <3>0. Awaited = {}
      BY <3>1 DEF Draining
    <3>3. \A t \in Thread : ~Owed(t) /\ ~Marked(t)
      BY <3>0 DEF Awaited
    <3>4. \A t \in Thread : Owes(x, t)'
      <4>1. \A t \in Thread : 1 <= t
        BY DEF Thread
      <4> QED
        BY <2>8, <3>1, <4>1 DEF Owes
    <3>5. \A y \in Caller, t \in Thread : y # x => ~Owes(y, t)'
      BY <2>2, <3>3 DEF Owed
    <3>6. Awaited' = Thread
      BY <3>4 DEF Awaited, Owed
    <3>7. 1 \in Thread
      BY ThreadAssumption DEF Thread
    <3>8. drained' + Cardinality(Awaited') = NThreads /\ Awaited' # {}
      BY <3>2, <3>6, <3>7, ThreadIs
    <3>9. \A t \in Thread : (Owed(t)' => ~Marked(t)') /\ Once(t)'
      BY <1>2, <3>3
    <3>10. \A y, z \in Caller : \A t, u \in Thread : Owes(y, t)' /\ Owes(z, u)' => y = z
      BY <3>5
    <3> QED
      BY <3>0, <3>1, <3>6, <3>8, <3>9, <3>10 DEF Draining
  <2> QED
    BY <2>7, <2>8
<1> QED
  BY <1>5, <1>6

LEMMA DrainingHolds ==
  ASSUME TypeOK, Held, Draining, [Next]_vars
  PROVE  Draining'
<1>1. ASSUME UNCHANGED <<state, drained, caller, client, ring, overRing, worker>>
      PROVE  Draining'
  BY <1>1, DrainingOther, AllSame
<1>2. ASSUME NEW x \in Producer, Run(x)
      PROVE  Draining'
  <2>1. \A y \in Caller : client'[y] = client[y]
    <3>1. PICK pc \in {"load", "add"}, t \in Thread :
            client' = [client EXCEPT ![x] = [pc |-> pc, thread |-> t, call |-> <<x, made[x] + 1>>]]
      BY <1>2, RunIs
    <3>2. client \in [Client -> ClientType] /\ x \notin Caller
      BY ClientAssumption DEF TypeOK, ClientType
    <3> QED
      BY <3>1, <3>2 DEF Client
  <2> QED
    BY <1>2, <2>1, DrainingOther, AllSame, RunFrame
<1>3. ASSUME NEW x \in Timer, RunTimed(x) \/ Del(x)
      PROVE  Draining'
  <2>1. RunTimed(x) => <<x, made[x] + 1>> # Drained
    BY RunTimedIs, NotDrained
  <2>2. \/ \A t \in Thread : Same(t)
        \/ \E t \in Thread : \E c : c # Drained /\ Arrives(t, c)
    BY <1>3, <2>1, DeferredLine
  <2> QED
    BY <1>3, <2>2, DrainingOther, DeferredFrame
<1>4. CASE TimerThread
  <2>1. \/ \A t \in Thread : Same(t)
        \/ \E t \in Thread : \E c : c # Drained /\ Arrives(t, c)
    BY <1>4, NotDrained, TimerLine
  <2> QED
    BY <1>4, <2>1, DrainingOther, TimerFrame
<1> QED
  BY <1>1, <1>2, <1>3, <1>4, ClientDrains, WorkDrains, LifeDrains, TickFrame DEF Next, vars, lifeVars, queueVars

-----------------------------------------------------------------------------
(* No call is lost, or in two places *)

LEMMA SameQueued ==
  ASSUME TypeOK, Held, TypeOK', Held', \A t \in Thread : Same(t)
  PROVE  Queued' = Queued /\ (Alone => Alone')
<1>1. \A c : c \in Queued' <=> c \in Queued
  <2>1. \A t \in Thread : LineLen(t)' = LineLen(t) /\ \A i \in 1..LineLen(t) : LineAt(t, i)' = LineAt(t, i)
    BY DEF Same
  <2> QED
    BY <2>1, QueuedIs, QueuedIsNext
<1>2. Alone => Alone'
  BY DEF Alone, Same
<1> QED
  BY <1>1, <1>2

\* The places of a line after a call has entered it.
LEMMA EntersAt ==
  ASSUME NEW t \in Thread, NEW k, NEW c, Enters(t, k, c), NEW n \in Nat, n = LineLen(t)
  PROVE  /\ k \in 1..(n + 1) /\ LineLen(t)' = n + 1 /\ LineAt(t, k)' = c
         /\ \A i \in 1..(n + 1) : (i < k => LineAt(t, i)' = LineAt(t, i) /\ i \in 1..n)
              /\ (i > k => LineAt(t, i)' = LineAt(t, i - 1) /\ i - 1 \in 1..n)
         /\ \A i \in 1..n : IF i < k THEN LineAt(t, i)' = LineAt(t, i) /\ i \in 1..(n + 1)
                            ELSE i + 1 \in 1..(n + 1) /\ LineAt(t, i + 1)' = LineAt(t, i)
<1>2. /\ k \in 1..(n + 1) /\ LineLen(t)' = n + 1
      /\ \A i \in 1..(n + 1) :
           LineAt(t, i)' = IF i < k THEN LineAt(t, i) ELSE IF i = k THEN c ELSE LineAt(t, i - 1)
  BY DEF Enters
<1>3. \A i \in 1..(n + 1) : (i < k => LineAt(t, i)' = LineAt(t, i) /\ i \in 1..n)
          /\ (i = k => LineAt(t, i)' = c) /\ (i > k => LineAt(t, i)' = LineAt(t, i - 1) /\ i - 1 \in 1..n)
  BY <1>2
<1>4. ASSUME NEW i \in 1..n
      PROVE  IF i < k THEN LineAt(t, i)' = LineAt(t, i) /\ i \in 1..(n + 1)
             ELSE i + 1 \in 1..(n + 1) /\ LineAt(t, i + 1)' = LineAt(t, i)
  <2>1. CASE i < k
    BY <1>2, <1>3, <2>1
  <2>2. CASE ~(i < k)
    <3>1. i + 1 \in 1..(n + 1) /\ i + 1 > k /\ (i + 1) - 1 = i
      BY <1>2, <2>2
    <3> QED
      BY <1>3, <2>2, <3>1
  <2> QED
    BY <2>1, <2>2
<1> QED
  BY <1>2, <1>3, <1>4

\* A place of a line whose call has entered at k was a place before, or is k.
LEMMA ArrivesQueued ==
  ASSUME TypeOK, Held, TypeOK', Held', Alone, NEW t \in Thread, NEW c, Arrives(t, c), c = Drained \/ c \notin Queued
  PROVE  Queued' = Queued \cup {c} /\ Alone'
<1>1. PICK k : Enters(t, k, c)
  BY DEF Arrives
<1>2. PICK n \in Nat : n = LineLen(t)
  BY LineIs
<1>3. /\ k \in 1..(n + 1) /\ LineLen(t)' = n + 1 /\ LineAt(t, k)' = c
      /\ \A i \in 1..(n + 1) : (i < k => LineAt(t, i)' = LineAt(t, i) /\ i \in 1..n)
           /\ (i > k => LineAt(t, i)' = LineAt(t, i - 1) /\ i - 1 \in 1..n)
      /\ \A i \in 1..n : IF i < k THEN LineAt(t, i)' = LineAt(t, i) /\ i \in 1..(n + 1)
                         ELSE i + 1 \in 1..(n + 1) /\ LineAt(t, i + 1)' = LineAt(t, i)
  BY <1>1, <1>2, EntersAt
<1>4. \A u \in Thread : u # t => LineLen(u)' = LineLen(u) /\ \A i \in 1..LineLen(u) : LineAt(u, i)' = LineAt(u, i)
  BY DEF Arrives, Same
<1>5. \A i \in 1..(n + 1) : i = k \/ i < k \/ i > k
  BY <1>3
<1>6. \A d : (\E i \in 1..(n + 1) : LineAt(t, i)' = d) <=> ((\E i \in 1..n : LineAt(t, i) = d) \/ d = c)
  BY <1>3, <1>5
<1>7. ASSUME NEW d
      PROVE  d \in Queued' <=> (d \in Queued \/ d = c)
  <2>1. d \in Queued' <=> \E u \in Thread : \E i \in 1..LineLen(u)' : LineAt(u, i)' = d
    BY QueuedIsNext
  <2>2. d \in Queued <=> \E u \in Thread : \E i \in 1..LineLen(u) : LineAt(u, i) = d
    BY QueuedIs
  <2>3. (\E i \in 1..LineLen(t)' : LineAt(t, i)' = d) <=> ((\E i \in 1..LineLen(t) : LineAt(t, i) = d) \/ d = c)
    BY <1>2, <1>3, <1>6
  <2> QED
    BY <1>4, <2>1, <2>2, <2>3
<1>8. \A u \in Thread : \A j \in 1..LineLen(u) : LineAt(u, j) \in Queued
  BY QueuedIs
<1>9. \A u \in Thread : \A j \in 1..LineLen(u) : LineAt(u, j) = c => c = Drained
  BY <1>8
\* Where a call of line t other than c was.
<1>10. \A i \in 1..(n + 1) : LineAt(t, i)' # Drained /\ i # k =>
         \E a \in 1..n : LineAt(t, a) = LineAt(t, i)' /\ (IF i < k THEN a = i ELSE a = i - 1)
  BY <1>3, <1>5
<1>11. ASSUME NEW i \in 1..(n + 1), NEW j \in 1..(n + 1), LineAt(t, i)' = LineAt(t, j)', LineAt(t, i)' # Drained
       PROVE  i = j
  <2>1. i = k <=> j = k
    <3>1. i = k /\ j # k => FALSE
      BY <1>2, <1>3, <1>9, <1>10, <1>11
    <3>2. j = k /\ i # k => FALSE
      BY <1>2, <1>3, <1>9, <1>10, <1>11
    <3> QED
      BY <3>1, <3>2
  <2>2. CASE i # k /\ j # k
    <3>1. PICK a \in 1..n, b \in 1..n : /\ LineAt(t, a) = LineAt(t, i)' /\ (IF i < k THEN a = i ELSE a = i - 1)
                                      /\ LineAt(t, b) = LineAt(t, j)' /\ (IF j < k THEN b = j ELSE b = j - 1)
      BY <1>10, <1>11, <2>2
    <3>2. a = b
      BY <1>2, <1>11, <3>1 DEF Alone
    <3> QED
      BY <1>3, <2>2, <3>1, <3>2
  <2> QED
    BY <2>1, <2>2
<1>12. ASSUME NEW i \in 1..(n + 1), NEW u \in Thread, u # t, NEW j \in 1..LineLen(u),
              LineAt(t, i)' = LineAt(u, j), LineAt(t, i)' # Drained
       PROVE  FALSE
  <2>1. i # k
    BY <1>3, <1>9, <1>12
  <2>2. PICK a \in 1..n : LineAt(t, a) = LineAt(t, i)'
    BY <1>10, <1>12, <2>1
  <2> QED
    BY <1>2, <1>12, <2>2 DEF Alone
<1>13. Alone'
  <2> SUFFICES ASSUME NEW u \in Thread, NEW v \in Thread, NEW i \in 1..LineLen(u)', NEW j \in 1..LineLen(v)',
                      LineAt(u, i)' = LineAt(v, j)', LineAt(u, i)' # Drained
               PROVE  u = v /\ i = j
    BY DEF Alone
  <2>1. CASE u = t /\ v = t
    BY <1>3, <1>11, <2>1
  <2>2. CASE u = t /\ v # t
    BY <1>3, <1>4, <1>12, <2>2
  <2>3. CASE u # t /\ v = t
    BY <1>3, <1>4, <1>12, <2>3
  <2>4. CASE u # t /\ v # t
    BY <1>4, <2>4 DEF Alone
  <2> QED
    BY <2>1, <2>2, <2>3, <2>4
<1> QED
  BY <1>7, <1>13

LEMMA LeavesQueued ==
  ASSUME TypeOK, Held, TypeOK', Held', Alone, NEW t \in Thread, Leaves(t), \A u \in Thread : u # t => Same(u)
  PROVE  /\ Alone' /\ LineAt(t, 1) \in Queued
         /\ Queued' \subseteq Queued /\ Queued \subseteq Queued' \cup {LineAt(t, 1)}
         /\ LineAt(t, 1) # Drained => LineAt(t, 1) \notin Queued'
<1>0. PICK n \in Nat : n = LineLen(t)
  BY LineIs
<1>1. PICK c : n = LineLen(t) /\ c = LineAt(t, 1)
  BY <1>0
<1>2. n > 0 /\ LineLen(t)' = n - 1 /\ \A i \in 1..(n - 1) : LineAt(t, i)' = LineAt(t, i + 1)
  BY <1>1 DEF Leaves
<1>3. \A i \in 1..(n - 1) : i + 1 \in 1..n /\ i + 1 # 1 /\ LineAt(t, i)' = LineAt(t, i + 1)
  BY <1>2
<1>4. \A i \in 1..n : i # 1 => \E j \in 1..(n - 1) : LineAt(t, j)' = LineAt(t, i)
  <2>1. ASSUME NEW i \in 1..n, i # 1
        PROVE  i - 1 \in 1..(n - 1) /\ LineAt(t, i - 1)' = LineAt(t, i)
    <3>1. i - 1 \in 1..(n - 1) /\ (i - 1) + 1 = i
      BY <2>1
    <3> QED
      BY <1>2, <3>1
  <2> QED
    BY <2>1
<1>5. \A u \in Thread : u # t => LineLen(u)' = LineLen(u) /\ \A i \in 1..LineLen(u) : LineAt(u, i)' = LineAt(u, i)
  BY DEF Same
<1>6. 1 \in 1..n
  BY <1>2
<1>7. c \in Queued
  BY <1>1, <1>6, QueuedIs
<1>8. \A u \in Thread : \A i \in 1..LineLen(u)' : \E j \in 1..LineLen(u) :
        LineAt(u, i)' = LineAt(u, j) /\ (u = t => j # 1)
  BY <1>1, <1>2, <1>3, <1>5
<1>9. \A u \in Thread : \A i \in 1..LineLen(u) : \/ u = t /\ i = 1
                                                \/ \E j \in 1..LineLen(u)' : LineAt(u, j)' = LineAt(u, i)
  BY <1>1, <1>2, <1>4, <1>5
<1>10. ASSUME NEW d \in Queued'
       PROVE  d \in Queued /\ (d = c => c = Drained)
  <2>1. PICK u \in Thread : \E i \in 1..LineLen(u)' : LineAt(u, i)' = d
    BY QueuedIsNext
  <2>2. PICK j \in 1..LineLen(u) : LineAt(u, j) = d /\ (u = t => j # 1)
    BY <1>8, <2>1
  <2>3. d \in Queued
    BY <2>2, QueuedIs
  <2>4. d = c => c = Drained
    BY <1>1, <1>6, <2>2 DEF Alone
  <2> QED
    BY <2>3, <2>4
<1>11. ASSUME NEW d \in Queued, d # c
       PROVE  d \in Queued'
  <2>1. PICK u \in Thread : \E i \in 1..LineLen(u) : LineAt(u, i) = d
    BY QueuedIs
  <2>2. \E j \in 1..LineLen(u)' : LineAt(u, j)' = d
    BY <1>1, <1>9, <1>11, <2>1
  <2> QED
    BY <2>2, QueuedIsNext
<1>12. Alone'
  <2> SUFFICES ASSUME NEW u \in Thread, NEW v \in Thread, NEW i \in 1..LineLen(u)', NEW j \in 1..LineLen(v)',
                      LineAt(u, i)' = LineAt(v, j)', LineAt(u, i)' # Drained
               PROVE  u = v /\ i = j
    BY DEF Alone
  <2>1. u = v
    BY <1>8 DEF Alone
  <2>2. CASE u = t
    <3>1. i \in 1..(n - 1) /\ j \in 1..(n - 1) /\ v = t
      BY <1>2, <2>1, <2>2
    <3>2. i + 1 = j + 1
      BY <1>1, <1>3, <2>2, <3>1 DEF Alone
    <3> QED
      BY <2>1, <3>1, <3>2
  <2>3. CASE u # t
    BY <1>5, <2>1, <2>3 DEF Alone
  <2> QED
    BY <2>2, <2>3
<1> QED
  BY <1>1, <1>7, <1>10, <1>11, <1>12

\* What a step leaves to show when it moves no call but Drained into or out of the lines.
LEMMA PlacedSame ==
  ASSUME TypeOK, Held, Placed, Alone', (Queued \cap Taken)' = {}, Drained \notin Taken',
         \A d : d # Drained => (d \in Sent' <=> d \in Sent),
         UNCHANGED <<schedule, handle, revoked, retried, added>>,
         timer'.entry = timer.entry, timer'.pc = "again" => timer.pc = "again",
         \A x \in Producer \cup Timer : made'[x] = made[x],
         \A x \in Producer : (InHand(x)' <=> InHand(x)) /\ (InHand(x) => client'[x].call = client[x].call)
  PROVE  Placed'
<1>1. Entries' = Entries /\ Waiting' = Waiting
  BY DEF Entries, Waiting
<1>2. \A x \in Producer : InHand(x)' => client'[x].call \notin Sent'
  BY ProducerHand DEF Placed, Apart
<1>3. \A f \in Entries : f.call \in DeferredCall /\ f.call # Drained
  BY NotDrained DEF Held, HandsOfTimers
<1>4. Apart'
  BY <1>1, <1>2, <1>3 DEF Placed, Apart
<1>5. Numbered'
  <2>1. \A x \in Producer \cup Timer, i \in Nat : <<x, i>> # Drained
    BY NotDrained
  <2> QED
    BY <1>1, <2>1 DEF Placed, Numbered
<1>6. Kept'
  <2>1. ASSUME NEW x \in Producer
        PROVE  Finished(x)' = Finished(x) /\ \A d \in Finished(x) : d # Drained
    <3>1. made[x] \in Nat /\ made[x] - 1 \in Int
      BY DEF TypeOK
    <3>2. \A d \in Finished(x) : d # Drained
      <4>1. ASSUME NEW d \in Finished(x)
            PROVE  \E i \in Nat : d = <<x, i>>
        BY <3>1 DEF Finished
      <4> QED
        BY <4>1, NotDrained
    <3>3. Finished(x)' = Finished(x)
      BY DEF Finished, InHand
    <3> QED
      BY <3>2, <3>3
  <2> QED
    BY <2>1 DEF Placed, Kept
<1>7. Cancelled'
  <2>1. \A c \in revoked : c # Drained
    BY NotDrained DEF Placed, Cancelled
  <2> QED
    BY <1>1, <2>1 DEF Placed, Cancelled
<1> QED
  BY <1>4, <1>5, <1>6, <1>7 DEF Placed

\* A step that moves no call.
LEMMA PlacedStill ==
  ASSUME TypeOK, Held, TypeOK', Held', Placed, \A t \in Thread : Same(t),
         UNCHANGED <<ran, refused, schedule, handle, revoked, retried, added>>,
         timer'.entry = timer.entry, timer'.pc = "again" => timer.pc = "again",
         \A x \in Producer \cup Timer : made'[x] = made[x],
         \A x \in Producer : (InHand(x)' <=> InHand(x)) /\ (InHand(x) => client'[x].call = client[x].call)
  PROVE  Placed'
<1>1. Queued' = Queued /\ Alone'
  BY SameQueued DEF Placed, Apart
<1>2. (Queued \cap Taken)' = {} /\ Drained \notin Taken' /\ Sent' = Sent
  BY <1>1 DEF Placed, Apart, Taken, Sent
<1> QED
  BY <1>1, <1>2, PlacedSame

LEMMA ClientPlaces ==
  ASSUME TypeOK, Held, TypeOK', Held', Placed, Draining, NEW x \in Client, ClientStep(x)
  PROVE  Placed'
<1>1. /\ UNCHANGED <<ran, made, added, schedule, handle, timer, revoked, retried>>
      /\ \A y \in Client : y # x => client'[y] = client[y]
      /\ client'[x].call = client[x].call /\ InHand(x) /\ client[x].call \in Call
  BY ClientFrame, ClientLine DEF InHand
<1>2. PICK c \in Call : c = client[x].call
  BY <1>1
<1>3. \A y \in Producer : y # x => client'[y] = client[y]
  BY <1>1 DEF Client
<1>4. CASE (\A t \in Thread : Same(t)) /\ client'[x].pc # "idle" /\ refused' = refused
  <2>1. \A y \in Producer : (InHand(y)' <=> InHand(y)) /\ (InHand(y) => client'[y].call = client[y].call)
    BY <1>1, <1>3, <1>4 DEF InHand
  <2> QED
    BY <1>1, <1>4, <2>1, PlacedStill
<1>5. CASE x \in Caller
  <2>1. c = Drained /\ ~eof[client[x].thread] /\ client[x].thread \in Thread /\ x \notin Producer
    BY <1>1, <1>2, <1>5, DrainedIsTaken, ClientLine, ClientAssumption DEF Held, HandsOfClients
  <2>2. \A y \in Producer : (InHand(y)' <=> InHand(y)) /\ (InHand(y) => client'[y].call = client[y].call)
    BY <1>3, <2>1 DEF InHand
  <2>3. CASE refused' = refused /\ \E t \in Thread : Arrives(t, c)
    <3>1. Queued' = Queued \cup {Drained} /\ Alone' /\ Taken' = Taken
      BY <1>1, <2>1, <2>3, ArrivesQueued DEF Placed, Apart, Taken
    <3>2. (Queued \cap Taken)' = {} /\ Drained \notin Taken' /\ \A d : d # Drained => (d \in Sent' <=> d \in Sent)
      BY <3>1 DEF Placed, Apart, Sent
    <3> QED
      BY <1>1, <2>2, <3>1, <3>2, PlacedSame
  <2> QED
    BY <1>2, <1>4, <2>1, <2>3, ClientLine
<1>6. CASE x \in Producer /\ client'[x].pc = "idle"
  <2>1. c = <<x, made[x]>> /\ made[x] \in Nat /\ c # Drained /\ c \notin Sent
    BY <1>1, <1>2, <1>6, ProducerHand DEF Placed, Apart
  <2>2. Alone' /\ (Queued \cap Taken)' = {} /\ Sent' = Sent \cup {c} /\ Drained \notin Taken'
    <3>1. CASE refused' = refused /\ \E t \in Thread : Arrives(t, c)
      <4>1. Queued' = Queued \cup {c} /\ Alone' /\ Taken' = Taken
        BY <1>1, <2>1, <3>1, ArrivesQueued DEF Placed, Apart, Taken, Sent
      <4> QED
        BY <2>1, <4>1 DEF Placed, Apart, Sent
    <3>2. CASE refused' = refused \cup {c} /\ \A t \in Thread : Same(t)
      <4>1. Queued' = Queued /\ Alone' /\ Taken' = Taken \cup {c}
        BY <1>1, <3>2, SameQueued DEF Placed, Apart, Taken
      <4> QED
        BY <2>1, <4>1 DEF Placed, Apart, Sent
    <3> QED
      BY <1>2, <1>6, <3>1, <3>2, ClientLine
  <2>3. \A f \in Entries : f.call \in DeferredCall /\ f.call # c
    BY <1>6, <2>1, DeferredIs, ClientAssumption DEF Held, HandsOfTimers
  <2>4. Entries' = Entries /\ Waiting' = Waiting
    BY <1>1 DEF Entries, Waiting
  <2>5. \A y \in Producer : InHand(y)' => y # x /\ InHand(y) /\ client'[y].call = client[y].call
                              /\ client[y].call # c /\ client[y].call \notin Sent
    <3>1. \A y \in Producer : InHand(y)' => y # x /\ InHand(y) /\ client'[y].call = client[y].call
      BY <1>3, <1>6 DEF InHand
    <3>2. \A y \in Producer : y # x /\ InHand(y) => client[y].call # c
      BY <2>1, ProducerHand
    <3> QED
      BY <3>1, <3>2 DEF Placed, Apart
  <2>6. Apart'
    BY <1>1, <2>2, <2>3, <2>4, <2>5 DEF Placed, Apart
  <2>7. Numbered'
    <3>1. \A y \in Producer \cup Timer, i \in Nat : <<y, i>> = c => i <= made[y]
      BY <2>1
    <3> QED
      BY <1>1, <2>2, <2>4, <3>1 DEF Placed, Numbered
  <2>8. Kept'
    <3>1. \A y \in Producer : y # x => Finished(y)' = Finished(y)
      BY <1>1, <1>3 DEF Finished
    <3>2. ASSUME NEW d \in Finished(x)'
          PROVE  d \in Finished(x) \cup {c}
      <4>1. Finished(x)' = {<<x, i>> : i \in 1..made[x]} /\ Finished(x) = {<<x, i>> : i \in 1..(made[x] - 1)}
        BY <1>1, <1>6 DEF Finished, InHand
      <4>2. PICK i \in 1..made[x] : d = <<x, i>>
        BY <4>1
      <4>3. i \in 1..(made[x] - 1) \/ i = made[x]
        BY <2>1
      <4> QED
        BY <2>1, <4>1, <4>2, <4>3
    <3> QED
      BY <2>2, <3>1, <3>2 DEF Placed, Kept
  <2>9. Cancelled'
    <3>1. \A d \in revoked : d # c
      BY <1>6, <2>1, DeferredIs, ClientAssumption DEF Placed, Cancelled
    <3> QED
      BY <1>1, <2>2, <2>4, <3>1 DEF Placed, Cancelled
  <2> QED
    BY <2>6, <2>7, <2>8, <2>9 DEF Placed
<1> QED
  BY <1>4, <1>5, <1>6, ClientLine DEF Client

LEMMA WorkPlaces ==
  ASSUME TypeOK, Held, TypeOK', Held', Placed, NEW t \in Thread, Work(t)
  PROVE  Placed'
<1>1. UNCHANGED <<client, made, added, refused, schedule, handle, timer, revoked, retried>>
  BY WorkFrame
<1>2. \A x \in Producer : (InHand(x)' <=> InHand(x)) /\ client'[x].call = client[x].call
  BY <1>1 DEF InHand
<1>3. CASE ~WorkShift(t)
  <2>1. \A u \in Thread : Same(u)
    <3>1. ~(worker[t].pc = "shift" /\ ring[t] # <<>>)
      BY <1>3 DEF Work, WorkLoad, WorkOver, WorkMove, WorkCount, WorkEmpty, WorkFinal, WorkExit
    <3> QED
      BY <3>1, WorkLine
  <2>2. UNCHANGED ran
    BY <1>3 DEF Work, WorkLoad, WorkOver, WorkMove, WorkCount, WorkEmpty, WorkFinal, WorkExit
  <2> QED
    BY <1>1, <1>2, <2>1, <2>2, PlacedStill
<1>4. CASE WorkShift(t)
  <2>1. Leaves(t) /\ (\A u \in Thread : u # t => Same(u)) /\ ran' = ran \cup ({LineAt(t, 1)} \ {Drained})
    BY <1>4, ShiftIs DEF Execute
  <2>2. PICK c : c = LineAt(t, 1)
    OBVIOUS
  <2>3. /\ Alone' /\ c \in Queued
        /\ Queued' \subseteq Queued /\ Queued \subseteq Queued' \cup {c}
        /\ c # Drained => c \notin Queued'
    BY <2>1, <2>2, LeavesQueued DEF Placed, Apart
  <2>4. Taken' = Taken \cup ({c} \ {Drained})
    BY <1>1, <2>1, <2>2 DEF Taken
  <2>5. (Queued \cap Taken)' = {} /\ Drained \notin Taken' /\ \A d : d # Drained => (d \in Sent' <=> d \in Sent)
    BY <2>3, <2>4 DEF Placed, Apart, Sent
  <2> QED
    BY <1>1, <1>2, <2>3, <2>5, PlacedSame
<1> QED
  BY <1>3, <1>4

LEMMA LifePlaces ==
  ASSUME TypeOK, Held, TypeOK', Held', Placed, NEW x \in Caller, LifeCall(x) \/ LifeStep(x)
  PROVE  Placed'
<1>1. UNCHANGED <<made, ran, added, refused, schedule, handle, revoked, retried>>
  BY LifeFrame
<1>2. \A y \in Producer : client'[y] = client[y]
  <2>1. client \in [Client -> ClientType] /\ x \notin Producer
    BY ClientAssumption DEF TypeOK, ClientType
  <2>2. \/ UNCHANGED client
        \/ \E v : client' = [client EXCEPT ![x] = v]
    BY LifeClient
  <2> QED
    BY <2>1, <2>2 DEF Client
<1>3. timer'.entry = timer.entry /\ (timer'.pc = "again" => timer.pc = "again")
  <2>1. timer \in TimerType
    BY DEF TypeOK, TimerType, EntryType
  <2> QED
    BY <2>1, LifeTimer DEF TimerType
<1>4. \A t \in Thread : Same(t)
  BY LifeLine
<1> QED
  BY <1>1, <1>2, <1>3, <1>4, PlacedStill DEF InHand

\* run() and add() take a number no call has had.
LEMMA RunPlaces ==
  ASSUME TypeOK, Held, TypeOK', Held', Placed, NEW x \in Producer, Run(x)
  PROVE  Placed'
<1>1. /\ UNCHANGED <<ring, overRing, worker, ran, refused, schedule, handle, timer, revoked, retried>>
      /\ client[x].pc = "idle" /\ made[x] \in Nat
  BY RunFrame, RunIs
<1>2. PICK c : c = <<x, made[x] + 1>>
  OBVIOUS
<1>3. made'[x] = made[x] + 1 /\ \A y \in Producer \cup Timer : y # x => made'[y] = made[y]
  <2>1. made \in [Producer \cup Timer -> Nat] /\ made' = [made EXCEPT ![x] = @ + 1]
    BY RunIs DEF TypeOK
  <2> QED
    BY <2>1
<1>4. /\ client'[x].pc # "idle" /\ client'[x].call = c /\ \A y \in Producer : y # x => client'[y] = client[y]
      /\ added' \subseteq added \cup {c}
  <2>1. PICK pc \in {"load", "add"}, t \in Thread :
          /\ client' = [client EXCEPT ![x] = [pc |-> pc, thread |-> t, call |-> c]]
          /\ added' = IF pc = "add" THEN added \cup {c} ELSE added
    BY <1>2, RunIs
  <2>2. x \in Client /\ client \in [Client -> ClientType]
    BY DEF TypeOK, ClientType, Client
  <2> QED
    BY <2>1, <2>2 DEF Client
<1>5. Sent' = Sent /\ Alone' /\ Queued' = Queued /\ Taken' = Taken /\ Entries' = Entries /\ Waiting' = Waiting
  BY <1>1, AllSame, SameQueued DEF Placed, Apart, Sent, Taken, Entries, Waiting
<1>6. c \notin Sent
  BY <1>1, <1>2 DEF Placed, Numbered
<1>7. Apart'
  BY <1>1, <1>4, <1>5, <1>6 DEF Placed, Apart, InHand
<1>8. Numbered'
  <2>1. ASSUME NEW y \in Producer \cup Timer, NEW i \in Nat, <<y, i>> \in Sent \cup revoked \cup added' \cup Waiting
        PROVE  i <= made'[y]
    <3>1. CASE <<y, i>> \in Sent \cup revoked \cup added \cup Waiting
      <4>1. i <= made[y]
        BY <3>1 DEF Placed, Numbered
      <4> QED
        BY <1>1, <1>3, <4>1
    <3>2. CASE <<y, i>> = c
      BY <1>1, <1>2, <1>3, <3>2
    <3> QED
      BY <1>4, <2>1, <3>1, <3>2
  <2> QED
    BY <1>1, <1>5, <2>1 DEF Numbered
<1>9. Kept'
  <2>1. \A y \in Producer : y # x => Finished(y)' = Finished(y)
    BY <1>3, <1>4 DEF Finished
  <2>2. Finished(x)' = {<<x, i>> : i \in 1..(made'[x] - 1)} /\ Finished(x) = {<<x, i>> : i \in 1..made[x]}
    BY <1>1, <1>4 DEF Finished
  <2>3. made'[x] - 1 = made[x]
    BY <1>1, <1>3
  <2>4. Finished(x)' = Finished(x)
    BY <2>2, <2>3
  <2> QED
    BY <1>5, <2>1, <2>4 DEF Placed, Kept
<1>10. Cancelled'
  BY <1>1, <1>5 DEF Placed, Cancelled
<1> QED
  BY <1>7, <1>8, <1>9, <1>10 DEF Placed

\* What del() or a new call on a timer cancels: calls the timer referred to, unless one was put back.
LEMMA CancelsReferred ==
  ASSUME TypeOK, Held, Placed, NEW x \in Timer, ~Locked, NEW c \in Outstanding(x)
  PROVE  /\ c \in Waiting /\ c \in DeferredCall /\ c[1] = x
         /\ x \notin retried => c \notin {f.call : f \in ((schedule \ Referred(x)) \cup {timer.entry}) \ {None}}
<1>1. PICK f \in schedule \cup {timer.entry} : f # None /\ f.call[1] = x /\ c = f.call
  BY DEF Outstanding
<1>2. f \in Entries /\ c \in Waiting /\ c \in DeferredCall
  BY <1>1 DEF Entries, Waiting, Held, HandsOfTimers
<1>3. timer.entry # None => timer.entry.call[1] \in retried
  BY DEF Locked, Held, HandsOfTimers, Placed, Cancelled
<1>4. ASSUME x \notin retried, NEW g \in ((schedule \ Referred(x)) \cup {timer.entry}) \ {None}, g.call = c
      PROVE  FALSE
  <2>1. f \in schedule /\ handle[x] = c
    BY <1>1, <1>3, <1>4 DEF Placed, Cancelled
  <2>2. g \in Entries
    BY <1>4 DEF Entries
  <2>3. g = f
    BY <1>1, <1>2, <1>4, <2>2 DEF Placed, Apart
  <2>4. f \in Referred(x)
    BY <1>1, <2>1 DEF Referred
  <2> QED
    BY <1>4, <2>1, <2>3, <2>4 DEF Placed, Apart
<1> QED
  BY <1>1, <1>2, <1>4

\* Producers have nothing to do with what timers do.
LEMMA ProducersApart ==
  ASSUME TypeOK, Held, NEW c, c[1] \in Timer, NEW y \in Producer
  PROVE  InHand(y) => client[y].call # c
<1>1. y \notin Timer
  BY ClientAssumption
<1>2. InHand(y) => client[y].call[1] = y
  BY ProducerHand
<1> QED
  BY <1>1, <1>2

\* What the calls on timer x do: those that wait are cancelled, and the new call c, if there is
\* one, waits in the entry in new or is queued.
LEMMA DeferredMoves ==
  ASSUME TypeOK, Held, Placed, NEW x \in Timer, ~Locked, NEW c, c = <<x, made[x] + 1>>,
         NEW new, NEW queued, new = {} \/ queued = {}, queued \subseteq {c},
         \A e, f \in new : e.call = c /\ e = f, None \notin new,
         schedule' = (schedule \ Referred(x)) \cup new, new # {} => handle'[x] = c,
         Sent' = Sent \cup queued, (Queued \cap Taken)' = {}, Drained \notin Taken', Alone',
         revoked' = revoked \cup Outstanding(x), UNCHANGED <<timer, retried, client, added>>,
         \A y \in Timer : y # x => handle'[y] = handle[y],
         \A y \in Producer \cup Timer : y # x => made'[y] = made[y],
         made'[x] = made[x] + 1 \/ (made'[x] = made[x] /\ new = {} /\ queued = {})
  PROVE  Placed'
<1>1. made[x] \in Nat
  BY DEF TypeOK
<1>2. c \notin Sent \cup revoked \cup added \cup Waiting /\ c # Drained /\ c[1] = x
  BY <1>1, NotDrained DEF Placed, Numbered
<1>3. x \notin Producer
  BY ClientAssumption
<1>4. Entries' \subseteq Entries \cup new
  BY DEF Entries
<1>5. \A f \in Entries : f.call \in Waiting /\ f.call # c
  BY <1>2 DEF Waiting
<1>6. Waiting' \subseteq Waiting \cup {c} /\ (new = {} => Waiting' \subseteq Waiting)
  BY <1>4 DEF Waiting
<1>7. Apart'
  <2>1. \A y \in Producer : InHand(y)' => client'[y].call \notin Sent'
    BY <1>2, ProducersApart DEF InHand, Placed, Apart
  <2>2. \A f \in Entries' : f.call \notin Sent'
    BY <1>2, <1>4, <1>5 DEF Placed, Apart
  <2>3. \A f, g \in Entries' : f.call = g.call => f = g
    BY <1>4, <1>5 DEF Placed, Apart
  <2>4. timer'.entry \notin schedule'
    BY <1>5 DEF Placed, Apart, Entries
  <2> QED
    BY <2>1, <2>2, <2>3, <2>4 DEF Apart
<1>8. \A d \in Outstanding(x) : d \in Waiting /\ d \in DeferredCall /\ d[1] = x
  BY CancelsReferred
<1>9. Numbered'
  <2>1. ASSUME NEW y \in Producer \cup Timer, NEW i \in Nat, <<y, i>> \in Sent' \cup revoked' \cup added' \cup Waiting'
        PROVE  i <= made'[y]
    <3>1. <<y, i>> \in Sent \cup revoked \cup added \cup Waiting \/ (<<y, i>> = c /\ (new # {} \/ queued # {}))
      BY <1>6, <1>8, <2>1
    <3>2. CASE <<y, i>> \in Sent \cup revoked \cup added \cup Waiting
      <4>1. i <= made[y]
        BY <3>2 DEF Placed, Numbered
      <4> QED
        BY <1>1, <4>1
    <3>3. CASE <<y, i>> = c /\ (new # {} \/ queued # {})
      BY <1>1, <3>3
    <3> QED
      BY <3>1, <3>2, <3>3
  <2> QED
    BY <2>1 DEF Numbered
<1>10. Kept'
  <2>1. \A y \in Producer : Finished(y)' = Finished(y)
    BY <1>3 DEF Finished
  <2> QED
    BY <2>1 DEF Placed, Kept
<1>11. Cancelled'
  <2>1. ASSUME NEW d \in revoked', d[1] \notin retried
        PROVE  d \notin Sent' \cup Waiting'
    <3>1. d # c
      BY <1>2, <1>8
    <3>2. CASE d \in revoked
      BY <1>6, <2>1, <3>1, <3>2 DEF Placed, Cancelled
    <3>3. CASE d \in Outstanding(x)
      <4>1. d \in Waiting /\ d[1] = x /\ d \notin {f.call : f \in ((schedule \ Referred(x)) \cup {timer.entry}) \ {None}}
        BY <2>1, <3>3, CancelsReferred
      <4>2. d \notin Sent
        BY <4>1 DEF Placed, Apart, Waiting
      <4>3. d \notin Waiting'
        BY <3>1, <4>1 DEF Waiting, Entries
      <4> QED
        BY <3>1, <4>2, <4>3
    <3> QED
      BY <3>2, <3>3
  <2>2. ASSUME NEW f \in schedule', f.call[1] \notin retried
        PROVE  handle'[f.call[1]] = f.call
    <3>1. CASE f \in new
      BY <1>2, <3>1
    <3>2. CASE f \in schedule \ Referred(x)
      <4>1. f \in Entries
        BY <3>2, CallAssumption DEF Entries, TypeOK
      <4>2. f.call[1] \in Timer
        BY <4>1, DeferredIs DEF Held, HandsOfTimers
      <4>3. handle[f.call[1]] = f.call
        BY <2>2, <3>2 DEF Placed, Cancelled
      <4>4. f.call[1] # x
        BY <3>2, <4>3 DEF Referred
      <4> QED
        BY <4>2, <4>3, <4>4
    <3> QED
      BY <3>1, <3>2
  <2>3. \A d \in revoked' : d \in DeferredCall
    BY <1>8 DEF Placed, Cancelled
  <2> QED
    BY <2>1, <2>2, <2>3 DEF Placed, Cancelled
<1> QED
  BY <1>7, <1>9, <1>10, <1>11 DEF Placed

\* A deferred call is queued or waits, with the calls it replaces cancelled.
LEMMA DeferredPlaces ==
  ASSUME TypeOK, Held, TypeOK', Held', Placed, NEW x \in Timer, RunTimed(x) \/ Del(x)
  PROVE  Placed'
<1>1. UNCHANGED <<timer, retried, client, ran, added, refused>> /\ Taken' = Taken
  BY DeferredFrame DEF Taken
<1>2. ~Locked /\ revoked' = revoked \cup Outstanding(x)
  BY DEF RunTimed, Del
<1>3. PICK c : c = <<x, made[x] + 1>>
  OBVIOUS
<1>4. made[x] \in Nat /\ made \in [Producer \cup Timer -> Nat] /\ handle \in [Timer -> Call \cup {None}]
  BY DEF TypeOK
<1>5. c \notin Sent
  BY <1>3, <1>4 DEF Placed, Numbered
<1>6. \A v : handle' = [handle EXCEPT ![x] = v] => handle'[x] = v /\ \A y \in Timer : y # x => handle'[y] = handle[y]
  BY <1>4
<1>7. ASSUME RunTimed(x), NEW t \in Thread, Push(t, c), schedule' = schedule \ Referred(x),
             handle' = [handle EXCEPT ![x] = None]
      PROVE  Placed'
  <2>1. Arrives(t, c)
    <3>1. c \in Call
      BY <1>3, <1>7, RunTimedIs, DeferredIs
    <3> QED
      BY <1>7, <3>1, PushArrives, DeferredFrame
  <2>2. Queued' = Queued \cup {c} /\ Alone'
    BY <1>5, <2>1, ArrivesQueued DEF Placed, Apart, Sent
  <2>3. PICK new, queued : new = {} /\ queued = {c}
    OBVIOUS
  <2>4. Sent' = Sent \cup queued /\ (Queued \cap Taken)' = {} /\ Drained \notin Taken' /\ queued \subseteq {c}
    BY <1>1, <1>5, <2>2, <2>3 DEF Placed, Apart, Sent
  <2>5. made'[x] = made[x] + 1 /\ \A y \in Producer \cup Timer : y # x => made'[y] = made[y]
    BY <1>4, <1>7, RunTimedIs
  <2>6. schedule' = (schedule \ Referred(x)) \cup new /\ \A y \in Timer : y # x => handle'[y] = handle[y]
    BY <1>6, <1>7, <2>3
  <2>7. (\A e, f \in new : e.call = c /\ e = f) /\ None \notin new /\ (new # {} => handle'[x] = c) /\ (new = {} \/ queued = {})
    BY <2>3
  <2>8. made'[x] = made[x] + 1 \/ (made'[x] = made[x] /\ new = {} /\ queued = {})
    BY <2>5
  <2> QED
    <3>1. UNCHANGED <<timer, retried, client, added>> /\ revoked' = revoked \cup Outstanding(x) /\ ~Locked
      BY <1>1, <1>2
    <3>2. Sent' = Sent \cup queued /\ (Queued \cap Taken)' = {} /\ Drained \notin Taken' /\ queued \subseteq {c} /\ Alone'
      BY <2>2, <2>4
    <3> QED
      BY SMTT(30), <1>3, <2>5, <2>6, <2>7, <2>8, <3>1, <3>2, DeferredMoves
<1>8. ASSUME UNCHANGED ring, NEW new, \A e, f \in new : e.call = c /\ e = f,
             schedule' = (schedule \ Referred(x)) \cup new, new # {} => handle'[x] = c,
             \A y \in Timer : y # x => handle'[y] = handle[y],
             \A y \in Producer \cup Timer : y # x => made'[y] = made[y],
             made'[x] = made[x] + 1 \/ (made'[x] = made[x] /\ new = {})
      PROVE  Placed'
  <2>1. Alone' /\ Queued' = Queued
    <3>1. \A t \in Thread : Same(t)
      BY <1>8, AllSame, DeferredFrame
    <3> QED
      BY <3>1, SameQueued DEF Placed, Apart
  <2>2. PICK queued : queued = {}
    OBVIOUS
  <2>3. Sent' = Sent \cup queued /\ (Queued \cap Taken)' = {} /\ Drained \notin Taken' /\ queued \subseteq {c}
    BY <1>1, <2>1, <2>2 DEF Placed, Apart, Sent
  <2>4. None \notin new
    BY <1>8, CallAssumption DEF TypeOK
  <2>5. (new = {} \/ queued = {}) /\ (made'[x] = made[x] + 1 \/ (made'[x] = made[x] /\ new = {} /\ queued = {}))
    BY <1>8, <2>2
  <2> QED
    BY <1>1, <1>2, <1>3, <1>8, <2>1, <2>3, <2>4, <2>5, DeferredMoves
<1>9. CASE RunTimed(x)
  <2>1. made'[x] = made[x] + 1 /\ \A y \in Producer \cup Timer : y # x => made'[y] = made[y]
    BY <1>4, <1>9, RunTimedIs
  <2>2. ASSUME NEW e, e.call = c, schedule' = (schedule \ Referred(x)) \cup {e}, UNCHANGED ring,
               handle' = [handle EXCEPT ![x] = c]
        PROVE  Placed'
    <3>1. PICK new : new = {e}
      OBVIOUS
    <3>2. (\A f, g \in new : f.call = c /\ f = g) /\ schedule' = (schedule \ Referred(x)) \cup new
      BY <2>2, <3>1
    <3>3. (new # {} => handle'[x] = c) /\ \A y \in Timer : y # x => handle'[y] = handle[y]
      BY <1>6, <2>2
    <3> QED
      BY <1>8, <2>1, <2>2, <3>2, <3>3
  <2>3. \/ \E t \in Thread : Push(t, c) /\ schedule' = schedule \ Referred(x) /\ handle' = [handle EXCEPT ![x] = None]
        \/ \E e : e.call = c /\ schedule' = (schedule \ Referred(x)) \cup {e} /\ UNCHANGED ring
                    /\ handle' = [handle EXCEPT ![x] = c]
    <3>1. PICK at \in Time, thread \in Thread \cup {None} :
            \/ (\E t \in Takes(thread) : Push(t, c)) /\ schedule' = schedule \ Referred(x)
                 /\ handle' = [handle EXCEPT ![x] = None]
            \/ /\ schedule' = (schedule \ Referred(x)) \cup {[call |-> c, at |-> at, thread |-> thread]}
               /\ handle' = [handle EXCEPT ![x] = c] /\ UNCHANGED ring
      BY <1>3, <1>9 DEF RunTimed
    <3>2. [call |-> c, at |-> at, thread |-> thread].call = c
      OBVIOUS
    <3>3. \A t \in Takes(thread) : t \in Thread
      BY DEF Takes
    <3> QED
      BY <3>1, <3>2, <3>3
  <2> QED
    BY <1>7, <1>9, <2>2, <2>3
<1>10. CASE Del(x)
  <2>1. UNCHANGED <<ring, made>> /\ schedule' = schedule \ Referred(x) /\ handle' = [handle EXCEPT ![x] = None]
    BY <1>10 DEF Del, queueVars
  <2>2. PICK new : new = {}
    OBVIOUS
  <2>3. (\A f, g \in new : f.call = c /\ f = g) /\ schedule' = (schedule \ Referred(x)) \cup new
    BY <2>1, <2>2
  <2>4. (new # {} => handle'[x] = c) /\ \A y \in Timer : y # x => handle'[y] = handle[y]
    BY <1>6, <2>1, <2>2
  <2> QED
    BY <1>8, <2>1, <2>2, <2>3, <2>4
<1> QED
  BY <1>9, <1>10

\* The timer thread takes a call that is due, queues it, or puts it back.
LEMMA TimerPlaces ==
  ASSUME TypeOK, Held, TypeOK', Held', Placed, TimerThread
  PROVE  Placed'
<1>1. UNCHANGED <<client, made, ran, added, refused, revoked>> /\ Taken' = Taken
      /\ \A y \in Producer : (InHand(y)' <=> InHand(y)) /\ client'[y].call = client[y].call
  BY TimerFrame DEF Taken, InHand
<1>2. timer \in TimerType /\ None \notin EntryType /\ schedule \subseteq EntryType
  BY CallAssumption DEF TypeOK, TimerType, EntryType
<1>3. UNCHANGED ring => (\A t \in Thread : Same(t)) /\ Queued' = Queued /\ Alone' /\ Sent' = Sent
  <2>1. UNCHANGED ring => \A t \in Thread : Same(t)
    BY AllSame, TimerFrame
  <2> QED
    BY <1>1, <2>1, SameQueued DEF Placed, Apart, Sent
<1>4. \A y \in Producer : Finished(y)' = Finished(y)
  BY <1>1 DEF Finished
<1>5. CASE TimerCheck \/ TimerPending \/ TimerGate \/ (TimerDue /\ UNCHANGED schedule)
  <2>1. timer'.entry = timer.entry /\ timer'.pc # "again"
    BY <1>2, <1>5 DEF TimerCheck, TimerPending, TimerGate, TimerDue, TimerType
  <2>2. UNCHANGED <<ring, schedule, handle, retried>>
    BY <1>5 DEF TimerCheck, TimerPending, TimerGate, TimerDue
  <2> QED
    BY <1>1, <1>3, <2>1, <2>2, PlacedStill
<1>6. CASE TimerDue /\ ~UNCHANGED schedule
  <2>1. PICK e \in schedule : /\ schedule' = schedule \ {e} /\ handle' = [handle EXCEPT ![e.call[1]] = None]
                              /\ timer' = [timer EXCEPT !.pc = "dispatch", !.entry = e]
    BY <1>6 DEF TimerDue
  <2>2. timer.pc = "due" /\ UNCHANGED <<ring, retried>>
    BY <1>6 DEF TimerDue
  <2>3. timer'.pc = "dispatch" /\ timer'.entry = e /\ timer.entry = None /\ e # None
    BY <1>2, <2>1, <2>2 DEF TimerType, Held, HandsOfTimers
  <2>4. Entries' = Entries /\ Waiting' = Waiting
    BY <2>1, <2>3 DEF Entries, Waiting
  <2>5. Apart'
    BY <1>1, <1>3, <2>1, <2>2, <2>3, <2>4 DEF Placed, Apart
  <2>6. Numbered' /\ Kept'
    BY <1>1, <1>3, <1>4, <2>2, <2>4 DEF Placed, Numbered, Kept
  <2>7. ASSUME NEW f \in schedule', f.call[1] \notin retried
        PROVE  handle'[f.call[1]] = f.call
    <3>1. f \in schedule /\ f # e /\ f \in Entries /\ e \in Entries
      BY <1>2, <2>1, <2>7 DEF Entries
    <3>2. f.call # e.call /\ handle[f.call[1]] = f.call
      BY <2>7, <3>1 DEF Placed, Apart, Cancelled
    <3>3. e.call[1] # f.call[1]
      BY <2>1, <2>7, <3>2 DEF Placed, Cancelled
    <3>4. e.call[1] \in Timer /\ f.call[1] \in Timer
      BY <3>1, DeferredIs DEF Held, HandsOfTimers
    <3>5. handle \in [Timer -> Call \cup {None}]
      BY DEF TypeOK
    <3> QED
      BY <2>1, <3>2, <3>3, <3>4, <3>5
  <2>8. Cancelled'
    BY <1>1, <1>3, <2>2, <2>3, <2>4, <2>7 DEF Placed, Cancelled
  <2> QED
    BY <2>5, <2>6, <2>8 DEF Placed
<1>7. CASE TimerDispatch
  <2>1. timer.pc = "dispatch" /\ timer.entry # None /\ timer.entry \in Entries /\ UNCHANGED <<schedule, handle>>
    BY <1>7 DEF TimerDispatch, Held, HandsOfTimers, Entries
  <2>2. PICK e : e = timer.entry
    OBVIOUS
  <2>3. e \in Entries /\ e.call \in DeferredCall /\ e.call # Drained /\ e.call \notin Sent /\ e.call \in Waiting
    BY <2>1, <2>2, NotDrained DEF Held, HandsOfTimers, Placed, Apart, Waiting
  <2>4. CASE UNCHANGED ring
    <3>1. timer' = [timer EXCEPT !.pc = "again", !.time = None] /\ retried' = retried \cup {e.call[1]}
      <4>1. \A t \in Thread : ~Push(t, e.call)
        <5>1. ASSUME NEW t \in Thread, Push(t, e.call)
              PROVE  FALSE
          <6>1. PICK c \in Call : c = e.call
            BY <2>3, DeferredIs
          <6>2. Len(ring'[t]) = Len(ring[t]) + 1 /\ Len(ring[t]) \in Nat
            BY <5>1, <6>1, PushEnters, LineIs, TimerFrame
          <6> QED
            BY <2>4, <6>2
        <5> QED
          BY <5>1
      <4> QED
        BY <1>7, <2>2, <4>1 DEF TimerDispatch, Takes
    <3>2. timer'.pc = "again" /\ timer'.entry = e
      BY <1>2, <2>2, <3>1 DEF TimerType
    <3>3. Entries' = Entries /\ Waiting' = Waiting
      BY <2>1, <2>2, <3>2 DEF Entries, Waiting
    <3>4. Apart'
      BY <1>1, <1>3, <2>1, <2>2, <2>4, <3>2, <3>3 DEF Placed, Apart
    <3>5. Numbered' /\ Kept'
      BY <1>1, <1>3, <1>4, <2>4, <3>3 DEF Placed, Numbered, Kept
    <3>6. Cancelled'
      BY <1>1, <1>3, <2>1, <2>4, <3>1, <3>2, <3>3 DEF Placed, Cancelled
    <3> QED
      BY <3>4, <3>5, <3>6 DEF Placed
  <2>5. CASE \E t \in Thread : Arrives(t, e.call) /\ timer' = [timer EXCEPT !.pc = "due", !.entry = None]
                                /\ UNCHANGED <<schedule, retried, handle>>
    <3>1. PICK t \in Thread : Arrives(t, e.call)
      BY <2>5
    <3>2. Queued' = Queued \cup {e.call} /\ Alone'
      BY <2>3, <3>1, ArrivesQueued DEF Placed, Apart, Sent
    <3>3. Sent' = Sent \cup {e.call} /\ (Queued \cap Taken)' = {} /\ Drained \notin Taken'
      BY <1>1, <2>3, <3>2 DEF Placed, Apart, Sent
    <3>4. timer'.pc = "due" /\ timer'.entry = None /\ UNCHANGED <<schedule, retried, handle>>
      BY <1>2, <2>5 DEF TimerType
    <3>5. Entries' = Entries \ {e} /\ None \notin schedule
      BY <1>2, <2>1, <2>2, <3>4 DEF Entries, Placed, Apart
    <3>6. Waiting' \subseteq Waiting
      BY <3>5 DEF Waiting
    <3>7. Apart'
      <4>1. \A y \in Producer : InHand(y) => client[y].call # e.call
        <5>1. e.call[1] \in Timer
          BY <2>3, DeferredIs
        <5> QED
          BY <5>1, ProducersApart
      <4>2. \A y \in Producer : InHand(y)' => client'[y].call \notin Sent'
        BY <1>1, <3>3, <4>1 DEF Placed, Apart
      <4>3. \A f \in Entries' : f.call \notin Sent'
        BY <2>3, <3>3, <3>5 DEF Placed, Apart
      <4> QED
        BY <3>2, <3>3, <3>4, <3>5, <4>2, <4>3 DEF Placed, Apart
    <3>8. Numbered'
      BY <1>1, <2>3, <3>3, <3>6 DEF Placed, Numbered
    <3>9. Kept'
      BY <1>4, <3>3 DEF Placed, Kept
    <3>10. Cancelled'
      BY <1>1, <2>3, <3>3, <3>4, <3>6 DEF Placed, Cancelled
    <3> QED
      BY <3>7, <3>8, <3>9, <3>10 DEF Placed
  <2> QED
    <3>1. ASSUME NEW t \in Thread, Push(t, e.call), timer' = [timer EXCEPT !.pc = "due", !.entry = None],
                 UNCHANGED retried
          PROVE  Placed'
      <4>1. PICK c \in Call : c = e.call
        BY <2>3, DeferredIs
      <4>2. Arrives(t, c)
        BY <3>1, <4>1, PushArrives, TimerFrame
      <4> QED
        BY <2>1, <2>5, <3>1, <4>1, <4>2
    <3> QED
      BY <1>7, <2>2, <2>4, <3>1 DEF TimerDispatch, Takes
<1>8. CASE TimerAgain
  <2>1. PICK e : e = timer.entry
    OBVIOUS
  <2>2. /\ timer.pc = "again" /\ e # None /\ schedule' = schedule \cup {e} /\ UNCHANGED <<ring, handle, retried>>
        /\ timer' = [timer EXCEPT !.pc = "check", !.entry = None]
    BY <1>8, <2>1 DEF TimerAgain, Held, HandsOfTimers
  <2>3. timer'.pc = "check" /\ timer'.entry = None
    BY <1>2, <2>2 DEF TimerType
  <2>4. Entries' = Entries /\ Waiting' = Waiting
    BY <2>1, <2>2, <2>3 DEF Entries, Waiting
  <2>5. e.call[1] \in retried
    BY <2>1, <2>2 DEF Placed, Cancelled
  <2>6. Apart'
    BY <1>1, <1>2, <1>3, <2>2, <2>3, <2>4 DEF Placed, Apart
  <2>7. Numbered' /\ Kept'
    BY <1>1, <1>3, <1>4, <2>2, <2>4 DEF Placed, Numbered, Kept
  <2>8. Cancelled'
    BY <1>1, <1>3, <2>2, <2>3, <2>4, <2>5 DEF Placed, Cancelled
  <2> QED
    BY <2>6, <2>7, <2>8 DEF Placed
<1> QED
  BY <1>5, <1>6, <1>7, <1>8 DEF TimerThread

LEMMA PlacedHolds ==
  ASSUME TypeOK, Held, TypeOK', Held', Placed, Draining, [Next]_vars
  PROVE  Placed'
<1>1. ASSUME UNCHANGED <<ring, overRing, worker, client, made, ran, refused, schedule, handle, timer, revoked, retried, added>>
      PROVE  Placed'
  BY <1>1, AllSame, PlacedStill DEF InHand
<1> QED
  BY <1>1, ClientPlaces, RunPlaces, LifePlaces, WorkPlaces, DeferredPlaces, TimerPlaces, TickFrame
     DEF Next, vars, lifeVars, queueVars, timerVars

LEMMA InitLines ==
  ASSUME Init
  PROVE  \A t \in Thread : LineLen(t) = 0 /\ ~Marked(t)
  BY DEF Init, LineLen, Over, Moving, Marked

LEMMA InitPlaced ==
  ASSUME Init
  PROVE  Placed /\ Draining
<1>1. \A t \in Thread : LineLen(t) = 0 /\ ~Marked(t)
  BY InitLines
<1>2. Queued = {} /\ Sent = {} /\ Entries = {} /\ Waiting = {}
  BY DEF Init, Queued, Sent, Taken, Entries, Waiting, Rng
<1>3. \A x \in Client : ~InHand(x)
  BY DEF Init, InHand
<1>4. Apart
  BY <1>1, <1>2, <1>3 DEF Init, Apart, Alone, Taken, Client
<1>5. Numbered /\ Cancelled
  BY <1>2 DEF Init, Numbered, Cancelled
<1>6. Kept
  BY DEF Init, Kept, Finished, Client
<1>7. Draining
  <2>1. \A x \in Caller, t \in Thread : ~Owes(x, t)
    BY <1>3 DEF Init, Owes, Client
  <2>2. Awaited = {}
    BY <1>1, <2>1 DEF Awaited, Owed
  <2> QED
    BY <1>1, <2>1, <2>2 DEF Init, Draining, Owed, Once
<1> QED
  BY <1>4, <1>5, <1>6, <1>7 DEF Placed

-----------------------------------------------------------------------------
(* The order of calls, step by step *)

Safe == TypeOK /\ Held /\ Placed /\ Draining /\ Before

\* c is a call that is not queued yet: the one a client has in hand, or a deferred call.
Fresh(c) ==
  /\ c # Drained => c \notin Sent
  /\ c = Drained \/ (\E x \in Producer : InHand(x) /\ c = client[x].call) \/ c[1] \in Timer

\* A fresh call is never what a queued call, or the call another client has in hand, waits for.
LEMMA FreshIsLast ==
  ASSUME Safe, NEW c, Fresh(c)
  PROVE  /\ c \notin before /\ \A d \in Queued : ~Late(d, c)
         /\ \A y \in Client : InHand(y) => ~Late(client[y].call, c)
<1>1. c \notin before
  BY DEF Safe, Before, Fresh, Sent, Taken
<1>2. ASSUME NEW d, Late(d, c)
      PROVE  \E x \in Producer, j \in Nat : d = <<x, j>> /\ InHand(x) /\ c = client[x].call /\ made[x] \in Nat /\ made[x] < j
  <2>1. PICK x \in Producer, i \in Nat, j \in Nat : d = <<x, j>> /\ c = <<x, i>> /\ i < j
    BY <1>1, <1>2 DEF Late
  <2>2. c # Drained /\ c[1] = x /\ x \notin Timer
    BY <2>1, NotDrained, ClientAssumption
  <2>3. PICK y \in Producer : InHand(y) /\ c = client[y].call
    BY <2>2 DEF Fresh
  <2>4. c = <<y, made[y]>> /\ made[y] \in Nat
    BY <2>3, ProducerHand DEF Safe
  <2>5. y = x /\ made[x] = i
    BY <2>1, <2>4
  <2> QED
    BY <2>1, <2>3, <2>4, <2>5
<1>3. \A d \in Queued : ~Late(d, c)
  <2>1. \A x \in Producer, j \in Nat : <<x, j>> \in Queued => j <= made[x]
    BY DEF Safe, Placed, Numbered, Sent
  <2>2. \A j, m \in Nat : ~(m < j /\ j <= m)
    OBVIOUS
  <2> QED
    BY <1>2, <2>1, <2>2
<1>4. ASSUME NEW y \in Client, InHand(y), Late(client[y].call, c)
      PROVE  FALSE
  <2>1. PICK x \in Producer, j \in Nat : client[y].call = <<x, j>> /\ InHand(x) /\ made[x] \in Nat /\ made[x] < j
    BY <1>2, <1>4
  <2>2. client[y].call # Drained
    BY <2>1, NotDrained
  <2>3. y \in Producer
    BY <1>4, <2>2 DEF Safe, Held, HandsOfClients, Client
  <2>4. client[y].call = <<y, made[y]>>
    BY <1>4, <2>3, ProducerHand DEF Safe
  <2>5. y = x /\ made[x] = j
    BY <2>1, <2>4
  <2> QED
    BY <2>1, <2>5
<1> QED
  BY <1>1, <1>3, <1>4

\* What is not to be executed before what does not grow but when drain() begins.
LEMMA LateShrinks ==
  ASSUME NEW c, NEW d, before' \subseteq before \/ c # Drained, added \subseteq added', Late(c, d)'
  PROVE  Late(c, d)
  BY DEF Late

\* A step that leaves the lines alone.
LEMMA OrderedSame ==
  ASSUME TypeOK, Held, Ordered, \A t \in Thread : Same(t) /\ \A j \in Nat : j > Len(ring'[t]) => j > Len(ring[t]),
         added \subseteq added',
         before' \subseteq before \/ ((\A t \in Thread : ~Marked(t)) /\ \A x \in Caller : ~InHand(x)),
         \A x \in Producer : client'[x].pc = "add" => client'[x].call \in added' \/ (client[x].pc = "add" /\ client'[x].call = client[x].call),
         \A x \in Client : client'[x].pc = "push" =>
           /\ client'[x].thread \in Thread
           /\ \/ client[x].pc = "push" /\ client'[x].thread = client[x].thread /\ client'[x].call = client[x].call
              \/ LineLen(client'[x].thread) = Len(ring[client'[x].thread])
  PROVE  Ordered'
<1>1. \A t \in Thread : LineLen(t)' = LineLen(t) /\ \A i \in 1..LineLen(t) : LineAt(t, i)' = LineAt(t, i)
  BY DEF Same
<1>2. ASSUME NEW t \in Thread, NEW i \in 1..LineLen(t)', NEW j \in 1..LineLen(t)', i < j
      PROVE  ~Late(LineAt(t, i), LineAt(t, j))'
  <2>1. PICK c, d : c = LineAt(t, i) /\ d = LineAt(t, j)
    OBVIOUS
  <2>2. LineAt(t, i)' = c /\ LineAt(t, j)' = d
    BY <1>1, <1>2, <2>1
  <2>3. ~Late(c, d)
    BY <1>1, <1>2, <2>1 DEF Ordered
  <2>4. before' \subseteq before \/ c # Drained
    BY <1>1, <1>2, <2>1 DEF Marked
  <2>5. ~Late(c, d)'
    BY <2>3, <2>4, LateShrinks
  <2> QED
    BY <2>2, <2>5 DEF Late
<1>3. ASSUME NEW x \in Client, NEW th \in Thread, client'[x].pc = "push", th = client'[x].thread,
             NEW j \in 1..LineLen(th)', j > Len(ring'[th])
      PROVE  ~Late(client[x].call, LineAt(th, j))'
  <2>1. j \in 1..LineLen(th) /\ LineAt(th, j)' = LineAt(th, j) /\ j > Len(ring[th])
    <3>1. j \in 1..LineLen(th) /\ LineAt(th, j)' = LineAt(th, j) /\ j \in Nat
      BY <1>1, <1>3
    <3> QED
      BY <1>3, <3>1
  <2>2. LineLen(th) # Len(ring[th])
    <3>1. PICK n \in Nat, l \in Nat : n = Len(ring[th]) /\ l = LineLen(th)
      BY LineIs
    <3>2. j \in 1..l /\ j > n
      BY <2>1, <3>1
    <3>3. l # n
      BY <3>2
    <3> QED
      BY <3>1, <3>3
  <2>3. client[x].pc = "push" /\ th = client[x].thread /\ client'[x].call = client[x].call
    BY <1>3, <2>2
  <2>4. PICK c, d : c = client[x].call /\ d = LineAt(th, j)
    OBVIOUS
  <2>5. ~Late(c, d)
    BY <1>3, <2>1, <2>3, <2>4 DEF Ordered
  <2>6. before' \subseteq before \/ c # Drained
    <3>1. InHand(x)
      BY <2>3 DEF InHand
    <3>2. x \in Producer => c # Drained
      BY <2>4, <3>1, ProducerHand
    <3> QED
      BY <3>1, <3>2 DEF Client
  <2>7. ~Late(c, d)'
    BY <2>5, <2>6, LateShrinks
  <2> QED
    BY <1>3, <2>1, <2>3, <2>4, <2>7 DEF Late
<1>5. \A x \in Producer : client'[x].pc = "add" => client'[x].call \in added'
  BY DEF Ordered
<1> QED
  BY <1>2, <1>3, <1>5 DEF Ordered

\* A fresh call arrives in a line.
LEMMA OrderedArrives ==
  ASSUME Safe, Ordered, NEW t \in Thread, NEW c, Fresh(c), Arrives(t, c), UNCHANGED <<before, added>>,
         Len(ring'[t]) = Len(ring[t]) + 1 =>
           \A j \in 1..LineLen(t) : j > Len(ring[t]) => ~Late(c, LineAt(t, j)),
         \A y \in Client : client'[y].pc \in {"push", "add"} => client'[y] = client[y]
  PROVE  Ordered'
<1>1. PICK k : /\ Enters(t, k, c)
               /\ \/ k = Len(ring[t]) + 1 /\ Len(ring'[t]) = Len(ring[t]) + 1
                  \/ k = LineLen(t) + 1 /\ ring'[t] = ring[t]
  BY DEF Arrives
<1>2. PICK n \in Nat, r \in Nat : n = LineLen(t) /\ r = Len(ring[t])
  BY LineIs DEF Safe
<1>3. /\ k \in 1..(n + 1) /\ LineLen(t)' = n + 1 /\ LineAt(t, k)' = c
      /\ \A i \in 1..(n + 1) : (i < k => LineAt(t, i)' = LineAt(t, i) /\ i \in 1..n)
           /\ (i > k => LineAt(t, i)' = LineAt(t, i - 1) /\ i - 1 \in 1..n)
  BY <1>1, <1>2, EntersAt
<1>4. \A u \in Thread : u # t => LineLen(u)' = LineLen(u) /\ ring'[u] = ring[u]
                                 /\ \A i \in 1..LineLen(u) : LineAt(u, i)' = LineAt(u, i)
  BY DEF Arrives, Same
<1>5. \A d, e : Late(d, e)' <=> Late(d, e)
  BY DEF Late
<1>6. /\ \A i \in 1..n : ~Late(LineAt(t, i), c)
      /\ \A y \in Client : InHand(y) => ~Late(client[y].call, c)
  <2>1. \A i \in 1..n : LineAt(t, i) \in Queued
    BY <1>2, QueuedIs DEF Safe
  <2> QED
    BY <2>1, FreshIsLast
<1>7. \A j \in 1..n : j >= k => ~Late(c, LineAt(t, j))
  <2>1. CASE k = r + 1 /\ Len(ring'[t]) = Len(ring[t]) + 1
    <3>1. \A j \in 1..n : j >= k => j > r
      BY <2>1
    <3> QED
      BY <1>2, <2>1, <3>1
  <2>2. CASE k = n + 1
    BY <2>2
  <2> QED
    BY <1>1, <1>2, <2>1, <2>2
<1>8. \A i, j \in 1..n : i < j => ~Late(LineAt(t, i), LineAt(t, j))
  BY <1>2 DEF Ordered
<1>9. ASSUME NEW i \in 1..(n + 1), NEW j \in 1..(n + 1), i < j
      PROVE  ~Late(LineAt(t, i)', LineAt(t, j)')
  <2>1. CASE j < k
    <3>1. i < k
      BY <1>3, <1>9, <2>1
    <3> QED
      BY <1>3, <1>8, <1>9, <2>1, <3>1
  <2>2. CASE j = k
    <3>1. i < k
      BY <1>9, <2>2
    <3> QED
      BY <1>3, <1>6, <2>2, <3>1
  <2>3. CASE i = k
    <3>1. j > k /\ j - 1 >= k
      BY <1>9, <2>3
    <3> QED
      BY <1>3, <1>7, <2>3, <3>1
  <2>4. CASE i < k /\ j > k
    <3>1. i < j - 1
      BY <1>3, <2>4
    <3> QED
      BY <1>3, <1>8, <2>4, <3>1
  <2>5. CASE i > k
    <3>1. j > k /\ i - 1 < j - 1
      BY <1>9, <2>5, <1>3
    <3> QED
      BY <1>3, <1>8, <2>5, <3>1
  <2> QED
    BY <1>3, <2>1, <2>2, <2>3, <2>4, <2>5
<1>10. ASSUME NEW u \in Thread, NEW i \in 1..LineLen(u)', NEW j \in 1..LineLen(u)', i < j
       PROVE  ~Late(LineAt(u, i), LineAt(u, j))'
  <2>1. ~Late(LineAt(u, i)', LineAt(u, j)')
    <3>1. CASE u = t
      BY <1>3, <1>9, <1>10, <3>1
    <3>2. CASE u # t
      <4>1. \A a, b \in 1..LineLen(u) : a < b => ~Late(LineAt(u, a), LineAt(u, b))
        BY DEF Ordered
      <4> QED
        BY <1>4, <1>10, <3>2, <4>1
    <3> QED
      BY <3>1, <3>2
  <2> QED
    BY <1>5, <2>1 DEF Late
<1>11. ASSUME NEW y \in Client, NEW u \in Thread, client'[y].pc = "push", client'[y].thread = u,
              NEW j \in 1..LineLen(u)', j > Len(ring'[u])
       PROVE  ~Late(client[y].call, LineAt(u, j))'
  <2>1. client'[y] = client[y] /\ client[y].pc = "push" /\ client[y].thread = u /\ InHand(y)
    BY <1>11 DEF InHand
  <2>2. \A a \in 1..LineLen(u) : a > Len(ring[u]) => ~Late(client[y].call, LineAt(u, a))
    BY <2>1 DEF Ordered
  <2>3. ~Late(client[y].call, LineAt(u, j)')
    <3>1. CASE u # t
      BY <1>4, <1>11, <2>2, <3>1
    <3>2. CASE u = t /\ k = r + 1 /\ Len(ring'[t]) = r + 1
      <4>1. j \in 1..(n + 1) /\ j > k /\ j - 1 > r
        BY <1>3, <1>11, <3>2
      <4> QED
        BY <1>2, <1>3, <2>2, <3>2, <4>1
    <3>3. CASE u = t /\ k = n + 1 /\ Len(ring'[t]) = r
      <4>1. j \in 1..(n + 1) /\ j > r
        BY <1>3, <1>11, <3>3
      <4>2. j = k \/ j < k
        BY <3>3, <4>1
      <4> QED
        BY <1>2, <1>3, <1>6, <2>1, <2>2, <3>3, <4>1, <4>2
    <3> QED
      BY <1>1, <1>2, <3>1, <3>2, <3>3
  <2> QED
    BY <1>5, <2>1, <2>3 DEF Late
<1>12. \A x \in Producer : client'[x].pc = "add" => client'[x].call \in added'
  BY DEF Ordered, Client
<1> QED
  BY <1>10, <1>11, <1>12 DEF Ordered

\* The first of a line is executed.
LEMMA OrderedLeaves ==
  ASSUME Safe, Ordered, NEW t \in Thread, Leaves(t), UNCHANGED <<before, added, client>>,
         Len(ring'[t]) = Len(ring[t]) - 1,
         \A u \in Thread : u # t => Same(u) /\ ring'[u] = ring[u]
  PROVE  Ordered'
<1>1. PICK n \in Nat, r \in Nat : n = LineLen(t) /\ r = Len(ring[t])
  BY LineIs DEF Safe
<1>2. /\ LineLen(t)' = n - 1 /\ Len(ring'[t]) = r - 1
      /\ \A i \in 1..(n - 1) : LineAt(t, i)' = LineAt(t, i + 1) /\ i + 1 \in 1..n
  BY <1>1 DEF Leaves
<1>3. \A u \in Thread : u # t => LineLen(u)' = LineLen(u) /\ ring'[u] = ring[u]
                                 /\ \A i \in 1..LineLen(u) : LineAt(u, i)' = LineAt(u, i)
  BY DEF Same
<1>4. \A d, e : Late(d, e)' <=> Late(d, e)
  BY DEF Late
<1>5. ASSUME NEW u \in Thread, NEW i \in 1..LineLen(u)', NEW j \in 1..LineLen(u)', i < j
      PROVE  ~Late(LineAt(u, i), LineAt(u, j))'
  <2>1. \A a, b \in 1..LineLen(u) : a < b => ~Late(LineAt(u, a), LineAt(u, b))
    BY DEF Ordered
  <2>2. ~Late(LineAt(u, i)', LineAt(u, j)')
    <3>1. CASE u = t
      <4>1. i \in 1..(n - 1) /\ j \in 1..(n - 1) /\ i + 1 < j + 1
        BY <1>2, <1>5, <3>1
      <4> QED
        BY <1>1, <1>2, <2>1, <3>1, <4>1
    <3>2. CASE u # t
      BY <1>3, <1>5, <2>1, <3>2
    <3> QED
      BY <3>1, <3>2
  <2> QED
    BY <1>4, <2>2 DEF Late
<1>6. ASSUME NEW y \in Client, NEW u \in Thread, client[y].pc = "push", client[y].thread = u,
             NEW j \in 1..LineLen(u)', j > Len(ring'[u])
      PROVE  ~Late(client[y].call, LineAt(u, j))'
  <2>1. \A a \in 1..LineLen(u) : a > Len(ring[u]) => ~Late(client[y].call, LineAt(u, a))
    BY <1>6 DEF Ordered
  <2>2. ~Late(client[y].call, LineAt(u, j)')
    <3>1. CASE u = t
      <4>1. j \in 1..(n - 1) /\ j + 1 > r
        BY <1>2, <1>6, <3>1
      <4> QED
        BY <1>1, <1>2, <2>1, <3>1, <4>1
    <3>2. CASE u # t
      BY <1>3, <1>6, <2>1, <3>2
    <3> QED
      BY <3>1, <3>2
  <2> QED
    BY <1>4, <2>2 DEF Late
<1> QED
  BY <1>5, <1>6 DEF Ordered

\* Nothing of before enters the line of t.
Old(t) == \A j \in 1..LineLen(t)' : LineAt(t, j)' \in before => \E i \in 1..LineLen(t) : LineAt(t, i) = LineAt(t, j)'

LEMMA LinesOld ==
  ASSUME TypeOK, Held, NEW t \in Thread,
         \/ Same(t) \/ Leaves(t)
         \/ \E k, c : c \notin before /\ Enters(t, k, c)
  PROVE  Old(t)
<1>1. CASE Same(t)
  BY <1>1 DEF Old, Same
<1>2. PICK n \in Nat : n = LineLen(t)
  BY LineIs
<1>3. CASE Leaves(t)
  <2>1. LineLen(t)' = n - 1 /\ \A i \in 1..(n - 1) : LineAt(t, i)' = LineAt(t, i + 1) /\ i + 1 \in 1..n
    BY <1>2, <1>3 DEF Leaves
  <2> QED
    BY <1>2, <2>1 DEF Old
<1>4. ASSUME NEW k, NEW c, c \notin before, Enters(t, k, c)
      PROVE  Old(t)
  <2>1. /\ k \in 1..(n + 1) /\ LineLen(t)' = n + 1 /\ LineAt(t, k)' = c
        /\ \A i \in 1..(n + 1) : (i < k => LineAt(t, i)' = LineAt(t, i) /\ i \in 1..n)
             /\ (i > k => LineAt(t, i)' = LineAt(t, i - 1) /\ i - 1 \in 1..n)
    BY <1>2, <1>4, EntersAt
  <2>2. \A i \in 1..(n + 1) : i # k => i < k \/ i > k
    BY <2>1
  <2> QED
    BY <1>2, <1>4, <2>1, <2>2 DEF Old
<1> QED
  BY <1>1, <1>3, <1>4

\* A step that begins no drain() and executes no call.
LEMMA BeforeSame ==
  ASSUME Safe, before' = before \/ before' = {}, ran' = ran, Queued \subseteq Queued', \A t \in Thread : Old(t),
         state' = "Draining" => state = "Draining" /\ Awaited \subseteq Awaited', state' = "Drained" => state = "Drained"
  PROVE  Before'
<1>1. (before \subseteq Queued \cup ran /\ Drained \notin before)'
  BY DEF Safe, Before
<1>2. ASSUME state' = "Draining", NEW t \in Thread \ Awaited', NEW j \in 1..LineLen(t)', LineAt(t, j)' \in before
      PROVE  FALSE
  <2>1. PICK i \in 1..LineLen(t) : LineAt(t, i) = LineAt(t, j)'
    BY <1>2 DEF Old
  <2>2. t \in Thread \ Awaited /\ state = "Draining"
    BY <1>2
  <2> QED
    BY <1>2, <2>1, <2>2 DEF Safe, Before
<1>3. (state = "Draining" => \A t \in Thread \ Awaited : \A j \in 1..LineLen(t) : LineAt(t, j) \notin before)'
  BY <1>2
<1>4. (state = "Drained" => before \subseteq ran)'
  BY DEF Safe, Before
<1> QED
  BY <1>1, <1>3, <1>4 DEF Before

\* A fresh call of a producer has the highest number.
LEMMA FreshIsLater ==
  ASSUME Safe, NEW c, Fresh(c), NEW x \in Producer, NEW i \in Nat, c = <<x, i>>, NEW j \in Nat, <<x, j>> \in Sent
  PROVE  j < i
<1>1. c # Drained /\ c[1] = x /\ x \notin Timer /\ c \notin Sent
  BY NotDrained, ClientAssumption DEF Fresh
<1>2. PICK y \in Producer : InHand(y) /\ c = client[y].call
  BY <1>1 DEF Fresh
<1>3. c = <<y, made[y]>> /\ made[y] \in Nat
  BY <1>2, ProducerHand DEF Safe
<1>4. made[x] = i
  BY <1>3
<1>5. j <= made[x]
  BY DEF Safe, Placed, Numbered
<1>6. j # i
  BY <1>1
<1> QED
  BY <1>4, <1>5, <1>6

LEMMA AfterSame ==
  ASSUME Safe, After, ran' = ran, added \subseteq added', Queued' \subseteq Queued
  PROVE  After'
  BY DEF After

LEMMA AfterArrives ==
  ASSUME Safe, After, ran' = ran, added \subseteq added', NEW c, Fresh(c), Queued' \subseteq Queued \cup {c}
  PROVE  After'
<1>1. ASSUME NThreads = 1, NEW x \in Producer, NEW i \in Nat, NEW j \in Nat,
             <<x, i>> \in Queued' \ added', <<x, j>> \in ran \ added'
      PROVE  j < i
  <2>1. CASE <<x, i>> \in Queued
    BY <1>1, <2>1 DEF After
  <2>2. CASE <<x, i>> = c
    <3>1. <<x, j>> \in Sent
      BY <1>1 DEF Sent, Taken
    <3> QED
      BY <2>2, <3>1, FreshIsLater
  <2> QED
    BY <1>1, <2>1, <2>2
<1> QED
  BY <1>1 DEF After

\* A fresh call arrives in a line.
LEMMA LinedArrives ==
  ASSUME Safe, TypeOK', Held', Lined, NEW t \in Thread, NEW c, Fresh(c), Arrives(t, c),
         UNCHANGED <<before, added, ran, state>>, Awaited' = Awaited,
         Len(ring'[t]) = Len(ring[t]) + 1 =>
           \A j \in 1..LineLen(t) : j > Len(ring[t]) => ~Late(c, LineAt(t, j)),
         \A y \in Client : client'[y].pc \in {"push", "add"} => client'[y] = client[y]
  PROVE  Lined'
<1>1. Ordered'
  BY OrderedArrives DEF Lined
<1>2. Queued' = Queued \cup {c}
  BY ArrivesQueued DEF Safe, Placed, Apart, Fresh, Sent
<1>3. c \notin before
  BY FreshIsLast
<1>4. \A u \in Thread : Old(u)
  BY <1>3, LinesOld DEF Safe, Arrives
<1>5. Before'
  BY <1>2, <1>4, BeforeSame
<1>6. After'
  BY <1>2, AfterArrives DEF Lined
<1> QED
  BY <1>1, <1>5, <1>6 DEF Lined

\* A step that leaves the lines alone, and begins no drain().
LEMMA LinedSame ==
  ASSUME Safe, TypeOK', Held', Lined, \A t \in Thread : Same(t) /\ \A j \in Nat : j > Len(ring'[t]) => j > Len(ring[t]),
         before' = before \/ before' = {}, ran' = ran, added \subseteq added',
         state' = "Draining" => state = "Draining" /\ Awaited \subseteq Awaited', state' = "Drained" => state = "Drained",
         \A x \in Producer : client'[x].pc = "add" => client'[x].call \in added' \/ (client[x].pc = "add" /\ client'[x].call = client[x].call),
         \A x \in Client : client'[x].pc = "push" =>
           /\ client'[x].thread \in Thread
           /\ \/ client[x].pc = "push" /\ client'[x].thread = client[x].thread /\ client'[x].call = client[x].call
              \/ LineLen(client'[x].thread) = Len(ring[client'[x].thread])
  PROVE  Lined'
<1>1. Ordered'
  <2>1. before' \subseteq before
    OBVIOUS
  <2> QED
    BY <2>1, OrderedSame DEF Lined, Safe
<1>2. Queued' = Queued
  BY SameQueued DEF Safe
<1>3. \A t \in Thread : Old(t)
  BY LinesOld DEF Safe
<1>4. Before'
  BY <1>2, <1>3, BeforeSame
<1>5. After'
  BY <1>2, AfterSame DEF Lined
<1> QED
  BY <1>1, <1>4, <1>5 DEF Lined

\* While overCount is 0 a line is a ring.
LEMMA CountIsLine ==
  ASSUME TypeOK, Held, NEW t \in Thread, overCount[t] = 0
  PROVE  LineLen(t) = Len(ring[t])
<1>1. PICK n \in Nat, m \in Nat : n = Len(ring[t]) /\ m = Len(overRing[t])
  BY LineIs
<1>2. PICK k \in Nat : k = Cardinality(Adding(t))
  BY AddingIs
<1>3. overCount[t] = m + (IF worker[t].pc \in {"move", "count"} THEN 1 ELSE 0) + k
  BY <1>1, <1>2 DEF Held, Counting
<1>4. m = 0 /\ worker[t].pc # "move"
  <2>1. PICK l \in {0, 1} : /\ l = (IF worker[t].pc \in {"move", "count"} THEN 1 ELSE 0)
                            /\ worker[t].pc = "move" => l = 1
    OBVIOUS
  <2>2. m + l + k = 0
    BY <1>3, <2>1
  <2>3. m = 0 /\ l = 0
    BY <2>2
  <2> QED
    BY <2>1, <2>3
<1>5. LineLen(t) = Over(t) + m /\ Over(t) = n
  BY <1>1, <1>4, LineIs DEF Moving
<1> QED
  BY <1>1, <1>4, <1>5

LEMMA ClientLined ==
  ASSUME Safe, TypeOK', Held', Lined, NEW x \in Client, ClientStep(x)
  PROVE  Lined'
<1>1. /\ UNCHANGED <<state, before, ran, added>> /\ Awaited' = Awaited
      /\ \A y \in Client : y # x => client'[y] = client[y]
      /\ client'[x].call = client[x].call /\ client'[x].thread = client[x].thread /\ client[x].thread \in Thread
      /\ InHand(x) /\ client[x].call \in Call
  BY ClientFrame, ClientLine, ClientDrains DEF Safe, InHand
<1>2. PICK c \in Call, th \in Thread : c = client[x].call /\ th = client[x].thread
  BY <1>1
<1>3. client'[x].pc # "add"
  <2>1. client \in [Client -> ClientType]
    BY DEF Safe, TypeOK, ClientType
  <2> QED
    BY <2>1 DEF ClientStep, AddTry, RunLoad, RunPush, RunStatus, RunCount, RunOver, ClientAt, ClientType
<1>4. CASE \A t \in Thread : Same(t) /\ ring'[t] = ring[t]
  <2>1. client'[x].pc = "push" => LineLen(th) = Len(ring[th])
    <3>1. client'[x].pc = "push" => overCount[th] = 0 \/ ~(\A t \in Thread : Same(t))
                                      \/ (\E t \in Thread : ring'[t] # ring[t])
      BY <1>2, ClientLine DEF Safe
    <3> QED
      BY <1>4, <3>1, CountIsLine DEF Safe
  <2>2. \A y \in Client : client'[y].pc = "push" =>
           /\ client'[y].thread \in Thread
           /\ \/ client[y].pc = "push" /\ client'[y].thread = client[y].thread /\ client'[y].call = client[y].call
              \/ LineLen(client'[y].thread) = Len(ring[client'[y].thread])
    <3>1. \A y \in Client : client[y].thread \in Thread
      BY DEF Safe, TypeOK
    <3> QED
      BY <1>1, <1>2, <2>1, <3>1
  <2>3. \A y \in Producer : client'[y].pc = "add" => client[y].pc = "add" /\ client'[y].call = client[y].call
    BY <1>1, <1>3 DEF Client
  <2> QED
    BY <1>1, <1>4, <2>2, <2>3, LinedSame
<1>5. CASE ~(\A t \in Thread : Same(t) /\ ring'[t] = ring[t])
  <2>1. /\ client'[x].pc = "idle"
        /\ IF client[x].pc = "add" THEN \E t \in Thread : Arrives(t, c)
           ELSE Arrives(th, c) /\ client[x].pc \in {"push", "over"}
    BY <1>2, <1>5, ClientLine DEF Safe
  <2>2. Fresh(c)
    <3>1. CASE x \in Producer
      BY <1>1, <1>2, <3>1 DEF Fresh, Safe, Placed, Apart
    <3>2. CASE x \in Caller
      BY <1>1, <1>2, <3>2 DEF Fresh, Safe, Held, HandsOfClients
    <3> QED
      BY <3>1, <3>2 DEF Client
  <2>3. \A y \in Client : client'[y].pc \in {"push", "add"} => client'[y] = client[y]
    BY <1>1, <2>1
  <2>4. CASE client[x].pc = "add"
    <3>1. x \in Producer
      BY <1>1, <2>4 DEF Safe, Held, HandsOfClients, Client
    <3>2. c \in added /\ c # Drained
      BY <1>1, <1>2, <2>4, <3>1, ProducerHand DEF Lined, Ordered, Safe
    <3>3. \A d : ~Late(c, d)
      BY <3>2 DEF Late
    <3> QED
      BY <1>1, <2>1, <2>2, <2>3, <2>4, <3>3, LinedArrives
  <2>5. CASE client[x].pc = "push"
    <3>1. \A j \in 1..LineLen(th) : j > Len(ring[th]) => ~Late(c, LineAt(th, j))
      BY <1>2, <2>5 DEF Lined, Ordered
    <3> QED
      BY <1>1, <2>1, <2>2, <2>3, <2>5, <3>1, LinedArrives
  <2>6. CASE client[x].pc = "over"
    <3>1. UNCHANGED ring
      BY <2>6 DEF ClientStep, AddTry, RunLoad, RunPush, RunStatus, RunCount, RunOver
    <3>2. ~(Len(ring'[th]) = Len(ring[th]) + 1)
      <4>1. Len(ring[th]) \in Nat
        BY LineIs DEF Safe
      <4> QED
        BY <3>1, <4>1
    <3> QED
      BY <1>1, <2>1, <2>2, <2>3, <2>6, <3>2, LinedArrives
  <2> QED
    BY <2>1, <2>4, <2>5, <2>6
<1> QED
  BY <1>4, <1>5

LEMMA RunLined ==
  ASSUME Safe, TypeOK', Held', Lined, NEW x \in Producer, Run(x)
  PROVE  Lined'
<1>1. UNCHANGED <<state, before, ring, overRing, worker, ran, caller>>
  BY RunFrame
<1>2. PICK c : c = <<x, made[x] + 1>>
  OBVIOUS
<1>3. PICK pc \in {"load", "add"}, t \in Thread :
        /\ client' = [client EXCEPT ![x] = [pc |-> pc, thread |-> t, call |-> c]]
        /\ added' = IF pc = "add" THEN added \cup {c} ELSE added
  BY <1>2, RunIs DEF Safe
<1>4. /\ client'[x].pc = pc /\ client'[x].call = c /\ \A y \in Client : y # x => client'[y] = client[y]
      /\ \A y \in Client : client[y].thread \in Thread
  <2>1. x \in Client /\ client \in [Client -> ClientType]
    BY DEF Safe, TypeOK, ClientType, Client
  <2> QED
    BY <1>3, <2>1 DEF ClientType
<1>5. \A u \in Thread : Same(u) /\ ring'[u] = ring[u]
  BY <1>1, AllSame
<1>6. Awaited' = Awaited
  <2>1. \A y \in Caller : client'[y] = client[y]
    BY <1>4, ClientAssumption DEF Client
  <2> QED
    BY <1>1, <1>5, <2>1, DrainingOther, RunFrame DEF Safe
<1>7. \A y \in Producer : client'[y].pc = "add" => client'[y].call \in added' \/ (client[y].pc = "add" /\ client'[y].call = client[y].call)
  BY <1>3, <1>4 DEF Client
<1>8. \A y \in Client : client'[y].pc = "push" => client[y].pc = "push" /\ client'[y] = client[y]
  BY <1>4
<1>9. added \subseteq added'
  BY <1>3
<1> QED
  BY <1>1, <1>4, <1>5, <1>6, <1>7, <1>8, <1>9, LinedSame

LEMMA DeferredLined ==
  ASSUME Safe, TypeOK', Held', Lined, NEW x \in Timer, RunTimed(x) \/ Del(x)
  PROVE  Lined'
<1>1. UNCHANGED <<state, drained, caller, before, ran, added, client>>
  BY DeferredFrame
<1>2. \A y \in Client : client[y].thread \in Thread
  BY DEF Safe, TypeOK
<1>3. PICK c : c = <<x, made[x] + 1>>
  OBVIOUS
<1>4. c # Drained /\ c[1] = x /\ c \notin Sent
  <2>1. made[x] \in Nat
    BY DEF Safe, TypeOK
  <2> QED
    BY <1>3, <2>1, NotDrained DEF Safe, Placed, Numbered
<1>5. CASE \A t \in Thread : Same(t) /\ ring'[t] = ring[t]
  <2>1. Awaited' = Awaited
    BY <1>1, <1>5, DrainingOther DEF Safe
  <2> QED
    BY <1>1, <1>2, <1>5, <2>1, LinedSame
<1>6. ASSUME NEW t \in Thread, Arrives(t, c)
      PROVE  Lined'
  <2>1. Awaited' = Awaited
    BY <1>1, <1>4, <1>6, DrainingOther DEF Safe
  <2>2. Fresh(c)
    BY <1>4 DEF Fresh
  <2>3. \A d : ~Late(c, d)
    BY <1>4, ClientAssumption DEF Late
  <2> QED
    BY <1>1, <1>6, <2>1, <2>2, <2>3, LinedArrives
<1> QED
  BY <1>3, <1>5, <1>6, DeferredLine DEF Safe

LEMMA TimerLined ==
  ASSUME Safe, TypeOK', Held', Lined, TimerThread
  PROVE  Lined'
<1>1. UNCHANGED <<state, drained, caller, before, ran, added, client>>
  BY TimerFrame
<1>2. \A y \in Client : client[y].thread \in Thread
  BY DEF Safe, TypeOK
<1>3. CASE \A t \in Thread : Same(t) /\ ring'[t] = ring[t]
  <2>1. Awaited' = Awaited
    BY <1>1, <1>3, DrainingOther DEF Safe
  <2> QED
    BY <1>1, <1>2, <1>3, <2>1, LinedSame
<1>4. ASSUME NEW t \in Thread, Arrives(t, timer.entry.call), timer.entry \in Entries, timer.entry.call \in DeferredCall
      PROVE  Lined'
  <2>1. PICK c : c = timer.entry.call
    OBVIOUS
  <2>2. c # Drained /\ c[1] \in Timer /\ c \notin Sent
    BY <1>4, <2>1, NotDrained, DeferredIs DEF Safe, Placed, Apart
  <2>3. Awaited' = Awaited
    BY <1>1, <1>4, <2>1, <2>2, DrainingOther DEF Safe
  <2>4. Fresh(c)
    BY <2>2 DEF Fresh
  <2>5. \A d : ~Late(c, d)
    BY <2>2, ClientAssumption DEF Late
  <2> QED
    BY <1>1, <1>4, <2>1, <2>3, <2>4, <2>5, LinedArrives
<1> QED
  BY <1>3, <1>4, TimerLine DEF Safe

LEMMA WorkLined ==
  ASSUME Safe, TypeOK', Held', Draining', Lined, NEW t \in Thread, Work(t)
  PROVE  Lined'
<1>1. UNCHANGED <<caller, client, before, added, refused>> /\ \A y \in Client : client[y].thread \in Thread
  BY WorkFrame DEF Safe, TypeOK
<1>2. CASE ~WorkShift(t)
  <2>1. \A u \in Thread : Same(u)
    <3>1. ~(worker[t].pc = "shift" /\ ring[t] # <<>>)
      BY <1>2 DEF Work, WorkLoad, WorkOver, WorkMove, WorkCount, WorkEmpty, WorkFinal, WorkExit
    <3> QED
      BY <3>1, WorkLine DEF Safe
  <2>2. UNCHANGED <<state, drained, ran>>
    BY <1>2 DEF Work, WorkLoad, WorkOver, WorkMove, WorkCount, WorkEmpty, WorkFinal, WorkExit, lifeVars
  <2>3. Awaited' = Awaited
    BY <1>1, <2>1, <2>2, DrainingOther DEF Safe
  <2>4. \A u \in Thread : u # t => ring'[u] = ring[u]
    BY DEF Safe, TypeOK, Work, WorkLoad, WorkOver, WorkMove, WorkCount, WorkShift, WorkEmpty, WorkFinal, WorkExit, Push,
       queueVars
  <2>5. \A j \in Nat : j > Len(ring'[t]) => j > Len(ring[t])
    <3>1. PICK r \in Nat, n \in Nat : r = Len(ring[t]) /\ n = LineLen(t)
      BY LineIs DEF Safe
    <3>2. Len(ring'[t]) >= r
      <4>1. ~Leaves(t)
        <5>1. n # n - 1
          OBVIOUS
        <5> QED
          BY <2>1, <3>1, <5>1 DEF Leaves, Same
      <4> QED
        BY <3>1, <4>1, WorkLine DEF Safe
    <3>3. Len(ring'[t]) \in Nat
      BY DEF TypeOK
    <3> QED
      BY <3>1, <3>2, <3>3
  <2> QED
    BY <1>1, <2>1, <2>2, <2>3, <2>4, <2>5, LinedSame
<1>3. CASE WorkShift(t)
  <2>1. PICK c : c = LineAt(t, 1)
    OBVIOUS
  <2>2. /\ Leaves(t) /\ (\A u \in Thread : u # t => Same(u)) /\ Execute(c) /\ LineLen(t) \in Nat /\ LineLen(t) > 0
    BY <1>3, <2>1, ShiftIs DEF Safe
  <2>3. ran' = ran \cup ({c} \ {Drained})
    BY <2>2 DEF Execute
  <2>4. /\ c \in Queued /\ Queued' \subseteq Queued /\ Queued \subseteq Queued' \cup {c}
        /\ c # Drained => c \notin Queued'
    BY <2>1, <2>2, LeavesQueued DEF Safe, Placed, Apart
  <2>5. PICK n \in Nat : n = LineLen(t)
    BY <2>2
  <2>6. /\ n > 0 /\ LineLen(t)' = n - 1
        /\ \A i \in 1..(n - 1) : LineAt(t, i)' = LineAt(t, i + 1) /\ i + 1 \in 1..n /\ 1 < i + 1
    BY <2>2, <2>5 DEF Leaves
  \* What follows the first of the line may follow it.
  <2>7. \A i \in 1..(n - 1) : ~Late(c, LineAt(t, i)')
    <3>1. 1 \in 1..n
      BY <2>6
    <3>2. \A i, j \in 1..n : i < j => ~Late(LineAt(t, i), LineAt(t, j))
      BY <2>5 DEF Lined, Ordered
    <3> QED
      BY <2>1, <2>6, <3>1, <3>2
  <2>8. Ordered'
    <3>1. Len(ring'[t]) = Len(ring[t]) - 1 /\ \A u \in Thread : u # t => ring'[u] = ring[u]
      <4>1. ring[t] \in Seq(Call) /\ ring[t] # <<>> /\ ring' = [ring EXCEPT ![t] = Tail(@)]
        BY <1>3, LineIs DEF Safe, WorkShift
      <4>2. Len(Tail(ring[t])) = Len(ring[t]) - 1
        BY <4>1, HeadTailProperties
      <4> QED
        BY <4>1, <4>2 DEF Safe, TypeOK
    <3> QED
      BY <1>1, <2>2, <3>1, OrderedLeaves DEF Lined
  <2>9. After'
    <3>1. ASSUME NThreads = 1, NEW x \in Producer, NEW i \in Nat, NEW j \in Nat,
                 <<x, i>> \in Queued' \ added, <<x, j>> \in ran' \ added
          PROVE  j < i
      <4>1. CASE <<x, j>> \in ran
        BY <2>4, <3>1, <4>1 DEF Lined, After
      <4>2. CASE <<x, j>> = c /\ c # Drained
        <5>1. PICK u \in Thread : \E a \in 1..LineLen(u)' : LineAt(u, a)' = <<x, i>>
          BY <3>1, QueuedIsNext
        <5>2. u = t
          BY <3>1 DEF Thread
        <5>3. PICK a \in 1..(n - 1) : LineAt(t, a)' = <<x, i>>
          BY <2>6, <5>1, <5>2
        <5>4. ~Late(c, <<x, i>>)
          BY <2>7, <5>3
        <5>5. ~(i < j)
          BY <1>1, <3>1, <4>2, <5>4 DEF Late
        <5>6. i # j
          BY <2>4, <3>1, <4>2
        <5> QED
          BY <5>5, <5>6
      <4> QED
        BY <2>3, <3>1, <4>1, <4>2
    <3> QED
      BY <1>1, <3>1 DEF After
  <2>10. (before \subseteq Queued \cup ran /\ Drained \notin before)'
    BY <1>1, <2>3, <2>4 DEF Safe, Before
  <2>11. \A u \in Thread : Old(u)
    BY <2>2, LinesOld DEF Safe
  <2>12. \A x \in Caller, u \in Thread : Owes(x, u)' <=> Owes(x, u)
    BY <1>1 DEF Owes, InHand
  <2>13. \A u \in Thread : u # t => (Marked(u)' <=> Marked(u))
    BY <2>2, SameMarked
  <2>14. IF c = Drained THEN Marked(t) ELSE Marked(t)' <=> Marked(t)
    BY <2>1, <2>2, LeavesMarked DEF Safe, Draining
  <2>15. state = "Draining" => \A u \in Thread \ Awaited' : \A j \in 1..LineLen(u)' : LineAt(u, j)' \notin before
    <3>1. ASSUME state = "Draining", NEW u \in Thread \ Awaited', NEW j \in 1..LineLen(u)', LineAt(u, j)' \in before
          PROVE  FALSE
      <4>1. PICK i \in 1..LineLen(u) : LineAt(u, i) = LineAt(u, j)'
        BY <2>11, <3>1 DEF Old
      <4>2. u \in Awaited
        BY <3>1, <4>1 DEF Safe, Before
      <4>3. u = t /\ c = Drained
        BY <2>12, <2>13, <2>14, <4>2 DEF Awaited, Owed
      <4>4. j \in 1..(n - 1) /\ ~Late(Drained, LineAt(t, j)')
        BY <2>6, <2>7, <4>3
      <4> QED
        BY <3>1, <4>3, <4>4 DEF Late
    <3> QED
      BY <3>1
  <2>16. state' = state \/ (state = "Draining" /\ state' = "Drained")
    BY <2>2 DEF Execute
  <2>17. (state = "Drained" => before \subseteq ran)'
    <3>1. CASE state = "Drained"
      BY <1>1, <2>3, <3>1 DEF Safe, Before
    <3>2. CASE state = "Draining" /\ state' = "Drained"
      <4>1. Awaited' = {}
        BY <3>2 DEF Draining
      <4>2. \A u \in Thread : \A j \in 1..LineLen(u)' : LineAt(u, j)' \notin before
        BY <2>15, <3>2, <4>1
      <4>3. \A d \in Queued' : d \notin before
        BY <4>2, QueuedIsNext
      <4> QED
        BY <1>1, <2>10, <4>3
    <3> QED
      BY <2>16, <3>1, <3>2
  <2>18. Before'
    BY <1>1, <2>10, <2>15, <2>16, <2>17 DEF Before
  <2> QED
    BY <2>8, <2>9, <2>18 DEF Lined
<1> QED
  BY <1>2, <1>3

\* The steps of start(), drain() and stop() and the calls queued when drain() began.
LEMMA LifeBefore ==
  ASSUME NEW x \in Caller, LifeCall(x) \/ LifeStep(x)
  PROVE  \/ (before' = before \/ before' = {}) /\ (state' = "Draining" => state = "Draining")
         \/ before' = Queued /\ state = "Running" /\ state' = "Draining"
  BY DEF LifeCall, LifeStep, LifeResume, StartThreads, StartRunning, DrainThread, DrainWait, StopEof,
         StopJoin, StopTimer, LifeUnchanged, Proceed, Start, Drain, Stop

LEMMA LifeLined ==
  ASSUME Safe, TypeOK', Held', Lined, NEW x \in Caller, LifeCall(x) \/ LifeStep(x)
  PROVE  Lined'
<1>1. UNCHANGED <<ran, added>> /\ \A t \in Thread : Same(t) /\ ring'[t] = ring[t]
  BY LifeFrame, LifeLine DEF Safe
<1>2. /\ \A y \in Client : client'[y].pc \in {"push", "add"} => client'[y] = client[y]
      /\ \A y \in Client : client[y].thread \in Thread
  <2>1. client \in [Client -> ClientType] /\ x \in Client
    BY DEF Safe, TypeOK, ClientType, Client
  <2>2. CASE UNCHANGED client
    BY <2>1, <2>2 DEF ClientType
  <2>3. CASE caller[x].thread \in Thread /\ client' = [client EXCEPT ![x] = [pc |-> "load", thread |-> caller[x].thread, call |-> Drained]]
    <3>1. PICK th \in Thread : th = caller[x].thread
      BY <2>3
    <3>2. client'[x].pc = "load" /\ \A y \in Client : y # x => client'[y] = client[y]
      BY <2>1, <2>3, <3>1
    <3> QED
      BY <2>1, <3>2 DEF ClientType
  <2> QED
    BY <2>2, <2>3, LifeClient DEF Safe
<1>3. \A y \in Producer : client'[y].pc = "add" => client[y].pc = "add" /\ client'[y].call = client[y].call
  BY <1>2 DEF Client
<1>4. \A y \in Client : client'[y].pc = "push" =>
        client[y].pc = "push" /\ client'[y].thread = client[y].thread /\ client'[y].call = client[y].call
        /\ client'[y].thread \in Thread
  BY <1>2
<1>5. state' = "Drained" => state = "Drained"
  BY LifeCases DEF Safe
<1>6. Awaited \subseteq Awaited' /\ (state # "Draining" /\ state' = "Draining" => Awaited' = Thread)
  BY LifeDrains DEF Safe
<1>7. CASE (before' = before \/ before' = {}) /\ (state' = "Draining" => state = "Draining")
  BY <1>1, <1>3, <1>4, <1>5, <1>6, <1>7, LinedSame
<1>8. CASE before' = Queued /\ state = "Running" /\ state' = "Draining"
  <2>1. Awaited = {}
    BY <1>8 DEF Safe, Draining
  <2>2. (\A t \in Thread : ~Marked(t)) /\ \A y \in Caller : ~InHand(y)
    <3>1. \A y \in Caller : InHand(y) => client[y].thread \in Awaited
      <4>1. \A y \in Caller : client[y].thread \in Thread
        BY <1>2 DEF Client
      <4> QED
        BY <4>1 DEF Awaited, Owed, Owes
    <3> QED
      BY <2>1, <3>1 DEF Awaited
  <2>3. Ordered'
    BY <1>1, <1>3, <1>4, <2>2, OrderedSame DEF Safe, Lined
  <2>4. Queued' = Queued
    BY <1>1, SameQueued DEF Safe
  <2>5. Drained \notin Queued
    BY <2>2, QueuedIs DEF Safe, Marked
  <2>6. Before'
    BY <1>6, <1>8, <2>4, <2>5 DEF Before
  <2>7. After'
    BY <1>1, <2>4, AfterSame DEF Lined
  <2> QED
    BY <2>3, <2>6, <2>7 DEF Lined
<1> QED
  BY <1>7, <1>8, LifeBefore

LEMMA LinedHolds ==
  ASSUME Safe, TypeOK', Held', Draining', Lined, [Next]_vars
  PROVE  Lined'
<1>1. ASSUME UNCHANGED <<ring, overRing, worker, client, caller, state, drained, before, ran, added>>
      PROVE  Lined'
  <2>1. \A t \in Thread : Same(t) /\ ring'[t] = ring[t]
    BY <1>1, AllSame
  <2>2. Awaited' = Awaited
    BY <1>1, <2>1, DrainingOther DEF Safe
  <2>3. \A y \in Client : client[y].thread \in Thread
    BY DEF Safe, TypeOK
  <2> QED
    BY <1>1, <2>1, <2>2, <2>3, LinedSame
<1> QED
  BY <1>1, ClientLined, RunLined, LifeLined, WorkLined, DeferredLined, TimerLined, TickFrame
     DEF Next, vars, lifeVars, queueVars, timerVars

-----------------------------------------------------------------------------
(* The theorems *)

CallsInv == Safe /\ Lined

LEMMA CallsInvInductive ==
  /\ Init => CallsInv
  /\ CallsInv /\ [Next]_vars => CallsInv'
<1>1. ASSUME Init
      PROVE  CallsInv
  <2>1. TypeOK /\ Held /\ Placed /\ Draining
    BY <1>1, InitType, InitPlaced
  <2>2. Ordered /\ Before /\ After
    BY <1>1, InitLines DEF Init, Ordered, Before, After, Client
  <2> QED
    BY <2>1, <2>2 DEF CallsInv, Safe, Lined
<1>2. ASSUME CallsInv, [Next]_vars
      PROVE  CallsInv'
  <2>1. TypeOK' /\ Held'
    BY <1>2, TypeStep, HeldStep DEF CallsInv, Safe
  <2>2. Draining' /\ Placed'
    BY <1>2, <2>1, DrainingHolds, PlacedHolds DEF CallsInv, Safe
  <2>3. Lined'
    BY <1>2, <2>1, <2>2, LinedHolds DEF CallsInv
  <2> QED
    BY <2>1, <2>2, <2>3 DEF CallsInv, Safe, Lined
<1> QED
  BY <1>1, <1>2

LEMMA AtMostOne ==
  ASSUME NEW S, \A a, b \in S : a = b
  PROVE  IF S = {} THEN Cardinality(S) = 0 ELSE Cardinality(S) = 1
<1>1. CASE S = {}
  BY <1>1, FS_EmptySet
<1>2. CASE S # {}
  <2>1. PICK a : a \in S
    BY <1>2
  <2>2. S = {a}
    BY <2>1
  <2> QED
    BY <1>2, <2>2, FS_Singleton
<1> QED
  BY <1>1, <1>2

\* A call other than Drained has one place in a line.
LEMMA OnePlace ==
  ASSUME Safe, NEW t \in Thread, NEW c \in Call, c # Drained
  PROVE  Places(t, c) <= 1
<1> DEFINE R == {i \in DOMAIN ring[t] : ring[t][i] = c}
           O == {i \in DOMAIN overRing[t] : overRing[t][i] = c}
<1>1. PICK n \in Nat, m \in Nat, o \in Nat, l \in Nat :
        n = Len(ring[t]) /\ m = Len(overRing[t]) /\ o = Over(t) /\ l = LineLen(t)
  BY LineIs DEF Safe
<1>2. /\ DOMAIN ring[t] = 1..n /\ DOMAIN overRing[t] = 1..m /\ l = o + m
      /\ IF Moving(t) THEN o = n + 1 ELSE o = n
      /\ Moving(t) <=> worker[t].call # None
  BY <1>1, LineIs DEF Safe
<1>3. \A i, j \in 1..l : LineAt(t, i) = c /\ LineAt(t, j) = c => i = j
  BY <1>1 DEF Safe, Placed, Apart, Alone
<1>4. \A i \in 1..n : i \in 1..l /\ LineAt(t, i) = ring[t][i]
  BY <1>1, <1>2 DEF LineAt
<1>5. \A i \in 1..m : i + o \in 1..l /\ i + o > n /\ LineAt(t, i + o) = overRing[t][i]
  <2>1. ASSUME NEW i \in 1..m
        PROVE  i + o \in 1..l /\ ~(i + o <= n) /\ ~(i + o <= o) /\ (i + o) - o = i /\ i + o > n
    <3>1. l = o + m /\ o >= n
      <4>1. CASE Moving(t)
        BY <1>2, <4>1
      <4>2. CASE ~Moving(t)
        BY <1>2, <4>2
      <4> QED
        BY <4>1, <4>2
    <3> QED
      BY <3>1
  <2> QED
    BY <1>1, <2>1 DEF LineAt
<1>6. Moving(t) => o \in 1..l /\ o > n /\ LineAt(t, o) = worker[t].call
  <2>1. Moving(t) => o \in 1..l /\ o > n /\ ~(o <= n) /\ o <= o
    BY <1>2
  <2> QED
    BY <1>1, <2>1 DEF LineAt
<1>7. \A i \in R : i \in 1..n /\ LineAt(t, i) = c
  BY <1>2, <1>4
<1>8. \A i \in O : i \in 1..m /\ LineAt(t, i + o) = c
  BY <1>2, <1>5
<1>9. worker[t].call = c => Moving(t) /\ LineAt(t, o) = c
  BY <1>2, <1>6, NoneIsNoCall
<1>10. Places(t, c) = Cardinality(R) + Cardinality(O) + (IF worker[t].call = c THEN 1 ELSE 0)
  BY DEF Places
<1> HIDE DEF R, O
<1>11. \A a, b \in R : a = b
  BY <1>3, <1>4, <1>7
<1>12. ASSUME NEW a \in O, NEW b \in O
       PROVE  a = b
  <2>1. a + o = b + o
    BY <1>3, <1>5, <1>8
  <2> QED
    BY <1>8, <2>1
<1>13. IF R = {} THEN Cardinality(R) = 0 ELSE Cardinality(R) = 1
  BY <1>11, AtMostOne
<1>14. IF O = {} THEN Cardinality(O) = 0 ELSE Cardinality(O) = 1
  BY <1>12, AtMostOne
<1>15. R # {} => O = {} /\ worker[t].call # c
  <2>1. ASSUME NEW a \in R, NEW b \in O
        PROVE  FALSE
    <3>1. a = b + o
      BY <1>3, <1>4, <1>5, <1>7, <1>8
    <3> QED
      BY <1>5, <1>7, <1>8, <3>1
  <2>2. ASSUME NEW a \in R, worker[t].call = c
        PROVE  FALSE
    <3>1. a = o
      BY <1>3, <1>4, <1>6, <1>7, <1>9, <2>2
    <3> QED
      BY <1>6, <1>7, <1>9, <2>2, <3>1
  <2> QED
    BY <2>1, <2>2
<1>16. O # {} => worker[t].call # c
  <2>1. ASSUME NEW a \in O, worker[t].call = c
        PROVE  FALSE
    <3>1. a + o = o
      BY <1>3, <1>5, <1>6, <1>8, <1>9, <2>1
    <3> QED
      BY <1>8, <3>1
  <2> QED
    BY <2>1
<1> QED
  BY <1>10, <1>13, <1>14, <1>15, <1>16

\* No call is lost, queued twice or executed twice, wherever the producers, the threads that move
\* calls from the overflow ring, the timer thread and stop() are; drain() waits for all it found.
THEOREM SchedulerLosesNothing == Spec => []NothingLost
<1>1. CallsInv => NothingLost
  <2> SUFFICES ASSUME CallsInv
               PROVE  NothingLost
    OBVIOUS
  <2>1. \A x \in Producer : Finished(x) \subseteq Queued \cup ran \cup refused
    BY DEF CallsInv, Safe, Placed, Kept, Sent, Taken
  <2>2. Queued \cap (ran \cup refused) = {}
    BY DEF CallsInv, Safe, Placed, Apart, Taken
  <2>3. \A t \in Thread : \A c \in Queued \ {Drained} : Places(t, c) <= 1
    <3>1. \A c \in Queued : c \in Call
      BY QueuedIs, LineIs DEF CallsInv, Safe
    <3> QED
      BY <3>1, OnePlace DEF CallsInv
  <2>4. state = "Drained" => before \subseteq ran
    BY DEF CallsInv, Safe, Before
  <2> QED
    BY <2>1, <2>2, <2>3, <2>4 DEF NothingLost
<1> QED
  BY <1>1, CallsInvInductive, PTL DEF Spec

\* del(), and a new call on a timer, keep the call they cancel from being executed, unless the
\* timer thread has put a call of that timer back.
THEOREM SchedulerCancels == Spec => []CancelledNeverRuns
<1>1. CallsInv => CancelledNeverRuns
  BY DEF CallsInv, Safe, Placed, Cancelled, Sent, Taken, CancelledNeverRuns
<1> QED
  BY <1>1, CallsInvInductive, PTL DEF Spec

\* With one thread a producer's calls of run() are executed in the order it made them, although
\* some go through the ring and some through the overflow ring.
THEOREM OneThreadRunsInOrder == Spec => RunsInOrder
<1> DEFINE InOrder == NThreads = 1 =>
       \A x \in Producer : \A i, j \in 1..made[x] :
         /\ {<<x, i>>, <<x, j>>} \cap added = {}
         /\ <<x, i>> \in ran' \ ran /\ <<x, j>> \in ran
         => j < i
<1>1. ASSUME CallsInv, [Next]_vars
      PROVE  InOrder
  <2>1. \A c \in ran' \ ran : c \in Queued
    <3>1. ASSUME NEW t \in Thread, WorkShift(t)
          PROVE  \A c \in ran' \ ran : c \in Queued
      <4>1. LineAt(t, 1) \in Queued /\ ran' = ran \cup ({LineAt(t, 1)} \ {Drained})
        <5>1. LineLen(t) \in Nat /\ LineLen(t) > 0 /\ Execute(LineAt(t, 1))
          BY <1>1, <3>1, ShiftIs DEF CallsInv, Safe
        <5>2. 1 \in 1..LineLen(t)
          BY <5>1
        <5> QED
          BY <1>1, <5>1, <5>2, QueuedIs DEF CallsInv, Safe, Execute
      <4> QED
        BY <4>1
    <3>2. ASSUME NEW t \in Thread, Work(t), ~WorkShift(t)
          PROVE  UNCHANGED ran
      BY <3>2 DEF Work, WorkLoad, WorkOver, WorkMove, WorkCount, WorkEmpty, WorkFinal, WorkExit
    <3>3. CASE UNCHANGED ran
      BY <3>3
    <3> QED
      BY <1>1, <3>1, <3>2, <3>3, ClientFrame, RunFrame, LifeFrame, DeferredFrame, TimerFrame, TickFrame DEF Next, vars
  <2>2. ASSUME NThreads = 1, NEW x \in Producer, NEW i \in 1..made[x], NEW j \in 1..made[x],
               {<<x, i>>, <<x, j>>} \cap added = {}, <<x, i>> \in ran' \ ran, <<x, j>> \in ran
        PROVE  j < i
    <3>1. <<x, i>> \in Queued \ added /\ <<x, j>> \in ran \ added /\ i \in Nat /\ j \in Nat
      BY <2>1, <2>2
    <3> QED
      BY <1>1, <2>2, <3>1 DEF CallsInv, Lined, After
  <2> QED
    BY <2>2
<1>2. CallsInv /\ [Next]_vars => [InOrder]_vars
  BY <1>1
<1> HIDE DEF InOrder
<1>3. Spec => [][InOrder]_vars
  BY <1>2, CallsInvInductive, PTL DEF Spec
<1> QED
  BY <1>3 DEF RunsInOrder, InOrder

=============================================================================
