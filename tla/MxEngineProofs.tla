--------------------------- MODULE MxEngineProofs ---------------------------
(***************************************************************************)
(* Theorems about MxEngine, for any finite set of links and threads and    *)
(* any bounds: the type invariant, the conservation of the engine's link   *)
(* counters, what that conservation says of the engine's state, that a     *)
(* link and its connection agree once all is quiet, and that a reconnect   *)
(* that is scheduled stays scheduled.                                      *)
(***************************************************************************)
EXTENDS MxEngine, TLAPS, FiniteSetTheorems, SequenceTheorems

-----------------------------------------------------------------------------
(* Lemmas about the data *)

\* A change linkState() returns early from stays within the states of one counter.
LEMMA UnreportedSameClass ==
  ASSUME NEW p \in LinkState, NEW n \in LinkState, ~Reported(p, n), NEW c \in Class
  PROVE  p \in StatesIn(c) <=> n \in StatesIn(c)
  BY DEF Reported, StatesIn, Class, LinkState, Transient, Reconn

\* The state machines of the links stay within the link states.
LEMMA NextStates ==
  ASSUME NEW s \in LinkState, NEW en \in BOOLEAN, NEW running \in BOOLEAN
  PROVE  /\ UpNext(s, en, running) \in LinkState
         /\ DownNext(s, en) \in LinkState
         /\ DisconnectedNext(s, en) \in LinkState
  BY Zenon DEF UpNext, DownNext, DisconnectedNext, LinkState, Transient, Reconn

\* start_() and stop_() queue a sequence of tasks.
LEMMA ForAllLinksType ==
  ASSUME NEW fn \in Fn
  PROVE  ForAllLinks(fn) \in Seq(Task)
<1>1. Len(LinkSeq) \in Nat
  BY LinkAssumption, LenProperties
<1>2. \A i \in 1..Len(LinkSeq) : LinkSeq[i] \in Link
  BY LinkAssumption, ElementOfSeq
<1>3. ForAllLinks(fn) \in [1..Len(LinkSeq) -> Task]
  BY <1>2 DEF ForAllLinks, Task
<1> QED
  BY <1>1, <1>3, SeqDef

\* Adding an element to a finite set, or removing one, as the counters see it.
LEMMA AddOne ==
  ASSUME NEW S, IsFiniteSet(S), NEW x
  PROVE  Cardinality(S \cup {x}) = Cardinality(S) + (IF x \in S THEN 0 ELSE 1)
<1>1. Cardinality(S) \in Nat
  BY FS_CardinalityType
<1>2. Cardinality(S \cup {x}) = IF x \in S THEN Cardinality(S) ELSE Cardinality(S) + 1
  BY FS_AddElement
<1> QED
  BY <1>1, <1>2

LEMMA RemoveOne ==
  ASSUME NEW S, IsFiniteSet(S), NEW x
  PROVE  Cardinality(S \ {x}) = Cardinality(S) - (IF x \in S THEN 1 ELSE 0)
<1>1. Cardinality(S) \in Nat
  BY FS_CardinalityType
<1>2. Cardinality(S \ {x}) = IF x \in S THEN Cardinality(S) - 1 ELSE Cardinality(S)
  BY FS_RemoveElement
<1> QED
  BY <1>1, <1>2

LEMMA FiniteThreads == IsFiniteSet(Thread)
<1>1. IsFiniteSet(Caller \cup {Rx})
  BY ThreadAssumption, FS_AddElement
<1> QED
  BY <1>1 DEF Thread

-----------------------------------------------------------------------------
(* The type invariant *)

\* The two ways an operation leaves the link's lock keep the thread well typed.
LEMMA ResumeType ==
  ASSUME TypeOK, NEW t \in Thread, NEW l \in Link, NEW then \in Then, Resume(t, then, l)
  PROVE  thread' \in [Thread -> ThreadState]
  BY DEF TypeOK, Resume, ThreadState, Idle, After

LEMMA MoveLinkType ==
  ASSUME TypeOK, NEW t \in Thread, NEW l \in Link, NEW next \in LinkState, NEW then \in Then,
         MoveLink(t, l, next, then)
  PROVE  /\ state' \in [Link -> LinkState]
         /\ thread' \in [Thread -> ThreadState]
<1>1. state' \in [Link -> LinkState]
  BY DEF TypeOK, MoveLink
<1>2. CASE Reported(state[l], next)
  <2>1. state[l] # next
    BY <1>2 DEF Reported
  <2>2. [pc |-> "notify", link |-> l, prev |-> state[l], next |-> next, then |-> then]
          \in Notify
    BY <2>1 DEF TypeOK, Notify
  <2> QED
    BY <1>1, <1>2, <2>2 DEF TypeOK, MoveLink, ThreadState
<1>3. CASE ~Reported(state[l], next)
  BY <1>1, <1>3, ResumeType DEF MoveLink
<1> QED
  BY <1>2, <1>3

LEMMA RunType ==
  ASSUME TypeOK, NEW fn \in Fn, NEW l \in Link, Run(fn, l)
  PROVE  rxQ' \in Seq(Task)
<1>1. [fn |-> fn, link |-> l] \in Task
  BY DEF Task
<1> QED
  BY <1>1, AppendProperties DEF TypeOK, Run

LEMMA DequeueType ==
  ASSUME TypeOK, NEW fn, NEW l, Dequeue(fn, l)
  PROVE  rxQ' \in Seq(Task)
  BY HeadTailProperties DEF TypeOK, Dequeue

LEMMA ConcatType ==
  ASSUME TypeOK, NEW fn \in Fn
  PROVE  rxQ \o ForAllLinks(fn) \in Seq(Task)
  BY ForAllLinksType, ConcatProperties DEF TypeOK

LEMMA CountType ==
  ASSUME TypeOK, NEW p \in LinkState, NEW n \in LinkState
  PROVE  Adjusted(p, n) \in [Class -> Int]
  BY DEF TypeOK, Adjusted

\* Each operation of a link keeps the link's variables and its thread well typed.
LEMMA LinkOperationType ==
  ASSUME TypeOK, NEW t \in Thread, NEW l \in Link,
         \/ \E disable \in BOOLEAN : DownLink(t, l, disable)
         \/ ConnectedLink(t, l)
         \/ DisconnectedLink(t, l)
         \/ \E immediate \in BOOLEAN : ReconnectLink(t, l, immediate)
         \/ ReconnectingLink(t, l)
  PROVE  /\ state' \in [Link -> LinkState]
         /\ enabled' \in [Link -> BOOLEAN]
         /\ timer' \in [Link -> BOOLEAN]
         /\ thread' \in [Thread -> ThreadState]
<1> state[l] \in LinkState /\ enabled[l] \in BOOLEAN
  BY DEF TypeOK
<1>1. ASSUME NEW disable \in BOOLEAN, DownLink(t, l, disable)
      PROVE  /\ state' \in [Link -> LinkState]
             /\ enabled' \in [Link -> BOOLEAN]
             /\ timer' \in [Link -> BOOLEAN]
             /\ thread' \in [Thread -> ThreadState]
  <2> DEFINE en == enabled[l] /\ ~disable
             then == IF state[l] \in Reconn \cup {"Up"} THEN "invokeDisconnect" ELSE "none"
  <2>1. en \in BOOLEAN /\ then \in Then
    BY DEF Then
  <2>2. DownNext(state[l], en) \in LinkState
    BY <2>1, NextStates
  <2>3. MoveLink(t, l, DownNext(state[l], en), then)
    BY <1>1 DEF DownLink
  <2> HIDE DEF en, then
  <2>4. state' \in [Link -> LinkState] /\ thread' \in [Thread -> ThreadState]
    BY <2>1, <2>2, <2>3, MoveLinkType
  <2> USE DEF en
  <2>5. enabled' \in [Link -> BOOLEAN] /\ timer' \in [Link -> BOOLEAN]
    BY <1>1, <2>1 DEF DownLink, CancelTimer, TypeOK
  <2> QED
    BY <2>4, <2>5
<1>2. CASE ConnectedLink(t, l)
  <2>1. "Up" \in LinkState /\ "Disconnecting" \in LinkState
        /\ "none" \in Then /\ "runDisconnect" \in Then
    BY DEF LinkState, Transient, Then
  <2>2. state' \in [Link -> LinkState] /\ thread' \in [Thread -> ThreadState]
    BY <1>2, <2>1, MoveLinkType DEF ConnectedLink, TypeOK
  <2> QED
    BY <1>2, <2>2 DEF ConnectedLink, CancelTimer, TypeOK
<1>3. CASE DisconnectedLink(t, l)
  <2> DEFINE then == IF state[l] = "ConnectPending" /\ enabled[l] THEN "runConnect" ELSE "none"
  <2>1. then \in Then
    BY DEF Then
  <2>2. DisconnectedNext(state[l], enabled[l]) \in LinkState
    BY NextStates
  <2>3. MoveLink(t, l, DisconnectedNext(state[l], enabled[l]), then)
    BY <1>3 DEF DisconnectedLink
  <2> HIDE DEF then
  <2>4. state' \in [Link -> LinkState] /\ thread' \in [Thread -> ThreadState]
    BY <2>1, <2>2, <2>3, MoveLinkType
  <2> QED
    BY <1>3, <2>4 DEF DisconnectedLink, CancelTimer, TypeOK
<1>4. ASSUME NEW immediate \in BOOLEAN, ReconnectLink(t, l, immediate)
      PROVE  /\ state' \in [Link -> LinkState]
             /\ enabled' \in [Link -> BOOLEAN]
             /\ timer' \in [Link -> BOOLEAN]
             /\ thread' \in [Thread -> ThreadState]
  <2> DEFINE then == IF immediate THEN "runReconnect" ELSE "setTimer"
  <2>1. then \in Then /\ "runDisconnect" \in Then
    BY DEF Then
  <2>2. "ReconnectPending" \in LinkState /\ "DisconnectPending" \in LinkState
    BY DEF LinkState, Transient, Reconn
  <2>3. \/ MoveLink(t, l, "ReconnectPending", then)
        \/ MoveLink(t, l, "DisconnectPending", "runDisconnect")
        \/ UNCHANGED <<state, thread>>
    BY <1>4 DEF ReconnectLink
  <2> HIDE DEF then
  <2>4. state' \in [Link -> LinkState] /\ thread' \in [Thread -> ThreadState]
    BY <2>1, <2>2, <2>3, MoveLinkType DEF TypeOK
  <2> QED
    BY <1>4, <2>4 DEF ReconnectLink, CancelTimer, TypeOK
<1>5. CASE ReconnectingLink(t, l)
  <2> DEFINE next == IF state[l] = "Up" THEN "Connecting" ELSE state[l]
  <2>1. next \in LinkState /\ "none" \in Then
    BY DEF LinkState, Transient, Then
  <2>2. MoveLink(t, l, next, "none")
    BY <1>5 DEF ReconnectingLink
  <2> HIDE DEF next
  <2>3. state' \in [Link -> LinkState] /\ thread' \in [Thread -> ThreadState]
    BY <2>1, <2>2, MoveLinkType
  <2> QED
    BY <1>5, <2>3 DEF ReconnectingLink, CancelTimer, TypeOK
<1> QED
  BY <1>1, <1>2, <1>3, <1>4, <1>5

LEMMA TypeInit == Init => TypeOK
<1> SUFFICES ASSUME Init PROVE TypeOK
  OBVIOUS
<1>1. Cardinality(Link) \in Nat
  BY LinkAssumption, FS_CardinalityType
<1>2. << >> \in Seq(Task)
  BY EmptySeq
<1> QED
  BY <1>1, <1>2, BoundAssumption
  DEF Init, TypeOK, EngineState, LinkState, Io, Thread, ThreadState, Idle, Class

LEMMA TypeNext == TypeOK /\ [Next]_vars => TypeOK'
<1> SUFFICES ASSUME TypeOK, [Next]_vars PROVE TypeOK'
  OBVIOUS
<1>fn. "up_" \in Fn /\ "down_" \in Fn /\ "connect" \in Fn /\ "disconnect" \in Fn
       /\ "reconnect_" \in Fn
  BY DEF Fn
<1>rx. Rx \in Thread
  BY DEF Thread
<1>1. CASE Start \/ Stop
  <2>1. rxQ' \in Seq(Task)
    BY <1>1, <1>fn, ConcatType DEF Start, Stop, TypeOK
  <2> QED
    BY <1>1, <2>1, BoundAssumption DEF Start, Stop, TypeOK, EngineState, linkVars
<1>2. ASSUME NEW t \in Thread, ReportLinkState(t) PROVE TypeOK'
  <2> DEFINE p == thread[t].prev
             n == thread[t].next
  <2>1. thread[t] \in Notify
    BY <1>2 DEF ReportLinkState, TypeOK, ThreadState, Idle, Sampled, After, Closing
  <2>2. p \in LinkState /\ n \in LinkState /\ thread[t].link \in Link /\ thread[t].then \in Then
    BY <2>1 DEF Notify
  <2> HIDE DEF p, n
  <2>3. count' \in [Class -> Int]
    BY <1>2, <2>2, CountType DEF ReportLinkState, p, n
  <2>4. thread' \in [Thread -> ThreadState]
    BY <1>2, <2>2, ResumeType DEF ReportLinkState
  <2>5. engine' \in EngineState /\ rxQ' \in Seq(Task)
    <3>1. EngineStep(p, count')
      BY <1>2 DEF ReportLinkState, p
    <3> QED
      BY <3>1, <1>fn, ConcatType DEF EngineStep, EngineState, TypeOK
  <2> QED
    BY <1>2, <2>3, <2>4, <2>5 DEF ReportLinkState, TypeOK, linkVars
<1>3. ASSUME NEW t \in Thread, UpLink(t) PROVE TypeOK'
  <2> DEFINE l == thread[t].link
             running == thread[t].running
             en == enabled[l] \/ thread[t].enable
             then == IF state[l] \in {"Disabled", "Down", "Failed"} /\ running
                     THEN "invokeConnect" ELSE "none"
  <2>1. thread[t] \in Sampled
    BY <1>3 DEF UpLink, TypeOK, ThreadState, Idle, Notify, After, Closing
  <2>2. l \in Link /\ running \in BOOLEAN /\ en \in BOOLEAN /\ then \in Then
    BY <2>1 DEF Sampled, TypeOK, Then
  <2>3. UpNext(state[l], en, running) \in LinkState
    BY <2>2, NextStates DEF TypeOK
  <2>4. MoveLink(t, l, UpNext(state[l], en, running), then)
        /\ enabled' = [enabled EXCEPT ![l] = en]
    BY <1>3 DEF UpLink
  <2> HIDE DEF l, running, en, then
  <2>5. state' \in [Link -> LinkState] /\ thread' \in [Thread -> ThreadState]
    BY <2>2, <2>3, <2>4, MoveLinkType
  <2>6. timer' \in [Link -> BOOLEAN]
    BY <1>3, <2>2 DEF UpLink, CancelTimer, TypeOK
  <2> QED
    BY <1>3, <2>2, <2>4, <2>5, <2>6 DEF UpLink, TypeOK
<1>4. ASSUME NEW t \in Thread, FinishOperation(t) PROVE TypeOK'
  <2> DEFINE l == thread[t].link
  <2>1. l \in Link
    BY <1>4 DEF FinishOperation, TypeOK, ThreadState, Idle, Sampled, Notify, After, Closing
  <2>2. [pc |-> "closed", link |-> l] \in Closing
    BY <2>1 DEF Closing
  <2>3. thread' \in [Thread -> ThreadState]
    BY <1>4, <2>2 DEF FinishOperation, TypeOK, ThreadState
  <2>4. io' \in [Link -> Io] /\ timer' \in [Link -> BOOLEAN]
    BY <1>4, <2>1 DEF FinishOperation, Connect, Disconnect, TypeOK, Io
  <2>5. \/ UNCHANGED rxQ
        \/ Run("connect", l) \/ Run("disconnect", l) \/ Run("reconnect_", l)
    BY <1>4 DEF FinishOperation
  <2> HIDE DEF l
  <2>6. rxQ' \in Seq(Task)
    BY <2>1, <2>5, <1>fn, RunType DEF TypeOK
  <2> QED
    BY <1>4, <2>3, <2>4, <2>6 DEF FinishOperation, TypeOK
<1>5. ASSUME NEW t \in Thread, Closed(t) PROVE TypeOK'
  <2>1. thread[t].link \in Link
    BY <1>5 DEF Closed, TypeOK, ThreadState, Idle, Sampled, Notify, After, Closing
  <2>2. DisconnectedLink(t, thread[t].link)
    BY <1>5 DEF Closed
  <2>3. /\ state' \in [Link -> LinkState] /\ enabled' \in [Link -> BOOLEAN]
        /\ timer' \in [Link -> BOOLEAN] /\ thread' \in [Thread -> ThreadState]
    BY <2>1, <2>2, LinkOperationType
  <2> QED
    BY <1>5, <2>3 DEF Closed, TypeOK
<1>6. ASSUME NEW l \in Link, RxStep(l) PROVE TypeOK'
  <2>1. rxQ' \in Seq(Task)
    BY <1>6, DequeueType DEF RxStep, RxUp, RxDown, RxReconnect, RxConnect, RxDisconnect
  <2>2. CASE RxUp(l)
    <3>1. thread' \in [Thread -> ThreadState]
      BY <2>2, <1>rx DEF RxUp, SampleEngine, TypeOK, ThreadState, Sampled
    <3> QED
      BY <2>1, <2>2, <3>1 DEF RxUp, linkVars, TypeOK
  <2>3. CASE RxDown(l)
    <3>1. /\ state' \in [Link -> LinkState] /\ enabled' \in [Link -> BOOLEAN]
          /\ timer' \in [Link -> BOOLEAN] /\ thread' \in [Thread -> ThreadState]
      BY <2>3, <1>rx, LinkOperationType DEF RxDown
    <3> QED
      BY <2>1, <2>3, <3>1 DEF RxDown, TypeOK
  <2>4. CASE RxReconnect(l)
    <3>1. "Reconnecting" \in LinkState /\ "runConnect" \in Then
      BY DEF LinkState, Reconn, Then
    <3>2. state' \in [Link -> LinkState] /\ thread' \in [Thread -> ThreadState]
      BY <2>4, <3>1, <1>rx, MoveLinkType DEF RxReconnect, TypeOK
    <3> QED
      BY <2>1, <2>4, <3>2 DEF RxReconnect, TypeOK
  <2>5. CASE RxConnect(l)
    BY <2>1, <2>5 DEF RxConnect, Connect, linkVars, TypeOK, Io
  <2>6. CASE RxDisconnect(l)
    <3>1. thread' \in [Thread -> ThreadState]
      BY <2>6, <1>rx DEF RxDisconnect, TypeOK, ThreadState, Closing
    <3> QED
      BY <2>1, <2>6, <3>1 DEF RxDisconnect, Disconnect, linkVars, TypeOK, Io
  <2> QED
    BY <1>6, <2>2, <2>3, <2>4, <2>5, <2>6 DEF RxStep
<1>7. ASSUME NEW l \in Link, FireTimer(l) PROVE TypeOK'
  <2>1. rxQ' \in Seq(Task)
    BY <1>7, <1>fn, RunType DEF FireTimer
  <2> QED
    BY <1>7, <2>1 DEF FireTimer, CancelTimer, TypeOK
<1>8. ASSUME NEW t \in Thread, NEW l \in Link, Up(t, l) PROVE TypeOK'
  <2>1. thread' \in [Thread -> ThreadState]
    BY <1>8 DEF Up, SampleEngine, TypeOK, ThreadState, Sampled
  <2> QED
    BY <1>8, <2>1, BoundAssumption DEF Up, linkVars, TypeOK
<1>9. ASSUME NEW t \in Thread, NEW l \in Link, Down(t, l) PROVE TypeOK'
  <2>1. /\ state' \in [Link -> LinkState] /\ enabled' \in [Link -> BOOLEAN]
        /\ timer' \in [Link -> BOOLEAN] /\ thread' \in [Thread -> ThreadState]
    BY <1>9, LinkOperationType DEF Down
  <2> QED
    BY <1>9, <2>1, BoundAssumption DEF Down, TypeOK
<1>10. ASSUME NEW t \in Callback, NEW l \in Link, Established(t, l) PROVE TypeOK'
  <2>1. t \in Thread
    BY ThreadAssumption DEF Thread
  <2>2. /\ state' \in [Link -> LinkState] /\ enabled' \in [Link -> BOOLEAN]
        /\ timer' \in [Link -> BOOLEAN] /\ thread' \in [Thread -> ThreadState]
    BY <1>10, <2>1, LinkOperationType DEF Established
  <2> QED
    BY <1>10, <2>2 DEF Established, TypeOK, Io
<1>11. ASSUME NEW t \in Callback, NEW l \in Link, Fault(t, l) PROVE TypeOK'
  <2>1. t \in Thread
    BY ThreadAssumption DEF Thread
  <2>2. /\ state' \in [Link -> LinkState] /\ enabled' \in [Link -> BOOLEAN]
        /\ timer' \in [Link -> BOOLEAN] /\ thread' \in [Thread -> ThreadState]
    BY <1>11, <2>1, LinkOperationType DEF Fault
  <2> QED
    BY <1>11, <2>2, BoundAssumption DEF Fault, Connect, Disconnect, TypeOK, Io
<1>12. CASE UNCHANGED vars
  BY <1>12 DEF vars, linkVars, TypeOK
<1> QED
  BY <1>1, <1>2, <1>3, <1>4, <1>5, <1>6, <1>7, <1>8, <1>9, <1>10, <1>11, <1>12
  DEF Next, ThreadStep

\* Every variable keeps its type: the program never leaves its state machines.
THEOREM TypeCorrect == Spec => []TypeOK
  BY TypeInit, TypeNext, PTL DEF Spec

-----------------------------------------------------------------------------
(* The counters *)

LEMMA FiniteCounted ==
  ASSUME NEW c \in Class
  PROVE  /\ IsFiniteSet(LinksIn(c)) /\ Cardinality(LinksIn(c)) \in Nat
         /\ IsFiniteSet(Leaving(c)) /\ Cardinality(Leaving(c)) \in Nat
         /\ IsFiniteSet(Entering(c)) /\ Cardinality(Entering(c)) \in Nat
<1>1. LinksIn(c) \in SUBSET Link /\ Leaving(c) \in SUBSET Thread /\ Entering(c) \in SUBSET Thread
  BY DEF LinksIn, Leaving, Entering
<1>2. IsFiniteSet(LinksIn(c)) /\ IsFiniteSet(Leaving(c)) /\ IsFiniteSet(Entering(c))
  BY <1>1, FiniteThreads, LinkAssumption, FS_Subset
<1> QED
  BY <1>2, FS_CardinalityType

\* A step that neither moves a link nor adds or removes a report changes nothing counted.
LEMMA KeepConserves ==
  ASSUME TypeOK, CountersConserved, UNCHANGED <<count, state>>,
         \A u \in Thread : \/ thread'[u] = thread[u]
                           \/ thread[u].pc # "notify" /\ thread'[u].pc # "notify"
  PROVE  CountersConserved'
<1> SUFFICES ASSUME NEW c \in Class
             PROVE  (count[c] = Cardinality(LinksIn(c)) + Cardinality(Leaving(c))
                                  - Cardinality(Entering(c)))'
  BY DEF CountersConserved
<1>1. LinksIn(c)' = LinksIn(c)
  BY DEF LinksIn
<1>2. Leaving(c)' = Leaving(c)
  BY DEF Leaving
<1>3. Entering(c)' = Entering(c)
  BY DEF Entering
<1> QED
  BY <1>1, <1>2, <1>3 DEF CountersConserved

\* A thread that moves a link takes on the report of exactly that move.
LEMMA MoveConserves ==
  ASSUME TypeOK, CountersConserved, UNCHANGED count,
         NEW t \in Thread, NEW l \in Link, NEW next \in LinkState, NEW then \in Then,
         thread[t].pc # "notify", MoveLink(t, l, next, then)
  PROVE  CountersConserved'
<1> DEFINE prev == state[l]
<1>0. prev \in LinkState /\ state' = [state EXCEPT ![l] = next]
  BY DEF TypeOK, MoveLink
<1>1. SUFFICES ASSUME NEW c \in Class
               PROVE  (count[c] = Cardinality(LinksIn(c)) + Cardinality(Leaving(c))
                                    - Cardinality(Entering(c)))'
  BY DEF CountersConserved
<1>2. count'[c] = Cardinality(LinksIn(c)) + Cardinality(Leaving(c)) - Cardinality(Entering(c))
  BY DEF CountersConserved
<1>3. t \notin Leaving(c) /\ t \notin Entering(c)
  BY DEF Leaving, Entering
<1>4. CASE Reported(prev, next)
  <2>1. thread' = [thread EXCEPT ![t] = [pc |-> "notify", link |-> l, prev |-> prev,
                                         next |-> next, then |-> then]]
    BY <1>4 DEF MoveLink
  <2>2. Leaving(c)' = IF prev \in StatesIn(c) THEN Leaving(c) \cup {t} ELSE Leaving(c)
    BY <2>1, <1>3 DEF Leaving, TypeOK
  <2>3. Entering(c)' = IF next \in StatesIn(c) THEN Entering(c) \cup {t} ELSE Entering(c)
    BY <2>1, <1>3 DEF Entering, TypeOK
  <2>4. LinksIn(c)' = IF next \in StatesIn(c) THEN LinksIn(c) \cup {l} ELSE LinksIn(c) \ {l}
    BY <1>0 DEF LinksIn, TypeOK
  <2>5. l \in LinksIn(c) <=> prev \in StatesIn(c)
    BY DEF LinksIn
  <2>6. Cardinality(Leaving(c)') =
          Cardinality(Leaving(c)) + (IF prev \in StatesIn(c) THEN 1 ELSE 0)
    BY <2>2, <1>3, FiniteCounted, AddOne
  <2>7. Cardinality(Entering(c)') =
          Cardinality(Entering(c)) + (IF next \in StatesIn(c) THEN 1 ELSE 0)
    BY <2>3, <1>3, FiniteCounted, AddOne
  <2>8. Cardinality(LinksIn(c)') =
          Cardinality(LinksIn(c)) + (IF next \in StatesIn(c) THEN 1 ELSE 0)
                                  - (IF prev \in StatesIn(c) THEN 1 ELSE 0)
    <3>1. CASE next \in StatesIn(c)
      <4>1. Cardinality(LinksIn(c)') =
              Cardinality(LinksIn(c)) + (IF prev \in StatesIn(c) THEN 0 ELSE 1)
        BY <3>1, <2>4, <2>5, FiniteCounted, AddOne
      <4> QED
        BY <3>1, <4>1, FiniteCounted
    <3>2. CASE next \notin StatesIn(c)
      <4>1. Cardinality(LinksIn(c)') =
              Cardinality(LinksIn(c)) - (IF prev \in StatesIn(c) THEN 1 ELSE 0)
        BY <3>2, <2>4, <2>5, FiniteCounted, RemoveOne
      <4> QED
        BY <3>2, <4>1, FiniteCounted
    <3> QED
      BY <3>1, <3>2
  <2> QED
    BY <1>2, <2>6, <2>7, <2>8, FiniteCounted
<1>5. CASE ~Reported(prev, next)
  <2>1. prev \in StatesIn(c) <=> next \in StatesIn(c)
    BY <1>0, <1>5, UnreportedSameClass
  <2>2. LinksIn(c)' = LinksIn(c)
    BY <1>0, <2>1 DEF LinksIn, TypeOK
  <2>3. \A u \in Thread : \/ thread'[u] = thread[u]
                          \/ thread[u].pc # "notify" /\ thread'[u].pc # "notify"
    BY <1>5 DEF MoveLink, Resume, Idle, TypeOK
  <2>4. Leaving(c)' = Leaving(c) /\ Entering(c)' = Entering(c)
    BY <2>3 DEF Leaving, Entering
  <2> QED
    BY <1>2, <2>2, <2>4
<1> QED
  BY <1>4, <1>5

\* linkState() moves into the counters the change the thread held, and no other.
LEMMA ReportConserves ==
  ASSUME TypeOK, CountersConserved, NEW t \in Thread, ReportLinkState(t)
  PROVE  CountersConserved'
<1> DEFINE p == thread[t].prev
           n == thread[t].next
<1>1. SUFFICES ASSUME NEW c \in Class
               PROVE  (count[c] = Cardinality(LinksIn(c)) + Cardinality(Leaving(c))
                                    - Cardinality(Entering(c)))'
  BY DEF CountersConserved
<1>2. count'[c] = count[c] - (IF p \in StatesIn(c) THEN 1 ELSE 0)
                           + (IF n \in StatesIn(c) THEN 1 ELSE 0)
  BY DEF ReportLinkState, Adjusted
<1>3. thread[t].pc = "notify" /\ thread'[t].pc # "notify"
      /\ \A u \in Thread \ {t} : thread'[u] = thread[u]
  BY DEF ReportLinkState, Resume, Idle, TypeOK
<1>4. LinksIn(c)' = LinksIn(c)
  BY DEF ReportLinkState, linkVars, LinksIn
<1>5. Leaving(c)' = Leaving(c) \ {t} /\ (t \in Leaving(c) <=> p \in StatesIn(c))
  BY <1>3 DEF Leaving
<1>6. Entering(c)' = Entering(c) \ {t} /\ (t \in Entering(c) <=> n \in StatesIn(c))
  BY <1>3 DEF Entering
<1>7. Cardinality(Leaving(c)') =
        Cardinality(Leaving(c)) - (IF p \in StatesIn(c) THEN 1 ELSE 0)
  BY <1>5, FiniteCounted, RemoveOne
<1>8. Cardinality(Entering(c)') =
        Cardinality(Entering(c)) - (IF n \in StatesIn(c) THEN 1 ELSE 0)
  BY <1>6, FiniteCounted, RemoveOne
<1>9. count[c] = Cardinality(LinksIn(c)) + Cardinality(Leaving(c)) - Cardinality(Entering(c))
  BY DEF CountersConserved
<1> QED
  BY <1>2, <1>4, <1>7, <1>8, <1>9, FiniteCounted

\* Each operation of a link, called by a thread that has no report to make, is such a move.
LEMMA LinkOperationConserves ==
  ASSUME TypeOK, CountersConserved, UNCHANGED count,
         NEW t \in Thread, NEW l \in Link, thread[t].pc # "notify",
         \/ \E disable \in BOOLEAN : DownLink(t, l, disable)
         \/ ConnectedLink(t, l)
         \/ DisconnectedLink(t, l)
         \/ \E immediate \in BOOLEAN : ReconnectLink(t, l, immediate)
         \/ ReconnectingLink(t, l)
  PROVE  CountersConserved'
<1> state[l] \in LinkState /\ enabled[l] \in BOOLEAN
  BY DEF TypeOK
<1>1. \/ \E next \in LinkState, then \in Then : MoveLink(t, l, next, then)
      \/ UNCHANGED <<state, thread>>
  <2>1. ASSUME NEW disable \in BOOLEAN, DownLink(t, l, disable) PROVE <1>1
    <3>1. DownNext(state[l], enabled[l] /\ ~disable) \in LinkState
      BY NextStates
    <3>2. (IF state[l] \in Reconn \cup {"Up"} THEN "invokeDisconnect" ELSE "none") \in Then
      BY DEF Then
    <3> QED
      BY <2>1, <3>1, <3>2 DEF DownLink
  <2>2. CASE ConnectedLink(t, l)
    BY <2>2 DEF ConnectedLink, LinkState, Transient, Then
  <2>3. CASE DisconnectedLink(t, l)
    <3>1. DisconnectedNext(state[l], enabled[l]) \in LinkState
      BY NextStates
    <3>2. (IF state[l] = "ConnectPending" /\ enabled[l] THEN "runConnect" ELSE "none") \in Then
      BY DEF Then
    <3> QED
      BY <2>3, <3>1, <3>2 DEF DisconnectedLink
  <2>4. ASSUME NEW immediate \in BOOLEAN, ReconnectLink(t, l, immediate) PROVE <1>1
    BY <2>4 DEF ReconnectLink, LinkState, Transient, Reconn, Then
  <2>5. CASE ReconnectingLink(t, l)
    BY <2>5 DEF ReconnectingLink, LinkState, Transient, Then
  <2> QED
    BY <2>1, <2>2, <2>3, <2>4, <2>5
<1>2. CASE UNCHANGED <<state, thread>>
  BY <1>2, KeepConserves
<1> QED
  BY <1>1, <1>2, MoveConserves

LEMMA ConservedInit == Init => CountersConserved
<1> SUFFICES ASSUME Init, NEW c \in Class
             PROVE  count[c] = Cardinality(LinksIn(c)) + Cardinality(Leaving(c))
                                 - Cardinality(Entering(c))
  BY DEF CountersConserved
<1>1. Leaving(c) = {} /\ Entering(c) = {}
  BY DEF Init, Leaving, Entering, Idle
<1>2. Cardinality(Leaving(c)) = 0 /\ Cardinality(Entering(c)) = 0
  BY <1>1, FS_EmptySet
<1>3. count[c] = IF c = "down" THEN Cardinality(Link) ELSE 0
  BY DEF Init
<1>4. CASE c = "down"
  <2>1. LinksIn(c) = Link
    BY <1>4 DEF Init, LinksIn, StatesIn
  <2> QED
    BY <1>2, <1>3, <1>4, <2>1, LinkAssumption, FS_CardinalityType
<1>5. CASE c # "down"
  <2>1. "Down" \notin StatesIn(c)
    BY <1>5 DEF StatesIn, Class, Transient, Reconn
  <2>2. LinksIn(c) = {}
    BY <2>1 DEF Init, LinksIn
  <2> QED
    BY <1>2, <1>3, <1>5, <2>2, FS_EmptySet
<1> QED
  BY <1>4, <1>5

LEMMA ConservedNext == TypeOK /\ CountersConserved /\ [Next]_vars => CountersConserved'
<1> SUFFICES ASSUME TypeOK, CountersConserved, [Next]_vars
             PROVE  CountersConserved'
  OBVIOUS
<1> Rx \in Thread /\ Callback \subseteq Thread
  BY ThreadAssumption DEF Thread
<1>1. CASE Start \/ Stop
  BY <1>1, KeepConserves DEF Start, Stop, linkVars
<1>2. ASSUME NEW t \in Thread, ReportLinkState(t) PROVE CountersConserved'
  BY <1>2, ReportConserves
<1>3. ASSUME NEW t \in Thread, UpLink(t) PROVE CountersConserved'
  <2> DEFINE l == thread[t].link
             next == UpNext(state[l], enabled[l] \/ thread[t].enable, thread[t].running)
             then == IF state[l] \in {"Disabled", "Down", "Failed"} /\ thread[t].running
                     THEN "invokeConnect" ELSE "none"
  <2>1. thread[t] \in Sampled
    BY <1>3 DEF UpLink, TypeOK, ThreadState, Idle, Sampled, Notify, After, Closing
  <2>2. l \in Link /\ thread[t].running \in BOOLEAN /\ thread[t].enable \in BOOLEAN
        /\ thread[t].pc # "notify"
    BY <2>1 DEF Sampled
  <2>3. (enabled[l] \/ thread[t].enable) \in BOOLEAN
    BY Zenon
  <2>4. next \in LinkState
    BY <2>2, <2>3, NextStates DEF TypeOK
  <2>5. then \in Then
    BY DEF Then
  <2>6. MoveLink(t, l, next, then) /\ UNCHANGED count
    BY <1>3 DEF UpLink
  <2> HIDE DEF next, then, l
  <2> QED
    BY <2>2, <2>4, <2>5, <2>6, MoveConserves
<1>4. ASSUME NEW t \in Thread, FinishOperation(t) PROVE CountersConserved'
  BY <1>4, KeepConserves DEF FinishOperation, TypeOK, Idle
<1>5. ASSUME NEW t \in Thread, Closed(t) PROVE CountersConserved'
  <2>1. thread[t].link \in Link /\ thread[t].pc # "notify"
    BY <1>5 DEF Closed, TypeOK, ThreadState, Idle, Sampled, Notify, After, Closing
  <2> QED
    BY <1>5, <2>1, LinkOperationConserves DEF Closed
<1>6. ASSUME NEW l \in Link, RxUp(l) PROVE CountersConserved'
  BY <1>6, KeepConserves DEF RxUp, Dequeue, IsIdle, SampleEngine, linkVars, TypeOK
<1>7. ASSUME NEW l \in Link, RxDown(l) PROVE CountersConserved'
  <2>1. DownLink(Rx, l, FALSE) /\ UNCHANGED count /\ thread[Rx].pc # "notify"
    BY <1>7 DEF RxDown, Dequeue, IsIdle
  <2> QED
    BY <2>1, LinkOperationConserves
<1>8. ASSUME NEW l \in Link, RxReconnect(l) PROVE CountersConserved'
  <2>1. UNCHANGED count /\ thread[Rx].pc # "notify"
    BY <1>8 DEF RxReconnect, Dequeue, IsIdle
  <2>2. CASE MoveLink(Rx, l, "Reconnecting", "runConnect")
    BY <2>1, <2>2, MoveConserves DEF LinkState, Reconn, Then
  <2>3. CASE UNCHANGED <<state, thread>>
    BY <2>1, <2>3, KeepConserves
  <2> QED
    BY <1>8, <2>2, <2>3 DEF RxReconnect
<1>9. ASSUME NEW l \in Link, RxConnect(l) \/ FireTimer(l) PROVE CountersConserved'
  BY <1>9, KeepConserves DEF RxConnect, FireTimer, linkVars
<1>10. ASSUME NEW l \in Link, RxDisconnect(l) PROVE CountersConserved'
  BY <1>10, KeepConserves DEF RxDisconnect, Dequeue, IsIdle, linkVars, TypeOK
<1>11. ASSUME NEW t \in Thread, NEW l \in Link, Up(t, l) PROVE CountersConserved'
  BY <1>11, KeepConserves DEF Up, IsIdle, SampleEngine, linkVars, TypeOK
<1>12. ASSUME NEW t \in Thread, NEW l \in Link, Down(t, l) PROVE CountersConserved'
  BY <1>12, LinkOperationConserves DEF Down, IsIdle
<1>13. ASSUME NEW t \in Callback, NEW l \in Link, Established(t, l) PROVE CountersConserved'
  BY <1>13, LinkOperationConserves DEF Established, IsIdle
<1>14. ASSUME NEW t \in Callback, NEW l \in Link, Fault(t, l) PROVE CountersConserved'
  BY <1>14, LinkOperationConserves DEF Fault, IsIdle
<1>15. CASE UNCHANGED vars
  BY <1>15, KeepConserves DEF vars, linkVars
<1> QED
  BY <1>1, <1>2, <1>3, <1>4, <1>5, <1>6, <1>7, <1>8, <1>9, <1>10, <1>11, <1>12, <1>13, <1>14,
     <1>15 DEF Next, ThreadStep, RxStep

\* The counters never lose or repeat a link: whatever the number of links and threads,
\* and however their operations overlap, each counter is off by the unreported changes only.
THEOREM CountersCorrect == Spec => []CountersConserved
<1>1. TypeOK /\ CountersConserved /\ [Next]_vars => (TypeOK /\ CountersConserved)'
  BY TypeNext, ConservedNext
<1> QED
  BY <1>1, TypeInit, ConservedInit, PTL DEF Spec

-----------------------------------------------------------------------------
(* What the counters say of the engine's state *)


\* With nothing left to report, no counter is negative, and none is zero with links to count.
LEMMA ZeroIsEmpty ==
  ASSUME CountersConserved', NobodyReporting', NEW c \in Class
  PROVE  /\ count'[c] \in Nat
         /\ count'[c] = 0 => \A l \in Link : state'[l] \notin StatesIn(c)
<1>1. Leaving(c)' = {} /\ Entering(c)' = {}
  BY DEF NobodyReporting, Leaving, Entering
<1>2. IsFiniteSet(LinksIn(c)') /\ Cardinality(LinksIn(c)') \in Nat
  <2>1. LinksIn(c)' \subseteq Link
    BY DEF LinksIn
  <2> QED
    BY <2>1, LinkAssumption, FS_Subset, FS_CardinalityType
<1>3. count'[c] = Cardinality(LinksIn(c)') + Cardinality(Leaving(c)') - Cardinality(Entering(c)')
  BY DEF CountersConserved
<1>4. count'[c] = Cardinality(LinksIn(c)')
  BY <1>1, <1>2, <1>3, FS_EmptySet
<1>5. ASSUME count'[c] = 0 PROVE LinksIn(c)' = {}
  BY <1>2, <1>4, <1>5, FS_EmptySet
<1> QED
  BY <1>2, <1>4, <1>5 DEF LinksIn

\* Two counters that sum to zero: neither class has a link.
LEMMA ZeroSumIsEmpty ==
  ASSUME CountersConserved', NobodyReporting', NEW c \in Class, NEW d \in Class,
         count'[c] + count'[d] = 0
  PROVE  \A l \in Link : state'[l] \notin StatesIn(c) \cup StatesIn(d)
<1>1. count'[c] \in Nat /\ count'[d] \in Nat
  BY ZeroIsEmpty
<1>2. count'[c] = 0 /\ count'[d] = 0
  BY <1>1
<1> QED
  BY <1>2, ZeroIsEmpty

\* Only linkState() takes the engine out of a state in which it waits for its links.
LEMMA SettlingSteps ==
  ASSUME TypeOK, [Next]_vars, engine' # engine,
         \/ engine \in {"Starting", "StopPending"} /\ engine' \in {"Running", "Stopping"}
         \/ engine \in {"Stopping", "StartPending"} /\ engine' \in {"Stopped", "Starting"}
  PROVE  \E t \in Thread : ReportLinkState(t)
  BY DEF Next, ThreadStep, RxStep, Start, Stop, UpLink, FinishOperation, Closed, RxUp, RxDown,
         RxReconnect, RxConnect, RxDisconnect, FireTimer, Up, Down, Established, Fault, vars

LEMMA SettledNext ==
  ASSUME TypeOK, CountersConserved', [Next]_vars, NobodyReporting'
  PROVE  /\ (engine \in {"Starting", "StopPending"} /\ engine' \in {"Running", "Stopping"})
              => \A l \in Link : state'[l] \notin Transient \cup {"Down"}
         /\ (engine \in {"Stopping", "StartPending"} /\ engine' \in {"Stopped", "Starting"})
              => \A l \in Link : state'[l] \notin Transient \cup {"Up"}
<1>1. ASSUME engine \in {"Starting", "StopPending"}, engine' \in {"Running", "Stopping"}
      PROVE  \A l \in Link : state'[l] \notin Transient \cup {"Down"}
  <2>1. PICK t \in Thread : ReportLinkState(t)
    BY <1>1, SettlingSteps
  <2>2. count'["down"] + count'["transient"] = 0
    BY <1>1, <2>1 DEF ReportLinkState, EngineStep, StartSettled
  <2>3. StatesIn("down") = {"Down"} /\ StatesIn("transient") = Transient
        /\ "down" \in Class /\ "transient" \in Class
    BY DEF StatesIn, Class
  <2> QED
    BY <2>2, <2>3, ZeroSumIsEmpty
<1>2. ASSUME engine \in {"Stopping", "StartPending"}, engine' \in {"Stopped", "Starting"}
      PROVE  \A l \in Link : state'[l] \notin Transient \cup {"Up"}
  <2>1. PICK t \in Thread : ReportLinkState(t)
    BY <1>2, SettlingSteps
  <2>2. count'["up"] + count'["transient"] = 0
    BY <1>2, <2>1 DEF ReportLinkState, EngineStep, StopSettled
  <2>3. StatesIn("up") = {"Up"} /\ StatesIn("transient") = Transient
        /\ "up" \in Class /\ "transient" \in Class
    BY DEF StatesIn, Class
  <2> QED
    BY <2>2, <2>3, ZeroSumIsEmpty
<1> QED
  BY <1>1, <1>2

\* The engine never announces that it has started while a link is still down or on its way,
\* for any number of links and threads, once every change made so far has been reported.
THEOREM StartedCorrect == Spec => SettledWhenStarted
<1>1. TypeOK /\ CountersConserved' /\ [Next]_vars
        => [(/\ engine \in {"Starting", "StopPending"}
             /\ engine' \in {"Running", "Stopping"}
             /\ NobodyReporting')
            => \A l \in Link : state'[l] \notin Transient \cup {"Down"}]_vars
  BY SettledNext
<1> QED
  BY <1>1, TypeCorrect, CountersCorrect, PTL DEF Spec, SettledWhenStarted

\* Likewise the engine never announces that it has stopped while a link is up or on its way.
THEOREM StoppedCorrect == Spec => SettledWhenStopped
<1>1. TypeOK /\ CountersConserved' /\ [Next]_vars
        => [(/\ engine \in {"Stopping", "StartPending"}
             /\ engine' \in {"Stopped", "Starting"}
             /\ NobodyReporting')
            => \A l \in Link : state'[l] \notin Transient \cup {"Up"}]_vars
  BY SettledNext
<1> QED
  BY <1>1, TypeCorrect, CountersCorrect, PTL DEF Spec, SettledWhenStopped

-----------------------------------------------------------------------------
(* A call of connect() or disconnect() that is due.  A thread that has     *)
(* decided it holds it until it has reported the link's state; the queue   *)
(* of the rx thread holds it; and disconnect() itself is under way until   *)
(* it has called disconnected().                                           *)

Kind == {"connect", "disconnect"}
Decides(k) ==
  [connect |-> {"invokeConnect", "runConnect"}, disconnect |-> {"invokeDisconnect", "runDisconnect"}][k]

Holds(t, l, k) ==
  \/ thread[t].pc \in {"notify", "after"} /\ thread[t].link = l /\ thread[t].then \in Decides(k)
  \/ thread[t].pc = "closed" /\ thread[t].link = l /\ k = "disconnect"
Waits(i, l, k) == rxQ[i] = [fn |-> k, link |-> l]

Held(l, k) == \E t \in Thread : Holds(t, l, k)
Queued(l, k) == \E i \in 1..Len(rxQ) : Waits(i, l, k)
Due(l, k) == Held(l, k) \/ Queued(l, k)

\* It is due once.
OneHeld(l, k) == \A t, u \in Thread : Holds(t, l, k) /\ Holds(u, l, k) => t = u
OneQueued(l, k) == \A i, j \in 1..Len(rxQ) : Waits(i, l, k) /\ Waits(j, l, k) => i = j
Single(l, k) == OneHeld(l, k) /\ OneQueued(l, k) /\ ~(Held(l, k) /\ Queued(l, k))

\* How a link's state, its connection, and the calls due for it agree.
Matches(l) ==
  /\ \A k \in Kind : Single(l, k)
  /\ Due(l, "connect") => state[l] \in {"Connecting", "DisconnectPending"} /\ io[l] = "idle"
  /\ Due(l, "disconnect") <=> state[l] \in {"Disconnecting", "ConnectPending"}
  /\ state[l] \in {"Connecting", "DisconnectPending"} => Due(l, "connect") \/ io[l] = "opening"
  /\ state[l] = "Up" => io[l] = "open"
  /\ state[l] \in Settled => io[l] = "idle"
  /\ \A t \in Thread : thread[t].pc = "closed" /\ thread[t].link = l => io[l] = "idle"
  /\ state[l] \notin Reconn

Matched == faults = 0 => \A l \in Link : Matches(l)

-----------------------------------------------------------------------------
(* A link that start() will bring up is off, or there is a down_() for it  *)
(* in the queue first.                                                     *)

Off == {"Down", "Disabled", "Failed", "Disconnecting", "DisconnectPending"}
Sampling(l) == thread[Rx].pc = "sampled" /\ thread[Rx].link = l
Rests(l) == state[l] \in Off /\ ~Sampling(l)
OffAt(l, i) ==
  \/ Rests(l) /\ \A j \in 1..(i - 1) : ~Waits(j, l, "up_")
  \/ \E j \in 1..(i - 1) : Waits(j, l, "down_") /\ \A n \in (j + 1)..(i - 1) : ~Waits(n, l, "up_")

SampledOff == \A t \in Thread : thread[t].pc = "sampled" => t = Rx /\ state[thread[t].link] \in Off
UpsFromOff == \A l \in Link, i \in 1..Len(rxQ) : Waits(i, l, "up_") => OffAt(l, i)
Halting == engine \in {"Stopped", "Stopping", "StartPending"}
HaltsOff == Halting => \A l \in Link : OffAt(l, Len(rxQ) + 1)
UpFromOff == SampledOff /\ UpsFromOff /\ HaltsOff

-----------------------------------------------------------------------------
(* The queue of the rx thread *)

QueueSame(l, k) ==
  /\ Queued(l, k)' <=> Queued(l, k)
  /\ OneQueued(l, k) => OneQueued(l, k)'

\* The queue grows by calls of one function.
Grows(fn) ==
  /\ Len(rxQ) \in Nat /\ Len(rxQ') \in Nat /\ Len(rxQ) <= Len(rxQ')
  /\ \A i \in 1..Len(rxQ) : rxQ'[i] = rxQ[i]
  /\ \A i \in (Len(rxQ) + 1)..Len(rxQ') : rxQ'[i].fn = fn

\* The first call leaves it.
Shifts ==
  /\ Len(rxQ) \in Nat /\ Len(rxQ) > 0 /\ Len(rxQ') = Len(rxQ) - 1
  /\ \A i \in 1..Len(rxQ') : rxQ'[i] = rxQ[i + 1]

LEMMA RunGrows ==
  ASSUME TypeOK, NEW fn \in Fn, NEW l \in Link, Run(fn, l)
  PROVE  /\ Grows(fn) /\ Len(rxQ') = Len(rxQ) + 1
         /\ rxQ'[Len(rxQ) + 1] = [fn |-> fn, link |-> l]
<1>1. [fn |-> fn, link |-> l] \in Task /\ rxQ \in Seq(Task)
  BY DEF Task, TypeOK
<1>2. /\ Len(rxQ') = Len(rxQ) + 1 /\ Len(rxQ) \in Nat
      /\ \A i \in 1..Len(rxQ) : rxQ'[i] = rxQ[i]
      /\ rxQ'[Len(rxQ) + 1] = [fn |-> fn, link |-> l]
  BY <1>1, AppendProperties, LenProperties DEF Run
<1> QED
  BY <1>2 DEF Grows

LEMMA ConcatGrows ==
  ASSUME TypeOK, NEW fn \in Fn, rxQ' = rxQ \o ForAllLinks(fn)
  PROVE  /\ Grows(fn) /\ Len(rxQ') = Len(rxQ) + Len(LinkSeq)
         /\ \A i \in 1..Len(LinkSeq) : rxQ'[Len(rxQ) + i] = [fn |-> fn, link |-> LinkSeq[i]]
<1>1. ForAllLinks(fn) \in Seq(Task) /\ rxQ \in Seq(Task) /\ Len(LinkSeq) \in Nat
  BY ForAllLinksType, LinkAssumption, LenProperties DEF TypeOK
<1>2. PICK n \in Nat, m \in Nat : n = Len(rxQ) /\ m = Len(LinkSeq)
  BY <1>1, LenProperties
<1>3. Len(ForAllLinks(fn)) = m /\ \A i \in 1..m : ForAllLinks(fn)[i] = [fn |-> fn, link |-> LinkSeq[i]]
  BY <1>1, <1>2 DEF ForAllLinks
<1>4. /\ Len(rxQ') = n + m
      /\ \A i \in 1..(n + m) : rxQ'[i] = IF i <= n THEN rxQ[i] ELSE ForAllLinks(fn)[i - n]
  <2>1. /\ Len(rxQ \o ForAllLinks(fn)) = Len(rxQ) + Len(ForAllLinks(fn))
        /\ \A i \in 1..(Len(rxQ) + Len(ForAllLinks(fn))) :
             (rxQ \o ForAllLinks(fn))[i] = IF i <= Len(rxQ) THEN rxQ[i] ELSE ForAllLinks(fn)[i - Len(rxQ)]
    BY <1>1, ConcatProperties
  <2> QED
    BY <1>2, <1>3, <2>1
<1>5. \A i \in 1..n : rxQ'[i] = rxQ[i]
  BY <1>4
<1>6. ASSUME NEW i \in 1..m
      PROVE  rxQ'[n + i] = [fn |-> fn, link |-> LinkSeq[i]]
  <2>1. n + i \in 1..(n + m) /\ ~(n + i <= n) /\ (n + i) - n = i
    OBVIOUS
  <2> QED
    BY <1>3, <1>4, <2>1
<1>7. ASSUME NEW i \in (n + 1)..(n + m)
      PROVE  rxQ'[i].fn = fn
  <2>1. PICK j \in 1..m : i = n + j
    <3>1. i - n \in 1..m /\ i = n + (i - n)
      OBVIOUS
    <3> QED
      BY <3>1
  <2>2. rxQ'[i] = [fn |-> fn, link |-> LinkSeq[j]]
    BY <1>6, <2>1
  <2> QED
    BY <2>2
<1> QED
  BY <1>2, <1>4, <1>5, <1>6, <1>7 DEF Grows

LEMMA DequeueShifts ==
  ASSUME TypeOK, NEW fn, NEW l, Dequeue(fn, l)
  PROVE  Shifts /\ rxQ[1] = [fn |-> fn, link |-> l]
<1>1. rxQ \in Seq(Task) /\ rxQ # <<>> /\ rxQ' = Tail(rxQ) /\ Head(rxQ) = [fn |-> fn, link |-> l]
  BY DEF TypeOK, Dequeue
<1> QED
  BY <1>1, HeadTailProperties, LenProperties DEF Shifts

LEMMA GrowsSame ==
  ASSUME NEW fn, Grows(fn), NEW l, NEW k, k # fn
  PROVE  QueueSame(l, k)
<1>1. PICK n \in Nat, m \in Nat : n = Len(rxQ) /\ m = Len(rxQ') /\ n <= m
  BY DEF Grows
<1>2. \A i \in 1..n : i \in 1..m /\ (Waits(i, l, k)' <=> Waits(i, l, k))
  BY <1>1 DEF Grows, Waits
<1>3. \A i \in 1..m : Waits(i, l, k)' => i \in 1..n
  <2> SUFFICES ASSUME NEW i \in 1..m, i \notin 1..n PROVE ~Waits(i, l, k)'
    OBVIOUS
  <2>1. i \in (n + 1)..m
    OBVIOUS
  <2> QED
    BY <1>1, <2>1 DEF Grows, Waits
<1> QED
  BY <1>1, <1>2, <1>3 DEF QueueSame, Queued, OneQueued

LEMMA ShiftIs ==
  ASSUME Shifts, NEW l, NEW k
  PROVE  \E n \in Nat : /\ n = Len(rxQ) /\ n - 1 = Len(rxQ')
                        /\ \A i \in 1..(n - 1) : i + 1 \in 1..n /\ (Waits(i, l, k)' <=> Waits(i + 1, l, k))
                        /\ \A i \in 1..n : i # 1 => i - 1 \in 1..(n - 1) /\ (i - 1) + 1 = i
                        /\ 1 \in 1..n
<1>1. PICK n \in Nat : n = Len(rxQ) /\ n > 0 /\ n - 1 = Len(rxQ')
  BY DEF Shifts
<1>2. \A i \in 1..(n - 1) : Waits(i, l, k)' <=> Waits(i + 1, l, k)
  BY <1>1 DEF Shifts, Waits
<1> QED
  BY <1>1, <1>2

LEMMA ShiftSame ==
  ASSUME Shifts, NEW l, NEW k, ~Waits(1, l, k)
  PROVE  QueueSame(l, k)
<1>1. PICK n \in Nat : /\ n = Len(rxQ) /\ n - 1 = Len(rxQ')
                       /\ \A i \in 1..(n - 1) : i + 1 \in 1..n /\ (Waits(i, l, k)' <=> Waits(i + 1, l, k))
                       /\ \A i \in 1..n : i # 1 => i - 1 \in 1..(n - 1) /\ (i - 1) + 1 = i
  BY ShiftIs
<1>2. Queued(l, k)' => Queued(l, k)
  BY <1>1 DEF Queued
<1>3. ASSUME Queued(l, k) PROVE Queued(l, k)'
  <2>1. PICK i \in 1..n : Waits(i, l, k)
    BY <1>1, <1>3 DEF Queued
  <2>2. i - 1 \in 1..(n - 1) /\ Waits(i - 1, l, k)'
    BY <1>1, <2>1
  <2> QED
    BY <1>1, <2>2 DEF Queued
<1>4. ASSUME OneQueued(l, k) PROVE OneQueued(l, k)'
  <2>1. ASSUME NEW i \in 1..(n - 1), NEW j \in 1..(n - 1), Waits(i, l, k)', Waits(j, l, k)'
        PROVE  i = j
    <3>1. i + 1 = j + 1
      BY <1>1, <1>4, <2>1 DEF OneQueued
    <3> QED
      BY <3>1
  <2> QED
    BY <1>1, <2>1 DEF OneQueued
<1> QED
  BY <1>2, <1>3, <1>4 DEF QueueSame

LEMMA ShiftTakes ==
  ASSUME Shifts, NEW l, NEW k, Waits(1, l, k), OneQueued(l, k)
  PROVE  Queued(l, k) /\ ~Queued(l, k)' /\ OneQueued(l, k)'
<1>1. PICK n \in Nat : /\ n = Len(rxQ) /\ n - 1 = Len(rxQ') /\ 1 \in 1..n
                       /\ \A i \in 1..(n - 1) : i + 1 \in 1..n /\ (Waits(i, l, k)' <=> Waits(i + 1, l, k))
  BY ShiftIs
<1>2. \A i \in 1..(n - 1) : ~Waits(i, l, k)'
  <2> SUFFICES ASSUME NEW i \in 1..(n - 1), Waits(i, l, k)' PROVE FALSE
    OBVIOUS
  <2>1. i + 1 = 1
    BY <1>1 DEF OneQueued
  <2> QED
    BY <2>1
<1> QED
  BY <1>1, <1>2 DEF Queued, OneQueued

\* A call of another link joins the queue.
LEMMA RunOther ==
  ASSUME TypeOK, NEW fn \in Fn, NEW l \in Link, Run(fn, l), NEW m \in Link, NEW k, m # l \/ k # fn
  PROVE  QueueSame(m, k)
<1>1. /\ Grows(fn) /\ Len(rxQ') = Len(rxQ) + 1
      /\ rxQ'[Len(rxQ) + 1] = [fn |-> fn, link |-> l]
  BY RunGrows
<1>2. CASE k # fn
  BY <1>1, <1>2, GrowsSame
<1>3. CASE m # l
  <2>1. PICK n \in Nat : n = Len(rxQ) /\ n + 1 = Len(rxQ')
    BY <1>1 DEF Grows
  <2>2. \A i \in 1..n : i \in 1..(n + 1) /\ (Waits(i, m, k)' <=> Waits(i, m, k))
    BY <1>1, <2>1 DEF Grows, Waits
  <2>3. ~Waits(n + 1, m, k)'
    BY <1>1, <1>3, <2>1 DEF Waits
  <2>4. \A i \in 1..(n + 1) : i \in 1..n \/ i = n + 1
    OBVIOUS
  <2>5. \A i \in 1..(n + 1) : Waits(i, m, k)' => i \in 1..n
    BY <2>3, <2>4
  <2> QED
    BY <2>1, <2>2, <2>5 DEF QueueSame, Queued, OneQueued
<1> QED
  BY <1>2, <1>3

LEMMA RunAdds ==
  ASSUME TypeOK, NEW fn \in Fn, NEW l \in Link, Run(fn, l), ~Queued(l, fn)
  PROVE  Queued(l, fn)' /\ OneQueued(l, fn)'
<1>1. /\ Grows(fn) /\ Len(rxQ') = Len(rxQ) + 1
      /\ rxQ'[Len(rxQ) + 1] = [fn |-> fn, link |-> l]
  BY RunGrows
<1>2. PICK n \in Nat : n = Len(rxQ) /\ n + 1 = Len(rxQ')
  BY <1>1 DEF Grows
<1>3. \A i \in 1..n : ~Waits(i, l, fn)'
  BY <1>1, <1>2 DEF Grows, Waits, Queued
<1>4. Waits(n + 1, l, fn)' /\ n + 1 \in 1..(n + 1)
  BY <1>1, <1>2 DEF Waits
<1>5. \A i \in 1..(n + 1) : i \in 1..n \/ i = n + 1
  OBVIOUS
<1>6. \A i \in 1..(n + 1) : Waits(i, l, fn)' => i = n + 1
  BY <1>3, <1>5
<1> QED
  BY <1>2, <1>4, <1>6 DEF Queued, OneQueued

-----------------------------------------------------------------------------
(* How a call becomes due, moves and is made *)

HoldsSame(t, l, k) == Holds(t, l, k)' <=> Holds(t, l, k)
OthersSame(t, l, k) == \A u \in Thread : u # t => HoldsSame(u, l, k)

LEMMA DueSame ==
  ASSUME NEW l, NEW k, Single(l, k), \A t \in Thread : HoldsSame(t, l, k), QueueSame(l, k)
  PROVE  (Due(l, k)' <=> Due(l, k)) /\ Single(l, k)'
  BY DEF Single, HoldsSame, QueueSame, Due, Held, OneHeld

LEMMA DueNew ==
  ASSUME NEW l, NEW k, NEW t \in Thread, Single(l, k), ~Due(l, k), Holds(t, l, k)', OthersSame(t, l, k),
         QueueSame(l, k)
  PROVE  Due(l, k)' /\ Single(l, k)'
<1>1. \A u \in Thread : Holds(u, l, k)' => u = t
  BY DEF OthersSame, HoldsSame, Due, Held
<1>2. ~Queued(l, k)' /\ OneQueued(l, k)' /\ Held(l, k)'
  BY DEF QueueSame, Due, Single, Held
<1> QED
  BY <1>1, <1>2 DEF Single, Due, OneHeld

LEMMA DueDone ==
  ASSUME NEW l, NEW k, NEW t \in Thread, Single(l, k), Holds(t, l, k), ~Holds(t, l, k)', OthersSame(t, l, k),
         QueueSame(l, k)
  PROVE  ~Due(l, k)' /\ Single(l, k)'
<1>1. \A u \in Thread : ~Holds(u, l, k)'
  BY DEF OthersSame, HoldsSame, Single, OneHeld
<1>2. ~Queued(l, k)' /\ OneQueued(l, k)'
  BY DEF QueueSame, Single, Held
<1> QED
  BY <1>1, <1>2 DEF Single, Due, OneHeld, Held

LEMMA DuePassed ==
  ASSUME TypeOK, NEW l \in Link, NEW k \in Kind, NEW t \in Thread, Single(l, k), Holds(t, l, k),
         ~Holds(t, l, k)', OthersSame(t, l, k), Run(k, l)
  PROVE  Due(l, k)' /\ Single(l, k)'
<1>1. \A u \in Thread : ~Holds(u, l, k)'
  BY DEF OthersSame, HoldsSame, Single, OneHeld
<1>2. ~Queued(l, k) /\ k \in Fn
  BY DEF Single, Held, Kind, Fn
<1>3. Queued(l, k)' /\ OneQueued(l, k)'
  BY <1>2, RunAdds
<1> QED
  BY <1>1, <1>3 DEF Single, Due, OneHeld, Held

LEMMA DueTaken ==
  ASSUME NEW l, NEW k, Single(l, k), Shifts, Waits(1, l, k), \A t \in Thread : HoldsSame(t, l, k)
  PROVE  Due(l, k) /\ ~Due(l, k)' /\ Single(l, k)'
<1>1. Queued(l, k) /\ ~Queued(l, k)' /\ OneQueued(l, k)'
  BY ShiftTakes DEF Single
<1>2. \A t \in Thread : ~Holds(t, l, k)'
  BY <1>1 DEF Single, HoldsSame, Held
<1> QED
  BY <1>1, <1>2 DEF Single, Due, OneHeld, Held

LEMMA DueBegins ==
  ASSUME NEW l, NEW k, Single(l, k), Shifts, Waits(1, l, k), NEW t \in Thread, Holds(t, l, k)',
         OthersSame(t, l, k)
  PROVE  Due(l, k) /\ Due(l, k)' /\ Single(l, k)'
<1>1. Queued(l, k) /\ ~Queued(l, k)' /\ OneQueued(l, k)'
  BY ShiftTakes DEF Single
<1>2. \A u \in Thread : Holds(u, l, k)' => u = t
  BY <1>1 DEF Single, OthersSame, HoldsSame, Held
<1> QED
  BY <1>1, <1>2 DEF Single, Due, OneHeld, Held

-----------------------------------------------------------------------------
(* The links *)

\* A thread that has nothing due in hand.
Free(t) == \A l \in Link, k \in Kind : ~Holds(t, l, k)

LEMMA IdleIsFree ==
  ASSUME NEW t, thread[t].pc \in {"idle", "sampled"}
  PROVE  Free(t)
  BY DEF Free, Holds

\* An operation that moves a link leaves its thread with what it has decided, and no more.
LEMMA MoveHolds ==
  ASSUME TypeOK, NEW t \in Thread, NEW l \in Link, NEW next, NEW then \in Then, MoveLink(t, l, next, then)
  PROVE  /\ \A m \in Link, k \in Kind : Holds(t, m, k)' <=> m = l /\ then \in Decides(k)
         /\ \A m \in Link, k \in Kind : OthersSame(t, m, k)
         /\ \A u \in Thread : u # t => thread'[u] = thread[u]
         /\ thread'[t].pc \in {"idle", "notify", "after"}
         /\ state' = [state EXCEPT ![l] = next]
<1>1. \/ thread' = [thread EXCEPT ![t] = [pc |-> "notify", link |-> l, prev |-> state[l], next |-> next, then |-> then]]
      \/ thread' = [thread EXCEPT ![t] = [pc |-> "after", link |-> l, then |-> then]]
      \/ then = "none" /\ thread' = [thread EXCEPT ![t] = Idle]
  BY DEF MoveLink, Resume
<1>2. thread \in [Thread -> ThreadState]
  BY DEF TypeOK
<1>3. \A u \in Thread : u # t => thread'[u] = thread[u]
  BY <1>1, <1>2
<1>4. \A m \in Link, k \in Kind : OthersSame(t, m, k)
  BY <1>3 DEF OthersSame, HoldsSame, Holds
<1>5. \/ /\ thread'[t].pc \in {"notify", "after"} /\ thread'[t].link = l /\ thread'[t].then = then
      \/ then = "none" /\ thread'[t].pc = "idle"
  BY <1>1, <1>2 DEF Idle
<1>6. \A k \in Kind : "none" \notin Decides(k)
  BY DEF Decides, Kind
<1>7. \A m \in Link, k \in Kind : Holds(t, m, k)' <=> m = l /\ then \in Decides(k)
  BY <1>5, <1>6 DEF Holds
<1> QED
  BY <1>3, <1>4, <1>5, <1>7 DEF MoveLink

\* A link nobody works on keeps its agreement.
LEMMA OtherMatches ==
  ASSUME NEW l \in Link, Matches(l), state'[l] = state[l], io'[l] = io[l],
         \A k \in Kind : (Due(l, k)' <=> Due(l, k)) /\ Single(l, k)',
         \A t \in Thread : thread'[t].pc = "closed" /\ thread'[t].link = l => io[l] = "idle"
  PROVE  Matches(l)'
<1>1. "connect" \in Kind /\ "disconnect" \in Kind
  BY DEF Kind
<1> QED
  BY <1>1 DEF Matches

AllMatch == \A l \in Link : Matches(l)
QueueKept == \A l \in Link, k \in Kind : QueueSame(l, k)

\* What moving a link does to the calls that are due.
Moves(t, l, then) ==
  /\ \A m \in Link : m # l /\ io'[m] = io[m] => Matches(m)'
  /\ \A k \in Kind : then \in Decides(k) /\ ~Due(l, k) => Due(l, k)' /\ Single(l, k)'
  /\ \A k \in Kind : then \notin Decides(k) /\ ~Holds(t, l, k) => (Due(l, k)' <=> Due(l, k)) /\ Single(l, k)'
  /\ \A k \in Kind : then \notin Decides(k) /\ Holds(t, l, k) => ~Due(l, k)' /\ Single(l, k)'
  /\ \A u \in Thread : thread'[u].pc = "closed" /\ thread'[u].link = l => io[l] = "idle"

LEMMA LinkMoves ==
  ASSUME TypeOK, AllMatch, QueueKept, NEW t \in Thread, NEW l \in Link, NEW next, NEW then \in Then,
         MoveLink(t, l, next, then), \A m \in Link, k \in Kind : m # l => ~Holds(t, m, k)
  PROVE  Moves(t, l, then)
<1>1. /\ \A m \in Link, k \in Kind : Holds(t, m, k)' <=> m = l /\ then \in Decides(k)
      /\ \A m \in Link, k \in Kind : OthersSame(t, m, k)
      /\ \A u \in Thread : u # t => thread'[u] = thread[u]
      /\ thread'[t].pc \in {"idle", "notify", "after"}
      /\ state' = [state EXCEPT ![l] = next]
  BY MoveHolds
<1>2. \A m \in Link, k \in Kind : Single(m, k) /\ QueueSame(m, k)
  BY DEF AllMatch, Matches, QueueKept
<1>3. \A m \in Link, u \in Thread : thread'[u].pc = "closed" /\ thread'[u].link = m => io[m] = "idle"
  <2> SUFFICES ASSUME NEW m \in Link, NEW u \in Thread, thread'[u].pc = "closed", thread'[u].link = m
               PROVE  io[m] = "idle"
    OBVIOUS
  <2>1. u # t
    BY <1>1
  <2> QED
    BY <1>1, <2>1 DEF AllMatch, Matches
<1>4. ASSUME NEW m \in Link, m # l, io'[m] = io[m]
      PROVE  Matches(m)'
  <2>1. \A k \in Kind : \A u \in Thread : HoldsSame(u, m, k)
    BY <1>1, <1>4 DEF OthersSame, HoldsSame
  <2>2. \A k \in Kind : (Due(m, k)' <=> Due(m, k)) /\ Single(m, k)'
    BY <1>2, <2>1, DueSame
  <2>3. state'[m] = state[m]
    BY <1>1, <1>4 DEF TypeOK
  <2> QED
    BY <1>3, <1>4, <2>2, <2>3, OtherMatches DEF AllMatch
<1>5. ASSUME NEW k \in Kind, then \in Decides(k), ~Due(l, k)
      PROVE  Due(l, k)' /\ Single(l, k)'
  BY <1>1, <1>2, <1>5, DueNew
<1>6. ASSUME NEW k \in Kind, then \notin Decides(k), ~Holds(t, l, k)
      PROVE  (Due(l, k)' <=> Due(l, k)) /\ Single(l, k)'
  <2>1. \A u \in Thread : HoldsSame(u, l, k)
    BY <1>1, <1>6 DEF OthersSame, HoldsSame
  <2> QED
    BY <1>2, <2>1, DueSame
<1>7. ASSUME NEW k \in Kind, then \notin Decides(k), Holds(t, l, k)
      PROVE  ~Due(l, k)' /\ Single(l, k)'
  BY <1>1, <1>2, <1>7, DueDone
<1> QED
  BY <1>3, <1>4, <1>5, <1>6, <1>7 DEF Moves

\* The kinds of calls each operation may decide on.
LEMMA DecidesIs ==
  /\ "connect" \in Kind /\ "disconnect" \in Kind /\ Kind = {"connect", "disconnect"}
  /\ Decides("connect") = {"invokeConnect", "runConnect"}
  /\ Decides("disconnect") = {"invokeDisconnect", "runDisconnect"}
  BY DEF Kind, Decides

LEMMA UpMatches ==
  ASSUME TypeOK, AllMatch, QueueKept, io' = io, NEW t \in Thread, UpLink(t)
  PROVE  AllMatch'
<1>1. PICK l \in Link : l = thread[t].link /\ thread[t].pc = "sampled"
  <2>1. thread[t] \in ThreadState /\ thread[t].pc = "sampled"
    BY DEF TypeOK, UpLink
  <2>2. thread[t] \in Sampled
    BY <2>1 DEF ThreadState, Idle, Sampled, Notify, After, Closing
  <2> QED
    BY <2>1, <2>2 DEF Sampled
<1> DEFINE running == thread[t].running
           en == enabled[l] \/ thread[t].enable
           connect == state[l] \in {"Disabled", "Down", "Failed"} /\ running
           next == UpNext(state[l], en, running)
           then == IF connect THEN "invokeConnect" ELSE "none"
<1>2. MoveLink(t, l, next, then) /\ then \in Then
  BY <1>1 DEF UpLink, Then
<1>3. Free(t)
  BY <1>1, IdleIsFree
<1>4. Moves(t, l, then)
  BY <1>2, <1>3, LinkMoves DEF Free
<1>5. state'[l] = next /\ state[l] \in LinkState
  BY <1>2 DEF MoveLink, TypeOK
<1>6. Matches(l) /\ \A m \in Link : m # l => Matches(m)'
  BY <1>4 DEF AllMatch, Moves
<1>7. CASE connect
  <2>1. next = "Connecting" /\ then = "invokeConnect"
    BY <1>7 DEF UpNext
  <2>2. ~Due(l, "connect") /\ ~Due(l, "disconnect") /\ io[l] = "idle"
    BY <1>6, <1>7 DEF Matches, Settled
  <2>3. Due(l, "connect")' /\ Single(l, "connect")' /\ ~Due(l, "disconnect")' /\ Single(l, "disconnect")'
    BY <1>3, <1>4, <2>1, <2>2, DecidesIs DEF Moves, Free
  <2>4. Matches(l)'
    BY <1>4, <1>5, <2>1, <2>2, <2>3, DecidesIs DEF Matches, Moves, Settled, Reconn
  <2> QED
    BY <1>6, <2>4 DEF AllMatch
<1>8. CASE ~connect
  <2>1. then = "none"
    BY <1>8
  <2>2. \A k \in Kind : (Due(l, k)' <=> Due(l, k)) /\ Single(l, k)'
    BY <1>3, <1>4, <2>1, DecidesIs DEF Moves, Free
  <2>3. \/ next = state[l]
        \/ state[l] \in Settled /\ next = "Down"
        \/ state[l] = "Disconnecting" /\ next = "ConnectPending"
        \/ state[l] = "DisconnectPending" /\ next = "Connecting"
    BY <1>8 DEF UpNext, Settled
  <2>4. Matches(l)'
    BY <1>4, <1>5, <1>6, <2>2, <2>3, DecidesIs DEF Matches, Moves, Settled, Reconn
  <2> QED
    BY <1>6, <2>4 DEF AllMatch
<1> QED
  BY <1>7, <1>8

LEMMA DownMatches ==
  ASSUME TypeOK, AllMatch, QueueKept, io' = io, NEW t \in Thread, NEW l \in Link, NEW disable \in BOOLEAN,
         IsIdle(t), DownLink(t, l, disable)
  PROVE  AllMatch'
<1> DEFINE en == enabled[l] /\ ~disable
           next == DownNext(state[l], en)
           then == IF state[l] \in Reconn \cup {"Up"} THEN "invokeDisconnect" ELSE "none"
<1>2. MoveLink(t, l, next, then) /\ then \in Then
  BY DEF DownLink, Then
<1>3. Free(t)
  BY IdleIsFree DEF IsIdle
<1>4. Moves(t, l, then)
  BY <1>2, <1>3, LinkMoves DEF Free
<1>5. state'[l] = next /\ state[l] \in LinkState
  BY <1>2 DEF MoveLink, TypeOK
<1>6. Matches(l) /\ \A m \in Link : m # l => Matches(m)'
  BY <1>4 DEF AllMatch, Moves
<1>7. CASE state[l] \in Reconn \cup {"Up"}
  <2>1. next = "Disconnecting" /\ then = "invokeDisconnect"
    BY <1>7 DEF DownNext, Reconn
  <2>2. ~Due(l, "connect") /\ ~Due(l, "disconnect") /\ state[l] = "Up"
    BY <1>6, <1>7 DEF Matches
  <2>3. Due(l, "disconnect")' /\ Single(l, "disconnect")' /\ ~Due(l, "connect")' /\ Single(l, "connect")'
    BY <1>3, <1>4, <2>1, <2>2, DecidesIs DEF Moves, Free
  <2>4. Matches(l)'
    BY <1>4, <1>5, <2>1, <2>2, <2>3, DecidesIs DEF Matches, Moves, Settled, Reconn
  <2> QED
    BY <1>6, <2>4 DEF AllMatch
<1>8. CASE state[l] \notin Reconn \cup {"Up"}
  <2>1. then = "none"
    BY <1>8
  <2>2. \A k \in Kind : (Due(l, k)' <=> Due(l, k)) /\ Single(l, k)'
    BY <1>3, <1>4, <2>1, DecidesIs DEF Moves, Free
  <2>3. \/ next = state[l]
        \/ state[l] \in Settled /\ next = "Disabled"
        \/ state[l] = "ConnectPending" /\ next = "Disconnecting"
        \/ state[l] = "Connecting" /\ next = "DisconnectPending"
    BY <1>8 DEF DownNext, Settled
  <2>4. Matches(l)'
    BY <1>4, <1>5, <1>6, <2>2, <2>3, DecidesIs DEF Matches, Moves, Settled, Reconn
  <2> QED
    BY <1>6, <2>4 DEF AllMatch
<1> QED
  BY <1>7, <1>8

\* Links and connections stay as they are, and so does what is due.
LEMMA StayMatches ==
  ASSUME AllMatch, QueueKept, UNCHANGED <<state, io>>,
         \A t \in Thread, l \in Link, k \in Kind : HoldsSame(t, l, k),
         \A t \in Thread : thread'[t].pc = "closed" => thread'[t] = thread[t]
  PROVE  AllMatch'
<1> SUFFICES ASSUME NEW l \in Link PROVE Matches(l)'
  BY DEF AllMatch
<1>1. \A k \in Kind : (Due(l, k)' <=> Due(l, k)) /\ Single(l, k)'
  BY DueSame DEF QueueKept, AllMatch, Matches
<1>2. \A t \in Thread : thread'[t].pc = "closed" /\ thread'[t].link = l => io[l] = "idle"
  BY DEF AllMatch, Matches
<1> QED
  BY <1>1, <1>2, OtherMatches DEF AllMatch

LEMMA EstablishedMatches ==
  ASSUME TypeOK, AllMatch, NEW t \in Thread, NEW l \in Link, Established(t, l)
  PROVE  AllMatch'
<1>1. /\ IsIdle(t) /\ io[l] = "opening" /\ ConnectedLink(t, l) /\ rxQ' = rxQ
      /\ io'[l] = "open" /\ \A m \in Link : m # l => io'[m] = io[m]
  BY DEF Established, TypeOK
<1>2. QueueKept /\ Free(t)
  BY <1>1, IdleIsFree DEF QueueKept, QueueSame, Queued, OneQueued, Waits, IsIdle
<1>3. /\ Matches(l) /\ ~Due(l, "connect") /\ state[l] \notin Settled /\ state[l] # "Up"
      /\ \A u \in Thread : ~(thread[u].pc = "closed" /\ thread[u].link = l)
  BY <1>1 DEF AllMatch, Matches
<1>4. state[l] \in LinkState /\ state \in [Link -> LinkState]
  BY DEF TypeOK
<1>5. CASE state[l] = "Connecting"
  <2>1. MoveLink(t, l, "Up", "none") /\ state'[l] = "Up"
    BY <1>1, <1>4, <1>5 DEF ConnectedLink, MoveLink, Reconn
  <2>2. Moves(t, l, "none") /\ "none" \notin Decides("connect") /\ "none" \notin Decides("disconnect")
    BY <1>2, <2>1, LinkMoves, DecidesIs DEF Free, Then
  <2>3. \A k \in Kind : (Due(l, k)' <=> Due(l, k)) /\ Single(l, k)'
    BY <1>2, <2>2, DecidesIs DEF Moves, Free
  <2>4. \A u \in Thread : ~(thread'[u].pc = "closed" /\ thread'[u].link = l)
    BY <1>1, <2>2 DEF Moves
  <2>5. Matches(l)'
    BY <1>1, <1>3, <1>5, <2>1, <2>3, <2>4, DecidesIs DEF Matches, Settled, Reconn
  <2> QED
    BY <1>1, <2>2, <2>5 DEF AllMatch, Moves
<1>6. CASE state[l] = "DisconnectPending"
  <2>1. MoveLink(t, l, "Disconnecting", "runDisconnect") /\ state'[l] = "Disconnecting"
    BY <1>1, <1>4, <1>6 DEF ConnectedLink, MoveLink, Reconn
  <2>2. Moves(t, l, "runDisconnect") /\ "runDisconnect" \notin Decides("connect") /\ "runDisconnect" \in Decides("disconnect")
    BY <1>2, <2>1, LinkMoves, DecidesIs DEF Free, Then
  <2>3. ~Due(l, "disconnect")
    BY <1>3, <1>6 DEF Matches
  <2>4. Due(l, "disconnect")' /\ Single(l, "disconnect")' /\ ~Due(l, "connect")' /\ Single(l, "connect")'
    BY <1>2, <1>3, <2>2, <2>3, DecidesIs DEF Moves, Free
  <2>5. \A u \in Thread : ~(thread'[u].pc = "closed" /\ thread'[u].link = l)
    BY <1>1, <2>2 DEF Moves
  <2>6. Matches(l)'
    BY <1>1, <2>1, <2>4, <2>5, DecidesIs DEF Matches, Settled, Reconn
  <2> QED
    BY <1>1, <2>2, <2>6 DEF AllMatch, Moves
<1>7. CASE state[l] \notin {"Connecting", "DisconnectPending"}
  <2>1. state[l] \in {"Disconnecting", "ConnectPending"} /\ UNCHANGED <<state, thread>>
    BY <1>1, <1>3, <1>4, <1>7
    DEF ConnectedLink, Matches, LinkState, Transient, Reconn, Settled
  <2>2. ASSUME NEW m \in Link
        PROVE  Matches(m)'
    <3>1. \A k \in Kind : (Due(m, k)' <=> Due(m, k)) /\ Single(m, k)'
      BY <1>2, <2>1, DueSame DEF QueueKept, AllMatch, Matches, HoldsSame, Holds
    <3>2. CASE m = l
      BY <1>1, <1>3, <2>1, <3>1, <3>2, DecidesIs DEF Matches, Settled, Reconn
    <3>3. CASE m # l
      BY <1>1, <2>1, <3>1, <3>3, OtherMatches DEF AllMatch, Matches
    <3> QED
      BY <3>2, <3>3
  <2> QED
    BY <2>2 DEF AllMatch
<1> QED
  BY <1>5, <1>6, <1>7

LEMMA ClosedMatches ==
  ASSUME TypeOK, AllMatch, NEW t \in Thread, Closed(t)
  PROVE  AllMatch'
<1>1. PICK l \in Link : l = thread[t].link /\ thread[t].pc = "closed"
  <2>1. thread[t] \in ThreadState /\ thread[t].pc = "closed"
    BY DEF TypeOK, Closed
  <2>2. thread[t] \in Closing
    BY <2>1 DEF ThreadState, Idle, Sampled, Notify, After, Closing
  <2> QED
    BY <2>1, <2>2 DEF Closing
<1> DEFINE next == DisconnectedNext(state[l], enabled[l])
           then == IF state[l] = "ConnectPending" /\ enabled[l] THEN "runConnect" ELSE "none"
<1>2. /\ MoveLink(t, l, next, then) /\ then \in Then /\ rxQ' = rxQ /\ io' = io
      /\ state'[l] = next /\ enabled[l] \in BOOLEAN
  BY <1>1 DEF Closed, DisconnectedLink, Then, MoveLink, TypeOK
<1>3. QueueKept
  BY <1>2 DEF QueueKept, QueueSame, Queued, OneQueued, Waits
<1>4. /\ Holds(t, l, "disconnect") /\ ~Holds(t, l, "connect")
      /\ \A m \in Link, k \in Kind : m # l => ~Holds(t, m, k)
  BY <1>1 DEF Holds, Kind
<1>5. Moves(t, l, then)
  BY <1>2, <1>3, <1>4, LinkMoves
<1>6. Matches(l) /\ io[l] = "idle" /\ Due(l, "disconnect")
  BY <1>1, <1>4 DEF AllMatch, Matches, Due, Held
<1>7. state[l] \in {"Disconnecting", "ConnectPending"} /\ ~Due(l, "connect")
  BY <1>6 DEF Matches
<1>8. then \notin Decides("disconnect") /\ ~Due(l, "disconnect")' /\ Single(l, "disconnect")'
  BY <1>4, <1>5, DecidesIs DEF Moves
<1>9. CASE then = "runConnect"
  <2>1. next = "Connecting" /\ then \in Decides("connect")
    BY <1>9, DecidesIs DEF DisconnectedNext, Reconn
  <2>2. Due(l, "connect")' /\ Single(l, "connect")'
    BY <1>5, <1>7, <2>1, DecidesIs DEF Moves
  <2>3. Matches(l)'
    BY <1>2, <1>5, <1>6, <1>8, <2>1, <2>2, DecidesIs DEF Matches, Moves, Settled, Reconn
  <2> QED
    BY <1>2, <1>5, <2>3 DEF AllMatch, Moves
<1>10. CASE then = "none"
  <2>1. next \in {"Down", "Disabled"} /\ then \notin Decides("connect")
    BY <1>2, <1>7, <1>10, DecidesIs DEF DisconnectedNext, Reconn
  <2>2. ~Due(l, "connect")' /\ Single(l, "connect")'
    BY <1>4, <1>5, <1>7, <2>1, DecidesIs DEF Moves
  <2>3. Matches(l)'
    BY <1>2, <1>5, <1>6, <1>8, <2>1, <2>2, DecidesIs DEF Matches, Moves, Settled, Reconn
  <2> QED
    BY <1>2, <1>5, <2>3 DEF AllMatch, Moves
<1> QED
  BY <1>9, <1>10

\* Queueing up_(), down_() or reconnect_() queues neither connect() nor disconnect().
LEMMA GrowsKept ==
  ASSUME NEW fn, Grows(fn), fn \notin Kind
  PROVE  QueueKept
  BY GrowsSame DEF QueueKept

LEMMA UnchangedKept ==
  ASSUME rxQ' = rxQ
  PROVE  QueueKept
  BY DEF QueueKept, QueueSame, Queued, OneQueued, Waits

LEMMA DequeueKept ==
  ASSUME TypeOK, NEW fn, NEW l, Dequeue(fn, l), fn \notin Kind
  PROVE  QueueKept
<1>0. Shifts /\ rxQ[1] = [fn |-> fn, link |-> l]
  BY DequeueShifts
<1>1. Shifts /\ rxQ[1].fn = fn
  BY <1>0
<1>2. \A m \in Link, k \in Kind : ~Waits(1, m, k)
  BY <1>1 DEF Waits
<1> QED
  BY <1>1, <1>2, ShiftSame DEF QueueKept

\* A thread that reports a change of state still has in hand what it has decided.
LEMMA ReportMatches ==
  ASSUME TypeOK, AllMatch, NEW t \in Thread, ReportLinkState(t)
  PROVE  AllMatch'
<1>1. /\ thread[t].pc = "notify" /\ UNCHANGED <<state, io>>
      /\ Resume(t, thread[t].then, thread[t].link)
      /\ \/ rxQ' = rxQ
         \/ rxQ' = rxQ \o ForAllLinks("up_")
         \/ rxQ' = rxQ \o ForAllLinks("down_")
  BY DEF ReportLinkState, EngineStep, linkVars
<1>2. QueueKept
  BY <1>1, ConcatGrows, GrowsKept, UnchangedKept DEF Fn, Kind
<1>3. thread \in [Thread -> ThreadState]
  BY DEF TypeOK
<1>4. /\ \A u \in Thread : u # t => thread'[u] = thread[u]
      /\ \/ thread'[t].pc = "after" /\ thread'[t].link = thread[t].link /\ thread'[t].then = thread[t].then
         \/ thread'[t].pc = "idle" /\ thread[t].then = "none"
  BY <1>1, <1>3 DEF Resume, Idle
<1>5. \A l \in Link, k \in Kind : HoldsSame(t, l, k)
  BY <1>1, <1>4, DecidesIs DEF HoldsSame, Holds
<1>6. \A u \in Thread, l \in Link, k \in Kind : HoldsSame(u, l, k)
  BY <1>4, <1>5 DEF HoldsSame, Holds
<1>7. \A u \in Thread : thread'[u].pc = "closed" => thread'[u] = thread[u]
  BY <1>4
<1> QED
  BY <1>1, <1>2, <1>6, <1>7, StayMatches

\* connect() starts an attempt: it is due no more.
LEMMA ConnectMatches ==
  ASSUME TypeOK, AllMatch, NEW l \in Link, state' = state, Connect(l),
         Due(l, "connect"), ~Due(l, "connect")', Single(l, "connect")',
         Due(l, "disconnect")' <=> Due(l, "disconnect"), Single(l, "disconnect")',
         \A m \in Link, k \in Kind : m # l => (Due(m, k)' <=> Due(m, k)) /\ Single(m, k)',
         \A u \in Thread : thread'[u].pc = "closed" => thread'[u] = thread[u]
  PROVE  AllMatch'
<1>1. io'[l] = "opening" /\ \A m \in Link : m # l => io'[m] = io[m]
  BY DEF Connect, TypeOK
<1>2. Matches(l) /\ ~Due(l, "disconnect") /\ state[l] \in {"Connecting", "DisconnectPending"}
  BY DEF AllMatch, Matches
<1>3. \A u \in Thread : ~(thread'[u].pc = "closed" /\ thread'[u].link = l)
  <2> SUFFICES ASSUME NEW u \in Thread, thread[u].pc = "closed", thread[u].link = l
               PROVE  FALSE
    OBVIOUS
  <2>1. Holds(u, l, "disconnect")
    BY DEF Holds
  <2> QED
    BY <1>2, <2>1 DEF Due, Held
<1>4. Matches(l)'
  BY <1>1, <1>2, <1>3, DecidesIs DEF Matches, Settled, Reconn
<1>5. \A m \in Link : m # l => Matches(m)'
  BY <1>1, OtherMatches DEF AllMatch, Matches
<1> QED
  BY <1>4, <1>5 DEF AllMatch

\* disconnect() closes the connection, and is under way until it calls disconnected().
LEMMA DisconnectMatches ==
  ASSUME TypeOK, AllMatch, NEW l \in Link, state' = state, Disconnect(l), Due(l, "disconnect"),
         \A m \in Link, k \in Kind : (Due(m, k)' <=> Due(m, k)) /\ Single(m, k)',
         \A u \in Thread : thread'[u].pc = "closed" => thread'[u] = thread[u] \/ thread'[u].link = l
  PROVE  AllMatch'
<1>1. io'[l] = "idle" /\ \A m \in Link : m # l => io'[m] = io[m]
  BY DEF Disconnect, TypeOK
<1>2. Matches(l) /\ state[l] \in {"Disconnecting", "ConnectPending"}
  BY DEF AllMatch, Matches
<1>3. Matches(l)'
  BY <1>1, <1>2, DecidesIs DEF Matches, Settled, Reconn
<1>4. ASSUME NEW m \in Link, m # l
      PROVE  Matches(m)'
  <2>1. \A u \in Thread : thread'[u].pc = "closed" /\ thread'[u].link = m => io[m] = "idle"
    BY <1>4 DEF AllMatch, Matches
  <2> QED
    BY <1>1, <1>4, <2>1, OtherMatches DEF AllMatch
<1> QED
  BY <1>3, <1>4 DEF AllMatch

LEMMA RxConnectMatches ==
  ASSUME TypeOK, AllMatch, NEW l \in Link, RxConnect(l)
  PROVE  AllMatch'
<1>1. Dequeue("connect", l) /\ Connect(l) /\ UNCHANGED <<state, thread>>
  BY DEF RxConnect, linkVars
<1>2. Shifts /\ rxQ[1] = [fn |-> "connect", link |-> l]
  BY <1>1, DequeueShifts
<1>3. Waits(1, l, "connect") /\ \A m \in Link, k \in Kind : m # l \/ k = "disconnect" => ~Waits(1, m, k)
  BY <1>2, DecidesIs DEF Waits
<1>4. \A m \in Link, k \in Kind, u \in Thread : HoldsSame(u, m, k)
  BY <1>1 DEF HoldsSame, Holds
<1>5. Due(l, "connect") /\ ~Due(l, "connect")' /\ Single(l, "connect")'
  BY <1>2, <1>3, <1>4, DueTaken, DecidesIs DEF AllMatch, Matches
<1>6. \A m \in Link, k \in Kind : m # l \/ k = "disconnect" => (Due(m, k)' <=> Due(m, k)) /\ Single(m, k)'
  BY <1>2, <1>3, <1>4, ShiftSame, DueSame DEF AllMatch, Matches
<1> QED
  BY <1>1, <1>5, <1>6, ConnectMatches, DecidesIs

LEMMA RxDisconnectMatches ==
  ASSUME TypeOK, AllMatch, NEW l \in Link, RxDisconnect(l)
  PROVE  AllMatch'
<1>1. /\ Dequeue("disconnect", l) /\ Disconnect(l) /\ UNCHANGED state /\ IsIdle(Rx) /\ Rx \in Thread
      /\ thread' = [thread EXCEPT ![Rx] = [pc |-> "closed", link |-> l]] /\ thread \in [Thread -> ThreadState]
  BY DEF RxDisconnect, linkVars, Dequeue, Thread, TypeOK
<1>2. Shifts /\ rxQ[1] = [fn |-> "disconnect", link |-> l]
  BY <1>1, DequeueShifts
<1>3. Waits(1, l, "disconnect") /\ \A m \in Link, k \in Kind : m # l \/ k = "connect" => ~Waits(1, m, k)
  BY <1>2, DecidesIs DEF Waits
<1>4. \A u \in Thread : u # Rx => thread'[u] = thread[u]
  BY <1>1
<1>5. thread'[Rx] = [pc |-> "closed", link |-> l] /\ Free(Rx)
  BY <1>1, IdleIsFree DEF IsIdle
<1>6. \A m \in Link, k \in Kind : OthersSame(Rx, m, k)
  BY <1>4 DEF OthersSame, HoldsSame, Holds
<1>7. Holds(Rx, l, "disconnect")' /\ \A m \in Link, k \in Kind : m # l \/ k = "connect" => ~Holds(Rx, m, k)'
  BY <1>5, DecidesIs DEF Holds
<1>8. \A m \in Link, k \in Kind : m # l \/ k = "connect" => \A u \in Thread : HoldsSame(u, m, k)
  BY <1>5, <1>6, <1>7 DEF Free, OthersSame, HoldsSame
<1>9. Due(l, "disconnect") /\ Due(l, "disconnect")' /\ Single(l, "disconnect")'
  BY <1>1, <1>2, <1>3, <1>6, <1>7, DueBegins, DecidesIs DEF AllMatch, Matches
<1>10. \A m \in Link, k \in Kind : m # l \/ k = "connect" => (Due(m, k)' <=> Due(m, k)) /\ Single(m, k)'
  BY <1>2, <1>3, <1>8, ShiftSame, DueSame DEF AllMatch, Matches
<1>11. \A m \in Link, k \in Kind : (Due(m, k)' <=> Due(m, k)) /\ Single(m, k)'
  BY <1>9, <1>10, DecidesIs
<1> QED
  BY <1>1, <1>4, <1>5, <1>9, <1>11, DisconnectMatches

\* A thread makes the call it has decided, or queues it for the rx thread.
LEMMA FinishMatches ==
  ASSUME TypeOK, AllMatch, NEW t \in Thread, FinishOperation(t)
  PROVE  AllMatch'
<1>1. PICK l \in Link, then \in Then :
        thread[t].pc = "after" /\ l = thread[t].link /\ then = thread[t].then
  <2>1. thread[t] \in ThreadState /\ thread[t].pc = "after"
    BY DEF TypeOK, FinishOperation
  <2>2. thread[t] \in After
    BY <2>1 DEF ThreadState, Idle, Sampled, Notify, After, Closing
  <2> QED
    BY <2>1, <2>2 DEF After
<1>2. state' = state /\ thread \in [Thread -> ThreadState]
  BY DEF FinishOperation, TypeOK
<1>3. \A m \in Link, k \in Kind : Holds(t, m, k) <=> m = l /\ then \in Decides(k)
  BY <1>1 DEF Holds
<1>4. \A u \in Thread : u # t => thread'[u] = thread[u]
  BY <1>2 DEF FinishOperation
<1>5. \A m \in Link, k \in Kind : OthersSame(t, m, k)
  BY <1>4 DEF OthersSame, HoldsSame, Holds
<1>6. \A m \in Link, k \in Kind : Single(m, k)
  BY DEF AllMatch, Matches
<1>7. CASE then = "invokeConnect" /\ t = Rx
  <2>1. Connect(l) /\ rxQ' = rxQ /\ thread'[t] = Idle
    BY <1>1, <1>2, <1>7 DEF FinishOperation
  <2>2. \A m \in Link, k \in Kind : ~Holds(t, m, k)' /\ QueueSame(m, k)
    BY <2>1, UnchangedKept DEF Holds, Idle, QueueKept
  <2>3. Due(l, "connect") /\ ~Due(l, "connect")' /\ Single(l, "connect")'
    BY <1>3, <1>5, <1>6, <1>7, <2>2, DueDone, DecidesIs DEF Due, Held
  <2>4. \A m \in Link, k \in Kind : m # l \/ k = "disconnect" => \A u \in Thread : HoldsSame(u, m, k)
    BY <1>3, <1>5, <1>7, <2>2, DecidesIs DEF OthersSame, HoldsSame
  <2>5. \A m \in Link, k \in Kind : m # l \/ k = "disconnect" => (Due(m, k)' <=> Due(m, k)) /\ Single(m, k)'
    BY <1>6, <2>2, <2>4, DueSame
  <2>6. \A u \in Thread : thread'[u].pc = "closed" => thread'[u] = thread[u]
    BY <1>4, <2>1 DEF Idle
  <2> QED
    BY <1>2, <2>1, <2>3, <2>5, <2>6, ConnectMatches, DecidesIs
<1>8. CASE then = "invokeDisconnect" /\ t = Rx
  <2>1. Disconnect(l) /\ rxQ' = rxQ /\ thread'[t] = [pc |-> "closed", link |-> l]
    BY <1>1, <1>2, <1>8 DEF FinishOperation
  <2>2. \A m \in Link, k \in Kind : QueueSame(m, k) /\ (Holds(t, m, k)' <=> m = l /\ k = "disconnect")
    BY <2>1, UnchangedKept DEF Holds, QueueKept
  <2>3. \A m \in Link, k \in Kind : \A u \in Thread : HoldsSame(u, m, k)
    BY <1>3, <1>5, <1>8, <2>2, DecidesIs DEF OthersSame, HoldsSame
  <2>4. \A m \in Link, k \in Kind : (Due(m, k)' <=> Due(m, k)) /\ Single(m, k)'
    BY <1>6, <2>2, <2>3, DueSame
  <2>5. Due(l, "disconnect")
    BY <1>3, <1>8, DecidesIs DEF Due, Held
  <2>6. \A u \in Thread : thread'[u].pc = "closed" => thread'[u] = thread[u] \/ thread'[u].link = l
    BY <1>4, <2>1
  <2> QED
    BY <1>2, <2>1, <2>4, <2>5, <2>6, DisconnectMatches
<1>9. ASSUME NEW k \in Kind, then \in Decides(k), Run(k, l), thread'[t] = Idle, io' = io
      PROVE  AllMatch'
  <2>1. \A m \in Link, j \in Kind : ~Holds(t, m, j)'
    BY <1>9 DEF Holds, Idle
  <2>2. Due(l, k) /\ Due(l, k)' /\ Single(l, k)'
    BY <1>3, <1>5, <1>6, <1>9, <2>1, DuePassed DEF Due, Held
  <2>3. \A m \in Link, j \in Kind : m # l \/ j # k => QueueSame(m, j)
    BY <1>9, RunOther, DecidesIs DEF Fn
  <2>4. \A m \in Link, j \in Kind : m # l \/ j # k => \A u \in Thread : HoldsSame(u, m, j)
    <3>1. \A j \in Kind : j # k => then \notin Decides(j)
      BY <1>9, DecidesIs
    <3> QED
      BY <1>3, <1>5, <2>1, <3>1 DEF OthersSame, HoldsSame
  <2>5. \A m \in Link, j \in Kind : m # l \/ j # k => (Due(m, j)' <=> Due(m, j)) /\ Single(m, j)'
    BY <1>6, <2>3, <2>4, DueSame
  <2>6. \A m \in Link : \A u \in Thread : thread'[u].pc = "closed" /\ thread'[u].link = m => io[m] = "idle"
    BY <1>4, <1>9 DEF Idle, AllMatch, Matches
  <2>7. \A m \in Link, j \in Kind : (Due(m, j)' <=> Due(m, j)) /\ Single(m, j)'
    BY <2>2, <2>5
  <2> QED
    BY <1>2, <1>9, <2>6, <2>7, OtherMatches DEF AllMatch
<1>10. CASE then \in {"runConnect", "invokeConnect"} /\ ~(then = "invokeConnect" /\ t = Rx)
  <2>1. Run("connect", l) /\ thread'[t] = Idle /\ io' = io
    BY <1>1, <1>2, <1>10 DEF FinishOperation
  <2> QED
    BY <1>9, <1>10, <2>1, DecidesIs
<1>11. CASE then \in {"runDisconnect", "invokeDisconnect"} /\ ~(then = "invokeDisconnect" /\ t = Rx)
  <2>1. Run("disconnect", l) /\ thread'[t] = Idle /\ io' = io
    BY <1>1, <1>2, <1>11 DEF FinishOperation
  <2> QED
    BY <1>9, <1>11, <2>1, DecidesIs
<1>12. CASE then \in {"runReconnect", "setTimer", "none"}
  <2>1. /\ thread'[t] = Idle /\ io' = io
        /\ rxQ' = rxQ \/ Run("reconnect_", l)
    BY <1>1, <1>2, <1>12 DEF FinishOperation
  <2>2. QueueKept
    BY <2>1, UnchangedKept, RunGrows, GrowsKept DEF Fn, Kind
  <2>3. \A m \in Link, k \in Kind : HoldsSame(t, m, k)
    BY <1>3, <1>12, <2>1, DecidesIs DEF HoldsSame, Holds, Idle
  <2>4. \A u \in Thread, m \in Link, k \in Kind : HoldsSame(u, m, k)
    BY <1>5, <2>3 DEF OthersSame
  <2>5. \A u \in Thread : thread'[u].pc = "closed" => thread'[u] = thread[u]
    BY <1>4, <2>1 DEF Idle
  <2> QED
    BY <1>2, <2>1, <2>2, <2>4, <2>5, StayMatches
<1> QED
  BY <1>7, <1>8, <1>10, <1>11, <1>12 DEF Then

LEMMA MatchedInit == Init => Matched
<1> SUFFICES ASSUME Init, NEW l \in Link PROVE Matches(l)
  BY DEF Matched
<1>1. state[l] = "Down" /\ io[l] = "idle" /\ rxQ = <<>> /\ \A t \in Thread : thread[t] = [pc |-> "idle"]
  BY DEF Init, Idle
<1>2. \A k \in Kind : ~Held(l, k) /\ ~Queued(l, k) /\ OneHeld(l, k) /\ OneQueued(l, k)
  BY <1>1 DEF Held, Holds, Queued, OneHeld, OneQueued
<1> QED
  BY <1>1, <1>2, DecidesIs DEF Matches, Single, Due, Settled, Reconn

LEMMA MatchedNext == TypeOK /\ TypeOK' /\ Matched /\ [Next]_vars => Matched'
<1> SUFFICES ASSUME TypeOK, TypeOK', Matched, [Next]_vars, faults' = 0
             PROVE  AllMatch'
  BY DEF Matched, AllMatch
<1>1. CASE faults' = faults /\ ~ \E t \in Callback, l \in Link : Fault(t, l)
  <2>1. AllMatch
    BY <1>1 DEF Matched, AllMatch
  <2>2. ASSUME NEW t \in Thread, NEW l, NEW enable, UNCHANGED <<state, io>>, QueueKept, IsIdle(t),
               SampleEngine(t, l, enable)
        PROVE  AllMatch'
    <3>1. /\ \A u \in Thread : u # t => thread'[u] = thread[u]
          /\ thread'[t].pc = "sampled"
      BY <2>2 DEF TypeOK, SampleEngine
    <3>2. \A u \in Thread, m \in Link, k \in Kind : HoldsSame(u, m, k)
      BY <2>2, <3>1 DEF HoldsSame, Holds, IsIdle
    <3>3. \A u \in Thread : thread'[u].pc = "closed" => thread'[u] = thread[u]
      BY <3>1
    <3> QED
      BY <2>1, <2>2, <3>2, <3>3, StayMatches
  <2>3. ASSUME UNCHANGED <<state, io, thread>>, QueueKept
        PROVE  AllMatch'
    <3>1. \A u \in Thread, l \in Link, k \in Kind : HoldsSame(u, l, k)
      BY <2>3 DEF HoldsSame, Holds
    <3> QED
      BY <2>1, <2>3, <3>1, StayMatches
  <2>4. CASE Start \/ Stop
    <3>1. /\ UNCHANGED <<state, io, thread>>
          /\ rxQ' = rxQ \/ (\E fn \in {"up_", "down_"} : rxQ' = rxQ \o ForAllLinks(fn))
      BY <2>4 DEF Start, Stop, linkVars
    <3> QED
      BY <2>3, <3>1, ConcatGrows, GrowsKept, UnchangedKept DEF Fn, Kind
  <2>5. CASE \E t \in Thread : ThreadStep(t)
    <3>1. PICK t \in Thread : ThreadStep(t)
      BY <2>5
    <3>2. CASE UpLink(t)
      BY <2>1, <3>2, UpMatches, UnchangedKept DEF UpLink
    <3> QED
      BY <2>1, <3>1, <3>2, ReportMatches, FinishMatches, ClosedMatches DEF ThreadStep
  <2>6. ASSUME NEW l \in Link, RxStep(l)
        PROVE  AllMatch'
    <3>1. Rx \in Thread
      BY DEF Thread
    <3>2. CASE RxUp(l)
      <4>1. Dequeue("up_", l) /\ IsIdle(Rx) /\ UNCHANGED <<state, io>>
        BY <3>2 DEF RxUp, Dequeue, linkVars
      <4>2. SampleEngine(Rx, l, FALSE)
        BY <3>2 DEF RxUp
      <4>3. QueueKept
        BY <4>1, DequeueKept DEF Kind
      <4> QED
        BY <2>2, <3>1, <4>1, <4>2, <4>3
    <3>3. CASE RxDown(l)
      <4>1. Dequeue("down_", l) /\ IsIdle(Rx) /\ io' = io /\ DownLink(Rx, l, FALSE)
        BY <3>3 DEF RxDown, Dequeue
      <4>2. QueueKept
        BY <4>1, DequeueKept DEF Kind
      <4> QED
        BY <2>1, <3>1, <4>1, <4>2, DownMatches
    <3>4. CASE RxReconnect(l)
      <4>1. Dequeue("reconnect_", l) /\ io' = io
        BY <3>4 DEF RxReconnect
      <4>2. QueueKept
        BY <4>1, DequeueKept DEF Kind
      <4>3. state[l] # "ReconnectPending"
        BY <2>1 DEF AllMatch, Matches, Reconn
      <4>4. UNCHANGED <<state, thread>>
        BY <3>4, <4>3 DEF RxReconnect
      <4> QED
        BY <2>3, <4>1, <4>2, <4>4
    <3> QED
      BY <2>1, <2>6, <3>2, <3>3, <3>4, RxConnectMatches, RxDisconnectMatches DEF RxStep
  <2>7. ASSUME NEW l \in Link, FireTimer(l)
        PROVE  AllMatch'
    <3>1. Run("reconnect_", l) /\ UNCHANGED <<state, io, thread>>
      BY <2>7 DEF FireTimer
    <3>2. QueueKept
      BY <3>1, RunGrows, GrowsKept DEF Fn, Kind
    <3> QED
      BY <2>3, <3>1, <3>2
  <2>8. ASSUME NEW t \in Thread, NEW l \in Link, Up(t, l) \/ Down(t, l)
        PROVE  AllMatch'
    <3>1. IsIdle(t) /\ rxQ' = rxQ /\ io' = io /\ QueueKept
      BY <2>8, UnchangedKept DEF Up, Down
    <3>2. CASE Up(t, l)
      <4>1. UNCHANGED <<state, io>> /\ SampleEngine(t, l, TRUE)
        BY <3>1, <3>2 DEF Up, linkVars
      <4> QED
        BY <2>2, <3>1, <4>1
    <3>3. CASE Down(t, l)
      BY <2>1, <3>1, <3>3, DownMatches DEF Down
    <3> QED
      BY <2>8, <3>2, <3>3
  <2>9. ASSUME NEW t \in Callback, NEW l \in Link, Established(t, l)
        PROVE  AllMatch'
    <3>1. t \in Thread
      BY ThreadAssumption DEF Thread
    <3> QED
      BY <2>1, <2>9, <3>1, EstablishedMatches
  <2>10. CASE UNCHANGED vars
    BY <2>3, <2>10, UnchangedKept DEF vars, linkVars
  <2> QED
    BY <1>1, <2>4, <2>5, <2>6, <2>7, <2>8, <2>9, <2>10 DEF Next
<1>2. CASE \E t \in Callback, l \in Link : Fault(t, l)
  <2>1. faults' = faults + 1 /\ faults \in Nat
    BY <1>2, BoundAssumption DEF Fault, TypeOK
  <2> QED
    BY <2>1
<1>3. faults' = faults \/ \E t \in Callback, l \in Link : Fault(t, l)
  BY DEF Next, ThreadStep, RxStep, Start, Stop, ReportLinkState, UpLink, FinishOperation, Closed, RxUp, RxDown,
     RxReconnect, RxConnect, RxDisconnect, FireTimer, Up, Down, Established, vars
<1> QED
  BY <1>1, <1>2, <1>3

\* However start(), stop(), up() and down() overlap on any threads, no call of connect() or
\* disconnect() is lost or made twice: once all is quiet each link's state agrees with its
\* connection, as long as no connection has failed by itself.
THEOREM LinksMatch == Spec => []ConnectionMatchesLink
<1>1. TypeOK /\ Matched => ConnectionMatchesLink
  <2> SUFFICES ASSUME TypeOK, Quiet, NEW l \in Link, Matches(l)
               PROVE  CASE io[l] = "open"    -> state[l] = "Up"
                        [] io[l] = "opening" -> state[l] \in {"Connecting", "DisconnectPending"} \cup Reconn
                        [] io[l] = "idle"    -> state[l] \in {"Down", "Disabled", "Failed"}
    BY DEF Matched, ConnectionMatchesLink
  <2>1. \A k \in Kind : ~Due(l, k)
    BY DEF Quiet, IsIdle, Due, Held, Holds, Queued
  <2>2. state[l] \in LinkState /\ io[l] \in Io
    BY DEF TypeOK
  <2>3. ~Due(l, "connect") /\ ~Due(l, "disconnect")
    BY <2>1, DecidesIs
  <2>4. \/ state[l] \in {"Connecting", "DisconnectPending"} /\ io[l] = "opening"
        \/ state[l] = "Up" /\ io[l] = "open"
        \/ state[l] \in {"Down", "Disabled", "Failed"} /\ io[l] = "idle"
    BY <2>2, <2>3 DEF Matches, LinkState, Transient, Reconn, Settled
  <2> QED
    BY <2>4
<1> QED
  BY <1>1, TypeCorrect, MatchedInit, MatchedNext, PTL DEF Spec

-----------------------------------------------------------------------------
(* The order of up_() and down_() in the queue *)

Keeps(l) == Rests(l) => Rests(l)'

\* What is queued stays where it is.
Prefix ==
  /\ Len(rxQ) \in Nat /\ Len(rxQ') \in Nat /\ Len(rxQ) <= Len(rxQ')
  /\ \A i \in 1..Len(rxQ) : rxQ'[i] = rxQ[i]

LEMMA OffStays ==
  ASSUME Prefix, NEW l, Keeps(l), NEW i \in 1..(Len(rxQ) + 1), OffAt(l, i), NEW k \in Nat, i <= k,
         \A j \in i..(k - 1) : ~Waits(j, l, "up_")'
  PROVE  OffAt(l, k)'
<1>1. PICK n \in Nat : n = Len(rxQ) /\ i \in 1..(n + 1)
  BY DEF Prefix
<1>2. \A j \in 1..n, fn \in {"up_", "down_"} : Waits(j, l, fn)' <=> Waits(j, l, fn)
  BY <1>1 DEF Prefix, Waits
<1>3. \A j \in 1..(i - 1) : j \in 1..n /\ j \in 1..(k - 1)
  BY <1>1
<1>4. \A j \in 1..(k - 1) : j \in 1..(i - 1) \/ j \in i..(k - 1)
  BY <1>1
<1>5. CASE Rests(l) /\ \A j \in 1..(i - 1) : ~Waits(j, l, "up_")
  <2>1. \A j \in 1..(k - 1) : ~Waits(j, l, "up_")'
    BY <1>2, <1>3, <1>4, <1>5
  <2> QED
    BY <1>5, <2>1 DEF OffAt, Keeps
<1>6. CASE \E j \in 1..(i - 1) : Waits(j, l, "down_") /\ \A m \in (j + 1)..(i - 1) : ~Waits(m, l, "up_")
  <2>1. PICK j \in 1..(i - 1) : Waits(j, l, "down_") /\ \A m \in (j + 1)..(i - 1) : ~Waits(m, l, "up_")
    BY <1>6
  <2>2. j \in 1..n /\ j \in 1..(k - 1) /\ Waits(j, l, "down_")'
    BY <1>2, <1>3, <2>1
  <2>3. \A m \in (j + 1)..(k - 1) : (m \in 1..n /\ m \in (j + 1)..(i - 1)) \/ m \in i..(k - 1)
    BY <1>1, <2>1
  <2>4. \A m \in (j + 1)..(k - 1) : ~Waits(m, l, "up_")'
    BY <1>2, <2>1, <2>3
  <2> QED
    BY <2>2, <2>4 DEF OffAt
<1> QED
  BY <1>5, <1>6 DEF OffAt

LEMMA OffShifts ==
  ASSUME Shifts, NEW l, Keeps(l) \/ Waits(1, l, "up_"), Waits(1, l, "down_") => Rests(l)',
         NEW i \in 1..Len(rxQ), OffAt(l, i + 1)
  PROVE  OffAt(l, i)'
<1>1. PICK n \in Nat : /\ n = Len(rxQ) /\ n - 1 = Len(rxQ') /\ i \in 1..n /\ (i + 1) - 1 = i
                       /\ \A j \in 1..(n - 1) : rxQ'[j] = rxQ[j + 1]
  BY DEF Shifts
<1>2. \A j \in 1..(i - 1) : j + 1 \in 1..i /\ \A fn \in {"up_", "down_"} : Waits(j, l, fn)' <=> Waits(j + 1, l, fn)
  <2>1. \A j \in 1..(i - 1) : j + 1 \in 1..i /\ j \in 1..(n - 1)
    BY <1>1
  <2> QED
    BY <1>1, <2>1 DEF Waits
<1>3. CASE Rests(l) /\ \A j \in 1..i : ~Waits(j, l, "up_")
  <2>1. 1 \in 1..i
    BY <1>1
  <2>2. Rests(l)'
    BY <1>3, <2>1 DEF Keeps
  <2> QED
    BY <1>2, <1>3, <2>2 DEF OffAt
<1>4. CASE \E j \in 1..i : Waits(j, l, "down_") /\ \A m \in (j + 1)..i : ~Waits(m, l, "up_")
  <2>1. PICK j \in 1..i : Waits(j, l, "down_") /\ \A m \in (j + 1)..i : ~Waits(m, l, "up_")
    BY <1>4
  <2>2. CASE j = 1
    <3>1. \A m \in 1..(i - 1) : m + 1 \in (j + 1)..i
      BY <1>1, <2>2
    <3> QED
      BY <1>2, <2>1, <2>2, <3>1 DEF OffAt
  <2>3. CASE j # 1
    <3>1. PICK a \in 1..(i - 1) : j = a + 1
      <4>1. j - 1 \in 1..(i - 1) /\ j = (j - 1) + 1
        BY <1>1, <2>1, <2>3
      <4> QED
        BY <4>1
    <3>2. Waits(a, l, "down_")'
      BY <1>2, <2>1, <3>1
    <3>3. \A m \in (a + 1)..(i - 1) : m \in 1..(i - 1) /\ m + 1 \in (j + 1)..i
      BY <1>1, <3>1
    <3>4. \A m \in (a + 1)..(i - 1) : ~Waits(m, l, "up_")'
      BY <1>2, <2>1, <3>3
    <3> QED
      BY <3>2, <3>4 DEF OffAt
  <2> QED
    BY <2>2, <2>3
<1> QED
  BY <1>1, <1>3, <1>4 DEF OffAt

\* The queue grows by calls other than up_(), or stays.
LEMMA QueueUpsFromOff ==
  ASSUME UpsFromOff, HaltsOff, Prefix, Halting' => Halting, \A l \in Link : Keeps(l),
         \A i \in (Len(rxQ) + 1)..Len(rxQ') : rxQ'[i].fn # "up_"
  PROVE  UpsFromOff' /\ HaltsOff'
<1>1. PICK n \in Nat, m \in Nat : n = Len(rxQ) /\ m = Len(rxQ') /\ n <= m
  BY DEF Prefix
<1>2. \A l \in Link : \A i \in (n + 1)..m : ~Waits(i, l, "up_")'
  BY <1>1 DEF Waits
<1>3. ASSUME NEW l \in Link, NEW i \in 1..m, Waits(i, l, "up_")'
      PROVE  OffAt(l, i)'
  <2>1. i \in 1..n /\ i \in 1..(n + 1) /\ i \in Nat /\ i <= i
    <3>1. i \notin (n + 1)..m
      BY <1>2, <1>3
    <3> QED
      BY <1>1, <3>1
  <2>2. OffAt(l, i)
    BY <1>1, <1>3, <2>1 DEF UpsFromOff, Prefix, Waits
  <2>3. \A j \in i..(i - 1) : ~Waits(j, l, "up_")'
    OBVIOUS
  <2> QED
    BY <1>1, <2>1, <2>2, <2>3, OffStays
<1>4. ASSUME Halting', NEW l \in Link
      PROVE  OffAt(l, m + 1)'
  <2>1. n + 1 \in 1..(n + 1) /\ m + 1 \in Nat /\ n + 1 <= m + 1 /\ \A j \in (n + 1)..((m + 1) - 1) : j \in (n + 1)..m
    BY <1>1
  <2>2. OffAt(l, n + 1)
    BY <1>1, <1>4 DEF HaltsOff
  <2> QED
    BY <1>1, <1>2, <2>1, <2>2, OffStays
<1>5. HaltsOff'
  <2> SUFFICES ASSUME Halting', NEW l \in Link PROVE OffAt(l, Len(rxQ) + 1)'
    BY DEF HaltsOff
  <2> QED
    BY <1>1, <1>4 DEF OffAt
<1> QED
  BY <1>1, <1>3, <1>5 DEF UpsFromOff

\* Every link is in the list once.
LEMMA LinkPlace ==
  ASSUME NEW l \in Link
  PROVE  \E a \in 1..Len(LinkSeq) : LinkSeq[a] = l /\ \A b \in 1..Len(LinkSeq) : LinkSeq[b] = l => b = a
  BY LinkAssumption

\* start_(), or linkState() for it, queues up_() for every link behind the down_() of the last stop.
LEMMA UpsQueue ==
  ASSUME TypeOK, UpsFromOff, HaltsOff, Halting, ~Halting', \A l \in Link : Keeps(l),
         rxQ' = rxQ \o ForAllLinks("up_")
  PROVE  UpsFromOff' /\ HaltsOff'
<1>1. /\ Grows("up_") /\ Len(rxQ') = Len(rxQ) + Len(LinkSeq)
      /\ \A i \in 1..Len(LinkSeq) : rxQ'[Len(rxQ) + i] = [fn |-> "up_", link |-> LinkSeq[i]]
  BY ConcatGrows DEF Fn
<1>2. PICK n \in Nat, m \in Nat : n = Len(rxQ) /\ m = Len(LinkSeq) /\ n + m = Len(rxQ')
  <2>1. Len(LinkSeq) \in Nat
    BY LinkAssumption, LenProperties
  <2> QED
    BY <1>1, <2>1 DEF Grows
<1>3. Prefix
  BY <1>1 DEF Grows, Prefix
<1>4. ASSUME NEW l \in Link, NEW i \in 1..(n + m), Waits(i, l, "up_")'
      PROVE  OffAt(l, i)'
  <2>1. CASE i \in 1..n
    <3>1. i \in 1..(n + 1) /\ i \in Nat /\ i <= i /\ \A j \in i..(i - 1) : ~Waits(j, l, "up_")'
      BY <2>1
    <3>2. OffAt(l, i)
      BY <1>2, <1>3, <1>4, <2>1 DEF UpsFromOff, Prefix, Waits
    <3> QED
      BY <1>2, <1>3, <3>1, <3>2, OffStays
  <2>2. CASE i \notin 1..n
    <3>1. PICK a \in 1..m : i = n + a
      <4>1. i - n \in 1..m /\ i = n + (i - n)
        BY <2>2
      <4> QED
        BY <4>1
    <3>2. LinkSeq[a] = l
      <4>1. rxQ'[n + a] = [fn |-> "up_", link |-> LinkSeq[a]]
        BY <1>1, <1>2
      <4>2. rxQ'[n + a] = [fn |-> "up_", link |-> l]
        BY <1>4, <3>1 DEF Waits
      <4>3. [fn |-> "up_", link |-> LinkSeq[a]].link = [fn |-> "up_", link |-> l].link
        BY <4>1, <4>2
      <4> QED
        BY <4>3
    <3>3. \A j \in (n + 1)..(i - 1) : \E b \in 1..m : j = n + b /\ b # a
      <4> SUFFICES ASSUME NEW j \in (n + 1)..(i - 1) PROVE \E b \in 1..m : j = n + b /\ b # a
        OBVIOUS
      <4>1. j - n \in 1..m /\ j = n + (j - n) /\ j - n # a
        BY <3>1
      <4> QED
        BY <4>1
    <3>4. \A j \in (n + 1)..(i - 1) : ~Waits(j, l, "up_")'
      <4> SUFFICES ASSUME NEW j \in (n + 1)..(i - 1), Waits(j, l, "up_")' PROVE FALSE
        OBVIOUS
      <4>1. PICK b \in 1..m : j = n + b /\ b # a
        BY <3>3
      <4>2. LinkSeq[b] = l
        <5>1. rxQ'[n + b] = [fn |-> "up_", link |-> LinkSeq[b]]
          BY <1>1, <1>2
        <5>2. rxQ'[n + b] = [fn |-> "up_", link |-> l]
          BY <4>1 DEF Waits
        <5>3. [fn |-> "up_", link |-> LinkSeq[b]].link = [fn |-> "up_", link |-> l].link
          BY <5>1, <5>2
        <5> QED
          BY <5>3
      <4> QED
        BY <1>2, <3>2, <4>1, <4>2, LinkPlace
    <3>5. n + 1 \in 1..(n + 1) /\ i \in Nat /\ n + 1 <= i
      BY <3>1
    <3>6. OffAt(l, n + 1)
      BY <1>2 DEF HaltsOff
    <3> QED
      BY <1>2, <1>3, <3>4, <3>5, <3>6, OffStays
  <2> QED
    BY <2>1, <2>2
<1> QED
  BY <1>2, <1>4 DEF UpsFromOff, HaltsOff

\* stop_(), or linkState() for it, queues down_() for every link.
LEMMA DownsQueue ==
  ASSUME TypeOK, UpsFromOff, HaltsOff, \A l \in Link : Keeps(l), rxQ' = rxQ \o ForAllLinks("down_")
  PROVE  UpsFromOff' /\ HaltsOff'
<1>1. /\ Grows("down_") /\ Len(rxQ') = Len(rxQ) + Len(LinkSeq)
      /\ \A i \in 1..Len(LinkSeq) : rxQ'[Len(rxQ) + i] = [fn |-> "down_", link |-> LinkSeq[i]]
  BY ConcatGrows DEF Fn
<1>2. PICK n \in Nat, m \in Nat : n = Len(rxQ) /\ m = Len(LinkSeq) /\ n + m = Len(rxQ')
  <2>1. Len(LinkSeq) \in Nat
    BY LinkAssumption, LenProperties
  <2> QED
    BY <1>1, <2>1 DEF Grows
<1>3. Prefix
  BY <1>1 DEF Grows, Prefix
<1>4. \A l \in Link : \A i \in (n + 1)..(n + m) : ~Waits(i, l, "up_")'
  BY <1>1, <1>2 DEF Grows, Waits
<1>5. ASSUME NEW l \in Link, NEW i \in 1..(n + m), Waits(i, l, "up_")'
      PROVE  OffAt(l, i)'
  <2>1. i \in 1..n /\ i \in 1..(n + 1) /\ i \in Nat /\ i <= i
    <3>1. i \notin (n + 1)..(n + m)
      BY <1>4, <1>5
    <3> QED
      BY <1>2, <3>1
  <2>2. OffAt(l, i)
    BY <1>2, <1>3, <1>5, <2>1 DEF UpsFromOff, Prefix, Waits
  <2>3. \A j \in i..(i - 1) : ~Waits(j, l, "up_")'
    OBVIOUS
  <2> QED
    BY <1>2, <1>3, <2>1, <2>2, <2>3, OffStays
<1>6. ASSUME NEW l \in Link
      PROVE  OffAt(l, (n + m) + 1)'
  <2>1. PICK a \in 1..m : LinkSeq[a] = l
    BY <1>2, LinkPlace
  <2>2. Waits(n + a, l, "down_")'
    BY <1>1, <1>2, <2>1 DEF Waits
  <2>3. n + a \in 1..(((n + m) + 1) - 1) /\ \A j \in ((n + a) + 1)..(((n + m) + 1) - 1) : j \in (n + 1)..(n + m)
    BY <2>1
  <2> QED
    BY <1>4, <2>2, <2>3 DEF OffAt
<1>7. HaltsOff'
  <2> SUFFICES ASSUME NEW l \in Link PROVE OffAt(l, Len(rxQ) + 1)'
    BY DEF HaltsOff
  <2> QED
    BY <1>2, <1>6 DEF OffAt
<1> QED
  BY <1>2, <1>5, <1>7 DEF UpsFromOff

\* The first call leaves the queue.
LEMMA ShiftQueue ==
  ASSUME UpsFromOff, HaltsOff, Shifts, engine' = engine, \A l \in Link : Keeps(l) \/ Waits(1, l, "up_"),
         \A l \in Link : Waits(1, l, "down_") => Rests(l)'
  PROVE  UpsFromOff' /\ HaltsOff'
<1>1. PICK n \in Nat : n = Len(rxQ) /\ n > 0 /\ n - 1 = Len(rxQ')
  BY DEF Shifts
<1>2. ASSUME NEW l \in Link, NEW i \in 1..(n - 1), Waits(i, l, "up_")'
      PROVE  OffAt(l, i)'
  <2>1. i \in 1..n /\ i + 1 \in 1..n
    BY <1>1
  <2>2. Waits(i + 1, l, "up_")
    BY <1>1, <1>2 DEF Shifts, Waits
  <2>3. OffAt(l, i + 1)
    BY <1>1, <2>1, <2>2 DEF UpsFromOff
  <2> QED
    BY <1>1, <2>1, <2>3, OffShifts
<1>3. ASSUME Halting', NEW l \in Link
      PROVE  OffAt(l, n)'
  <2>1. n \in 1..n
    BY <1>1
  <2>2. OffAt(l, n + 1)
    BY <1>1, <1>3 DEF HaltsOff, Halting
  <2> QED
    BY <1>1, <2>1, <2>2, OffShifts
<1>4. HaltsOff'
  <2> SUFFICES ASSUME Halting', NEW l \in Link PROVE OffAt(l, Len(rxQ) + 1)'
    BY DEF HaltsOff
  <2>1. Len(rxQ') + 1 = n
    BY <1>1
  <2> QED
    BY <1>3, <2>1 DEF OffAt
<1> QED
  BY <1>1, <1>2, <1>4 DEF UpsFromOff

\* A link that is off stays off, but for up_().
StaysOff ==
  /\ \A l \in Link : state[l] \in Off /\ (Sampling(l) => thread'[Rx] = thread[Rx]) => state'[l] \in Off
  /\ \A t \in Thread : thread'[t].pc = "sampled" => thread'[t] = thread[t]

LEMMA OffNexts ==
  /\ \A s \in LinkState, en \in BOOLEAN : DownNext(s, en) \in Off
  /\ \A s \in Off, en \in BOOLEAN : DisconnectedNext(s, en) \in Off
<1>1. ASSUME NEW s \in LinkState, NEW en \in BOOLEAN
      PROVE  DownNext(s, en) \in Off
  BY Zenon DEF DownNext, Off, LinkState, Transient, Reconn
<1>2. ASSUME NEW s \in Off, NEW en \in BOOLEAN
      PROVE  DisconnectedNext(s, en) \in Off
  BY Zenon DEF DisconnectedNext, Off, Reconn
<1> QED
  BY <1>1, <1>2

LEMMA MoveStaysOff ==
  ASSUME TypeOK, NEW t \in Thread, NEW l \in Link, NEW next, NEW then \in Then, MoveLink(t, l, next, then),
         state[l] \in Off => next \in Off
  PROVE  StaysOff
<1>1. /\ \A u \in Thread : u # t => thread'[u] = thread[u]
      /\ thread'[t].pc \in {"idle", "notify", "after"}
      /\ state' = [state EXCEPT ![l] = next]
  BY MoveHolds
<1>2. \A u \in Link : state[u] \in Off => state'[u] \in Off
  BY <1>1 DEF TypeOK
<1> QED
  BY <1>1, <1>2 DEF StaysOff

LEMMA SameStaysOff ==
  ASSUME UNCHANGED state, \A t \in Thread : thread'[t] = thread[t] \/ thread'[t].pc \in {"idle", "after", "closed"}
  PROVE  StaysOff
  BY DEF StaysOff

LEMMA DisconnectedStaysOff ==
  ASSUME TypeOK, NEW t \in Thread, NEW l \in Link, DisconnectedLink(t, l)
  PROVE  StaysOff
<1>1. enabled[l] \in BOOLEAN
  BY DEF TypeOK
<1>2. state[l] \in Off => DisconnectedNext(state[l], enabled[l]) \in Off
  BY <1>1, OffNexts
<1>3. (IF state[l] = "ConnectPending" /\ enabled[l] THEN "runConnect" ELSE "none") \in Then
  BY DEF Then
<1> QED
  BY <1>2, <1>3, MoveStaysOff DEF DisconnectedLink

LEMMA ReconnectStaysOff ==
  ASSUME TypeOK, NEW t \in Thread, NEW l \in Link, NEW immediate \in BOOLEAN, ReconnectLink(t, l, immediate)
  PROVE  StaysOff
<1>1. CASE state[l] \in {"Connecting", "Reconnecting", "Up"}
  <2>1. MoveLink(t, l, "ReconnectPending", IF immediate THEN "runReconnect" ELSE "setTimer")
    BY <1>1 DEF ReconnectLink
  <2>2. state[l] \notin Off /\ (IF immediate THEN "runReconnect" ELSE "setTimer") \in Then
    BY <1>1 DEF Off, Then
  <2> QED
    BY <2>1, <2>2, MoveStaysOff
<1>2. CASE state[l] = "DisconnectPending"
  <2>1. MoveLink(t, l, "DisconnectPending", "runDisconnect")
    BY <1>2 DEF ReconnectLink
  <2> QED
    BY <2>1, MoveStaysOff DEF Off, Then
<1>3. CASE UNCHANGED <<state, thread>>
  BY <1>3, SameStaysOff
<1> QED
  BY <1>1, <1>2, <1>3 DEF ReconnectLink

LEMMA ConnectedStaysOff ==
  ASSUME TypeOK, NEW t \in Thread, NEW l \in Link, ConnectedLink(t, l)
  PROVE  StaysOff
<1>1. CASE state[l] \in Reconn \cup {"Connecting"}
  <2>1. MoveLink(t, l, "Up", "none")
    BY <1>1 DEF ConnectedLink, Reconn
  <2>2. state[l] \notin Off
    BY <1>1 DEF Off, Reconn
  <2> QED
    BY <2>1, <2>2, MoveStaysOff DEF Then
<1>2. CASE state[l] = "DisconnectPending"
  <2>1. MoveLink(t, l, "Disconnecting", "runDisconnect")
    BY <1>2 DEF ConnectedLink, Reconn
  <2> QED
    BY <2>1, MoveStaysOff DEF Off, Then
<1>3. CASE UNCHANGED <<state, thread>>
  BY <1>3, SameStaysOff
<1> QED
  BY <1>1, <1>2, <1>3 DEF ConnectedLink

LEMMA ReconnectingStaysOff ==
  ASSUME TypeOK, NEW t \in Thread, NEW l \in Link, ReconnectingLink(t, l)
  PROVE  StaysOff
<1>1. MoveLink(t, l, IF state[l] = "Up" THEN "Connecting" ELSE state[l], "none")
  BY DEF ReconnectingLink
<1>2. state[l] \in Off => (IF state[l] = "Up" THEN "Connecting" ELSE state[l]) \in Off
  BY DEF Off
<1> QED
  BY <1>1, <1>2, MoveStaysOff DEF Then

LEMMA DownStaysOff ==
  ASSUME TypeOK, NEW t \in Thread, NEW l \in Link, NEW disable \in BOOLEAN, DownLink(t, l, disable)
  PROVE  StaysOff /\ state'[l] \in Off /\ thread'[t].pc \in {"idle", "notify", "after"}
         /\ \A m \in Link : m # l => state'[m] = state[m]
<1> DEFINE en == enabled[l] /\ ~disable
           then == IF state[l] \in Reconn \cup {"Up"} THEN "invokeDisconnect" ELSE "none"
<1>1. MoveLink(t, l, DownNext(state[l], en), then) /\ then \in Then
  BY DEF DownLink, Then
<1>2. state[l] \in LinkState /\ en \in BOOLEAN
  BY DEF TypeOK
<1>3. DownNext(state[l], en) \in Off
  BY <1>2, OffNexts
<1>4. StaysOff
  BY <1>1, <1>3, MoveStaysOff
<1>5. thread'[t].pc \in {"idle", "notify", "after"} /\ state' = [state EXCEPT ![l] = DownNext(state[l], en)]
  BY <1>1, MoveHolds
<1> QED
  BY <1>3, <1>4, <1>5 DEF TypeOK

\* up_() itself, on the rx thread.
LEMMA UpStaysOff ==
  ASSUME TypeOK, NEW t \in Thread, SampledOff, UpLink(t)
  PROVE  StaysOff
<1>1. PICK l \in Link : l = thread[t].link /\ thread[t].pc = "sampled"
  <2>1. thread[t] \in ThreadState /\ thread[t].pc = "sampled"
    BY DEF TypeOK, UpLink
  <2>2. thread[t] \in Sampled
    BY <2>1 DEF ThreadState, Idle, Sampled, Notify, After, Closing
  <2> QED
    BY <2>1, <2>2 DEF Sampled
<1>2. t = Rx /\ Sampling(l)
  BY <1>1 DEF SampledOff, Sampling
<1> DEFINE running == thread[t].running
           en == enabled[l] \/ thread[t].enable
           connect == state[l] \in {"Disabled", "Down", "Failed"} /\ running
           next == UpNext(state[l], en, running)
           then == IF connect THEN "invokeConnect" ELSE "none"
<1>3. MoveLink(t, l, next, then) /\ then \in Then
  BY <1>1 DEF UpLink, Then
<1>4. /\ \A u \in Thread : u # t => thread'[u] = thread[u]
      /\ thread'[t].pc \in {"idle", "notify", "after"}
      /\ state' = [state EXCEPT ![l] = next]
  BY <1>3, MoveHolds
<1>5. thread'[Rx] # thread[Rx]
  BY <1>1, <1>2, <1>4
<1>6. \A m \in Link : m # l => state'[m] = state[m]
  BY <1>4 DEF TypeOK
<1>7. ASSUME NEW m \in Link, state[m] \in Off, Sampling(m) => thread'[Rx] = thread[Rx]
      PROVE  state'[m] \in Off
  <2>1. m # l
    BY <1>2, <1>5, <1>7
  <2> QED
    BY <1>6, <1>7, <2>1
<1> QED
  BY <1>4, <1>7 DEF StaysOff

LEMMA StaysKeeps ==
  ASSUME TypeOK, SampledOff, StaysOff
  PROVE  SampledOff' /\ \A l \in Link : Keeps(l)
<1>1. ASSUME NEW t \in Thread, thread'[t].pc = "sampled"
      PROVE  t = Rx /\ state'[thread'[t].link] \in Off
  <2>1. thread'[t] = thread[t] /\ thread[t].pc = "sampled" /\ t = Rx /\ state[thread[t].link] \in Off
    BY <1>1 DEF StaysOff, SampledOff
  <2>2. thread[t].link \in Link
    <3>1. thread[t] \in ThreadState
      BY DEF TypeOK
    <3>2. thread[t] \in Sampled
      BY <2>1, <3>1 DEF ThreadState, Idle, Sampled, Notify, After, Closing
    <3> QED
      BY <3>2 DEF Sampled
  <2> QED
    BY <2>1, <2>2 DEF StaysOff
<1>2. Rx \in Thread
  BY DEF Thread
<1>3. ASSUME NEW l \in Link, Rests(l)
      PROVE  Rests(l)'
  BY <1>2, <1>3 DEF Rests, Sampling, StaysOff
<1> QED
  BY <1>1, <1>3 DEF SampledOff, Keeps

LEMMA PrefixIs ==
  ASSUME TypeOK
  PROVE  /\ rxQ' = rxQ => Prefix /\ \A i \in (Len(rxQ) + 1)..Len(rxQ') : rxQ'[i].fn # "up_"
         /\ \A fn : Grows(fn) /\ fn # "up_" =>
              Prefix /\ \A i \in (Len(rxQ) + 1)..Len(rxQ') : rxQ'[i].fn # "up_"
<1>1. Len(rxQ) \in Nat
  BY LenProperties DEF TypeOK
<1> QED
  BY <1>1 DEF Prefix, Grows

\* An operation of another thread, or of the rx thread between two calls.
LEMMA StaysUpFromOff ==
  ASSUME TypeOK, UpFromOff, StaysOff, Halting' => Halting,
         rxQ' = rxQ \/ \E fn \in Fn \ {"up_"}, l \in Link : Run(fn, l)
  PROVE  UpFromOff'
<1>1. SampledOff' /\ \A l \in Link : Keeps(l)
  BY StaysKeeps DEF UpFromOff
<1>2. rxQ' = rxQ \/ \E fn : Grows(fn) /\ fn # "up_"
  BY RunGrows
<1>3. Prefix /\ \A i \in (Len(rxQ) + 1)..Len(rxQ') : rxQ'[i].fn # "up_"
  BY <1>2, PrefixIs
<1> QED
  BY <1>1, <1>3, QueueUpsFromOff DEF UpFromOff

\* A call of another function than up_() and down_() leaves the queue.
LEMMA DequeueUpFromOff ==
  ASSUME TypeOK, UpFromOff, StaysOff, engine' = engine, NEW fn \in Fn \ {"up_", "down_"}, NEW l \in Link,
         Dequeue(fn, l)
  PROVE  UpFromOff'
<1>1. SampledOff' /\ \A m \in Link : Keeps(m)
  BY StaysKeeps DEF UpFromOff
<1>2. Shifts /\ rxQ[1] = [fn |-> fn, link |-> l]
  BY DequeueShifts
<1>3. \A m \in Link : ~Waits(1, m, "down_")
  BY <1>2 DEF Waits
<1> QED
  BY <1>1, <1>2, <1>3, ShiftQueue DEF UpFromOff

LEMMA RxUpUpFromOff ==
  ASSUME TypeOK, UpFromOff, NEW l \in Link, RxUp(l)
  PROVE  UpFromOff'
<1>1. /\ Dequeue("up_", l) /\ IsIdle(Rx) /\ engine' = engine /\ state' = state /\ Rx \in Thread
      /\ \E v : v.pc = "sampled" /\ v.link = l /\ thread' = [thread EXCEPT ![Rx] = v]
  BY DEF RxUp, Dequeue, SampleEngine, linkVars, Thread
<1>2. Shifts /\ rxQ[1] = [fn |-> "up_", link |-> l]
  BY <1>1, DequeueShifts
<1>3. Waits(1, l, "up_") /\ \A m \in Link : ~Waits(1, m, "down_")
  BY <1>2 DEF Waits
<1>4. state[l] \in Off
  <2>1. 1 \in 1..Len(rxQ)
    BY <1>2 DEF Shifts
  <2>2. OffAt(l, 1)
    BY <1>3, <2>1 DEF UpFromOff, UpsFromOff
  <2>3. \A j : j \notin 1..(1 - 1)
    OBVIOUS
  <2> QED
    BY <2>2, <2>3 DEF OffAt, Rests
<1>5. /\ thread'[Rx].pc = "sampled" /\ thread'[Rx].link = l
      /\ \A t \in Thread : t # Rx => thread'[t] = thread[t]
  BY <1>1 DEF TypeOK
<1>6. SampledOff'
  BY <1>1, <1>4, <1>5 DEF UpFromOff, SampledOff
<1>7. ASSUME NEW m \in Link, ~Waits(1, m, "up_")
      PROVE  Keeps(m)
  <2>1. m # l
    BY <1>3, <1>7
  <2> QED
    BY <1>1, <1>5, <2>1 DEF Keeps, Rests, Sampling
<1> QED
  BY <1>1, <1>2, <1>3, <1>6, <1>7, ShiftQueue DEF UpFromOff

LEMMA RxDownUpFromOff ==
  ASSUME TypeOK, UpFromOff, NEW l \in Link, RxDown(l)
  PROVE  UpFromOff'
<1>1. Dequeue("down_", l) /\ engine' = engine /\ Rx \in Thread /\ DownLink(Rx, l, FALSE)
  BY DEF RxDown, Thread
<1>2. Shifts /\ rxQ[1] = [fn |-> "down_", link |-> l]
  BY <1>1, DequeueShifts
<1>3. StaysOff /\ state'[l] \in Off /\ thread'[Rx].pc # "sampled"
  BY <1>1, DownStaysOff
<1>4. SampledOff' /\ \A m \in Link : Keeps(m)
  BY <1>3, StaysKeeps DEF UpFromOff
<1>5. ASSUME NEW m \in Link, Waits(1, m, "down_")
      PROVE  Rests(m)'
  <2>1. [fn |-> "down_", link |-> l].link = [fn |-> "down_", link |-> m].link
    BY <1>2, <1>5 DEF Waits
  <2> QED
    BY <1>3, <2>1 DEF Rests, Sampling
<1> QED
  BY <1>1, <1>2, <1>4, <1>5, ShiftQueue DEF UpFromOff

\* start(), stop() and linkState().
LEMMA EngineUpFromOff ==
  ASSUME TypeOK, TypeOK', UpFromOff, StaysOff,
         \/ engine \in {"Stopped", "StartPending"} /\ engine' = "Starting" /\ rxQ' = rxQ \o ForAllLinks("up_")
         \/ engine' = "Stopping" /\ rxQ' = rxQ \o ForAllLinks("down_")
         \/ (Halting' => Halting) /\ rxQ' = rxQ
  PROVE  UpFromOff'
<1>1. SampledOff' /\ \A m \in Link : Keeps(m)
  BY StaysKeeps DEF UpFromOff
<1>2. CASE engine \in {"Stopped", "StartPending"} /\ engine' = "Starting" /\ rxQ' = rxQ \o ForAllLinks("up_")
  <2>1. Halting /\ ~Halting'
    BY <1>2 DEF Halting
  <2> QED
    BY <1>1, <1>2, <2>1, UpsQueue DEF UpFromOff
<1>3. CASE engine' = "Stopping" /\ rxQ' = rxQ \o ForAllLinks("down_")
  BY <1>1, <1>3, DownsQueue DEF UpFromOff
<1>4. CASE (Halting' => Halting) /\ rxQ' = rxQ
  BY <1>4, StaysUpFromOff
<1> QED
  BY <1>2, <1>3, <1>4

LEMMA UpFromOffInit == Init => UpFromOff
<1> SUFFICES ASSUME Init PROVE UpFromOff
  OBVIOUS
<1>1. /\ rxQ = <<>> /\ Len(rxQ) = 0 /\ \A t \in Thread : thread[t] = [pc |-> "idle"]
      /\ \A l \in Link : state[l] = "Down"
  BY DEF Init, Idle
<1>2. Rx \in Thread
  BY DEF Thread
<1>3. \A l \in Link : Rests(l) /\ \A j \in 1..((Len(rxQ) + 1) - 1) : FALSE
  BY <1>1, <1>2 DEF Rests, Off, Sampling
<1> QED
  BY <1>1, <1>3 DEF UpFromOff, SampledOff, UpsFromOff, HaltsOff, OffAt

LEMMA FaultStaysOff ==
  ASSUME TypeOK, NEW t \in Thread, NEW l \in Link, Fault(t, l)
  PROVE  StaysOff
<1>1. \/ DisconnectedLink(t, l)
      \/ \E immediate \in BOOLEAN : ReconnectLink(t, l, immediate)
      \/ ReconnectingLink(t, l)
  BY DEF Fault
<1> QED
  BY <1>1, DisconnectedStaysOff, ReconnectStaysOff, ReconnectingStaysOff

LEMMA FinishStaysOff ==
  ASSUME TypeOK, NEW t \in Thread, FinishOperation(t)
  PROVE  /\ StaysOff /\ engine' = engine
         /\ rxQ' = rxQ \/ \E fn \in Fn \ {"up_"}, l \in Link : Run(fn, l)
<1>1. thread[t].link \in Link
  <2>1. thread[t] \in ThreadState /\ thread[t].pc = "after"
    BY DEF TypeOK, FinishOperation
  <2>2. thread[t] \in After
    BY <2>1 DEF ThreadState, Idle, Sampled, Notify, After, Closing
  <2> QED
    BY <2>2 DEF After
<1>2. \A u \in Thread : thread'[u] = thread[u] \/ thread'[u].pc \in {"idle", "after", "closed"}
  BY DEF FinishOperation, TypeOK, Idle
<1>3. StaysOff
  BY <1>2, SameStaysOff DEF FinishOperation
<1>4. rxQ' = rxQ \/ \E fn \in Fn \ {"up_"} : Run(fn, thread[t].link)
  BY DEF FinishOperation, Fn
<1> QED
  BY <1>1, <1>3, <1>4 DEF FinishOperation

LEMMA UpFromOffNext ==
  ASSUME AdminCalls = FALSE, TypeOK, TypeOK', UpFromOff, [Next]_vars
  PROVE  UpFromOff'
<1>0. SampledOff /\ Rx \in Thread /\ \A t \in Callback : t \in Thread
  BY ThreadAssumption DEF UpFromOff, Thread
<1>1. CASE Start \/ Stop
  <2>1. UNCHANGED <<state, thread>>
    BY <1>1 DEF Start, Stop, linkVars
  <2>2. StaysOff
    BY <2>1, SameStaysOff
  <2>3. \/ engine \in {"Stopped", "StartPending"} /\ engine' = "Starting" /\ rxQ' = rxQ \o ForAllLinks("up_")
        \/ engine' = "Stopping" /\ rxQ' = rxQ \o ForAllLinks("down_")
        \/ (Halting' => Halting) /\ rxQ' = rxQ
    BY <1>1 DEF Start, Stop, Halting
  <2> QED
    BY <2>2, <2>3, EngineUpFromOff
<1>2. ASSUME NEW t \in Thread, ReportLinkState(t)
      PROVE  UpFromOff'
  <2>1. UNCHANGED state /\ \A u \in Thread : thread'[u] = thread[u] \/ thread'[u].pc \in {"idle", "after", "closed"}
    BY <1>2 DEF ReportLinkState, Resume, linkVars, TypeOK, Idle
  <2>2. StaysOff
    BY <2>1, SameStaysOff
  <2>3. \/ engine \in {"Stopped", "StartPending"} /\ engine' = "Starting" /\ rxQ' = rxQ \o ForAllLinks("up_")
        \/ engine' = "Stopping" /\ rxQ' = rxQ \o ForAllLinks("down_")
        \/ (Halting' => Halting) /\ rxQ' = rxQ
    <3>1. EngineStep(thread[t].prev, Adjusted(thread[t].prev, thread[t].next))
      BY <1>2 DEF ReportLinkState
    <3> QED
      BY <3>1 DEF EngineStep, Halting
  <2> QED
    BY <2>2, <2>3, EngineUpFromOff
<1>3. ASSUME NEW t \in Thread, UpLink(t)
      PROVE  UpFromOff'
  <2>1. StaysOff /\ engine' = engine /\ rxQ' = rxQ
    BY <1>0, <1>3, UpStaysOff DEF UpLink
  <2> QED
    BY <2>1, StaysUpFromOff DEF Halting
<1>4. ASSUME NEW t \in Thread, FinishOperation(t)
      PROVE  UpFromOff'
  BY <1>4, FinishStaysOff, StaysUpFromOff DEF Halting
<1>5. ASSUME NEW t \in Thread, Closed(t)
      PROVE  UpFromOff'
  <2>1. thread[t].link \in Link
    <3>1. thread[t] \in ThreadState /\ thread[t].pc = "closed"
      BY <1>5 DEF TypeOK, Closed
    <3>2. thread[t] \in Closing
      BY <3>1 DEF ThreadState, Idle, Sampled, Notify, After, Closing
    <3> QED
      BY <3>2 DEF Closing
  <2>2. StaysOff /\ engine' = engine /\ rxQ' = rxQ
    BY <1>5, <2>1, DisconnectedStaysOff DEF Closed
  <2> QED
    BY <2>2, StaysUpFromOff DEF Halting
<1>6. ASSUME NEW l \in Link, RxReconnect(l)
      PROVE  UpFromOff'
  <2>1. Dequeue("reconnect_", l) /\ engine' = engine
    BY <1>6 DEF RxReconnect
  <2>2. CASE state[l] = "ReconnectPending"
    <3>1. MoveLink(Rx, l, "Reconnecting", "runConnect")
      BY <1>6, <2>2 DEF RxReconnect
    <3>2. StaysOff
      BY <1>0, <2>2, <3>1, MoveStaysOff DEF Off, Then
    <3> QED
      BY <2>1, <3>2, DequeueUpFromOff DEF Fn
  <2>3. CASE state[l] # "ReconnectPending"
    <3>1. StaysOff
      BY <1>6, <2>3, SameStaysOff DEF RxReconnect
    <3> QED
      BY <2>1, <3>1, DequeueUpFromOff DEF Fn
  <2> QED
    BY <2>2, <2>3
<1>7. ASSUME NEW l \in Link, RxConnect(l) \/ RxDisconnect(l)
      PROVE  UpFromOff'
  <2>1. PICK fn \in {"connect", "disconnect"} : Dequeue(fn, l)
    BY <1>7 DEF RxConnect, RxDisconnect
  <2>2. /\ UNCHANGED <<state, engine>>
        /\ \A u \in Thread : thread'[u] = thread[u] \/ thread'[u].pc \in {"idle", "after", "closed"}
    BY <1>7 DEF RxConnect, RxDisconnect, linkVars, TypeOK
  <2>3. StaysOff
    BY <2>2, SameStaysOff
  <2> QED
    BY <2>1, <2>2, <2>3, DequeueUpFromOff DEF Fn
<1>8. ASSUME NEW l \in Link, FireTimer(l)
      PROVE  UpFromOff'
  <2>1. Run("reconnect_", l) /\ UNCHANGED <<state, thread, engine>>
    BY <1>8 DEF FireTimer
  <2>2. StaysOff
    BY <2>1, SameStaysOff
  <2> QED
    BY <2>1, <2>2, StaysUpFromOff DEF Halting, Fn
<1>9. ASSUME NEW t \in Callback, NEW l \in Link, Established(t, l) \/ Fault(t, l)
      PROVE  UpFromOff'
  <2>1. StaysOff /\ engine' = engine /\ rxQ' = rxQ
    BY <1>0, <1>9, ConnectedStaysOff, FaultStaysOff DEF Established, Fault
  <2> QED
    BY <2>1, StaysUpFromOff DEF Halting
<1>10. CASE UNCHANGED vars
  <2>1. UNCHANGED <<state, thread, engine, rxQ>>
    BY <1>10 DEF vars, linkVars
  <2> QED
    BY <2>1, SameStaysOff, StaysUpFromOff DEF Halting
<1>11. \A t \in Thread, l \in Link : ~Up(t, l) /\ ~Down(t, l)
  BY DEF Up, Down
<1> QED
  BY <1>1, <1>2, <1>3, <1>4, <1>5, <1>6, <1>7, <1>8, <1>9, <1>10, <1>11, RxUpUpFromOff, RxDownUpFromOff
  DEF Next, ThreadStep, RxStep

-----------------------------------------------------------------------------
(* A reconnect that is scheduled *)

Plans(t, l) ==
  /\ thread[t].pc \in {"notify", "after"}
  /\ thread[t].link = l
  /\ thread[t].then \in {"runReconnect", "setTimer"}

\* The event of a connection behind a link that is already to be reconnected.
Overtaken(l) == state[l] = "ReconnectPending" /\ io[l] # "idle" /\ io'[l] # io[l]

StaysPending(l) ==
  /\ state'[l] = "ReconnectPending"
  /\ state[l] = "ReconnectPending" => Reconnects(l)
  => Reconnects(l)' \/ Overtaken(l)

LEMMA ReconnectsIs ==
  ASSUME NEW l
  PROVE  /\ Reconnects(l) <=> timer[l] \/ Queued(l, "reconnect_") \/ \E t \in Thread : Plans(t, l)
         /\ Reconnects(l)' <=> timer'[l] \/ Queued(l, "reconnect_")' \/ \E t \in Thread : Plans(t, l)'
  BY DEF Reconnects, Queued, Waits, Plans

LEMMA KeptPending ==
  ASSUME NEW l, state'[l] = state[l],
         timer[l] => timer'[l] \/ Queued(l, "reconnect_")',
         Queued(l, "reconnect_") => Queued(l, "reconnect_")',
         \A t \in Thread : Plans(t, l) => Plans(t, l)' \/ timer'[l] \/ Queued(l, "reconnect_")'
  PROVE  StaysPending(l)
  BY ReconnectsIs DEF StaysPending

LEMMA GrowsKeeps ==
  ASSUME NEW fn, Grows(fn), NEW l, NEW k, Queued(l, k)
  PROVE  Queued(l, k)'
<1>1. PICK n \in Nat, m \in Nat : n = Len(rxQ) /\ m = Len(rxQ') /\ n <= m
  BY DEF Grows
<1>2. PICK i \in 1..n : Waits(i, l, k)
  BY <1>1 DEF Queued
<1>3. i \in 1..m
  BY <1>1
<1>4. Waits(i, l, k)'
  BY <1>1, <1>2 DEF Grows, Waits
<1> QED
  BY <1>1, <1>3, <1>4 DEF Queued

LEMMA RunQueued ==
  ASSUME TypeOK, NEW fn \in Fn, NEW l \in Link, Run(fn, l)
  PROVE  Queued(l, fn)' /\ \A m, k : Queued(m, k) => Queued(m, k)'
<1>1. /\ Grows(fn) /\ Len(rxQ') = Len(rxQ) + 1
      /\ rxQ'[Len(rxQ) + 1] = [fn |-> fn, link |-> l]
  BY RunGrows
<1>2. PICK n \in Nat : n = Len(rxQ) /\ n + 1 = Len(rxQ')
  BY <1>1 DEF Grows
<1>3. Waits(n + 1, l, fn)' /\ n + 1 \in 1..(n + 1)
  BY <1>1, <1>2 DEF Waits
<1> QED
  BY <1>1, <1>2, <1>3, GrowsKeeps DEF Queued

\* Another call leaves the queue.
LEMMA DequeueKeeps ==
  ASSUME TypeOK, NEW fn, NEW l, Dequeue(fn, l), NEW m, fn # "reconnect_" \/ m # l,
         Queued(m, "reconnect_")
  PROVE  Queued(m, "reconnect_")'
<1>1. Shifts /\ rxQ[1] = [fn |-> fn, link |-> l]
  BY DequeueShifts
<1>2. ~Waits(1, m, "reconnect_")
  <2> SUFFICES ASSUME Waits(1, m, "reconnect_") PROVE FALSE
    OBVIOUS
  <2>1. /\ [fn |-> fn, link |-> l].fn = [fn |-> "reconnect_", link |-> m].fn
        /\ [fn |-> fn, link |-> l].link = [fn |-> "reconnect_", link |-> m].link
    BY <1>1 DEF Waits
  <2> QED
    BY <2>1
<1> QED
  BY <1>1, <1>2, ShiftSame DEF QueueSame

\* An operation disturbs the timer, and moves, its own link only.
LEMMA OperationPending ==
  ASSUME TypeOK, NEW t \in Thread, NEW m \in Link, thread[t].pc \notin {"notify", "after"},
         \/ \E next : \E then \in Then : MoveLink(t, m, next, then)
         \/ UNCHANGED <<state, thread>>,
         timer' = timer \/ CancelTimer(m),
         \A l \in Link : l # m /\ Queued(l, "reconnect_") => Queued(l, "reconnect_")',
         StaysPending(m)
  PROVE  \A l \in Link : StaysPending(l)
<1> SUFFICES ASSUME NEW l \in Link, l # m PROVE StaysPending(l)
  OBVIOUS
<1>1. state'[l] = state[l] /\ \A u \in Thread : u # t => thread'[u] = thread[u]
  <2>1. CASE \E next : \E then \in Then : MoveLink(t, m, next, then)
    <3>1. PICK next : \E then \in Then : MoveLink(t, m, next, then)
      BY <2>1
    <3>2. state' = [state EXCEPT ![m] = next] /\ \A u \in Thread : u # t => thread'[u] = thread[u]
      BY <3>1, MoveHolds
    <3> QED
      BY <3>2 DEF TypeOK
  <2> QED
    BY <2>1
<1>2. timer'[l] = timer[l]
  BY DEF CancelTimer, TypeOK
<1>3. ~Plans(t, l)
  BY DEF Plans
<1>4. \A u \in Thread : Plans(u, l) => Plans(u, l)'
  BY <1>1, <1>3 DEF Plans
<1> QED
  BY <1>1, <1>2, <1>4, KeptPending

\* up_() does not find a link it is to bring up in ReconnectPending, and leaves none there.
LEMMA UpPending ==
  ASSUME TypeOK, SampledOff, NEW t \in Thread, UpLink(t)
  PROVE  \A l \in Link : StaysPending(l)
<1>1. thread[t].pc = "sampled" /\ thread[t].link \in Link
  <2>1. thread[t] \in ThreadState /\ thread[t].pc = "sampled"
    BY DEF TypeOK, UpLink
  <2>2. thread[t] \in Sampled
    BY <2>1 DEF ThreadState, Idle, Sampled, Notify, After, Closing
  <2> QED
    BY <2>1, <2>2 DEF Sampled
<1> DEFINE l == thread[t].link
           en == enabled[l] \/ thread[t].enable
           connect == state[l] \in {"Disabled", "Down", "Failed"} /\ thread[t].running
           next == UpNext(state[l], en, thread[t].running)
           then == IF connect THEN "invokeConnect" ELSE "none"
<1>2. MoveLink(t, l, next, then) /\ CancelTimer(l) /\ rxQ' = rxQ /\ then \in Then
  BY <1>1 DEF UpLink, Then
<1>3. state'[l] = next
  BY <1>1, <1>2 DEF MoveLink, TypeOK
<1>4. state[l] \in Off
  BY <1>1 DEF SampledOff
<1>5. next # "ReconnectPending"
  BY <1>4 DEF UpNext, Off
<1>6. StaysPending(l)
  BY <1>3, <1>5 DEF StaysPending
<1>7. \A m : Queued(m, "reconnect_") => Queued(m, "reconnect_")'
  BY <1>2 DEF Queued, Waits
<1> QED
  BY <1>1, <1>2, <1>6, <1>7, OperationPending

LEMMA DownPending ==
  ASSUME TypeOK, NEW l \in Link, RxDown(l)
  PROVE  \A m \in Link : StaysPending(m)
<1>1. Dequeue("down_", l) /\ Rx \in Thread /\ DownLink(Rx, l, FALSE) /\ thread[Rx].pc = "idle"
  BY DEF RxDown, Thread, Dequeue, IsIdle
<1>2. state'[l] \in Off
  BY <1>1, DownStaysOff
<1>3. StaysPending(l)
  BY <1>2 DEF StaysPending, Off
<1>4. CancelTimer(l) /\ \E next : \E then \in Then : MoveLink(Rx, l, next, then)
  BY <1>1 DEF DownLink, Then
<1> QED
  BY <1>1, <1>3, <1>4, DequeueKeeps, OperationPending

LEMMA ConnectedPending ==
  ASSUME TypeOK, NEW t \in Thread, NEW l \in Link, thread[t].pc = "idle", ConnectedLink(t, l), rxQ' = rxQ
  PROVE  \A m \in Link : StaysPending(m)
<1>1. /\ CancelTimer(l)
      /\ \/ \E next : \E then \in Then : MoveLink(t, l, next, then)
         \/ UNCHANGED <<state, thread>>
  BY DEF ConnectedLink, Then
<1>2. state'[l] # "ReconnectPending"
  BY DEF ConnectedLink, MoveLink, TypeOK, Reconn
<1>3. StaysPending(l)
  BY <1>2 DEF StaysPending
<1>4. \A m : Queued(m, "reconnect_") => Queued(m, "reconnect_")'
  BY DEF Queued, Waits
<1> QED
  BY <1>1, <1>3, <1>4, OperationPending

LEMMA DisconnectedPending ==
  ASSUME TypeOK, NEW t \in Thread, NEW l \in Link, thread[t].pc \in {"idle", "closed"},
         DisconnectedLink(t, l), rxQ' = rxQ
  PROVE  \A m \in Link : StaysPending(m)
<1>1. /\ CancelTimer(l)
      /\ \E then \in Then : MoveLink(t, l, DisconnectedNext(state[l], enabled[l]), then)
  BY DEF DisconnectedLink, Then
<1>2. state'[l] = DisconnectedNext(state[l], enabled[l])
  BY <1>1 DEF MoveLink, TypeOK
<1>3. DisconnectedNext(state[l], enabled[l]) # "ReconnectPending"
  BY DEF DisconnectedNext, Reconn
<1>4. StaysPending(l)
  BY <1>2, <1>3 DEF StaysPending
<1>5. \A m : Queued(m, "reconnect_") => Queued(m, "reconnect_")'
  BY DEF Queued, Waits
<1> QED
  BY <1>1, <1>4, <1>5, OperationPending

\* reconnect() plans what it has decided, or finds the link waiting for the one before.
LEMMA ReconnectPendingSet ==
  ASSUME TypeOK, NEW t \in Thread, NEW l \in Link, thread[t].pc = "idle", NEW immediate \in BOOLEAN,
         ReconnectLink(t, l, immediate), rxQ' = rxQ, io[l] # "idle", io'[l] = "idle"
  PROVE  \A m \in Link : StaysPending(m)
<1> DEFINE then == IF immediate THEN "runReconnect" ELSE "setTimer"
<1>1. /\ CancelTimer(l)
      /\ \/ \E next : \E th \in Then : MoveLink(t, l, next, th)
         \/ UNCHANGED <<state, thread>>
  BY DEF ReconnectLink, Then
<1>2. ASSUME MoveLink(t, l, "ReconnectPending", then)
      PROVE  StaysPending(l)
  <2>1. then \in {"runReconnect", "setTimer"} /\ then # "none"
    OBVIOUS
  <2>2. thread'[t].pc \in {"notify", "after"} /\ thread'[t].link = l /\ thread'[t].then = then
    BY <1>2, <2>1 DEF MoveLink, Resume, TypeOK
  <2>3. Plans(t, l)'
    BY <2>1, <2>2 DEF Plans
  <2>4. Reconnects(l)'
    BY <2>3, ReconnectsIs
  <2> QED
    BY <2>4 DEF StaysPending
<1>3. ASSUME MoveLink(t, l, "DisconnectPending", "runDisconnect")
      PROVE  StaysPending(l)
  <2>1. state'[l] = "DisconnectPending"
    BY <1>3 DEF MoveLink, TypeOK
  <2> QED
    BY <2>1 DEF StaysPending
<1>4. ASSUME UNCHANGED <<state, thread>>
      PROVE  StaysPending(l)
  <2>1. state'[l] = state[l] /\ io'[l] # io[l]
    BY <1>4
  <2> QED
    BY <2>1 DEF StaysPending, Overtaken
<1>5. StaysPending(l)
  BY <1>2, <1>3, <1>4 DEF ReconnectLink
<1>6. \A m : Queued(m, "reconnect_") => Queued(m, "reconnect_")'
  BY DEF Queued, Waits
<1> QED
  BY <1>1, <1>5, <1>6, OperationPending

LEMMA ReconnectingPending ==
  ASSUME TypeOK, NEW t \in Thread, NEW l \in Link, thread[t].pc = "idle",
         ReconnectingLink(t, l), rxQ' = rxQ, io[l] = "open", io'[l] = "opening"
  PROVE  \A m \in Link : StaysPending(m)
<1>1. /\ CancelTimer(l)
      /\ \E next : \E then \in Then : MoveLink(t, l, next, then)
  BY DEF ReconnectingLink, Then
<1>2. state'[l] = IF state[l] = "Up" THEN "Connecting" ELSE state[l]
  BY DEF ReconnectingLink, MoveLink, TypeOK
<1>3. StaysPending(l)
  BY <1>2 DEF StaysPending, Overtaken
<1>4. \A m : Queued(m, "reconnect_") => Queued(m, "reconnect_")'
  BY DEF Queued, Waits
<1> QED
  BY <1>1, <1>3, <1>4, OperationPending

LEMMA RxReconnectPending ==
  ASSUME TypeOK, NEW l \in Link, RxReconnect(l)
  PROVE  \A m \in Link : StaysPending(m)
<1>1. Dequeue("reconnect_", l) /\ Rx \in Thread /\ thread[Rx].pc = "idle" /\ timer' = timer
  BY DEF RxReconnect, Thread, Dequeue, IsIdle
<1>2. \/ \E next : \E then \in Then : MoveLink(Rx, l, next, then)
      \/ UNCHANGED <<state, thread>>
  BY DEF RxReconnect, Then
<1>3. state'[l] # "ReconnectPending"
  BY DEF RxReconnect, MoveLink, TypeOK
<1>4. StaysPending(l)
  BY <1>3 DEF StaysPending
<1> QED
  BY <1>1, <1>2, <1>4, DequeueKeeps, OperationPending

\* What was planned is done.
LEMMA FinishPending ==
  ASSUME TypeOK, NEW t \in Thread, FinishOperation(t), NEW l \in Link
  PROVE  StaysPending(l)
<1>1. thread[t].pc = "after" /\ thread[t].link \in Link
  <2>1. thread[t] \in ThreadState /\ thread[t].pc = "after"
    BY DEF TypeOK, FinishOperation
  <2>2. thread[t] \in After
    BY <2>1 DEF ThreadState, Idle, Sampled, Notify, After, Closing
  <2> QED
    BY <2>1, <2>2 DEF After
<1> DEFINE m == thread[t].link
<1>2. state' = state
  BY DEF FinishOperation
<1>3. \A u \in Thread : u # t => thread'[u] = thread[u]
  BY DEF FinishOperation, TypeOK
<1>4. timer[l] => timer'[l]
  BY <1>1 DEF FinishOperation, TypeOK
<1>5. rxQ' = rxQ \/ \E fn \in Fn : Run(fn, m)
  BY DEF FinishOperation, Fn
<1>6. Queued(l, "reconnect_") => Queued(l, "reconnect_")'
  <2>1. CASE rxQ' = rxQ
    BY <2>1 DEF Queued, Waits
  <2> QED
    BY <1>1, <1>5, <2>1, RunQueued
<1>7. ASSUME Plans(t, l)
      PROVE  timer'[l] \/ Queued(l, "reconnect_")'
  <2>1. m = l /\ thread[t].then \in {"runReconnect", "setTimer"}
    BY <1>7 DEF Plans
  <2>2. Run("reconnect_", l) \/ timer' = [timer EXCEPT ![l] = TRUE]
    BY <2>1 DEF FinishOperation
  <2>3. CASE Run("reconnect_", l)
    BY <2>3, RunQueued DEF Fn
  <2>4. CASE timer' = [timer EXCEPT ![l] = TRUE]
    BY <2>4 DEF TypeOK
  <2> QED
    BY <2>2, <2>3, <2>4
<1>8. \A u \in Thread : Plans(u, l) => Plans(u, l)' \/ timer'[l] \/ Queued(l, "reconnect_")'
  BY <1>3, <1>7 DEF Plans
<1> QED
  BY <1>2, <1>4, <1>6, <1>8, KeptPending

LEMMA FirePending ==
  ASSUME TypeOK, NEW m \in Link, FireTimer(m), NEW l \in Link
  PROVE  StaysPending(l)
<1>1. Run("reconnect_", m) /\ UNCHANGED <<state, thread>> /\ timer' = [timer EXCEPT ![m] = FALSE]
  BY DEF FireTimer, CancelTimer
<1>2. Queued(m, "reconnect_")' /\ (Queued(l, "reconnect_") => Queued(l, "reconnect_")')
  BY <1>1, RunQueued DEF Fn
<1>3. timer[l] => timer'[l] \/ l = m
  BY <1>1 DEF TypeOK
<1>4. \A u \in Thread : Plans(u, l) => Plans(u, l)'
  BY <1>1 DEF Plans
<1> QED
  BY <1>1, <1>2, <1>3, <1>4, KeptPending

LEMMA ReportPending ==
  ASSUME TypeOK, NEW t \in Thread, ReportLinkState(t), NEW l \in Link
  PROVE  StaysPending(l)
<1>1. UNCHANGED <<state, timer>> /\ Resume(t, thread[t].then, thread[t].link) /\ thread[t].pc = "notify"
  BY DEF ReportLinkState, linkVars
<1>2. rxQ' = rxQ \/ \E fn \in {"up_", "down_"} : rxQ' = rxQ \o ForAllLinks(fn)
  <2>1. EngineStep(thread[t].prev, Adjusted(thread[t].prev, thread[t].next))
    BY DEF ReportLinkState
  <2> QED
    BY <2>1 DEF EngineStep
<1>3. Queued(l, "reconnect_") => Queued(l, "reconnect_")'
  <2>1. CASE rxQ' = rxQ
    BY <2>1 DEF Queued, Waits
  <2>2. CASE \E fn \in {"up_", "down_"} : rxQ' = rxQ \o ForAllLinks(fn)
    <3>1. PICK fn \in {"up_", "down_"} : rxQ' = rxQ \o ForAllLinks(fn)
      BY <2>2
    <3>2. fn \in Fn
      BY DEF Fn
    <3> QED
      BY <3>1, <3>2, ConcatGrows, GrowsKeeps
  <2> QED
    BY <1>2, <2>1, <2>2
<1>4. ASSUME NEW u \in Thread, Plans(u, l)
      PROVE  Plans(u, l)'
  <2>1. CASE u # t
    <3>1. thread'[u] = thread[u]
      BY <1>1, <2>1 DEF Resume, TypeOK
    <3> QED
      BY <1>4, <3>1 DEF Plans
  <2>2. CASE u = t
    <3>1. thread[t].then # "none" /\ thread[t].link = l /\ thread[t].then \in {"runReconnect", "setTimer"}
      BY <1>4, <2>2 DEF Plans
    <3>2. thread'[t] = [pc |-> "after", link |-> thread[t].link, then |-> thread[t].then]
      BY <1>1, <3>1 DEF Resume, TypeOK
    <3> QED
      BY <2>2, <3>1, <3>2 DEF Plans
  <2> QED
    BY <2>1, <2>2
<1> QED
  BY <1>1, <1>3, <1>4, KeptPending

\* The rx thread takes another call than reconnect_().
LEMMA RxPending ==
  ASSUME TypeOK, NEW fn \in {"up_", "connect", "disconnect"}, NEW m \in Link, Dequeue(fn, m),
         UNCHANGED <<state, timer>>, \A t \in Thread : t # Rx => thread'[t] = thread[t],
         NEW l \in Link
  PROVE  StaysPending(l)
<1>1. \A t \in Thread : Plans(t, l) => Plans(t, l)'
  BY DEF Plans, Dequeue, IsIdle
<1>2. Queued(l, "reconnect_") => Queued(l, "reconnect_")'
  BY DequeueKeeps
<1> QED
  BY <1>1, <1>2, KeptPending

LEMMA PendingNext ==
  ASSUME AdminCalls = FALSE, TypeOK, SampledOff, [Next]_vars, NEW l \in Link
  PROVE  StaysPending(l)
<1>0. Rx \in Thread /\ \A t \in Callback : t \in Thread
  BY ThreadAssumption DEF Thread
<1>1. CASE Start \/ Stop
  <2>1. UNCHANGED <<state, timer, thread>>
    BY <1>1 DEF Start, Stop, linkVars
  <2>2. rxQ' = rxQ \/ \E fn \in {"up_", "down_"} : rxQ' = rxQ \o ForAllLinks(fn)
    BY <1>1 DEF Start, Stop
  <2>3. Queued(l, "reconnect_") => Queued(l, "reconnect_")'
    <3>1. CASE rxQ' = rxQ
      BY <3>1 DEF Queued, Waits
    <3>2. CASE \E fn \in {"up_", "down_"} : rxQ' = rxQ \o ForAllLinks(fn)
      <4>1. PICK fn \in {"up_", "down_"} : rxQ' = rxQ \o ForAllLinks(fn)
        BY <3>2
      <4>2. fn \in Fn
        BY DEF Fn
      <4> QED
        BY <4>1, <4>2, ConcatGrows, GrowsKeeps
    <3> QED
      BY <2>2, <3>1, <3>2
  <2>4. \A u \in Thread : Plans(u, l) => Plans(u, l)'
    BY <2>1 DEF Plans
  <2> QED
    BY <2>1, <2>3, <2>4, KeptPending
<1>2. ASSUME NEW t \in Thread, ThreadStep(t)
      PROVE  StaysPending(l)
  <2>1. CASE ReportLinkState(t)
    BY <2>1, ReportPending
  <2>2. CASE UpLink(t)
    BY <2>2, UpPending
  <2>3. CASE FinishOperation(t)
    BY <2>3, FinishPending
  <2>4. CASE Closed(t)
    <3>1. thread[t].pc = "closed" /\ thread[t].link \in Link
      <4>1. thread[t] \in ThreadState /\ thread[t].pc = "closed"
        BY <2>4 DEF TypeOK, Closed
      <4>2. thread[t] \in Closing
        BY <4>1 DEF ThreadState, Idle, Sampled, Notify, After, Closing
      <4> QED
        BY <4>1, <4>2 DEF Closing
    <3> QED
      BY <2>4, <3>1, DisconnectedPending DEF Closed
  <2> QED
    BY <1>2, <2>1, <2>2, <2>3, <2>4 DEF ThreadStep
<1>3. ASSUME NEW m \in Link, RxStep(m)
      PROVE  StaysPending(l)
  <2>1. CASE RxUp(m)
    <3>1. /\ Dequeue("up_", m) /\ UNCHANGED <<state, timer>>
          /\ \A t \in Thread : t # Rx => thread'[t] = thread[t]
      BY <2>1 DEF RxUp, SampleEngine, linkVars, TypeOK
    <3> QED
      BY <3>1, RxPending
  <2>2. CASE RxConnect(m) \/ RxDisconnect(m)
    <3>1. /\ Dequeue("connect", m) \/ Dequeue("disconnect", m)
          /\ UNCHANGED <<state, timer>>
          /\ \A t \in Thread : t # Rx => thread'[t] = thread[t]
      BY <2>2 DEF RxConnect, RxDisconnect, linkVars, TypeOK
    <3> QED
      BY <3>1, RxPending
  <2>3. CASE RxDown(m)
    BY <2>3, DownPending
  <2>4. CASE RxReconnect(m)
    BY <2>4, RxReconnectPending
  <2> QED
    BY <1>3, <2>1, <2>2, <2>3, <2>4 DEF RxStep
<1>4. ASSUME NEW m \in Link, FireTimer(m)
      PROVE  StaysPending(l)
  BY <1>4, FirePending
<1>5. ASSUME NEW t \in Callback, NEW m \in Link, Established(t, m)
      PROVE  StaysPending(l)
  BY <1>0, <1>5, ConnectedPending DEF Established, IsIdle
<1>6. ASSUME NEW t \in Callback, NEW m \in Link, Fault(t, m)
      PROVE  StaysPending(l)
  <2>1. t \in Thread /\ thread[t].pc = "idle" /\ rxQ' = rxQ
    BY <1>0, <1>6 DEF Fault, IsIdle
  <2>2. CASE DisconnectedLink(t, m)
    BY <2>1, <2>2, DisconnectedPending
  <2>3. CASE io[m] # "idle" /\ Disconnect(m) /\ \E immediate \in BOOLEAN : ReconnectLink(t, m, immediate)
    <3>1. io'[m] = "idle"
      BY <2>3 DEF Disconnect, TypeOK
    <3> QED
      BY <2>1, <2>3, <3>1, ReconnectPendingSet
  <2>4. CASE io[m] = "open" /\ Connect(m) /\ ReconnectingLink(t, m)
    <3>1. io'[m] = "opening"
      BY <2>4 DEF Connect, TypeOK
    <3> QED
      BY <2>1, <2>4, <3>1, ReconnectingPending
  <2> QED
    BY <1>6, <2>2, <2>3, <2>4 DEF Fault
<1>7. CASE UNCHANGED vars
  <2>1. UNCHANGED <<state, thread, timer, rxQ>>
    BY <1>7 DEF vars, linkVars
  <2> QED
    BY <2>1, KeptPending DEF Queued, Waits, Plans
<1>8. \A t \in Thread, m \in Link : ~Up(t, m) /\ ~Down(t, m)
  BY DEF Up, Down
<1> QED
  BY <1>1, <1>2, <1>3, <1>4, <1>5, <1>6, <1>7, <1>8 DEF Next

\* With start() and stop() alone, a link that enters ReconnectPending has its reconnect_()
\* scheduled, by the thread that moved it, by the timer or in the rx thread's queue, and
\* as long as it stays there nothing takes that away but the event of a connection left
\* from an earlier attempt: up_(), which cancels the timer too, finds no link in
\* ReconnectPending, since start() queues it only when every link is off or has a down_()
\* before it in the queue (MxEngine.cpp, start_() to linkState()).
THEOREM ReconnectsStayPending ==
  ASSUME AdminCalls = FALSE
  PROVE  Spec => ReconnectStaysPending
<1>1. TypeOK /\ UpFromOff /\ [Next]_vars => (TypeOK /\ UpFromOff)'
  BY TypeNext, UpFromOffNext
<1>2. TypeOK /\ UpFromOff /\ [Next]_vars =>
        [ \A l \in Link :
            /\ state'[l] = "ReconnectPending"
            /\ state[l] = "ReconnectPending" => Reconnects(l)
            => Reconnects(l)' \/ (state[l] = "ReconnectPending" /\ io[l] # "idle" /\ io'[l] # io[l]) ]_vars
  BY PendingNext DEF StaysPending, Overtaken, UpFromOff
<1>3. Init => TypeOK /\ UpFromOff
  BY TypeInit, UpFromOffInit
<1> QED
  BY <1>1, <1>2, <1>3, PTL DEF Spec, ReconnectStaysPending

=============================================================================
