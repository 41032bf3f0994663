------------------------------ MODULE MxEngine ------------------------------
(***************************************************************************)
(* The connectivity framework of mxbase (MxEngine.cpp, MxEngine.hpp): an   *)
(* engine that is started and stopped, and its links, each of which        *)
(* connects, fails, reconnects and disconnects.                            *)
(*                                                                         *)
(* A link's state is changed under the link's own lock; the engine is told *)
(* of the change after that lock is released, by linkState(), which takes  *)
(* the engine's lock.  Between the two the thread holds a (prev, next) pair *)
(* nobody else can see.  The model keeps exactly these sections: one       *)
(* action is one locked section, or one call the thread makes between two. *)
(*                                                                         *)
(* External: the concrete link (connect(), disconnect() and the callbacks  *)
(* it makes), modelled from the mxmd links and the MxEngine unit test, and *)
(* the rx thread's run queue, a FIFO.                                      *)
(***************************************************************************)
EXTENDS Integers, FiniteSets, Sequences

CONSTANTS
  Link,        \* the links of the engine
  LinkSeq,     \* the links in the order m_links iterates over them
  Rx,          \* the engine's rx thread
  Caller,      \* other threads that call the engine and its links
  Callback,    \* the threads on which a concrete link reports what happened to it
  MaxCalls,    \* bound: calls of start(), stop(), up() and down()
  MaxFaults,   \* bound: connections that fail, drop or restart
  AdminCalls   \* TRUE when up() and down() are called on links, not only start() and stop()

ASSUME LinkAssumption ==
  /\ IsFiniteSet(Link)
  /\ LinkSeq \in Seq(Link)
  /\ \A l \in Link : \E i \in 1..Len(LinkSeq) : LinkSeq[i] = l
  /\ \A i, j \in 1..Len(LinkSeq) : LinkSeq[i] = LinkSeq[j] => i = j
ASSUME ThreadAssumption ==
  /\ IsFiniteSet(Caller)
  /\ Rx \notin Caller
  /\ Callback \subseteq Caller \cup {Rx}
ASSUME BoundAssumption == MaxCalls \in Nat /\ MaxFaults \in Nat /\ AdminCalls \in BOOLEAN

Thread == {Rx} \cup Caller

EngineState == {"Stopped", "Starting", "Running", "Stopping", "StartPending", "StopPending"}

Transient == {"Connecting", "Disconnecting", "ConnectPending", "DisconnectPending"}
Reconn == {"ReconnectPending", "Reconnecting"}
LinkState == {"Down", "Disabled", "Up", "Failed"} \cup Transient \cup Reconn

\* The link states each of the engine's counters m_down .. m_failed counts.
Class == {"down", "disabled", "transient", "up", "reconn", "failed"}
StatesIn(c) ==
  [down |-> {"Down"}, disabled |-> {"Disabled"}, transient |-> Transient,
   up |-> {"Up"}, reconn |-> Reconn, failed |-> {"Failed"}][c]

VARIABLES
  engine,     \* MxEngine::m_state
  count,      \* MxEngine::m_down .. m_failed
  state,      \* MxAnyLink::m_state
  enabled,    \* MxAnyLink::m_enabled
  timer,      \* MxAnyLink::m_reconnTimer is scheduled
  io,         \* external: the connection behind the link
  rxQ,        \* external: functions queued to run on the rx thread
  thread,     \* what each thread is in the middle of
  calls, faults

vars == <<engine, count, state, enabled, timer, io, rxQ, thread, calls, faults>>
linkVars == <<state, enabled, timer>>

Io == {"idle", "opening", "open"}
Fn == {"up_", "down_", "connect", "disconnect", "reconnect_"}
Task == [fn : Fn, link : Link]

\* What remains to be done once linkState() returns: invoke() runs at once on
\* the rx thread and is queued from any other, run() is always queued.
Then == {"none", "invokeConnect", "invokeDisconnect",
         "runConnect", "runDisconnect", "runReconnect", "setTimer"}

Idle    == [pc |-> "idle"]
Sampled == [pc : {"sampled"}, link : Link, enable : BOOLEAN, running : BOOLEAN]
Notify  == {m \in [pc : {"notify"}, link : Link, prev : LinkState, next : LinkState, then : Then] :
              m.prev # m.next}
After   == [pc : {"after"}, link : Link, then : Then \ {"none"}]
Closing == [pc : {"closed"}, link : Link]
ThreadState == {Idle} \cup Sampled \cup Notify \cup After \cup Closing

TypeOK ==
  /\ engine \in EngineState
  /\ count \in [Class -> Int]
  /\ state \in [Link -> LinkState]
  /\ enabled \in [Link -> BOOLEAN]
  /\ timer \in [Link -> BOOLEAN]
  /\ io \in [Link -> Io]
  /\ rxQ \in Seq(Task)
  /\ thread \in [Thread -> ThreadState]
  /\ calls \in 0..MaxCalls
  /\ faults \in 0..MaxFaults

Init ==
  /\ engine = "Stopped"
  /\ state = [l \in Link |-> "Down"]
  /\ count = [c \in Class |-> IF c = "down" THEN Cardinality(Link) ELSE 0]
  /\ enabled = [l \in Link |-> TRUE]
  /\ timer = [l \in Link |-> FALSE]
  /\ io = [l \in Link |-> "idle"]
  /\ rxQ = << >>
  /\ thread = [t \in Thread |-> Idle]
  /\ calls = 0
  /\ faults = 0

-----------------------------------------------------------------------------
(* The rx thread's queue *)

ForAllLinks(fn) == [i \in 1..Len(LinkSeq) |-> [fn |-> fn, link |-> LinkSeq[i]]]

Run(fn, l) == rxQ' = Append(rxQ, [fn |-> fn, link |-> l])

IsIdle(t) == thread[t].pc = "idle"

(***************************************************************************)
(* The rx thread runs the function at the head of its queue only when it   *)
(* has finished the one before.                                            *)
(***************************************************************************)
Dequeue(fn, l) ==
  /\ IsIdle(Rx)
  /\ rxQ # << >>
  /\ Head(rxQ) = [fn |-> fn, link |-> l]
  /\ rxQ' = Tail(rxQ)

-----------------------------------------------------------------------------
(* The engine *)

\* start_() and stop_() run under the engine's lock.
Start ==
  /\ calls < MaxCalls
  /\ calls' = calls + 1
  /\ \/ /\ engine = "Stopped"
        /\ engine' = "Starting"
        /\ rxQ' = rxQ \o ForAllLinks("up_")
     \/ /\ engine = "Stopping"
        /\ engine' = "StartPending"
        /\ UNCHANGED rxQ
  /\ UNCHANGED <<count, linkVars, io, thread, faults>>

Stop ==
  /\ calls < MaxCalls
  /\ calls' = calls + 1
  /\ \/ /\ engine = "Running"
        /\ engine' = "Stopping"
        /\ rxQ' = rxQ \o ForAllLinks("down_")
     \/ /\ engine = "Starting"
        /\ engine' = "StopPending"
        /\ UNCHANGED rxQ
  /\ UNCHANGED <<count, linkVars, io, thread, faults>>

\* Mutated: linkState() forgets the inner switch on next, or the test of next against prev.
ReportedFromSteadyOnly(prev, next) == prev # next /\ prev \notin Transient
ReportedUnchanged(prev, next) == ~(prev \in Transient /\ next \in Transient)

\* The early returns of linkState(): no change, or from one transient state to another.
Reported(prev, next) == prev # next /\ ~(prev \in Transient /\ next \in Transient)

Adjusted(prev, next) ==
  [c \in Class |-> count[c] - (IF prev \in StatesIn(c) THEN 1 ELSE 0)
                            + (IF next \in StatesIn(c) THEN 1 ELSE 0)]

Resume(t, then, l) ==
  thread' = [thread EXCEPT ![t] =
               IF then = "none" THEN Idle ELSE [pc |-> "after", link |-> l, then |-> then]]

\* Mutated: the tests for "nothing left to wait for" look at one counter only.
StartSettledEarly(prev, cnt) == prev \in Transient \cup {"Down"} /\ cnt["transient"] = 0
StopSettledEarly(prev, cnt) == prev \in Transient \cup {"Up"} /\ cnt["up"] = 0

StartSettled(prev, cnt) ==
  prev \in Transient \cup {"Down"} /\ cnt["down"] + cnt["transient"] = 0
StopSettled(prev, cnt) ==
  prev \in Transient \cup {"Up"} /\ cnt["up"] + cnt["transient"] = 0

\* The engine's reaction to a link's change of state, in its own locked section.
EngineStep(prev, cnt) ==
  \/ /\ engine = "Starting" /\ StartSettled(prev, cnt)
     /\ engine' = "Running"
     /\ UNCHANGED rxQ
  \/ /\ engine = "StopPending" /\ StartSettled(prev, cnt)
     /\ engine' = "Stopping"
     /\ rxQ' = rxQ \o ForAllLinks("down_")
  \/ /\ engine = "Stopping" /\ StopSettled(prev, cnt)
     /\ engine' = "Stopped"
     /\ UNCHANGED rxQ
  \/ /\ engine = "StartPending" /\ StopSettled(prev, cnt)
     /\ engine' = "Starting"
     /\ rxQ' = rxQ \o ForAllLinks("up_")
  \/ /\ ~(engine \in {"Starting", "StopPending"} /\ StartSettled(prev, cnt))
     /\ ~(engine \in {"Stopping", "StartPending"} /\ StopSettled(prev, cnt))
     /\ UNCHANGED <<engine, rxQ>>

\* MxEngine::linkState(), called by a thread that has left the link's lock.
ReportLinkState(t) ==
  /\ thread[t].pc = "notify"
  /\ LET m == thread[t]
         adjusted == Adjusted(m.prev, m.next)
     IN /\ count' = adjusted
        /\ EngineStep(m.prev, adjusted)
        /\ Resume(t, m.then, m.link)
  /\ UNCHANGED <<linkVars, io, calls, faults>>

-----------------------------------------------------------------------------
(* The links.  Every operation cancels the reconnect timer, takes the      *)
(* link's lock, moves the state, and goes on to linkState().               *)

MoveLink(t, l, next, then) ==
  /\ state' = [state EXCEPT ![l] = next]
  /\ IF Reported(state[l], next)
     THEN thread' = [thread EXCEPT ![t] = [pc |-> "notify", link |-> l, prev |-> state[l],
                                           next |-> next, then |-> then]]
     ELSE Resume(t, then, l)

CancelTimer(l) == timer' = [timer EXCEPT ![l] = FALSE]

\* up_() first reads the engine's state, without a lock.
SampleEngine(t, l, enable) ==
  thread' = [thread EXCEPT ![t] = [pc |-> "sampled", link |-> l, enable |-> enable,
                                   running |-> engine \in {"Starting", "Running"}]]

Up(t, l) ==
  /\ AdminCalls /\ calls < MaxCalls
  /\ IsIdle(t)
  /\ SampleEngine(t, l, TRUE)
  /\ calls' = calls + 1
  /\ UNCHANGED <<engine, count, linkVars, io, rxQ, faults>>

RxUp(l) ==
  /\ Dequeue("up_", l)
  /\ SampleEngine(Rx, l, FALSE)
  /\ UNCHANGED <<engine, count, linkVars, io, calls, faults>>

UpNext(s, en, running) ==
  CASE s \in {"Disabled", "Down", "Failed"}          -> IF running THEN "Connecting" ELSE "Down"
    [] s = "Disconnecting" /\ running /\ en          -> "ConnectPending"
    [] s = "DisconnectPending" /\ en                 -> "Connecting"
    [] OTHER                                         -> s

UpLink(t) ==
  /\ thread[t].pc = "sampled"
  /\ LET l  == thread[t].link
         en == enabled[l] \/ thread[t].enable
         connect == state[l] \in {"Disabled", "Down", "Failed"} /\ thread[t].running
     IN /\ enabled' = [enabled EXCEPT ![l] = en]
        /\ CancelTimer(l)
        /\ MoveLink(t, l, UpNext(state[l], en, thread[t].running),
                    IF connect THEN "invokeConnect" ELSE "none")
  /\ UNCHANGED <<engine, count, io, rxQ, calls, faults>>

\* Mutated: down_() ignores a link that is connecting.
DownNextIdle(s, en) ==
  CASE s = "Down" /\ ~en              -> "Disabled"
    [] s \in Reconn \cup {"Up"}       -> "Disconnecting"
    [] s = "ConnectPending"           -> "Disconnecting"
    [] OTHER                          -> s

DownNext(s, en) ==
  CASE s = "Down" /\ ~en              -> "Disabled"
    [] s \in Reconn \cup {"Up"}       -> "Disconnecting"
    [] s = "Connecting"               -> "DisconnectPending"
    [] s = "ConnectPending"           -> "Disconnecting"
    [] OTHER                          -> s

DownLink(t, l, disable) ==
  LET en == enabled[l] /\ ~disable
  IN /\ enabled' = [enabled EXCEPT ![l] = en]
     /\ CancelTimer(l)
     /\ MoveLink(t, l, DownNext(state[l], en),
                 IF state[l] \in Reconn \cup {"Up"} THEN "invokeDisconnect" ELSE "none")

Down(t, l) ==
  /\ AdminCalls /\ calls < MaxCalls
  /\ IsIdle(t)
  /\ DownLink(t, l, TRUE)
  /\ calls' = calls + 1
  /\ UNCHANGED <<engine, count, io, rxQ, faults>>

RxDown(l) ==
  /\ Dequeue("down_", l)
  /\ DownLink(Rx, l, FALSE)
  /\ UNCHANGED <<engine, count, io, calls, faults>>

\* Mutated: connected() does not disconnect a link that was brought down while connecting.
ConnectedLinkNoDisconnect(t, l) ==
  /\ CancelTimer(l)
  /\ MoveLink(t, l, CASE state[l] \in Reconn \cup {"Connecting"} -> "Up"
                      [] state[l] = "DisconnectPending" -> "Disconnecting"
                      [] OTHER -> state[l], "none")
  /\ UNCHANGED enabled

\* MxAnyLink::connected()
ConnectedLink(t, l) ==
  /\ CancelTimer(l)
  /\ \/ /\ state[l] \in Reconn \cup {"Connecting"}
        /\ MoveLink(t, l, "Up", "none")
     \/ /\ state[l] = "DisconnectPending"
        /\ MoveLink(t, l, "Disconnecting", "runDisconnect")
     \/ /\ state[l] \notin Reconn \cup {"Connecting", "DisconnectPending"}
        /\ UNCHANGED <<state, thread>>
  /\ UNCHANGED enabled

DisconnectedNext(s, en) ==
  CASE s \in Reconn \cup {"Connecting", "DisconnectPending", "Up"} ->
                                    IF en THEN "Failed" ELSE "Disabled"
    [] s = "Disconnecting"  -> IF en THEN "Down" ELSE "Disabled"
    [] s = "ConnectPending" -> IF en THEN "Connecting" ELSE "Disabled"
    [] OTHER                -> s

\* MxAnyLink::disconnected()
DisconnectedLink(t, l) ==
  /\ CancelTimer(l)
  /\ MoveLink(t, l, DisconnectedNext(state[l], enabled[l]),
              IF state[l] = "ConnectPending" /\ enabled[l] THEN "runConnect" ELSE "none")
  /\ UNCHANGED enabled

\* Mutated: reconnect() moves the link but schedules reconnect_() only when immediate.
ReconnectLinkUnscheduled(t, l, immediate) ==
  /\ CancelTimer(l)
  /\ IF state[l] \in {"Connecting", "Reconnecting", "Up"}
     THEN MoveLink(t, l, "ReconnectPending", IF immediate THEN "runReconnect" ELSE "none")
     ELSE UNCHANGED <<state, thread>>
  /\ UNCHANGED enabled

\* MxAnyLink::reconnect(immediate)
ReconnectLink(t, l, immediate) ==
  /\ CancelTimer(l)
  /\ \/ /\ state[l] \in {"Connecting", "Reconnecting", "Up"}
        /\ MoveLink(t, l, "ReconnectPending", IF immediate THEN "runReconnect" ELSE "setTimer")
     \/ /\ state[l] = "DisconnectPending"
        /\ MoveLink(t, l, "DisconnectPending", "runDisconnect")
     \/ /\ state[l] \notin {"Connecting", "Reconnecting", "Up", "DisconnectPending"}
        /\ UNCHANGED <<state, thread>>
  /\ UNCHANGED enabled

\* MxAnyLink::reconnecting()
ReconnectingLink(t, l) ==
  /\ CancelTimer(l)
  /\ MoveLink(t, l, IF state[l] = "Up" THEN "Connecting" ELSE state[l], "none")
  /\ UNCHANGED enabled

\* MxAnyLink::reconnect_(), queued or fired by the timer; it alone leaves the timer as it is.
RxReconnect(l) ==
  /\ Dequeue("reconnect_", l)
  /\ IF state[l] = "ReconnectPending"
     THEN MoveLink(Rx, l, "Reconnecting", "runConnect")
     ELSE UNCHANGED <<state, thread>>
  /\ UNCHANGED <<engine, count, enabled, timer, io, calls, faults>>

FireTimer(l) ==
  /\ timer[l]
  /\ CancelTimer(l)
  /\ Run("reconnect_", l)
  /\ UNCHANGED <<engine, count, state, enabled, io, thread, calls, faults>>

-----------------------------------------------------------------------------
(* After linkState(): the connect, disconnect or reconnect that was decided *)
(* under the link's lock.                                                  *)

Connect(l) == io' = [io EXCEPT ![l] = "opening"]
Disconnect(l) == io' = [io EXCEPT ![l] = "idle"]

FinishOperation(t) ==
  /\ thread[t].pc = "after"
  /\ LET l == thread[t].link
         then == thread[t].then
     IN \/ /\ then = "invokeConnect" /\ t = Rx
           /\ Connect(l)
           /\ thread' = [thread EXCEPT ![t] = Idle]
           /\ UNCHANGED <<rxQ, timer>>
        \/ /\ then = "invokeDisconnect" /\ t = Rx
           /\ Disconnect(l)
           /\ thread' = [thread EXCEPT ![t] = [pc |-> "closed", link |-> l]]
           /\ UNCHANGED <<rxQ, timer>>
        \/ /\ then = "runConnect" \/ (then = "invokeConnect" /\ t # Rx)
           /\ Run("connect", l)
           /\ thread' = [thread EXCEPT ![t] = Idle]
           /\ UNCHANGED <<io, timer>>
        \/ /\ then = "runDisconnect" \/ (then = "invokeDisconnect" /\ t # Rx)
           /\ Run("disconnect", l)
           /\ thread' = [thread EXCEPT ![t] = Idle]
           /\ UNCHANGED <<io, timer>>
        \/ /\ then = "runReconnect"
           /\ Run("reconnect_", l)
           /\ thread' = [thread EXCEPT ![t] = Idle]
           /\ UNCHANGED <<io, timer>>
        \/ /\ then = "setTimer"
           /\ timer' = [timer EXCEPT ![l] = TRUE]
           /\ thread' = [thread EXCEPT ![t] = Idle]
           /\ UNCHANGED <<io, rxQ>>
  /\ UNCHANGED <<engine, count, state, enabled, calls, faults>>

-----------------------------------------------------------------------------
(* External: the concrete link.  connect() starts an attempt; disconnect() *)
(* closes whatever there is and calls disconnected().                      *)

RxConnect(l) ==
  /\ Dequeue("connect", l)
  /\ Connect(l)
  /\ UNCHANGED <<engine, count, linkVars, thread, calls, faults>>

RxDisconnect(l) ==
  /\ Dequeue("disconnect", l)
  /\ Disconnect(l)
  /\ thread' = [thread EXCEPT ![Rx] = [pc |-> "closed", link |-> l]]
  /\ UNCHANGED <<engine, count, linkVars, calls, faults>>

Closed(t) ==
  /\ thread[t].pc = "closed"
  /\ DisconnectedLink(t, thread[t].link)
  /\ UNCHANGED <<engine, count, io, rxQ, calls, faults>>

Established(t, l) ==
  /\ IsIdle(t)
  /\ io[l] = "opening"
  /\ io' = [io EXCEPT ![l] = "open"]
  /\ ConnectedLink(t, l)
  /\ UNCHANGED <<engine, count, rxQ, calls, faults>>

Fault(t, l) ==
  /\ IsIdle(t)
  /\ faults < MaxFaults
  /\ faults' = faults + 1
  /\ \/ /\ io[l] # "idle"
        /\ Disconnect(l)
        /\ DisconnectedLink(t, l)
     \/ /\ io[l] # "idle"
        /\ Disconnect(l)
        /\ \E immediate \in BOOLEAN : ReconnectLink(t, l, immediate)
     \/ /\ io[l] = "open"
        /\ Connect(l)
        /\ ReconnectingLink(t, l)
  /\ UNCHANGED <<engine, count, rxQ, calls>>

-----------------------------------------------------------------------------

ThreadStep(t) == ReportLinkState(t) \/ UpLink(t) \/ FinishOperation(t) \/ Closed(t)

RxStep(l) == RxUp(l) \/ RxDown(l) \/ RxReconnect(l) \/ RxConnect(l) \/ RxDisconnect(l)

Next ==
  \/ Start
  \/ Stop
  \/ \E t \in Thread : ThreadStep(t)
  \/ \E l \in Link : RxStep(l) \/ FireTimer(l)
  \/ \E t \in Thread, l \in Link : Up(t, l) \/ Down(t, l)
  \/ \E t \in Callback, l \in Link : Established(t, l) \/ Fault(t, l)

Spec == Init /\ [][Next]_vars

\* Threads run, the rx thread empties its queue, timers fire, and an attempt to
\* connect is answered; nobody has to call start() or stop(), and nothing has to fail.
Fairness ==
  /\ \A t \in Thread : WF_vars(ThreadStep(t))
  /\ WF_vars(\E l \in Link : RxStep(l))
  /\ \A l \in Link : WF_vars(FireTimer(l))
  /\ \A l \in Link : WF_vars(\E t \in Callback : Established(t, l))

FairSpec == Spec /\ Fairness

-----------------------------------------------------------------------------
(* Properties *)

LinksIn(c) == {l \in Link : state[l] \in StatesIn(c)}

\* Threads that moved a link out of (into) class c and have not yet told the engine.
Leaving(c)  == {t \in Thread : thread[t].pc = "notify" /\ thread[t].prev \in StatesIn(c)}
Entering(c) == {t \in Thread : thread[t].pc = "notify" /\ thread[t].next \in StatesIn(c)}

\* The engine's counters, which every thread adjusts after it has released the
\* link's lock and in any order, never lose or repeat a link: each differs from
\* the number of links in its class by exactly the changes still to be reported.
CountersConserved ==
  \A c \in Class :
     count[c] = Cardinality(LinksIn(c)) + Cardinality(Leaving(c)) - Cardinality(Entering(c))

NobodyReporting == \A t \in Thread : thread[t].pc # "notify"

\* When linkState() takes the engine out of Starting or StopPending (to Running or
\* Stopping), and no other change is unreported, no link is still down or on its way.
SettledWhenStarted ==
  [][ (/\ engine \in {"Starting", "StopPending"}
       /\ engine' \in {"Running", "Stopping"}
       /\ NobodyReporting')
      => \A l \in Link : state'[l] \notin Transient \cup {"Down"} ]_vars

\* When linkState() takes the engine out of Stopping or StartPending (to Stopped or
\* Starting), and no other change is unreported, no link is up or on its way.
SettledWhenStopped ==
  [][ (/\ engine \in {"Stopping", "StartPending"}
       /\ engine' \in {"Stopped", "Starting"}
       /\ NobodyReporting')
      => \A l \in Link : state'[l] \notin Transient \cup {"Up"} ]_vars

\* reconnect_() is scheduled: the timer is set, the call is queued, or the thread that
\* decided it is about to schedule it.
Reconnects(l) ==
  \/ timer[l]
  \/ \E i \in 1..Len(rxQ) : rxQ[i] = [fn |-> "reconnect_", link |-> l]
  \/ \E t \in Thread : /\ thread[t].pc \in {"notify", "after"}
                       /\ thread[t].link = l
                       /\ thread[t].then \in {"runReconnect", "setTimer"}

\* A link that enters ReconnectPending has its reconnect_() scheduled, and while it stays
\* there nothing takes that away, whatever start() and stop() do meanwhile, but one thing: the
\* event of a connection that was made for an earlier attempt and is still there.
ReconnectStaysPending ==
  [][ \A l \in Link :
        /\ state'[l] = "ReconnectPending"
        /\ state[l] = "ReconnectPending" => Reconnects(l)
        => Reconnects(l)' \/ (state[l] = "ReconnectPending" /\ io[l] # "idle" /\ io'[l] # io[l]) ]_vars

Quiet ==
  /\ rxQ = << >>
  /\ \A t \in Thread : IsIdle(t)
  /\ \A l \in Link : ~timer[l]

\* Once everything queued has run, each link's state agrees with its connection:
\* however up(), down(), start() and stop() overlapped, no link is left waiting
\* for an answer nobody will give, or closed with a connection behind it, as long as no
\* connection has failed by itself.
ConnectionMatchesLink ==
  Quiet /\ faults = 0 => \A l \in Link :
     CASE io[l] = "open"    -> state[l] = "Up"
       [] io[l] = "opening" -> state[l] \in {"Connecting", "DisconnectPending"} \cup Reconn
       [] io[l] = "idle"    -> state[l] \in {"Down", "Disabled", "Failed"}

Settled == {"Down", "Disabled", "Failed"}

\* start() and stop() complete.  The engine leaves Starting; StartPending, unless every link
\* had settled before there was a change left to report; Stopping, unless every link has
\* settled; and StopPending, unless up_() found the engine no longer starting and left a
\* link Down.
CallsComplete ==
  /\ (engine = "Starting") ~> (engine # "Starting")
  /\ (engine = "StartPending")
        ~> (engine # "StartPending" \/ \A l \in Link : state[l] \in Settled)
  /\ (engine = "Stopping")
        ~> (engine # "Stopping" \/ \A l \in Link : state[l] \in Settled)
  /\ (engine = "StopPending")
        ~> (engine # "StopPending" \/ \E l \in Link : state[l] = "Down")

=============================================================================
