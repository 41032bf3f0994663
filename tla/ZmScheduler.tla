---------------------------- MODULE ZmScheduler ----------------------------
(***************************************************************************)
(* The scheduler every engine and multiplexer runs on (z/zm                *)
(* ZmScheduler.cpp, ZmScheduler.hpp): threads that execute calls queued by *)
(* run() and add(), a timer thread that queues deferred calls when they    *)
(* are due, and start(), drain() and stop().                               *)
(*                                                                         *)
(* A thread's calls wait in its ring, here the bounded FIFO module ZmRing  *)
(* implements, and in an unbounded overflow ring for those the ring        *)
(* refused.  A step is one access to what threads share: overCount, the    *)
(* ring, the overflow ring, what a lock protects.  The ring may refuse a   *)
(* call while it has room, as ZmRing shows.  Time is a small counter and   *)
(* the quantum is part of "due".                                           *)
(*                                                                         *)
(* External: the callers and the calls themselves, the clock.              *)
(***************************************************************************)
EXTENDS Integers, FiniteSets, Sequences

CONSTANTS
  Producer,     \* threads that call run(tid, fn) or add(fn)
  Caller,       \* threads that call start(), drain() and stop()
  Timer,        \* the caller's timers: run(tid, fn, timeout, mode, &timer), del(&timer)
  NThreads,     \* nThreads
  RingSize,     \* calls that fit in a ring
  Timeout,      \* whether the rings have a timeout
  Uses,         \* bound, chosen at the start: calls of run() or add() by each producer, deferred
                \* calls on each timer, calls of start(), drain() and stop(), and who makes
                \* them, and the clock
  Drained,      \* the call that executes drained()
  None

ASSUME ClientAssumption ==
  /\ IsFiniteSet(Producer) /\ IsFiniteSet(Caller)
  /\ Producer \cap Caller = {} /\ (Producer \cup Caller) \cap Timer = {}
ASSUME ThreadAssumption == NThreads \in Nat \ {0} /\ RingSize \in Nat \ {0}
ASSUME BoundAssumption ==
  Uses \subseteq [runs : Nat, timed : Nat, callers : SUBSET Caller, calls : Nat, time : Nat]

Thread == 1..NThreads
Client == Producer \cup Caller
Time == UNION {0..u.time : u \in Uses}
QueuedCall == UNION {Producer \X (1..u.runs) : u \in Uses}
DeferredCall == UNION {Timer \X (1..u.timed) : u \in Uses}
Call == QueuedCall \cup DeferredCall \cup {Drained}
EntryType == [call : Call, at : Time, thread : Thread \cup {None}]
ASSUME CallAssumption ==
  Drained \notin (Producer \cup Timer) \X Nat /\ None \notin Call \cup Time \cup EntryType

VARIABLES
  state,        \* m_state
  drained,      \* m_drained
  runThreads,   \* m_runThreads
  caller,       \* each caller: where it is in start(), drain() or stop()
  calls,        \* how many such calls were made
  ring, eof,    \* each thread's ring
  overCount, overRing,
  worker,       \* each thread: where it is in work(), the call it moves
  client,       \* each client: where it is in run__(), the thread and the call
  made,         \* calls each producer and each timer has made
  schedule,     \* m_schedule: deferred calls with their time and thread
  handle,       \* the call each timer refers to
  pending,      \* m_pending
  timer,        \* the timer thread: where it is in timer(), the time and the call it has
  now,          \* the clock
  ran,          \* history: the calls executed
  added,        \* history: the calls made with add()
  refused,      \* history: the calls run__() returned false for
  revoked,      \* history: deferred calls cancelled or replaced before they were queued
  retried,      \* history: timers with a call the timer thread has put back
  before,       \* history: the calls queued when drain() began
  use           \* the one of Uses at hand

lifeVars == <<state, drained, runThreads, caller, calls, use, before>>
queueVars == <<ring, eof, overCount, overRing>>
timerVars == <<schedule, handle, pending, timer, now, revoked, retried>>
vars == <<lifeVars, queueVars, timerVars, worker, client, made, ran, added, refused>>

State == {"Stopped", "Starting", "Running", "Draining", "Drained", "Stopping"}
CallerPC == {"idle", "waiting", "threads", "running", "drain", "draining", "eof",
             "join", "joinTimer"}
WorkerPC == {"none", "load", "over", "move", "count", "shift", "final", "exit", "ended"}
ClientPC == {"idle", "add", "load", "push", "status", "count", "over"}
TimerPC == {"none", "check", "pending", "gate", "due", "dispatch", "again", "ended"}

Rng(s) == {s[i] : i \in DOMAIN s}
Queued == (UNION {Rng(ring[t]) \cup Rng(overRing[t]) \cup {worker[t].call} : t \in Thread}) \ {None}

TypeOK ==
  /\ state \in State /\ drained \in 0..NThreads /\ runThreads \in 0..NThreads
  /\ caller \in [Caller -> [pc : CallerPC, call : {"start", "drain", "stop"}, want : State,
                            thread : Thread \cup {NThreads + 1}]]
  /\ use \in Uses /\ calls \in 0..use.calls
  /\ ring \in [Thread -> Seq(Call)] /\ \A t \in Thread : Len(ring[t]) <= RingSize
  /\ eof \in [Thread -> BOOLEAN]
  /\ overCount \in [Thread -> Nat] /\ overRing \in [Thread -> Seq(Call)]
  /\ worker \in [Thread -> [pc : WorkerPC, call : Call \cup {None}, count : 0..NThreads]]
  /\ client \in [Client -> [pc : ClientPC, thread : Thread, call : Call \cup {None}]]
  /\ made \in [Producer \cup Timer -> Nat]
  /\ schedule \subseteq EntryType
  /\ handle \in [Timer -> Call \cup {None}]
  /\ pending \in Nat
  /\ timer \in [pc : TimerPC, time : Time \cup {None}, entry : EntryType \cup {None}]
  /\ now \in Time
  /\ ran \subseteq Call /\ added \subseteq Call /\ refused \subseteq Call /\ revoked \subseteq Call
  /\ retried \subseteq Timer /\ before \subseteq Call

Init ==
  /\ state = "Stopped" /\ drained = 0 /\ runThreads = 0 /\ calls = 0
  /\ caller = [x \in Caller |-> [pc |-> "idle", call |-> "start", want |-> "Stopped", thread |-> 1]]
  /\ ring = [t \in Thread |-> <<>>] /\ eof = [t \in Thread |-> FALSE]
  /\ overCount = [t \in Thread |-> 0] /\ overRing = [t \in Thread |-> <<>>]
  /\ worker = [t \in Thread |-> [pc |-> "none", call |-> None, count |-> 0]]
  /\ client = [x \in Client |-> [pc |-> "idle", thread |-> 1, call |-> None]]
  /\ made = [x \in Producer \cup Timer |-> 0]
  /\ schedule = {} /\ handle = [x \in Timer |-> None] /\ pending = 0
  /\ timer = [pc |-> "none", time |-> None, entry |-> None]
  /\ now = 0
  /\ ran = {} /\ added = {} /\ refused = {} /\ revoked = {} /\ retried = {} /\ before = {}
  /\ use \in Uses

-----------------------------------------------------------------------------
(* Queueing a call: run__() and tryRun__() *)

ClientAt(x, pc) == client' = [client EXCEPT ![x].pc = pc]

HasRoomLate(t) == ~eof[t] /\ Len(ring[t]) <= RingSize
HasRoom(t) == ~eof[t] /\ Len(ring[t]) < RingSize
Push(t, call) == ring' = [ring EXCEPT ![t] = Append(@, call)]

\* run(tid, fn) and add(fn): add() tries the threads in turn from the next one first.
Run(x) ==
  /\ client[x].pc = "idle" /\ made[x] < use.runs
  /\ \E t \in Thread :
       LET call == <<x, made[x] + 1>>
       IN \/ /\ client' = [client EXCEPT ![x] = [pc |-> "load", thread |-> t, call |-> call]]
             /\ UNCHANGED added
          \/ /\ client' = [client EXCEPT ![x] = [pc |-> "add", thread |-> t, call |-> call]]
             /\ added' = added \cup {call}
  /\ made' = [made EXCEPT ![x] = @ + 1]
  /\ UNCHANGED <<lifeVars, queueVars, timerVars, worker, ran, refused>>

\* add() queues the call on a thread whose ring takes it, or calls run__() for the first.
AddTry(x) ==
  /\ client[x].pc = "add"
  /\ \/ /\ \E t \in Thread : HasRoom(t) /\ Push(t, client[x].call)
        /\ ClientAt(x, "idle")
     \/ ClientAt(x, "load") /\ UNCHANGED ring
  /\ UNCHANGED <<lifeVars, eof, overCount, overRing, timerVars, worker, made, ran, added, refused>>

RunLoadDirect(x) ==
  /\ client[x].pc = "load"
  /\ ClientAt(x, "push")
  /\ UNCHANGED <<lifeVars, queueVars, timerVars, worker, made, ran, added, refused>>

RunLoad(x) ==
  /\ client[x].pc = "load"
  /\ ClientAt(x, IF overCount[client[x].thread] = 0 THEN "push" ELSE "count")
  /\ UNCHANGED <<lifeVars, queueVars, timerVars, worker, made, ran, added, refused>>

RunPush(x) ==
  /\ client[x].pc = "push"
  /\ \/ /\ HasRoom(client[x].thread) /\ Push(client[x].thread, client[x].call)
        /\ ClientAt(x, "idle")
     \/ ClientAt(x, "status") /\ UNCHANGED ring
  /\ UNCHANGED <<lifeVars, eof, overCount, overRing, timerVars, worker, made, ran, added, refused>>

RunStatus(x) ==
  /\ client[x].pc = "status"
  /\ IF eof[client[x].thread]
     THEN ClientAt(x, "idle") /\ refused' = refused \cup {client[x].call}
     ELSE ClientAt(x, "count") /\ UNCHANGED refused
  /\ UNCHANGED <<lifeVars, queueVars, timerVars, worker, made, ran, added>>

RunCountNone(x) ==
  /\ client[x].pc = "count"
  /\ ClientAt(x, "over")
  /\ UNCHANGED <<lifeVars, ring, eof, overCount, overRing, timerVars, worker, made, ran, added, refused>>

RunCount(x) ==
  /\ client[x].pc = "count"
  /\ overCount' = [overCount EXCEPT ![client[x].thread] = @ + 1]
  /\ ClientAt(x, "over")
  /\ UNCHANGED <<lifeVars, ring, eof, overRing, timerVars, worker, made, ran, added, refused>>

RunOver(x) ==
  /\ client[x].pc = "over"
  /\ overRing' = [overRing EXCEPT ![client[x].thread] = Append(@, client[x].call)]
  /\ ClientAt(x, "idle")
  /\ UNCHANGED <<lifeVars, ring, eof, overCount, timerVars, worker, made, ran, added, refused>>

ClientStep(x) == AddTry(x) \/ RunLoad(x) \/ RunPush(x) \/ RunStatus(x) \/ RunCount(x) \/ RunOver(x)

-----------------------------------------------------------------------------
(* A thread: work() *)

WorkerAt(t, pc) == worker' = [worker EXCEPT ![t].pc = pc]

WorkLoad(t) ==
  /\ worker[t].pc = "load"
  /\ WorkerAt(t, IF overCount[t] = 0 THEN "shift" ELSE "over")
  /\ UNCHANGED <<lifeVars, queueVars, timerVars, client, made, ran, added, refused>>

\* The oldest call of the overflow ring is taken out to be moved to the ring.
WorkOver(t) ==
  /\ worker[t].pc = "over"
  /\ IF overRing[t] = <<>>
     THEN WorkerAt(t, "shift") /\ UNCHANGED overRing
     ELSE /\ worker' = [worker EXCEPT ![t].pc = "move", ![t].call = Head(overRing[t])]
          /\ overRing' = [overRing EXCEPT ![t] = Tail(@)]
  /\ UNCHANGED <<lifeVars, ring, eof, overCount, timerVars, client, made, ran, added, refused>>

WorkMoveBack(t) ==
  /\ worker[t].pc = "move"
  /\ \/ /\ HasRoom(t) /\ Push(t, worker[t].call)
        /\ worker' = [worker EXCEPT ![t].pc = "count", ![t].call = None]
        /\ UNCHANGED overRing
     \/ /\ ~HasRoom(t)
        /\ overRing' = [overRing EXCEPT ![t] = Append(@, worker[t].call)]
        /\ worker' = [worker EXCEPT ![t].pc = "shift", ![t].call = None]
        /\ UNCHANGED ring
  /\ UNCHANGED <<lifeVars, eof, overCount, timerVars, client, made, ran, added, refused>>

WorkMoveDrop(t) ==
  /\ worker[t].pc = "move"
  /\ \/ /\ HasRoom(t) /\ Push(t, worker[t].call)
        /\ worker' = [worker EXCEPT ![t].pc = "count", ![t].call = None]
        /\ UNCHANGED overRing
     \/ /\ ~HasRoom(t)
        /\ worker' = [worker EXCEPT ![t].pc = "shift", ![t].call = None]
        /\ UNCHANGED <<ring, overRing>>
  /\ UNCHANGED <<lifeVars, eof, overCount, timerVars, client, made, ran, added, refused>>

\* It is moved, or put back in front when the ring has no room or is at its end.
WorkMove(t) ==
  /\ worker[t].pc = "move"
  /\ \/ /\ HasRoom(t) /\ Push(t, worker[t].call)
        /\ worker' = [worker EXCEPT ![t].pc = "count", ![t].call = None]
        /\ UNCHANGED overRing
     \/ /\ ~HasRoom(t)
        /\ overRing' = [overRing EXCEPT ![t] = <<worker[t].call>> \o @]
        /\ worker' = [worker EXCEPT ![t].pc = "shift", ![t].call = None]
        /\ UNCHANGED ring
  /\ UNCHANGED <<lifeVars, eof, overCount, timerVars, client, made, ran, added, refused>>

WorkCount(t) ==
  /\ worker[t].pc = "count"
  /\ overCount' = [overCount EXCEPT ![t] = @ - 1]
  /\ WorkerAt(t, "shift")
  /\ UNCHANGED <<lifeVars, ring, eof, overRing, timerVars, client, made, ran, added, refused>>

ExecuteLate(call) ==
  /\ IF call = Drained /\ state = "Draining"
     THEN IF drained + 1 <= NThreads
          THEN drained' = (drained + 1) % (NThreads + 1) /\ UNCHANGED state
          ELSE drained' = 0 /\ state' = "Drained"
     ELSE UNCHANGED <<state, drained>>
  /\ ran' = ran \cup ({call} \ {Drained})

\* drained(): the last thread to execute it in Draining makes the scheduler Drained.
Execute(call) ==
  /\ IF call = Drained /\ state = "Draining"
     THEN IF drained + 1 < NThreads
          THEN drained' = drained + 1 /\ UNCHANGED state
          ELSE drained' = 0 /\ state' = "Drained"
     ELSE UNCHANGED <<state, drained>>
  /\ ran' = ran \cup ({call} \ {Drained})

WorkShift(t) ==
  /\ worker[t].pc = "shift" /\ ring[t] # <<>>
  /\ ring' = [ring EXCEPT ![t] = Tail(@)]
  /\ Execute(Head(ring[t]))
  /\ WorkerAt(t, "load")
  /\ UNCHANGED <<runThreads, caller, calls, use, before, eof, overCount, overRing, timerVars, client,
                 made, added, refused>>

\* At the end of the file the thread ends, at its timeout shift() returns 0 and work() goes on.
WorkEmpty(t) ==
  /\ worker[t].pc = "shift" /\ ring[t] = <<>>
  /\ \/ eof[t] /\ WorkerAt(t, "final")
     \/ Timeout /\ ~eof[t] /\ WorkerAt(t, "load")
  /\ UNCHANGED <<lifeVars, queueVars, timerVars, client, made, ran, added, refused>>

\* --m_runThreads is no atomic operation and takes no lock: a load and a store.
WorkFinal(t) ==
  /\ worker[t].pc = "final"
  /\ worker' = [worker EXCEPT ![t].pc = "exit", ![t].count = runThreads]
  /\ UNCHANGED <<lifeVars, queueVars, timerVars, client, made, ran, added, refused>>

WorkExit(t) ==
  /\ worker[t].pc = "exit"
  /\ runThreads' = worker[t].count - 1
  /\ worker' = [worker EXCEPT ![t].pc = "ended", ![t].count = 0]
  /\ UNCHANGED <<state, drained, caller, calls, use, before, queueVars, timerVars, client, made, ran,
                 added, refused>>

Work(t) ==
  \/ WorkLoad(t) \/ WorkOver(t) \/ WorkMove(t) \/ WorkCount(t) \/ WorkShift(t) \/ WorkEmpty(t)
  \/ WorkFinal(t) \/ WorkExit(t)

-----------------------------------------------------------------------------
(* start(), drain() and stop() *)

CallerAt(x, pc) == caller' = [caller EXCEPT ![x].pc = pc]

\* The state in which a transitional state ends.
Settled(s) == CASE s = "Starting" -> "Running" [] s = "Draining" -> "Drained"
                [] s = "Stopping" -> "Stopped" [] OTHER -> s

\* What a call does in a settled state.
Start(x) ==
  \/ state = "Running" /\ CallerAt(x, "idle") /\ UNCHANGED <<state, drained, before>>
  \/ state = "Drained" /\ state' = "Running" /\ CallerAt(x, "idle") /\ before' = {} /\ UNCHANGED drained
  \/ state = "Stopped" /\ state' = "Starting" /\ CallerAt(x, "threads") /\ UNCHANGED <<drained, before>>

Drain(x) ==
  \/ state \in {"Drained", "Stopped"} /\ CallerAt(x, "idle") /\ UNCHANGED <<state, drained, before>>
  \/ /\ state = "Running" /\ state' = "Draining" /\ drained' = 0
     /\ caller' = [caller EXCEPT ![x].pc = "drain", ![x].thread = 1]
     /\ before' = Queued

Stop(x) ==
  \/ state = "Stopped" /\ CallerAt(x, "idle") /\ UNCHANGED <<state, drained, before>>
  \/ /\ state \in {"Running", "Drained"} /\ state' = "Stopping" /\ CallerAt(x, "eof")
     /\ before' = {} /\ UNCHANGED drained

Proceed(x, call) ==
  \/ call = "start" /\ Start(x)
  \/ call = "drain" /\ Drain(x)
  \/ call = "stop" /\ Stop(x)

LifeUnchanged == UNCHANGED <<runThreads, queueVars, worker, client, made, ran, added, refused>>

\* A call that finds the scheduler on its way to a state waits for that state.
LifeCall(x) ==
  /\ caller[x].pc = "idle" /\ calls < use.calls /\ x \in use.callers /\ calls' = calls + 1
  /\ \E call \in {"start", "drain", "stop"} :
       \/ state = Settled(state) /\ Proceed(x, call)
       \/ /\ state # Settled(state)
          /\ caller' = [caller EXCEPT ![x] = [pc |-> "waiting", call |-> call,
                                              want |-> Settled(state), thread |-> 1]]
          /\ UNCHANGED <<state, drained, before>>
  /\ UNCHANGED <<use, timerVars>> /\ LifeUnchanged

LifeResume(x) ==
  /\ caller[x].pc = "waiting" /\ state = caller[x].want
  /\ Proceed(x, caller[x].call)
  /\ UNCHANGED <<calls, use, timerVars>> /\ LifeUnchanged

\* The timer thread is started, and runThreads() starts the threads above m_runThreads.
StartThreads(x) ==
  /\ caller[x].pc = "threads"
  /\ timer' = [timer EXCEPT !.pc = "check"]
  /\ worker' = [t \in Thread |-> IF t > runThreads THEN [worker[t] EXCEPT !.pc = "load"] ELSE worker[t]]
  /\ runThreads' = NThreads
  /\ CallerAt(x, "running")
  /\ UNCHANGED <<state, drained, calls, use, before, queueVars, schedule, handle, pending, now, revoked,
                 retried, client, made, ran, added, refused>>

StartRunning(x) ==
  /\ caller[x].pc = "running" /\ state' = "Running" /\ CallerAt(x, "idle")
  /\ UNCHANGED <<drained, calls, use, before, timerVars>> /\ LifeUnchanged

\* drain() has each thread execute drained(), and waits for Drained.
DrainThread(x) ==
  /\ caller[x].pc = "drain" /\ client[x].pc = "idle"
  /\ IF caller[x].thread <= NThreads
     THEN /\ client' = [client EXCEPT ![x] = [pc |-> "load", thread |-> caller[x].thread, call |-> Drained]]
          /\ caller' = [caller EXCEPT ![x].thread = @ + 1]
     ELSE CallerAt(x, "draining") /\ UNCHANGED client
  /\ UNCHANGED <<state, drained, runThreads, calls, use, before, queueVars, timerVars, worker, made, ran,
                 added, refused>>

DrainWait(x) ==
  /\ caller[x].pc = "draining" /\ state = "Drained" /\ CallerAt(x, "idle")
  /\ UNCHANGED <<state, drained, calls, use, before, timerVars>> /\ LifeUnchanged

StopEof(x) ==
  /\ caller[x].pc = "eof"
  /\ eof' = [t \in Thread |-> TRUE]
  /\ CallerAt(x, "join")
  /\ UNCHANGED <<state, drained, runThreads, calls, use, before, ring, overCount, overRing, timerVars,
                 worker, client, made, ran, added, refused>>

StopJoinQuiet(x) ==
  /\ caller[x].pc = "join" /\ \A t \in Thread : worker[t].pc \in {"none", "ended"}
  /\ worker' = [t \in Thread |-> [worker[t] EXCEPT !.pc = "none"]]
  /\ eof' = [t \in Thread |-> FALSE] /\ UNCHANGED pending
  /\ CallerAt(x, "joinTimer")
  /\ UNCHANGED <<state, drained, runThreads, calls, use, before, ring, overCount, overRing, schedule,
                 handle, timer, now, revoked, retried, client, made, ran, added, refused>>

\* The threads have ended, their rings are open again, and the timer thread is woken to end.
StopJoin(x) ==
  /\ caller[x].pc = "join" /\ \A t \in Thread : worker[t].pc \in {"none", "ended"}
  /\ worker' = [t \in Thread |-> [worker[t] EXCEPT !.pc = "none"]]
  /\ eof' = [t \in Thread |-> FALSE] /\ pending' = pending + 1
  /\ CallerAt(x, "joinTimer")
  /\ UNCHANGED <<state, drained, runThreads, calls, use, before, ring, overCount, overRing, schedule,
                 handle, timer, now, revoked, retried, client, made, ran, added, refused>>

StopTimer(x) ==
  /\ caller[x].pc = "joinTimer" /\ timer.pc = "ended"
  /\ timer' = [timer EXCEPT !.pc = "none"] /\ state' = "Stopped"
  /\ CallerAt(x, "idle")
  /\ UNCHANGED <<drained, calls, use, before, schedule, handle, pending, now, revoked, retried>>
  /\ LifeUnchanged

LifeStep(x) ==
  \/ LifeResume(x) \/ StartThreads(x) \/ StartRunning(x) \/ DrainThread(x)
  \/ DrainWait(x) \/ StopEof(x) \/ StopJoin(x) \/ StopTimer(x)

-----------------------------------------------------------------------------
(* Deferred calls: run(tid, fn, timeout, mode, &timer) and del(&timer) *)

\* m_scheduleLock is the timer thread's while it goes through what is due.
LockedNever == FALSE
Locked == timer.pc \in {"due", "dispatch"}

Earliest(entries) == CHOOSE e \in entries : \A f \in entries : e.at <= f.at
Takes(thread) == {t \in Thread : thread \in {t, None} /\ HasRoom(t)}

\* The calls on timer x that wait for their time.
Outstanding(x) ==
  {e.call : e \in {f \in schedule \cup {timer.entry} : f # None /\ f.call[1] = x}}
Referred(x) == {e \in schedule : e.call = handle[x]}

\* In mode Advance an outstanding call that is sooner is kept, in mode Defer a later one.
Keeps(x, at, mode) ==
  \E e \in Referred(x) : (mode = "Advance" /\ e.at <= at) \/ (mode = "Defer" /\ e.at >= at)

\* The timer thread is woken for a call that is due before all the others.
KicksSooner(at, rest) == rest # {} /\ at < Earliest(rest).at
Kicks(at, rest) == rest = {} \/ at < Earliest(rest).at

RunTimed(x) ==
  /\ made[x] < use.timed /\ ~Locked
  /\ \E at \in Time, thread \in Thread \cup {None}, mode \in {"Update", "Advance", "Defer"} :
       LET call == <<x, made[x] + 1>>
           rest == schedule \ Referred(x)
       IN /\ ~Keeps(x, at, mode)
          /\ revoked' = revoked \cup Outstanding(x)
          /\ \/ /\ at <= now
                /\ \E t \in Takes(thread) : Push(t, call)
                /\ schedule' = rest /\ handle' = [handle EXCEPT ![x] = None]
                /\ UNCHANGED pending
             \/ /\ at <= now => Takes(thread) = {}
                /\ schedule' = rest \cup {[call |-> call, at |-> at, thread |-> thread]}
                /\ handle' = [handle EXCEPT ![x] = call]
                /\ pending' = IF Kicks(at, rest) THEN pending + 1 ELSE pending
                /\ UNCHANGED ring
  /\ made' = [made EXCEPT ![x] = @ + 1]
  /\ UNCHANGED <<lifeVars, eof, overCount, overRing, timer, now, retried, worker, client, ran, added,
                 refused>>

Del(x) ==
  /\ Outstanding(x) # {} /\ ~Locked
  /\ revoked' = revoked \cup Outstanding(x)
  /\ schedule' = schedule \ Referred(x) /\ handle' = [handle EXCEPT ![x] = None]
  /\ UNCHANGED <<lifeVars, queueVars, pending, timer, now, retried, worker, client, made, ran, added, refused>>

-----------------------------------------------------------------------------
(* The timer thread: timer() *)

TimerUnchanged == UNCHANGED <<lifeVars, eof, overCount, overRing, now, revoked, worker, client, made,
                              ran, added, refused>>

TimerCheck ==
  /\ timer.pc = "check"
  /\ timer' = IF state \in {"Stopping", "Stopped"} THEN [timer EXCEPT !.pc = "ended"]
              ELSE [timer EXCEPT !.pc = "pending",
                      !.time = IF schedule = {} THEN None ELSE Earliest(schedule).at]
  /\ UNCHANGED <<ring, schedule, handle, pending, retried>> /\ TimerUnchanged

TimerPending ==
  /\ timer.pc = "pending"
  /\ \/ pending > 0 /\ pending' = pending - 1
     \/ pending = 0 /\ timer.time # None /\ timer.time <= now /\ UNCHANGED pending
  /\ timer' = [timer EXCEPT !.pc = "gate", !.time = None]
  /\ UNCHANGED <<ring, schedule, handle, retried>> /\ TimerUnchanged

\* No call is queued while the scheduler drains or is drained.
TimerGate ==
  /\ timer.pc = "gate" /\ state \notin {"Draining", "Drained"}
  /\ timer' = IF state \in {"Stopping", "Stopped"} THEN [timer EXCEPT !.pc = "ended"]
              ELSE [timer EXCEPT !.pc = "due", !.time = now]
  /\ UNCHANGED <<ring, schedule, handle, pending, retried>> /\ TimerUnchanged

TimerDueRefers ==
  /\ timer.pc = "due"
  /\ LET due == {e \in schedule : e.at <= timer.time}
     IN \/ /\ due = {}
           /\ timer' = [timer EXCEPT !.pc = "check", !.time = None]
           /\ UNCHANGED <<schedule, handle>>
        \/ \E e \in due :
             /\ \A f \in due : f.at <= e.at
             /\ schedule' = schedule \ {e}
             /\ UNCHANGED handle
             /\ timer' = [timer EXCEPT !.pc = "dispatch", !.entry = e]
  /\ UNCHANGED <<ring, pending, retried>> /\ TimerUnchanged

\* The iterator goes from the latest call that is due to the earliest.
TimerDue ==
  /\ timer.pc = "due"
  /\ LET due == {e \in schedule : e.at <= timer.time}
     IN \/ /\ due = {}
           /\ timer' = [timer EXCEPT !.pc = "check", !.time = None]
           /\ UNCHANGED <<schedule, handle>>
        \/ \E e \in due :
             /\ \A f \in due : f.at <= e.at
             /\ schedule' = schedule \ {e}
             /\ handle' = [handle EXCEPT ![e.call[1]] = None]
             /\ timer' = [timer EXCEPT !.pc = "dispatch", !.entry = e]
  /\ UNCHANGED <<ring, pending, retried>> /\ TimerUnchanged

\* A call no ring takes is put back after the lock has been released.
TimerDispatch ==
  /\ timer.pc = "dispatch"
  /\ \/ /\ \E t \in Takes(timer.entry.thread) : Push(t, timer.entry.call)
        /\ timer' = [timer EXCEPT !.pc = "due", !.entry = None]
        /\ UNCHANGED retried
     \/ /\ Takes(timer.entry.thread) = {}
        /\ timer' = [timer EXCEPT !.pc = "again", !.time = None]
        /\ retried' = retried \cup {timer.entry.call[1]}
        /\ UNCHANGED ring
  /\ UNCHANGED <<schedule, handle, pending>> /\ TimerUnchanged

TimerAgain ==
  /\ timer.pc = "again"
  /\ schedule' = schedule \cup {timer.entry}
  /\ timer' = [timer EXCEPT !.pc = "check", !.entry = None]
  /\ UNCHANGED <<ring, handle, pending, retried>> /\ TimerUnchanged

TimerThread ==
  \/ TimerCheck \/ TimerPending \/ TimerGate \/ TimerDue \/ TimerDispatch \/ TimerAgain

Tick ==
  /\ now < use.time /\ now' = now + 1
  /\ UNCHANGED <<lifeVars, queueVars, schedule, handle, pending, timer, revoked, retried, worker,
                 client, made, ran, added, refused>>

-----------------------------------------------------------------------------
Next ==
  \/ \E x \in Producer : Run(x)
  \/ \E x \in Client : ClientStep(x)
  \/ \E x \in Caller : LifeCall(x) \/ LifeStep(x)
  \/ \E t \in Thread : Work(t)
  \/ \E x \in Timer : RunTimed(x) \/ Del(x)
  \/ TimerThread
  \/ Tick

Spec == Init /\ [][Next]_vars

\* Every thread that runs goes on, a caller in the middle of a call too, and time passes.
Fairness ==
  /\ \A x \in Producer : WF_vars(ClientStep(x))
  /\ \A x \in Caller : WF_vars(ClientStep(x) \/ LifeStep(x))
  /\ \A t \in Thread : WF_vars(Work(t))
  /\ WF_vars(TimerThread) /\ WF_vars(Tick)

FairSpec == Spec /\ Fairness

-----------------------------------------------------------------------------
(* Properties *)

\* One producer's calls of run() are executed in the order it made them, whether they went
\* through the ring or the overflow ring (the note in run__()).
RunsInOrder ==
  [][NThreads = 1 =>
       \A x \in Producer : \A i, j \in 1..made[x] :
         /\ {<<x, i>>, <<x, j>>} \cap added = {}
         /\ <<x, i>> \in ran' \ ran /\ <<x, j>> \in ran
         => j < i]_vars

\* Every call run() or add() returned from is queued once, or was executed, or was refused
\* because the thread was ending: none is lost or executed twice.  Once the scheduler is Drained
\* every call queued before drain() was called has been executed.
Finished(x) == {<<x, i>> : i \in 1..(IF client[x].pc = "idle" THEN made[x] ELSE made[x] - 1)}
Places(t, call) ==
  Cardinality({i \in DOMAIN ring[t] : ring[t][i] = call})
    + Cardinality({i \in DOMAIN overRing[t] : overRing[t][i] = call})
    + (IF worker[t].call = call THEN 1 ELSE 0)
NothingLost ==
  /\ \A x \in Producer : Finished(x) \subseteq Queued \cup ran \cup refused
  /\ Queued \cap (ran \cup refused) = {}
  /\ \A t \in Thread : \A call \in Queued \ {Drained} : Places(t, call) <= 1
  /\ state = "Drained" => before \subseteq ran

\* A deferred call that was cancelled or replaced while it waited for its time is never
\* executed, unless the timer thread has ever put back a call of that timer.
CancelledNeverRuns == \A call \in revoked \cap (ran \cup Queued) : call[1] \in retried

\* A queued call does not stay queued while the scheduler is not being stopped, a deferred call is
\* executed in the end, or cancelled, unless the scheduler stops or drains, and stop() and drain()
\* end.
CallsEnd ==
  /\ \A call \in QueuedCall :
        call \in Queued ~> (call \notin Queued \/ state \in {"Stopping", "Stopped"})
  /\ \A call \in DeferredCall :
        call \in {e.call : e \in schedule} ~> (call \in ran \cup revoked \/ state # "Running")
  /\ state \in {"Stopping", "Draining"} ~> state \in {"Stopped", "Drained"}
=============================================================================
