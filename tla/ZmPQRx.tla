------------------------------- MODULE ZmPQRx -------------------------------
(***************************************************************************)
(* ZmPQRx, the receiver of z/zm ZmPQueue.hpp that asks for what it misses: *)
(* each handler as an operator on its state.  Every user in the repository *)
(* runs the handlers on one thread (MxLink: the rx thread of the engine),  *)
(* and what a handler does is                                              *)
(*                                                                         *)
(*   [rx, process, request]: the state after it, the message it had the    *)
(*   application process (a set), and the gap it asked for.                *)
(*                                                                         *)
(* scheduleDequeue() queues a call of dequeue() (dequeues), the timer of   *)
(* reRequest() is armed or not (timer).                                    *)
(***************************************************************************)
EXTENDS ZmPQueue

RxState(Q) == [queue : Q, gap : Gap, queuing : BOOLEAN, dequeuing : BOOLEAN,
               dequeues : Nat, timer : BOOLEAN]

RxStart(key) == [queue |-> EmptyQueue(key), gap |-> NoGap, queuing |-> FALSE,
                 dequeuing |-> FALSE, dequeues |-> 0, timer |-> FALSE]

Only(rx) == [rx |-> rx, process |-> {}, request |-> NoGap]

ScheduleDequeue(rx) == [rx EXCEPT !.dequeuing = TRUE, !.dequeues = @ + 1]

\* stalled(): a gap it has not asked for yet is asked for, and the timer is armed again.
Stalled(rx) ==
  LET gap == FirstGap(rx.queue)
  IN IF rx.queue.items = {} \/ gap = rx.gap THEN Only(rx)
     ELSE [rx |-> [rx EXCEPT !.gap = gap, !.timer = gap # NoGap],
           process |-> {}, request |-> gap]

\* While a snapshot is received messages are queued; then they are taken from its end on.
StartQueuing(rx) == [rx EXCEPT !.queuing = TRUE]

StopQueuing(rx, key) ==
  LET q == SetHead(rx.queue, key)
      r == [rx EXCEPT !.queuing = FALSE, !.queue = q, !.gap = FirstGap(q)]
  IN IF ~r.dequeuing /\ q.items # {} THEN ScheduleDequeue(r) ELSE r

Received(rx, m) ==
  IF rx.queuing \/ rx.dequeuing THEN Only([rx EXCEPT !.queue = Enqueue(@, m)])
  ELSE LET r == Rotate(rx.queue, m)
           after == [rx EXCEPT !.queue = r.queue]
       IN IF r.out = {} THEN Stalled(after)
          ELSE [Only(IF r.queue.items # {} THEN ScheduleDequeue(after) ELSE after)
                  EXCEPT !.process = r.out]

\* dequeue() goes on while it finds messages: it schedules itself.
RunDequeue(rx) ==
  LET r == Dequeue(rx.queue)
      more == r.out # {} /\ r.queue.items # {}
      after == [rx EXCEPT !.queue = r.queue, !.dequeuing = @ /\ more,
                          !.dequeues = IF more THEN @ ELSE @ - 1]
  IN IF r.out = {} THEN Stalled(after) ELSE [Only(after) EXCEPT !.process = r.out]

\* reRequest(): the timer stays armed while there is a gap on record.
ReRequest(rx) ==
  [rx |-> [rx EXCEPT !.timer = rx.gap # NoGap], process |-> {}, request |-> rx.gap]
=============================================================================
