------------------------------- MODULE ZmPQTx -------------------------------
(***************************************************************************)
(* ZmPQTx, the sender of z/zm ZmPQueue.hpp that resends on request, with   *)
(* the sequence numbers MxQueueTx (mxbase MxQueue.hpp) allocates: each     *)
(* handler as an operator on its state.  Every user in the repository runs *)
(* the handlers on one thread (MxLink: the tx thread of the engine), and   *)
(* the jobs, send(), resend() and archive(), do                            *)
(*                                                                         *)
(*   [tx, gap, msg]: the state after it if what it sent was accepted, the  *)
(*   gap it sent first and the message it then sent (a set).               *)
(*                                                                         *)
(* archive_(msg) calls archived(), and persists msg if the link Persists   *)
(* messages; retrieve_() finds what was persisted.                         *)
(***************************************************************************)
EXTENDS ZmPQueue

CONSTANT Persists

TxState(Q) ==
  [seqNo : Nat, queue : Q, send : Nat, ackd : Nat, archive : Nat, gap : Gap, running : BOOLEAN,
   sending : BOOLEAN, sendFailed : BOOLEAN, archiving : BOOLEAN, resending : BOOLEAN,
   resendFailed : BOOLEAN, sends : Nat, archives : Nat, resends : Nat, persisted : SUBSET Item]

TxNew ==
  [seqNo |-> 0, queue |-> EmptyQueue(0), send |-> 0, ackd |-> 0, archive |-> 0, gap |-> NoGap,
   running |-> FALSE, sending |-> FALSE, sendFailed |-> FALSE, archiving |-> FALSE,
   resending |-> FALSE, resendFailed |-> FALSE, sends |-> 0, archives |-> 0, resends |-> 0,
   persisted |-> {}]

The(s) == CHOOSE x \in s : TRUE
Schedule(n, yes) == IF yes THEN n + 1 ELSE n

\* The archiver is woken when there is something acknowledged and not yet archived.
WakeArchive(tx) ==
  LET yes == ~tx.archiving /\ tx.ackd > tx.archive
  IN [tx EXCEPT !.archiving = @ \/ yes, !.archives = Schedule(@, yes)]

\* What start() does in a sender that runs: a send or a resend that failed is tried again.
Wake(tx, wasRunning) ==
  LET failed == wasRunning /\ tx.sendFailed
      send == failed \/ (~tx.sending /\ tx.send < tx.queue.tail)
      refailed == wasRunning /\ tx.resendFailed
      resend == refailed \/ (~tx.resending /\ tx.gap # NoGap)
  IN WakeArchive([tx EXCEPT
       !.running = TRUE, !.sends = Schedule(@, send), !.resends = Schedule(@, resend),
       !.sending = @ \/ (send /\ ~failed), !.resending = @ \/ (resend /\ ~refailed),
       !.sendFailed = FALSE, !.resendFailed = FALSE])

Start(tx) == Wake(tx, tx.running)

\* start(key): a stream is sent again from the key its receiver expects.
StartFrom(tx, key) == Wake([tx EXCEPT !.send = key, !.ackd = key], tx.running)

StopKeepSending(tx) == [tx EXCEPT !.running = FALSE]

Stop(tx) ==
  IF ~tx.running THEN tx
  ELSE [tx EXCEPT !.running = FALSE, !.sending = FALSE, !.resending = FALSE]

\* MxQueueTx::send(msg): the next sequence number is the message's.
Send(tx) ==
  LET key == tx.seqNo
      wake == tx.running /\ ~tx.sending /\ tx.send <= key
      t == [tx EXCEPT !.seqNo = @ + 1]
  IN IF key < tx.ackd THEN t
     ELSE [t EXCEPT !.queue = Enqueue(@, [key |-> key, len |-> 1, gap |-> FALSE]),
                    !.sending = @ \/ wake, !.sends = Schedule(@, wake)]

AbortMsg(tx, key) == IF key < tx.send THEN tx ELSE [tx EXCEPT !.queue = Abort(@, key).queue]

\* ackd(key): everything before key was received, whoever sent it.
Ackd(tx, key) ==
  LET t == [tx EXCEPT !.seqNo = Max({@, key})]
  IN IF key < tx.ackd THEN t
     ELSE WakeArchive([t EXCEPT !.ackd = key, !.send = Max({@, key})])

\* resend(gap): the gap on record is widened to reach over this one.
Resend(tx, gap) ==
  LET first == IF tx.gap = NoGap THEN gap.key ELSE Min({tx.gap.key, gap.key})
      end == IF tx.gap = NoGap THEN End(gap) ELSE Max({End(tx.gap), End(gap)})
      all == [key |-> first, len |-> end - first]
      wake == ~tx.resending /\ all # tx.gap
  IN IF gap = NoGap THEN tx
     ELSE [tx EXCEPT !.gap = all, !.resending = @ \/ wake, !.resends = Schedule(@, wake)]

\* The message that contains key, from the queue or else from the archive.
Lookup(tx, key) ==
  LET queued == Find(tx.queue, key)
  IN IF queued # {} THEN queued ELSE {m \in tx.persisted : m.key <= key /\ key < End(m)}

\* The numbers from key on that no message contains, up to the first that one does.
Upto(tx, key, end) ==
  LET hits == {n \in key..(end - 1) : Lookup(tx, n) # {}}
  IN IF hits = {} THEN end ELSE Min(hits)

GapFill(from, to) == [key |-> from, len |-> to - from]

\* send(): a gap up to the next message, then that message.
RunSend(tx) ==
  LET at == Upto(tx, tx.send, tx.queue.tail)
      msg == IF at < tx.queue.tail THEN Lookup(tx, at) ELSE {}
      next == IF msg = {} THEN Max({at, tx.send}) ELSE at + The(msg).len
      more == next < tx.queue.tail
      t == [tx EXCEPT !.sends = IF more THEN @ ELSE @ - 1, !.send = next, !.sending = @ /\ more]
  IN IF ~tx.running
     THEN [tx |-> [tx EXCEPT !.sends = @ - 1, !.sending = FALSE], gap |-> NoGap, msg |-> {}]
     ELSE [tx |-> t, gap |-> IF at > tx.send THEN GapFill(tx.send, at) ELSE NoGap, msg |-> msg]

\* send_() or sendGap_() returned false: send() is not scheduled again and m_sendKey is set back
\* to what had been sent.  t is the state send() and what it called left behind.
SendFailed(t, before, sent) ==
  [t EXCEPT !.sends = before.sends - 1, !.sending = TRUE, !.sendFailed = TRUE, !.send = sent]

\* archive(): one message that was acknowledged is persisted, and archived() then drops it.
RunArchive(tx) ==
  LET hits == {n \in tx.archive..(tx.ackd - 1) : Find(tx.queue, n) # {}}
      at == IF hits = {} THEN tx.ackd ELSE Min(hits)
      msg == IF hits = {} THEN {} ELSE Find(tx.queue, at)
      next == IF hits = {} THEN Max({tx.archive, tx.ackd}) ELSE at + The(msg).len
      more == next < tx.ackd
  IN IF ~tx.running THEN [tx EXCEPT !.archives = @ - 1, !.archiving = FALSE]
     ELSE [tx EXCEPT !.archives = IF more THEN @ ELSE @ - 1, !.archiving = @ /\ more,
                     !.archive = next, !.persisted = IF Persists THEN @ \cup msg ELSE @,
                     !.queue = IF msg = {} THEN @ ELSE ShiftTo(@, End(The(msg)))]

\* resend(): as send(), for the gap on record; what is archived leaves the queue.
RunResend(tx) ==
  LET at == Upto(tx, tx.gap.key, End(tx.gap))
      msg == IF at < End(tx.gap) THEN Lookup(tx, at) ELSE {}
      next == IF msg = {} THEN at ELSE End(The(msg))
      rest == IF next >= End(tx.gap) THEN NoGap ELSE [key |-> next, len |-> End(tx.gap) - next]
      more == rest # NoGap
      q == IF msg # {} /\ msg \subseteq tx.queue.items /\ next <= tx.archive
           THEN ShiftTo(tx.queue, next) ELSE tx.queue
  IN IF ~tx.running
     THEN [tx |-> [tx EXCEPT !.resends = @ - 1, !.resending = FALSE], gap |-> NoGap, msg |-> {}]
     ELSE [tx |-> [tx EXCEPT !.resends = IF more THEN @ ELSE @ - 1, !.resending = @ /\ more,
                             !.gap = rest, !.queue = q],
           gap |-> IF at > tx.gap.key THEN GapFill(tx.gap.key, at) ELSE NoGap, msg |-> msg]

ResendFailed(t, before, left) ==
  [t EXCEPT !.resends = before.resends - 1, !.resending = TRUE, !.resendFailed = TRUE, !.gap = left]
=============================================================================
