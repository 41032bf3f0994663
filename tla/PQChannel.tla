----------------------------- MODULE PQChannel -----------------------------
(***************************************************************************)
(* A ZmPQTx sender and a ZmPQRx receiver (z/zm ZmPQueue.hpp) connected by  *)
(* a network that loses, duplicates and reorders: messages and gap fills   *)
(* one way, resend requests and acknowledgements the other.                *)
(*                                                                         *)
(* External: the network, and the application, which sends and aborts      *)
(* messages, starts and stops the sender, and whose send_() and resend_()  *)
(* may fail.                                                               *)
(***************************************************************************)
EXTENDS ZmPQTx, ZmPQRx, Sequences

CONSTANTS
  MaxSeq,  \* bound: sequence numbers
  Uses     \* bounds on messages sent, on messages aborted (aborts), and on faults: packets lost or
           \* delivered twice, failures to send, stops, new connections, snapshots; and what the
           \* application does:
           \*   snapshots   whether the receiver takes snapshots
           \*   stopInSend  whether a send_() that fails also calls stop()
           \*   fills       what sendGap_() sends: one item as "long" as the gap, a "single" item for
           \*               each number, or "none", as every link in the repository does

ASSUME UsesAssumption ==
  /\ Clips \in BOOLEAN /\ MaxSeq \in Nat
  /\ \A u \in Uses : u.messages \in 0..MaxSeq /\ u.faults \in Nat

\* Items that do not clip themselves must never overlap in part (ZmPQueue.hpp:85-88): MxQFn's do not
\* as long as each is of one number.
NoPartialOverlap(u) == Clips \/ u.fills # "long"

VARIABLES
  tx, rx,
  wire,       \* packets on their way
  processed,  \* history: what the receiver processed
  aborted,    \* history: the sequence numbers of aborted messages
  covered,    \* history: the key up to which the receiver has a snapshot
  faults,
  use         \* the one of Uses at hand

vars == <<tx, rx, wire, processed, aborted, covered, faults, use>>

Keys == 0..MaxSeq
Items == [key : Keys, len : 1..MaxSeq, gap : BOOLEAN]
Msgs == [type : {"msg"}, item : Items]
Asks == [type : {"ask"}, gap : [key : Keys, len : 1..MaxSeq]]
Acks == [type : {"ack"}, key : Keys]
Queues == [head : Keys, tail : Keys, items : SUBSET Items]

TypeOK ==
  /\ tx \in TxState(Queues) /\ rx \in RxState(Queues)
  /\ wire \subseteq Msgs \cup Asks \cup Acks
  /\ processed \in Seq(Items) /\ aborted \subseteq Keys /\ covered \in Keys
  /\ faults \in 0..use.faults /\ use \in Uses
  \* No queue holds a number twice, nor one its head has passed, if items clip or do not overlap.
  /\ Disjoint(tx.queue) /\ (NoPartialOverlap(use) => Disjoint(rx.queue))

Init ==
  /\ tx = TxNew /\ rx = RxStart(0)
  /\ wire = {} /\ processed = <<>> /\ aborted = {} /\ covered = 0
  /\ faults = 0 /\ use \in Uses

Fills(gap) ==
  IF gap = NoGap \/ use.fills = "none" THEN {}
  ELSE IF use.fills = "long" THEN {[key |-> gap.key, len |-> gap.len, gap |-> TRUE]}
  ELSE {[key |-> n, len |-> 1, gap |-> TRUE] : n \in gap.key..(End(gap) - 1)}

DataMsgs(items) == {[type |-> "msg", item |-> i] : i \in items}
GapMsgs(gap) == DataMsgs(Fills(gap))
AskFor(gap) == IF gap = NoGap THEN {} ELSE {[type |-> "ask", gap |-> gap]}

-----------------------------------------------------------------------------
(* The sending application and the sender's jobs *)

Fault == faults < use.faults /\ faults' = faults + 1

TxUnchanged == UNCHANGED <<rx, wire, processed, aborted, covered, faults>>

SendNew == tx.seqNo < use.messages /\ tx' = Send(tx) /\ TxUnchanged

AbortOne ==
  /\ Cardinality(aborted) < use.aborts
  /\ \E i \in tx.queue.items :
       /\ i.key >= tx.send
       /\ tx' = AbortMsg(tx, i.key) /\ aborted' = aborted \cup {i.key}
  /\ UNCHANGED <<rx, wire, processed, covered, faults>>

StartSender == (~tx.running \/ tx.sendFailed \/ tx.resendFailed) /\ tx' = Start(tx) /\ TxUnchanged

StopSender ==
  /\ tx.running /\ Fault
  /\ tx' = Stop(tx)
  /\ UNCHANGED <<rx, wire, processed, aborted, covered>>

\* A new connection of a stream: what was on its way is gone, the receiver says what it expects.  On a
\* stream nothing arrives ahead, so such a receiver holds nothing beyond that.
StartStream ==
  /\ rx.queue.items = {} /\ Fault
  /\ tx' = StartFrom(tx, rx.queue.head) /\ wire' = {}
  /\ UNCHANGED <<rx, processed, aborted, covered>>

\* What is left of an unsent gap when only its fill was sent.
After(gap, sent) ==
  IF sent.len >= gap.len THEN NoGap ELSE [key |-> gap.key + sent.len, len |-> gap.len - sent.len]

Stopped(t) == IF use.stopInSend THEN Stop(t) ELSE t

\* A send that fails, before or after a gap fill, and perhaps stops the sender.
RunSendJob ==
  /\ tx.sends > 0
  /\ LET r == RunSend(tx)
     IN \/ /\ tx' = r.tx /\ wire' = wire \cup GapMsgs(r.gap) \cup DataMsgs(r.msg)
           /\ UNCHANGED faults
        \/ /\ Fault
           /\ \/ /\ r.gap # NoGap
                 /\ tx' = SendFailed(Stopped(r.tx), tx, tx.send) /\ UNCHANGED wire
              \/ /\ r.msg # {}
                 /\ tx' = SendFailed(Stopped(r.tx), tx, tx.send + r.gap.len)
                 /\ wire' = wire \cup GapMsgs(r.gap)
  /\ UNCHANGED <<rx, processed, aborted, covered>>

RunResendJob ==
  /\ tx.resends > 0
  /\ LET r == RunResend(tx)
     IN \/ /\ tx' = r.tx /\ wire' = wire \cup GapMsgs(r.gap) \cup DataMsgs(r.msg)
           /\ UNCHANGED faults
        \/ /\ Fault
           /\ \/ /\ r.gap # NoGap
                 /\ tx' = ResendFailed(Stopped(r.tx), tx, tx.gap) /\ UNCHANGED wire
              \/ /\ r.msg # {}
                 /\ tx' = ResendFailed(Stopped(r.tx), tx, After(tx.gap, r.gap))
                 /\ wire' = wire \cup GapMsgs(r.gap)
  /\ UNCHANGED <<rx, processed, aborted, covered>>

RunArchiveJob == tx.archives > 0 /\ tx' = RunArchive(tx) /\ TxUnchanged

-----------------------------------------------------------------------------
(* The network and the receiver *)

Taken(p) ==
  \/ wire' = wire \ {p} /\ UNCHANGED faults
  \/ Fault /\ UNCHANGED wire

Lose ==
  /\ Fault
  /\ \E p \in wire : wire' = wire \ {p}
  /\ UNCHANGED <<tx, rx, processed, aborted, covered>>

\* The outcome of a handler of the receiver, which took the packets of taken.
Handled(r, rest) ==
  /\ rx' = r.rx
  /\ wire' = rest \cup AskFor(r.request)
  /\ processed' = IF r.process = {} THEN processed ELSE Append(processed, The(r.process))
  /\ UNCHANGED <<tx, aborted, covered>>

DeliverMsg(key) ==
  \E p \in wire \cap [type : {"msg"}, item : [key : {key}, len : 1..MaxSeq, gap : BOOLEAN]] :
    \/ Handled(Received(rx, p.item), wire \ {p}) /\ UNCHANGED faults
    \/ Fault /\ Handled(Received(rx, p.item), wire)

DeliverAsk ==
  \E p \in wire \cap Asks :
    /\ tx' = Resend(tx, p.gap) /\ Taken(p)
    /\ UNCHANGED <<rx, processed, aborted, covered>>

DeliverAck ==
  \E p \in wire \cap Acks :
    /\ tx' = Ackd(tx, p.key) /\ Taken(p)
    /\ UNCHANGED <<rx, processed, aborted, covered>>

SendAck ==
  /\ rx.queue.head > tx.ackd
  /\ wire' = wire \cup {[type |-> "ack", key |-> rx.queue.head]} /\ wire' # wire
  /\ UNCHANGED <<tx, rx, processed, aborted, covered, faults>>

DequeueJob == rx.dequeues > 0 /\ Handled(RunDequeue(rx), wire) /\ UNCHANGED faults
ReRequestTimer == rx.timer /\ Handled(ReRequest(rx), wire) /\ UNCHANGED faults

\* A receiver that has just connected takes a snapshot, of everything up to a key.
StartSnapshot ==
  /\ use.snapshots /\ rx = RxStart(0) /\ Fault
  /\ rx' = StartQueuing(rx) /\ UNCHANGED <<tx, wire, processed, aborted, covered>>

EndSnapshot ==
  /\ rx.queuing
  /\ \E key \in rx.queue.head..tx.seqNo :
        /\ rx' = StopQueuing(rx, key)
        /\ covered' = key
  /\ UNCHANGED <<tx, wire, processed, aborted, faults>>

-----------------------------------------------------------------------------
Next ==
  /\ UNCHANGED use
  /\ \/ SendNew \/ AbortOne \/ StartSender \/ StopSender \/ StartStream
     \/ RunSendJob \/ RunResendJob \/ RunArchiveJob
     \/ Lose \/ (\E key \in Keys : DeliverMsg(key)) \/ DeliverAsk \/ DeliverAck \/ SendAck
     \/ DequeueJob \/ ReRequestTimer \/ StartSnapshot \/ EndSnapshot

Spec == Init /\ [][Next]_vars

\* Queued jobs and timers run, a sender that stopped or failed is started again, and the network
\* delivers what it does not lose.
Fairness ==
  /\ WF_vars(StartSender /\ UNCHANGED use) /\ WF_vars(RunSendJob /\ UNCHANGED use)
  /\ WF_vars(RunResendJob /\ UNCHANGED use) /\ WF_vars(RunArchiveJob /\ UNCHANGED use)
  /\ \A key \in Keys : WF_vars(DeliverMsg(key) /\ UNCHANGED use)
  /\ WF_vars(DeliverAsk /\ UNCHANGED use) /\ WF_vars(DeliverAck /\ UNCHANGED use)
  /\ WF_vars(DequeueJob /\ UNCHANGED use) /\ WF_vars(ReRequestTimer /\ UNCHANGED use)

FairSpec == Spec /\ Fairness

-----------------------------------------------------------------------------
(* Properties *)

\* The receiver processes each message once and in order, and skips only numbers of messages
\* that were aborted or that a snapshot stands for: the pair implements a sequenced channel.
Channel == INSTANCE SequencedChannel
  WITH submitted <- tx.seqNo, withdrawn <- aborted, delivered <- processed
IsSequenced == Channel!Spec

\* A message the receiver has not processed can still be sent: it is in the queue or the archive.
NothingDropped ==
  \A n \in 0..(tx.seqNo - 1) : n < rx.queue.head \/ n \in aborted \/ Lookup(tx, n) # {}

\* Whatever is lost, and whenever a send fails, the sender gets to the end of what was submitted and
\* the receiver to the end of what it knows of: no job is left that nobody schedules.  Not so when
\*   - a send_() that fails calls stop(), which clears the flag of the job that then fails (1246-1252),
\*   - a message was aborted and sendGap_() fills no gap,
\*   - items of several numbers do not clip themselves,
\*   - the receiver is in a snapshot, or has from one a gap it has not asked for (1144).
CaughtUp == tx.send >= tx.seqNo /\ rx.queue.head = rx.queue.tail
NeverFilled == aborted # {} /\ use.fills = "none"
LeftBySnapshot == rx.queuing \/ (rx.gap # NoGap /\ ~rx.timer)

CatchesUp ==
  ~use.stopInSend /\ NoPartialOverlap(use) => []<>(CaughtUp \/ NeverFilled \/ LeftBySnapshot)
=============================================================================
