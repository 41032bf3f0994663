------------------------------- MODULE ZmRing -------------------------------
(***************************************************************************)
(* The lock-free ring buffer that feeds every scheduler thread (z/zm       *)
(* ZmRing.hpp, ZmRing.cpp): writers claim a position with a compare and    *)
(* exchange of head, fill it and mark its header Ready; one reader follows *)
(* with tail.  A reader that finds an empty position and a writer that     *)
(* finds the ring full set the Waiting bit of the word they look at and    *)
(* sleep on it (a futex); eof() ends the reader.                           *)
(*                                                                         *)
(* Every load, store and exchange of a shared word is a step.  head and    *)
(* tail run from 0 to 2N-1: the index and the Wrapped bit.  Memory is      *)
(* sequentially consistent, as the code's barriers are meant to make it;   *)
(* the counters that serve telemetry only are left out.                    *)
(*                                                                         *)
(* External: the writers, the reader and the caller of eof(); the futex.   *)
(***************************************************************************)
EXTENDS Integers, FiniteSets, Sequences

CONSTANTS
  Writer,
  Blocking,     \* the writers that call push(); the others call tryPush()
  N,            \* positions in the ring
  Uses,         \* how the ring is used: whether params().timeout() is set, and the bounds on
                \* the pushes of each writer and on the calls of eof()
  NoItem

ASSUME WriterAssumption == IsFiniteSet(Writer) /\ Blocking \subseteq Writer
ASSUME SizeAssumption == N \in Nat \ {0}
ASSUME UsesAssumption == \A u \in Uses :
  u.timeout \in BOOLEAN /\ u.pushes \in [Writer -> Nat] /\ u.eofs \in Nat

Item == UNION {{x} \X (1..u.pushes[x]) : x \in Writer, u \in Uses}
ASSUME ItemAssumption == NoItem \notin Item

Position == 0..(2 * N - 1)
FollowingLate(p) == (p + 1) % (2 * N + 1)
Following(p) == (p + 1) % (2 * N)
Slot(p) == p % N
FullLate(h, t) == h = (t + N + 1) % (2 * N)
Full(h, t) == h = (t + N) % (2 * N)

Header == [is : {"Empty", "Ready", "EndOfFile"}, waiting : BOOLEAN]
EmptyHeader == [is |-> "Empty", waiting |-> FALSE]

VARIABLES
  head,       \* head without its flag
  eofFlag,    \* EndOfFile_ in head
  tail,       \* tail without its flag
  tailWait,   \* Waiting in tail
  header,     \* the header of each slot
  cell,       \* the item in each slot
  w,          \* each writer: where it is in push_(), what it has loaded and claimed
  sent,       \* how many pushes each writer has completed
  r,          \* the reader: where it is in shift(), the item it holds
  taken,      \* the item shift() returned last
  e,          \* the caller of eof(): where it is, the head it loaded, calls so far
  spoilt,     \* history: a position in use was claimed once more, or marked or given up by eof()
  use         \* the one of Uses at hand

words == <<head, eofFlag, tail, tailWait, header>>
vars == <<words, cell, w, sent, r, taken, e, spoilt, use>>

WriterPC == {"idle", "loaded", "claiming", "claimed", "clear", "wake", "full", "waiting", "asleep"}
ReaderPC == {"shift", "empty", "waiting", "asleep", "take", "shift2", "clear", "wake", "ended"}
EofPC == {"idle", "mark", "clear", "wake", "flag", "ended", "unflag"}

TypeOK ==
  /\ head \in Position /\ tail \in Position
  /\ eofFlag \in BOOLEAN /\ tailWait \in BOOLEAN
  /\ header \in [0..(N - 1) -> Header]
  /\ cell \in [0..(N - 1) -> Item \cup {NoItem}]
  /\ w \in [Writer -> [pc : WriterPC, head : Position, tail : Position, wait : BOOLEAN]]
  /\ sent \in [Writer -> Nat] /\ \A x \in Writer : sent[x] <= use.pushes[x]
  /\ r \in [pc : ReaderPC, wait : BOOLEAN, item : Item \cup {NoItem}]
  /\ taken \in Item \cup {NoItem}
  /\ e \in [pc : EofPC, head : Position, calls : 0..use.eofs]
  /\ spoilt \in BOOLEAN
  /\ use \in Uses

Init ==
  /\ head = 0 /\ tail = 0 /\ eofFlag = FALSE /\ tailWait = FALSE
  /\ header = [i \in 0..(N - 1) |-> EmptyHeader]
  /\ cell = [i \in 0..(N - 1) |-> NoItem]
  /\ w = [x \in Writer |-> [pc |-> "idle", head |-> 0, tail |-> 0, wait |-> FALSE]]
  /\ sent = [x \in Writer |-> 0]
  /\ r = [pc |-> "shift", wait |-> FALSE, item |-> NoItem]
  /\ taken = NoItem
  /\ e = [pc |-> "idle", head |-> 0, calls |-> 0]
  /\ spoilt = FALSE
  /\ use \in Uses

-----------------------------------------------------------------------------
(* The futex: a wake reaches one of those who sleep on the word *)

WriterAt(x, pc) == w' = [w EXCEPT ![x].pc = pc]
ReaderAt(pc) == r' = [r EXCEPT !.pc = pc]

WakeReader(i) ==
  IF r.pc = "asleep" /\ Slot(tail) = i THEN ReaderAt("waiting") ELSE UNCHANGED r

-----------------------------------------------------------------------------
(* A writer: push_() and push2() *)

\* push_() loads head; at the end of the file it returns 0.
PushLoad(x) ==
  /\ w[x].pc = "idle" /\ sent[x] < use.pushes[x] /\ ~eofFlag
  /\ w' = [w EXCEPT ![x].pc = "loaded", ![x].head = head]
  /\ UNCHANGED <<words, cell, sent, r, taken, e, spoilt>>

\* push_() loads tail and finds room, or a full ring: tryPush() then returns 0.
PushCheck(x) ==
  /\ w[x].pc = "loaded"
  /\ w' = [w EXCEPT ![x].tail = tail, ![x].wait = tailWait,
             ![x].pc = CASE ~Full(w[x].head, tail) -> "claiming"
                         [] Full(w[x].head, tail) /\ x \in Blocking -> "full"
                         [] OTHER -> "idle"]
  /\ UNCHANGED <<words, cell, sent, r, taken, e, spoilt>>

\* eof() has loaded head and not yet stored it back.
Marking == e.pc \in {"mark", "clear", "wake", "flag"}

\* The compare and exchange of head claims the position, or push_() starts again.  It sees neither
\* that head has gone round since it was loaded, when the ring may be full, nor eof().
PushClaim(x) ==
  /\ w[x].pc = "claiming"
  /\ IF head = w[x].head /\ ~eofFlag
     THEN /\ head' = Following(head) /\ WriterAt(x, "claimed")
          /\ spoilt' = (spoilt \/ Full(head, tail) \/ Marking)
     ELSE UNCHANGED <<head, spoilt>> /\ WriterAt(x, "idle")
  /\ UNCHANGED <<eofFlag, tail, tailWait, header, cell, sent, r, taken, e>>

\* The item is constructed and push2() marks it Ready.
Push2NoWake(x) ==
  LET i == Slot(w[x].head)
  IN /\ w[x].pc = "claimed"
     /\ cell' = [cell EXCEPT ![i] = <<x, sent[x] + 1>>]
     /\ header' = [header EXCEPT ![i].is = "Ready"]
     /\ sent' = [sent EXCEPT ![x] = @ + 1]
     /\ WriterAt(x, "idle")
     /\ UNCHANGED <<head, eofFlag, tail, tailWait, r, taken, e, spoilt>>
Push2(x) ==
  LET i == Slot(w[x].head)
  IN /\ w[x].pc = "claimed"
     /\ cell' = [cell EXCEPT ![i] = <<x, sent[x] + 1>>]
     /\ header' = [header EXCEPT ![i] = [is |-> "Ready", waiting |-> FALSE]]
     /\ sent' = [sent EXCEPT ![x] = @ + 1]
     /\ WriterAt(x, IF header[i].waiting THEN "clear" ELSE "idle")
     /\ UNCHANGED <<head, eofFlag, tail, tailWait, r, taken, e, spoilt>>

\* wake(): clears Waiting once more, then wakes the reader.
Push2Clear(x) ==
  /\ w[x].pc = "clear"
  /\ header' = [header EXCEPT ![Slot(w[x].head)].waiting = FALSE]
  /\ WriterAt(x, "wake")
  /\ UNCHANGED <<head, eofFlag, tail, tailWait, cell, sent, r, taken, e, spoilt>>

Push2Wake(x) ==
  /\ w[x].pc = "wake"
  /\ WakeReader(Slot(w[x].head))
  /\ WriterAt(x, "idle")
  /\ UNCHANGED <<words, cell, sent, taken, e, spoilt>>

\* wait() on tail: sets Waiting if tail is still what push_() loaded.
PushWait(x) ==
  /\ w[x].pc = "full"
  /\ IF tail = w[x].tail /\ tailWait = w[x].wait
     THEN tailWait' = TRUE /\ WriterAt(x, "waiting")
     ELSE UNCHANGED tailWait /\ WriterAt(x, "idle")
  /\ UNCHANGED <<head, eofFlag, tail, header, cell, sent, r, taken, e, spoilt>>

\* The loop of wait(): back to push_() when tail has changed, else to sleep.
PushSleep(x) ==
  /\ w[x].pc = "waiting"
  /\ WriterAt(x, IF tail = w[x].tail /\ tailWait THEN "asleep" ELSE "idle")
  /\ UNCHANGED <<words, cell, sent, r, taken, e, spoilt>>

\* wait() times out and push() returns 0.
PushTimeout(x) ==
  /\ use.timeout /\ w[x].pc = "asleep"
  /\ WriterAt(x, "idle")
  /\ UNCHANGED <<words, cell, sent, r, taken, e, spoilt>>

-----------------------------------------------------------------------------
(* The reader: shift() and shift2() *)

\* shift() loads the header at tail.
Shift ==
  LET h == header[Slot(tail)]
  IN /\ r.pc = "shift"
     /\ r' = [r EXCEPT !.wait = h.waiting,
                !.pc = CASE h.is = "Empty" -> "empty"
                         [] h.is = "EndOfFile" -> "ended"
                         [] h.is = "Ready" -> "take"]
     /\ UNCHANGED <<words, cell, w, sent, taken, e, spoilt>>

\* wait() on the header: sets Waiting if the header is still what shift() loaded.
ShiftWait ==
  LET h == header[Slot(tail)]
  IN /\ r.pc = "empty"
     /\ IF h = [is |-> "Empty", waiting |-> r.wait]
        THEN header' = [header EXCEPT ![Slot(tail)].waiting = TRUE] /\ ReaderAt("waiting")
        ELSE UNCHANGED header /\ ReaderAt("shift")
     /\ UNCHANGED <<head, eofFlag, tail, tailWait, cell, w, sent, taken, e, spoilt>>

ShiftSleep ==
  /\ r.pc = "waiting"
  /\ ReaderAt(IF header[Slot(tail)] = [is |-> "Empty", waiting |-> TRUE] THEN "asleep" ELSE "shift")
  /\ UNCHANGED <<words, cell, w, sent, taken, e, spoilt>>

\* wait() times out and shift() returns 0: the reader calls it again.
ShiftTimeout ==
  /\ use.timeout /\ r.pc = "asleep"
  /\ ReaderAt("shift")
  /\ UNCHANGED <<words, cell, w, sent, taken, e, spoilt>>

\* shift() empties the header and returns the item.
ShiftTake ==
  /\ r.pc = "take"
  /\ header' = [header EXCEPT ![Slot(tail)] = EmptyHeader]
  /\ r' = [r EXCEPT !.pc = "shift2", !.item = cell[Slot(tail)]]
  /\ UNCHANGED <<head, eofFlag, tail, tailWait, cell, w, sent, taken, e, spoilt>>

\* shift2() frees the position.
Shift2NoWake ==
  /\ r.pc = "shift2"
  /\ tail' = Following(tail)
  /\ taken' = r.item
  /\ r' = [r EXCEPT !.pc = "shift", !.item = NoItem]
  /\ UNCHANGED <<head, eofFlag, tailWait, header, cell, w, sent, e, spoilt>>
Shift2 ==
  /\ r.pc = "shift2"
  /\ tail' = Following(tail)
  /\ tailWait' = FALSE
  /\ taken' = r.item
  /\ r' = [r EXCEPT !.pc = IF tailWait THEN "clear" ELSE "shift", !.item = NoItem]
  /\ UNCHANGED <<head, eofFlag, header, cell, w, sent, e, spoilt>>

Shift2Clear ==
  /\ r.pc = "clear"
  /\ tailWait' = FALSE
  /\ ReaderAt("wake")
  /\ UNCHANGED <<head, eofFlag, tail, header, cell, w, sent, taken, e, spoilt>>

\* wake() wakes one writer.
Shift2Wake ==
  /\ r.pc = "wake"
  /\ IF \E x \in Writer : w[x].pc = "asleep"
     THEN \E x \in Writer : w[x].pc = "asleep" /\ WriterAt(x, "waiting")
     ELSE UNCHANGED w
  /\ ReaderAt("shift")
  /\ UNCHANGED <<words, cell, sent, taken, e, spoilt>>

-----------------------------------------------------------------------------
(* eof() *)

EofLoad ==
  /\ e.pc = "idle" /\ e.calls < use.eofs
  /\ e' = [pc |-> "mark", head |-> head, calls |-> e.calls + 1]
  /\ UNCHANGED <<words, cell, w, sent, r, taken, spoilt>>

EofMarkTail ==
  /\ e.pc = "mark"
  /\ header' = [header EXCEPT ![Slot(tail)] = [is |-> "EndOfFile", waiting |-> FALSE]]
  /\ e' = [e EXCEPT !.pc = IF header[Slot(tail)].waiting THEN "clear" ELSE "flag"]
  /\ spoilt' = (spoilt \/ Full(e.head, tail))
  /\ UNCHANGED <<head, eofFlag, tail, tailWait, cell, w, sent, r, taken>>
EofMarkNoWake ==
  /\ e.pc = "mark"
  /\ header' = [header EXCEPT ![Slot(e.head)].is = "EndOfFile"]
  /\ e' = [e EXCEPT !.pc = "flag"]
  /\ spoilt' = (spoilt \/ Full(e.head, tail))
  /\ UNCHANGED <<head, eofFlag, tail, tailWait, cell, w, sent, r, taken>>
\* The position at head is marked, also if it is the oldest one of a full ring.
EofMark ==
  LET i == Slot(e.head)
  IN /\ e.pc = "mark"
     /\ header' = [header EXCEPT ![i] = [is |-> "EndOfFile", waiting |-> FALSE]]
     /\ e' = [e EXCEPT !.pc = IF header[i].waiting THEN "clear" ELSE "flag"]
     /\ spoilt' = (spoilt \/ Full(e.head, tail))
     /\ UNCHANGED <<head, eofFlag, tail, tailWait, cell, w, sent, r, taken>>

EofClear ==
  /\ e.pc = "clear"
  /\ header' = [header EXCEPT ![Slot(e.head)].waiting = FALSE]
  /\ e' = [e EXCEPT !.pc = "wake"]
  /\ UNCHANGED <<head, eofFlag, tail, tailWait, cell, w, sent, r, taken, spoilt>>

EofWake ==
  /\ e.pc = "wake"
  /\ WakeReader(Slot(e.head))
  /\ e' = [e EXCEPT !.pc = "flag"]
  /\ UNCHANGED <<words, cell, w, sent, taken, spoilt>>

\* head is stored back as it was loaded, with the flag.
EofFlag ==
  /\ e.pc = "flag"
  /\ head' = e.head /\ eofFlag' = TRUE
  /\ e' = [e EXCEPT !.pc = "ended"]
  /\ UNCHANGED <<tail, tailWait, header, cell, w, sent, r, taken, spoilt>>

\* eof(false), once the reader has ended: the header is emptied, then the flag is cleared
\* and the reader starts again.
Reopen ==
  /\ e.pc = "ended" /\ r.pc = "ended"
  /\ header' = [header EXCEPT ![Slot(head)] = EmptyHeader]
  /\ e' = [e EXCEPT !.pc = "unflag", !.head = head]
  /\ UNCHANGED <<head, eofFlag, tail, tailWait, cell, w, sent, r, taken, spoilt>>

ReopenFlag ==
  /\ e.pc = "unflag"
  /\ head' = e.head /\ eofFlag' = FALSE
  /\ e' = [e EXCEPT !.pc = "idle"]
  /\ ReaderAt("shift")
  /\ UNCHANGED <<tail, tailWait, header, cell, w, sent, taken, spoilt>>

-----------------------------------------------------------------------------

Write(x) ==
  \/ PushLoad(x) \/ PushCheck(x) \/ PushClaim(x) \/ Push2(x) \/ Push2Clear(x) \/ Push2Wake(x)
  \/ PushWait(x) \/ PushSleep(x) \/ PushTimeout(x)

Read ==
  \/ Shift \/ ShiftWait \/ ShiftSleep \/ ShiftTimeout \/ ShiftTake
  \/ Shift2 \/ Shift2Clear \/ Shift2Wake

Eof == EofLoad \/ EofMark \/ EofClear \/ EofWake \/ EofFlag \/ Reopen \/ ReopenFlag

Next == UNCHANGED use /\ (Read \/ Eof \/ \E x \in Writer : Write(x))

Spec == Init /\ [][Next]_vars

\* Threads run: the reader, each writer (its caller goes on pushing) and the caller of eof()
\* once it has begun.
FairSpec ==
  /\ Spec
  /\ WF_vars(Read /\ UNCHANGED use)
  /\ \A x \in Writer : WF_vars(Write(x) /\ UNCHANGED use)
  /\ WF_vars(Eof /\ UNCHANGED use /\ e.pc \notin {"idle", "ended"})

-----------------------------------------------------------------------------
(* The ring implements a bounded queue.  A push takes effect where head is *)
(* exchanged, before its item is constructed; shift2() takes the item.     *)

Count == (head + 2 * N - tail) % (2 * N)

\* The item at a position between tail and head: of the writer that has claimed the position
\* and not yet filled it, or in the slot.
ItemAt(p) ==
  LET claims == {x \in Writer : w[x].pc = "claimed" /\ w[x].head = p}
  IN IF claims = {} THEN cell[Slot(p)]
     ELSE LET x == CHOOSE y \in claims : TRUE IN <<x, sent[x] + 1>>

Queue == [i \in 1..Count |-> ItemAt((tail + i - 1) % (2 * N))]

Bounded == INSTANCE Fifo WITH queue <- Queue, Capacity <- N

(* ZmRing.hpp:20 "FIFO ring buffer with fan-in (MPSC)": items leave in the *)
(* order in which their writers claimed positions, each once, and at most  *)
(* N of them are in the ring, whatever the interleaving of push_(),        *)
(* push2(), shift(), shift2(), eof() and their waits, until a position is  *)
(* spoilt: a writer whose compare and exchange did not see that head had   *)
(* gone round claims one of a full ring (ZmRing.hpp:334), or eof() marks   *)
(* the oldest one of a full ring, or stores head back over a push.         *)
IsFifo == Bounded!Init /\ [][spoilt' \/ Bounded!Next]_<<Queue, taken>>

\* Room is made for the push() of x only while it waits for it: no other push() waits, for shift2()
\* wakes one of them, and the others push too little to make the ring look full with a head that x
\* has loaded before; or wait() times out.
Noticed(x) ==
  \/ use.timeout
  \/ Blocking = {x} /\ Cardinality(UNION {{y} \X (1..use.pushes[y]) : y \in Writer \ {x}}) < N

(* Nobody sleeps through a wake(): as long as everyone runs and no         *)
(* position is spoilt, what has been pushed is taken in the end; once      *)
(* eof() has flagged head, shift() returns 0 and readStatus() EndOfFile,   *)
(* as the loop of ZmScheduler::work() and the join in ZmScheduler::stop()  *)
(* need; and a push() that waits for room gets it if it is Noticed, unless *)
(* eof() is called.                                                        *)
EveryoneWakes ==
  /\ []<>(Count = 0 \/ spoilt)
  /\ eofFlag ~> (r.pc = "ended" \/ ~eofFlag \/ spoilt)
  /\ \A x \in Blocking : Noticed(x) => <>(sent[x] = use.pushes[x] \/ eofFlag \/ spoilt)

(* readStatus() says EndOfFile when the reader has taken everything: what  *)
(* was pushed before eof() is not lost, unless eof() met a full ring or a  *)
(* push on its way (spoilt).                                               *)
EndMeansDrained == r.pc = "ended" /\ ~spoilt => Count = 0

=============================================================================
