---------------------------- MODULE ZmRingProofs ----------------------------
(***************************************************************************)
(* Theorems about ZmRing, for a ring of any size and any finite set of     *)
(* writers, with eof() called at any time.  What a claim of a full ring,   *)
(* or an eof() of one or across a claim, may spoil is not claimed; nothing *)
(* else spoils the ring.                                                   *)
(***************************************************************************)
EXTENDS ZmRing, SequenceTheorems, TLAPS

-----------------------------------------------------------------------------
(* The arithmetic of positions *)

LEMMA FollowingIs ==
  ASSUME NEW p \in Position
  PROVE  Following(p) \in Position /\ IF p = 2 * N - 1 THEN Following(p) = 0 ELSE Following(p) = p + 1
  BY SizeAssumption DEF Position, Following

LEMMA SlotIs ==
  ASSUME NEW p \in Position
  PROVE  Slot(p) \in 0..(N - 1) /\ IF p < N THEN Slot(p) = p ELSE Slot(p) = p - N
  BY SizeAssumption DEF Position, Slot

LEMMA FullIs ==
  ASSUME NEW h \in Position, NEW t \in Position
  PROVE  Full(h, t) <=> IF t < N THEN h = t + N ELSE h = t - N
<1>1. t + N \in Nat /\ t + N < 2 * (2 * N)
  BY SizeAssumption DEF Position
<1>2. CASE t < N
  BY <1>1, <1>2, SizeAssumption DEF Position, Full
<1>3. CASE ~(t < N)
  BY <1>1, <1>3, SizeAssumption DEF Position, Full
<1> QED
  BY <1>2, <1>3

\* How far a position is ahead of another.
LEMMA AheadIs ==
  ASSUME NEW p \in Position, NEW t \in Position
  PROVE  IF t <= p THEN (p + 2 * N - t) % (2 * N) = p - t ELSE (p + 2 * N - t) % (2 * N) = p - t + 2 * N
<1>1. p + 2 * N - t \in Nat /\ p + 2 * N - t < 2 * (2 * N)
  BY SizeAssumption DEF Position
<1>2. CASE t <= p
  BY <1>1, <1>2, SizeAssumption DEF Position
<1>3. CASE ~(t <= p)
  BY <1>1, <1>3, SizeAssumption DEF Position
<1> QED
  BY <1>2, <1>3

\* The position a distance ahead of another.
LEMMA AtIs ==
  ASSUME NEW t \in Position, NEW k \in Position
  PROVE  IF t + k < 2 * N THEN (t + k) % (2 * N) = t + k ELSE (t + k) % (2 * N) = t + k - 2 * N
<1>1. t + k \in Nat /\ t + k < 2 * (2 * N)
  BY SizeAssumption DEF Position
<1> QED
  BY <1>1, SizeAssumption DEF Position

-----------------------------------------------------------------------------
(* The inductive invariant *)

\* How far a position is ahead of tail; the positions in use are the Count first ones.
Ahead(p) == (p + 2 * N - tail) % (2 * N)
Used(p) == Ahead(p) < Count

Claims(x, p) == w[x].pc = "claimed" /\ w[x].head = p
Claimed(p) == \E x \in Writer : Claims(x, p)

\* A writer that claims a position that is in use, and nobody else claims it.
ClaimsApart ==
  /\ \A x \in Writer : w[x].pc = "claimed" => Used(w[x].head)
  /\ \A x, y \in Writer : w[x].pc = "claimed" /\ Claims(y, w[x].head) => x = y

\* A position in use has an item, or is claimed; the one the reader is taking is empty again.
UsedFilled ==
  \A p \in Position : Used(p) =>
    \/ Claimed(p) /\ header[Slot(p)].is = "Empty"
    \/ /\ ~Claimed(p) /\ cell[Slot(p)] \in Item
       /\ header[Slot(p)].is = (IF p = tail /\ r.pc = "shift2" THEN "Empty" ELSE "Ready")

\* A free position is empty, but for the mark eof() leaves at head.
FreeEmpty ==
  \A p \in Position : ~Used(p) /\ Ahead(p) < N =>
    \/ header[Slot(p)].is = "Empty"
    \/ p = head /\ header[Slot(p)].is = "EndOfFile" /\ e.pc \notin {"idle", "mark", "unflag"}

\* What the reader knows where it stands.
ReaderKnows ==
  /\ r.pc \in {"take", "shift2"} => Count > 0 /\ ~Claimed(tail)
  /\ r.pc = "shift2" => r.item = cell[Slot(tail)]
  /\ r.pc = "ended" => Count = 0 /\ e.pc \notin {"idle", "mark"}

\* head stays where eof() has loaded it, and a position it has marked was free.
EofKnows ==
  /\ e.pc # "idle" => e.head = head
  /\ e.pc \notin {"idle", "mark"} => Count < N
  /\ eofFlag <=> e.pc \in {"ended", "unflag"}
  /\ e.pc = "unflag" => r.pc = "ended"

\* A writer that is to push an item has one to push.
PushesLeft ==
  \A x \in Writer : w[x].pc \in {"loaded", "claiming", "claimed"} => sent[x] < use.pushes[x]

RingInv ==
  /\ Count <= N
  /\ ClaimsApart /\ UsedFilled /\ FreeEmpty /\ ReaderKnows /\ EofKnows

-----------------------------------------------------------------------------
(* The type invariant *)

\* What a writer is to push is an item.
LEMMA ItemType ==
  ASSUME TypeOK, NEW x \in Writer, sent[x] < use.pushes[x]
  PROVE  <<x, sent[x] + 1>> \in Item
<1>1. use \in Uses /\ use.pushes[x] \in Nat /\ sent[x] \in Nat
  BY UsesAssumption DEF TypeOK
<1>2. sent[x] + 1 \in 1..use.pushes[x]
  BY <1>1
<1>3. <<x, sent[x] + 1>> \in {x} \X (1..use.pushes[x])
  BY <1>2
<1> DEFINE Parts == {{y} \X (1..u.pushes[y]) : y \in Writer, u \in Uses}
<1>4. {x} \X (1..use.pushes[x]) \in Parts
  BY <1>1
<1>5. Item = UNION Parts
  BY DEF Item
<1> HIDE DEF Parts
<1> QED
  BY <1>3, <1>4, <1>5

LEMMA WriterAtType ==
  ASSUME TypeOK, NEW x \in Writer, NEW pc \in WriterPC, WriterAt(x, pc)
  PROVE  w' \in [Writer -> [pc : WriterPC, head : Position, tail : Position, wait : BOOLEAN]]
  BY DEF TypeOK, WriterAt

LEMMA ReaderAtType ==
  ASSUME TypeOK, NEW pc \in ReaderPC, ReaderAt(pc)
  PROVE  r' \in [pc : ReaderPC, wait : BOOLEAN, item : Item \cup {NoItem}]
  BY DEF TypeOK, ReaderAt

LEMMA WriteType ==
  ASSUME TypeOK, PushesLeft, UNCHANGED use, NEW x \in Writer, Write(x)
  PROVE  TypeOK'
<1> USE DEF TypeOK, words
<1>1. CASE PushLoad(x)
  BY ZenonT(40), <1>1 DEF PushLoad, WriterPC
<1>2. CASE PushCheck(x)
  BY <1>2 DEF PushCheck, WriterPC
<1>3. CASE PushClaim(x)
  <2>1. head' \in Position
    BY <1>3, FollowingIs DEF PushClaim
  <2>2. \E pc \in WriterPC : WriterAt(x, pc)
    BY <1>3 DEF PushClaim, WriterPC
  <2> QED
    BY <1>3, <2>1, <2>2, WriterAtType DEF PushClaim
<1>4. CASE Push2(x)
  <2>1. \E pc \in WriterPC : WriterAt(x, pc)
    BY <1>4 DEF Push2, WriterPC
  <2>2. sent[x] < use.pushes[x] /\ <<x, sent[x] + 1>> \in Item
    BY <1>4, ItemType DEF Push2, PushesLeft
  <2>3. header' \in [0..(N - 1) -> Header] /\ cell' \in [0..(N - 1) -> Item \cup {NoItem}]
    BY <1>4, <2>2 DEF Push2, Header
  <2>4. use.pushes[x] \in Nat
    BY UsesAssumption
  <2>5. sent' \in [Writer -> Nat] /\ \A y \in Writer : sent'[y] <= use.pushes[y]
    BY <1>4, <2>2, <2>4 DEF Push2
  <2> QED
    BY <1>4, <2>1, <2>3, <2>5, WriterAtType DEF Push2
<1>5. CASE Push2Clear(x)
  BY ZenonT(40), <1>5, WriterAtType DEF Push2Clear, WriterPC, Header
<1>6. CASE Push2Wake(x)
  BY <1>6, WriterAtType, ReaderAtType DEF Push2Wake, WakeReader, WriterPC, ReaderPC
<1>7. CASE PushWait(x)
  BY <1>7, WriterAtType DEF PushWait, WriterPC
<1>8. CASE PushSleep(x)
  BY <1>8, WriterAtType DEF PushSleep, WriterPC
<1>9. CASE PushTimeout(x)
  BY <1>9, WriterAtType DEF PushTimeout, WriterPC
<1> QED
  BY <1>1, <1>2, <1>3, <1>4, <1>5, <1>6, <1>7, <1>8, <1>9 DEF Write

LEMMA ReadType ==
  ASSUME TypeOK, UNCHANGED use, Read
  PROVE  TypeOK'
<1> USE DEF TypeOK, words
<1>0. Slot(tail) \in 0..(N - 1)
  BY SlotIs
<1>1. CASE Shift
  BY <1>0, <1>1 DEF Shift, ReaderPC, Header
<1>2. CASE ShiftWait
  <2>1. header' = header \/ header' = [header EXCEPT ![Slot(tail)].waiting = TRUE]
    BY <1>2, Zenon DEF ShiftWait
  <2>2. [header EXCEPT ![Slot(tail)].waiting = TRUE] \in [0..(N - 1) -> Header]
    BY <1>0 DEF Header
  <2> QED
    BY <1>2, <2>1, <2>2, ReaderAtType DEF ShiftWait, ReaderPC
<1>3. CASE ShiftSleep
  BY <1>3, ReaderAtType DEF ShiftSleep, ReaderPC
<1>4. CASE ShiftTimeout
  BY <1>4, ReaderAtType DEF ShiftTimeout, ReaderPC
<1>5. CASE ShiftTake
  <2>1. cell[Slot(tail)] \in Item \cup {NoItem}
    BY <1>0
  <2> QED
    BY <1>5, <2>1 DEF ShiftTake, ReaderPC, Header, EmptyHeader
<1>6. CASE Shift2
  BY <1>6, FollowingIs DEF Shift2, ReaderPC
<1>7. CASE Shift2Clear
  BY <1>7, ReaderAtType DEF Shift2Clear, ReaderPC
<1>8. CASE Shift2Wake
  BY <1>8, ReaderAtType, WriterAtType DEF Shift2Wake, ReaderPC, WriterPC
<1> QED
  BY <1>1, <1>2, <1>3, <1>4, <1>5, <1>6, <1>7, <1>8 DEF Read

LEMMA EofType ==
  ASSUME TypeOK, UNCHANGED use, Eof
  PROVE  TypeOK'
<1> USE DEF TypeOK, words, EofPC
<1>0. use.eofs \in Nat
  BY UsesAssumption
<1>1. CASE EofLoad
  BY <1>0, <1>1 DEF EofLoad
<1>2. CASE EofMark
  BY <1>2 DEF EofMark, Header
<1>3. CASE EofClear
  BY <1>3 DEF EofClear, Header
<1>4. CASE EofWake
  BY <1>4, ReaderAtType DEF EofWake, WakeReader, ReaderPC
<1>5. CASE EofFlag
  BY <1>5 DEF EofFlag
<1>6. CASE Reopen
  BY <1>6 DEF Reopen, Header, EmptyHeader
<1>7. CASE ReopenFlag
  BY <1>7, ReaderAtType DEF ReopenFlag, ReaderPC
<1> QED
  BY <1>1, <1>2, <1>3, <1>4, <1>5, <1>6, <1>7 DEF Eof

LEMMA PushesLeftStep ==
  ASSUME TypeOK, PushesLeft, [Next]_vars
  PROVE  PushesLeft'
<1> USE DEF PushesLeft, TypeOK
<1>1. CASE UNCHANGED vars
  BY <1>1 DEF vars
<1>2. ASSUME UNCHANGED use, NEW x \in Writer, Write(x)
      PROVE  PushesLeft'
  <2>0. ASSUME NEW pc, WriterAt(x, pc), pc \notin {"loaded", "claiming", "claimed"}, UNCHANGED sent
        PROVE  PushesLeft'
    BY <1>2, <2>0 DEF WriterAt
  <2>1. CASE PushLoad(x)
    BY <1>2, <2>1 DEF PushLoad
  <2>2. CASE PushCheck(x)
    BY <1>2, <2>2 DEF PushCheck
  <2>3. CASE PushClaim(x)
    BY <1>2, <2>3 DEF PushClaim, WriterAt
  <2>4. CASE Push2(x)
    BY <1>2, <2>4 DEF Push2, WriterAt
  <2>5. CASE Push2Clear(x) \/ Push2Wake(x)
    BY <2>0, <2>5, Zenon DEF Push2Clear, Push2Wake
  <2>6. CASE PushWait(x) \/ PushSleep(x) \/ PushTimeout(x)
    BY <2>0, <2>6 DEF PushWait, PushSleep, PushTimeout
  <2> QED
    BY <1>2, <2>1, <2>2, <2>3, <2>4, <2>5, <2>6 DEF Write
<1>3. ASSUME UNCHANGED use, Read \/ Eof
      PROVE  PushesLeft'
  BY <1>3 DEF Read, Shift, ShiftWait, ShiftSleep, ShiftTimeout, ShiftTake, Shift2, Shift2Clear,
              Shift2Wake, WriterAt, Eof, EofLoad, EofMark, EofClear, EofWake, EofFlag, Reopen, ReopenFlag
<1> QED
  BY <1>1, <1>2, <1>3 DEF Next

LEMMA InitTyped == Init => TypeOK /\ PushesLeft
<1> SUFFICES ASSUME Init
             PROVE  TypeOK /\ PushesLeft
  OBVIOUS
<1>1. 0 \in Position /\ EmptyHeader \in Header /\ use \in Uses
  BY SizeAssumption DEF Init, Position, Header, EmptyHeader
<1>2. /\ header \in [0..(N - 1) -> Header] /\ cell \in [0..(N - 1) -> Item \cup {NoItem}]
      /\ w \in [Writer -> [pc : WriterPC, head : Position, tail : Position, wait : BOOLEAN]]
      /\ r \in [pc : ReaderPC, wait : BOOLEAN, item : Item \cup {NoItem}]
  BY <1>1 DEF Init, WriterPC, ReaderPC
<1>3. sent \in [Writer -> Nat] /\ \A x \in Writer : sent[x] <= use.pushes[x]
  BY <1>1, UsesAssumption DEF Init
<1>4. e \in [pc : EofPC, head : Position, calls : 0..use.eofs]
  BY <1>1, UsesAssumption DEF Init, EofPC
<1> QED
  BY <1>1, <1>2, <1>3, <1>4 DEF Init, TypeOK, PushesLeft

LEMMA TypeStep ==
  ASSUME TypeOK, PushesLeft, [Next]_vars
  PROVE  TypeOK' /\ PushesLeft'
<1>1. CASE UNCHANGED vars
  BY <1>1, PushesLeftStep DEF TypeOK, vars, words
<1>2. CASE Next
  BY <1>2, PushesLeftStep, WriteType, ReadType, EofType DEF Next
<1> QED
  BY <1>1, <1>2

\* Every variable of the ring keeps its type; a writer never pushes more than it has to push,
\* and a slot holds an item one of them pushed (push_(), push2(), shift(), shift2(), eof()).
THEOREM RingTypeCorrect == Spec => []TypeOK
<1>1. Init => TypeOK /\ PushesLeft
  BY InitTyped
<1>2. TypeOK /\ PushesLeft /\ [Next]_vars => TypeOK' /\ PushesLeft'
  BY TypeStep
<1> QED
  BY <1>1, <1>2, PTL DEF Spec

-----------------------------------------------------------------------------
(* The ring invariant *)

LEMMA CountIs ==
  ASSUME TypeOK
  PROVE  Count \in Nat /\ Count \in Position /\ IF tail <= head THEN Count = head - tail ELSE Count = head - tail + 2 * N
<1>1. IF tail <= head THEN Count = head - tail ELSE Count = head - tail + 2 * N
  BY AheadIs DEF TypeOK, Count
<1> QED
  BY <1>1, SizeAssumption DEF TypeOK, Position

LEMMA CountNext ==
  ASSUME TypeOK'
  PROVE  /\ Count' \in Nat /\ Count' \in Position
         /\ IF tail' <= head' THEN Count' = head' - tail' ELSE Count' = head' - tail' + 2 * N
<1>1. IF tail' <= head' THEN Count' = head' - tail' ELSE Count' = head' - tail' + 2 * N
  BY AheadIs DEF TypeOK, Count
<1> QED
  BY <1>1, SizeAssumption DEF TypeOK, Position

LEMMA AheadOfTail ==
  ASSUME TypeOK, NEW p \in Position
  PROVE  Ahead(p) \in Nat /\ Ahead(p) \in Position /\ IF tail <= p THEN Ahead(p) = p - tail ELSE Ahead(p) = p - tail + 2 * N
<1>1. IF tail <= p THEN Ahead(p) = p - tail ELSE Ahead(p) = p - tail + 2 * N
  BY AheadIs DEF TypeOK, Ahead
<1> QED
  BY <1>1, SizeAssumption DEF TypeOK, Position

LEMMA FullIsCount ==
  ASSUME TypeOK
  PROVE  Full(head, tail) <=> Count = N
<1>1. head \in Position /\ tail \in Position
  BY DEF TypeOK
<1>2. head \in Nat /\ tail \in Nat /\ N \in Nat /\ head < 2 * N /\ tail < 2 * N
  BY <1>1, SizeAssumption DEF Position
<1>3. Full(head, tail) <=> IF tail < N THEN head = tail + N ELSE head = tail - N
  BY <1>1, FullIs
<1>4. IF tail <= head THEN Count = head - tail ELSE Count = head - tail + 2 * N
  BY CountIs
<1> QED
  BY <1>2, <1>3, <1>4

\* Two positions less than N ahead of tail are in different slots.
LEMMA SlotsApart ==
  ASSUME TypeOK, NEW p \in Position, NEW q \in Position,
         Ahead(p) < N, Ahead(q) < N, Slot(p) = Slot(q)
  PROVE  p = q
<1>1. p \in Nat /\ q \in Nat /\ tail \in Nat /\ N \in Nat
      /\ p < 2 * N /\ q < 2 * N /\ tail < 2 * N
  BY SizeAssumption DEF TypeOK, Position
<1>2. (IF p < N THEN Slot(p) = p ELSE Slot(p) = p - N) /\ (IF q < N THEN Slot(q) = q ELSE Slot(q) = q - N)
  BY SlotIs
<1>3. /\ IF tail <= p THEN Ahead(p) = p - tail ELSE Ahead(p) = p - tail + 2 * N
      /\ IF tail <= q THEN Ahead(q) = q - tail ELSE Ahead(q) = q - tail + 2 * N
  BY AheadOfTail
<1>4. p = q \/ p = q + N \/ q = p + N
  BY <1>1, <1>2
<1> QED
  BY <1>1, <1>3, <1>4

\* Every slot is that of a position less than N ahead of tail.
LEMMA UsedWithinN ==
  ASSUME TypeOK, Count <= N, NEW p \in Position, Used(p)
  PROVE  Ahead(p) < N
  BY CountIs, AheadOfTail, SizeAssumption DEF Used, Position

\* What does not matter to the invariant: a step of a waiting writer or reader, and the
\* Waiting bits.
SameRing ==
  /\ UNCHANGED <<head, tail, eofFlag, cell, e>>
  /\ \A i \in 0..(N - 1) : header'[i].is = header[i].is
  /\ \A x \in Writer :
       /\ w'[x].pc = "claimed" <=> w[x].pc = "claimed"
       /\ w[x].pc = "claimed" => w'[x].head = w[x].head
  /\ r' = r \/ (r.pc \notin {"take", "shift2", "ended"} /\ r'.pc \notin {"take", "shift2", "ended"})

LEMMA SameCount ==
  ASSUME UNCHANGED <<head, tail>>
  PROVE  Count' = Count /\ \A p : Ahead(p)' = Ahead(p) /\ Used(p)' = Used(p)
  BY Zenon DEF Count, Ahead, Used

LEMMA SameRingKeepsInv ==
  ASSUME TypeOK, RingInv, SameRing
  PROVE  RingInv'
<1>0. Count' = Count /\ \A p : (Ahead(p)' = Ahead(p)) /\ (Used(p)' <=> Used(p))
  BY SameCount DEF SameRing
<1>1. \A x \in Writer : \A p : Claims(x, p)' <=> Claims(x, p)
  BY DEF SameRing, Claims
<1>2. \A p : Claimed(p)' <=> Claimed(p)
  BY <1>1, Zenon DEF Claimed
<1>3. ClaimsApart'
  <2>1. \A x \in Writer : (w[x].pc = "claimed")' => Used(w[x].head)'
    BY <1>0 DEF SameRing, RingInv, ClaimsApart
  <2>2. \A x, y \in Writer : (w[x].pc = "claimed")' /\ Claims(y, w[x].head)' => x = y
    BY <1>1 DEF SameRing, RingInv, ClaimsApart, Claims
  <2> QED
    BY <2>1, <2>2 DEF ClaimsApart
<1>4. \A p \in Position : header'[Slot(p)].is = header[Slot(p)].is
  BY SlotIs DEF SameRing
<1>5. UsedFilled'
  <2>1. r'.pc = "shift2" <=> r.pc = "shift2"
    BY DEF SameRing
  <2> QED
    BY <1>0, <1>2, <1>4, <2>1 DEF SameRing, RingInv, UsedFilled
<1>6. FreeEmpty'
  BY <1>0, <1>4 DEF SameRing, RingInv, FreeEmpty
<1>7. ReaderKnows'
  BY <1>0, <1>2 DEF SameRing, RingInv, ReaderKnows
<1>8. EofKnows'
  <2>1. e.pc = "unflag" => r'.pc = "ended"
    BY DEF SameRing, RingInv, EofKnows
  <2> QED
    BY <1>0, <2>1 DEF SameRing, RingInv, EofKnows
<1> QED
  BY <1>0, <1>3, <1>5, <1>6, <1>7, <1>8 DEF RingInv

\* Positions as far ahead of tail as each other are the same one.
LEMMA AheadInjective ==
  ASSUME TypeOK, NEW p \in Position, NEW q \in Position, Ahead(p) = Ahead(q)
  PROVE  p = q
<1>1. p \in Nat /\ q \in Nat /\ tail \in Nat /\ N \in Nat
      /\ p < 2 * N /\ q < 2 * N /\ tail < 2 * N
  BY SizeAssumption DEF TypeOK, Position
<1> QED
  BY <1>1, AheadOfTail

LEMMA HeadIsFree ==
  ASSUME TypeOK
  PROVE  Ahead(head) = Count /\ ~Used(head)
<1>1. Ahead(head) = Count
  BY Zenon DEF Ahead, Count
<1>2. Count \in Nat
  BY CountIs DEF Position
<1> QED
  BY <1>1, <1>2 DEF Used

LEMMA TailIsFirst ==
  ASSUME TypeOK
  PROVE  Ahead(tail) = 0 /\ (Used(tail) <=> Count > 0)
<1>1. Ahead(tail) = 0 /\ Count \in Nat
  BY AheadOfTail, CountIs DEF TypeOK, Position
<1> QED
  BY <1>1 DEF Used

\* Used positions are in slots of their own.
LEMMA UsedApart ==
  ASSUME TypeOK, Count <= N, NEW p \in Position, NEW q \in Position,
         Ahead(p) < N, Used(q), p # q
  PROVE  Slot(p) # Slot(q)
  BY UsedWithinN, SlotsApart

\* A claim that spoils nothing finds room, and no eof() under way.
LEMMA ClaimFindsRoom ==
  ASSUME TypeOK, RingInv, ~spoilt', NEW x \in Writer, PushClaim(x), head = w[x].head, ~eofFlag
  PROVE  Count < N /\ e.pc = "idle"
<1>1. ~Full(head, tail) /\ ~Marking
  BY DEF PushClaim
<1>2. e.pc = "idle"
  BY <1>1 DEF Marking, RingInv, EofKnows, TypeOK, EofPC
<1>3. Count # N /\ Count <= N /\ Count \in Nat
  BY <1>1, FullIsCount, CountIs DEF RingInv
<1> QED
  BY <1>2, <1>3, SizeAssumption

\* A claim of a ring with room adds one to the count, a take removes one.
LEMMA CountUp ==
  ASSUME TypeOK, TypeOK', head' = Following(head), tail' = tail, Count < N
  PROVE  Count' = Count + 1
<1>1. /\ head' \in Nat /\ head \in Nat /\ tail \in Nat /\ head < 2 * N /\ tail < 2 * N /\ N \in Nat
      /\ Count \in Nat /\ Count' \in Nat
  BY SMTT(30), CountIs, CountNext, SizeAssumption DEF TypeOK, Position
<1>2. IF head = 2 * N - 1 THEN head' = 0 ELSE head' = head + 1
  BY FollowingIs DEF TypeOK
<1>3. IF tail <= head THEN Count = head - tail ELSE Count = head - tail + 2 * N
  BY CountIs
<1>4. IF tail <= head' THEN Count' = head' - tail ELSE Count' = head' - tail + 2 * N
  BY CountNext
<1>5. CASE head = 2 * N - 1
  BY <1>1, <1>2, <1>3, <1>4, <1>5
<1>6. CASE head # 2 * N - 1 /\ tail <= head
  BY <1>1, <1>2, <1>3, <1>4, <1>6
<1>7. CASE head # 2 * N - 1 /\ ~(tail <= head)
  <2>1. Count = head - tail + 2 * N /\ head' = head + 1
    BY <1>2, <1>3, <1>7
  <2>2. tail > head + 1
    BY <1>1, <1>7, <2>1, SizeAssumption
  <2> QED
    BY <1>1, <1>4, <2>1, <2>2
<1> QED
  BY <1>5, <1>6, <1>7

LEMMA CountDown ==
  ASSUME TypeOK, TypeOK', head' = head, tail' = Following(tail), Count > 0
  PROVE  Count' = Count - 1
<1>0. Count \in Nat /\ Count' \in Nat
  BY CountIs, CountNext
<1>1. tail' \in Nat /\ head \in Nat /\ tail \in Nat /\ head < 2 * N /\ tail < 2 * N /\ N \in Nat
  BY SizeAssumption DEF TypeOK, Position
<1>2. IF tail = 2 * N - 1 THEN tail' = 0 ELSE tail' = tail + 1
  BY FollowingIs DEF TypeOK
<1>3. IF tail <= head THEN Count = head - tail ELSE Count = head - tail + 2 * N
  BY CountIs
<1>4. IF tail' <= head THEN Count' = head - tail' ELSE Count' = head - tail' + 2 * N
  BY CountNext
<1>5. CASE tail = 2 * N - 1
  BY <1>0, <1>1, <1>2, <1>3, <1>4, <1>5
<1>6. CASE tail # 2 * N - 1
  BY <1>0, <1>1, <1>2, <1>3, <1>4, <1>6
<1> QED
  BY <1>5, <1>6

LEMMA ClaimKeepsInv ==
  ASSUME TypeOK, TypeOK', RingInv, ~spoilt', NEW x \in Writer, PushClaim(x), UNCHANGED use,
         head = w[x].head, ~eofFlag
  PROVE  RingInv'
<1> USE DEF TypeOK
<1>1. /\ w[x].pc = "claiming" /\ head' = Following(head)
      /\ w' = [w EXCEPT ![x].pc = "claimed"]
      /\ UNCHANGED <<tail, header, cell, r, e, eofFlag>>
  BY DEF PushClaim, WriterAt
<1>2. Count < N
  BY ClaimFindsRoom
<1>3. Count' = Count + 1
  BY <1>1, <1>2, CountUp
<1>4. \A p \in Position : Ahead(p)' = Ahead(p) /\ (Used(p)' <=> Used(p) \/ p = head)
  <2> SUFFICES ASSUME NEW p \in Position
               PROVE  Ahead(p)' = Ahead(p) /\ (Used(p)' <=> Used(p) \/ p = head)
    OBVIOUS
  <2>1. Ahead(p)' = Ahead(p)
    BY <1>1, Zenon DEF Ahead
  <2>2. Ahead(p) \in Nat /\ Count \in Nat
    BY CountIs, AheadOfTail
  <2>3. Ahead(p) = Count <=> p = head
    BY AheadInjective, HeadIsFree
  <2> QED
    BY <1>3, <2>1, <2>2, <2>3 DEF Used
<1>5. e.pc = "idle"
  BY ClaimFindsRoom
<1>6. ~Claimed(head)
  BY HeadIsFree DEF RingInv, ClaimsApart, Claimed, Claims
<1>7. \A y \in Writer : \A p : Claims(y, p)' <=> Claims(y, p) \/ (y = x /\ p = head)
  BY <1>1 DEF Claims
<1>8. \A p : Claimed(p)' <=> Claimed(p) \/ p = head
  BY <1>7, Zenon DEF Claimed
<1>9. ClaimsApart'
  <2>1. \A y \in Writer : (w[y].pc = "claimed")' => Used(w[y].head)'
    BY <1>1, <1>4 DEF RingInv, ClaimsApart
  <2>2. \A y, z \in Writer : (w[y].pc = "claimed")' /\ Claims(z, w[y].head)' => y = z
    BY <1>1, <1>6, <1>7 DEF RingInv, ClaimsApart, Claimed, Claims
  <2> QED
    BY <2>1, <2>2 DEF ClaimsApart
<1>10. UsedFilled'
  <2>1. header[Slot(head)].is = "Empty"
    BY <1>2, <1>5, HeadIsFree DEF RingInv, FreeEmpty
  <2> QED
    BY <1>1, <1>4, <1>8, <2>1 DEF RingInv, UsedFilled
<1>11. FreeEmpty'
  BY <1>1, <1>4, <1>5 DEF RingInv, FreeEmpty
<1>12. ReaderKnows'
  <2>1. Count \in Nat /\ (Count > 0 => tail # head)
    BY CountIs, TailIsFirst, HeadIsFree DEF Position
  <2> QED
    BY <1>1, <1>3, <1>5, <1>8, <2>1 DEF RingInv, ReaderKnows
<1>13. EofKnows'
  BY <1>1, <1>5 DEF RingInv, EofKnows
<1>14. Count' <= N
  <2>1. Count \in Nat
    BY CountIs, SizeAssumption DEF Position
  <2> QED
    BY <1>2, <1>3, <2>1, SizeAssumption
<1> QED
  BY <1>9, <1>10, <1>11, <1>12, <1>13, <1>14 DEF RingInv

LEMMA FillKeepsInv ==
  ASSUME TypeOK, TypeOK', RingInv, PushesLeft, NEW x \in Writer, Push2(x), UNCHANGED use
  PROVE  RingInv'
<1> USE DEF TypeOK
<1> DEFINE h == w[x].head
           i == Slot(h)
<1>1. /\ w[x].pc = "claimed"
      /\ header' = [header EXCEPT ![i] = [is |-> "Ready", waiting |-> FALSE]]
      /\ cell' = [cell EXCEPT ![i] = <<x, sent[x] + 1>>]
      /\ UNCHANGED <<head, tail, eofFlag, r, e>>
  BY DEF Push2
<1>2. \E pc \in {"clear", "idle"} : w' = [w EXCEPT ![x].pc = pc]
  BY DEF Push2, WriterAt
<1>3. h \in Position /\ Used(h) /\ i \in 0..(N - 1) /\ Claimed(h)
  BY <1>1, SlotIs DEF RingInv, ClaimsApart, Claimed, Claims
<1>4. Count' = Count /\ \A p : (Ahead(p)' = Ahead(p)) /\ (Used(p)' <=> Used(p))
  BY <1>1, SameCount
<1>5. \A y \in Writer : \A p : Claims(y, p)' <=> Claims(y, p) /\ p # h
  BY <1>1, <1>2 DEF Claims, RingInv, ClaimsApart
<1>6. \A p : Claimed(p)' <=> Claimed(p) /\ p # h
  BY <1>5, Zenon DEF Claimed
<1> HIDE DEF h, i
<1>7. \A p \in Position : Ahead(p) < N /\ p # h =>
         Slot(p) # i /\ header'[Slot(p)] = header[Slot(p)] /\ cell'[Slot(p)] = cell[Slot(p)]
  BY <1>1, <1>3, UsedApart, SlotIs DEF RingInv, i
<1>8. <<x, sent[x] + 1>> \in Item
  BY <1>1, ItemType DEF PushesLeft
<1>9. header'[i].is = "Ready" /\ cell'[i] \in Item
  BY <1>1, <1>3, <1>8
<1>10. ClaimsApart'
  <2>1. \A y \in Writer : (w[y].pc = "claimed")' => Used(w[y].head)'
    BY <1>1, <1>2, <1>4 DEF RingInv, ClaimsApart
  <2>2. \A y, z \in Writer : (w[y].pc = "claimed")' /\ Claims(z, w[y].head)' => y = z
    BY <1>2 DEF RingInv, ClaimsApart, Claims
  <2> QED
    BY <2>1, <2>2 DEF ClaimsApart
<1>11. UsedFilled'
  <2> SUFFICES ASSUME NEW p \in Position, Used(p)'
               PROVE  \/ Claimed(p)' /\ header'[Slot(p)].is = "Empty"
                      \/ /\ ~Claimed(p)' /\ cell'[Slot(p)] \in Item
                         /\ header'[Slot(p)].is =
                              (IF p = tail' /\ r'.pc = "shift2" THEN "Empty" ELSE "Ready")
    BY DEF UsedFilled
  <2>1. Used(p) /\ Ahead(p) < N
    BY <1>4, UsedWithinN DEF RingInv
  <2>2. CASE p = h
    <3>1. ~(p = tail' /\ r'.pc = "shift2")
      BY <1>1, <1>3, <2>2 DEF RingInv, ReaderKnows
    <3> QED
      BY <1>6, <1>9, <2>2, <3>1 DEF i
  <2>3. CASE p # h
    BY <1>1, <1>6, <1>7, <2>1, <2>3 DEF RingInv, UsedFilled
  <2> QED
    BY <2>2, <2>3
<1>12. FreeEmpty'
  BY <1>1, <1>3, <1>4, <1>7 DEF RingInv, FreeEmpty
<1>13. ReaderKnows'
  <2>1. r.pc = "shift2" => cell'[Slot(tail)] = cell[Slot(tail)]
    <3>1. r.pc = "shift2" => tail # h /\ Ahead(tail) < N
      BY <1>3, TailIsFirst, SizeAssumption DEF RingInv, ReaderKnows
    <3> QED
      BY <1>7, <3>1
  <2> QED
    BY <1>1, <1>4, <1>6, <2>1 DEF RingInv, ReaderKnows
<1>14. EofKnows'
  BY <1>1, <1>4 DEF RingInv, EofKnows
<1> QED
  BY <1>4, <1>10, <1>11, <1>12, <1>13, <1>14 DEF RingInv

LEMMA ShiftKeepsInv ==
  ASSUME TypeOK, TypeOK', RingInv, Shift
  PROVE  RingInv'
<1> USE DEF TypeOK
<1>1. UNCHANGED <<head, tail, eofFlag, cell, e, header, w>> /\ r.pc = "shift"
  BY DEF Shift, words
<1>2. Count' = Count /\ \A p : (Ahead(p)' = Ahead(p)) /\ (Used(p)' <=> Used(p))
  BY <1>1, SameCount
<1>3. \A p : Claimed(p)' <=> Claimed(p)
  BY <1>1, Zenon DEF Claimed, Claims
<1>4. CASE header[Slot(tail)].is = "Empty"
  <2>1. r'.pc = "empty"
    BY <1>4 DEF Shift
  <2>2. SameRing
    BY <1>1, <2>1 DEF SameRing
  <2> QED
    BY <2>2, SameRingKeepsInv
<1>5. CASE header[Slot(tail)].is # "Empty"
  <2>1. tail \in Position /\ Ahead(tail) = 0 /\ (Used(tail) <=> Count > 0) /\ Count \in Nat
    BY TailIsFirst, CountIs
  <2>2. Used(tail) => header[Slot(tail)].is = "Ready" /\ ~Claimed(tail)
    BY <1>1, <1>5, <2>1 DEF RingInv, UsedFilled
  <2>3. ~Used(tail) => header[Slot(tail)].is = "EndOfFile" /\ Count = 0 /\ e.pc \notin {"idle", "mark"}
    BY <1>5, <2>1, SizeAssumption DEF RingInv, FreeEmpty
  <2>4. r'.pc = IF header[Slot(tail)].is = "Ready" THEN "take" ELSE "ended"
    BY <1>5, <2>2, <2>3 DEF Shift
  <2>5. ClaimsApart'
    BY <1>1, <1>2 DEF RingInv, ClaimsApart, Claims
  <2>6. UsedFilled'
    BY <1>1, <1>2, <1>3, <2>4 DEF RingInv, UsedFilled
  <2>7. FreeEmpty'
    BY <1>1, <1>2 DEF RingInv, FreeEmpty
  <2>8. ReaderKnows'
    BY <1>1, <1>2, <1>3, <2>1, <2>2, <2>3, <2>4 DEF ReaderKnows
  <2>9. EofKnows'
    BY <1>1, <1>2, <2>4 DEF RingInv, EofKnows
  <2> QED
    BY <1>2, <2>5, <2>6, <2>7, <2>8, <2>9 DEF RingInv
<1> QED
  BY <1>4, <1>5

LEMMA TakeKeepsInv ==
  ASSUME TypeOK, TypeOK', RingInv, ShiftTake
  PROVE  RingInv'
<1> USE DEF TypeOK
<1>1. /\ r.pc = "take" /\ r' = [r EXCEPT !.pc = "shift2", !.item = cell[Slot(tail)]]
      /\ header' = [header EXCEPT ![Slot(tail)] = EmptyHeader]
      /\ UNCHANGED <<head, tail, eofFlag, cell, e, w>>
  BY DEF ShiftTake
<1>2. Count' = Count /\ \A p : (Ahead(p)' = Ahead(p)) /\ (Used(p)' <=> Used(p))
  BY <1>1, SameCount
<1>3. \A p : Claimed(p)' <=> Claimed(p)
  BY <1>1, Zenon DEF Claimed, Claims
<1>4. Count > 0 /\ ~Claimed(tail) /\ Used(tail) /\ tail \in Position /\ Slot(tail) \in 0..(N - 1)
  BY <1>1, TailIsFirst, SlotIs DEF RingInv, ReaderKnows
<1>5. \A p \in Position : Ahead(p) < N /\ p # tail => header'[Slot(p)] = header[Slot(p)]
  BY <1>1, <1>4, UsedApart, SlotIs DEF RingInv
<1>6. header'[Slot(tail)].is = "Empty"
  BY <1>1, <1>4 DEF EmptyHeader
<1>7. ClaimsApart'
  BY <1>1, <1>2 DEF RingInv, ClaimsApart, Claims
<1>8. UsedFilled'
  <2> SUFFICES ASSUME NEW p \in Position, Used(p)'
               PROVE  \/ Claimed(p)' /\ header'[Slot(p)].is = "Empty"
                      \/ /\ ~Claimed(p)' /\ cell'[Slot(p)] \in Item
                         /\ header'[Slot(p)].is =
                              (IF p = tail' /\ r'.pc = "shift2" THEN "Empty" ELSE "Ready")
    BY DEF UsedFilled
  <2>1. Used(p) /\ Ahead(p) < N
    BY <1>2, UsedWithinN DEF RingInv
  <2>2. CASE p = tail
    BY <1>1, <1>3, <1>4, <1>6, <2>2 DEF RingInv, UsedFilled
  <2>3. CASE p # tail
    BY <1>1, <1>3, <1>5, <2>1, <2>3 DEF RingInv, UsedFilled
  <2> QED
    BY <2>2, <2>3
<1>9. FreeEmpty'
  BY <1>1, <1>2, <1>4, <1>5 DEF RingInv, FreeEmpty
<1>10. ReaderKnows'
  BY <1>1, <1>2, <1>3, <1>4 DEF ReaderKnows
<1>11. EofKnows'
  BY <1>1, <1>2 DEF RingInv, EofKnows
<1> QED
  BY <1>2, <1>7, <1>8, <1>9, <1>10, <1>11 DEF RingInv

LEMMA FreeKeepsInv ==
  ASSUME TypeOK, TypeOK', RingInv, Shift2
  PROVE  RingInv'
<1> USE DEF TypeOK
<1>1. /\ r.pc = "shift2" /\ tail' = Following(tail) /\ r'.pc \in {"clear", "shift"}
      /\ UNCHANGED <<head, eofFlag, header, cell, w, e>>
  BY DEF Shift2
<1>2. Count > 0 /\ ~Claimed(tail) /\ Used(tail) /\ tail \in Position
  BY <1>1, TailIsFirst DEF RingInv, ReaderKnows
<1>3. /\ head \in Nat /\ tail \in Nat /\ tail' \in Nat /\ N \in Nat /\ Count \in Nat /\ Count' \in Nat
      /\ head < 2 * N /\ tail < 2 * N /\ head' = head
  BY SMTT(30), <1>1, CountIs, CountNext, SizeAssumption DEF Position
<1>4. IF tail = 2 * N - 1 THEN tail' = 0 ELSE tail' = tail + 1
  BY <1>1, FollowingIs
<1>5. Count' = Count - 1
  BY <1>1, <1>2, CountDown
<1>6. \A p \in Position : IF p = tail THEN Ahead(p)' = 2 * N - 1 ELSE Ahead(p)' = Ahead(p) - 1
  <2> SUFFICES ASSUME NEW p \in Position
               PROVE  IF p = tail THEN Ahead(p)' = 2 * N - 1 ELSE Ahead(p)' = Ahead(p) - 1
    OBVIOUS
  <2>1. IF tail <= p THEN Ahead(p) = p - tail ELSE Ahead(p) = p - tail + 2 * N
    BY AheadOfTail
  <2>2. IF tail' <= p THEN Ahead(p)' = p - tail' ELSE Ahead(p)' = p - tail' + 2 * N
    BY AheadIs DEF Ahead
  <2>3. p \in Nat /\ p < 2 * N
    BY SizeAssumption DEF Position
  <2>4. CASE tail = 2 * N - 1
    BY <1>3, <1>4, <2>1, <2>2, <2>3, <2>4
  <2>5. CASE tail # 2 * N - 1
    <3>1. tail' = tail + 1
      BY <1>4, <2>5
    <3>2. CASE p = tail
      BY <1>3, <2>2, <3>1, <3>2
    <3>3. CASE p < tail
      BY <1>3, <2>1, <2>2, <2>3, <3>1, <3>3
    <3>4. CASE p > tail
      BY <1>3, <2>1, <2>2, <2>3, <3>1, <3>4
    <3> QED
      BY <1>3, <2>3, <3>2, <3>3, <3>4
  <2> QED
    BY <2>4, <2>5
<1>7. \A p \in Position : Used(p)' <=> Used(p) /\ p # tail
  <2> SUFFICES ASSUME NEW p \in Position
               PROVE  Used(p)' <=> Used(p) /\ p # tail
    OBVIOUS
  <2>1. Ahead(p) \in Nat /\ Count <= N
    BY AheadOfTail DEF RingInv
  <2> QED
    BY <1>3, <1>5, <1>6, <2>1, SizeAssumption DEF Used
<1>8. \A p : Claimed(p)' <=> Claimed(p)
  BY <1>1, Zenon DEF Claimed, Claims
<1>9. Count' <= N
  BY <1>3, <1>5 DEF RingInv
<1>10. ClaimsApart'
  <2>1. \A x \in Writer : w[x].pc = "claimed" => w[x].head # tail
    BY <1>2 DEF Claimed, Claims
  <2> QED
    BY <1>1, <1>7, <2>1 DEF RingInv, ClaimsApart, Claims
<1>11. UsedFilled'
  <2> SUFFICES ASSUME NEW p \in Position, Used(p)'
               PROVE  \/ Claimed(p)' /\ header'[Slot(p)].is = "Empty"
                      \/ /\ ~Claimed(p)' /\ cell'[Slot(p)] \in Item
                         /\ header'[Slot(p)].is =
                              (IF p = tail' /\ r'.pc = "shift2" THEN "Empty" ELSE "Ready")
    BY DEF UsedFilled
  <2> QED
    BY <1>1, <1>7, <1>8 DEF RingInv, UsedFilled
<1>12. FreeEmpty'
  <2> SUFFICES ASSUME NEW p \in Position, ~Used(p)', Ahead(p)' < N
               PROVE  \/ header'[Slot(p)].is = "Empty"
                      \/ /\ p = head' /\ header'[Slot(p)].is = "EndOfFile"
                         /\ e'.pc \notin {"idle", "mark", "unflag"}
    BY DEF FreeEmpty
  <2>1. Ahead(p) \in Nat /\ Count <= N
    BY AheadOfTail DEF RingInv
  <2>2. p # tail /\ ~Used(p) /\ Ahead(p) <= N
    BY <1>3, <1>6, <1>7, <2>1, SizeAssumption
  <2>3. CASE Ahead(p) < N
    BY <1>1, <2>2, <2>3 DEF RingInv, FreeEmpty
  \* The position N ahead of tail is in the slot the reader has emptied.
  <2>4. CASE Ahead(p) = N
    <3>1. Slot(p) = Slot(tail)
      <4>1. IF tail <= p THEN Ahead(p) = p - tail ELSE Ahead(p) = p - tail + 2 * N
        BY AheadOfTail
      <4>2. p \in Nat /\ p < 2 * N
        BY SizeAssumption DEF Position
      <4>3. p = tail + N \/ tail = p + N
        BY <1>3, <2>4, <4>1, <4>2
      <4>4. IF p < N THEN Slot(p) = p ELSE Slot(p) = p - N
        BY SlotIs
      <4>5. IF tail < N THEN Slot(tail) = tail ELSE Slot(tail) = tail - N
        BY SlotIs
      <4>6. CASE p = tail + N
        BY <1>3, <4>2, <4>4, <4>5, <4>6
      <4>7. CASE tail = p + N
        BY <1>3, <4>2, <4>4, <4>5, <4>7
      <4> QED
        BY <4>3, <4>6, <4>7
    <3>2. header[Slot(tail)].is = "Empty"
      BY <1>1, <1>2 DEF RingInv, UsedFilled
    <3> QED
      BY <1>1, <3>1, <3>2
  <2> QED
    BY <1>3, <2>1, <2>2, <2>3, <2>4
<1>13. ReaderKnows'
  BY <1>1 DEF ReaderKnows
<1>14. EofKnows'
  BY <1>1, <1>3, <1>5 DEF RingInv, EofKnows
<1> QED
  BY <1>9, <1>10, <1>11, <1>12, <1>13, <1>14 DEF RingInv

\* A step of eof() marks or empties the header at head, which is free.
EofStep ==
  /\ UNCHANGED <<head, tail, cell, w>>
  /\ \A i \in 0..(N - 1) : i = Slot(head) \/ header'[i].is = header[i].is
  /\ \/ header'[Slot(head)].is = "Empty"
     \/ header'[Slot(head)].is = "EndOfFile" /\ e'.pc \notin {"idle", "mark", "unflag"}
  /\ r' = r \/ (r.pc \notin {"take", "shift2"} /\ r'.pc \notin {"take", "shift2", "ended"})

LEMMA EofStepKeepsInv ==
  ASSUME TypeOK, TypeOK', RingInv, Count < N, EofStep, EofKnows', r'.pc = "ended" => e'.pc \notin {"idle", "mark"}
  PROVE  RingInv'
<1> USE DEF TypeOK
<1>1. Count' = Count /\ \A p : (Ahead(p)' = Ahead(p)) /\ (Used(p)' <=> Used(p))
  BY SameCount DEF EofStep
<1>2. \A p : Claimed(p)' <=> Claimed(p)
  BY Zenon DEF EofStep, Claimed, Claims
<1>3. Ahead(head) < N /\ head \in Position /\ ~Used(head)
  BY HeadIsFree
<1>4. \A p \in Position : Ahead(p) < N /\ p # head => header'[Slot(p)].is = header[Slot(p)].is
  BY <1>3, SlotsApart, SlotIs DEF EofStep
<1>5. ClaimsApart'
  BY <1>1 DEF EofStep, RingInv, ClaimsApart, Claims
<1>6. UsedFilled'
  <2> SUFFICES ASSUME NEW p \in Position, Used(p)'
               PROVE  \/ Claimed(p)' /\ header'[Slot(p)].is = "Empty"
                      \/ /\ ~Claimed(p)' /\ cell'[Slot(p)] \in Item
                         /\ header'[Slot(p)].is =
                              (IF p = tail' /\ r'.pc = "shift2" THEN "Empty" ELSE "Ready")
    BY DEF UsedFilled
  <2>1. Used(p) /\ p # head /\ Ahead(p) < N
    BY <1>1, <1>3, UsedWithinN DEF RingInv
  <2>2. header'[Slot(p)].is = header[Slot(p)].is /\ (r'.pc = "shift2" <=> r.pc = "shift2")
    BY <1>4, <2>1 DEF EofStep
  <2> QED
    BY <1>2, <2>1, <2>2 DEF EofStep, RingInv, UsedFilled
<1>7. FreeEmpty'
  <2> SUFFICES ASSUME NEW p \in Position, ~Used(p)', Ahead(p)' < N
               PROVE  \/ header'[Slot(p)].is = "Empty"
                      \/ /\ p = head' /\ header'[Slot(p)].is = "EndOfFile"
                         /\ e'.pc \notin {"idle", "mark", "unflag"}
    BY DEF FreeEmpty
  <2>1. CASE p = head
    BY <2>1 DEF EofStep
  <2>2. CASE p # head
    BY <1>1, <1>4, <2>2 DEF RingInv, FreeEmpty
  <2> QED
    BY <2>1, <2>2
<1>8. ReaderKnows'
  BY <1>1, <1>2 DEF EofStep, RingInv, ReaderKnows
<1> QED
  BY <1>1, <1>5, <1>6, <1>7, <1>8 DEF RingInv

LEMMA EofKeepsInv ==
  ASSUME TypeOK, TypeOK', RingInv, ~spoilt', Eof
  PROVE  RingInv'
<1> USE DEF TypeOK
<1>0. /\ head \in Position /\ Slot(head) \in 0..(N - 1) /\ Ahead(head) = Count /\ ~Used(head)
      /\ e.pc # "idle" => e.head = head
      /\ e.pc \notin {"idle", "mark"} => Count < N
      /\ eofFlag <=> e.pc \in {"ended", "unflag"}
      /\ e.pc = "unflag" => r.pc = "ended"
      /\ r.pc = "ended" => Count = 0 /\ e.pc \notin {"idle", "mark"}
  BY SlotIs, HeadIsFree DEF RingInv, EofKnows, ReaderKnows
<1>1. Count < N => \/ header[Slot(head)].is = "Empty"
                   \/ header[Slot(head)].is = "EndOfFile" /\ e.pc \notin {"idle", "mark", "unflag"}
  BY <1>0 DEF RingInv, FreeEmpty
<1>3. CASE EofLoad
  <2>1. /\ e.pc = "idle" /\ e'.pc = "mark" /\ e'.head = head
        /\ UNCHANGED <<head, tail, eofFlag, cell, header, w, r>>
    BY <1>3 DEF EofLoad, words
  <2>2. Count' = Count /\ \A p : (Ahead(p)' = Ahead(p)) /\ (Used(p)' <=> Used(p))
    BY <2>1, SameCount
  <2>3. \A p : Claimed(p)' <=> Claimed(p)
    BY <2>1, Zenon DEF Claimed, Claims
  <2>4. ClaimsApart' /\ UsedFilled'
    BY <2>1, <2>2, <2>3 DEF RingInv, ClaimsApart, UsedFilled, Claims
  <2>5. FreeEmpty' /\ ReaderKnows' /\ EofKnows'
    BY <2>1, <2>2, <2>3 DEF RingInv, FreeEmpty, ReaderKnows, EofKnows
  <2> QED
    BY <2>2, <2>4, <2>5 DEF RingInv
<1>4. CASE e.pc \in {"mark", "clear", "wake", "flag"} /\ Count < N /\ UNCHANGED <<head, tail, cell, w>>
           /\ e'.head = head /\ e'.pc \in {"clear", "wake", "flag", "ended"} /\ EofStep
           /\ (eofFlag' <=> e'.pc = "ended") /\ (r' = r \/ r'.pc = "waiting")
  <2>1. Count' = Count
    BY <1>4, SameCount
  <2>2. EofKnows'
    BY <1>0, <1>4, <2>1 DEF EofKnows
  <2> QED
    BY <1>0, <1>4, <2>2, EofStepKeepsInv
<1>5. CASE EofMark
  <2>1. /\ e.pc = "mark" /\ e.head = head /\ e'.head = head /\ e'.pc \in {"clear", "flag"}
        /\ header' = [header EXCEPT ![Slot(head)] = [is |-> "EndOfFile", waiting |-> FALSE]]
        /\ UNCHANGED <<head, tail, eofFlag, cell, w, r>>
    BY <1>0, <1>5 DEF EofMark
  <2>2. EofStep
    BY <1>0, <2>1 DEF EofStep
  <2>3. Count < N
    <3>1. Count # N /\ Count <= N /\ Count \in Nat
      BY <1>5, <2>1, FullIsCount, CountIs DEF EofMark, RingInv
    <3> QED
      BY <3>1, SizeAssumption
  <2> QED
    BY <1>0, <1>4, <2>1, <2>2, <2>3
<1>6. CASE EofClear
  <2>1. /\ e.pc = "clear" /\ e'.head = e.head /\ e'.pc = "wake" /\ e.head = head
        /\ header' = [header EXCEPT ![Slot(head)].waiting = FALSE]
        /\ UNCHANGED <<head, tail, eofFlag, cell, w, r>>
    BY <1>0, <1>6 DEF EofClear
  <2>2. \A i \in 0..(N - 1) : header'[i].is = header[i].is
    BY <1>0, <2>1 DEF Header
  <2>3. EofStep
    BY <1>0, <1>1, <2>1, <2>2 DEF EofStep
  <2> QED
    BY <1>0, <1>4, <2>1, <2>3
<1>7. CASE EofWake
  <2>1. /\ e.pc = "wake" /\ e'.head = e.head /\ e'.pc = "flag" /\ e.head = head
        /\ UNCHANGED <<head, tail, eofFlag, cell, header, w>>
        /\ r' = r \/ (r.pc = "asleep" /\ r'.pc = "waiting")
    BY <1>0, <1>7 DEF EofWake, words, WakeReader, ReaderAt
  <2>2. EofStep
    BY <1>0, <1>1, <2>1 DEF EofStep
  <2> QED
    BY <1>0, <1>4, <2>1, <2>2
<1>8. CASE EofFlag
  <2>1. /\ e.pc = "flag" /\ e'.head = e.head /\ e'.pc = "ended" /\ eofFlag' = TRUE
        /\ UNCHANGED <<head, tail, cell, header, w, r>>
    BY <1>0, <1>8 DEF EofFlag
  <2>2. EofStep
    BY <1>0, <1>1, <2>1 DEF EofStep
  <2> QED
    BY <1>0, <1>4, <2>1, <2>2
<1>9. CASE Reopen
  <2>1. /\ e.pc = "ended" /\ r.pc = "ended" /\ e'.head = head /\ e'.pc = "unflag"
        /\ header' = [header EXCEPT ![Slot(head)] = EmptyHeader]
        /\ UNCHANGED <<head, tail, eofFlag, cell, w, r>>
    BY <1>9 DEF Reopen
  <2>2. Count' = Count
    BY <2>1, SameCount
  <2>3. EofKnows'
    BY <1>0, <2>1, <2>2 DEF EofKnows
  <2>4. EofStep
    BY <1>0, <2>1 DEF EofStep, EmptyHeader
  <2> QED
    BY <1>0, <2>1, <2>3, <2>4, EofStepKeepsInv
<1>10. CASE ReopenFlag
  <2>1. /\ e.pc = "unflag" /\ r.pc = "ended" /\ e'.pc = "idle" /\ eofFlag' = FALSE
        /\ r'.pc = "shift" /\ UNCHANGED <<head, tail, cell, header, w>>
    BY <1>0, <1>10 DEF ReopenFlag, ReaderAt
  <2>2. EofKnows'
    BY <2>1 DEF EofKnows
  <2>3. EofStep
    BY <1>0, <1>1, <2>1 DEF EofStep
  <2> QED
    BY <1>0, <2>1, <2>2, <2>3, EofStepKeepsInv
<1> QED
  BY <1>3, <1>5, <1>6, <1>7, <1>8, <1>9, <1>10 DEF Eof

\* A writer that neither claims a position nor fills one.
WriterWaits(x) ==
  \/ PushLoad(x) \/ PushCheck(x) \/ Push2Clear(x) \/ Push2Wake(x)
  \/ PushWait(x) \/ PushSleep(x) \/ PushTimeout(x)
  \/ PushClaim(x) /\ (head # w[x].head \/ eofFlag)

LEMMA WriterWaitsSame ==
  ASSUME TypeOK, NEW x \in Writer, WriterWaits(x)
  PROVE  SameRing
<1> USE DEF TypeOK
<1>2. ASSUME NEW pc, pc # "claimed", w[x].pc # "claimed", WriterAt(x, pc)
      PROVE  \A y \in Writer : /\ w'[y].pc = "claimed" <=> w[y].pc = "claimed"
                               /\ w[y].pc = "claimed" => w'[y].head = w[y].head
  BY <1>2 DEF WriterAt
<1>3. CASE PushLoad(x)
  BY <1>3 DEF PushLoad, words, SameRing
<1>4. CASE PushCheck(x)
  BY <1>4 DEF PushCheck, words, SameRing
<1>5. CASE Push2Clear(x)
  <2>1. w[x].pc = "clear" /\ WriterAt(x, "wake") /\ UNCHANGED <<head, tail, eofFlag, cell, e, r>>
        /\ header' = [header EXCEPT ![Slot(w[x].head)].waiting = FALSE]
    BY <1>5 DEF Push2Clear
  <2>2. \A i \in 0..(N - 1) : header'[i].is = header[i].is
    BY <2>1 DEF Header
  <2> QED
    BY <1>2, <2>1, <2>2 DEF SameRing
<1>6. CASE Push2Wake(x)
  <2>1. w[x].pc = "wake" /\ WriterAt(x, "idle") /\ UNCHANGED <<head, tail, eofFlag, cell, e, header>>
        /\ (r' = r \/ (r.pc = "asleep" /\ r'.pc = "waiting"))
    BY <1>6 DEF Push2Wake, words, WakeReader, ReaderAt
  <2> QED
    BY <1>2, <2>1 DEF SameRing
<1>7. CASE PushWait(x)
  <2>1. w[x].pc = "full" /\ UNCHANGED <<head, tail, eofFlag, cell, e, header, r>>
        /\ (WriterAt(x, "waiting") \/ WriterAt(x, "idle"))
    BY <1>7 DEF PushWait
  <2> QED
    BY <1>2, <2>1 DEF SameRing
<1>8. CASE PushSleep(x) \/ PushTimeout(x)
  <2>1. w[x].pc \in {"waiting", "asleep"} /\ UNCHANGED <<head, tail, eofFlag, cell, e, header, r>>
        /\ (WriterAt(x, "asleep") \/ WriterAt(x, "idle"))
    BY <1>8 DEF PushSleep, PushTimeout, words
  <2> QED
    BY <1>2, <2>1 DEF SameRing
<1>9. CASE PushClaim(x) /\ (head # w[x].head \/ eofFlag)
  <2>1. w[x].pc = "claiming" /\ UNCHANGED <<head, tail, eofFlag, cell, e, header, r>>
        /\ WriterAt(x, "idle")
    BY <1>9 DEF PushClaim
  <2> QED
    BY <1>2, <2>1 DEF SameRing
<1> QED
  BY <1>3, <1>4, <1>5, <1>6, <1>7, <1>8, <1>9 DEF WriterWaits

\* A reader that neither takes an item nor frees its position.
ReaderWaits == ShiftWait \/ ShiftSleep \/ ShiftTimeout \/ Shift2Clear \/ Shift2Wake

LEMMA ReaderWaitsSame ==
  ASSUME TypeOK, RingInv, ReaderWaits
  PROVE  SameRing
<1> USE DEF TypeOK
<1>1. CASE ShiftWait
  <2>1. r.pc = "empty" /\ r'.pc \in {"waiting", "shift"} /\ UNCHANGED <<head, tail, eofFlag, cell, e, w>>
    BY <1>1 DEF ShiftWait, ReaderAt
  <2>2. header' = header \/ header' = [header EXCEPT ![Slot(tail)].waiting = TRUE]
    BY <1>1, Zenon DEF ShiftWait
  <2>3. \A i \in 0..(N - 1) : [header EXCEPT ![Slot(tail)].waiting = TRUE][i].is = header[i].is
    BY DEF Header
  <2>4. \A i \in 0..(N - 1) : header'[i].is = header[i].is
    BY <2>2, <2>3
  <2> QED
    BY <2>1, <2>4 DEF SameRing
<1>2. CASE ShiftSleep \/ ShiftTimeout
  BY <1>2 DEF ShiftSleep, ShiftTimeout, ReaderAt, words, SameRing
<1>3. CASE Shift2Clear
  BY <1>3 DEF Shift2Clear, ReaderAt, SameRing
<1>4. CASE Shift2Wake
  <2>1. r.pc = "wake" /\ r'.pc = "shift" /\ UNCHANGED <<head, tail, eofFlag, cell, e, header>>
    BY <1>4 DEF Shift2Wake, ReaderAt, words
  <2>2. \/ w' = w
        \/ \E x \in Writer : w[x].pc = "asleep" /\ w' = [w EXCEPT ![x].pc = "waiting"]
    BY <1>4 DEF Shift2Wake, WriterAt
  <2>3. \A x \in Writer : /\ w'[x].pc = "claimed" <=> w[x].pc = "claimed"
                          /\ w[x].pc = "claimed" => w'[x].head = w[x].head
                          /\ w[x].pc = "idle" => w'[x].pc = "idle"
    <3>1. CASE w' = w
      BY <3>1
    <3>2. ASSUME NEW x \in Writer, w[x].pc = "asleep", w' = [w EXCEPT ![x].pc = "waiting"], NEW y \in Writer
          PROVE  /\ w'[y].pc = "claimed" <=> w[y].pc = "claimed"
                 /\ w[y].pc = "claimed" => w'[y].head = w[y].head
                 /\ w[y].pc = "idle" => w'[y].pc = "idle"
      <4>1. CASE y = x
        BY <3>2, <4>1
      <4>2. CASE y # x
        BY <3>2, <4>2
      <4> QED
        BY <4>1, <4>2
    <3> QED
      BY <2>2, <3>1, <3>2
  <2> QED
    BY <2>1, <2>3 DEF SameRing
<1> QED
  BY <1>1, <1>2, <1>3, <1>4 DEF ReaderWaits

\* Every step of the ring is one of six.
LEMMA StepKinds ==
  ASSUME Next
  PROVE  /\ UNCHANGED use
         /\ \/ \E x \in Writer : WriterWaits(x) \/ Push2(x)
            \/ \E x \in Writer : PushClaim(x) /\ head = w[x].head /\ ~eofFlag
            \/ ReaderWaits \/ Shift \/ ShiftTake \/ Shift2
            \/ Eof
<1>1. \A x \in Writer : Write(x) =>
         WriterWaits(x) \/ Push2(x) \/ (PushClaim(x) /\ head = w[x].head /\ ~eofFlag)
  BY DEF Write, WriterWaits
<1>2. Read => ReaderWaits \/ Shift \/ ShiftTake \/ Shift2
  BY DEF Read, ReaderWaits
<1> QED
  BY <1>1, <1>2, Zenon DEF Next

IInv == TypeOK /\ PushesLeft /\ RingInv

LEMMA InitInv == Init => TypeOK /\ PushesLeft /\ RingInv
<1> SUFFICES ASSUME Init
             PROVE  TypeOK /\ PushesLeft /\ RingInv
  OBVIOUS
<1>1. TypeOK /\ PushesLeft
  BY InitTyped
<1>2. Count = 0
  <2>1. head = 0 /\ tail = 0 /\ 0 \in Position
    BY <1>1 DEF Init, TypeOK
  <2> QED
    BY <1>1, <2>1, CountIs
<1>3. \A p \in Position : ~Used(p)
  BY <1>1, <1>2, AheadOfTail DEF Used
<1>4. \A p \in Position : header[Slot(p)].is = "Empty"
  BY SlotIs DEF Init, EmptyHeader
<1>5. \A x \in Writer : w[x].pc = "idle"
  BY DEF Init
<1>6. ClaimsApart /\ UsedFilled /\ FreeEmpty
  BY <1>3, <1>4, <1>5 DEF ClaimsApart, UsedFilled, FreeEmpty
<1>7. ReaderKnows /\ EofKnows
  BY DEF Init, ReaderKnows, EofKnows
<1> QED
  BY <1>1, <1>2, <1>6, <1>7, SizeAssumption DEF RingInv

\* What is spoilt stays so.
LEMMA SpoiltStays ==
  ASSUME [Next]_vars, spoilt
  PROVE  spoilt'
<1>1. \A x \in Writer : Write(x) => spoilt'
  BY DEF Write, PushLoad, PushCheck, PushClaim, Push2, Push2Clear, Push2Wake, PushWait, PushSleep,
         PushTimeout
<1>2. Read => spoilt'
  BY DEF Read, Shift, ShiftWait, ShiftSleep, ShiftTimeout, ShiftTake, Shift2, Shift2Clear, Shift2Wake
<1>3. Eof => spoilt'
  BY DEF Eof, EofLoad, EofMark, EofClear, EofWake, EofFlag, Reopen, ReopenFlag
<1> QED
  BY <1>1, <1>2, <1>3 DEF Next, vars

\* The ring invariant is inductive as long as nothing is spoilt.
LEMMA RingInvStep ==
  ASSUME IInv, ~spoilt', [Next]_vars
  PROVE  IInv'
<1>1. TypeOK /\ PushesLeft /\ RingInv
  BY DEF IInv
<1>2. TypeOK' /\ PushesLeft'
  BY <1>1, TypeStep
<1>3. CASE UNCHANGED vars
  BY <1>1, <1>2, <1>3, SameRingKeepsInv DEF vars, words, SameRing, IInv
<1>4. CASE Next
  <2>1. ASSUME NEW x \in Writer, WriterWaits(x)
        PROVE  RingInv'
    BY <1>1, <2>1, WriterWaitsSame, SameRingKeepsInv
  <2>2. ASSUME NEW x \in Writer, Push2(x), UNCHANGED use
        PROVE  RingInv'
    BY <1>1, <1>2, <2>2, FillKeepsInv
  <2>3. ASSUME NEW x \in Writer, PushClaim(x), head = w[x].head, ~eofFlag, UNCHANGED use
        PROVE  RingInv'
    BY <1>1, <1>2, <2>3, ClaimKeepsInv
  <2>4. ASSUME ReaderWaits
        PROVE  RingInv'
    BY <1>1, <2>4, ReaderWaitsSame, SameRingKeepsInv
  <2>5. ASSUME Shift \/ ShiftTake \/ Shift2
        PROVE  RingInv'
    BY <1>1, <1>2, <2>5, ShiftKeepsInv, TakeKeepsInv, FreeKeepsInv
  <2>6. ASSUME Eof
        PROVE  RingInv'
    BY <1>1, <1>2, <2>6, EofKeepsInv
  <2> QED
    BY <1>2, <1>4, <2>1, <2>2, <2>3, <2>4, <2>5, <2>6, StepKinds DEF IInv
<1> QED
  BY <1>3, <1>4

\* The invariant of every state: the ring is sound or something is spoilt.
SoundOrSpoilt == TypeOK /\ PushesLeft /\ (spoilt \/ RingInv)

LEMMA SoundStep ==
  ASSUME SoundOrSpoilt, [Next]_vars
  PROVE  SoundOrSpoilt'
<1>1. TypeOK' /\ PushesLeft'
  BY TypeStep DEF SoundOrSpoilt
<1>2. ASSUME ~spoilt'
      PROVE  RingInv'
  <2>1. ~spoilt
    BY <1>2, SpoiltStays
  <2>2. IInv
    BY <2>1 DEF SoundOrSpoilt, IInv
  <2>3. IInv'
    BY <1>2, <2>2, RingInvStep
  <2> QED
    BY <2>3 DEF IInv
<1> QED
  BY <1>1, <1>2 DEF SoundOrSpoilt

LEMMA InitSound == Init => SoundOrSpoilt
  BY InitInv DEF SoundOrSpoilt

\* shift() says the file has ended only when everything pushed was taken, whenever eof() is
\* called and for any number of positions and writers, unless eof() met a full ring or a push
\* between its load of head and its store of the flag, or a writer claimed a full ring.
THEOREM EndDrains == Spec => []EndMeansDrained
<1>1. SoundOrSpoilt /\ [Next]_vars => SoundOrSpoilt'
  BY SoundStep
<1>2. SoundOrSpoilt => EndMeansDrained
  BY DEF SoundOrSpoilt, RingInv, ReaderKnows, EndMeansDrained
<1> QED
  BY InitSound, <1>1, <1>2, PTL DEF Spec

-----------------------------------------------------------------------------
(* The ring implements the bounded queue *)

\* The position of the i-th item in the ring.
Place(i) == (tail + i - 1) % (2 * N)

LEMMA PlaceIs ==
  ASSUME TypeOK, Count <= N, NEW i \in 1..Count
  PROVE  Place(i) \in Position /\ Used(Place(i)) /\ Ahead(Place(i)) = i - 1
<1>1. /\ tail \in Nat /\ N \in Nat /\ N > 0 /\ tail < 2 * N /\ Count \in Nat
      /\ i \in Nat /\ i >= 1 /\ i <= N
  BY CountIs, SizeAssumption DEF TypeOK, Position
<1>2. tail \in Position /\ i - 1 \in Position /\ tail + (i - 1) = tail + i - 1
  BY <1>1 DEF TypeOK, Position
<1>3. IF tail + (i - 1) < 2 * N THEN Place(i) = tail + (i - 1) ELSE Place(i) = tail + (i - 1) - 2 * N
  BY <1>2, AtIs DEF Place
<1>4. Place(i) \in Position
  BY <1>1, <1>3 DEF Position
<1>5. IF tail <= Place(i) THEN Ahead(Place(i)) = Place(i) - tail ELSE Ahead(Place(i)) = Place(i) - tail + 2 * N
  BY <1>4, AheadOfTail
<1>6. Ahead(Place(i)) = i - 1
  <2>1. CASE tail + (i - 1) < 2 * N
    BY <1>1, <1>3, <1>5, <2>1
  <2>2. CASE ~(tail + (i - 1) < 2 * N)
    BY <1>1, <1>3, <1>5, <2>2
  <2> QED
    BY <2>1, <2>2
<1> QED
  BY <1>1, <1>4, <1>6 DEF Used

\* The item at a position in use: what its writer is about to construct, or what the slot has.
ItemsKnown ==
  \A p \in Position :
    /\ ~Claimed(p) => ItemAt(p) = cell[Slot(p)]
    /\ \A x \in Writer : Claims(x, p) => ItemAt(p) = <<x, sent[x] + 1>>
    /\ Used(p) => ItemAt(p) \in Item

LEMMA ItemsAre ==
  ASSUME IInv
  PROVE  ItemsKnown
<1> SUFFICES ASSUME NEW p \in Position
             PROVE  /\ ~Claimed(p) => ItemAt(p) = cell[Slot(p)]
                    /\ \A x \in Writer : Claims(x, p) => ItemAt(p) = <<x, sent[x] + 1>>
                    /\ Used(p) => ItemAt(p) \in Item
  BY DEF ItemsKnown
<1> DEFINE Claimants == {x \in Writer : w[x].pc = "claimed" /\ w[x].head = p}
<1>1. ~Claimed(p) => ItemAt(p) = cell[Slot(p)]
  <2> SUFFICES ASSUME ~Claimed(p)
               PROVE  ItemAt(p) = cell[Slot(p)]
    OBVIOUS
  <2>1. Claimants = {}
    BY DEF Claimed, Claims
  <2> QED
    BY <2>1 DEF ItemAt
<1>2. ASSUME NEW x \in Writer, Claims(x, p)
      PROVE  ItemAt(p) = <<x, sent[x] + 1>> /\ ItemAt(p) \in Item
  <2>1. Claimants = {x}
    BY <1>2 DEF IInv, RingInv, ClaimsApart, Claims
  <2>2. (CHOOSE y \in Claimants : TRUE) = x
    BY <2>1
  <2>3. ItemAt(p) = <<x, sent[x] + 1>>
    BY <2>1, <2>2, Zenon DEF ItemAt
  <2>4. TypeOK /\ sent[x] < use.pushes[x]
    BY <1>2 DEF IInv, PushesLeft, Claims
  <2> QED
    BY <2>3, <2>4, ItemType
<1>3. Used(p) => ItemAt(p) \in Item
  BY <1>1, <1>2 DEF IInv, RingInv, UsedFilled, Claimed
<1> QED
  BY <1>1, <1>2, <1>3

QueueKnown ==
  /\ Queue \in Seq(Item) /\ Len(Queue) = Count
  /\ \A i \in 1..Count : Queue[i] = ItemAt(Place(i))

LEMMA QueueIs ==
  ASSUME IInv
  PROVE  QueueKnown
<1>1. Count \in Nat /\ Count <= N /\ TypeOK
  BY CountIs DEF IInv, RingInv
<1>2. Queue = [i \in 1..Count |-> ItemAt(Place(i))]
  BY Zenon DEF Queue, Place
<1>3. \A i \in 1..Count : ItemAt(Place(i)) \in Item
  BY <1>1, ItemsAre, PlaceIs DEF ItemsKnown
<1>4. Queue \in [1..Count -> Item]
  BY <1>2, <1>3
<1>5. Queue \in Seq(Item)
  BY <1>1, <1>4, SeqDef
<1>6. Len(Queue) = Count
  BY <1>1, <1>4, <1>5, LenProperties
<1> QED
  BY <1>2, <1>5, <1>6 DEF QueueKnown

\* The same of the next state.
LEMMA KnownNext == IInv' => ItemsKnown' /\ QueueKnown'
<1>1. IInv => ItemsKnown /\ QueueKnown
  BY ItemsAre, QueueIs
<1> QED
  BY <1>1, PTL

\* The queue is the same when the positions in use have the same items.
LEMMA SameQueue ==
  ASSUME IInv, IInv', UNCHANGED <<head, tail>>,
         \A p \in Position : Used(p) => ItemAt(p)' = ItemAt(p)
  PROVE  UNCHANGED Queue
<1>1. QueueKnown /\ QueueKnown' /\ TypeOK /\ Count <= N
  BY QueueIs, KnownNext DEF IInv, RingInv
<1>2. Count' = Count /\ \A i : Place(i)' = Place(i)
  BY Zenon DEF Count, Place
<1>3. \A i \in 1..Count : Queue'[i] = Queue[i]
  <2> SUFFICES ASSUME NEW i \in 1..Count
               PROVE  Queue'[i] = Queue[i]
    OBVIOUS
  <2>1. Place(i) \in Position /\ Used(Place(i))
    BY <1>1, PlaceIs
  <2>2. Queue[i] = ItemAt(Place(i))
    BY <1>1 DEF QueueKnown
  <2>3. Queue'[i] = ItemAt(Place(i))'
    BY <1>1, <1>2 DEF QueueKnown
  <2> QED
    BY <2>1, <2>2, <2>3, <1>2
<1> QED
  BY <1>1, <1>2, <1>3, SeqEqual DEF QueueKnown

\* A step that touches no item and no claim.
LEMMA SameItems ==
  ASSUME IInv, IInv', UNCHANGED <<head, tail, cell, sent>>,
         \A x \in Writer, p \in Position : Claims(x, p)' <=> Claims(x, p)
  PROVE  UNCHANGED Queue
<1>1. ItemsKnown /\ ItemsKnown'
  BY ItemsAre, KnownNext
<1>2. ASSUME NEW p \in Position
      PROVE  ItemAt(p)' = ItemAt(p)
  <2>1. Claimed(p)' <=> Claimed(p)
    BY Zenon DEF Claimed
  <2>2. ASSUME ~Claimed(p)
        PROVE  ItemAt(p)' = ItemAt(p)
    BY <1>1, <2>1, <2>2 DEF ItemsKnown
  <2>3. ASSUME NEW x \in Writer, Claims(x, p)
        PROVE  ItemAt(p)' = ItemAt(p)
    BY <1>1, <2>3 DEF ItemsKnown
  <2> QED
    BY <2>2, <2>3 DEF Claimed
<1> QED
  BY <1>2, SameQueue

\* push2() puts into the slot the item its writer added to the queue with the claim.
LEMMA FillKeepsQueue ==
  ASSUME IInv, IInv', NEW x \in Writer, Push2(x)
  PROVE  UNCHANGED Queue
<1>1. /\ w[x].pc = "claimed" /\ UNCHANGED <<head, tail>>
      /\ cell' = [cell EXCEPT ![Slot(w[x].head)] = <<x, sent[x] + 1>>]
      /\ sent' = [sent EXCEPT ![x] = @ + 1]
      /\ \E pc \in {"clear", "idle"} : w' = [w EXCEPT ![x].pc = pc]
  BY DEF Push2, WriterAt
<1>2. ItemsKnown /\ ItemsKnown' /\ TypeOK /\ Count <= N /\ ClaimsApart /\ UsedFilled
  BY ItemsAre, KnownNext DEF IInv, RingInv
<1>3. w[x].head \in Position /\ Used(w[x].head)
  BY <1>1, <1>2 DEF TypeOK, ClaimsApart
<1>4. \A y \in Writer, p \in Position : Claims(y, p)' <=> Claims(y, p) /\ y # x
  BY <1>1, <1>2 DEF Claims, TypeOK
<1>5. ASSUME NEW p \in Position, Used(p)
      PROVE  ItemAt(p)' = ItemAt(p)
  <2>1. CASE p = w[x].head
    <3>1. ItemAt(p) = <<x, sent[x] + 1>>
      BY <1>1, <1>2, <2>1 DEF ItemsKnown, Claims
    <3>2. ~Claimed(p)'
      BY <1>1, <1>2, <1>4, <2>1 DEF Claimed, ClaimsApart
    <3>3. ItemAt(p)' = cell'[Slot(p)]
      BY <1>2, <3>2 DEF ItemsKnown
    <3> QED
      BY <1>1, <1>2, <2>1, <3>1, <3>3, SlotIs DEF TypeOK
  <2>2. CASE p # w[x].head
    <3>1. \A y \in Writer : Claims(y, p)' <=> Claims(y, p)
      BY <1>4, <2>2 DEF Claims
    <3>2. Claimed(p)' <=> Claimed(p)
      BY <3>1, Zenon DEF Claimed
    <3>3. cell'[Slot(p)] = cell[Slot(p)]
      <4>1. Slot(p) # Slot(w[x].head)
        BY <1>2, <1>3, <1>5, <2>2, UsedApart, UsedWithinN
      <4> QED
        BY <1>1, <1>2, <4>1, SlotIs DEF TypeOK
    <3>4. ASSUME ~Claimed(p)
          PROVE  ItemAt(p)' = ItemAt(p)
      BY <1>2, <3>2, <3>3, <3>4 DEF ItemsKnown
    <3>5. ASSUME NEW y \in Writer, Claims(y, p)
          PROVE  ItemAt(p)' = ItemAt(p)
      <4>1. y # x /\ sent'[y] = sent[y]
        BY <1>1, <1>2, <2>2, <3>5 DEF Claims, TypeOK
      <4> QED
        BY <1>2, <3>1, <3>5, <4>1 DEF ItemsKnown
    <3> QED
      BY <3>4, <3>5 DEF Claimed
  <2> QED
    BY <2>1, <2>2
<1> QED
  BY <1>1, <1>5, SameQueue

LEMMA HeadIsNext ==
  ASSUME TypeOK
  PROVE  (tail + Count) % (2 * N) = head
<1>1. head \in Nat /\ tail \in Nat /\ N \in Nat /\ head < 2 * N /\ tail < 2 * N
  BY SizeAssumption DEF TypeOK, Position
<1>2. Count \in Nat /\ IF tail <= head THEN Count = head - tail ELSE Count = head - tail + 2 * N
  BY CountIs
<1>3. IF tail + Count < 2 * N THEN (tail + Count) % (2 * N) = tail + Count
      ELSE (tail + Count) % (2 * N) = tail + Count - 2 * N
  BY AtIs, CountIs DEF TypeOK
<1> QED
  BY <1>1, <1>2, <1>3

\* The exchange of head adds the item its writer is to push.
LEMMA ClaimAdds ==
  ASSUME IInv, IInv', ~spoilt', NEW x \in Writer, PushClaim(x), head = w[x].head, ~eofFlag
  PROVE  Bounded!Add(<<x, sent[x] + 1>>)
<1>1. /\ w[x].pc = "claiming" /\ head' = Following(head) /\ w' = [w EXCEPT ![x].pc = "claimed"]
      /\ UNCHANGED <<tail, cell, sent, taken>>
  BY DEF PushClaim, WriterAt
<1>2. /\ TypeOK /\ TypeOK' /\ RingInv /\ QueueKnown /\ QueueKnown' /\ ItemsKnown /\ ItemsKnown'
      /\ sent[x] < use.pushes[x]
  BY <1>1, QueueIs, ItemsAre, KnownNext DEF IInv, PushesLeft
<1>3. Count \in Nat /\ N \in Nat /\ Count < N
  BY <1>2, ClaimFindsRoom, CountIs, SizeAssumption
<1>4. Count' = Count + 1
  BY <1>1, <1>2, <1>3, CountUp
<1> DEFINE item == <<x, sent[x] + 1>>
           longer == Append(Queue, item)
<1>5. item \in Item
  BY <1>2, ItemType
<1> HIDE DEF item
<1>6. /\ longer \in Seq(Item) /\ Len(longer) = Count + 1
      /\ \A i \in 1..Count : longer[i] = Queue[i]
      /\ longer[Count + 1] = item
  BY <1>2, <1>3, <1>5 DEF QueueKnown
<1>7. \A p \in Position, y \in Writer : Claims(y, p)' <=> Claims(y, p) \/ (y = x /\ p = head)
  BY <1>1, <1>2 DEF Claims, TypeOK
<1>8. ASSUME NEW i \in 1..Count
      PROVE  Queue'[i] = Queue[i]
  <2>1. Place(i) \in Position /\ Used(Place(i)) /\ Place(i) # head /\ Place(i)' = Place(i) /\ i \in 1..Count'
    BY <1>1, <1>2, <1>3, <1>4, PlaceIs, HeadIsFree DEF Place, RingInv
  <2>2. Queue'[i] = ItemAt(Place(i))' /\ Queue[i] = ItemAt(Place(i))
    BY <1>2, <2>1 DEF QueueKnown
  <2>3. \A y \in Writer : Claims(y, Place(i))' <=> Claims(y, Place(i))
    BY <1>7, <2>1
  <2>4. Claimed(Place(i))' <=> Claimed(Place(i))
    BY <2>3, Zenon DEF Claimed
  <2>5. ASSUME ~Claimed(Place(i))
        PROVE  ItemAt(Place(i))' = ItemAt(Place(i))
    BY <1>1, <1>2, <2>1, <2>4, <2>5 DEF ItemsKnown
  <2>6. ASSUME NEW y \in Writer, Claims(y, Place(i))
        PROVE  ItemAt(Place(i))' = ItemAt(Place(i))
    BY <1>1, <1>2, <2>1, <2>3, <2>6 DEF ItemsKnown
  <2> QED
    BY <2>2, <2>5, <2>6 DEF Claimed
<1>9. Queue'[Count + 1] = item
  <2>1. PICK n \in Nat, h \in Position : n = Count + 1 /\ h = head
    BY <1>2, <1>3 DEF TypeOK
  <2>2. n \in 1..Count'
    BY <1>3, <1>4, <2>1
  <2>3. Place(n)' = h
    <3>1. tail' + n - 1 = tail + Count
      BY <1>1, <1>2, <1>3, <2>1 DEF TypeOK, Position
    <3>2. Place(n)' = (tail + Count) % (2 * N)
      BY <3>1, Zenon DEF Place
    <3> QED
      BY <1>2, <2>1, <3>2, HeadIsNext
  <2>4. Queue'[n] = ItemAt(h)'
    <3>1. Queue'[n] = ItemAt(Place(n))'
      BY <1>2, <2>2 DEF QueueKnown
    <3>2. ItemAt(Place(n))' = ItemAt(h)'
      BY <2>3
    <3> QED
      BY <3>1, <3>2
  <2>5. ItemAt(h)' = <<x, sent'[x] + 1>>
    <3>1. Claims(x, h)'
      BY <1>7, <2>1
    <3> QED
      BY <1>2, <2>1, <3>1 DEF ItemsKnown
  <2> QED
    BY <1>1, <2>1, <2>4, <2>5 DEF item
<1>10. Queue' = longer
  <2>1. Queue' \in Seq(Item) /\ Len(Queue') = Count + 1
    BY <1>2, <1>4 DEF QueueKnown
  <2>2. \A i \in 1..Len(Queue') : Queue'[i] = longer[i]
    BY <1>3, <1>6, <1>8, <1>9, <2>1
  <2> QED
    BY <1>6, <2>1, <2>2, SeqEqual
<1>11. Len(Queue) < N
  BY <1>2, <1>3 DEF QueueKnown
<1> QED
  BY <1>1, <1>10, <1>11 DEF item, Bounded!Add

\* shift2() takes the item at tail, the first of the queue.
LEMMA FreeTakes ==
  ASSUME IInv, IInv', Shift2
  PROVE  Bounded!Take
<1>1. /\ r.pc = "shift2" /\ tail' = Following(tail) /\ taken' = r.item
      /\ UNCHANGED <<head, cell, w, sent>>
  BY DEF Shift2
<1>2. /\ TypeOK /\ TypeOK' /\ RingInv /\ QueueKnown /\ QueueKnown' /\ ItemsKnown /\ ItemsKnown'
  BY QueueIs, ItemsAre, KnownNext DEF IInv
<1>3. /\ Count > 0 /\ ~Claimed(tail) /\ r.item = cell[Slot(tail)] /\ tail \in Position
      /\ Count \in Nat /\ Count <= N /\ N \in Nat
  BY <1>1, <1>2, CountIs, SizeAssumption DEF RingInv, ReaderKnows, TypeOK
<1>4. Count' = Count - 1
  BY <1>1, <1>2, <1>3, CountDown
<1>5. Queue # << >> /\ Len(Queue) = Count /\ Queue \in Seq(Item)
  BY <1>2, <1>3, EmptySeq DEF QueueKnown
<1>6. Head(Queue) = taken'
  <2>1. 1 \in 1..Count /\ Place(1) = tail
    <3>1. tail + 1 - 1 = tail
      BY <1>3, SizeAssumption DEF Position
    <3>2. tail % (2 * N) = tail
      BY <1>3, SizeAssumption DEF Position
    <3> QED
      BY <1>3, <3>1, <3>2 DEF Place
  <2>2. Queue[1] = cell[Slot(tail)]
    BY <1>2, <1>3, <2>1 DEF QueueKnown, ItemsKnown
  <2> QED
    BY <1>1, <1>3, <1>5, <2>2
<1>7. ASSUME NEW i \in 1..(Count - 1)
      PROVE  Queue'[i] = Queue[i + 1]
  <2>1. i \in Nat /\ i + 1 \in 1..Count /\ i \in 1..Count'
    BY <1>3, <1>4
  <2>2. PICK p \in Position : p = Place(i + 1)
    BY <1>2, <1>3, <2>1, PlaceIs
  <2>3. Place(i)' = p
    <3>1. Place(i + 1) = (tail + i) % (2 * N) /\ Place(i)' = (tail' + i - 1) % (2 * N)
      <4>1. tail + (i + 1) - 1 = tail + i
        BY <1>3, <2>1, SizeAssumption DEF Position
      <4> QED
        BY <4>1, Zenon DEF Place
    <3>2. IF tail = 2 * N - 1 THEN tail' = 0 ELSE tail' = tail + 1
      BY <1>1, <1>3, FollowingIs
    <3>3. i \in Position /\ i - 1 \in Position /\ tail' \in Position /\ tail \in Nat /\ tail < 2 * N
      BY <1>2, <1>3, <2>1, SizeAssumption DEF Position, TypeOK
    <3>4. IF tail + i < 2 * N THEN (tail + i) % (2 * N) = tail + i
          ELSE (tail + i) % (2 * N) = tail + i - 2 * N
      BY <1>3, <3>3, AtIs
    <3>5. IF tail' + (i - 1) < 2 * N THEN (tail' + (i - 1)) % (2 * N) = tail' + (i - 1)
          ELSE (tail' + (i - 1)) % (2 * N) = tail' + (i - 1) - 2 * N
      BY <3>3, AtIs
    <3>6. tail' + (i - 1) = tail' + i - 1
      BY <2>1, <3>2, <1>3, SizeAssumption DEF Position
    <3>7. (tail + i) % (2 * N) = (tail' + (i - 1)) % (2 * N)
      <4>1. CASE tail = 2 * N - 1
        BY <1>3, <2>1, <3>2, <3>3, <3>4, <3>5, <4>1
      <4>2. CASE tail # 2 * N - 1
        BY <1>3, <2>1, <3>2, <3>3, <3>4, <3>5, <4>2
      <4> QED
        BY <4>1, <4>2
    <3> QED
      BY <2>2, <3>1, <3>6, <3>7
  <2>4. Queue[i + 1] = ItemAt(p)
    BY <1>2, <2>1, <2>2 DEF QueueKnown
  <2>5. Queue'[i] = ItemAt(p)'
    <3>1. Queue'[i] = ItemAt(Place(i))'
      BY <1>2, <2>1 DEF QueueKnown
    <3>2. ItemAt(Place(i))' = ItemAt(p)'
      BY <2>3
    <3> QED
      BY <3>1, <3>2
  <2>6. ItemAt(p)' = ItemAt(p)
    <3>1. \A x \in Writer : Claims(x, p)' <=> Claims(x, p)
      BY <1>1 DEF Claims
    <3>2. Claimed(p)' <=> Claimed(p)
      BY <3>1, Zenon DEF Claimed
    <3>3. ~Claimed(p) => ItemAt(p)' = ItemAt(p)
      BY <1>1, <1>2, <3>2 DEF ItemsKnown
    <3>4. \A x \in Writer : Claims(x, p) => ItemAt(p)' = ItemAt(p)
      BY <1>1, <1>2, <3>1 DEF ItemsKnown
    <3> QED
      BY <3>3, <3>4 DEF Claimed
  <2> QED
    BY <2>4, <2>5, <2>6
<1>8. Queue' = Tail(Queue)
  <2>1. Queue' \in Seq(Item) /\ Len(Queue') = Count - 1
    BY <1>2, <1>4 DEF QueueKnown
  <2>2. Tail(Queue) \in Seq(Item) /\ Len(Tail(Queue)) = Count - 1
        /\ \A i \in 1..(Count - 1) : Tail(Queue)[i] = Queue[i + 1]
    BY <1>5, HeadTailProperties
  <2> QED
    BY <1>7, <2>1, <2>2, SeqEqual
<1> QED
  BY <1>5, <1>6, <1>8 DEF Bounded!Take

LEMMA FifoStep ==
  ASSUME IInv, ~spoilt', [Next]_vars
  PROVE  [Bounded!Next]_<<Queue, taken>>
<1>1. IInv' /\ TypeOK /\ RingInv
  BY RingInvStep DEF IInv
<1>2. CASE UNCHANGED vars
  BY <1>1, <1>2, SameItems DEF vars, words, Claims
<1>3. CASE Next
  <2>1. ASSUME NEW x \in Writer, WriterWaits(x)
        PROVE  UNCHANGED <<Queue, taken>>
    <3>1. SameRing /\ UNCHANGED <<sent, taken>>
      BY <1>1, <2>1, WriterWaitsSame DEF WriterWaits, PushLoad, PushCheck, PushClaim, Push2Clear,
         Push2Wake, PushWait, PushSleep, PushTimeout
    <3> QED
      BY <1>1, <3>1, SameItems DEF SameRing, Claims
  <2>2. ASSUME NEW x \in Writer, Push2(x)
        PROVE  UNCHANGED <<Queue, taken>>
    BY <1>1, <2>2, FillKeepsQueue DEF Push2
  <2>3. ASSUME NEW x \in Writer, PushClaim(x), head = w[x].head, ~eofFlag
        PROVE  Bounded!Next
    <3>1. <<x, sent[x] + 1>> \in Item
      BY <1>1, <2>3, ItemType DEF IInv, PushesLeft, PushClaim
    <3> QED
      BY <1>1, <2>3, <3>1, ClaimAdds DEF Bounded!Next
  <2>4. ASSUME ReaderWaits
        PROVE  UNCHANGED <<Queue, taken>>
    <3>1. SameRing /\ UNCHANGED <<sent, taken>>
      BY <1>1, <2>4, ReaderWaitsSame DEF ReaderWaits, ShiftWait, ShiftSleep, ShiftTimeout, Shift2Clear,
         Shift2Wake
    <3> QED
      BY <1>1, <3>1, SameItems DEF SameRing, Claims
  <2>5. ASSUME Shift \/ ShiftTake
        PROVE  UNCHANGED <<Queue, taken>>
    BY <1>1, <2>5, SameItems DEF Shift, ShiftTake, words, Claims
  <2>6. ASSUME Shift2
        PROVE  Bounded!Next
    BY <1>1, <2>6, FreeTakes DEF Bounded!Next
  <2>7. ASSUME Eof
        PROVE  UNCHANGED <<Queue, taken>>
    <3>1. UNCHANGED <<head, tail, cell, w, sent, taken>>
      BY <1>1, <2>7 DEF Eof, EofLoad, EofMark, EofClear, EofWake, EofFlag, Reopen, ReopenFlag, words,
         RingInv, EofKnows
    <3> QED
      BY <1>1, <3>1, SameItems DEF Claims
  <2> QED
    BY <1>3, <2>1, <2>2, <2>3, <2>4, <2>5, <2>6, <2>7, StepKinds
<1> QED
  BY <1>2, <1>3

\* The ring is a bounded first-in first-out queue of many writers and one reader, for any
\* number of positions and writers, whatever the interleaving of push_(), push2(), shift(),
\* shift2(), eof() and their waits, until a position is spoilt: the push takes effect with the
\* exchange of head, and the items leave in that order, each once.
THEOREM RingIsFifo == Spec => IsFifo
<1>1. Init => IInv /\ Bounded!Init
  <2> SUFFICES ASSUME Init
               PROVE  IInv /\ Bounded!Init
    OBVIOUS
  <2>1. IInv
    BY InitInv DEF IInv
  <2>2. Count = 0
    BY <2>1, CountIs, SizeAssumption DEF Init, IInv, Position
  <2>3. Queue = << >>
    BY <2>1, <2>2, QueueIs, EmptySeq DEF QueueKnown
  <2> QED
    BY <2>1, <2>3 DEF Init, Bounded!Init
<1>2. SoundOrSpoilt /\ [Next]_vars => SoundOrSpoilt' /\ [spoilt' \/ Bounded!Next]_<<Queue, taken>>
  <2> SUFFICES ASSUME SoundOrSpoilt, [Next]_vars, ~spoilt'
               PROVE  [Bounded!Next]_<<Queue, taken>>
    BY SoundStep
  <2>1. ~spoilt
    BY SpoiltStays
  <2> QED
    BY <2>1, FifoStep DEF SoundOrSpoilt, IInv
<1>3. Init => SoundOrSpoilt
  BY InitSound
<1> QED
  BY <1>1, <1>2, <1>3, PTL DEF Spec, IsFifo

-----------------------------------------------------------------------------
(* A ring with one writer *)

\* While the only writer is on its way to the exchange of head, head stays what it loaded,
\* and the room it found stays there.
Alone ==
  /\ e.pc = "idle" /\ ~spoilt
  /\ \A x \in Writer :
       /\ w[x].pc \in {"loaded", "claiming"} => w[x].head = head
       /\ w[x].pc = "claiming" => Count < N

LEMMA NoEof ==
  ASSUME TypeOK, Alone, \A u \in Uses : u.eofs = 0
  PROVE  ~Eof
<1>1. e.calls = 0 /\ use.eofs = 0
  BY DEF TypeOK
<1> QED
  BY <1>1 DEF Alone, Eof, EofLoad, EofMark, EofClear, EofWake, EofFlag, Reopen, ReopenFlag

LEMMA AloneSpoilsNothing ==
  ASSUME IInv, Alone, \A u \in Uses : u.eofs = 0, [Next]_vars
  PROVE  ~spoilt'
<1>1. TypeOK /\ ~Eof /\ ~spoilt /\ ~Marking
  BY NoEof DEF IInv, Alone, Marking
<1>2. ASSUME NEW x \in Writer, PushClaim(x)
      PROVE  ~spoilt'
  <2>1. w[x].pc = "claiming" /\ Count < N /\ Count \in Nat /\ N \in Nat
    BY <1>1, <1>2, CountIs, SizeAssumption DEF PushClaim, Alone
  <2>2. ~Full(head, tail)
    BY <1>1, <2>1, FullIsCount
  <2> QED
    BY <1>1, <1>2, <2>2 DEF PushClaim
<1>3. \A x \in Writer : Write(x) => ~spoilt'
  BY <1>1, <1>2 DEF Write, PushLoad, PushCheck, Push2, Push2Clear, Push2Wake, PushWait, PushSleep, PushTimeout
<1>4. Read => ~spoilt'
  BY <1>1 DEF Read, Shift, ShiftWait, ShiftSleep, ShiftTimeout, ShiftTake, Shift2, Shift2Clear, Shift2Wake
<1> QED
  BY <1>1, <1>3, <1>4 DEF Next, vars

LEMMA AloneStep ==
  ASSUME NEW x0, Writer = {x0}, \A u \in Uses : u.eofs = 0, IInv, IInv', Alone, [Next]_vars
  PROVE  Alone'
<1>0. ~spoilt' /\ ~Eof /\ e.pc = "idle"
  BY AloneSpoilsNothing, NoEof DEF IInv, Alone
<1>1. TypeOK /\ TypeOK' /\ RingInv /\ Count \in Nat /\ Count <= N /\ N \in Nat
  BY CountIs, SizeAssumption DEF IInv, RingInv
<1>2. ASSUME UNCHANGED <<head, tail, e>>,
             \A x \in Writer : /\ w'[x].pc = "loaded" => w'[x].head = head
                               /\ w'[x].pc = "claiming" => w[x].pc = "claiming" /\ w'[x].head = w[x].head
      PROVE  Alone'
  <2>1. Count' = Count
    BY <1>2, SameCount
  <2> QED
    BY <1>0, <1>2, <2>1 DEF Alone
<1>3. CASE UNCHANGED vars
  BY <1>2, <1>3 DEF vars, words, Alone
<1>4. ASSUME UNCHANGED <<head, tail, w, e>>
      PROVE  Alone'
  BY <1>2, <1>4 DEF Alone
<1>5. ASSUME NEW x \in Writer, Write(x)
      PROVE  Alone'
  <2> USE <1>1 DEF TypeOK
  <2>0. x = x0
    OBVIOUS
  <2>1. ASSUME UNCHANGED <<head, tail, e>>, NEW pc, WriterAt(x, pc), pc \notin {"loaded", "claiming"}
        PROVE  Alone'
    BY <1>2, <2>1 DEF WriterAt, Alone
  <2>2. CASE PushLoad(x)
    BY <1>2, <2>2 DEF PushLoad, words, Alone
  <2>3. CASE PushCheck(x)
    <3>1. /\ w[x].pc = "loaded" /\ w[x].head = head /\ UNCHANGED <<head, tail, e>>
          /\ w'[x0].head = head /\ (w'[x0].pc = "claiming" => ~Full(head, tail)) /\ w'[x0].pc # "loaded"
      BY <2>0, <2>3 DEF PushCheck, words, Alone
    <3>2. ~Full(head, tail) => Count < N
      BY FullIsCount
    <3>3. Count' = Count
      BY <3>1, SameCount
    <3> QED
      BY <1>0, <3>1, <3>2, <3>3 DEF Alone
  <2>4. CASE PushClaim(x)
    <3>1. w'[x0].pc \in {"claimed", "idle"} /\ UNCHANGED e
      BY <2>0, <2>4 DEF PushClaim, WriterAt
    <3> QED
      BY <1>0, <3>1 DEF Alone
  <2>5. CASE Push2(x)
    BY <2>1, <2>5 DEF Push2
  <2>6. CASE Push2Clear(x) \/ Push2Wake(x)
    BY <2>1, <2>6 DEF Push2Clear, Push2Wake, words
  <2>7. CASE PushWait(x) \/ PushSleep(x) \/ PushTimeout(x)
    BY <2>1, <2>7 DEF PushWait, PushSleep, PushTimeout, words
  <2> QED
    BY <1>5, <2>2, <2>3, <2>4, <2>5, <2>6, <2>7 DEF Write
<1>6. ASSUME Read
      PROVE  Alone'
  <2>1. CASE Shift2
    <3>1. UNCHANGED <<head, w, e>> /\ tail' = Following(tail) /\ Count > 0
      BY <1>1, <2>1 DEF Shift2, RingInv, ReaderKnows
    <3>2. Count' = Count - 1
      BY <1>1, <3>1, CountDown
    <3> QED
      BY <1>0, <1>1, <3>1, <3>2 DEF Alone
  <2>2. CASE Shift2Wake
    <3>1. UNCHANGED <<head, tail, e>>
          /\ (w' = w \/ \E x \in Writer : w[x].pc = "asleep" /\ w' = [w EXCEPT ![x].pc = "waiting"])
      BY <2>2 DEF Shift2Wake, words, WriterAt
    <3>2. \A x \in Writer : w'[x] = w[x] \/ w'[x].pc = "waiting"
      BY <1>1, <3>1 DEF TypeOK
    <3> QED
      BY <1>2, <3>1, <3>2 DEF Alone
  <2>3. CASE Shift \/ ShiftWait \/ ShiftSleep \/ ShiftTimeout \/ ShiftTake \/ Shift2Clear
    BY <1>4, <2>3 DEF Shift, ShiftWait, ShiftSleep, ShiftTimeout, ShiftTake, Shift2Clear, words
  <2> QED
    BY <1>6, <2>1, <2>2, <2>3 DEF Read
<1> QED
  BY <1>0, <1>3, <1>5, <1>6 DEF Next

\* With one writer and no eof() nothing is ever spoilt: the ring is a bounded queue of any
\* size, without a condition on how its threads are scheduled.
THEOREM OneWriterIsFifo ==
  ASSUME NEW x0, Writer = {x0}, \A u \in Uses : u.eofs = 0
  PROVE  Spec => []~spoilt /\ Bounded!Spec
<1>1. Init => IInv /\ Alone
  BY InitInv DEF IInv, Init, Alone
<1>2. IInv /\ Alone /\ [Next]_vars => IInv' /\ Alone' /\ [Bounded!Next]_<<Queue, taken>>
  <2> SUFFICES ASSUME IInv, Alone, [Next]_vars
               PROVE  IInv' /\ Alone' /\ [Bounded!Next]_<<Queue, taken>>
    OBVIOUS
  <2>1. ~spoilt'
    BY AloneSpoilsNothing
  <2>2. IInv'
    BY <2>1, RingInvStep
  <2> QED
    BY <2>1, <2>2, AloneStep, FifoStep
<1>3. Spec => IsFifo
  BY RingIsFifo
<1>4. Alone => ~spoilt
  BY DEF Alone
<1> QED
  BY <1>1, <1>2, <1>3, <1>4, PTL DEF Spec, IsFifo, Bounded!Spec

=============================================================================
