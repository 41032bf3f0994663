-------------------------- MODULE PQChannelProofs --------------------------
(***************************************************************************)
(* Theorems about the sequenced queues, for any number of messages and any *)
(* bounds: that a message is in the queue or the archive until it has been *)
(* received, and that a sender and a receiver over a network that loses,   *)
(* repeats and reorders are a sequenced channel.                           *)
(*                                                                         *)
(* First, lemmas about the operators of ZmPQueue: what each does to the    *)
(* items of a queue, its head and its tail, for any queue and any item.    *)
(***************************************************************************)
EXTENDS PQChannel, WellFoundedInduction, SequenceTheorems, TLAPS

-----------------------------------------------------------------------------
(* Numbers: a set of naturals has a least element, a bounded one a greatest. *)

LEMMA LeastExists ==
  ASSUME NEW S \in SUBSET Nat, S # {}
  PROVE  \E m \in S : \A n \in S : m <= n
<1>1. PICK m \in S : \A n \in S : ~(<<n, m>> \in OpToRel(<, Nat))
  BY NatLessThanWellFounded, WFMin, Zenon
<1>2. \A n \in S : ~(n < m)
  BY <1>1 DEF OpToRel
<1> QED
  BY <1>2

LEMMA GreatestExists ==
  ASSUME NEW S \in SUBSET Nat, S # {}, NEW b \in Nat, \A n \in S : n <= b
  PROVE  \E m \in S : \A n \in S : n <= m
<1> DEFINE T == {n \in Nat : \A s \in S : s <= n}
<1>1. b \in T
  OBVIOUS
<1>2. PICK m \in T : \A n \in T : m <= n
  BY <1>1, LeastExists
<1>3. CASE m \in S
  BY <1>2, <1>3
<1>4. CASE m \notin S
  <2>1. \A s \in S : s <= m /\ s # m
    BY <1>2, <1>4
  <2>2. m > 0
    <3>1. PICK s \in S : s <= m /\ s # m
      BY <2>1
    <3> QED
      BY <3>1
  <2>3. m - 1 \in Nat /\ \A s \in S : s <= m - 1
    BY <2>1, <2>2
  <2>4. m <= m - 1
    BY <1>2, <2>3
  <2> QED
    BY <2>4, <2>2
<1> QED
  BY <1>3, <1>4

LEMMA MaxIs ==
  ASSUME NEW S \in SUBSET Nat, S # {}, NEW b \in Nat, \A n \in S : n <= b
  PROVE  Max(S) \in S /\ \A n \in S : n <= Max(S)
<1>1. \E m \in S : \A n \in S : m >= n
  BY GreatestExists
<1>2. Max(S) \in S /\ \A n \in S : Max(S) >= n
  BY <1>1 DEF Max
<1> QED
  BY <1>2

LEMMA MinIs ==
  ASSUME NEW S \in SUBSET Nat, S # {}
  PROVE  Min(S) \in S /\ \A n \in S : Min(S) <= n
<1>1. \E m \in S : \A n \in S : m <= n
  BY LeastExists
<1> QED
  BY <1>1 DEF Min

LEMMA MaxOfTwo ==
  ASSUME NEW a \in Nat, NEW b \in Nat
  PROVE  Max({a, b}) = IF a >= b THEN a ELSE b
<1>1. \E m \in {a, b} : \A n \in {a, b} : m >= n
  OBVIOUS
<1>2. Max({a, b}) \in {a, b} /\ \A n \in {a, b} : Max({a, b}) >= n
  BY <1>1 DEF Max
<1> QED
  BY <1>2

LEMMA MinOfTwo ==
  ASSUME NEW a \in Nat, NEW b \in Nat
  PROVE  Min({a, b}) = IF a <= b THEN a ELSE b
<1>1. \E m \in {a, b} : \A n \in {a, b} : m <= n
  OBVIOUS
<1>2. Min({a, b}) \in {a, b} /\ \A n \in {a, b} : Min({a, b}) <= n
  BY <1>1 DEF Min
<1> QED
  BY <1>2

-----------------------------------------------------------------------------
(* Items *)

LEMMA ItemFields ==
  ASSUME NEW i \in Item
  PROVE  /\ i.key \in Nat /\ i.len \in Nat /\ i.gap \in BOOLEAN /\ End(i) = i.key + i.len /\ End(i) \in Nat
         /\ i = [key |-> i.key, len |-> i.len, gap |-> i.gap]
  BY DEF Item, End

\* An item that clips itself, or cannot overlap another in part: it never has to be clipped.
Fits(i) == Clips = TRUE \/ i.len = 1

\* A set of such items no two of which overlap.
Separate(items) ==
  /\ items \subseteq Item
  /\ \A i \in items : i.len > 0 /\ Fits(i)
  /\ \A i, j \in items : i # j => End(i) <= j.key \/ End(j) <= i.key

LEMMA SeparateKeys ==
  ASSUME NEW items, Separate(items), NEW i \in items, NEW j \in items
  PROVE  /\ i.key = j.key => i = j
         /\ i.key < j.key => End(i) <= j.key
<1>1. i \in Item /\ j \in Item /\ i.len > 0 /\ j.len > 0
  BY DEF Separate
<1> QED
  BY <1>1, ItemFields DEF Separate

LEMMA FirstIs ==
  ASSUME NEW items \in SUBSET Item, items # {}
  PROVE  First(items) \in items /\ \A j \in items : First(items).key <= j.key
<1> DEFINE S == {i.key : i \in items}
<1>1. S \in SUBSET Nat /\ S # {}
  BY ItemFields
<1>2. PICK m \in S : \A n \in S : m <= n
  BY <1>1, LeastExists
<1>3. \E i \in items : \A j \in items : i.key <= j.key
  BY <1>2
<1> QED
  BY <1>3 DEF First

LEMMA LastIs ==
  ASSUME NEW items \in SUBSET Item, items # {}, NEW b \in Nat, \A i \in items : i.key <= b
  PROVE  Last(items) \in items /\ \A j \in items : j.key <= Last(items).key
<1> DEFINE S == {i.key : i \in items}
<1>1. S \in SUBSET Nat /\ S # {} /\ \A n \in S : n <= b
  BY ItemFields
<1>2. PICK m \in S : \A n \in S : n <= m
  BY <1>1, GreatestExists
<1>3. \E i \in items : \A j \in items : i.key >= j.key
  BY <1>1, <1>2
<1>4. Last(items) \in items /\ \A j \in items : Last(items).key >= j.key
  BY <1>3 DEF Last
<1> QED
  BY <1>4, ItemFields

-----------------------------------------------------------------------------
(* What the queue does with an item.  Lemmas about it assume what          *)
(* ZmPQueue.hpp:85-88 asks for: items clip themselves, or never overlap in *)
(* part, as when each is of one number.                                    *)

LEMMA ClipHeadIs ==
  ASSUME Clips = TRUE, NEW i \in Item, NEW n \in Nat, n <= i.len
  PROVE  /\ ClipHead(i, n) \in Item /\ ClipHead(i, n).key = i.key + n /\ ClipHead(i, n).gap = i.gap
         /\ ClipHead(i, n).len = i.len - n /\ End(ClipHead(i, n)) = End(i)
<1>1. i.key \in Nat /\ i.len \in Nat /\ i.gap \in BOOLEAN /\ i = [key |-> i.key, len |-> i.len, gap |-> i.gap]
  BY ItemFields
<1>2. ClipHead(i, n) = [key |-> i.key + n, len |-> i.len - n, gap |-> i.gap]
  BY <1>1 DEF ClipHead
<1>3. i.len - n \in Nat /\ i.key + n \in Nat
  BY <1>1
<1> QED
  BY <1>1, <1>2, <1>3 DEF Item, End

LEMMA ClipTailIs ==
  ASSUME Clips = TRUE, NEW i \in Item, NEW n \in Nat, n <= i.len
  PROVE  /\ ClipTail(i, n) \in Item /\ ClipTail(i, n).key = i.key /\ ClipTail(i, n).gap = i.gap
         /\ ClipTail(i, n).len = i.len - n /\ End(ClipTail(i, n)) = End(i) - n
<1>1. i.key \in Nat /\ i.len \in Nat /\ i.gap \in BOOLEAN /\ i = [key |-> i.key, len |-> i.len, gap |-> i.gap]
  BY ItemFields
<1>2. ClipTail(i, n) = [key |-> i.key, len |-> i.len - n, gap |-> i.gap]
  BY <1>1 DEF ClipTail
<1>3. i.len - n \in Nat
  BY <1>1
<1> QED
  BY <1>1, <1>2, <1>3 DEF Item, End

\* An item that is, or is left of, another.
Piece(i, j) ==
  /\ i \in Item /\ i.len > 0 /\ i.gap = j.gap
  /\ j.key <= i.key /\ End(i) <= End(j)

LEMMA PieceItself ==
  ASSUME NEW i \in Item, i.len > 0
  PROVE  Piece(i, i)
  BY ItemFields DEF Piece

LEMMA PieceOfPiece ==
  ASSUME NEW i, NEW j, NEW k \in Item, Piece(i, j), Piece(j, k)
  PROVE  Piece(i, k)
  BY ItemFields DEF Piece

\* What Overwrite leaves: what lies outside of the numbers overwritten, and the rest of the
\* item that reaches beyond them.
LEMMA OverwriteIs ==
  ASSUME NEW items, Separate(items), NEW from \in Nat, NEW to \in Nat, from < to
  PROVE  /\ Separate(Overwrite(items, from, to))
         /\ \A i \in Overwrite(items, from, to) :
              \/ i \in items /\ (i.key < from \/ i.key >= to)
              \/ i.key = to /\ \E o \in items : Piece(i, o) /\ from <= o.key /\ o.key < to
         /\ \A j \in items : End(j) > to => \E i \in Overwrite(items, from, to) : End(i) = End(j)
<1> DEFINE within == {i \in items : from <= i.key /\ i.key < to}
           over == {i \in within : End(i) > to}
           R == Overwrite(items, from, to)
<1>1. \A i \in items : i \in Item /\ i.len > 0 /\ i.key \in Nat /\ i.len \in Nat /\ End(i) = i.key + i.len
  BY ItemFields DEF Separate
<1>2. CASE over = {}
  <2>1. R = items \ within
    BY <1>2 DEF Overwrite
  <2>2. Separate(R)
    BY <2>1 DEF Separate
  <2>3. \A i \in R : i \in items /\ (i.key < from \/ i.key >= to)
    BY <1>1, <2>1
  <2>4. \A j \in items : j \notin within => j \in R
    BY <2>1
  <2>5. ASSUME NEW j \in items, End(j) > to PROVE \E i \in R : End(i) = End(j)
    <3>1. CASE j \in within
      BY <1>2, <2>5, <3>1
    <3>2. CASE j \notin within
      BY <2>4, <3>2
    <3> QED
      BY <3>1, <3>2
  <2> QED
    BY <2>2, <2>3, <2>5
<1>3. CASE over # {}
  <2>0. over \in SUBSET Item
    BY <1>1
  <2> DEFINE o == First(over)
             c == ClipHead(o, to - o.key)
             rest == {i \in items \ {o} : i.key < from \/ i.key > o.key}
  <2>1. o \in over
    <3> HIDE DEF over
    <3> QED
      BY <1>3, <2>0, FirstIs
  <2>2. o \in items /\ from <= o.key /\ o.key < to /\ to < End(o) /\ o \in Item /\ o.key \in Nat /\ o.len \in Nat
        /\ End(o) = o.key + o.len
    BY <1>1, <2>1
  <2>3. R = rest \cup {c}
    BY <1>3 DEF Overwrite
  <2> HIDE DEF o
  <2>4. to - o.key \in Nat /\ to - o.key <= o.len /\ o.key + (to - o.key) = to
    BY <2>2
  <2>a. Clips = TRUE
    BY <2>2 DEF Separate, Fits
  <2>5. c \in Item /\ c.key = to /\ c.gap = o.gap /\ c.len = o.len - (to - o.key) /\ End(c) = End(o)
    BY <2>2, <2>4, <2>a, ClipHeadIs
  <2>6. c.len > 0
    BY <2>2, <2>4, <2>5
  <2> HIDE DEF c
  <2>7. Piece(c, o)
    BY <2>2, <2>5, <2>6 DEF Piece
  <2>8. \A i \in rest : i \in items /\ i # o /\ (i.key < from \/ i.key >= to) /\ (End(i) <= o.key \/ End(c) <= i.key)
    <3> SUFFICES ASSUME NEW i \in items, i # o, i.key < from \/ i.key > o.key
                 PROVE  (i.key < from \/ i.key >= to) /\ (End(i) <= o.key \/ End(c) <= i.key)
      OBVIOUS
    <3>1. i.key \in Nat /\ End(i) \in Nat /\ i.key <= End(i)
      BY <1>1
    <3>2. End(i) <= o.key \/ End(o) <= i.key
      BY <2>2 DEF Separate
    <3> QED
      BY <2>2, <2>5, <3>1, <3>2
  <2>9. Separate(R)
    <3>1. \A i \in rest : End(i) <= c.key \/ End(c) <= i.key
      <4> SUFFICES ASSUME NEW i \in rest, End(i) <= o.key PROVE End(i) <= c.key
        BY <2>8
      <4> QED
        BY <1>1, <2>2, <2>5, <2>8
    <3> QED
      BY <1>1, <2>3, <2>5, <2>6, <2>8, <2>a, <3>1 DEF Separate, Fits
  <2>10. \A i \in R : \/ i \in items /\ (i.key < from \/ i.key >= to)
                      \/ i.key = to /\ \E p \in items : Piece(i, p) /\ from <= p.key /\ p.key < to
    BY <2>2, <2>3, <2>5, <2>7, <2>8
  <2>11. ASSUME NEW j \in items, End(j) > to PROVE \E i \in R : End(i) = End(j)
    <3>1. CASE j = o
      BY <2>3, <2>5, <3>1
    <3>2. CASE j # o
      <4>1. End(j) <= o.key \/ End(o) <= j.key
        BY <2>2, <3>2 DEF Separate
      <4>2. j.key > o.key
        BY <1>1, <2>2, <2>11, <4>1
      <4>3. j \in rest
        BY <3>2, <4>2
      <4> QED
        BY <2>3, <4>3
    <3> QED
      BY <3>1, <3>2
  <2> QED
    BY <2>9, <2>10, <2>11
<1> QED
  BY <1>2, <1>3

QueueOK(q) ==
  /\ q \in [head : Nat, tail : Nat, items : SUBSET Item]
  /\ q.head <= q.tail
  /\ Separate(q.items)
  /\ \A i \in q.items : q.head <= i.key /\ End(i) <= q.tail

TightQueue(q) == q.tail = q.head \/ \E i \in q.items : End(i) = q.tail

Pieces(items, q, m) == \A i \in items : Piece(i, m) \/ \E j \in q.items : Piece(i, j)

LEMMA QueueItems ==
  ASSUME NEW q, QueueOK(q), NEW i \in q.items
  PROVE  /\ i \in Item /\ i.key \in Nat /\ i.len \in Nat /\ i.len > 0 /\ End(i) = i.key + i.len /\ End(i) \in Nat
         /\ q.head <= i.key /\ End(i) <= q.tail /\ Piece(i, i)
  BY ItemFields, PieceItself DEF QueueOK, Separate

LEMMA QueueIsDisjoint ==
  ASSUME NEW q, QueueOK(q)
  PROVE  Disjoint(q)
  BY DEF QueueOK, Disjoint, Separate

LEMMA PrecedingIs ==
  ASSUME NEW items, Separate(items), NEW key \in Nat
  PROVE  \/ Preceding(items, key) = {} /\ \A i \in items : i.key >= key
         \/ \E p \in items : /\ Preceding(items, key) = {p} /\ p.key < key
                             /\ \A i \in items : i.key < key => i.key <= p.key
<1> DEFINE s == {i \in items : i.key < key}
<1>0. \A i \in items : i \in Item /\ i.key \in Nat
  BY ItemFields DEF Separate
<1>1. CASE s = {}
  BY <1>0, <1>1 DEF Preceding
<1>2. CASE s # {}
  <2>1. s \in SUBSET Item /\ \A i \in s : i.key <= key
    BY <1>0
  <2>2. Last(s) \in s /\ \A i \in s : i.key <= Last(s).key
    BY <1>2, <2>1, LastIs
  <2>3. Preceding(items, key) = {Last(s)}
    BY <1>2 DEF Preceding
  <2> QED
    BY <2>2, <2>3
<1> QED
  BY <1>1, <1>2

LEMMA AtOrAfterIs ==
  ASSUME NEW items, Separate(items), NEW key \in Nat
  PROVE  \/ AtOrAfter(items, key) = {} /\ \A i \in items : i.key < key
         \/ \E p \in items : /\ AtOrAfter(items, key) = {p} /\ p.key >= key
                             /\ \A i \in items : i.key >= key => i.key >= p.key
<1> DEFINE s == {i \in items : i.key >= key}
<1>0. \A i \in items : i \in Item /\ i.key \in Nat
  BY ItemFields DEF Separate
<1>1. CASE s = {}
  BY <1>0, <1>1 DEF AtOrAfter
<1>2. CASE s # {}
  <2>1. s \in SUBSET Item
    BY <1>0
  <2>2. First(s) \in s /\ \A i \in s : First(s).key <= i.key
    BY <1>2, <2>1, FirstIs
  <2>3. AtOrAfter(items, key) = {First(s)}
    BY <1>2 DEF AtOrAfter
  <2> QED
    BY <1>0, <2>2, <2>3
<1> QED
  BY <1>1, <1>2

\* What an item finds when it goes between its neighbours.
Neighbours(q, key, prev) ==
  (q.items \ prev) \cup {IF End(i) > key THEN ClipTail(i, End(i) - key) ELSE i : i \in prev}

LEMMA NeighboursClipped ==
  ASSUME NEW q, QueueOK(q), NEW key \in Nat, NEW prev, NEW items1,
         \/ prev = {} /\ \A i \in q.items : i.key < key => End(i) <= key
         \/ prev = Preceding(q.items, key),
         items1 = Neighbours(q, key, prev)
  PROVE  /\ Separate(items1)
         /\ \A i \in items1 : /\ q.head <= i.key /\ End(i) <= q.tail
                              /\ \E j \in q.items : Piece(i, j)
                              /\ i.key < key => End(i) <= key
         /\ \A j \in q.items : j.key >= key \/ j \in prev \/ j \in items1
         /\ \A j \in q.items : j.key >= key => j \in items1
<1>0. Separate(q.items)
  BY DEF QueueOK
<1>a. \A i \in q.items : /\ i \in Item /\ i.key \in Nat /\ i.len \in Nat /\ i.len > 0 /\ End(i) = i.key + i.len
                         /\ End(i) \in Nat /\ q.head <= i.key /\ End(i) <= q.tail /\ Piece(i, i)
  BY QueueItems
<1>1. ASSUME prev = {}, \A i \in q.items : i.key < key => End(i) <= key
      PROVE  /\ Separate(items1)
             /\ \A i \in items1 : /\ q.head <= i.key /\ End(i) <= q.tail
                                  /\ \E j \in q.items : Piece(i, j)
                                  /\ i.key < key => End(i) <= key
             /\ \A j \in q.items : j \in items1
  <2>1. items1 = q.items
    BY <1>1 DEF Neighbours
  <2> QED
    BY <1>0, <1>1, <1>a, <2>1
<1>2. ASSUME NEW p \in q.items, prev = {p}, p.key < key, \A i \in q.items : i.key < key => i.key <= p.key
      PROVE  /\ Separate(items1)
             /\ \A i \in items1 : /\ q.head <= i.key /\ End(i) <= q.tail
                                  /\ \E j \in q.items : Piece(i, j)
                                  /\ i.key < key => End(i) <= key
             /\ \A j \in q.items : j # p => j \in items1
  <2> DEFINE k == IF End(p) > key THEN ClipTail(p, End(p) - key) ELSE p
  <2>1. items1 = (q.items \ {p}) \cup {k}
    BY <1>2 DEF Neighbours
  <2>2. k \in Item /\ k.key = p.key /\ k.gap = p.gap /\ k.len > 0 /\ Fits(k) /\ End(k) <= key /\ End(k) <= End(p)
    <3>0. Fits(p)
      BY <1>0 DEF Separate
    <3>1. CASE End(p) > key
      <4>1. End(p) - key \in Nat /\ End(p) - key <= p.len /\ End(p) - (End(p) - key) = key /\ p.len - (End(p) - key) > 0
        BY <1>2, <1>a, <3>1
      <4>2. k = ClipTail(p, End(p) - key)
        BY <3>1
      <4>a. Clips = TRUE
        BY <1>2, <1>a, <3>0, <3>1 DEF Fits
      <4> HIDE DEF k
      <4>3. k \in Item /\ k.key = p.key /\ k.gap = p.gap /\ k.len = p.len - (End(p) - key) /\ End(k) = End(p) - (End(p) - key)
        BY <1>a, <4>1, <4>2, <4>a, ClipTailIs
      <4> QED
        BY <1>a, <3>1, <4>1, <4>3, <4>a DEF Fits
    <3>2. CASE ~(End(p) > key)
      BY <1>a, <3>0, <3>2
    <3> QED
      BY <3>1, <3>2
  <2> HIDE DEF k
  <2>3. Piece(k, p) /\ End(k) \in Nat /\ k.key \in Nat
    BY <1>a, <2>2, ItemFields DEF Piece
  <2>4. \A i \in q.items : i # p => End(i) <= k.key \/ End(k) <= i.key
    <3> SUFFICES ASSUME NEW i \in q.items, i # p, End(p) <= i.key PROVE End(k) <= i.key
      BY <1>0, <2>2 DEF Separate
    <3> QED
      BY <1>a, <2>2, <2>3
  <2>5. Separate(items1)
    BY <1>0, <2>1, <2>2, <2>4 DEF Separate
  <2>6. \A i \in q.items : i # p /\ i.key < key => End(i) <= key
    <3> SUFFICES ASSUME NEW i \in q.items, i # p, i.key < key PROVE End(i) <= key
      OBVIOUS
    <3>1. i.key <= p.key /\ i.key # p.key
      BY <1>0, <1>2, SeparateKeys
    <3>2. i.key < p.key
      BY <1>a, <3>1
    <3>3. End(i) <= p.key
      BY <1>0, <3>2, SeparateKeys
    <3> QED
      BY <1>2, <1>a, <3>3
  <2>7. \A i \in items1 : /\ q.head <= i.key /\ End(i) <= q.tail
                          /\ \E j \in q.items : Piece(i, j)
                          /\ i.key < key => End(i) <= key
    <3> SUFFICES ASSUME NEW i \in items1
                 PROVE  /\ q.head <= i.key /\ End(i) <= q.tail
                        /\ \E j \in q.items : Piece(i, j)
                        /\ i.key < key => End(i) <= key
      OBVIOUS
    <3>1. CASE i = k
      <4>1. q.head <= k.key
        BY <1>a, <2>2
      <4>2. End(k) <= q.tail
        <5>1. q.tail \in Nat
          BY DEF QueueOK
        <5> QED
          BY <1>a, <2>2, <2>3, <5>1
      <4> QED
        BY <2>2, <2>3, <3>1, <4>1, <4>2
    <3>2. CASE i \in q.items /\ i # p
      BY <1>a, <2>6, <3>2
    <3> QED
      BY <2>1, <3>1, <3>2
  <2> QED
    BY <2>1, <2>5, <2>7
<1>3. CASE prev = {} /\ \A i \in q.items : i.key < key => End(i) <= key
  BY <1>1, <1>3
<1>4. CASE prev = Preceding(q.items, key)
  <2>1. CASE Preceding(q.items, key) = {} /\ \A i \in q.items : i.key >= key
    <3>1. \A i \in q.items : ~(i.key < key)
      BY <1>a, <2>1
    <3> QED
      BY <1>1, <1>4, <2>1, <3>1
  <2>2. CASE \E p \in q.items : /\ Preceding(q.items, key) = {p} /\ p.key < key
                                /\ \A i \in q.items : i.key < key => i.key <= p.key
    <3>1. PICK p \in q.items : /\ Preceding(q.items, key) = {p} /\ p.key < key
                               /\ \A i \in q.items : i.key < key => i.key <= p.key
      BY <2>2
    <3>2. ~(p.key >= key)
      BY <1>a, <3>1
    <3> QED
      BY <1>2, <1>4, <3>1, <3>2
  <2> QED
    BY <1>0, <2>1, <2>2, PrecedingIs
<1> QED
  BY <1>3, <1>4

LEMMA InsertIs ==
  ASSUME NEW q, QueueOK(q), NEW m \in Item, m.len > 0, Fits(m), q.head < m.key
  PROVE  LET r == InsertBetween(q, m)
         IN /\ QueueOK(r) /\ r.head = q.head
            /\ r.tail = IF End(m) > q.tail THEN End(m) ELSE q.tail
            /\ Pieces(r.items, q, m)
            /\ TightQueue(q) => TightQueue(r)
<1> DEFINE next == AtOrAfter(q.items, m.key)
           same == {i \in next : i.key = m.key}
           prev == IF same = {} THEN Preceding(q.items, m.key) ELSE {}
           items1 == Neighbours(q, m.key, prev)
           W == Overwrite(items1, m.key, End(m))
           tail == Max({q.tail, End(m)})
           s == [q EXCEPT !.items = W \cup {m}, !.tail = tail]
           r == InsertBetween(q, m)
<1>0. /\ Separate(q.items) /\ q.head \in Nat /\ q.tail \in Nat /\ q.head <= q.tail
      /\ q \in [head : Nat, tail : Nat, items : SUBSET Item]
  BY DEF QueueOK
<1>1. m.key \in Nat /\ m.len \in Nat /\ End(m) = m.key + m.len /\ End(m) \in Nat /\ m.key < End(m) /\ Piece(m, m)
  BY ItemFields, PieceItself
<1>2. \A i \in q.items : /\ i \in Item /\ i.key \in Nat /\ End(i) \in Nat /\ q.head <= i.key /\ End(i) <= q.tail /\ Piece(i, i)
  BY QueueItems
<1>3. r = IF \E i \in same \cup prev : End(i) >= End(m) THEN q ELSE s
  BY DEF InsertBetween, Neighbours
<1>4. tail = IF End(m) > q.tail THEN End(m) ELSE q.tail
  BY <1>0, <1>1, MaxOfTwo
<1>5. same \subseteq q.items /\ \A i \in same : i.key = m.key
  BY <1>0, <1>1, AtOrAfterIs
<1>6. prev \subseteq q.items
  BY <1>0, <1>1, PrecedingIs
<1>7. \/ prev = {} /\ \A i \in q.items : i.key < m.key => End(i) <= m.key
      \/ prev = Preceding(q.items, m.key)
  <2>1. CASE same = {}
    BY <2>1
  <2>2. CASE same # {}
    <3>1. PICK n \in same : TRUE
      BY <2>2
    <3>2. n \in q.items /\ n.key = m.key
      BY <1>5
    <3>3. \A i \in q.items : i.key < m.key => End(i) <= m.key
      BY <1>0, <3>2, SeparateKeys
    <3> QED
      BY <2>2, <3>3
  <2> QED
    BY <2>1, <2>2
<1> HIDE DEF same, prev
<1>8. /\ Separate(items1)
      /\ \A i \in items1 : /\ q.head <= i.key /\ End(i) <= q.tail
                           /\ \E j \in q.items : Piece(i, j)
                           /\ i.key < m.key => End(i) <= m.key
      /\ \A j \in q.items : j.key >= m.key \/ j \in prev \/ j \in items1
      /\ \A j \in q.items : j.key >= m.key => j \in items1
  BY <1>1, <1>7, NeighboursClipped
<1> HIDE DEF items1, tail, next
<1>9. CASE \E i \in same \cup prev : End(i) >= End(m)
  <2>1. r = q
    BY <1>3, <1>9
  <2>2. ~(End(m) > q.tail)
    <3>1. PICK i \in same \cup prev : End(i) >= End(m)
      BY <1>9
    <3>2. i \in q.items
      BY <1>5, <1>6
    <3> QED
      BY <1>0, <1>1, <1>2, <3>1, <3>2
  <2>3. Pieces(q.items, q, m)
    BY <1>2 DEF Pieces
  <2> HIDE DEF r
  <2> QED
    BY <2>1, <2>2, <2>3 DEF r
<1>10. CASE ~\E i \in same \cup prev : End(i) >= End(m)
  <2>1. r = s
    BY <1>3, <1>10
  <2>2. /\ Separate(W)
        /\ \A i \in W : \/ i \in items1 /\ (i.key < m.key \/ i.key >= End(m))
                        \/ i.key = End(m) /\ \E o \in items1 : Piece(i, o) /\ m.key <= o.key /\ o.key < End(m)
        /\ \A j \in items1 : End(j) > End(m) => \E i \in W : End(i) = End(j)
    BY <1>1, <1>8, OverwriteIs
  <2> HIDE DEF W
  <2>3. \A i \in items1 : i \in Item /\ i.key \in Nat /\ End(i) \in Nat
    BY <1>8, ItemFields DEF Separate
  <2>4. \A i \in W : i \in Item /\ i.key \in Nat /\ End(i) \in Nat
    BY <2>2, ItemFields DEF Separate
  <2>5. \A i \in W : /\ q.head <= i.key /\ End(i) <= q.tail /\ (End(i) <= m.key \/ End(m) <= i.key)
                     /\ \E j \in q.items : Piece(i, j)
    <3> SUFFICES ASSUME NEW i \in W
                 PROVE  /\ q.head <= i.key /\ End(i) <= q.tail /\ (End(i) <= m.key \/ End(m) <= i.key)
                        /\ \E j \in q.items : Piece(i, j)
      OBVIOUS
    <3>1. CASE i \in items1 /\ (i.key < m.key \/ i.key >= End(m))
      BY <1>1, <1>8, <2>3, <3>1
    <3>2. CASE i.key = End(m) /\ \E o \in items1 : Piece(i, o)
      <4>1. PICK o \in items1 : Piece(i, o)
        BY <3>2
      <4>2. PICK j \in q.items : Piece(o, j)
        BY <1>8
      <4>3. Piece(i, j)
        BY <1>2, <4>1, <4>2, PieceOfPiece
      <4>4. End(i) <= q.tail
        BY <1>0, <1>8, <2>3, <2>4, <4>1 DEF Piece
      <4> QED
        BY <1>0, <1>1, <3>2, <4>3, <4>4
    <3> QED
      BY <2>2, <3>1, <3>2
  <2>6. s.head = q.head /\ s.tail = tail /\ s.items = W \cup {m} /\ s \in [head : Nat, tail : Nat, items : SUBSET Item]
    BY <1>0, <1>1, <1>4, <2>4
  <2>7. Separate(W \cup {m})
    BY <1>1, <2>2, <2>5 DEF Separate
  <2> HIDE DEF s
  <2>8. QueueOK(s)
    <3>1. s.head <= s.tail
      BY <1>0, <1>1, <1>4, <2>6
    <3>2. \A i \in W \cup {m} : q.head <= i.key /\ End(i) <= tail
      BY <1>0, <1>1, <1>4, <2>4, <2>5
    <3> QED
      BY <2>6, <2>7, <3>1, <3>2 DEF QueueOK
  <2>9. Pieces(s.items, q, m)
    BY <1>1, <2>5, <2>6 DEF Pieces
  <2>10. ASSUME TightQueue(q) PROVE TightQueue(s)
    <3>1. CASE End(m) > q.tail
      BY <1>4, <2>6, <3>1 DEF TightQueue
    <3>2. CASE ~(End(m) > q.tail)
      <4>1. q.tail # q.head
        BY <1>0, <1>1, <3>2
      <4>2. PICK j \in q.items : End(j) = q.tail
        BY <2>10, <4>1 DEF TightQueue
      <4>3. CASE End(j) = End(m)
        BY <1>4, <2>6, <3>2, <4>2, <4>3 DEF TightQueue
      <4>4. CASE End(j) # End(m)
        <5>1. End(j) > End(m) /\ End(j) >= End(m)
          BY <1>0, <1>1, <1>2, <3>2, <4>2, <4>4
        <5>2. j \notin prev
          BY <1>10, <5>1
        <5>3. j \in items1
          BY <1>8, <5>2
        <5>4. \E i \in W : End(i) = End(j)
          BY <2>2, <5>1, <5>3
        <5> QED
          BY <1>4, <2>6, <3>2, <4>2, <5>4 DEF TightQueue
      <4> QED
        BY <4>3, <4>4
    <3> QED
      BY <3>1, <3>2
  <2> HIDE DEF r
  <2> QED
    BY <1>4, <2>1, <2>6, <2>8, <2>9, <2>10 DEF r
<1> QED
  BY <1>9, <1>10

\* enqueue() and rotate().
LEMMA PutIs ==
  ASSUME NEW q, QueueOK(q), NEW m \in Item, m.len > 0, Fits(m), NEW rotate \in BOOLEAN
  PROVE  LET r == Put(q, m, rotate)
         IN /\ QueueOK(r.queue)
            /\ q.tail <= r.queue.tail /\ (r.queue.tail = q.tail \/ r.queue.tail = End(m))
            /\ Pieces(r.queue.items, q, m)
            /\ TightQueue(q) => TightQueue(r.queue)
            /\ \/ r.out = {} /\ r.queue.head = q.head
               \/ rotate /\ \E c : r.out = {c} /\ Piece(c, m) /\ c.key = q.head /\ r.queue.head = End(c)
<1> DEFINE c == IF m.key < q.head THEN ClipHead(m, q.head - m.key) ELSE m
           tail == Max({q.tail, End(m)})
           rest == Overwrite(q.items, 0, End(m))
           r == Put(q, m, rotate)
<1>0. /\ Separate(q.items) /\ q.head \in Nat /\ q.tail \in Nat /\ q.head <= q.tail
      /\ q \in [head : Nat, tail : Nat, items : SUBSET Item]
  BY DEF QueueOK
<1>1. m.key \in Nat /\ m.len \in Nat /\ End(m) = m.key + m.len /\ End(m) \in Nat /\ Piece(m, m)
  BY ItemFields, PieceItself
<1>2. tail = IF End(m) > q.tail THEN End(m) ELSE q.tail
  BY <1>0, <1>1, MaxOfTwo
<1>a. \A i \in q.items : i \in Item /\ i.key \in Nat /\ End(i) \in Nat /\ q.head <= i.key /\ End(i) <= q.tail /\ Piece(i, i)
  BY QueueItems
<1>3. CASE End(m) <= q.head
  <2>1. r = [queue |-> q, out |-> {}]
    BY <1>3 DEF Put
  <2>2. Pieces(q.items, q, m)
    BY <1>a DEF Pieces
  <2>3. r.queue = q /\ r.out = {}
    BY <2>1
  <2> HIDE DEF r
  <2> QED
    BY <1>0, <2>2, <2>3 DEF r
<1>4. CASE ~(End(m) <= q.head)
  <2>1. /\ c \in Item /\ c.gap = m.gap /\ End(c) = End(m) /\ c.len > 0 /\ c.len # 0 /\ Fits(c)
        /\ c.key = IF m.key < q.head THEN q.head ELSE m.key
    <3>1. CASE m.key < q.head
      <4>1. q.head - m.key \in Nat /\ q.head - m.key <= m.len /\ m.key + (q.head - m.key) = q.head /\ m.len - (q.head - m.key) > 0
        BY <1>0, <1>1, <1>4, <3>1
      <4>2. c = ClipHead(m, q.head - m.key)
        BY <3>1
      <4>3. Clips = TRUE
        BY <1>0, <1>1, <1>4, <3>1 DEF Fits
      <4> HIDE DEF c
      <4> QED
        BY <3>1, <4>1, <4>2, <4>3, ClipHeadIs DEF Fits
    <3>2. CASE ~(m.key < q.head)
      BY <1>1, <3>2
    <3> QED
      BY <3>1, <3>2
  <2>2. r = IF c.key # q.head THEN [queue |-> InsertBetween(q, c), out |-> {}]
            ELSE IF rotate THEN [queue |-> [head |-> End(m), tail |-> tail, items |-> rest], out |-> {c}]
            ELSE [queue |-> [q EXCEPT !.tail = tail, !.items = rest \cup {c}], out |-> {}]
    BY <1>4, <2>1 DEF Put
  <2>3. c.key # q.head => c = m /\ q.head < m.key
    BY <1>0, <1>1, <2>1
  <2> HIDE DEF c, tail, rest
  <2>4. Piece(c, m) /\ c.key \in Nat /\ c.len \in Nat
    BY <1>0, <1>1, <2>1, ItemFields DEF Piece
  <2>5. CASE c.key # q.head
    <3>1. r.queue = InsertBetween(q, m) /\ r.out = {}
      BY <2>2, <2>3, <2>5
    <3> HIDE DEF r
    <3>2. /\ QueueOK(r.queue) /\ r.queue.head = q.head
          /\ r.queue.tail = IF End(m) > q.tail THEN End(m) ELSE q.tail
          /\ Pieces(r.queue.items, q, m)
          /\ TightQueue(q) => TightQueue(r.queue)
      BY <2>3, <2>5, <3>1, InsertIs
    <3>3. q.tail <= r.queue.tail
      BY <1>0, <1>1, <3>2
    <3> QED
      BY <3>1, <3>2, <3>3 DEF r
  <2>6. CASE c.key = q.head
    <3>1. /\ Separate(rest)
          /\ \A i \in rest : \/ i \in q.items /\ (i.key < 0 \/ i.key >= End(m))
                             \/ i.key = End(m) /\ \E o \in q.items : Piece(i, o)
          /\ \A j \in q.items : End(j) > End(m) => \E i \in rest : End(i) = End(j)
      BY <1>0, <1>1, <1>4, OverwriteIs DEF rest
    <3>2. \A i \in rest : /\ i \in Item /\ i.key \in Nat /\ End(m) <= i.key /\ End(i) \in Nat /\ End(i) <= tail
                          /\ \E o \in q.items : Piece(i, o)
      <4> SUFFICES ASSUME NEW i \in rest
                   PROVE  /\ i \in Item /\ i.key \in Nat /\ End(m) <= i.key /\ End(i) \in Nat /\ End(i) <= tail
                          /\ \E o \in q.items : Piece(i, o)
        OBVIOUS
      <4>1. i \in Item /\ i.key \in Nat /\ End(i) \in Nat
        BY <3>1, ItemFields DEF Separate
      <4>2. PICK o \in q.items : Piece(i, o)
        BY <1>a, <3>1
      <4>3. End(m) <= i.key
        BY <1>1, <1>a, <3>1, <4>1
      <4>4. End(i) <= tail
        <5>1. End(i) <= End(o)
          BY <4>2 DEF Piece
        <5> QED
          BY <1>0, <1>1, <1>2, <1>a, <4>1, <5>1
      <4> QED
        BY <4>1, <4>2, <4>3, <4>4
    <3>3. ASSUME TightQueue(q), tail # End(m) PROVE \E i \in rest : End(i) = tail
      <4>1. tail = q.tail /\ q.tail > End(m) /\ q.tail # q.head
        BY <1>0, <1>1, <1>2, <1>4, <3>3
      <4>2. PICK j \in q.items : End(j) = q.tail
        BY <3>3, <4>1 DEF TightQueue
      <4> QED
        BY <3>1, <4>1, <4>2
    <3>4. tail \in Nat /\ q.tail <= tail /\ End(m) <= tail /\ (tail = q.tail \/ tail = End(m))
      BY <1>0, <1>1, <1>2
    <3>5. CASE rotate
      <4> DEFINE s == [head |-> End(m), tail |-> tail, items |-> rest]
      <4>1. r.queue = s /\ r.out = {c} /\ s.head = End(m) /\ s.tail = tail /\ s.items = rest
        BY <2>2, <2>6, <3>5
      <4>2. s \in [head : Nat, tail : Nat, items : SUBSET Item]
        BY <1>1, <3>2, <3>4
      <4> HIDE DEF s
      <4>3. QueueOK(s)
        BY <3>1, <3>2, <3>4, <4>1, <4>2 DEF QueueOK
      <4>4. TightQueue(q) => TightQueue(s)
        BY <3>3, <4>1 DEF TightQueue
      <4>5. Pieces(s.items, q, m)
        BY <3>2, <4>1 DEF Pieces
      <4> HIDE DEF r
      <4> QED
        BY <2>1, <2>4, <2>6, <3>4, <3>5, <4>1, <4>3, <4>4, <4>5 DEF r
    <3>6. CASE ~rotate
      <4> DEFINE s == [q EXCEPT !.tail = tail, !.items = rest \cup {c}]
      <4>1. r.queue = s /\ r.out = {}
        BY <2>2, <2>6, <3>6
      <4>2. s.head = q.head /\ s.tail = tail /\ s.items = rest \cup {c} /\ s \in [head : Nat, tail : Nat, items : SUBSET Item]
        BY <1>0, <2>1, <3>2, <3>4
      <4> HIDE DEF s
      <4>3. Separate(rest \cup {c})
        BY <2>1, <3>1, <3>2 DEF Separate
      <4>4. \A i \in rest \cup {c} : q.head <= i.key /\ End(i) <= tail
        BY <1>0, <1>1, <1>4, <2>1, <2>6, <3>2, <3>4
      <4>5. QueueOK(s)
        <5>1. q.head <= tail
          BY <1>0, <3>4
        <5> QED
          BY <4>2, <4>3, <4>4, <5>1 DEF QueueOK
      <4>6. TightQueue(q) => TightQueue(s)
        BY <2>1, <3>3, <4>2 DEF TightQueue
      <4>7. Pieces(s.items, q, m)
        BY <2>4, <3>2, <4>2 DEF Pieces
      <4> HIDE DEF r
      <4> QED
        BY <3>4, <4>1, <4>2, <4>5, <4>6, <4>7 DEF r
    <3> QED
      BY <3>5, <3>6
  <2> QED
    BY <2>5, <2>6
<1> QED
  BY <1>3, <1>4

LEMMA DequeueIs ==
  ASSUME NEW q, QueueOK(q)
  PROVE  LET r == Dequeue(q)
         IN /\ QueueOK(r.queue) /\ r.queue.tail = q.tail /\ r.queue.items \subseteq q.items
            /\ TightQueue(q) => TightQueue(r.queue)
            /\ \/ r.out = {} /\ r.queue = q
               \/ \E c \in q.items : r.out = {c} /\ c.key = q.head /\ r.queue.head = End(c)
<1> DEFINE r == Dequeue(q)
           f == First(q.items)
<1>0. /\ Separate(q.items) /\ q.head \in Nat /\ q.tail \in Nat /\ q.head <= q.tail
      /\ q \in [head : Nat, tail : Nat, items : SUBSET Item]
  BY DEF QueueOK
<1>1. CASE q.items # {} /\ f.key = q.head
  <2>1. f \in q.items /\ \A j \in q.items : f.key <= j.key
    BY <1>0, <1>1, FirstIs
  <2>2. r = [queue |-> [q EXCEPT !.head = End(f), !.items = @ \ {f}], out |-> {f}]
    BY <1>1 DEF Dequeue, Shift
  <2> DEFINE s == [q EXCEPT !.head = End(f), !.items = @ \ {f}]
  <2>3. f \in Item /\ f.key \in Nat /\ f.len > 0 /\ f.len \in Nat /\ End(f) = f.key + f.len /\ End(f) \in Nat /\ End(f) <= q.tail
    BY <2>1, QueueItems
  <2>4. s.head = End(f) /\ s.tail = q.tail /\ s.items = q.items \ {f} /\ r.queue = s /\ r.out = {f}
    BY <1>0, <2>2
  <2>5. s \in [head : Nat, tail : Nat, items : SUBSET Item]
    BY <1>0, <2>3
  <2>6. \A i \in q.items \ {f} : End(f) <= i.key /\ End(i) <= q.tail
    <3> SUFFICES ASSUME NEW i \in q.items, i # f PROVE End(f) <= i.key /\ End(i) <= q.tail
      OBVIOUS
    <3>1. f.key <= i.key /\ f.key # i.key /\ i.key \in Nat
      BY <1>0, <2>1, SeparateKeys, QueueItems
    <3>2. f.key < i.key
      BY <2>3, <3>1
    <3> QED
      BY <1>0, <2>1, <3>2, SeparateKeys, QueueItems
  <2>7. Separate(q.items \ {f})
    BY <1>0 DEF Separate
  <2> HIDE DEF s, r, f
  <2>8. QueueOK(s)
    BY <2>3, <2>4, <2>5, <2>6, <2>7 DEF QueueOK
  <2>9. TightQueue(q) => TightQueue(s)
    <3> SUFFICES ASSUME TightQueue(q) PROVE TightQueue(s)
      OBVIOUS
    <3>1. q.tail # q.head
      BY <1>0, <1>1, <2>3
    <3>2. PICK i \in q.items : End(i) = q.tail
      BY <3>1 DEF TightQueue
    <3> QED
      BY <2>4, <3>2 DEF TightQueue
  <2>10. \E c \in q.items : r.out = {c} /\ c.key = q.head /\ r.queue.head = End(c)
    BY <1>1, <2>1, <2>4
  <2> QED
    BY <2>4, <2>8, <2>9, <2>10 DEF r
<1>2. CASE ~(q.items # {} /\ f.key = q.head)
  <2>1. r = [queue |-> q, out |-> {}]
    BY <1>2 DEF Dequeue
  <2> QED
    BY <2>1
<1> QED
  BY <1>1, <1>2

\* head(key), when the queue is moved ahead.
LEMMA SetHeadIs ==
  ASSUME NEW q, QueueOK(q), NEW key \in Nat, q.head <= key
  PROVE  LET r == SetHead(q, key)
         IN /\ QueueOK(r) /\ r.head = key /\ q.tail <= r.tail /\ (r.tail = q.tail \/ r.tail = key)
            /\ \A i \in r.items : \E j \in q.items : Piece(i, j)
            /\ TightQueue(q) => TightQueue(r)
<1> DEFINE r == SetHead(q, key)
           W == Overwrite(q.items, 0, key)
           tail == Max({q.tail, key})
<1>0. /\ Separate(q.items) /\ q.head \in Nat /\ q.tail \in Nat /\ q.head <= q.tail
      /\ q \in [head : Nat, tail : Nat, items : SUBSET Item]
  BY DEF QueueOK
<1>a. \A i \in q.items : i \in Item /\ i.key \in Nat /\ End(i) \in Nat /\ q.head <= i.key /\ End(i) <= q.tail /\ Piece(i, i)
  BY QueueItems
<1>1. CASE key = q.head
  <2>1. r = q
    BY <1>1 DEF SetHead
  <2> QED
    BY <1>0, <1>1, <1>a, <2>1
<1>2. CASE key # q.head
  <2>1. r = [head |-> key, tail |-> tail, items |-> W]
    BY <1>0, <1>2 DEF SetHead
  <2>2. tail = IF q.tail >= key THEN q.tail ELSE key
    BY <1>0, MaxOfTwo
  <2>3. 0 < key
    BY <1>0, <1>2
  <2>4. /\ Separate(W)
        /\ \A i \in W : \/ i \in q.items /\ (i.key < 0 \/ i.key >= key)
                        \/ i.key = key /\ \E o \in q.items : Piece(i, o)
        /\ \A j \in q.items : End(j) > key => \E i \in W : End(i) = End(j)
    BY <1>0, <2>3, OverwriteIs
  <2> HIDE DEF W, tail
  <2>5. \A i \in W : i \in Item /\ key <= i.key /\ End(i) <= tail /\ \E o \in q.items : Piece(i, o)
    <3> SUFFICES ASSUME NEW i \in W PROVE i \in Item /\ key <= i.key /\ End(i) <= tail /\ \E o \in q.items : Piece(i, o)
      OBVIOUS
    <3>1. i \in Item /\ i.key \in Nat /\ End(i) \in Nat
      BY <2>4, ItemFields DEF Separate
    <3>2. PICK o \in q.items : Piece(i, o)
      BY <1>a, <2>4
    <3>3. key <= i.key
      BY <1>a, <2>4, <3>1
    <3>4. End(i) <= End(o)
      BY <3>2 DEF Piece
    <3>5. End(i) <= tail
      BY <1>0, <1>a, <2>2, <3>1, <3>4
    <3> QED
      BY <3>1, <3>2, <3>3, <3>5
  <2>6. tail \in Nat /\ q.tail <= tail /\ key <= tail /\ (tail = q.tail \/ tail = key)
    BY <1>0, <2>2
  <2>7. r.head = key /\ r.tail = tail /\ r.items = W /\ r \in [head : Nat, tail : Nat, items : SUBSET Item]
    BY <2>1, <2>5, <2>6
  <2> HIDE DEF r
  <2>8. QueueOK(r)
    BY <2>4, <2>5, <2>6, <2>7 DEF QueueOK
  <2>9. ASSUME TightQueue(q) PROVE TightQueue(r)
    <3>1. CASE tail = key
      BY <2>7, <3>1 DEF TightQueue
    <3>2. CASE tail # key
      <4>1. tail = q.tail /\ q.tail > key /\ q.tail # q.head
        BY <1>0, <2>2, <3>2
      <4>2. PICK j \in q.items : End(j) = q.tail
        BY <2>9, <4>1 DEF TightQueue
      <4>3. \E i \in W : End(i) = End(j)
        BY <2>4, <4>1, <4>2
      <4> QED
        BY <2>7, <4>1, <4>2, <4>3 DEF TightQueue
    <3> QED
      BY <3>1, <3>2
  <2> QED
    BY <2>5, <2>6, <2>7, <2>8, <2>9 DEF r
<1> QED
  BY <1>1, <1>2

\* gap(): what it finds ends at an item.
LEMMA FirstGapIs ==
  ASSUME NEW q, QueueOK(q), TightQueue(q)
  PROVE  LET g == FirstGap(q)
         IN /\ g \in Gap
            /\ g = NoGap \/ (g.len > 0 /\ q.head <= g.key /\ \E i \in q.items : End(g) <= i.key)
<1>0. q.head \in Nat /\ q.tail \in Nat /\ q.head <= q.tail /\ Separate(q.items)
  BY DEF QueueOK
<1> DEFINE S == {q.tail, q.head} \cup {End(i) : i \in q.items}
           Is(n) == /\ \A i \in q.items : ~(i.key <= n /\ n < End(i))
                    /\ \A m \in q.head..(n - 1) : \E i \in q.items : i.key <= m /\ m < End(i)
           start == CHOOSE n \in q.head..(Max(S) + 1) : Is(n)
           next == AtOrAfter(q.items, start)
           end == IF next # {} THEN First(next).key ELSE q.tail
<1>1. Max(S) \in Nat /\ q.tail <= Max(S)
  <2>1. S \in SUBSET Nat /\ S # {} /\ \A n \in S : n <= q.tail
    BY <1>0, QueueItems
  <2> HIDE DEF S
  <2>2. Max(S) \in S /\ \A n \in S : n <= Max(S)
    BY <1>0, <2>1, MaxIs
  <2> QED
    BY <2>1, <2>2 DEF S
<1>2. \E n \in q.head..(Max(S) + 1) : Is(n)
  <2> DEFINE U == {n \in Nat : q.head <= n /\ \A i \in q.items : ~(i.key <= n /\ n < End(i))}
  <2>1. q.tail \in U
    BY <1>0, QueueItems
  <2>2. PICK n \in U : \A m \in U : n <= m
    BY <2>1, LeastExists
  <2>3. \A m \in q.head..(n - 1) : \E i \in q.items : i.key <= m /\ m < End(i)
    <3> SUFFICES ASSUME NEW m \in q.head..(n - 1) PROVE m \notin U
      BY <1>0
    <3>1. ~(n <= m)
      BY <1>0
    <3> QED
      BY <2>2, <3>1
  <2>4. n \in q.head..(Max(S) + 1)
    <3>1. n <= q.tail
      BY <2>1, <2>2
    <3> QED
      BY <1>0, <1>1, <2>2, <3>1
  <2> QED
    BY <2>2, <2>3, <2>4
<1>3. start \in q.head..(Max(S) + 1) /\ Is(start)
  <2> HIDE DEF Is, S
  <2> QED
    BY <1>2
<1>4. start \in Nat /\ q.head <= start
  BY <1>0, <1>3
<1>5. FirstGap(q) = IF end > start THEN [key |-> start, len |-> end - start] ELSE NoGap
  BY DEF FirstGap
<1> HIDE DEF start
<1>6. ASSUME end > start
      PROVE  end \in Nat /\ \E i \in q.items : end <= i.key
  <2>1. CASE next = {}
    <3>1. end = q.tail /\ \A i \in q.items : i.key < start
      BY <1>0, <1>4, <2>1, AtOrAfterIs
    <3>2. q.tail # q.head
      BY <1>0, <1>4, <1>6, <3>1
    <3>3. PICK i \in q.items : End(i) = q.tail
      BY <3>2 DEF TightQueue
    <3>4. i.key <= start /\ start < End(i)
      BY <1>0, <1>4, <1>6, <3>1, <3>3, QueueItems
    <3> QED
      BY <1>3, <3>4
  <2>2. CASE next # {}
    <3>1. PICK p \in q.items : next = {p}
      BY <1>0, <1>4, <2>2, AtOrAfterIs
    <3>2. First(next) = p
      <4>1. {p} \in SUBSET Item /\ {p} # {}
        BY QueueItems
      <4>2. First({p}) \in {p}
        BY <4>1, FirstIs
      <4> QED
        BY <3>1, <4>2
    <3> QED
      BY <2>2, <3>2, QueueItems
  <2> QED
    BY <2>1, <2>2
<1> DEFINE g == FirstGap(q)
<1>7. CASE end > start
  <2> HIDE DEF end
  <2>1. g = [key |-> start, len |-> end - start] /\ end - start \in Nat /\ end - start > 0 /\ start + (end - start) = end
    BY <1>4, <1>5, <1>6, <1>7
  <2>2. g \in Gap /\ g.len > 0 /\ g.key = start /\ End(g) = end
    BY <1>4, <2>1 DEF Gap, End
  <2> QED
    BY <1>4, <1>6, <1>7, <2>2
<1>8. CASE ~(end > start)
  BY <1>5, <1>8 DEF NoGap, Gap
<1> QED
  BY <1>7, <1>8

-----------------------------------------------------------------------------
(* What the sender does with its queue. *)

\* enqueue() of an item that comes after all others.
LEMMA EnqueueLastIs ==
  ASSUME NEW q, QueueOK(q), NEW m \in Item, m.len > 0, Fits(m), q.tail <= m.key
  PROVE  LET r == Enqueue(q, m)
         IN /\ QueueOK(r) /\ r.items = q.items \cup {m} /\ r.tail = End(m) /\ r.head = q.head
<1>0. /\ Separate(q.items) /\ q.head \in Nat /\ q.tail \in Nat /\ q.head <= q.tail
      /\ q \in [head : Nat, tail : Nat, items : SUBSET Item]
  BY DEF QueueOK
<1>1. m.key \in Nat /\ m.len \in Nat /\ End(m) = m.key + m.len /\ End(m) \in Nat /\ End(m) > q.tail
  BY <1>0, ItemFields
<1>2. \A i \in q.items : i \in Item /\ i.key \in Nat /\ End(i) \in Nat /\ i.key < m.key /\ End(i) <= m.key /\ End(i) <= q.tail
                         /\ q.head <= i.key /\ i.key < End(i)
  BY <1>0, <1>1, QueueItems
<1>3. Max({q.tail, End(m)}) = End(m)
  BY <1>0, <1>1, MaxOfTwo
<1> DEFINE s == [q EXCEPT !.items = @ \cup {m}, !.tail = End(m)]
<1>4. s.items = q.items \cup {m} /\ s.tail = End(m) /\ s.head = q.head /\ s \in [head : Nat, tail : Nat, items : SUBSET Item]
  BY <1>0, <1>1
<1>5. Separate(q.items \cup {m})
  BY <1>0, <1>2 DEF Separate
<1> HIDE DEF s
<1>6. QueueOK(s)
  <2>1. \A i \in s.items : s.head <= i.key /\ End(i) <= s.tail
    BY <1>0, <1>1, <1>2, <1>4
  <2>2. s.head <= s.tail
    BY <1>0, <1>1, <1>4
  <2> QED
    BY <1>4, <1>5, <2>1, <2>2 DEF QueueOK
<1>7. Enqueue(q, m) = s
  <2>1. ~(m.key < q.head) /\ ~(End(m) <= q.head) /\ m.len # 0
    BY <1>0, <1>1
  <2>2. CASE m.key = q.head
    <3>1. q.items = {}
      BY <1>0, <1>2, <2>2
    <3>2. Overwrite(q.items, 0, End(m)) = {}
      BY <3>1 DEF Overwrite
    <3>3. Enqueue(q, m) = [q EXCEPT !.tail = End(m), !.items = Overwrite(q.items, 0, End(m)) \cup {m}]
      BY <1>3, <2>1, <2>2 DEF Enqueue, Put
    <3> QED
      BY <1>0, <3>1, <3>2, <3>3 DEF s
  <2>3. CASE m.key # q.head
    <3>1. Enqueue(q, m) = InsertBetween(q, m)
      BY <2>1, <2>3 DEF Enqueue, Put
    <3>2. AtOrAfter(q.items, m.key) = {}
      <4>1. {i \in q.items : i.key >= m.key} = {}
        BY <1>1, <1>2
      <4> QED
        BY <4>1 DEF AtOrAfter
    <3> DEFINE prev == Preceding(q.items, m.key)
               kept == {IF End(i) > m.key THEN ClipTail(i, End(i) - m.key) ELSE i : i \in prev}
    <3>3. prev \subseteq q.items
      BY <1>0, <1>1, PrecedingIs
    <3>4. kept = prev
      <4>1. \A i \in prev : ~(End(i) > m.key)
        BY <1>1, <1>2, <3>3
      <4> HIDE DEF prev
      <4> QED
        BY <4>1
    <3>5. \A i \in prev : ~(End(i) >= End(m))
      BY <1>0, <1>1, <1>2, <3>3
    <3>6. Overwrite(q.items, m.key, End(m)) = q.items
      <4>1. {i \in q.items : m.key <= i.key /\ i.key < End(m)} = {}
        BY <1>1, <1>2
      <4> QED
        BY <4>1 DEF Overwrite
    <3>7. (q.items \ prev) \cup kept = q.items
      BY <3>3, <3>4
    <3>8. InsertBetween(q, m) =
            [q EXCEPT !.items = Overwrite((q.items \ prev) \cup kept, m.key, End(m)) \cup {m}, !.tail = Max({@, End(m)})]
      BY <3>2, <3>5 DEF InsertBetween
    <3> HIDE DEF prev, kept
    <3> QED
      BY <1>3, <3>1, <3>6, <3>7, <3>8 DEF s
  <2> QED
    BY <2>2, <2>3
<1> QED
  BY <1>4, <1>6, <1>7

\* The items up to one that is in the queue are shifted out.
LEMMA ShiftToIs ==
  ASSUME NEW q, QueueOK(q), NEW m \in q.items
  PROVE  LET r == ShiftTo(q, End(m))
         IN /\ QueueOK(r) /\ r.items = {i \in q.items : i.key > m.key} /\ r.tail = q.tail /\ r.head = End(m)
<1>0. /\ Separate(q.items) /\ q.head \in Nat /\ q.tail \in Nat /\ q.head <= q.tail
      /\ q \in [head : Nat, tail : Nat, items : SUBSET Item]
  BY DEF QueueOK
<1>1. \A i \in q.items : i \in Item /\ i.key \in Nat /\ End(i) \in Nat /\ i.key < End(i) /\ End(i) <= q.tail /\ q.head <= i.key
  BY <1>0, QueueItems
<1> DEFINE before(i) == {q.head} \cup {End(j) : j \in {k \in q.items : k.key < i.key}}
           gone == {i \in q.items : Max(before(i)) < End(m)}
           r == [q EXCEPT !.head = End(m), !.items = {i \in q.items : i.key > m.key}]
<1>2. \A i \in q.items : Max(before(i)) \in before(i) /\ \A n \in before(i) : n <= Max(before(i))
  <2> SUFFICES ASSUME NEW i \in q.items PROVE Max(before(i)) \in before(i) /\ \A n \in before(i) : n <= Max(before(i))
    OBVIOUS
  <2>1. before(i) \in SUBSET Nat /\ before(i) # {} /\ \A n \in before(i) : n <= q.tail
    BY <1>0, <1>1
  <2> HIDE DEF before
  <2> QED
    BY <1>0, <2>1, MaxIs
<1>3. \A i \in q.items : i \in gone <=> i.key <= m.key
  <2> SUFFICES ASSUME NEW i \in q.items PROVE i \in gone <=> i.key <= m.key
    OBVIOUS
  <2>1. ASSUME i.key <= m.key PROVE Max(before(i)) < End(m)
    <3>1. \A n \in before(i) : n \in Nat /\ n < End(m)
      <4>1. q.head \in Nat /\ q.head < End(m)
        BY <1>0, <1>1
      <4>2. \A j \in q.items : j.key < i.key => End(j) \in Nat /\ End(j) < End(m)
        <5> SUFFICES ASSUME NEW j \in q.items, j.key < i.key PROVE End(j) \in Nat /\ End(j) < End(m)
          OBVIOUS
        <5>1. End(j) <= i.key
          BY <1>0, SeparateKeys
        <5> QED
          BY <1>1, <2>1, <5>1
      <4> QED
        BY <4>1, <4>2
    <3> QED
      BY <1>2, <3>1
  <2>2. ASSUME i.key > m.key PROVE ~(Max(before(i)) < End(m))
    <3>1. End(m) \in before(i)
      BY <1>1, <2>2
    <3>2. Max(before(i)) \in Nat /\ End(m) <= Max(before(i))
      <4>1. before(i) \subseteq Nat
        BY <1>0, <1>1
      <4> HIDE DEF before
      <4> QED
        BY <1>2, <3>1, <4>1
    <3> HIDE DEF before
    <3> QED
      BY <1>1, <3>2
  <2> HIDE DEF before
  <2> QED
    BY <1>1, <2>1, <2>2
<1>4. ShiftTo(q, End(m)) = IF q.head >= End(m) \/ gone = {} THEN q ELSE [q EXCEPT !.head = End(Last(gone)), !.items = @ \ gone]
  BY DEF ShiftTo
<1>5. ~(q.head >= End(m)) /\ m \in gone
  BY <1>0, <1>1, <1>3
<1> HIDE DEF gone
<1>6. Last(gone) = m
  <2>1. gone \subseteq q.items
    BY DEF gone
  <2>2. gone \in SUBSET Item /\ gone # {} /\ \A i \in gone : i.key <= m.key
    BY <1>1, <1>3, <1>5, <2>1
  <2>3. m.key \in Nat
    BY <1>1
  <2>4. Last(gone) \in gone /\ m.key <= Last(gone).key
    BY <1>5, <2>2, <2>3, LastIs
  <2> QED
    BY <1>0, <1>1, <2>1, <2>2, <2>4, SeparateKeys
<1>7. q.items \ gone = {i \in q.items : i.key > m.key}
  BY <1>1, <1>3
<1>8. ShiftTo(q, End(m)) = r
  BY <1>0, <1>4, <1>5, <1>6, <1>7
<1>9. r.head = End(m) /\ r.tail = q.tail /\ r.items = {i \in q.items : i.key > m.key} /\ r \in [head : Nat, tail : Nat, items : SUBSET Item]
  BY <1>0, <1>1
<1>10. QueueOK(r)
  <2>1. Separate({i \in q.items : i.key > m.key})
    BY <1>0 DEF Separate
  <2>2. \A i \in q.items : i.key > m.key => End(m) <= i.key
    BY <1>0, <1>1, SeparateKeys
  <2> HIDE DEF r
  <2> QED
    BY <1>0, <1>1, <1>9, <2>1, <2>2 DEF QueueOK
<1> QED
  BY <1>8, <1>9, <1>10

\* abort(key)
LEMMA AbortIs ==
  ASSUME NEW q, QueueOK(q), NEW key
  PROVE  LET r == Abort(q, key).queue
         IN /\ QueueOK(r) /\ r.items = {i \in q.items : i.key # key} /\ r.tail = q.tail /\ r.head = q.head
<1> DEFINE r == [q EXCEPT !.items = {i \in q.items : i.key # key}]
<1>1. Abort(q, key).queue = r
  <2>1. q.items \ {i \in q.items : i.key = key} = {i \in q.items : i.key # key}
    OBVIOUS
  <2> QED
    BY <2>1 DEF Abort
<1>2. /\ r.items = {i \in q.items : i.key # key} /\ r.tail = q.tail /\ r.head = q.head
      /\ r \in [head : Nat, tail : Nat, items : SUBSET Item]
  BY DEF QueueOK
<1>3. Separate({i \in q.items : i.key # key})
  BY DEF QueueOK, Separate
<1> HIDE DEF r
<1>4. QueueOK(r)
  BY <1>2, <1>3 DEF QueueOK
<1> QED
  BY <1>1, <1>2, <1>4

-----------------------------------------------------------------------------
(* The invariant *)

MsgItems == {p.item : p \in wire \cap Msgs}
AskGaps == {p.gap : p \in wire \cap Asks}

\* An item says what became of the numbers it covers: the message itself, or, for a gap fill,
\* numbers that the receiver has passed already or whose messages were aborted.
Truthful(i) ==
  /\ Fits(i)
  /\ IF i.gap THEN \A n \in i.key..(End(i) - 1) : n < rx.queue.head \/ n \in aborted
     ELSE i.len = 1 /\ (i.key < rx.queue.head \/ i.key \notin aborted)

\* How far each side has got.
Bounded ==
  /\ tx.archive <= tx.ackd /\ tx.ackd <= tx.send /\ tx.send <= tx.seqNo
  /\ tx.ackd <= rx.queue.head /\ rx.queue.head <= tx.seqNo
  /\ tx.queue.tail <= tx.seqNo /\ tx.queue.head <= tx.seqNo
  /\ rx.queue.head <= rx.queue.tail /\ rx.queue.tail <= tx.seqNo /\ tx.queue.head <= tx.queue.tail
  /\ \A n \in aborted : n < tx.seqNo
  /\ \A p \in wire \cap Acks : p.key <= rx.queue.head
  /\ tx.seqNo <= MaxSeq

\* What the sender has kept.
Kept ==
  /\ \A i \in tx.queue.items \cup tx.persisted : i.len = 1 /\ ~i.gap /\ i.key < tx.seqNo
  /\ \A i \in tx.queue.items : i.key \notin aborted
  /\ \A i \in tx.persisted : i.key < rx.queue.head

\* What was sent.
Sent == \A i \in MsgItems \cup rx.queue.items : i.len > 0 /\ End(i) <= tx.send /\ Truthful(i)

\* What was asked for was known to be missing from what was sent.
Asked == \A g \in AskGaps \cup {rx.gap, tx.gap} : End(g) <= tx.send /\ End(g) <= rx.queue.tail /\ (g = NoGap \/ g.len > 0)

\* The tail is the end of the last item, or the head.
Tight == rx.queue.tail = rx.queue.head \/ \E i \in rx.queue.items : End(i) = rx.queue.tail

\* What was delivered ends where the receiver's head is.
Delivered == Channel!Next0 = rx.queue.head

PQInv == Bounded /\ Kept /\ Sent /\ Asked /\ Tight /\ Delivered /\ NothingDropped

-----------------------------------------------------------------------------
(* The sender's handlers: what each does to the sequence numbers and the   *)
(* messages, apart from the jobs it schedules.                             *)

CoreSame(s, t) ==
  /\ t.seqNo = s.seqNo /\ t.queue = s.queue /\ t.send = s.send /\ t.ackd = s.ackd
  /\ t.archive = s.archive /\ t.gap = s.gap /\ t.persisted = s.persisted

LEMMA WakeArchiveIs ==
  ASSUME NEW Q, NEW t \in TxState(Q)
  PROVE  WakeArchive(t) \in TxState(Q) /\ CoreSame(t, WakeArchive(t))
<1> DEFINE yes == ~t.archiving /\ t.ackd > t.archive
<1>1. yes \in BOOLEAN /\ t.archives \in Nat /\ t.archiving \in BOOLEAN
  BY DEF TxState
<1>2. Schedule(t.archives, yes) \in Nat
  BY <1>1 DEF Schedule
<1>3. WakeArchive(t) = [t EXCEPT !.archiving = t.archiving \/ yes, !.archives = Schedule(t.archives, yes)]
  BY DEF WakeArchive
<1> HIDE DEF yes
<1> QED
  BY <1>1, <1>2, <1>3 DEF TxState, CoreSame

LEMMA WakeIs ==
  ASSUME NEW Q, NEW t \in TxState(Q), NEW wasRunning \in BOOLEAN
  PROVE  Wake(t, wasRunning) \in TxState(Q) /\ CoreSame(t, Wake(t, wasRunning))
<1> DEFINE failed == wasRunning /\ t.sendFailed
           send == failed \/ (~t.sending /\ t.send < t.queue.tail)
           refailed == wasRunning /\ t.resendFailed
           resend == refailed \/ (~t.resending /\ t.gap # NoGap)
           sends == Schedule(t.sends, send)
           resends == Schedule(t.resends, resend)
           sending == t.sending \/ (send /\ ~failed)
           resending == t.resending \/ (resend /\ ~refailed)
           u == [t EXCEPT !.running = TRUE, !.sends = sends, !.resends = resends,
                          !.sending = sending, !.resending = resending,
                          !.sendFailed = FALSE, !.resendFailed = FALSE]
<1>1. sends \in Nat /\ resends \in Nat /\ sending \in BOOLEAN /\ resending \in BOOLEAN
  BY DEF TxState, Schedule
<1>2. Wake(t, wasRunning) = WakeArchive(u)
  BY DEF Wake
<1> HIDE DEF sends, resends, sending, resending
<1>3. u \in TxState(Q) /\ CoreSame(t, u)
  BY <1>1 DEF TxState, CoreSame
<1> HIDE DEF u
<1>4. WakeArchive(u) \in TxState(Q) /\ CoreSame(u, WakeArchive(u))
  BY <1>3, WakeArchiveIs
<1> QED
  BY <1>2, <1>3, <1>4 DEF CoreSame

LEMMA StopIs ==
  ASSUME NEW Q, NEW t \in TxState(Q)
  PROVE  Stop(t) \in TxState(Q) /\ CoreSame(t, Stop(t))
  BY DEF Stop, TxState, CoreSame

\* start(key)
LEMMA StartFromIs ==
  ASSUME NEW Q, NEW t \in TxState(Q), NEW key \in Nat
  PROVE  /\ StartFrom(t, key) \in TxState(Q)
         /\ CoreSame([t EXCEPT !.send = key, !.ackd = key], StartFrom(t, key))
<1> DEFINE u == [t EXCEPT !.send = key, !.ackd = key]
<1>1. u \in TxState(Q) /\ t.running \in BOOLEAN
  BY DEF TxState
<1> QED
  BY <1>1, WakeIs DEF StartFrom

-----------------------------------------------------------------------------
(* The messages a sender keeps: one number each. *)

Message(n) == [key |-> n, len |-> 1, gap |-> FALSE]
Singles(items) == \A i \in items : i \in Item /\ i.len = 1 /\ ~i.gap
Has(t, n) == Message(n) \in t.queue.items \cup t.persisted

LEMMA MessageIs ==
  ASSUME NEW n \in Nat
  PROVE  Message(n) \in Item /\ Message(n).key = n /\ Message(n).len = 1 /\ ~Message(n).gap /\ End(Message(n)) = n + 1
  BY DEF Message, Item, End

LEMMA SinglesAre ==
  ASSUME NEW items, Singles(items), NEW i \in items
  PROVE  i \in Item /\ i.key \in Nat /\ i = Message(i.key) /\ End(i) = i.key + 1
<1>1. i \in Item /\ i.len = 1 /\ i.gap = FALSE
  BY ItemFields DEF Singles
<1>2. i.key \in Nat /\ End(i) = i.key + i.len /\ i = [key |-> i.key, len |-> i.len, gap |-> i.gap]
  BY <1>1, ItemFields
<1> QED
  BY <1>1, <1>2 DEF Message

LEMMA FindIs ==
  ASSUME NEW q, Separate(q.items), Singles(q.items), NEW n \in Nat
  PROVE  Find(q, n) = {i \in {Message(n)} : i \in q.items}
<1> DEFINE at == {i \in q.items : i.key = n}
           before == {i \in Preceding(q.items, n) : End(i) > n}
<1>1. at = {i \in {Message(n)} : i \in q.items}
  BY SinglesAre, MessageIs
<1>2. before = {}
  <2> SUFFICES ASSUME NEW i \in Preceding(q.items, n), End(i) > n PROVE FALSE
    OBVIOUS
  <2>1. i \in q.items /\ i.key < n
    BY PrecedingIs
  <2> QED
    BY <2>1, SinglesAre
<1>3. Find(q, n) = IF at # {} THEN at ELSE before
  BY DEF Find
<1> QED
  BY <1>1, <1>2, <1>3

LEMMA LookupIs ==
  ASSUME NEW t, Separate(t.queue.items), Singles(t.queue.items), Singles(t.persisted), NEW n \in Nat
  PROVE  Lookup(t, n) = {i \in {Message(n)} : Has(t, n)}
<1>1. Find(t.queue, n) = {i \in {Message(n)} : i \in t.queue.items}
  BY FindIs
<1>2. {m \in t.persisted : m.key <= n /\ n < End(m)} = {i \in {Message(n)} : i \in t.persisted}
  <2>1. \A m \in t.persisted : m.key <= n /\ n < End(m) <=> m = Message(n)
    <3> SUFFICES ASSUME NEW m \in t.persisted PROVE m.key <= n /\ n < End(m) <=> m = Message(n)
      OBVIOUS
    <3>1. m.key \in Nat /\ m = Message(m.key) /\ End(m) = m.key + 1
      BY SinglesAre
    <3>2. m = Message(n) => m.key = n
      BY MessageIs
    <3>3. m.key <= n /\ n < m.key + 1 <=> m.key = n
      BY <3>1
    <3> QED
      BY <3>1, <3>2, <3>3
  <2> QED
    BY <2>1
<1> QED
  BY <1>1, <1>2 DEF Lookup, Has

LEMMA CanLookup ==
  ASSUME NEW t, Separate(t.queue.items), Singles(t.queue.items), Singles(t.persisted), NEW n \in Nat
  PROVE  Lookup(t, n) # {} <=> Has(t, n)
  BY LookupIs

\* The numbers that no message contains.
LEMMA UptoIs ==
  ASSUME NEW t, Separate(t.queue.items), Singles(t.queue.items), Singles(t.persisted), NEW key \in Nat,
         NEW end \in Nat
  PROVE  LET at == Upto(t, key, end)
         IN \/ at = end /\ \A n \in key..(end - 1) : ~Has(t, n)
            \/ at \in key..(end - 1) /\ Has(t, at) /\ \A n \in key..(at - 1) : ~Has(t, n)
<1> DEFINE hits == {n \in key..(end - 1) : Lookup(t, n) # {}}
<1>1. \A n \in key..(end - 1) : Lookup(t, n) # {} <=> Has(t, n)
  <2> SUFFICES ASSUME NEW n \in key..(end - 1) PROVE Lookup(t, n) # {} <=> Has(t, n)
    OBVIOUS
  <2>1. n \in Nat
    OBVIOUS
  <2> QED
    BY <2>1, LookupIs
<1>2. hits = {n \in key..(end - 1) : Has(t, n)}
  BY <1>1
<1>3. CASE hits = {}
  BY <1>2, <1>3 DEF Upto
<1>4. CASE hits # {}
  <2>1. hits \in SUBSET Nat
    OBVIOUS
  <2>2. Upto(t, key, end) = Min(hits)
    BY <1>4 DEF Upto
  <2> HIDE DEF hits
  <2>3. Min(hits) \in hits /\ \A n \in hits : Min(hits) <= n
    BY <1>4, <2>1, MinIs
  <2>4. PICK at \in hits : at = Upto(t, key, end) /\ \A n \in hits : at <= n
    BY <2>2, <2>3
  <2>5. at \in key..(end - 1) /\ Has(t, at) /\ at \in Nat
    BY <1>2, <2>1
  <2>6. \A n \in key..(at - 1) : ~Has(t, n)
    <3> SUFFICES ASSUME NEW n \in key..(at - 1), Has(t, n) PROVE FALSE
      OBVIOUS
    <3>1. n \in key..(end - 1) /\ n < at
      BY <2>5
    <3>2. at <= n
      BY <1>2, <2>4, <3>1
    <3> QED
      BY <2>5, <3>1, <3>2
  <2> QED
    BY <2>4, <2>5, <2>6
<1> QED
  BY <1>3, <1>4

-----------------------------------------------------------------------------
(* The handlers of a sender that keeps what it should. *)

AnyQueue == [head : Nat, tail : Nat, items : SUBSET Item]
GapOK(g) == g \in Gap /\ (g = NoGap \/ g.len > 0)

SenderOK(s) ==
  /\ s \in TxState(AnyQueue) /\ QueueOK(s.queue) /\ Singles(s.queue.items) /\ Singles(s.persisted)
  /\ s.archive <= s.ackd /\ s.ackd <= s.send /\ s.send <= s.seqNo /\ s.queue.tail <= s.seqNo
  /\ GapOK(s.gap)

\* What a handler may change, other than what is to be resent.
Moved(s, t) ==
  /\ t \in TxState(AnyQueue) /\ QueueOK(t.queue)
  /\ t.seqNo = s.seqNo /\ t.queue.tail = s.queue.tail
  /\ s.send <= t.send /\ t.send <= s.seqNo
  /\ s.ackd <= t.ackd /\ t.ackd <= t.send /\ t.archive <= t.ackd
  /\ t.queue.items \subseteq s.queue.items
  /\ \A i \in s.queue.items : i \in t.queue.items \/ i.key < t.ackd
  /\ s.persisted \subseteq t.persisted
  /\ \A i \in t.persisted : i \in s.persisted \/ (i \in s.queue.items /\ i.key < t.ackd)

LEMMA SenderFields ==
  ASSUME NEW Q, NEW s \in TxState(Q)
  PROVE  /\ s.seqNo \in Nat /\ s.send \in Nat /\ s.ackd \in Nat /\ s.archive \in Nat /\ s.gap \in Gap /\ s.queue \in Q
         /\ s.persisted \subseteq Item /\ s.running \in BOOLEAN /\ s.sends \in Nat /\ s.archives \in Nat /\ s.resends \in Nat
         /\ s.sending \in BOOLEAN /\ s.archiving \in BOOLEAN /\ s.resending \in BOOLEAN
  BY DEF TxState

LEMMA SenderQueue ==
  ASSUME NEW s, SenderOK(s)
  PROVE  Separate(s.queue.items) /\ s.queue.head \in Nat /\ s.queue.tail \in Nat /\ s.queue.head <= s.queue.tail
  BY DEF SenderOK, QueueOK

LEMMA CoreMoved ==
  ASSUME NEW s, SenderOK(s), NEW t \in TxState(AnyQueue), CoreSame(s, t)
  PROVE  Moved(s, t) /\ t.gap = s.gap
<1>1. s.send \in Nat /\ s.ackd \in Nat
  BY SenderFields DEF SenderOK
<1> QED
  BY <1>1 DEF Moved, CoreSame, SenderOK

LEMMA MovedCore ==
  ASSUME NEW s, NEW t, Moved(s, t), NEW u \in TxState(AnyQueue), CoreSame(t, u)
  PROVE  Moved(s, u) /\ u.gap = t.gap
  BY DEF Moved, CoreSame

\* send(msg)
LEMMA SendIs ==
  ASSUME NEW s, SenderOK(s)
  PROVE  LET t == Send(s)
         IN /\ t \in TxState(AnyQueue) /\ QueueOK(t.queue) /\ t.queue.tail = s.seqNo + 1 /\ t.queue.head = s.queue.head
            /\ t.queue.items = s.queue.items \cup {Message(s.seqNo)}
            /\ t.seqNo = s.seqNo + 1 /\ t.send = s.send /\ t.ackd = s.ackd /\ t.archive = s.archive
            /\ t.gap = s.gap /\ t.persisted = s.persisted
<1> DEFINE k == s.seqNo
           wake == s.running /\ ~s.sending /\ s.send <= k
           q == Enqueue(s.queue, Message(k))
           sending == s.sending \/ wake
           sends == Schedule(s.sends, wake)
           t == Send(s)
<1>1. /\ k \in Nat /\ s.ackd \in Nat /\ s.send \in Nat /\ s.sends \in Nat /\ s.sending \in BOOLEAN /\ s.running \in BOOLEAN
      /\ s \in TxState(AnyQueue) /\ QueueOK(s.queue)
  BY SenderFields DEF SenderOK
<1>2. ~(k < s.ackd) /\ s.queue.tail <= k
  BY <1>1 DEF SenderOK
<1>3. QueueOK(q) /\ q.items = s.queue.items \cup {Message(k)} /\ q.tail = k + 1 /\ q.head = s.queue.head
  <2>1. Message(k) \in Item /\ Message(k).len > 0 /\ Message(k).key = k /\ End(Message(k)) = k + 1
    BY <1>1, MessageIs
  <2>2. Fits(Message(k))
    BY <1>1, MessageIs DEF Fits
  <2> HIDE DEF k
  <2> QED
    BY <1>1, <1>2, <2>1, <2>2, EnqueueLastIs
<1>4. q \in AnyQueue
  BY <1>3 DEF QueueOK, AnyQueue
<1>5. sending \in BOOLEAN /\ sends \in Nat
  BY <1>1 DEF Schedule
<1>6. t = [s EXCEPT !.seqNo = k + 1, !.queue = q, !.sending = sending, !.sends = sends]
  BY <1>2 DEF Send, Message, TxState, SenderOK
<1> HIDE DEF q, sending, sends, wake
<1>7. /\ t.queue = q /\ t.seqNo = s.seqNo + 1 /\ t.send = s.send /\ t.ackd = s.ackd /\ t.archive = s.archive
      /\ t.gap = s.gap /\ t.persisted = s.persisted
  BY <1>1, <1>6 DEF TxState
<1>8. t \in TxState(AnyQueue)
  <2>1. k + 1 \in Nat
    BY <1>1
  <2> HIDE DEF k, t
  <2> QED
    BY <1>1, <1>4, <1>5, <1>6, <2>1 DEF TxState
<1> QED
  BY <1>3, <1>7, <1>8

\* abort(key), of a message that was not sent
LEMMA AbortMsgIs ==
  ASSUME NEW s, SenderOK(s), NEW key \in Nat, s.send <= key
  PROVE  LET t == AbortMsg(s, key)
         IN /\ t \in TxState(AnyQueue) /\ QueueOK(t.queue) /\ t.queue.tail = s.queue.tail /\ t.queue.head = s.queue.head
            /\ t.queue.items = {i \in s.queue.items : i.key # key}
            /\ t.seqNo = s.seqNo /\ t.send = s.send /\ t.ackd = s.ackd /\ t.archive = s.archive
            /\ t.gap = s.gap /\ t.persisted = s.persisted
<1> DEFINE q == Abort(s.queue, key).queue
           t == AbortMsg(s, key)
<1>1. s \in TxState(AnyQueue) /\ QueueOK(s.queue) /\ s.send \in Nat
  BY SenderFields DEF SenderOK
<1>2. QueueOK(q) /\ q.items = {i \in s.queue.items : i.key # key} /\ q.tail = s.queue.tail /\ q.head = s.queue.head
  BY <1>1, AbortIs
<1>3. q \in AnyQueue
  BY <1>2 DEF QueueOK, AnyQueue
<1>4. t = [s EXCEPT !.queue = q]
  BY <1>1 DEF AbortMsg, TxState
<1> HIDE DEF q
<1>5. t.queue = q /\ t \in TxState(AnyQueue)
  BY <1>1, <1>3, <1>4 DEF TxState
<1> QED
  BY <1>1, <1>2, <1>4, <1>5 DEF TxState

\* ackd(key)
LEMMA AckdIs ==
  ASSUME NEW s, SenderOK(s), NEW key \in Nat, key <= s.seqNo
  PROVE  LET t == Ackd(s, key)
         IN Moved(s, t) /\ t.gap = s.gap /\ (t.ackd = s.ackd \/ t.ackd = key)
<1> DEFINE t == Ackd(s, key)
           u == [s EXCEPT !.ackd = key, !.send = IF s.send >= key THEN s.send ELSE key]
<1>1. s \in TxState(AnyQueue) /\ QueueOK(s.queue) /\ s.send \in Nat /\ s.seqNo \in Nat /\ s.ackd \in Nat /\ s.archive \in Nat
      /\ s.archive <= s.ackd /\ s.ackd <= s.send /\ s.send <= s.seqNo
  BY SenderFields DEF SenderOK
<1>2. Max({s.seqNo, key}) = s.seqNo /\ Max({s.send, key}) = IF s.send >= key THEN s.send ELSE key
  BY <1>1, MaxOfTwo
<1>3. [s EXCEPT !.seqNo = s.seqNo] = s
  BY <1>1 DEF TxState
<1>4. CASE key < s.ackd
  <2>1. t = s
    BY <1>2, <1>3, <1>4 DEF Ackd
  <2>2. CoreSame(s, s)
    BY DEF CoreSame
  <2> HIDE DEF t
  <2> QED
    BY <1>1, <2>1, <2>2, CoreMoved DEF t
<1>5. CASE ~(key < s.ackd)
  <2>1. t = WakeArchive(u)
    <3>1. t = WakeArchive([[s EXCEPT !.seqNo = s.seqNo] EXCEPT !.ackd = key, !.send = Max({@, key})])
      BY <1>2, <1>5 DEF Ackd
    <3> QED
      BY <1>2, <1>3, <3>1
  <2>2. u \in TxState(AnyQueue)
    BY <1>1 DEF TxState
  <2>3. /\ u.seqNo = s.seqNo /\ u.queue = s.queue /\ u.send = (IF s.send >= key THEN s.send ELSE key) /\ u.ackd = key
        /\ u.archive = s.archive /\ u.gap = s.gap /\ u.persisted = s.persisted
    BY <1>1 DEF TxState
  <2> HIDE DEF u, t
  <2>4. Moved(s, u)
    BY <1>1, <1>5, <2>2, <2>3 DEF Moved
  <2>5. t \in TxState(AnyQueue) /\ CoreSame(u, t)
    BY <2>1, <2>2, WakeArchiveIs
  <2>6. Moved(s, t) /\ t.gap = u.gap
    BY <2>4, <2>5, MovedCore
  <2>7. t.ackd = key
    BY <2>3, <2>5 DEF CoreSame
  <2> QED
    BY <2>3, <2>6, <2>7 DEF t
<1> QED
  BY <1>4, <1>5

\* resend(gap)
LEMMA ResendIs ==
  ASSUME NEW s, SenderOK(s), NEW g \in Gap, g.len > 0
  PROVE  LET t == Resend(s, g)
         IN Moved(s, t) /\ GapOK(t.gap) /\ (End(t.gap) = End(g) \/ End(t.gap) = End(s.gap))
<1> DEFINE t == Resend(s, g)
           first == IF s.gap = NoGap THEN g.key ELSE Min({s.gap.key, g.key})
           end == IF s.gap = NoGap THEN End(g) ELSE Max({End(s.gap), End(g)})
           all == [key |-> first, len |-> end - first]
           wake == ~s.resending /\ all # s.gap
           resending == s.resending \/ wake
           resends == Schedule(s.resends, wake)
<1>1. s \in TxState(AnyQueue) /\ QueueOK(s.queue) /\ s.gap \in Gap /\ GapOK(s.gap) /\ s.resending \in BOOLEAN /\ s.resends \in Nat
  BY SenderFields DEF SenderOK
<1>2. /\ g.key \in Nat /\ g.len \in Nat /\ End(g) = g.key + g.len /\ End(g) \in Nat
      /\ s.gap.key \in Nat /\ s.gap.len \in Nat /\ End(s.gap) = s.gap.key + s.gap.len /\ End(s.gap) \in Nat
  BY <1>1 DEF Gap, End
<1>3. /\ Min({s.gap.key, g.key}) = IF s.gap.key <= g.key THEN s.gap.key ELSE g.key
      /\ Max({End(s.gap), End(g)}) = IF End(s.gap) >= End(g) THEN End(s.gap) ELSE End(g)
  BY <1>2, MaxOfTwo, MinOfTwo
<1>4. first \in Nat /\ first <= g.key /\ end \in Nat /\ End(g) <= end /\ (end = End(g) \/ end = End(s.gap))
  BY <1>2, <1>3
<1> HIDE DEF first, end
<1>5. all \in Gap /\ all.len > 0 /\ End(all) = end
  <2>1. end - first \in Nat /\ end - first > 0 /\ first + (end - first) = end
    BY <1>2, <1>4
  <2> QED
    BY <1>4, <2>1 DEF Gap, End
<1>6. resending \in BOOLEAN /\ resends \in Nat
  BY <1>1 DEF Schedule
<1>7. g # NoGap
  BY DEF NoGap
<1>8. t = [s EXCEPT !.gap = all, !.resending = resending, !.resends = resends]
  BY <1>7 DEF Resend, first, end
<1> HIDE DEF all, resending, resends
<1>9. t \in TxState(AnyQueue) /\ t.gap = all
  BY <1>1, <1>5, <1>6, <1>8 DEF TxState
<1>10. CoreSame(s, [t EXCEPT !.gap = s.gap]) /\ [t EXCEPT !.gap = s.gap] \in TxState(AnyQueue)
  BY <1>1, <1>8, <1>9 DEF CoreSame, TxState
<1>11. Moved(s, [t EXCEPT !.gap = s.gap])
  BY <1>10, CoreMoved
<1>12. Moved(s, t)
  BY <1>8, <1>9, <1>11 DEF Moved, TxState
<1> QED
  BY <1>4, <1>5, <1>9, <1>12 DEF GapOK

-----------------------------------------------------------------------------
(* What a send or a resend sends: the numbers of the gap fill have no      *)
(* message, and the message is one the sender has.                         *)

SentFrom(s, r, key, limit) ==
  /\ GapOK(r.gap) /\ (r.gap = NoGap \/ r.gap.key = key) /\ key + r.gap.len <= limit
  /\ \A n \in key..(key + r.gap.len - 1) : ~Has(s, n)
  /\ r.msg = {} \/ \E n \in Nat : Has(s, n) /\ n + 1 <= limit /\ r.msg = {Message(n)}

LEMMA NextIs ==
  ASSUME NEW s, SenderOK(s), NEW key \in Nat, NEW end \in Nat
  PROVE  LET at == Upto(s, key, end)
             msg == IF at < end THEN Lookup(s, at) ELSE {}
         IN /\ at \in Nat /\ (at = end \/ at \in key..(end - 1))
            /\ \A n \in key..(at - 1) : ~Has(s, n)
            /\ msg = {} => at = end
            /\ msg # {} => at \in key..(end - 1) /\ Has(s, at) /\ msg = {Message(at)} /\ The(msg) = Message(at)
<1> DEFINE at == Upto(s, key, end)
           msg == IF at < end THEN Lookup(s, at) ELSE {}
<1>1. Separate(s.queue.items) /\ Singles(s.queue.items) /\ Singles(s.persisted)
  BY SenderQueue DEF SenderOK
<1>2. \/ at = end /\ \A n \in key..(end - 1) : ~Has(s, n)
      \/ at \in key..(end - 1) /\ Has(s, at) /\ \A n \in key..(at - 1) : ~Has(s, n)
  BY <1>1, UptoIs
<1> HIDE DEF at
<1>3. CASE at = end /\ \A n \in key..(end - 1) : ~Has(s, n)
  BY <1>3 DEF at
<1>4. CASE at \in key..(end - 1) /\ Has(s, at) /\ \A n \in key..(at - 1) : ~Has(s, n)
  <2>1. at \in Nat /\ at < end
    BY <1>4
  <2>2. Lookup(s, at) = {Message(at)}
    <3>1. Lookup(s, at) = {i \in {Message(at)} : Has(s, at)}
      BY <1>1, <2>1, LookupIs
    <3> QED
      BY <1>4, <3>1
  <2>3. msg = {Message(at)}
    BY <2>1, <2>2
  <2> HIDE DEF msg
  <2>4. The(msg) = Message(at)
    BY <2>3 DEF The
  <2> QED
    BY <1>4, <2>1, <2>3, <2>4 DEF at, msg
<1> QED
  BY <1>2, <1>3, <1>4

LEMMA SentFromIs ==
  ASSUME NEW s, NEW r, NEW key \in Nat, NEW limit \in Nat, NEW at \in Nat, key <= limit, at <= limit \/ at <= key,
         \A n \in key..(at - 1) : ~Has(s, n),
         r.gap = IF at > key THEN GapFill(key, at) ELSE NoGap,
         r.msg = {} \/ (Has(s, at) /\ at + 1 <= limit /\ r.msg = {Message(at)})
  PROVE  SentFrom(s, r, key, limit)
<1>1. CASE at > key
  <2>1. r.gap = [key |-> key, len |-> at - key] /\ at - key \in Nat /\ at - key > 0 /\ key + (at - key) = at
    BY <1>1 DEF GapFill
  <2>2. r.gap.key = key /\ r.gap.len = at - key /\ r.gap \in Gap
    BY <2>1 DEF Gap
  <2> QED
    BY <1>1, <2>1, <2>2 DEF SentFrom, GapOK
<1>2. CASE ~(at > key)
  <2>1. r.gap = NoGap /\ r.gap.len = 0 /\ r.gap \in Gap
    BY <1>2 DEF NoGap, Gap
  <2>2. key + 0 = key /\ \A n \in Nat : n \notin key..(key - 1)
    OBVIOUS
  <2> QED
    BY <1>2, <2>1, <2>2 DEF SentFrom, GapOK
<1> QED
  BY <1>1, <1>2

\* send()
LEMMA RunSendIs ==
  ASSUME NEW s, SenderOK(s), s.sends > 0
  PROVE  LET r == RunSend(s)
         IN /\ Moved(s, r.tx) /\ r.tx.gap = s.gap
            /\ SentFrom(s, r, s.send, r.tx.send)
            /\ CoreSame([s EXCEPT !.send = r.tx.send], r.tx)
<1> DEFINE end == s.queue.tail
           at == Upto(s, s.send, end)
           msg == IF at < end THEN Lookup(s, at) ELSE {}
           next == IF msg = {} THEN Max({at, s.send}) ELSE at + The(msg).len
           more == next < end
           sends == IF more THEN s.sends ELSE s.sends - 1
           sending == s.sending /\ more
           t == [s EXCEPT !.sends = sends, !.send = next, !.sending = sending]
           idle == [s EXCEPT !.sends = s.sends - 1, !.sending = FALSE]
           r == RunSend(s)
<1>1. /\ s \in TxState(AnyQueue) /\ QueueOK(s.queue) /\ s.send \in Nat /\ s.seqNo \in Nat /\ s.ackd \in Nat /\ s.archive \in Nat
      /\ s.archive <= s.ackd /\ s.ackd <= s.send /\ s.send <= s.seqNo /\ end \in Nat /\ end <= s.seqNo
      /\ s.sends \in Nat /\ s.sends - 1 \in Nat /\ s.sending \in BOOLEAN /\ s.running \in BOOLEAN
  BY SenderFields, SenderQueue DEF SenderOK
<1>2. /\ at \in Nat /\ (at = end \/ at \in s.send..(end - 1))
      /\ \A n \in s.send..(at - 1) : ~Has(s, n)
      /\ msg = {} => at = end
      /\ msg # {} => at \in s.send..(end - 1) /\ Has(s, at) /\ msg = {Message(at)} /\ The(msg) = Message(at)
  BY <1>1, NextIs
<1>3. /\ ~s.running => r = [tx |-> idle, gap |-> NoGap, msg |-> {}]
      /\ s.running => r = [tx |-> t, gap |-> IF at > s.send THEN GapFill(s.send, at) ELSE NoGap, msg |-> msg]
  BY DEF RunSend
<1>4. Message(at).len = 1
  BY DEF Message
<1> HIDE DEF at, msg
<1>5. next \in Nat /\ s.send <= next /\ next <= s.seqNo /\ (at <= next \/ at <= s.send) /\ (msg # {} => next = at + 1)
  <2>1. CASE msg = {}
    <3>1. Max({at, s.send}) = IF at >= s.send THEN at ELSE s.send
      BY <1>1, <1>2, MaxOfTwo
    <3> QED
      BY <1>1, <1>2, <2>1, <3>1
  <2>2. CASE msg # {}
    <3>1. next = at + 1
      BY <1>2, <1>4, <2>2
    <3> HIDE DEF next
    <3> QED
      BY <1>1, <1>2, <2>2, <3>1
  <2> QED
    BY <2>1, <2>2
<1>6. sends \in Nat /\ sending \in BOOLEAN
  BY <1>1
<1> HIDE DEF next, sends, sending, more
<1>7. CASE ~s.running
  <2>1. idle \in TxState(AnyQueue) /\ CoreSame(s, idle) /\ idle.send = s.send
    BY <1>1 DEF TxState, CoreSame
  <2> HIDE DEF idle
  <2>2. Moved(s, idle) /\ idle.gap = s.gap
    BY <2>1, CoreMoved
  <2>3. r.gap = NoGap /\ r.msg = {} /\ r.tx = idle
    BY <1>3, <1>7
  <2> HIDE DEF r
  <2>4. SentFrom(s, r, s.send, s.send)
    <3>1. \A n \in s.send..(s.send - 1) : ~Has(s, n)
      BY <1>1
    <3>2. r.gap = IF s.send > s.send THEN GapFill(s.send, s.send) ELSE NoGap
      BY <1>1, <2>3
    <3> QED
      BY <1>1, <2>3, <3>1, <3>2, SentFromIs
  <2>5. [s EXCEPT !.send = s.send] = s
    BY <1>1 DEF TxState
  <2> QED
    BY <2>1, <2>2, <2>3, <2>4, <2>5 DEF r
<1>8. CASE s.running
  <2>1. r.gap = (IF at > s.send THEN GapFill(s.send, at) ELSE NoGap) /\ r.msg = msg /\ r.tx = t
    BY <1>3, <1>8
  <2>2. t \in TxState(AnyQueue) /\ t.send = next /\ CoreSame([s EXCEPT !.send = next], t)
    BY <1>1, <1>5, <1>6 DEF TxState, CoreSame
  <2>3. /\ t.seqNo = s.seqNo /\ t.queue = s.queue /\ t.ackd = s.ackd /\ t.archive = s.archive /\ t.gap = s.gap
        /\ t.persisted = s.persisted
    BY <1>1 DEF TxState
  <2> HIDE DEF t, r
  <2>4. Moved(s, t) /\ t.gap = s.gap
    BY <1>1, <1>5, <2>2, <2>3 DEF Moved
  <2>5. SentFrom(s, r, s.send, next)
    <3>1. r.msg = {} \/ (Has(s, at) /\ at + 1 <= next /\ r.msg = {Message(at)})
      BY <1>2, <1>5, <2>1
    <3> QED
      BY <1>1, <1>2, <1>5, <2>1, <3>1, SentFromIs
  <2> QED
    BY <2>1, <2>2, <2>4, <2>5 DEF r
<1> QED
  BY <1>1, <1>7, <1>8

\* What is archived leaves the queue once it was acknowledged.
LEMMA ShiftedMoved ==
  ASSUME NEW s, SenderOK(s), NEW n \in Nat, n < s.ackd, Message(n) \in s.queue.items,
         NEW t \in TxState(AnyQueue), t.queue = ShiftTo(s.queue, n + 1),
         t.seqNo = s.seqNo, t.send = s.send, t.ackd = s.ackd, t.archive <= t.ackd,
         s.persisted \subseteq t.persisted, t.persisted \subseteq s.persisted \cup {Message(n)}
  PROVE  Moved(s, t)
<1> DEFINE m == Message(n)
<1>1. m.key = n /\ End(m) = n + 1 /\ QueueOK(s.queue) /\ s.ackd \in Nat /\ s.send \in Nat /\ s.seqNo \in Nat
      /\ s.ackd <= s.send /\ s.send <= s.seqNo /\ Singles(s.queue.items) /\ m \in s.queue.items
  BY MessageIs, SenderFields DEF SenderOK
<1> HIDE DEF m
<1>2. QueueOK(t.queue) /\ t.queue.items = {i \in s.queue.items : i.key > m.key} /\ t.queue.tail = s.queue.tail
  <2>1. LET r == ShiftTo(s.queue, End(m))
        IN /\ QueueOK(r) /\ r.items = {i \in s.queue.items : i.key > m.key} /\ r.tail = s.queue.tail /\ r.head = End(m)
    BY <1>1, ShiftToIs
  <2> QED
    BY <1>1, <2>1
<1>3. \A i \in s.queue.items : i.key \in Nat
  BY <1>1, SinglesAre
<1>4. \A i \in s.queue.items : i \in t.queue.items \/ i.key < t.ackd
  BY <1>1, <1>2, <1>3
<1>5. \A i \in t.persisted : i \in s.persisted \/ (i \in s.queue.items /\ i.key < t.ackd)
  BY <1>1 DEF m
<1> QED
  BY <1>1, <1>2, <1>4, <1>5 DEF Moved

\* archive()
LEMMA RunArchiveIs ==
  ASSUME NEW s, SenderOK(s), s.archives > 0
  PROVE  Moved(s, RunArchive(s)) /\ RunArchive(s).gap = s.gap /\ RunArchive(s).ackd = s.ackd
<1> DEFINE hits == {n \in s.archive..(s.ackd - 1) : Find(s.queue, n) # {}}
           at == IF hits = {} THEN s.ackd ELSE Min(hits)
           msg == IF hits = {} THEN {} ELSE Find(s.queue, at)
           next == IF hits = {} THEN Max({s.archive, s.ackd}) ELSE at + The(msg).len
           more == next < s.ackd
           archives == IF more THEN s.archives ELSE s.archives - 1
           archiving == s.archiving /\ more
           persisted == IF Persists THEN s.persisted \cup msg ELSE s.persisted
           queue == IF msg = {} THEN s.queue ELSE ShiftTo(s.queue, End(The(msg)))
           t == [s EXCEPT !.archives = archives, !.archiving = archiving, !.archive = next,
                          !.persisted = persisted, !.queue = queue]
           idle == [s EXCEPT !.archives = s.archives - 1, !.archiving = FALSE]
           r == RunArchive(s)
<1>1. /\ s \in TxState(AnyQueue) /\ QueueOK(s.queue) /\ s.send \in Nat /\ s.seqNo \in Nat /\ s.ackd \in Nat /\ s.archive \in Nat
      /\ s.archive <= s.ackd /\ s.ackd <= s.send /\ s.send <= s.seqNo
      /\ s.archives \in Nat /\ s.archives - 1 \in Nat /\ s.archiving \in BOOLEAN /\ s.persisted \subseteq Item
      /\ Separate(s.queue.items) /\ Singles(s.queue.items) /\ s.queue \in AnyQueue
  BY SenderFields, SenderQueue DEF SenderOK
<1>2. r = IF ~s.running THEN idle ELSE t
  BY DEF RunArchive
<1>3. \/ msg = {} /\ next = s.ackd
      \/ \E n \in Nat : n < s.ackd /\ Message(n) \in s.queue.items /\ msg = {Message(n)} /\ next = n + 1
  <2>1. CASE hits = {}
    <3>1. Max({s.archive, s.ackd}) = IF s.archive >= s.ackd THEN s.archive ELSE s.ackd
      BY <1>1, MaxOfTwo
    <3>2. msg = {} /\ next = Max({s.archive, s.ackd})
      BY <2>1
    <3> QED
      BY <1>1, <3>1, <3>2
  <2>2. CASE hits # {}
    <3>1. hits \in SUBSET Nat
      BY <1>1
    <3>2. at = Min(hits) /\ msg = Find(s.queue, at) /\ next = at + The(msg).len
      BY <2>2
    <3>3. \A n \in hits : n \in Nat /\ n < s.ackd /\ Find(s.queue, n) # {}
      BY <1>1
    <3> HIDE DEF hits, at, msg, next
    <3>4. at \in hits
      BY <2>2, <3>1, <3>2, MinIs
    <3>5. at \in Nat /\ at < s.ackd /\ Find(s.queue, at) # {}
      BY <3>3, <3>4
    <3>6. Find(s.queue, at) = {i \in {Message(at)} : i \in s.queue.items}
      BY <1>1, <3>5, FindIs
    <3>7. msg = {Message(at)} /\ Message(at) \in s.queue.items
      BY <3>2, <3>5, <3>6
    <3>8. The(msg) = Message(at) /\ Message(at).len = 1
      BY <3>7 DEF The, Message
    <3> QED
      BY <3>2, <3>5, <3>7, <3>8
  <2> QED
    BY <2>1, <2>2
<1> HIDE DEF hits, at, msg, next
<1>4. archives \in Nat /\ archiving \in BOOLEAN /\ next \in Nat /\ next <= s.ackd
  BY <1>1, <1>3
<1> HIDE DEF more, archives, archiving
<1>5. CASE ~s.running
  <2>1. idle \in TxState(AnyQueue) /\ CoreSame(s, idle)
    BY <1>1 DEF TxState, CoreSame
  <2> HIDE DEF idle, r
  <2> QED
    BY <1>2, <1>5, <2>1, CoreMoved DEF r, CoreSame
<1>6. CASE s.running
  <2>1. r = t
    BY <1>2, <1>6
  <2> HIDE DEF r
  <2>2. CASE msg = {}
    <3>1. persisted = s.persisted /\ queue = s.queue
      BY <2>2
    <3> HIDE DEF persisted, queue
    <3>2. /\ t \in TxState(AnyQueue) /\ t.archive = next /\ t.persisted = s.persisted /\ t.queue = s.queue
          /\ t.send = s.send /\ t.ackd = s.ackd /\ t.seqNo = s.seqNo /\ t.gap = s.gap
      BY <1>1, <1>4, <3>1 DEF TxState
    <3> HIDE DEF t
    <3> QED
      BY <1>1, <1>4, <2>1, <3>2 DEF Moved, r
  <2>3. CASE msg # {}
    <3>1. PICK n \in Nat : n < s.ackd /\ Message(n) \in s.queue.items /\ msg = {Message(n)} /\ next = n + 1
      BY <1>3, <2>3
    <3>2. Message(n) \in Item /\ End(Message(n)) = n + 1
      BY MessageIs
    <3>3. The(msg) = Message(n)
      BY <3>1 DEF The
    <3>4. queue = ShiftTo(s.queue, n + 1)
      BY <2>3, <3>2, <3>3
    <3>5. s.persisted \subseteq persisted /\ persisted \subseteq s.persisted \cup {Message(n)}
      BY <3>1
    <3>6. persisted \subseteq Item
      BY <1>1, <3>2, <3>5
    <3>7. queue \in AnyQueue
      <4>1. LET q == ShiftTo(s.queue, End(Message(n)))
            IN /\ QueueOK(q) /\ q.items = {i \in s.queue.items : i.key > Message(n).key}
               /\ q.tail = s.queue.tail /\ q.head = End(Message(n))
        BY <1>1, <3>1, ShiftToIs
      <4> QED
        BY <3>2, <3>4, <4>1 DEF QueueOK, AnyQueue
    <3> HIDE DEF persisted, queue
    <3>8. /\ t \in TxState(AnyQueue) /\ t.archive = next /\ t.persisted = persisted /\ t.queue = queue
          /\ t.send = s.send /\ t.ackd = s.ackd /\ t.seqNo = s.seqNo /\ t.gap = s.gap
      BY <1>1, <1>4, <3>6, <3>7 DEF TxState
    <3> HIDE DEF t
    <3>9. Moved(s, t)
      BY <1>4, <3>1, <3>4, <3>5, <3>8, ShiftedMoved
    <3> QED
      BY <2>1, <3>8, <3>9 DEF r
  <2> QED
    BY <2>2, <2>3
<1> QED
  BY <1>5, <1>6

\* resend()
LEMMA RunResendIs ==
  ASSUME NEW s, SenderOK(s), s.resends > 0
  PROVE  LET r == RunResend(s)
         IN /\ Moved(s, r.tx) /\ GapOK(r.tx.gap) /\ End(r.tx.gap) <= End(s.gap)
            /\ r.tx.send = s.send /\ r.tx.ackd = s.ackd
            /\ SentFrom(s, r, s.gap.key, End(s.gap))
<1> DEFINE key == s.gap.key
           end == End(s.gap)
           at == Upto(s, key, end)
           msg == IF at < end THEN Lookup(s, at) ELSE {}
           next == IF msg = {} THEN at ELSE End(The(msg))
           rest == IF next >= end THEN NoGap ELSE [key |-> next, len |-> end - next]
           more == rest # NoGap
           shift == msg # {} /\ msg \subseteq s.queue.items /\ next <= s.archive
           q == IF shift THEN ShiftTo(s.queue, next) ELSE s.queue
           resends == IF more THEN s.resends ELSE s.resends - 1
           resending == s.resending /\ more
           t == [s EXCEPT !.resends = resends, !.resending = resending, !.gap = rest, !.queue = q]
           idle == [s EXCEPT !.resends = s.resends - 1, !.resending = FALSE]
           r == RunResend(s)
<1>1. /\ s \in TxState(AnyQueue) /\ QueueOK(s.queue) /\ s.send \in Nat /\ s.seqNo \in Nat /\ s.ackd \in Nat /\ s.archive \in Nat
      /\ s.archive <= s.ackd /\ s.ackd <= s.send /\ s.send <= s.seqNo
      /\ s.resends \in Nat /\ s.resends - 1 \in Nat /\ s.resending \in BOOLEAN /\ s.queue \in AnyQueue
      /\ s.gap \in Gap /\ GapOK(s.gap)
  BY SenderFields DEF SenderOK
<1>2. key \in Nat /\ s.gap.len \in Nat /\ end = key + s.gap.len /\ end \in Nat /\ key <= end
  BY <1>1 DEF Gap, End
<1>3. /\ ~s.running => r = [tx |-> idle, gap |-> NoGap, msg |-> {}]
      /\ s.running => r = [tx |-> t, gap |-> IF at > key THEN GapFill(key, at) ELSE NoGap, msg |-> msg]
  BY DEF RunResend
<1> HIDE DEF key, end
<1>4. /\ at \in Nat /\ (at = end \/ at \in key..(end - 1))
      /\ \A n \in key..(at - 1) : ~Has(s, n)
      /\ msg = {} => at = end
      /\ msg # {} => at \in key..(end - 1) /\ Has(s, at) /\ msg = {Message(at)} /\ The(msg) = Message(at)
  BY <1>2, NextIs
<1>5. End(Message(at)) = at + 1
  BY <1>4, MessageIs
<1> HIDE DEF at, msg
<1>6. (msg = {} => next = at) /\ (msg # {} => next = at + 1) /\ next \in Nat /\ next <= end
  BY <1>2, <1>4, <1>5
<1> HIDE DEF next
<1>7. GapOK(rest) /\ End(rest) <= end
  <2>1. CASE next >= end
    BY <1>2, <2>1 DEF NoGap, Gap, GapOK, End
  <2>2. CASE ~(next >= end)
    <3>1. rest = [key |-> next, len |-> end - next] /\ end - next \in Nat /\ end - next > 0 /\ next + (end - next) = end
      BY <1>2, <1>6, <2>2
    <3> QED
      BY <1>2, <1>6, <3>1 DEF Gap, GapOK, End
  <2> QED
    BY <2>1, <2>2
<1>8. rest \in Gap
  BY <1>7 DEF GapOK
<1> HIDE DEF rest
<1>9. resends \in Nat /\ resending \in BOOLEAN
  BY <1>1
<1> HIDE DEF resends, resending, more
<1>10. CASE ~s.running
  <2>1. idle \in TxState(AnyQueue) /\ CoreSame(s, idle) /\ idle.send = s.send /\ idle.ackd = s.ackd
    BY <1>1 DEF TxState, CoreSame
  <2> HIDE DEF idle
  <2>2. Moved(s, idle) /\ idle.gap = s.gap
    BY <2>1, CoreMoved
  <2>3. r.gap = NoGap /\ r.msg = {} /\ r.tx = idle
    BY <1>3, <1>10
  <2> HIDE DEF r
  <2>4. SentFrom(s, r, key, end)
    <3>1. \A n \in key..(key - 1) : ~Has(s, n)
      BY <1>2
    <3>2. r.gap = IF key > key THEN GapFill(key, key) ELSE NoGap
      BY <1>2, <2>3
    <3> QED
      BY <1>2, <2>3, <3>1, <3>2, SentFromIs
  <2>5. End(s.gap) <= End(s.gap)
    BY <1>2 DEF end
  <2> QED
    BY <1>1, <2>1, <2>2, <2>3, <2>4, <2>5 DEF r, key, end
<1>11. CASE s.running
  <2>1. r.gap = (IF at > key THEN GapFill(key, at) ELSE NoGap) /\ r.msg = msg /\ r.tx = t
    BY <1>3, <1>11
  <2> HIDE DEF r
  <2>2. ASSUME ~shift PROVE Moved(s, t) /\ t.gap = rest /\ t.send = s.send /\ t.ackd = s.ackd
    <3>1. q = s.queue
      BY <2>2
    <3> HIDE DEF q, shift
    <3>2. /\ t \in TxState(AnyQueue) /\ t.archive = s.archive /\ t.persisted = s.persisted /\ t.queue = s.queue
          /\ t.send = s.send /\ t.ackd = s.ackd /\ t.seqNo = s.seqNo /\ t.gap = rest
      BY <1>1, <1>8, <1>9, <3>1 DEF TxState
    <3> HIDE DEF t
    <3> QED
      BY <1>1, <3>2 DEF Moved
  <2>3. ASSUME shift PROVE Moved(s, t) /\ t.gap = rest /\ t.send = s.send /\ t.ackd = s.ackd
    <3>1. msg # {} /\ msg \subseteq s.queue.items /\ next <= s.archive /\ q = ShiftTo(s.queue, next)
      BY <2>3
    <3> HIDE DEF q, shift
    <3>2. at \in Nat /\ at < s.ackd /\ Message(at) \in s.queue.items /\ q = ShiftTo(s.queue, at + 1)
      BY <1>1, <1>4, <1>6, <3>1
    <3>3. q \in AnyQueue
      <4>1. LET p == ShiftTo(s.queue, End(Message(at)))
            IN /\ QueueOK(p) /\ p.items = {i \in s.queue.items : i.key > Message(at).key}
               /\ p.tail = s.queue.tail /\ p.head = End(Message(at))
        BY <1>1, <3>2, ShiftToIs
      <4> QED
        BY <1>5, <3>2, <4>1 DEF QueueOK, AnyQueue
    <3>4. /\ t \in TxState(AnyQueue) /\ t.archive = s.archive /\ t.persisted = s.persisted /\ t.queue = q
          /\ t.send = s.send /\ t.ackd = s.ackd /\ t.seqNo = s.seqNo /\ t.gap = rest
      BY <1>1, <1>8, <1>9, <3>3 DEF TxState
    <3> HIDE DEF t
    <3>5. t.archive <= t.ackd /\ s.persisted \subseteq t.persisted /\ t.persisted \subseteq s.persisted \cup {Message(at)}
      BY <1>1, <3>4
    <3>6. Moved(s, t)
      BY <3>2, <3>4, <3>5, ShiftedMoved
    <3> QED
      BY <3>4, <3>6
  <2>4. Moved(s, t) /\ t.gap = rest /\ t.send = s.send /\ t.ackd = s.ackd
    BY <2>2, <2>3
  <2>5. SentFrom(s, r, key, end)
    <3>1. at <= end /\ (r.msg = {} \/ (Has(s, at) /\ at + 1 <= end /\ r.msg = {Message(at)}))
      BY <1>2, <1>4, <2>1
    <3> QED
      BY <1>2, <1>4, <2>1, <3>1, SentFromIs
  <2> HIDE DEF t
  <2> QED
    BY <1>7, <2>1, <2>4, <2>5 DEF r, key, end
<1> QED
  BY <1>1, <1>10, <1>11

-----------------------------------------------------------------------------
(* A send or a resend that fails: what is to be sent is set back. *)

LEMMA StoppedIs ==
  ASSUME NEW Q, NEW t \in TxState(Q)
  PROVE  Stopped(t) \in TxState(Q) /\ CoreSame(t, Stopped(t))
<1>1. CoreSame(t, t)
  BY DEF CoreSame
<1> QED
  BY <1>1, StopIs DEF Stopped

LEMMA SendFailedIs ==
  ASSUME NEW s, SenderOK(s), s.sends > 0, NEW t, Moved(s, t), CoreSame([s EXCEPT !.send = t.send], t),
         NEW sent \in Nat, s.send <= sent, sent <= t.send
  PROVE  LET u == SendFailed(Stopped(t), s, sent)
         IN Moved(s, u) /\ u.gap = s.gap /\ u.send = sent /\ u.ackd = s.ackd
<1> DEFINE v == Stopped(t)
           u == [v EXCEPT !.sends = s.sends - 1, !.sending = TRUE, !.sendFailed = TRUE, !.send = sent]
<1>1. t \in TxState(AnyQueue) /\ s \in TxState(AnyQueue) /\ s.sends - 1 \in Nat
      /\ s.send \in Nat /\ t.send \in Nat /\ s.ackd \in Nat /\ s.ackd <= s.send
  BY SenderFields DEF Moved, SenderOK
<1>2. v \in TxState(AnyQueue) /\ CoreSame(t, v)
  BY <1>1, StoppedIs
<1>3. SendFailed(Stopped(t), s, sent) = u
  BY DEF SendFailed
<1> HIDE DEF v
<1>4. /\ u \in TxState(AnyQueue) /\ u.send = sent /\ u.seqNo = v.seqNo /\ u.queue = v.queue /\ u.ackd = v.ackd
      /\ u.archive = v.archive /\ u.gap = v.gap /\ u.persisted = v.persisted
  BY <1>1, <1>2 DEF TxState
<1> HIDE DEF u
<1>5. t.ackd = s.ackd /\ t.gap = s.gap
  BY <1>1 DEF CoreSame, TxState
<1>6. /\ u.seqNo = t.seqNo /\ u.queue = t.queue /\ u.ackd = t.ackd
      /\ u.archive = t.archive /\ u.gap = t.gap /\ u.persisted = t.persisted
  BY <1>2, <1>4 DEF CoreSame
<1>7. u.send <= s.seqNo /\ s.send <= u.send /\ u.ackd <= u.send
  <2>1. t.send <= s.seqNo /\ s.seqNo \in Nat
    BY SenderFields DEF Moved, SenderOK
  <2> QED
    BY <1>1, <1>4, <1>5, <1>6, <2>1
<1>8. Moved(s, u)
  BY <1>4, <1>6, <1>7 DEF Moved
<1> QED
  BY <1>3, <1>4, <1>5, <1>6, <1>8

LEMMA ResendFailedIs ==
  ASSUME NEW s, SenderOK(s), s.resends > 0, NEW t, Moved(s, t), NEW left \in Gap
  PROVE  LET u == ResendFailed(Stopped(t), s, left)
         IN Moved(s, u) /\ u.gap = left /\ u.send = t.send /\ u.ackd = t.ackd
<1> DEFINE v == Stopped(t)
           u == [v EXCEPT !.resends = s.resends - 1, !.resending = TRUE, !.resendFailed = TRUE, !.gap = left]
<1>1. t \in TxState(AnyQueue) /\ s \in TxState(AnyQueue) /\ s.resends - 1 \in Nat
  BY SenderFields DEF Moved, SenderOK
<1>2. v \in TxState(AnyQueue) /\ CoreSame(t, v)
  BY <1>1, StoppedIs
<1>3. ResendFailed(Stopped(t), s, left) = u
  BY DEF ResendFailed
<1> HIDE DEF v
<1>4. /\ u \in TxState(AnyQueue) /\ u.send = v.send /\ u.seqNo = v.seqNo /\ u.queue = v.queue /\ u.ackd = v.ackd
      /\ u.archive = v.archive /\ u.gap = left /\ u.persisted = v.persisted
  BY <1>1, <1>2 DEF TxState
<1> HIDE DEF u
<1>5. /\ u.send = t.send /\ u.seqNo = t.seqNo /\ u.queue = t.queue /\ u.ackd = t.ackd
      /\ u.archive = t.archive /\ u.persisted = t.persisted
  BY <1>2, <1>4 DEF CoreSame
<1>6. Moved(s, u)
  BY <1>4, <1>5 DEF Moved
<1> QED
  BY <1>3, <1>4, <1>5, <1>6

LEMMA AfterIs ==
  ASSUME NEW g, GapOK(g), NEW sent, GapOK(sent), g.key + sent.len <= End(g)
  PROVE  GapOK(After(g, sent)) /\ After(g, sent) \in Gap /\ End(After(g, sent)) <= End(g)
<1>1. g.key \in Nat /\ g.len \in Nat /\ sent.len \in Nat /\ End(g) = g.key + g.len
  BY DEF GapOK, Gap, End
<1>2. CASE sent.len >= g.len
  BY <1>1, <1>2 DEF After, NoGap, GapOK, Gap, End
<1>3. CASE ~(sent.len >= g.len)
  <2>1. After(g, sent) = [key |-> g.key + sent.len, len |-> g.len - sent.len]
    BY <1>3 DEF After
  <2>2. g.key + sent.len \in Nat /\ g.len - sent.len \in Nat /\ g.len - sent.len > 0
        /\ (g.key + sent.len) + (g.len - sent.len) = g.key + g.len
    BY <1>1, <1>3
  <2> QED
    BY <1>1, <2>1, <2>2 DEF GapOK, Gap, End
<1> QED
  BY <1>2, <1>3

-----------------------------------------------------------------------------
(* What the invariant says of the two sides *)

\* No item has to be clipped that does not clip itself.
Fitting == \A u \in Uses : NoPartialOverlap(u)

Inv == Fitting /\ TypeOK /\ PQInv

\* A step that keeps the invariant, and that is a step of the sequenced channel or leaves it alone.
Follows == Inv' /\ (Channel!Next \/ UNCHANGED Channel!vars)

\* The bounds allow the step.
SameUse == use' = use /\ faults' \in 0..use'.faults

LEMMA ItemsAre ==
  Items \subseteq Item /\ \A i \in Items : i.len > 0 /\ i.key <= MaxSeq
  BY UsesAssumption DEF Items, Item, Keys

LEMMA BoundedItem ==
  ASSUME NEW i \in Item, i.len > 0, End(i) <= MaxSeq
  PROVE  i \in Items
<1>1. i.key \in Nat /\ i.len \in Nat /\ i.gap \in BOOLEAN /\ End(i) = i.key + i.len
      /\ i = [key |-> i.key, len |-> i.len, gap |-> i.gap]
  BY ItemFields
<1>2. i.key \in Keys /\ i.len \in 1..MaxSeq
  BY <1>1, UsesAssumption DEF Keys
<1> QED
  BY <1>1, <1>2 DEF Items

LEMMA BoundedQueue ==
  ASSUME NEW q, QueueOK(q), q.tail <= MaxSeq
  PROVE  q \in Queues /\ Disjoint(q)
<1>1. q.head \in Nat /\ q.tail \in Nat /\ q.head <= q.tail /\ q = [head |-> q.head, tail |-> q.tail, items |-> q.items]
  BY DEF QueueOK
<1>2. q.head \in Keys /\ q.tail \in Keys
  BY <1>1, UsesAssumption DEF Keys
<1>3. \A i \in q.items : i \in Items
  <2> SUFFICES ASSUME NEW i \in q.items PROVE i \in Items
    OBVIOUS
  <2>1. i \in Item /\ i.len > 0 /\ End(i) \in Nat /\ End(i) <= q.tail
    BY QueueItems
  <2>2. End(i) <= MaxSeq
    BY <1>1, <2>1, UsesAssumption
  <2> QED
    BY <2>1, <2>2, BoundedItem
<1> QED
  BY <1>1, <1>2, <1>3, QueueIsDisjoint DEF Queues

LEMMA QueueIs ==
  ASSUME NEW q \in Queues, Disjoint(q), q.head <= q.tail, \A i \in q.items : Fits(i)
  PROVE  QueueOK(q) /\ q \in AnyQueue /\ q.head \in Nat /\ q.tail \in Nat /\ q.items \subseteq Items
<1>1. q.head \in Keys /\ q.tail \in Keys /\ q.items \subseteq Items /\ q = [head |-> q.head, tail |-> q.tail, items |-> q.items]
  BY DEF Queues
<1>2. q.head \in Nat /\ q.tail \in Nat /\ q.items \subseteq Item
  BY <1>1, ItemsAre, UsesAssumption DEF Keys
<1>3. q \in AnyQueue
  BY <1>1, <1>2 DEF AnyQueue
<1> QED
  BY <1>1, <1>2, <1>3 DEF QueueOK, AnyQueue, Disjoint, Separate

LEMMA InvFacts ==
  ASSUME Inv
  PROVE  /\ tx \in TxState(AnyQueue) /\ rx \in RxState(AnyQueue) /\ SenderOK(tx)
         /\ QueueOK(rx.queue) /\ TightQueue(rx.queue) /\ GapOK(rx.gap)
         /\ Separate(tx.queue.items) /\ Singles(tx.queue.items) /\ Singles(tx.persisted)
         /\ tx.seqNo \in Nat /\ tx.send \in Nat /\ tx.ackd \in Nat /\ tx.archive \in Nat
         /\ rx.queue.head \in Nat /\ rx.queue.tail \in Nat /\ tx.queue.head \in Nat /\ tx.queue.tail \in Nat
         /\ aborted \subseteq Nat /\ MaxSeq \in Nat /\ covered \in Nat /\ processed \in Seq(Items)
<1>1. tx \in TxState(Queues) /\ rx \in RxState(Queues) /\ Disjoint(rx.queue) /\ Disjoint(tx.queue)
      /\ aborted \subseteq Nat /\ covered \in Nat /\ processed \in Seq(Items) /\ MaxSeq \in Nat
  BY UsesAssumption DEF Inv, TypeOK, Keys, Fitting
<1>2. rx.queue.head <= rx.queue.tail /\ tx.queue.head <= tx.queue.tail
  BY DEF Inv, PQInv, Bounded
<1>3. rx.queue \in Queues /\ tx.queue \in Queues
  BY <1>1 DEF TxState, RxState
<1>4. /\ QueueOK(rx.queue) /\ rx.queue \in AnyQueue /\ rx.queue.head \in Nat /\ rx.queue.tail \in Nat
      /\ QueueOK(tx.queue) /\ tx.queue \in AnyQueue /\ tx.queue.head \in Nat /\ tx.queue.tail \in Nat
  <2>1. \A i \in tx.queue.items : Fits(i)
    BY DEF Inv, PQInv, Kept, Fits
  <2>2. \A i \in rx.queue.items : Fits(i)
    BY DEF Inv, PQInv, Sent, Truthful
  <2> QED
    BY <1>1, <1>2, <1>3, <2>1, <2>2, QueueIs
<1>5. tx \in TxState(AnyQueue)
  BY <1>1, <1>4 DEF TxState
<1>6. rx \in RxState(AnyQueue)
  BY <1>1, <1>4 DEF RxState
<1>7. Separate(tx.queue.items) /\ tx.queue.items \subseteq Item /\ tx.persisted \subseteq Item
  BY <1>4, <1>5, SenderFields DEF QueueOK, Separate
<1>8. Singles(tx.queue.items) /\ Singles(tx.persisted)
  BY <1>7 DEF Inv, PQInv, Kept, Singles
<1>9. tx.gap \in Gap /\ rx.gap \in Gap
  BY <1>5, <1>6 DEF TxState, RxState
<1>10. GapOK(tx.gap) /\ GapOK(rx.gap)
  BY <1>9 DEF GapOK, Inv, PQInv, Asked
<1>11. SenderOK(tx)
  BY <1>4, <1>5, <1>8, <1>10 DEF SenderOK, Inv, PQInv, Bounded
<1>12. TightQueue(rx.queue)
  BY DEF TightQueue, Inv, PQInv, Tight
<1> QED
  BY <1>1, <1>4, <1>5, <1>6, <1>7, <1>8, <1>10, <1>11, <1>12, SenderFields

-----------------------------------------------------------------------------
(* The steps of the sender *)

\* A packet that may be put on the wire: an acknowledgement, or an item that is true and that
\* reaches no further than what was sent.
Sendable(p, limit) ==
  \/ p \in Acks /\ p.key <= rx.queue.head
  \/ \E i \in Item : p = [type |-> "msg", item |-> i] /\ i.len > 0 /\ End(i) <= limit /\ Truthful(i)

LEMMA SenderStep ==
  ASSUME Inv, UNCHANGED <<rx, processed, aborted, covered>>, SameUse,
         Moved(tx, tx'), tx'.ackd <= rx.queue.head,
         GapOK(tx'.gap), End(tx'.gap) <= tx'.send, End(tx'.gap) <= rx.queue.tail,
         \A p \in wire' : p \in wire \/ Sendable(p, tx'.send)
  PROVE  Follows
<1> DEFINE t == tx'
<1>1. /\ SenderOK(tx) /\ Separate(tx.queue.items) /\ Singles(tx.queue.items) /\ Singles(tx.persisted)
      /\ tx.seqNo \in Nat /\ tx.send \in Nat /\ tx.ackd \in Nat /\ rx.queue.head \in Nat /\ rx.queue.tail \in Nat
      /\ tx.queue.tail \in Nat /\ aborted \subseteq Nat /\ MaxSeq \in Nat
  BY InvFacts
<1>2. /\ t \in TxState(AnyQueue) /\ QueueOK(t.queue) /\ t.seqNo = tx.seqNo /\ t.queue.tail = tx.queue.tail
      /\ tx.send <= t.send /\ t.send <= tx.seqNo /\ tx.ackd <= t.ackd /\ t.ackd <= t.send /\ t.archive <= t.ackd
      /\ t.queue.items \subseteq tx.queue.items
      /\ \A i \in tx.queue.items : i \in t.queue.items \/ i.key < t.ackd
      /\ tx.persisted \subseteq t.persisted
      /\ \A i \in t.persisted : i \in tx.persisted \/ (i \in tx.queue.items /\ i.key < t.ackd)
  BY DEF Moved
<1>3. /\ t.seqNo \in Nat /\ t.send \in Nat /\ t.ackd \in Nat /\ t.archive \in Nat /\ t.queue.head \in Nat /\ t.queue.tail \in Nat
      /\ t.queue.head <= t.queue.tail /\ t.gap \in Gap /\ Separate(t.queue.items)
  BY <1>2, SenderFields DEF QueueOK
<1>4. /\ tx.archive <= tx.ackd /\ tx.ackd <= tx.send /\ tx.send <= tx.seqNo
      /\ tx.ackd <= rx.queue.head /\ rx.queue.head <= tx.seqNo
      /\ tx.queue.tail <= tx.seqNo
      /\ rx.queue.head <= rx.queue.tail /\ rx.queue.tail <= tx.seqNo
      /\ \A n \in aborted : n < tx.seqNo
      /\ \A p \in wire \cap Acks : p.key <= rx.queue.head
      /\ tx.seqNo <= MaxSeq
  BY DEF Inv, PQInv, Bounded
<1>5. Singles(t.queue.items)
  BY <1>1, <1>2 DEF Singles
<1>6. Singles(t.persisted)
  BY <1>1, <1>2 DEF Singles
<1>7. \A p \in wire' \cap Msgs :
        p \in wire \/ (p.item \in Item /\ p.item.len > 0 /\ End(p.item) <= t.send /\ Truthful(p.item))
  <2> SUFFICES ASSUME NEW p \in wire' \cap Msgs, p \notin wire
               PROVE  p.item \in Item /\ p.item.len > 0 /\ End(p.item) <= t.send /\ Truthful(p.item)
    OBVIOUS
  <2>1. Sendable(p, t.send) /\ p \notin Acks
    BY DEF Msgs, Acks
  <2>2. PICK i \in Item : p = [type |-> "msg", item |-> i] /\ i.len > 0 /\ End(i) <= t.send /\ Truthful(i)
    BY <2>1 DEF Sendable
  <2>3. p.item = i
    BY <2>2
  <2> QED
    BY <2>2, <2>3
<1>8. wire' \cap Asks \subseteq wire
  BY DEF Sendable, Asks, Acks
<1>9. \A p \in wire' \cap Acks : p \in wire \/ p.key <= rx.queue.head
  BY DEF Sendable, Acks
<1>10. TypeOK'
  <2>1. t.queue \in Queues /\ Disjoint(t.queue)
    <3>1. t.queue.tail <= MaxSeq
      BY <1>1, <1>2, <1>3, <1>4
    <3> QED
      BY <1>2, <3>1, BoundedQueue
  <2>2. t \in TxState(Queues)
    BY <1>2, <2>1 DEF TxState
  <2>3. wire' \subseteq Msgs \cup Asks \cup Acks
    <3> SUFFICES ASSUME NEW p \in wire', p \notin wire PROVE p \in Msgs \cup Acks
      BY DEF Inv, TypeOK
    <3>1. CASE p \in Acks
      BY <3>1
    <3>2. CASE p \notin Acks
      <4>1. PICK i \in Item : p = [type |-> "msg", item |-> i] /\ i.len > 0 /\ End(i) <= t.send
        BY <3>2 DEF Sendable
      <4>2. End(i) <= MaxSeq
        BY <1>1, <1>2, <1>3, <1>4, <4>1, ItemFields
      <4>3. i \in Items
        BY <4>1, <4>2, BoundedItem
      <4> QED
        BY <4>1, <4>3 DEF Msgs
    <3> QED
      BY <3>1, <3>2
  <2>4. rx' \in RxState(Queues) /\ processed' \in Seq(Items) /\ aborted' \subseteq Keys /\ covered' \in Keys /\ Disjoint(rx'.queue)
    BY DEF Inv, TypeOK, Fitting
  <2>5. faults' \in 0..use'.faults /\ use' \in Uses
    BY DEF Inv, TypeOK, SameUse
  <2> QED
    BY <2>1, <2>2, <2>3, <2>4, <2>5 DEF TypeOK
<1>11. Bounded'
  <2>1. t.queue.head <= t.seqNo /\ t.queue.tail <= t.seqNo
    BY <1>1, <1>2, <1>3, <1>4
  <2>2. \A p \in wire' \cap Acks : p.key <= rx.queue.head
    BY <1>4, <1>9
  <2> QED
    BY <1>1, <1>2, <1>3, <1>4, <2>1, <2>2 DEF Bounded
<1>12. Kept'
  <2>1. \A i \in t.queue.items : i.len = 1 /\ ~i.gap /\ i.key < t.seqNo /\ i.key \notin aborted
    BY <1>2 DEF Inv, PQInv, Kept
  <2>2. \A i \in t.persisted : i.len = 1 /\ ~i.gap /\ i.key < t.seqNo
    BY <1>2 DEF Inv, PQInv, Kept
  <2>3. \A i \in t.persisted : i.key < rx.queue.head
    <3> SUFFICES ASSUME NEW i \in t.persisted, i \notin tx.persisted PROVE i.key < rx.queue.head
      BY DEF Inv, PQInv, Kept
    <3>1. i.key < t.ackd /\ i.key \in Nat
      BY <1>1, <1>2, SinglesAre
    <3> QED
      BY <1>1, <1>3, <3>1
  <2> QED
    BY <2>1, <2>2, <2>3 DEF Kept
<1>13. Sent'
  <2> SUFFICES ASSUME NEW i \in MsgItems' \cup rx.queue.items PROVE i.len > 0 /\ End(i) <= t.send /\ Truthful(i)
    BY DEF Sent, Truthful
  <2>1. CASE i \in MsgItems \cup rx.queue.items
    <3>1. i.len > 0 /\ End(i) <= tx.send /\ Truthful(i)
      BY <2>1 DEF Inv, PQInv, Sent
    <3>2. End(i) \in Nat
      <4>1. CASE i \in MsgItems
        <5>1. i \in Items
          BY <4>1 DEF MsgItems, Msgs
        <5> QED
          BY <5>1, ItemsAre, ItemFields
      <4>2. CASE i \in rx.queue.items
        BY <4>2, InvFacts, QueueItems
      <4> QED
        BY <2>1, <4>1, <4>2
    <3> QED
      BY <1>1, <1>2, <1>3, <3>1, <3>2
  <2>2. CASE i \notin MsgItems \cup rx.queue.items
    <3>1. PICK p \in wire' \cap Msgs : i = p.item
      BY <2>2 DEF MsgItems
    <3>2. p \notin wire
      BY <2>2, <3>1 DEF MsgItems
    <3> QED
      BY <1>7, <3>1, <3>2
  <2> QED
    BY <2>1, <2>2
<1>14. Asked'
  <2> SUFFICES ASSUME NEW g \in AskGaps' \cup {rx.gap, t.gap}
               PROVE  End(g) <= t.send /\ End(g) <= rx.queue.tail /\ (g = NoGap \/ g.len > 0)
    BY DEF Asked
  <2>1. CASE g = t.gap
    BY <2>1 DEF GapOK
  <2>2. CASE g \in AskGaps \cup {rx.gap}
    <3>1. End(g) <= tx.send /\ End(g) <= rx.queue.tail /\ (g = NoGap \/ g.len > 0)
      BY <2>2 DEF Inv, PQInv, Asked
    <3>2. End(g) \in Nat
      <4>1. g \in Gap
        <5>1. CASE g \in AskGaps
          BY <5>1, <1>1 DEF AskGaps, Asks, Gap, Keys
        <5>2. CASE g = rx.gap
          BY <5>2, InvFacts DEF GapOK
        <5> QED
          BY <2>2, <5>1, <5>2
      <4> QED
        BY <4>1 DEF Gap, End
    <3> QED
      BY <1>1, <1>2, <1>3, <3>1, <3>2
  <2>3. g \in AskGaps \cup {rx.gap, t.gap}
    BY <1>8 DEF AskGaps
  <2> QED
    BY <2>1, <2>2, <2>3
<1>15. Tight'
  BY DEF Inv, PQInv, Tight
<1>16. Delivered'
  BY DEF Inv, PQInv, Delivered, Channel!Next0
<1>17. NothingDropped'
  <2> SUFFICES ASSUME NEW n \in 0..(t.seqNo - 1), ~(n < rx.queue.head), n \notin aborted
               PROVE  Lookup(t, n) # {}
    BY DEF NothingDropped
  <2>1. n \in Nat /\ n \in 0..(tx.seqNo - 1)
    BY <1>2
  <2>2. Lookup(tx, n) # {}
    BY <2>1 DEF Inv, PQInv, NothingDropped
  <2>3. Has(tx, n)
    BY <1>1, <2>1, <2>2, CanLookup
  <2>4. Message(n) \in tx.queue.items => Message(n) \in t.queue.items
    <3>1. Message(n).key = n
      BY <2>1, MessageIs
    <3>2. ~(n < t.ackd)
      BY <1>1, <1>3, <2>1
    <3> QED
      BY <1>2, <3>1, <3>2
  <2>5. Has(t, n)
    BY <1>2, <2>3, <2>4 DEF Has
  <2> QED
    BY <1>3, <1>5, <1>6, <2>1, <2>5, CanLookup
<1>18. UNCHANGED Channel!vars
  BY <1>2 DEF Channel!vars
<1> QED
  BY <1>10, <1>11, <1>12, <1>13, <1>14, <1>15, <1>16, <1>17, <1>18 DEF Follows, Inv, PQInv

LEMMA FaultIs ==
  ASSUME Inv, UNCHANGED use, Fault \/ UNCHANGED faults
  PROVE  SameUse
<1>1. use.faults \in Nat /\ faults \in 0..use.faults
  BY UsesAssumption DEF Inv, TypeOK
<1> QED
  BY <1>1 DEF SameUse, Fault

LEMMA SendableMore ==
  ASSUME NEW a \in Nat, NEW b \in Nat, a <= b, NEW p, Sendable(p, a)
  PROVE  Sendable(p, b)
<1>1. \A i \in Item : End(i) \in Nat
  BY ItemFields
<1> QED
  BY <1>1 DEF Sendable

LEMMA SentIsTruthful ==
  ASSUME Inv, NEW key \in Nat, NEW limit \in Nat, limit <= tx.seqNo, NEW r, SentFrom(tx, r, key, limit)
  PROVE  /\ \A p \in GapMsgs(r.gap) : Sendable(p, key + r.gap.len)
         /\ \A p \in DataMsgs(r.msg) : Sendable(p, limit)
         /\ GapOK(r.gap) /\ r.gap.len \in Nat /\ key + r.gap.len <= limit
<1>1. GapOK(r.gap) /\ (r.gap = NoGap \/ r.gap.key = key) /\ key + r.gap.len <= limit
      /\ r.gap.key \in Nat /\ r.gap.len \in Nat /\ (r.gap = NoGap \/ r.gap.len > 0)
  BY DEF SentFrom, GapOK, Gap
<1>2. tx.seqNo \in Nat /\ Separate(tx.queue.items) /\ Singles(tx.queue.items) /\ Singles(tx.persisted)
  BY InvFacts
<1>3. \A p \in GapMsgs(r.gap) : Sendable(p, key + r.gap.len)
  <2> SUFFICES ASSUME NEW i \in Fills(r.gap)
               PROVE  Sendable([type |-> "msg", item |-> i], key + r.gap.len)
    BY DEF GapMsgs, DataMsgs
  <2>1. r.gap # NoGap /\ r.gap.key = key /\ r.gap.len > 0
    BY <1>1 DEF Fills
  <2>2. End(r.gap) = key + r.gap.len
    BY <2>1 DEF End
  <2>3. i \in Item /\ i.len > 0 /\ i.gap /\ key <= i.key /\ End(i) <= key + r.gap.len /\ Fits(i)
    <3>1. CASE use.fills = "long"
      <4>1. i = [key |-> key, len |-> r.gap.len, gap |-> TRUE]
        BY <2>1, <3>1 DEF Fills
      <4>2. Clips = TRUE
        BY <3>1, UsesAssumption DEF Inv, TypeOK, Fitting, NoPartialOverlap
      <4>3. i \in Item /\ i.key = key /\ i.len = r.gap.len /\ i.gap
        BY <1>1, <4>1 DEF Item
      <4> QED
        BY <1>1, <2>1, <4>2, <4>3 DEF End, Fits
    <3>2. CASE use.fills # "long"
      <4>0. i \in {[key |-> n, len |-> 1, gap |-> TRUE] : n \in r.gap.key..(End(r.gap) - 1)}
        BY <2>1, <3>2 DEF Fills
      <4>1. PICK n \in r.gap.key..(End(r.gap) - 1) : i = [key |-> n, len |-> 1, gap |-> TRUE]
        BY <4>0
      <4>2. n \in Nat /\ key <= n /\ n + 1 <= key + r.gap.len
        BY <1>1, <2>1, <2>2
      <4>3. i \in Item /\ i.key = n /\ i.len = 1 /\ i.gap
        BY <4>1, <4>2 DEF Item
      <4> QED
        BY <4>2, <4>3 DEF End, Fits
    <3> QED
      BY <3>1, <3>2
  <2>4. Truthful(i)
    <3> SUFFICES ASSUME NEW n \in i.key..(End(i) - 1) PROVE n < rx.queue.head \/ n \in aborted
      BY <2>3, ItemFields DEF Truthful
    <3>1. n \in key..(key + r.gap.len - 1) /\ n \in 0..(tx.seqNo - 1) /\ n \in Nat
      BY <1>1, <1>2, <2>3, ItemFields
    <3>2. ~Has(tx, n)
      BY <3>1 DEF SentFrom
    <3>3. Lookup(tx, n) = {}
      BY <1>2, <3>1, <3>2, CanLookup
    <3> QED
      BY <3>1, <3>3 DEF Inv, PQInv, NothingDropped
  <2> QED
    BY <2>3, <2>4 DEF Sendable
<1>4. \A p \in DataMsgs(r.msg) : Sendable(p, limit)
  <2> SUFFICES ASSUME r.msg # {} PROVE \A p \in DataMsgs(r.msg) : Sendable(p, limit)
    BY DEF DataMsgs
  <2>1. PICK n \in Nat : Has(tx, n) /\ n + 1 <= limit /\ r.msg = {Message(n)}
    BY DEF SentFrom
  <2>2. Message(n) \in Item /\ Message(n).key = n /\ Message(n).len = 1 /\ ~Message(n).gap /\ End(Message(n)) = n + 1
    BY MessageIs
  <2>3. n < rx.queue.head \/ n \notin aborted
    BY <2>1, <2>2 DEF Has, Inv, PQInv, Kept
  <2>4. Truthful(Message(n))
    BY <2>2, <2>3 DEF Truthful, Fits
  <2>5. DataMsgs(r.msg) = {[type |-> "msg", item |-> Message(n)]}
    BY <2>1 DEF DataMsgs
  <2>6. Message(n).len > 0 /\ End(Message(n)) <= limit
    BY <2>1, <2>2
  <2> QED
    BY <2>2, <2>4, <2>5, <2>6 DEF Sendable
<1> QED
  BY <1>1, <1>3, <1>4

\* A step that changes neither what is to be sent again nor, other than by a loss, the network.
LEMMA QuietStep ==
  ASSUME Inv, UNCHANGED <<rx, processed, aborted, covered>>, SameUse,
         Moved(tx, tx'), tx'.gap = tx.gap, tx'.ackd <= rx.queue.head,
         \A p \in wire' : p \in wire \/ Sendable(p, tx'.send)
  PROVE  Follows
<1>1. GapOK(tx.gap) /\ tx.send \in Nat /\ rx.queue.tail \in Nat
  BY InvFacts DEF SenderOK
<1>2. End(tx.gap) <= tx.send /\ End(tx.gap) <= rx.queue.tail
  BY DEF Inv, PQInv, Asked
<1>3. tx'.send \in Nat /\ tx.send <= tx'.send /\ End(tx.gap) \in Nat
  BY <1>1, SenderFields DEF Moved, GapOK, Gap, End
<1>4. GapOK(tx'.gap) /\ End(tx'.gap) <= tx'.send /\ End(tx'.gap) <= rx.queue.tail
  BY <1>1, <1>2, <1>3
<1> QED
  BY <1>4, SenderStep

\* A step that leaves the numbers and the messages as they are.
LEMMA SameStep ==
  ASSUME Inv, UNCHANGED <<rx, processed, aborted, covered>>, SameUse,
         tx' \in TxState(AnyQueue), CoreSame(tx, tx'),
         \A p \in wire' : p \in wire \/ Sendable(p, tx'.send)
  PROVE  Follows
<1>1. Moved(tx, tx') /\ tx'.gap = tx.gap
  <2>1. SenderOK(tx)
    BY InvFacts
  <2> QED
    BY <2>1, CoreMoved
<1>2. tx'.ackd <= rx.queue.head
  BY DEF CoreSame, Inv, PQInv, Bounded
<1> QED
  BY <1>1, <1>2, QuietStep

LEMMA StartStep ==
  ASSUME Inv, UNCHANGED use, StartSender
  PROVE  Follows
<1>1. tx \in TxState(AnyQueue) /\ tx.running \in BOOLEAN
  BY InvFacts, SenderFields
<1>2. tx' \in TxState(AnyQueue) /\ CoreSame(tx, tx')
  BY <1>1, WakeIs DEF StartSender, Start
<1>3. SameUse
  BY FaultIs DEF StartSender, TxUnchanged
<1> QED
  BY <1>2, <1>3, SameStep DEF StartSender, TxUnchanged

LEMMA StopStep ==
  ASSUME Inv, UNCHANGED use, StopSender
  PROVE  Follows
<1>1. tx \in TxState(AnyQueue)
  BY InvFacts
<1>2. tx' \in TxState(AnyQueue) /\ CoreSame(tx, tx')
  BY <1>1, StopIs DEF StopSender
<1>3. SameUse
  BY FaultIs DEF StopSender
<1> QED
  BY <1>2, <1>3, SameStep DEF StopSender

LEMMA LoseStep ==
  ASSUME Inv, UNCHANGED use, Lose
  PROVE  Follows
<1>1. tx' = tx /\ tx \in TxState(AnyQueue) /\ CoreSame(tx, tx)
  BY InvFacts DEF CoreSame, Lose
<1>2. SameUse
  BY FaultIs DEF Lose
<1> QED
  BY <1>1, <1>2, SameStep DEF Lose

LEMMA SendAckStep ==
  ASSUME Inv, UNCHANGED use, SendAck
  PROVE  Follows
<1>1. tx' = tx /\ tx \in TxState(AnyQueue) /\ CoreSame(tx, tx)
  BY InvFacts DEF CoreSame, SendAck
<1>2. SameUse
  BY FaultIs DEF SendAck
<1>3. [type |-> "ack", key |-> rx.queue.head] \in Acks
  <2>1. rx.queue.head \in Keys
    BY InvFacts, UsesAssumption DEF Inv, PQInv, Bounded, Keys
  <2> QED
    BY <2>1 DEF Acks
<1>4. Sendable([type |-> "ack", key |-> rx.queue.head], tx'.send)
  BY <1>3, InvFacts DEF Sendable
<1>5. \A p \in wire' : p \in wire \/ Sendable(p, tx'.send)
  BY <1>4 DEF SendAck
<1> QED
  BY <1>1, <1>2, <1>5, SameStep DEF SendAck

LEMMA RunArchiveStep ==
  ASSUME Inv, UNCHANGED use, RunArchiveJob
  PROVE  Follows
<1>1. Moved(tx, tx') /\ tx'.gap = tx.gap /\ tx'.ackd = tx.ackd
  BY InvFacts, RunArchiveIs DEF RunArchiveJob
<1>2. SameUse
  BY FaultIs DEF RunArchiveJob, TxUnchanged
<1>3. tx'.ackd <= rx.queue.head
  BY <1>1 DEF Inv, PQInv, Bounded
<1> QED
  BY <1>1, <1>2, <1>3, QuietStep DEF RunArchiveJob, TxUnchanged

LEMMA RunSendStep ==
  ASSUME Inv, UNCHANGED use, RunSendJob
  PROVE  Follows
<1> DEFINE r == RunSend(tx)
<1>1. SenderOK(tx) /\ tx.send \in Nat /\ tx.seqNo \in Nat /\ tx.sends > 0
  BY InvFacts DEF RunSendJob
<1>2. /\ Moved(tx, r.tx) /\ r.tx.gap = tx.gap /\ SentFrom(tx, r, tx.send, r.tx.send)
      /\ CoreSame([tx EXCEPT !.send = r.tx.send], r.tx)
  BY <1>1, RunSendIs
<1>3. /\ \/ /\ tx' = r.tx /\ wire' = wire \cup GapMsgs(r.gap) \cup DataMsgs(r.msg)
            /\ UNCHANGED faults
         \/ /\ Fault
            /\ \/ /\ r.gap # NoGap
                  /\ tx' = SendFailed(Stopped(r.tx), tx, tx.send) /\ UNCHANGED wire
               \/ /\ r.msg # {}
                  /\ tx' = SendFailed(Stopped(r.tx), tx, tx.send + r.gap.len)
                  /\ wire' = wire \cup GapMsgs(r.gap)
      /\ UNCHANGED <<rx, processed, aborted, covered>>
  BY DEF RunSendJob
<1> HIDE DEF r
<1>4. r.tx.send \in Nat /\ tx.send <= r.tx.send /\ r.tx.send <= tx.seqNo
  BY <1>2, SenderFields DEF Moved
<1>5. /\ \A p \in GapMsgs(r.gap) : Sendable(p, tx.send + r.gap.len)
      /\ \A p \in DataMsgs(r.msg) : Sendable(p, r.tx.send)
      /\ r.gap.len \in Nat /\ tx.send + r.gap.len <= r.tx.send /\ tx.send + r.gap.len \in Nat
      /\ tx.send <= tx.send + r.gap.len
  <2>1. /\ \A p \in GapMsgs(r.gap) : Sendable(p, tx.send + r.gap.len)
        /\ \A p \in DataMsgs(r.msg) : Sendable(p, r.tx.send)
        /\ r.gap.len \in Nat /\ tx.send + r.gap.len <= r.tx.send
    BY <1>1, <1>2, <1>4, SentIsTruthful
  <2> QED
    BY <1>1, <2>1
<1>6. SameUse
  BY <1>3, FaultIs
<1>7. tx.ackd <= rx.queue.head
  BY DEF Inv, PQInv, Bounded
<1>8. r.tx.ackd = tx.ackd
  BY <1>1, <1>2 DEF CoreSame, SenderOK, TxState
<1>9. CASE tx' = r.tx /\ wire' = wire \cup GapMsgs(r.gap) \cup DataMsgs(r.msg)
  <2>1. \A p \in GapMsgs(r.gap) : Sendable(p, r.tx.send)
    BY <1>4, <1>5, SendableMore
  <2>2. \A p \in wire' : p \in wire \/ Sendable(p, tx'.send)
    BY <1>5, <1>9, <2>1
  <2> QED
    BY <1>2, <1>3, <1>6, <1>7, <1>8, <1>9, <2>2, QuietStep
<1>10. CASE tx' = SendFailed(Stopped(r.tx), tx, tx.send) /\ UNCHANGED wire
  <2>1. LET u == SendFailed(Stopped(r.tx), tx, tx.send)
        IN Moved(tx, u) /\ u.gap = tx.gap /\ u.send = tx.send /\ u.ackd = tx.ackd
    BY <1>1, <1>2, <1>4, SendFailedIs
  <2> QED
    BY <1>3, <1>6, <1>7, <1>10, <2>1, QuietStep
<1>11. CASE tx' = SendFailed(Stopped(r.tx), tx, tx.send + r.gap.len) /\ wire' = wire \cup GapMsgs(r.gap)
  <2>1. LET u == SendFailed(Stopped(r.tx), tx, tx.send + r.gap.len)
        IN Moved(tx, u) /\ u.gap = tx.gap /\ u.send = tx.send + r.gap.len /\ u.ackd = tx.ackd
    BY <1>1, <1>2, <1>4, <1>5, SendFailedIs
  <2>2. \A p \in wire' : p \in wire \/ Sendable(p, tx'.send)
    BY <1>5, <1>11, <2>1
  <2> QED
    BY <1>3, <1>6, <1>7, <1>11, <2>1, <2>2, QuietStep
<1> QED
  BY <1>3, <1>9, <1>10, <1>11

LEMMA RunResendStep ==
  ASSUME Inv, UNCHANGED use, RunResendJob
  PROVE  Follows
<1> DEFINE r == RunResend(tx)
           end == End(tx.gap)
<1>1. SenderOK(tx) /\ tx.send \in Nat /\ tx.seqNo \in Nat /\ tx.resends > 0 /\ rx.queue.tail \in Nat
  BY InvFacts DEF RunResendJob
<1>2. /\ Moved(tx, r.tx) /\ GapOK(r.tx.gap) /\ End(r.tx.gap) <= end /\ r.tx.send = tx.send /\ r.tx.ackd = tx.ackd
      /\ SentFrom(tx, r, tx.gap.key, end)
  BY <1>1, RunResendIs
<1>3. /\ \/ /\ tx' = r.tx /\ wire' = wire \cup GapMsgs(r.gap) \cup DataMsgs(r.msg)
            /\ UNCHANGED faults
         \/ /\ Fault
            /\ \/ /\ r.gap # NoGap
                  /\ tx' = ResendFailed(Stopped(r.tx), tx, tx.gap) /\ UNCHANGED wire
               \/ /\ r.msg # {}
                  /\ tx' = ResendFailed(Stopped(r.tx), tx, After(tx.gap, r.gap))
                  /\ wire' = wire \cup GapMsgs(r.gap)
      /\ UNCHANGED <<rx, processed, aborted, covered>>
  BY DEF RunResendJob
<1> HIDE DEF r
<1>4. /\ GapOK(tx.gap) /\ tx.gap \in Gap /\ tx.gap.key \in Nat /\ end \in Nat /\ end <= tx.send /\ end <= rx.queue.tail
      /\ end <= tx.seqNo /\ tx.gap.key <= end
  <2>1. GapOK(tx.gap) /\ end <= tx.send /\ end <= rx.queue.tail /\ tx.send <= tx.seqNo
    BY <1>1 DEF SenderOK, Inv, PQInv, Asked
  <2> QED
    BY <1>1, <2>1 DEF GapOK, Gap, End
<1> HIDE DEF end
<1>5. /\ \A p \in GapMsgs(r.gap) : Sendable(p, tx.gap.key + r.gap.len)
      /\ \A p \in DataMsgs(r.msg) : Sendable(p, end)
      /\ GapOK(r.gap) /\ r.gap.len \in Nat /\ tx.gap.key + r.gap.len <= end /\ tx.gap.key + r.gap.len \in Nat
  <2>1. /\ \A p \in GapMsgs(r.gap) : Sendable(p, tx.gap.key + r.gap.len)
        /\ \A p \in DataMsgs(r.msg) : Sendable(p, end)
        /\ GapOK(r.gap) /\ r.gap.len \in Nat /\ tx.gap.key + r.gap.len <= end
    BY <1>2, <1>4, SentIsTruthful
  <2> QED
    BY <1>4, <2>1
<1>6. SameUse
  BY <1>3, FaultIs
<1>7. tx.ackd <= rx.queue.head
  BY DEF Inv, PQInv, Bounded
<1>8. tx.gap.key + r.gap.len <= tx.send
  BY <1>1, <1>4, <1>5
<1>9. \A p \in GapMsgs(r.gap) \cup DataMsgs(r.msg) : Sendable(p, tx.send)
  BY <1>1, <1>4, <1>5, <1>8, SendableMore
<1>10. ASSUME NEW g, GapOK(g), End(g) <= end
       PROVE  End(g) <= tx.send /\ End(g) <= rx.queue.tail
  BY <1>1, <1>4, <1>10 DEF GapOK, Gap, End
<1>11. CASE tx' = r.tx /\ wire' = wire \cup GapMsgs(r.gap) \cup DataMsgs(r.msg)
  <2>1. tx'.send = tx.send /\ tx'.ackd = tx.ackd /\ Moved(tx, tx') /\ GapOK(tx'.gap) /\ End(tx'.gap) <= end
    BY <1>2, <1>11
  <2>2. \A p \in wire' : p \in wire \/ Sendable(p, tx'.send)
    BY <1>9, <1>11, <2>1
  <2>3. End(tx'.gap) <= tx'.send /\ End(tx'.gap) <= rx.queue.tail
    BY <1>10, <2>1
  <2> QED
    BY <1>3, <1>6, <1>7, <2>1, <2>2, <2>3, SenderStep
<1>12. CASE tx' = ResendFailed(Stopped(r.tx), tx, tx.gap) /\ UNCHANGED wire
  <2>1. LET u == ResendFailed(Stopped(r.tx), tx, tx.gap)
        IN Moved(tx, u) /\ u.gap = tx.gap /\ u.send = r.tx.send /\ u.ackd = r.tx.ackd
    BY <1>1, <1>2, <1>4, ResendFailedIs
  <2> QED
    BY <1>2, <1>3, <1>6, <1>7, <1>12, <2>1, QuietStep
<1>13. CASE tx' = ResendFailed(Stopped(r.tx), tx, After(tx.gap, r.gap)) /\ wire' = wire \cup GapMsgs(r.gap)
  <2>1. GapOK(After(tx.gap, r.gap)) /\ After(tx.gap, r.gap) \in Gap /\ End(After(tx.gap, r.gap)) <= end
    BY <1>4, <1>5, AfterIs DEF end
  <2>2. LET u == ResendFailed(Stopped(r.tx), tx, After(tx.gap, r.gap))
        IN Moved(tx, u) /\ u.gap = After(tx.gap, r.gap) /\ u.send = r.tx.send /\ u.ackd = r.tx.ackd
    BY <1>1, <1>2, <2>1, ResendFailedIs
  <2>3. tx'.send = tx.send /\ tx'.ackd = tx.ackd /\ Moved(tx, tx') /\ GapOK(tx'.gap) /\ End(tx'.gap) <= end
    BY <1>2, <1>13, <2>1, <2>2
  <2>4. \A p \in wire' : p \in wire \/ Sendable(p, tx'.send)
    BY <1>9, <1>13, <2>3
  <2>5. End(tx'.gap) <= tx'.send /\ End(tx'.gap) <= rx.queue.tail
    BY <1>10, <2>3
  <2> QED
    BY <1>3, <1>6, <1>7, <2>3, <2>4, <2>5, SenderStep
<1> QED
  BY <1>3, <1>11, <1>12, <1>13

\* A request to resend is for what was sent.
LEMMA AskStep ==
  ASSUME Inv, UNCHANGED use, DeliverAsk
  PROVE  Follows
<1>1. PICK p \in wire \cap Asks :
        /\ tx' = Resend(tx, p.gap) /\ Taken(p)
        /\ UNCHANGED <<rx, processed, aborted, covered>>
  BY DEF DeliverAsk
<1> DEFINE g == p.gap
<1>2. g \in AskGaps /\ g \in Gap /\ g.len > 0 /\ g.len \in Nat
  BY <1>1, InvFacts DEF AskGaps, Asks, Gap, Keys
<1>3. End(g) <= tx.send /\ End(g) <= rx.queue.tail /\ End(tx.gap) <= tx.send /\ End(tx.gap) <= rx.queue.tail
  BY <1>2 DEF Inv, PQInv, Asked
<1> HIDE DEF g
<1>4. LET t == Resend(tx, g)
      IN Moved(tx, t) /\ GapOK(t.gap) /\ (End(t.gap) = End(g) \/ End(t.gap) = End(tx.gap)) /\ t.ackd = tx.ackd /\ t.send = tx.send
  <2>1. SenderOK(tx)
    BY InvFacts
  <2>2. tx \in TxState(AnyQueue)
    BY InvFacts
  <2>3. Resend(tx, g).ackd = tx.ackd /\ Resend(tx, g).send = tx.send
    BY <2>2 DEF Resend, TxState
  <2> QED
    BY <1>2, <2>1, <2>3, ResendIs
<1>5. tx' = Resend(tx, g)
  BY <1>1 DEF g
<1>6. SameUse
  BY <1>1, FaultIs DEF Taken
<1>7. wire' \subseteq wire
  BY <1>1 DEF Taken
<1>8. tx'.ackd <= rx.queue.head
  BY <1>4, <1>5 DEF Inv, PQInv, Bounded
<1>9. End(tx'.gap) <= tx'.send /\ End(tx'.gap) <= rx.queue.tail
  BY <1>3, <1>4, <1>5
<1> QED
  BY <1>1, <1>4, <1>5, <1>6, <1>7, <1>8, <1>9, SenderStep

LEMMA AckStep ==
  ASSUME Inv, UNCHANGED use, DeliverAck
  PROVE  Follows
<1>1. PICK p \in wire \cap Acks :
        /\ tx' = Ackd(tx, p.key) /\ Taken(p)
        /\ UNCHANGED <<rx, processed, aborted, covered>>
  BY DEF DeliverAck
<1>2. p.key \in Nat /\ p.key <= rx.queue.head /\ rx.queue.head <= tx.seqNo /\ tx.ackd <= rx.queue.head
  BY <1>1, InvFacts DEF Acks, Keys, Inv, PQInv, Bounded
<1>3. p.key <= tx.seqNo /\ SenderOK(tx)
  BY <1>2, InvFacts
<1>4. LET t == Ackd(tx, p.key)
      IN Moved(tx, t) /\ t.gap = tx.gap /\ (t.ackd = tx.ackd \/ t.ackd = p.key)
  BY <1>2, <1>3, AckdIs
<1>5. SameUse
  BY <1>1, FaultIs DEF Taken
<1>6. wire' \subseteq wire
  BY <1>1 DEF Taken
<1>7. tx'.ackd <= rx.queue.head
  BY <1>1, <1>2, <1>4
<1> QED
  BY <1>1, <1>4, <1>5, <1>6, <1>7, QuietStep

LEMMA SendNewStep ==
  ASSUME Inv, UNCHANGED use, SendNew
  PROVE  Follows
<1> DEFINE t == tx'
           m == Message(tx.seqNo)
<1>1. /\ SenderOK(tx) /\ Separate(tx.queue.items) /\ Singles(tx.queue.items) /\ Singles(tx.persisted)
      /\ tx.seqNo \in Nat /\ tx.send \in Nat /\ tx.ackd \in Nat /\ rx.queue.head \in Nat /\ rx.queue.tail \in Nat
      /\ aborted \subseteq Nat /\ MaxSeq \in Nat /\ tx.queue.head \in Nat
  BY InvFacts
<1>2. /\ UNCHANGED <<rx, wire, processed, aborted, covered, faults, use>>
      /\ tx.seqNo < use.messages /\ t = Send(tx)
  BY DEF SendNew, TxUnchanged
<1>3. /\ t \in TxState(AnyQueue) /\ QueueOK(t.queue) /\ t.queue.tail = tx.seqNo + 1 /\ t.queue.head = tx.queue.head
      /\ t.queue.items = tx.queue.items \cup {m}
      /\ t.seqNo = tx.seqNo + 1 /\ t.send = tx.send /\ t.ackd = tx.ackd /\ t.archive = tx.archive
      /\ t.gap = tx.gap /\ t.persisted = tx.persisted
  BY <1>1, <1>2, SendIs
<1>4. m \in Item /\ m.key = tx.seqNo /\ m.len = 1 /\ ~m.gap
  BY <1>1, MessageIs
<1> HIDE DEF t, m
<1>5. tx.seqNo + 1 <= MaxSeq
  <2>1. use.messages \in 0..MaxSeq
    BY UsesAssumption DEF Inv, TypeOK
  <2> QED
    BY <1>1, <1>2, <2>1
<1>6. TypeOK'
  <2>1. t.queue \in Queues /\ Disjoint(t.queue)
    BY <1>3, <1>5, BoundedQueue
  <2>2. t \in TxState(Queues)
    BY <1>3, <2>1 DEF TxState
  <2> QED
    BY <1>2, <2>1, <2>2 DEF Inv, TypeOK, t
<1>7. Bounded'
  <2>1. /\ tx.archive <= tx.ackd /\ tx.ackd <= tx.send /\ tx.send <= tx.seqNo
        /\ tx.ackd <= rx.queue.head /\ rx.queue.head <= tx.seqNo /\ tx.queue.head <= tx.seqNo
        /\ rx.queue.head <= rx.queue.tail /\ rx.queue.tail <= tx.seqNo
        /\ (\A n \in aborted : n < tx.seqNo)
        /\ \A p \in wire \cap Acks : p.key <= rx.queue.head
    BY DEF Inv, PQInv, Bounded
  <2>2. /\ t.send <= t.seqNo /\ rx.queue.head <= t.seqNo /\ t.queue.head <= t.seqNo /\ rx.queue.tail <= t.seqNo
        /\ t.queue.tail <= t.seqNo /\ t.queue.head <= t.queue.tail /\ t.seqNo <= MaxSeq
    BY <1>1, <1>3, <1>5, <2>1
  <2>3. \A n \in aborted : n < t.seqNo
    BY <1>1, <1>3, <2>1
  <2> QED
    BY <1>2, <1>3, <2>1, <2>2, <2>3 DEF Bounded, t
<1>8. Kept'
  <2>1. \A i \in tx.queue.items \cup tx.persisted : i.key \in Nat /\ i.len = 1 /\ ~i.gap /\ i.key < tx.seqNo
    BY <1>1, SinglesAre DEF Inv, PQInv, Kept
  <2>2. \A i \in t.queue.items \cup t.persisted : i.len = 1 /\ ~i.gap /\ i.key < t.seqNo
    BY <1>1, <1>3, <1>4, <2>1
  <2>3. tx.seqNo \notin aborted
    BY <1>1 DEF Inv, PQInv, Bounded
  <2>4. \A i \in t.queue.items : i.key \notin aborted
    BY <1>3, <1>4, <2>3 DEF Inv, PQInv, Kept
  <2> QED
    BY <1>2, <1>3, <2>2, <2>4 DEF Inv, PQInv, Kept, t
<1>9. Sent'
  BY <1>2, <1>3 DEF Inv, PQInv, Sent, MsgItems, Truthful, t
<1>10. Asked'
  BY <1>2, <1>3 DEF Inv, PQInv, Asked, AskGaps, t
<1>11. Tight' /\ Delivered'
  BY <1>2 DEF Inv, PQInv, Tight, Delivered, Channel!Next0
<1>12. NothingDropped'
  <2> SUFFICES ASSUME NEW n \in 0..(t.seqNo - 1), ~(n < rx.queue.head), n \notin aborted
               PROVE  Lookup(t, n) # {}
    BY <1>2 DEF NothingDropped, t
  <2>1. n \in Nat /\ (n \in 0..(tx.seqNo - 1) \/ n = tx.seqNo)
    BY <1>1, <1>3
  <2>2. Has(t, n)
    <3>1. CASE n \in 0..(tx.seqNo - 1)
      <4>1. Lookup(tx, n) # {}
        BY <3>1 DEF Inv, PQInv, NothingDropped
      <4>2. Has(tx, n)
        BY <1>1, <2>1, <4>1, CanLookup
      <4> QED
        BY <1>3, <4>2 DEF Has
    <3>2. CASE n = tx.seqNo
      BY <1>3, <3>2 DEF Has, m
    <3> QED
      BY <2>1, <3>1, <3>2
  <2>3. Separate(t.queue.items) /\ Singles(t.queue.items) /\ Singles(t.persisted)
    BY <1>1, <1>3, <1>4 DEF QueueOK, Singles
  <2> QED
    BY <2>1, <2>2, <2>3, CanLookup
<1>13. Channel!Submit
  BY <1>2, <1>3 DEF Channel!Submit, t
<1> QED
  BY <1>6, <1>7, <1>8, <1>9, <1>10, <1>11, <1>12, <1>13 DEF Follows, Inv, PQInv, Channel!Next

\* Only a message that was not sent is aborted.
LEMMA AbortOneStep ==
  ASSUME Inv, UNCHANGED use, AbortOne
  PROVE  Follows
<1> DEFINE t == tx'
<1>1. /\ SenderOK(tx) /\ Separate(tx.queue.items) /\ Singles(tx.queue.items) /\ Singles(tx.persisted)
      /\ tx.seqNo \in Nat /\ tx.send \in Nat /\ tx.ackd \in Nat /\ rx.queue.head \in Nat /\ rx.queue.tail \in Nat
      /\ aborted \subseteq Nat /\ MaxSeq \in Nat /\ tx.queue.head \in Nat /\ tx.queue.tail \in Nat
  BY InvFacts
<1>2. PICK i \in tx.queue.items : i.key >= tx.send /\ t = AbortMsg(tx, i.key) /\ aborted' = aborted \cup {i.key}
  BY DEF AbortOne
<1>3. UNCHANGED <<rx, wire, processed, covered, faults, use>>
  BY DEF AbortOne
<1>4. PICK k \in Nat : k = i.key
  BY <1>1, SinglesAre
<1>5. /\ t \in TxState(AnyQueue) /\ QueueOK(t.queue) /\ t.queue.tail = tx.queue.tail /\ t.queue.head = tx.queue.head
      /\ t.queue.items = {j \in tx.queue.items : j.key # k}
      /\ t.seqNo = tx.seqNo /\ t.send = tx.send /\ t.ackd = tx.ackd /\ t.archive = tx.archive
      /\ t.gap = tx.gap /\ t.persisted = tx.persisted
  <2>1. tx.send <= k
    BY <1>1, <1>2, <1>4
  <2> QED
    BY <1>1, <1>2, <1>4, <2>1, AbortMsgIs
<1> HIDE DEF t
<1>6. /\ tx.send <= k /\ k < tx.seqNo /\ tx.seqNo <= MaxSeq /\ tx.queue.tail <= tx.seqNo
      /\ aborted' = aborted \cup {k}
  BY <1>1, <1>2, <1>4 DEF Inv, PQInv, Kept, Bounded
<1>7. TypeOK'
  <2>1. t.queue \in Queues /\ Disjoint(t.queue)
    <3>1. t.queue.tail <= MaxSeq
      BY <1>1, <1>5, <1>6
    <3> QED
      BY <1>5, <3>1, BoundedQueue
  <2>2. t \in TxState(Queues)
    BY <1>5, <2>1 DEF TxState
  <2>3. aborted' \subseteq Keys
    <3>1. aborted \subseteq Keys
      BY DEF Inv, TypeOK
    <3>2. k \in Keys
      BY <1>1, <1>6 DEF Keys
    <3> QED
      BY <1>6, <3>1, <3>2
  <2> QED
    BY <1>3, <2>1, <2>2, <2>3 DEF Inv, TypeOK, t
<1>8. Bounded'
  <2>1. \A n \in aborted' : n < tx.seqNo
    BY <1>6 DEF Inv, PQInv, Bounded
  <2> QED
    BY <1>3, <1>5, <2>1 DEF Inv, PQInv, Bounded, t
<1>9. Kept'
  BY <1>3, <1>5, <1>6 DEF Inv, PQInv, Kept, t
<1>10. Sent'
  <2> SUFFICES ASSUME NEW j \in MsgItems \cup rx.queue.items PROVE j.len > 0 /\ End(j) <= t.send /\ Truthful(j)'
    BY <1>3 DEF Sent, MsgItems, t
  <2>1. j.len > 0 /\ End(j) <= tx.send /\ Truthful(j)
    BY DEF Inv, PQInv, Sent
  <2>2. CASE j.gap
    BY <1>3, <1>5, <1>6, <2>1, <2>2 DEF Truthful
  <2>3. CASE ~j.gap
    <3>1. j \in Item
      <4>1. rx.queue.items \subseteq Item
        BY InvFacts DEF QueueOK
      <4>2. MsgItems \subseteq Items
        BY DEF MsgItems, Msgs
      <4> QED
        BY <4>1, <4>2, ItemsAre
    <3>2. j.key # k
      BY <1>1, <1>6, <2>1, <3>1, ItemFields
    <3> QED
      BY <1>3, <1>5, <1>6, <2>1, <2>3, <3>2 DEF Truthful
  <2> QED
    BY <2>2, <2>3
<1>11. Asked'
  BY <1>3, <1>5 DEF Inv, PQInv, Asked, AskGaps, t
<1>12. Tight' /\ Delivered'
  BY <1>3 DEF Inv, PQInv, Tight, Delivered, Channel!Next0
<1>13. NothingDropped'
  <2> SUFFICES ASSUME NEW n \in 0..(t.seqNo - 1), ~(n < rx.queue.head), n \notin aborted'
               PROVE  Lookup(t, n) # {}
    BY <1>3 DEF NothingDropped, t
  <2>1. n \in Nat /\ n \in 0..(tx.seqNo - 1) /\ n \notin aborted /\ n # k
    BY <1>5, <1>6
  <2>2. Lookup(tx, n) # {}
    BY <2>1 DEF Inv, PQInv, NothingDropped
  <2>3. Has(tx, n)
    BY <1>1, <2>1, <2>2, CanLookup
  <2>4. Message(n).key # k
    BY <2>1, MessageIs
  <2>5. Has(t, n)
    BY <1>5, <2>3, <2>4 DEF Has
  <2>6. Separate(t.queue.items) /\ Singles(t.queue.items) /\ Singles(t.persisted)
    BY <1>1, <1>5 DEF QueueOK, Singles
  <2> QED
    BY <2>1, <2>5, <2>6, CanLookup
<1>14. Channel!Withdraw
  <2>1. k \in 0..(tx.seqNo - 1)
    BY <1>1, <1>6
  <2> QED
    BY <1>3, <1>5, <1>6, <2>1 DEF Channel!Withdraw, t
<1> QED
  BY <1>7, <1>8, <1>9, <1>10, <1>11, <1>12, <1>13, <1>14 DEF Follows, Inv, PQInv, Channel!Next

\* A stream is sent again from the receiver's head: what is before it was received.
LEMMA StartStreamStep ==
  ASSUME Inv, UNCHANGED use, StartStream
  PROVE  Follows
<1> DEFINE t == tx'
           head == rx.queue.head
<1>1. /\ tx \in TxState(AnyQueue) /\ tx.queue \in AnyQueue /\ QueueOK(tx.queue)
      /\ Separate(tx.queue.items) /\ Singles(tx.queue.items) /\ Singles(tx.persisted)
      /\ tx.seqNo \in Nat /\ tx.send \in Nat /\ tx.ackd \in Nat /\ tx.archive \in Nat /\ head \in Nat /\ rx.queue.tail \in Nat
      /\ MaxSeq \in Nat /\ tx.queue.head \in Nat /\ tx.queue.tail \in Nat
  BY InvFacts, SenderFields DEF SenderOK
<1>2. /\ Fault /\ rx.queue.items = {} /\ t = StartFrom(tx, head) /\ wire' = {}
      /\ UNCHANGED <<rx, processed, aborted, covered, use>>
  BY DEF StartStream
<1>3. t \in TxState(AnyQueue) /\ CoreSame([tx EXCEPT !.send = head, !.ackd = head], t)
  BY <1>1, <1>2, StartFromIs
<1>4. /\ t.seqNo = tx.seqNo /\ t.queue = tx.queue /\ t.send = head /\ t.ackd = head
      /\ t.archive = tx.archive /\ t.gap = tx.gap /\ t.persisted = tx.persisted
  BY <1>1, <1>3 DEF CoreSame, TxState
<1>5. rx.queue.tail = head
  BY <1>2 DEF Inv, PQInv, Tight
<1> HIDE DEF t
<1>6. TypeOK'
  <2>1. t.queue \in Queues /\ Disjoint(t.queue)
    BY <1>4 DEF Inv, TypeOK, TxState
  <2>2. t \in TxState(Queues)
    BY <1>3, <2>1 DEF TxState
  <2>3. SameUse
    BY <1>2, FaultIs
  <2> QED
    BY <1>2, <2>1, <2>2, <2>3 DEF Inv, TypeOK, SameUse, t
<1>7. Bounded'
  <2>1. /\ tx.archive <= tx.ackd /\ tx.ackd <= head /\ head <= tx.seqNo /\ tx.queue.head <= tx.seqNo
        /\ tx.queue.tail <= tx.seqNo /\ tx.queue.head <= tx.queue.tail /\ tx.seqNo <= MaxSeq
        /\ (\A n \in aborted : n < tx.seqNo)
        /\ rx.queue.head <= rx.queue.tail /\ rx.queue.tail <= tx.seqNo
    BY DEF Inv, PQInv, Bounded
  <2>2. t.archive <= t.ackd /\ t.ackd <= t.send /\ t.ackd <= head /\ t.send <= t.seqNo
    BY <1>1, <1>4, <2>1
  <2> QED
    BY <1>2, <1>4, <2>1, <2>2 DEF Bounded, t
<1>8. Kept'
  BY <1>2, <1>4 DEF Inv, PQInv, Kept, t
<1>9. Sent'
  BY <1>2 DEF Sent, MsgItems
<1>10. Asked'
  <2>1. AskGaps' = {}
    BY <1>2 DEF AskGaps
  <2> QED
    BY <1>2, <1>4, <1>5, <2>1 DEF Inv, PQInv, Asked, t
<1>11. Tight' /\ Delivered'
  BY <1>2 DEF Inv, PQInv, Tight, Delivered, Channel!Next0
<1>12. NothingDropped'
  <2>1. \A n : Lookup(t, n) = Lookup(tx, n)
    BY <1>4 DEF Lookup
  <2> QED
    BY <1>2, <1>4, <2>1 DEF Inv, PQInv, NothingDropped, t
<1>13. UNCHANGED Channel!vars
  BY <1>2, <1>4 DEF Channel!vars, t
<1> QED
  BY <1>6, <1>7, <1>8, <1>9, <1>10, <1>11, <1>12, <1>13 DEF Follows, Inv, PQInv

-----------------------------------------------------------------------------
(* The receiver's handlers *)

GapFrom(g, items) == g = NoGap \/ \E i \in items : End(g) <= i.key

\* What a handler makes of its queue and of the items of new, which it was given.
Accepts(s, r, new) ==
  /\ r.rx \in RxState(AnyQueue) /\ QueueOK(r.rx.queue) /\ TightQueue(r.rx.queue)
  /\ s.queue.tail <= r.rx.queue.tail
  /\ r.rx.queue.tail = s.queue.tail \/ \E m \in new : r.rx.queue.tail = End(m)
  /\ \A i \in r.rx.queue.items : \E j \in s.queue.items \cup new : Piece(i, j)
  /\ \/ r.process = {} /\ r.rx.queue.head = s.queue.head
     \/ \E c : /\ r.process = {c} /\ c.key = s.queue.head /\ r.rx.queue.head = End(c)
               /\ \E j \in s.queue.items \cup new : Piece(c, j)
  /\ GapOK(r.rx.gap) /\ (r.rx.gap = s.gap \/ GapFrom(r.rx.gap, r.rx.queue.items))
  /\ r.request = NoGap \/ r.request = r.rx.gap

RxOK(s) == s \in RxState(AnyQueue) /\ QueueOK(s.queue) /\ TightQueue(s.queue) /\ GapOK(s.gap)

LEMMA ReceiverFields ==
  ASSUME NEW Q, NEW s \in RxState(Q)
  PROVE  /\ s.queue \in Q /\ s.gap \in Gap /\ s.queuing \in BOOLEAN /\ s.dequeuing \in BOOLEAN
         /\ s.dequeues \in Nat /\ s.timer \in BOOLEAN
  BY DEF RxState

\* A handler that changes nothing but its queue, and then perhaps asks for a gap.
LEMMA StalledIs ==
  ASSUME NEW s, RxOK(s)
  PROVE  LET r == Stalled(s)
         IN /\ r.rx \in RxState(AnyQueue) /\ r.rx.queue = s.queue /\ r.process = {}
            /\ GapOK(r.rx.gap) /\ (r.rx.gap = s.gap \/ GapFrom(r.rx.gap, s.queue.items))
            /\ r.request = NoGap \/ r.request = r.rx.gap
<1> DEFINE gap == FirstGap(s.queue)
           timer == gap # NoGap
           t == [s EXCEPT !.gap = gap, !.timer = timer]
           r == Stalled(s)
<1>1. s \in RxState(AnyQueue) /\ QueueOK(s.queue) /\ TightQueue(s.queue) /\ GapOK(s.gap) /\ timer \in BOOLEAN
  BY DEF RxOK
<1>2. gap \in Gap /\ (gap = NoGap \/ (gap.len > 0 /\ s.queue.head <= gap.key /\ \E i \in s.queue.items : End(gap) <= i.key))
  BY <1>1, FirstGapIs
<1>3. r = IF s.queue.items = {} \/ gap = s.gap THEN Only(s) ELSE [rx |-> t, process |-> {}, request |-> gap]
  BY DEF Stalled
<1> HIDE DEF gap, timer
<1>4. t \in RxState(AnyQueue) /\ t.queue = s.queue /\ t.gap = gap
  BY <1>1, <1>2 DEF RxState
<1> HIDE DEF t, r
<1>5. CASE s.queue.items = {} \/ gap = s.gap
  BY <1>1, <1>3, <1>5 DEF Only, r
<1>6. CASE ~(s.queue.items = {} \/ gap = s.gap)
  <2>1. r.rx = t /\ r.process = {} /\ r.request = gap
    BY <1>3, <1>6
  <2> QED
    BY <1>2, <1>4, <2>1 DEF GapOK, GapFrom, r
<1> QED
  BY <1>5, <1>6

\* scheduleDequeue()
LEMMA ScheduleDequeueIs ==
  ASSUME NEW Q, NEW t \in RxState(Q)
  PROVE  LET u == ScheduleDequeue(t) IN u \in RxState(Q) /\ u.queue = t.queue /\ u.gap = t.gap
<1>1. PICK n \in Nat : n = t.dequeues + 1
  BY ReceiverFields
<1>2. ScheduleDequeue(t) = [t EXCEPT !.dequeuing = TRUE, !.dequeues = n]
  BY <1>1 DEF ScheduleDequeue
<1> QED
  BY <1>2 DEF RxState

\* received(msg)
LEMMA ReceivedIs ==
  ASSUME NEW s, RxOK(s), NEW m \in Item, m.len > 0, Fits(m)
  PROVE  Accepts(s, Received(s, m), {m})
<1>1. /\ s \in RxState(AnyQueue) /\ QueueOK(s.queue) /\ TightQueue(s.queue) /\ GapOK(s.gap)
      /\ s.dequeues \in Nat
  BY ReceiverFields DEF RxOK
<1>2. ASSUME NEW rotate \in BOOLEAN
      PROVE  LET p == Put(s.queue, m, rotate)
             IN /\ QueueOK(p.queue) /\ p.queue \in AnyQueue /\ TightQueue(p.queue)
                /\ s.queue.tail <= p.queue.tail /\ (p.queue.tail = s.queue.tail \/ p.queue.tail = End(m))
                /\ \A i \in p.queue.items : \E j \in s.queue.items \cup {m} : Piece(i, j)
                /\ \/ p.out = {} /\ p.queue.head = s.queue.head
                   \/ rotate /\ \E c : p.out = {c} /\ Piece(c, m) /\ c.key = s.queue.head /\ p.queue.head = End(c)
  <2>1. LET p == Put(s.queue, m, rotate)
        IN /\ QueueOK(p.queue)
           /\ s.queue.tail <= p.queue.tail /\ (p.queue.tail = s.queue.tail \/ p.queue.tail = End(m))
           /\ Pieces(p.queue.items, s.queue, m)
           /\ TightQueue(s.queue) => TightQueue(p.queue)
           /\ \/ p.out = {} /\ p.queue.head = s.queue.head
              \/ rotate /\ \E c : p.out = {c} /\ Piece(c, m) /\ c.key = s.queue.head /\ p.queue.head = End(c)
    BY <1>1, <1>2, PutIs
  <2> QED
    BY <1>1, <2>1 DEF Pieces, QueueOK, AnyQueue
<1>3. CASE s.queuing \/ s.dequeuing
  <2> DEFINE q == Put(s.queue, m, FALSE).queue
             t == [s EXCEPT !.queue = q]
  <2>1. /\ QueueOK(q) /\ q \in AnyQueue /\ TightQueue(q)
        /\ s.queue.tail <= q.tail /\ (q.tail = s.queue.tail \/ q.tail = End(m))
        /\ \A i \in q.items : \E j \in s.queue.items \cup {m} : Piece(i, j)
        /\ q.head = s.queue.head
    BY <1>2
  <2>2. Received(s, m) = [rx |-> t, process |-> {}, request |-> NoGap]
    BY <1>3 DEF Received, Enqueue, Only
  <2> HIDE DEF q
  <2>3. t \in RxState(AnyQueue) /\ t.queue = q /\ t.gap = s.gap
    BY <1>1, <2>1 DEF RxState
  <2> HIDE DEF t
  <2> QED
    BY <1>1, <2>1, <2>2, <2>3 DEF Accepts
<1>4. CASE ~(s.queuing \/ s.dequeuing)
  <2> DEFINE p == Put(s.queue, m, TRUE)
             t == [s EXCEPT !.queue = p.queue]
             u == IF p.queue.items # {} THEN ScheduleDequeue(t) ELSE t
  <2>1. /\ QueueOK(p.queue) /\ p.queue \in AnyQueue /\ TightQueue(p.queue)
        /\ s.queue.tail <= p.queue.tail /\ (p.queue.tail = s.queue.tail \/ p.queue.tail = End(m))
        /\ \A i \in p.queue.items : \E j \in s.queue.items \cup {m} : Piece(i, j)
        /\ \/ p.out = {} /\ p.queue.head = s.queue.head
           \/ \E c : p.out = {c} /\ Piece(c, m) /\ c.key = s.queue.head /\ p.queue.head = End(c)
    BY <1>2
  <2>2. Received(s, m) = IF p.out = {} THEN Stalled(t) ELSE [Only(u) EXCEPT !.process = p.out]
    BY <1>4 DEF Received, Rotate
  <2> HIDE DEF p
  <2>3. t \in RxState(AnyQueue) /\ t.queue = p.queue /\ t.gap = s.gap /\ t.dequeues \in Nat
    BY <1>1, <2>1 DEF RxState
  <2> HIDE DEF t
  <2>4. u \in RxState(AnyQueue) /\ u.queue = p.queue /\ u.gap = s.gap
    <3>1. ScheduleDequeue(t) \in RxState(AnyQueue) /\ ScheduleDequeue(t).queue = t.queue /\ ScheduleDequeue(t).gap = t.gap
      BY <2>3, ScheduleDequeueIs
    <3> QED
      BY <2>3, <3>1
  <2> HIDE DEF u
  <2>5. CASE p.out = {}
    <3>1. RxOK(t)
      BY <1>1, <2>1, <2>3 DEF RxOK
    <3>2. LET r == Stalled(t)
          IN /\ r.rx \in RxState(AnyQueue) /\ r.rx.queue = t.queue /\ r.process = {}
             /\ GapOK(r.rx.gap) /\ (r.rx.gap = t.gap \/ GapFrom(r.rx.gap, t.queue.items))
             /\ r.request = NoGap \/ r.request = r.rx.gap
      BY <3>1, StalledIs
    <3>3. p.queue.head = s.queue.head
      BY <2>1, <2>5
    <3> QED
      BY <2>1, <2>2, <2>3, <2>5, <3>2, <3>3 DEF Accepts
  <2>6. CASE p.out # {}
    <3>1. Received(s, m) = [rx |-> u, process |-> p.out, request |-> NoGap]
      BY <2>2, <2>6 DEF Only
    <3> QED
      BY <1>1, <2>1, <2>4, <2>6, <3>1 DEF Accepts
  <2> QED
    BY <2>5, <2>6
<1> QED
  BY <1>3, <1>4

\* dequeue()
LEMMA RunDequeueIs ==
  ASSUME NEW s, RxOK(s), s.dequeues > 0
  PROVE  Accepts(s, RunDequeue(s), {})
<1> DEFINE p == Dequeue(s.queue)
           more == p.out # {} /\ p.queue.items # {}
           dequeuing == s.dequeuing /\ more
           dequeues == IF more THEN s.dequeues ELSE s.dequeues - 1
           t == [s EXCEPT !.queue = p.queue, !.dequeuing = dequeuing, !.dequeues = dequeues]
<1>1. /\ s \in RxState(AnyQueue) /\ QueueOK(s.queue) /\ TightQueue(s.queue) /\ GapOK(s.gap)
      /\ s.dequeues \in Nat /\ s.queue.tail \in Nat
  BY ReceiverFields DEF RxOK, QueueOK
<1>2. /\ QueueOK(p.queue) /\ p.queue.tail = s.queue.tail /\ p.queue.items \subseteq s.queue.items
      /\ TightQueue(p.queue)
      /\ \/ p.out = {} /\ p.queue = s.queue
         \/ \E c \in s.queue.items : p.out = {c} /\ c.key = s.queue.head /\ p.queue.head = End(c)
  BY <1>1, DequeueIs
<1>3. RunDequeue(s) = IF p.out = {} THEN Stalled(t) ELSE [Only(t) EXCEPT !.process = p.out]
  BY DEF RunDequeue
<1> HIDE DEF p
<1>4. dequeuing \in BOOLEAN /\ dequeues \in Nat /\ p.queue \in AnyQueue
  BY <1>1, <1>2 DEF QueueOK, AnyQueue
<1> HIDE DEF dequeuing, dequeues, more
<1>5. t \in RxState(AnyQueue) /\ t.queue = p.queue /\ t.gap = s.gap
  BY <1>1, <1>4 DEF RxState
<1> HIDE DEF t
<1>6. \A i \in p.queue.items : \E j \in s.queue.items : Piece(i, j)
  BY <1>1, <1>2, QueueItems
<1>7. CASE p.out = {}
  <2>1. RxOK(t)
    BY <1>1, <1>2, <1>5 DEF RxOK
  <2>2. LET r == Stalled(t)
        IN /\ r.rx \in RxState(AnyQueue) /\ r.rx.queue = t.queue /\ r.process = {}
           /\ GapOK(r.rx.gap) /\ (r.rx.gap = t.gap \/ GapFrom(r.rx.gap, t.queue.items))
           /\ r.request = NoGap \/ r.request = r.rx.gap
    BY <2>1, StalledIs
  <2>3. p.queue.head = s.queue.head
    BY <1>2, <1>7
  <2> QED
    BY <1>1, <1>2, <1>3, <1>5, <1>6, <1>7, <2>2, <2>3 DEF Accepts
<1>8. CASE p.out # {}
  <2>1. RunDequeue(s) = [rx |-> t, process |-> p.out, request |-> NoGap]
    BY <1>3, <1>8 DEF Only
  <2>2. PICK c \in s.queue.items : p.out = {c} /\ c.key = s.queue.head /\ p.queue.head = End(c)
    BY <1>2, <1>8
  <2>3. Piece(c, c)
    BY <1>1, QueueItems
  <2> QED
    BY <1>1, <1>2, <1>5, <1>6, <2>1, <2>2, <2>3 DEF Accepts
<1> QED
  BY <1>7, <1>8

\* reRequest()
LEMMA ReRequestIs ==
  ASSUME NEW s, RxOK(s)
  PROVE  Accepts(s, ReRequest(s), {})
<1> DEFINE timer == s.gap # NoGap
           t == [s EXCEPT !.timer = timer]
<1>1. /\ s \in RxState(AnyQueue) /\ QueueOK(s.queue) /\ TightQueue(s.queue) /\ GapOK(s.gap)
      /\ s.queue.tail \in Nat /\ timer \in BOOLEAN
  BY DEF RxOK, QueueOK
<1>2. ReRequest(s) = [rx |-> t, process |-> {}, request |-> s.gap]
  BY DEF ReRequest
<1> HIDE DEF timer
<1>3. t \in RxState(AnyQueue) /\ t.queue = s.queue /\ t.gap = s.gap
  BY <1>1 DEF RxState
<1> HIDE DEF t
<1>4. \A i \in s.queue.items : \E j \in s.queue.items : Piece(i, j)
  BY <1>1, QueueItems
<1> QED
  BY <1>1, <1>2, <1>3, <1>4 DEF Accepts

-----------------------------------------------------------------------------
(* The steps of the receiver *)

\* What is true of an item is true of a piece of it, and stays true as the head goes on.
LEMMA PieceIsTruthful ==
  ASSUME NEW j \in Item, Truthful(j), NEW i, Piece(i, j)
  PROVE  Truthful(i)
<1>1. i \in Item /\ i.len > 0 /\ i.gap = j.gap /\ j.key <= i.key /\ End(i) <= End(j)
  BY DEF Piece
<1>2. /\ i.key \in Nat /\ i.len \in Nat /\ End(i) = i.key + i.len /\ End(i) \in Nat
      /\ j.key \in Nat /\ j.len \in Nat /\ End(j) = j.key + j.len /\ End(j) \in Nat
  BY <1>1, ItemFields
<1>a. Fits(i)
  <2>1. CASE Clips = TRUE
    BY <2>1 DEF Fits
  <2>2. CASE j.len = 1
    <3>1. i.len = 1
      BY <1>1, <1>2, <2>2
    <3> QED
      BY <3>1 DEF Fits
  <2> QED
    BY <2>1, <2>2 DEF Truthful, Fits
<1>3. CASE j.gap
  <2>1. \A n \in i.key..(End(i) - 1) : n \in j.key..(End(j) - 1)
    BY <1>1, <1>2
  <2>2. \A n \in j.key..(End(j) - 1) : n < rx.queue.head \/ n \in aborted
    BY <1>3 DEF Truthful
  <2> QED
    BY <1>1, <1>3, <1>a, <2>1, <2>2 DEF Truthful
<1>4. CASE ~j.gap
  <2>1. j.len = 1 /\ (j.key < rx.queue.head \/ j.key \notin aborted)
    BY <1>4 DEF Truthful
  <2>2. i.len = 1 /\ i.key = j.key
    BY <1>1, <1>2, <2>1
  <2> QED
    BY <1>1, <1>4, <1>a, <2>1, <2>2 DEF Truthful
<1> QED
  BY <1>3, <1>4

LEMMA TruthfulPiece ==
  ASSUME rx.queue.head \in Nat, rx'.queue.head \in Nat, rx.queue.head <= rx'.queue.head, UNCHANGED aborted,
         NEW j \in Item, Truthful(j), NEW i, Piece(i, j)
  PROVE  Truthful(i)'
<1>1. Truthful(i)
  BY PieceIsTruthful
<1>a. Fits(i)
  BY <1>1 DEF Truthful
<1>2. i.key \in Nat /\ End(i) \in Nat
  BY ItemFields DEF Piece
<1>3. CASE i.gap
  <2>1. \A n \in i.key..(End(i) - 1) : n \in Nat /\ (n < rx.queue.head \/ n \in aborted)
    BY <1>1, <1>2, <1>3 DEF Truthful
  <2>2. \A n \in i.key..(End(i) - 1) : n < rx'.queue.head \/ n \in aborted
    BY <2>1
  <2> QED
    BY <1>3, <1>a, <2>2 DEF Truthful, Fits
<1>4. CASE ~i.gap
  <2>1. i.len = 1 /\ (i.key < rx.queue.head \/ i.key \notin aborted)
    BY <1>1, <1>4 DEF Truthful
  <2>2. i.key < rx'.queue.head \/ i.key \notin aborted
    BY <1>2, <2>1
  <2> QED
    BY <1>4, <1>a, <2>1, <2>2 DEF Truthful, Fits
<1> QED
  BY <1>3, <1>4

LEMMA SentItems ==
  ASSUME Inv, NEW i \in MsgItems \cup rx.queue.items
  PROVE  i \in Item /\ i.len > 0 /\ End(i) \in Nat /\ End(i) <= tx.send /\ End(i) <= tx.seqNo /\ Truthful(i)
<1>1. i \in Item
  <2>1. rx.queue.items \subseteq Item
    BY InvFacts DEF QueueOK
  <2>2. MsgItems \subseteq Items
    BY DEF MsgItems, Msgs
  <2> QED
    BY <2>1, <2>2, ItemsAre
<1>2. i.len > 0 /\ End(i) <= tx.send /\ Truthful(i)
  BY DEF Inv, PQInv, Sent
<1>3. tx.send \in Nat /\ tx.seqNo \in Nat /\ tx.send <= tx.seqNo
  BY InvFacts DEF Inv, PQInv, Bounded
<1> QED
  BY <1>1, <1>2, <1>3, ItemFields

\* A step in which the receiver goes on: its head and its tail only grow, and what its queue
\* holds are pieces of what was sent.
LEMMA ReceiverStep ==
  ASSUME Inv, UNCHANGED <<tx, aborted>>, SameUse, RxOK(rx'),
         rx.queue.head <= rx'.queue.head, rx'.queue.head <= tx.seqNo,
         rx.queue.tail <= rx'.queue.tail, rx'.queue.tail <= tx.seqNo,
         \A i \in rx'.queue.items : \E j \in MsgItems \cup rx.queue.items : Piece(i, j),
         rx'.gap = rx.gap \/ GapFrom(rx'.gap, rx'.queue.items),
         wire' \subseteq wire \cup AskFor(rx'.gap),
         processed' \in Seq(Items), covered' \in Keys, Delivered'
  PROVE  Inv'
<1> DEFINE r == rx'
<1>1. /\ Separate(tx.queue.items) /\ Singles(tx.queue.items) /\ Singles(tx.persisted)
      /\ tx.seqNo \in Nat /\ tx.send \in Nat /\ tx.ackd \in Nat /\ rx.queue.head \in Nat /\ rx.queue.tail \in Nat
      /\ aborted \subseteq Nat /\ MaxSeq \in Nat
  BY InvFacts
<1>2. /\ r \in RxState(AnyQueue) /\ QueueOK(r.queue) /\ TightQueue(r.queue) /\ GapOK(r.gap)
      /\ r.queue.head \in Nat /\ r.queue.tail \in Nat /\ r.queue.head <= r.queue.tail
      /\ rx.queue.head <= r.queue.head /\ r.queue.head <= tx.seqNo
      /\ rx.queue.tail <= r.queue.tail /\ r.queue.tail <= tx.seqNo
  BY DEF RxOK, QueueOK
<1>3. /\ tx.ackd <= rx.queue.head /\ tx.seqNo <= MaxSeq /\ tx.send <= tx.seqNo
      /\ \A p \in wire \cap Acks : p.key \in Nat /\ p.key <= rx.queue.head
  BY <1>1 DEF Inv, PQInv, Bounded, Acks, Keys
<1>4. \A i \in r.queue.items : i \in Item /\ i.len > 0 /\ End(i) <= tx.send /\ Truthful(i)'
  <2> SUFFICES ASSUME NEW i \in r.queue.items
               PROVE  i \in Item /\ i.len > 0 /\ End(i) <= tx.send /\ Truthful(i)'
    OBVIOUS
  <2>1. PICK j \in MsgItems \cup rx.queue.items : Piece(i, j)
    OBVIOUS
  <2>2. j \in Item /\ End(j) \in Nat /\ End(j) <= tx.send /\ Truthful(j)
    BY SentItems
  <2>3. i \in Item /\ i.len > 0 /\ End(i) <= End(j)
    BY <2>1 DEF Piece
  <2>4. End(i) \in Nat
    BY <2>3, ItemFields
  <2>5. Truthful(i)'
    BY <1>1, <1>2, <2>1, <2>2, TruthfulPiece
  <2> QED
    BY <1>1, <2>2, <2>3, <2>4, <2>5
<1>5. r.gap \in Gap /\ (r.gap = NoGap \/ r.gap.len > 0) /\ End(r.gap) \in Nat
  BY <1>2 DEF GapOK, Gap, End
<1>6. End(r.gap) <= tx.send /\ End(r.gap) <= r.queue.tail
  <2>1. CASE r.gap = rx.gap
    <3>1. End(rx.gap) <= tx.send /\ End(rx.gap) <= rx.queue.tail
      BY DEF Inv, PQInv, Asked
    <3> QED
      BY <1>1, <1>2, <1>5, <2>1, <3>1
  <2>2. CASE r.gap = NoGap
    <3>1. End(r.gap) = 0
      BY <2>2 DEF NoGap, End
    <3> QED
      BY <1>1, <1>2, <3>1
  <2>3. CASE \E i \in r.queue.items : End(r.gap) <= i.key
    <3>1. PICK i \in r.queue.items : End(r.gap) <= i.key
      BY <2>3
    <3>2. i.key \in Nat /\ i.len \in Nat /\ End(i) = i.key + i.len /\ End(i) <= r.queue.tail
      BY <1>2, QueueItems
    <3>3. End(i) <= tx.send
      BY <1>4
    <3> QED
      BY <1>1, <1>2, <1>5, <3>1, <3>2, <3>3
  <2> QED
    BY <2>1, <2>2, <2>3 DEF GapFrom
<1>7. \A p \in wire' : p \in wire \/ (p \in Asks /\ p.gap = r.gap /\ p \notin Msgs /\ p \notin Acks)
  <2> SUFFICES ASSUME NEW p \in wire', p \notin wire
               PROVE  p \in Asks /\ p.gap = r.gap /\ p \notin Msgs /\ p \notin Acks
    OBVIOUS
  <2>1. p = [type |-> "ask", gap |-> r.gap] /\ r.gap # NoGap
    BY DEF AskFor
  <2>2. r.gap \in [key : Keys, len : 1..MaxSeq]
    <3>1. r.gap = [key |-> r.gap.key, len |-> r.gap.len] /\ r.gap.key \in Nat /\ r.gap.len \in Nat /\ End(r.gap) = r.gap.key + r.gap.len
      BY <1>5 DEF Gap, End
    <3>2. r.gap.key \in Keys /\ r.gap.len \in 1..MaxSeq
      BY <1>1, <1>3, <1>5, <1>6, <2>1, <3>1 DEF Keys
    <3> QED
      BY <3>1, <3>2
  <2>3. p.type = "ask" /\ p.gap = r.gap
    BY <2>1
  <2>4. p \in Asks
    BY <2>1, <2>2 DEF Asks
  <2>5. p \notin Msgs /\ p \notin Acks
    BY <2>3 DEF Msgs, Acks
  <2> QED
    BY <2>3, <2>4, <2>5
<1>8. MsgItems' \subseteq MsgItems
  BY <1>7 DEF MsgItems
<1>9. AskGaps' \subseteq AskGaps \cup {r.gap}
  BY <1>7 DEF AskGaps
<1> HIDE DEF r
<1>10. TypeOK'
  <2>1. r.queue \in Queues /\ Disjoint(r.queue)
    <3>1. r.queue.tail <= MaxSeq
      BY <1>1, <1>2, <1>3
    <3> QED
      BY <1>2, <3>1, BoundedQueue
  <2>2. r \in RxState(Queues)
    BY <1>2, <2>1 DEF RxState
  <2>3. wire' \subseteq Msgs \cup Asks \cup Acks
    BY <1>7 DEF Inv, TypeOK
  <2>4. tx' \in TxState(Queues) /\ aborted' \subseteq Keys /\ Disjoint(tx'.queue)
    BY DEF Inv, TypeOK
  <2>5. faults' \in 0..use'.faults /\ use' \in Uses
    BY DEF Inv, TypeOK, SameUse
  <2> QED
    BY <2>1, <2>2, <2>3, <2>4, <2>5 DEF TypeOK, r
<1>11. Bounded'
  <2>1. tx.ackd <= r.queue.head /\ \A p \in wire' \cap Acks : p.key <= r.queue.head
    BY <1>1, <1>2, <1>3, <1>7
  <2> QED
    BY <1>2, <2>1 DEF Inv, PQInv, Bounded, r
<1>12. Kept'
  <2>1. \A i \in tx.persisted : i.key \in Nat /\ i.key < rx.queue.head
    BY <1>1, SinglesAre DEF Inv, PQInv, Kept
  <2>2. \A i \in tx.persisted : i.key < r.queue.head
    BY <1>1, <1>2, <2>1
  <2> QED
    BY <2>2 DEF Inv, PQInv, Kept, r
<1>13. Sent'
  <2> SUFFICES ASSUME NEW i \in MsgItems' \cup r.queue.items PROVE i.len > 0 /\ End(i) <= tx.send /\ Truthful(i)'
    BY DEF Sent, r
  <2>1. CASE i \in r.queue.items
    BY <1>4, <2>1
  <2>2. CASE i \in MsgItems
    <3>1. i \in Item /\ i.len > 0 /\ End(i) <= tx.send /\ Truthful(i)
      BY <2>2, SentItems
    <3>2. Piece(i, i)
      BY <3>1, PieceItself
    <3>3. rx'.queue.head \in Nat /\ rx.queue.head <= rx'.queue.head
      BY <1>2 DEF r
    <3>4. Truthful(i)'
      BY <1>1, <3>1, <3>2, <3>3, TruthfulPiece
    <3> QED
      BY <3>1, <3>4
  <2> QED
    BY <1>8, <2>1, <2>2
<1>14. Asked'
  <2> SUFFICES ASSUME NEW g \in AskGaps' \cup {r.gap, tx.gap}
               PROVE  End(g) <= tx.send /\ End(g) <= r.queue.tail /\ (g = NoGap \/ g.len > 0)
    BY DEF Asked, r
  <2>1. CASE g = r.gap
    BY <1>5, <1>6, <2>1
  <2>2. CASE g \in AskGaps \cup {tx.gap}
    <3>1. End(g) <= tx.send /\ End(g) <= rx.queue.tail /\ (g = NoGap \/ g.len > 0)
      BY <2>2 DEF Inv, PQInv, Asked
    <3>2. g \in Gap
      <4>1. CASE g \in AskGaps
        BY <4>1, <1>1 DEF AskGaps, Asks, Gap, Keys
      <4>2. CASE g = tx.gap
        BY <4>2, InvFacts, SenderFields
      <4> QED
        BY <2>2, <4>1, <4>2
    <3>3. End(g) \in Nat
      BY <3>2 DEF Gap, End
    <3> QED
      BY <1>1, <1>2, <3>1, <3>3
  <2> QED
    BY <1>9, <2>1, <2>2
<1>15. Tight'
  BY <1>2 DEF Tight, TightQueue, r
<1>16. NothingDropped'
  <2> SUFFICES ASSUME NEW n \in 0..(tx.seqNo - 1), ~(n < r.queue.head), n \notin aborted
               PROVE  Lookup(tx, n) # {}
    BY DEF NothingDropped, r
  <2>1. ~(n < rx.queue.head)
    BY <1>1, <1>2
  <2> QED
    BY <2>1 DEF Inv, PQInv, NothingDropped
<1> QED
  BY <1>10, <1>11, <1>12, <1>13, <1>14, <1>15, <1>16 DEF Inv, PQInv

\* What was delivered last, and its end.
LastEnd(s) == IF s = <<>> THEN 0 ELSE s[Len(s)].key + s[Len(s)].len

LEMMA Next0Is ==
  Channel!Next0 = IF covered > LastEnd(processed) THEN covered ELSE LastEnd(processed)
  BY DEF Channel!Next0, LastEnd

LEMMA LastEndIs ==
  ASSUME NEW s \in Seq(Items)
  PROVE  LastEnd(s) \in Nat
<1>1. CASE s = <<>>
  BY <1>1 DEF LastEnd
<1>2. CASE s # <<>>
  <2>1. s[Len(s)] \in Items
    <3>1. Len(s) \in 1..Len(s)
      BY <1>2, EmptySeq, LenProperties
    <3> QED
      BY <3>1, ElementOfSeq
  <2>2. s[Len(s)].key \in Nat /\ s[Len(s)].len \in Nat
    BY <2>1, ItemsAre, ItemFields
  <2> QED
    BY <1>2, <2>2 DEF LastEnd
<1> QED
  BY <1>1, <1>2

LEMMA LastEndOfAppend ==
  ASSUME NEW s \in Seq(Items), NEW c \in Items
  PROVE  Append(s, c) \in Seq(Items) /\ LastEnd(Append(s, c)) = End(c)
<1> DEFINE t == Append(s, c)
<1>1. t \in Seq(Items) /\ t # <<>> /\ Len(t) = Len(s) + 1 /\ t[Len(s) + 1] = c
  BY AppendProperties
<1> HIDE DEF t
<1>2. t[Len(t)] = c
  BY <1>1
<1> QED
  BY <1>1, <1>2 DEF LastEnd, End, t

\* What a handler processed starts at the head, and the head goes to its end.
LEMMA HandledStep ==
  ASSUME Inv, SameUse, NEW r, NEW new \in SUBSET MsgItems, Accepts(rx, r, new), NEW rest \in SUBSET wire, Handled(r, rest)
  PROVE  Follows
<1>1. /\ rx' = r.rx /\ UNCHANGED <<tx, aborted, covered>>
      /\ wire' = rest \cup AskFor(r.request)
      /\ processed' = IF r.process = {} THEN processed ELSE Append(processed, The(r.process))
  BY DEF Handled
<1>2. /\ r.rx \in RxState(AnyQueue) /\ QueueOK(r.rx.queue) /\ TightQueue(r.rx.queue) /\ GapOK(r.rx.gap)
      /\ rx.queue.tail <= r.rx.queue.tail
      /\ r.rx.queue.tail = rx.queue.tail \/ \E m \in new : r.rx.queue.tail = End(m)
      /\ \A i \in r.rx.queue.items : \E j \in rx.queue.items \cup new : Piece(i, j)
      /\ r.rx.gap = rx.gap \/ GapFrom(r.rx.gap, r.rx.queue.items)
      /\ r.request = NoGap \/ r.request = r.rx.gap
  BY DEF Accepts
<1>3. /\ rx.queue.head \in Nat /\ rx.queue.tail \in Nat /\ tx.seqNo \in Nat /\ MaxSeq \in Nat /\ covered \in Nat
      /\ processed \in Seq(Items) /\ covered \in Keys
      /\ rx.queue.head <= tx.seqNo /\ rx.queue.tail <= tx.seqNo /\ tx.seqNo <= MaxSeq
  BY InvFacts DEF Inv, PQInv, Bounded, TypeOK
<1>4. RxOK(rx')
  BY <1>1, <1>2 DEF RxOK
<1>5. \A i \in rx'.queue.items : \E j \in MsgItems \cup rx.queue.items : Piece(i, j)
  BY <1>1, <1>2
<1>6. rx'.queue.tail <= tx.seqNo
  <2>1. \A m \in new : End(m) <= tx.seqNo
    BY SentItems
  <2> QED
    BY <1>1, <1>2, <1>3, <2>1
<1>7. wire' \subseteq wire \cup AskFor(rx'.gap)
  BY <1>1, <1>2 DEF AskFor
<1>8. (covered > LastEnd(processed) => covered = rx.queue.head)
      /\ (~(covered > LastEnd(processed)) => LastEnd(processed) = rx.queue.head)
  BY Next0Is DEF Inv, PQInv, Delivered
<1>9. CASE r.process = {}
  <2>1. rx'.queue.head = rx.queue.head /\ processed' = processed
    BY <1>1, <1>9 DEF Accepts
  <2>2. Delivered'
    BY <1>1, <2>1 DEF Inv, PQInv, Delivered, Channel!Next0
  <2>3. Inv'
    BY <1>1, <1>2, <1>3, <1>4, <1>5, <1>6, <1>7, <2>1, <2>2, ReceiverStep
  <2>4. UNCHANGED Channel!vars
    BY <1>1, <2>1 DEF Channel!vars
  <2> QED
    BY <2>3, <2>4 DEF Follows
<1>10. CASE r.process # {}
  <2>1. PICK c : /\ r.process = {c} /\ c.key = rx.queue.head /\ r.rx.queue.head = End(c)
                 /\ \E j \in rx.queue.items \cup new : Piece(c, j)
    BY <1>10 DEF Accepts
  <2>2. PICK j \in rx.queue.items \cup new : Piece(c, j)
    BY <2>1
  <2>3. j \in Item /\ End(j) \in Nat /\ End(j) <= tx.seqNo
    BY SentItems
  <2>4. c \in Item /\ c.len > 0 /\ End(c) <= End(j)
    BY <2>2 DEF Piece
  <2>5. c.key \in Nat /\ c.len \in Nat /\ End(c) = c.key + c.len /\ End(c) \in Nat
    BY <2>4, ItemFields
  <2>6. End(c) <= tx.seqNo /\ End(c) <= MaxSeq /\ rx.queue.head < End(c)
    BY <1>3, <2>1, <2>3, <2>4, <2>5
  <2>7. c \in Items
    BY <2>4, <2>6, BoundedItem
  <2>8. processed' = Append(processed, c)
    BY <1>1, <1>10, <2>1 DEF The
  <2>9. processed' \in Seq(Items) /\ LastEnd(processed') = End(c)
    BY <1>3, <2>7, <2>8, LastEndOfAppend
  <2>10. rx'.queue.head = End(c) /\ covered' = covered
    BY <1>1, <2>1
  <2>11. covered <= rx.queue.head
    <3>1. LastEnd(processed) \in Nat
      BY <1>3, LastEndIs
    <3> QED
      BY <1>3, <1>8, <3>1
  <2>12. (Channel!Next0)' = IF covered' > LastEnd(processed') THEN covered' ELSE LastEnd(processed')
    BY DEF Channel!Next0, LastEnd
  <2>13. (Channel!Next0)' = End(c)
    BY <1>3, <2>5, <2>6, <2>9, <2>10, <2>11, <2>12
  <2>14. Delivered'
    BY <2>10, <2>13 DEF Delivered
  <2>15. rx.queue.head <= rx'.queue.head /\ rx'.queue.head <= tx.seqNo
    BY <1>3, <2>5, <2>6, <2>10
  <2>16. Inv'
    BY <1>1, <1>2, <1>3, <1>4, <1>5, <1>6, <1>7, <2>9, <2>14, <2>15, ReceiverStep
  <2>17. Channel!Deliver
    <3>1. Truthful(c)
      <4>1. Truthful(j) /\ j \in Item
        BY SentItems
      <4> QED
        BY <2>2, <4>1, PieceIsTruthful
    <3>2. Channel!Next0 = c.key
      BY <2>1 DEF Inv, PQInv, Delivered
    <3>3. c.key < tx.seqNo /\ c.len \in 1..(tx.seqNo - c.key) /\ c.gap \in BOOLEAN
      BY <1>3, <2>4, <2>5, <2>6, ItemFields
    <3>4. IF c.gap THEN c.key..(c.key + c.len - 1) \subseteq aborted ELSE c.len = 1 /\ c.key \notin aborted
      <4>1. CASE c.gap
        <5>1. \A n \in c.key..(End(c) - 1) : n < rx.queue.head \/ n \in aborted
          BY <3>1, <4>1 DEF Truthful
        <5>2. \A n \in c.key..(c.key + c.len - 1) : n \in c.key..(End(c) - 1) /\ ~(n < c.key)
          BY <2>5
        <5> QED
          BY <2>1, <4>1, <5>1, <5>2
      <4>2. CASE ~c.gap
        <5>1. c.len = 1 /\ (c.key < rx.queue.head \/ c.key \notin aborted)
          BY <3>1, <4>2 DEF Truthful
        <5>2. ~(c.key < rx.queue.head)
          BY <2>1, <2>5
        <5> QED
          BY <4>2, <5>1, <5>2
      <4> QED
        BY <4>1, <4>2
    <3>5. processed' = Append(processed, [key |-> c.key, len |-> c.len, gap |-> c.gap])
      BY <2>4, <2>8, ItemFields
    <3> QED
      BY <1>1, <3>2, <3>3, <3>4, <3>5 DEF Channel!Deliver
  <2> QED
    BY <2>16, <2>17 DEF Follows, Channel!Next
<1> QED
  BY <1>9, <1>10

LEMMA RxIsOK ==
  ASSUME Inv
  PROVE  RxOK(rx)
  BY InvFacts DEF RxOK

LEMMA DeliverMsgStep ==
  ASSUME Inv, UNCHANGED use, NEW key \in Keys, DeliverMsg(key)
  PROVE  Follows
<1>1. PICK p \in wire \cap [type : {"msg"}, item : [key : {key}, len : 1..MaxSeq, gap : BOOLEAN]] :
        \/ Handled(Received(rx, p.item), wire \ {p}) /\ UNCHANGED faults
        \/ Fault /\ Handled(Received(rx, p.item), wire)
  BY DEF DeliverMsg
<1>2. p \in Msgs
  BY <1>1 DEF Msgs, Items
<1>3. p.item \in MsgItems
  BY <1>1, <1>2 DEF MsgItems
<1>4. p.item \in Item /\ p.item.len > 0 /\ Fits(p.item)
  BY <1>3, SentItems DEF Truthful
<1>5. Accepts(rx, Received(rx, p.item), {p.item})
  BY <1>4, RxIsOK, ReceivedIs
<1>6. SameUse
  BY <1>1, FaultIs
<1>7. {p.item} \in SUBSET MsgItems
  BY <1>3
<1>8. CASE Handled(Received(rx, p.item), wire \ {p})
  <2>1. wire \ {p} \in SUBSET wire
    OBVIOUS
  <2> QED
    BY <1>5, <1>6, <1>7, <1>8, <2>1, HandledStep
<1>9. CASE Handled(Received(rx, p.item), wire)
  <2>1. wire \in SUBSET wire
    OBVIOUS
  <2> QED
    BY <1>5, <1>6, <1>7, <1>9, <2>1, HandledStep
<1> QED
  BY <1>1, <1>8, <1>9

LEMMA DequeueStep ==
  ASSUME Inv, UNCHANGED use, DequeueJob
  PROVE  Follows
<1>1. Accepts(rx, RunDequeue(rx), {})
  BY RxIsOK, RunDequeueIs DEF DequeueJob
<1>2. SameUse /\ Handled(RunDequeue(rx), wire)
  BY FaultIs DEF DequeueJob
<1>3. wire \in SUBSET wire /\ {} \in SUBSET MsgItems
  OBVIOUS
<1> QED
  BY <1>1, <1>2, <1>3, HandledStep

LEMMA ReRequestStep ==
  ASSUME Inv, UNCHANGED use, ReRequestTimer
  PROVE  Follows
<1>1. Accepts(rx, ReRequest(rx), {})
  BY RxIsOK, ReRequestIs
<1>2. SameUse /\ Handled(ReRequest(rx), wire)
  BY FaultIs DEF ReRequestTimer
<1>3. wire \in SUBSET wire /\ {} \in SUBSET MsgItems
  OBVIOUS
<1> QED
  BY <1>1, <1>2, <1>3, HandledStep

LEMMA StartSnapshotStep ==
  ASSUME Inv, UNCHANGED use, StartSnapshot
  PROVE  Follows
<1>1. /\ rx' = [rx EXCEPT !.queuing = TRUE] /\ Fault /\ UNCHANGED <<tx, wire, processed, aborted, covered>>
  BY DEF StartSnapshot, StartQueuing
<1>2. RxOK(rx) /\ rx \in RxState(AnyQueue) /\ rx.queue.head \in Nat /\ rx.queue.tail \in Nat
  BY RxIsOK, InvFacts
<1>3. rx' \in RxState(AnyQueue) /\ rx'.queue = rx.queue /\ rx'.gap = rx.gap
  BY <1>1, <1>2 DEF RxState
<1>4. RxOK(rx')
  BY <1>2, <1>3 DEF RxOK
<1>5. SameUse
  BY <1>1, FaultIs
<1>6. \A i \in rx'.queue.items : \E j \in MsgItems \cup rx.queue.items : Piece(i, j)
  BY <1>2, <1>3, QueueItems DEF RxOK
<1>7. rx'.queue.head <= tx.seqNo /\ rx'.queue.tail <= tx.seqNo /\ rx.queue.head <= rx'.queue.head /\ rx.queue.tail <= rx'.queue.tail
  BY <1>2, <1>3 DEF Inv, PQInv, Bounded
<1>8. processed' \in Seq(Items) /\ covered' \in Keys
  BY <1>1 DEF Inv, TypeOK
<1>9. Delivered'
  BY <1>1, <1>3 DEF Inv, PQInv, Delivered, Channel!Next0
<1>10. Inv'
  BY <1>1, <1>3, <1>4, <1>5, <1>6, <1>7, <1>8, <1>9, ReceiverStep
<1>11. UNCHANGED Channel!vars
  BY <1>1 DEF Channel!vars
<1> QED
  BY <1>10, <1>11 DEF Follows

LEMMA EndSnapshotStep ==
  ASSUME Inv, UNCHANGED use, EndSnapshot
  PROVE  Follows
<1>1. PICK key \in rx.queue.head..tx.seqNo : rx' = StopQueuing(rx, key) /\ covered' = key
  BY DEF EndSnapshot
<1>2. UNCHANGED <<tx, wire, processed, aborted, faults>>
  BY DEF EndSnapshot
<1>3. /\ RxOK(rx) /\ rx \in RxState(AnyQueue) /\ QueueOK(rx.queue) /\ TightQueue(rx.queue)
      /\ rx.queue.head \in Nat /\ rx.queue.tail \in Nat /\ tx.seqNo \in Nat /\ MaxSeq \in Nat
      /\ processed \in Seq(Items) /\ covered \in Nat
      /\ rx.queue.tail <= tx.seqNo /\ tx.seqNo <= MaxSeq
  BY RxIsOK, InvFacts DEF Inv, PQInv, Bounded
<1>4. key \in Nat /\ rx.queue.head <= key /\ key <= tx.seqNo /\ key \in Keys
  BY <1>3 DEF Keys
<1> DEFINE q == SetHead(rx.queue, key)
           gap == FirstGap(q)
           r == [rx EXCEPT !.queuing = FALSE, !.queue = q, !.gap = gap]
<1>5. /\ QueueOK(q) /\ q.head = key /\ rx.queue.tail <= q.tail /\ (q.tail = rx.queue.tail \/ q.tail = key)
      /\ \A i \in q.items : \E j \in rx.queue.items : Piece(i, j)
      /\ TightQueue(q)
  BY <1>3, <1>4, SetHeadIs
<1>6. rx' = IF ~r.dequeuing /\ q.items # {} THEN ScheduleDequeue(r) ELSE r
  BY <1>1 DEF StopQueuing
<1> HIDE DEF q
<1>7. gap \in Gap /\ (gap = NoGap \/ (gap.len > 0 /\ q.head <= gap.key /\ \E i \in q.items : End(gap) <= i.key))
  BY <1>5, FirstGapIs
<1> HIDE DEF gap
<1>8. q \in AnyQueue
  BY <1>5 DEF QueueOK, AnyQueue
<1>9. r \in RxState(AnyQueue) /\ r.queue = q /\ r.gap = gap
  BY <1>3, <1>7, <1>8 DEF RxState
<1> HIDE DEF r
<1>10. rx' \in RxState(AnyQueue) /\ rx'.queue = q /\ rx'.gap = gap
  BY <1>6, <1>9, ScheduleDequeueIs
<1>11. RxOK(rx') /\ GapFrom(rx'.gap, rx'.queue.items)
  BY <1>5, <1>7, <1>10 DEF RxOK, GapOK, GapFrom
<1>12. SameUse
  BY <1>2, FaultIs
<1>13. rx.queue.head <= rx'.queue.head /\ rx'.queue.head <= tx.seqNo /\ rx.queue.tail <= rx'.queue.tail /\ rx'.queue.tail <= tx.seqNo
  BY <1>3, <1>4, <1>5, <1>10
<1>14. Channel!Next0 = rx.queue.head /\ LastEnd(processed) \in Nat /\ LastEnd(processed) <= rx.queue.head
  <2>1. Channel!Next0 = rx.queue.head
    BY DEF Inv, PQInv, Delivered
  <2>2. LastEnd(processed) \in Nat
    BY <1>3, LastEndIs
  <2> QED
    BY <1>3, <2>1, <2>2, Next0Is
<1>15. Delivered'
  <2>1. (Channel!Next0)' = IF covered' > LastEnd(processed) THEN covered' ELSE LastEnd(processed)
    BY <1>2 DEF Channel!Next0, LastEnd
  <2>2. (Channel!Next0)' = key
    BY <1>1, <1>3, <1>4, <1>14, <2>1
  <2> QED
    BY <1>5, <1>10, <2>2 DEF Delivered
<1>16. Inv'
  BY <1>1, <1>2, <1>3, <1>4, <1>5, <1>10, <1>11, <1>12, <1>13, <1>15, ReceiverStep
<1>17. Channel!Cover
  BY <1>1, <1>2, <1>14 DEF Channel!Cover
<1> QED
  BY <1>16, <1>17 DEF Follows, Channel!Next

-----------------------------------------------------------------------------
(* The theorems *)

LEMMA InitInv ==
  ASSUME Fitting
  PROVE  Init => Inv /\ Channel!Init
<1> SUFFICES ASSUME Init PROVE Inv /\ Channel!Init
  OBVIOUS
<1>1. /\ tx = TxNew /\ rx = RxStart(0) /\ wire = {} /\ processed = <<>> /\ aborted = {} /\ covered = 0
      /\ faults = 0 /\ use \in Uses
  BY DEF Init
<1>2. use.faults \in Nat /\ MaxSeq \in Nat /\ 0 \in Keys
  BY <1>1, UsesAssumption DEF Keys
<1>3. EmptyQueue(0) \in Queues /\ Disjoint(EmptyQueue(0)) /\ EmptyQueue(0).items = {}
      /\ EmptyQueue(0).head = 0 /\ EmptyQueue(0).tail = 0
  BY <1>2 DEF EmptyQueue, Queues, Disjoint
<1>4. NoGap \in Gap /\ End(NoGap) = 0
  BY DEF NoGap, Gap, End
<1>5. /\ tx \in TxState(Queues) /\ tx.queue = EmptyQueue(0) /\ tx.seqNo = 0 /\ tx.send = 0 /\ tx.ackd = 0
      /\ tx.archive = 0 /\ tx.gap = NoGap /\ tx.persisted = {}
  BY <1>1, <1>3, <1>4 DEF TxNew, TxState
<1>6. rx \in RxState(Queues) /\ rx.queue = EmptyQueue(0) /\ rx.gap = NoGap
  BY <1>1, <1>3, <1>4 DEF RxStart, RxState
<1>7. <<>> \in Seq(Items)
  BY EmptySeq
<1>8. TypeOK
  BY <1>1, <1>2, <1>3, <1>5, <1>6, <1>7 DEF TypeOK
<1>9. Bounded
  BY <1>1, <1>2, <1>3, <1>5, <1>6 DEF Bounded
<1>10. Kept /\ Tight
  BY <1>3, <1>5, <1>6 DEF Kept, Tight
<1>11. MsgItems = {} /\ AskGaps = {}
  BY <1>1 DEF MsgItems, AskGaps
<1>12. Sent /\ Asked
  BY <1>3, <1>4, <1>5, <1>6, <1>11 DEF Sent, Asked
<1>13. Delivered
  BY <1>1, <1>3, <1>6, Next0Is DEF Delivered, LastEnd
<1>14. NothingDropped
  BY <1>5 DEF NothingDropped
<1>15. Channel!Init
  BY <1>1, <1>5 DEF Channel!Init
<1> QED
  BY <1>8, <1>9, <1>10, <1>12, <1>13, <1>14, <1>15 DEF Inv, PQInv

LEMMA NextFollows ==
  ASSUME Inv, Next
  PROVE  Follows
<1>1. UNCHANGED use
  BY DEF Next
<1>2. CASE SendNew
  BY <1>1, <1>2, SendNewStep
<1>3. CASE AbortOne
  BY <1>1, <1>3, AbortOneStep
<1>4. CASE StartSender
  BY <1>1, <1>4, StartStep
<1>5. CASE StopSender
  BY <1>1, <1>5, StopStep
<1>6. CASE StartStream
  BY <1>1, <1>6, StartStreamStep
<1>7. CASE RunSendJob
  BY <1>1, <1>7, RunSendStep
<1>8. CASE RunResendJob
  BY <1>1, <1>8, RunResendStep
<1>9. CASE RunArchiveJob
  BY <1>1, <1>9, RunArchiveStep
<1>10. CASE Lose
  BY <1>1, <1>10, LoseStep
<1>11. CASE \E key \in Keys : DeliverMsg(key)
  BY <1>1, <1>11, DeliverMsgStep
<1>12. CASE DeliverAsk
  BY <1>1, <1>12, AskStep
<1>13. CASE DeliverAck
  BY <1>1, <1>13, AckStep
<1>14. CASE SendAck
  BY <1>1, <1>14, SendAckStep
<1>15. CASE DequeueJob
  BY <1>1, <1>15, DequeueStep
<1>16. CASE ReRequestTimer
  BY <1>1, <1>16, ReRequestStep
<1>17. CASE StartSnapshot
  BY <1>1, <1>17, StartSnapshotStep
<1>18. CASE EndSnapshot
  BY <1>1, <1>18, EndSnapshotStep
<1> QED
  BY <1>2, <1>3, <1>4, <1>5, <1>6, <1>7, <1>8, <1>9, <1>10, <1>11, <1>12, <1>13, <1>14, <1>15, <1>16, <1>17, <1>18 DEF Next

LEMMA StutterFollows ==
  ASSUME Inv, UNCHANGED vars
  PROVE  Follows
<1>1. UNCHANGED <<tx, rx, wire, processed, aborted, covered, faults, use>>
  BY DEF vars
<1>2. TypeOK'
  BY <1>1 DEF Inv, TypeOK
<1>3. Bounded' /\ Kept' /\ Tight'
  BY <1>1 DEF Inv, PQInv, Bounded, Kept, Tight
<1>4. Sent' /\ Asked'
  BY <1>1 DEF Inv, PQInv, Sent, Asked, Truthful, MsgItems, AskGaps
<1>5. Delivered' /\ NothingDropped'
  BY <1>1 DEF Inv, PQInv, Delivered, Channel!Next0, NothingDropped
<1>6. UNCHANGED Channel!vars
  BY <1>1 DEF Channel!vars
<1> QED
  BY <1>2, <1>3, <1>4, <1>5, <1>6 DEF Follows, Inv, PQInv

LEMMA Invariant ==
  ASSUME Fitting
  PROVE  Spec => []Inv
<1>1. Init => Inv
  BY InitInv
<1>2. Inv /\ [Next]_vars => Inv'
  BY NextFollows, StutterFollows DEF Follows
<1> QED
  BY <1>1, <1>2, PTL DEF Spec

\* The numbers of both sides stay within the bounds, and neither queue ever holds a number twice
\* or one that its head has passed, whatever arrives twice, late or in pieces, if items clip
\* themselves or each is of one number (ZmPQueue.hpp:85-88).
THEOREM ChannelTypeCorrect ==
  ASSUME Fitting
  PROVE  Spec => []TypeOK
<1>1. Inv => TypeOK
  BY DEF Inv
<1> QED
  BY <1>1, Invariant, PTL

\* A message the receiver has not processed is in the sender's queue or its archive, however
\* sending, archiving and resending interleave and whatever is lost (ZmPQTx).
THEOREM MessagesAreKept ==
  ASSUME Fitting
  PROVE  Spec => []NothingDropped
<1>1. Inv => NothingDropped
  BY DEF Inv, PQInv
<1> QED
  BY <1>1, Invariant, PTL

\* A ZmPQTx and a ZmPQRx over a network that loses, repeats and reorders implement the sequenced
\* channel: each message is processed once, in order, and only aborted ones are skipped.  Items clip
\* themselves or each is of one number.
THEOREM ImplementsSequencedChannel ==
  ASSUME Fitting
  PROVE  Spec => IsSequenced
<1>1. Init => Channel!Init
  BY InitInv
<1>2. Inv /\ [Next]_vars => [Channel!Next]_(Channel!vars)
  BY NextFollows, StutterFollows DEF Follows
<1> QED
  BY <1>1, <1>2, Invariant, PTL DEF Spec, IsSequenced, Channel!Spec

=============================================================================
