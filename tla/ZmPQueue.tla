------------------------------ MODULE ZmPQueue ------------------------------
(***************************************************************************)
(* The resequencing queue of z/zm ZmPQueue.hpp: items that each cover a    *)
(* run of sequence numbers, ordered by key, with the first number that is  *)
(* still to be dequeued (head) and the first that was never seen (tail).   *)
(*                                                                         *)
(* A queue is a record and each member function an operator on it.  The    *)
(* skip list (levels, search direction, level of an added node) is the set *)
(* of the items in it; m_count and m_length are the number of items and    *)
(* the numbers they cover.  A null reference is the empty set, and an      *)
(* operator that returns a node returns [queue, out].                      *)
(***************************************************************************)
EXTENDS Integers, FiniteSetsExt

CONSTANT Clips  \* whether Fn::clipHead() and clipTail() shorten an item: MxQFn's do not

Item == [key : Nat, len : Nat, gap : BOOLEAN]  \* gap: an item that fills a gap
Gap == [key : Nat, len : Nat]
NoGap == [key |-> 0, len |-> 0]

End(i) == i.key + i.len
ClipHead(i, n) == IF Clips THEN [i EXCEPT !.key = @ + n, !.len = @ - n] ELSE i
ClipTail(i, n) == IF Clips THEN [i EXCEPT !.len = @ - n] ELSE i

First(items) == CHOOSE i \in items : \A j \in items : i.key <= j.key
Last(items) == CHOOSE i \in items : \A j \in items : i.key >= j.key

\* The node at a key or after it, and the node before a node.
AtOrAfter(items, key) == LET s == {i \in items : i.key >= key} IN IF s = {} THEN {} ELSE {First(s)}
Preceding(items, key) == LET s == {i \in items : i.key < key} IN IF s = {} THEN {} ELSE {Last(s)}

EmptyQueue(key) == [head |-> key, tail |-> key, items |-> {}]

\* Items are taken from key "from" on up to key "to"; the first that reaches beyond it is
\* clipped and ends the search.
OverwriteOneFewer(items, from, to) ==
  LET within == {i \in items : from <= i.key /\ i.key + 1 < to}
      over == {i \in within : End(i) > to}
  IN IF over = {} THEN items \ within
     ELSE LET o == First(over)
          IN {i \in items \ {o} : i.key < from \/ i.key > o.key} \cup {ClipHead(o, to - o.key)}

Overwrite(items, from, to) ==
  LET within == {i \in items : from <= i.key /\ i.key < to}
      over == {i \in within : End(i) > to}
  IN IF over = {} THEN items \ within
     ELSE LET o == First(over)
          IN {i \in items \ {o} : i.key < from \/ i.key > o.key} \cup {ClipHead(o, to - o.key)}

\* head(key): clip what is before key, or start again from an earlier key.
SetHead(q, key) ==
  IF key = q.head THEN q
  ELSE IF key < q.head THEN EmptyQueue(key)
  ELSE [head |-> key, tail |-> Max({q.tail, key}), items |-> Overwrite(q.items, 0, key)]

\* The first run of numbers below the tail that no item covers.
FirstGap(q) ==
  LET start == CHOOSE n \in q.head..(Max({q.tail, q.head} \cup {End(i) : i \in q.items}) + 1) :
                 /\ \A i \in q.items : ~(i.key <= n /\ n < End(i))
                 /\ \A m \in q.head..(n - 1) : \E i \in q.items : i.key <= m /\ m < End(i)
      next == AtOrAfter(q.items, start)
      end == IF next # {} THEN First(next).key ELSE q.tail
  IN IF end > start THEN [key |-> start, len |-> end - start] ELSE NoGap

\* An item ahead of the head goes between its neighbours: they keep what they cover of it, a
\* predecessor that overlaps is clipped, and what it covers of its successors is overwritten.
InsertBetween(q, m) ==
  LET next == AtOrAfter(q.items, m.key)
      same == {i \in next : i.key = m.key}
      prev == IF same = {} THEN Preceding(q.items, m.key) ELSE {}
      kept == {IF End(i) > m.key THEN ClipTail(i, End(i) - m.key) ELSE i : i \in prev}
      items == (q.items \ prev) \cup kept
  IN IF \E i \in same \cup prev : End(i) >= End(m) THEN q
     ELSE [q EXCEPT !.items = Overwrite(items, m.key, End(m)) \cup {m}, !.tail = Max({@, End(m)})]

\* enqueue_(): what the head has passed is dropped or clipped, an empty item moves the tail, an
\* item at the head is returned (rotate(), which moves the head) or becomes the first (enqueue()).
Put(q, m, rotate) ==
  LET c == IF m.key < q.head THEN ClipHead(m, q.head - m.key) ELSE m
      tail == Max({q.tail, End(m)})
  IN IF End(m) <= q.head THEN [queue |-> q, out |-> {}]
     ELSE IF c.len = 0 THEN [queue |-> [q EXCEPT !.tail = tail], out |-> {}]
     ELSE IF c.key # q.head THEN [queue |-> InsertBetween(q, c), out |-> {}]
     ELSE LET rest == Overwrite(q.items, 0, End(m))
          IN IF rotate
             THEN [queue |-> [head |-> End(m), tail |-> tail, items |-> rest], out |-> {c}]
             ELSE [queue |-> [q EXCEPT !.tail = tail, !.items = rest \cup {c}], out |-> {}]

Rotate(q, m) == Put(q, m, TRUE)
Enqueue(q, m) == Put(q, m, FALSE).queue

\* shift() takes the first item, dequeue() only one that is at the head.
Shift(q) ==
  IF q.items = {} THEN [queue |-> q, out |-> {}]
  ELSE LET f == First(q.items)
       IN [queue |-> [q EXCEPT !.head = End(f), !.items = @ \ {f}], out |-> {f}]

DequeueAny(q) == Shift(q)
Dequeue(q) ==
  IF q.items # {} /\ First(q.items).key = q.head THEN Shift(q) ELSE [queue |-> q, out |-> {}]

ShiftToContaining(q, key) ==
  LET gone == {i \in q.items : Max({q.head} \cup {End(j) : j \in {k \in q.items : k.key < i.key}}) <= key}
  IN IF q.head > key \/ gone = {} THEN q
     ELSE [q EXCEPT !.head = End(Last(gone)), !.items = @ \ gone]

\* while (shift(key)): every item up to the one that takes the head to key or beyond.
ShiftTo(q, key) ==
  LET gone == {i \in q.items : Max({q.head} \cup {End(j) : j \in {k \in q.items : k.key < i.key}}) < key}
  IN IF q.head >= key \/ gone = {} THEN q
     ELSE [q EXCEPT !.head = End(Last(gone)), !.items = @ \ gone]

\* abort(key): the item that starts at key is taken out and leaves a gap.
Abort(q, key) ==
  LET found == {i \in q.items : i.key = key}
  IN [queue |-> [q EXCEPT !.items = @ \ found], out |-> found]

\* find(key): the item that starts at key or contains it.
Find(q, key) ==
  LET at == {i \in q.items : i.key = key}
  IN IF at # {} THEN at ELSE {i \in Preceding(q.items, key) : End(i) > key}

\* An item never covers a number another item covers, nor one the head has passed.
Disjoint(q) ==
  /\ \A i \in q.items : i.len > 0 /\ q.head <= i.key /\ End(i) <= q.tail
  /\ \A i, j \in q.items : i # j => End(i) <= j.key \/ End(j) <= i.key
=============================================================================
