----------------------------- MODULE MxMDStream -----------------------------
(***************************************************************************)
(* An order book fed by orders and a book fed by price levels, both mapped *)
(* to a third (mxmd MxMD.cpp); and a subscriber's copy of the first, made  *)
(* from a snapshot taken order by order, without a lock, while the feed    *)
(* goes on (MxMDPublisher.cpp, MxMDCore.hpp) and from the stream of        *)
(* messages.                                                               *)
(*                                                                         *)
(* External: the feed.  The stream is taken whole and in order, as the     *)
(* sequenced queues deliver it.  A call of the feed is one step: what the  *)
(* snapshot reads of a tree that is being changed is left out.             *)
(***************************************************************************)
EXTENDS MxMDOrderBook, FiniteSets

CONSTANTS
  Ids,        \* orders
  MaxPrice,   \* prices are 1..MaxPrice; NoPrice is the market level
  MaxQty,     \* bound: quantity of an order
  MaxCalls,   \* bound: calls the feed makes
  MaxQueued   \* bound: the feed waits while so many messages are queued, not applied yet

ASSUME BoundAssumption == MaxPrice \in Nat \ {0} /\ MaxQty \in Nat \ {0} /\ MaxCalls \in Nat /\ MaxQueued \in Nat

VARIABLES
  ob,      \* the book of orders
  l2,      \* the book of price levels
  out,     \* the book both are mapped to
  snap,    \* the snapshot: its phase, the order it is about to send, and the order and the level
           \* its iterators come to next; {} is a null pointer
  sub,     \* the subscriber's copy of ob
  stream,  \* messages numbered since the snapshot was asked for and not yet applied
  passed,  \* history: orders that moved behind the snapshot's back
  strayed, \* history: the snapshot lost its way among nodes that were moved or deleted
  calls

vars == <<ob, l2, out, snap, sub, stream, passed, strayed, calls>>

Prices == 0..MaxPrice
Qtys == 1..MaxQty
OneOf(S) == {{}} \cup {{x} : x \in S}
At(phase) == [phase |-> phase, order |-> {}, nextOrder |-> {}, nextLevel |-> {}]
IsBook(b, ids) ==
  /\ b.qty \in Nat /\ b.nv \in Nat
  /\ DOMAIN b.orders \subseteq ids /\ \A id \in DOMAIN b.orders : b.orders[id] \in [rank : Nat, price : Prices, qty : Qtys]
  /\ DOMAIN b.levels \subseteq Prices
  /\ \A p \in DOMAIN b.levels : b.levels[p] \in [qty : Nat \ {0}, nOrders : Nat, orders : SUBSET ids]

Messages == [type : {"add", "modify", "cancel"}, id : Ids, rank : Nat \cup {NoRank}, price : Prices, qty : Nat]
            \cup {Message("reset", {}, NoRank, NoPrice, 0)}

TypeOK ==
  /\ IsBook(ob, Ids) /\ IsBook(sub, Ids) /\ IsBook(l2, {}) /\ IsBook(out, {})
  /\ snap \in [phase : {"none", "asked", "market", "levels", "sent"}, order : OneOf(Ids), nextOrder : OneOf(Ids),
              nextLevel : OneOf(1..MaxPrice)]
  /\ snap.order \cup snap.nextOrder \subseteq DOMAIN ob.orders /\ snap.nextLevel \subseteq DOMAIN ob.levels
  /\ stream \in Seq(Messages) /\ passed \subseteq Ids /\ strayed \in BOOLEAN /\ calls \in 0..MaxCalls

Init ==
  /\ ob = EmptyBook /\ l2 = EmptyBook /\ out = EmptyBook /\ sub = EmptyBook
  /\ snap = At("none") /\ stream = <<>> /\ passed = {} /\ strayed = FALSE
  /\ calls = 0

-----------------------------------------------------------------------------
(* Nodes of the trees, for the snapshot's iterators *)

\* A tree's first order, and those that come after one in the tree it is in now.
First(b, ids) == {id \in ids : \A other \in ids : b.orders[id].rank <= b.orders[other].rank}
After(b, id) == {other \in b.levels[b.orders[id].price].orders : b.orders[other].rank > b.orders[id].rank}

FirstLevel(prices) == {p \in prices : \A other \in prices : p <= other}
LevelsAfter(p) == {other \in DOMAIN ob.levels \ {NoPrice} : other > p}

\* What the snapshot has yet to send, as things are in book b.
Ahead(b) ==
  snap.order \cup snap.nextOrder \cup UNION {After(b, id) : id \in snap.nextOrder \cap DOMAIN b.orders}
  \cup {id \in DOMAIN b.orders : b.orders[id].price # NoPrice /\ (snap.phase = "market"
                                                                  \/ \E p \in snap.nextLevel : p <= b.orders[id].price)}

\* A pointer to a node that was freed finds any node there is now, or none.
Found(held, freed, nodes) == IF held \cap freed = {} THEN {held} ELSE OneOf(nodes)

-----------------------------------------------------------------------------
(* The feed, on the shard's thread *)

\* A call takes the orders touched out of their trees, and puts those that stay into one again.
Call(r, touched) ==
  LET freed == DOMAIN ob.orders \ DOMAIN r.book.orders
      freedLevels == {p \in DOMAIN ob.levels : ob.levels[p].orders \subseteq touched}
  IN /\ calls < MaxCalls /\ calls' = calls + 1 /\ Len(stream) < MaxQueued
     /\ ob' = r.book /\ out' = Aggregate(out, r.out)
     /\ stream' = IF snap.phase = "none" THEN <<>> ELSE stream \o r.msgs
     /\ snap' \in [phase : {snap.phase},
                   order : Found(snap.order, freed, DOMAIN r.book.orders),
                   nextOrder : Found(snap.nextOrder, freed, DOMAIN r.book.orders),
                   nextLevel : Found(snap.nextLevel, freedLevels, DOMAIN r.book.levels \ {NoPrice})]
     /\ passed' = passed \cup {id \in touched \cap DOMAIN r.book.orders : id \in Ahead(ob) /\ id \notin Ahead(r.book)}
     /\ strayed' = (strayed \/ (snap.order \cup snap.nextOrder) \cap freed # {} \/ snap.nextLevel \cap freedLevels # {}
                            \/ \E id \in snap.nextOrder \cap touched : ~(After(ob, id) \subseteq After(r.book, id)))
     /\ UNCHANGED <<l2, sub>>

FeedAdd == \E id \in Ids, p \in Prices, q \in Qtys : Call(AddOrder(ob, id, NoRank, p, q), {id})
FeedModify == \E id \in DOMAIN ob.orders, p \in Prices, q \in {0} \cup Qtys : Call(ModifyOrder(ob, id, NoRank, p, q), {id})
FeedReduce == \E id \in DOMAIN ob.orders, q \in Qtys : Call(ReduceOrder(ob, id, q), {id})
FeedCancel == \E id \in DOMAIN ob.orders : Call(CancelOrder(ob, id), {id})
FeedReset == Call(Reset(ob), DOMAIN ob.orders)
FeedMatch ==
  \E limit \in Prices, q \in Qtys :
    LET r == Match(ob, limit, q) IN Call(r, DOMAIN ob.orders \ DOMAIN r.book.orders)

\* The other feed gives what there is at a level, or by how much it changed; an order there has
\* quantity 1.
FeedLevel ==
  /\ calls < MaxCalls /\ calls' = calls + 1 /\ Len(stream) < MaxQueued
  /\ \E p \in Prices, new \in 0..1, delta \in BOOLEAN :
       LET old == Level(l2, p).qty
           given == IF delta THEN new - old ELSE new
           r == PxLevel(l2, p, delta, given, given)
       IN new # old /\ l2' = r.book /\ out' = Aggregate(out, r.out)
  /\ UNCHANGED <<ob, snap, sub, stream, passed, strayed>>

-----------------------------------------------------------------------------
(* The snapshot, on a thread of its own, and the subscriber *)

\* The next sequence number is taken on the transmit thread, before the snapshot begins.
AskSnapshot ==
  /\ snap.phase = "none"
  /\ snap' = At("asked")
  /\ UNCHANGED <<ob, l2, out, sub, stream, passed, strayed, calls>>

\* The subscriber is told to empty its book; the market level comes first.
StartSnapshot ==
  /\ snap.phase = "asked"
  /\ snap' = [At("market") EXCEPT !.nextOrder = First(ob, Level(ob, NoPrice).orders)]
  /\ sub' = EmptyBook /\ passed' = {} /\ strayed' = FALSE
  /\ UNCHANGED <<ob, l2, out, stream, calls>>

\* iterate() takes the next order, and at once the one after it, from the tree that order is in.
NextOrder ==
  /\ snap.order = {}
  /\ \E id \in snap.nextOrder :
       snap' = [snap EXCEPT !.order = {id}, !.nextOrder = First(ob, After(ob, id))]
  /\ UNCHANGED <<ob, l2, out, sub, stream, passed, strayed, calls>>

\* The order is sent as it is by now.
SendOrder ==
  /\ \E id \in snap.order :
       LET order == ob.orders[id]
       IN sub' = Apply(sub, Message("add", id, order.rank, order.price, order.qty))
  /\ snap' = [snap EXCEPT !.order = {}]
  /\ UNCHANGED <<ob, l2, out, stream, passed, strayed, calls>>

LevelSent == snap.order = {} /\ snap.nextOrder = {}

\* The levels, from the best price on.
StartLevels ==
  /\ snap.phase = "market" /\ LevelSent
  /\ snap' = [At("levels") EXCEPT !.nextLevel = FirstLevel(DOMAIN ob.levels \ {NoPrice})]
  /\ UNCHANGED <<ob, l2, out, sub, stream, passed, strayed, calls>>

\* Before a level is read, iterate() has taken the level after it.
NextLevel ==
  /\ snap.phase = "levels" /\ LevelSent
  /\ \E p \in snap.nextLevel :
       snap' = [snap EXCEPT !.nextOrder = First(ob, ob.levels[p].orders), !.nextLevel = FirstLevel(LevelsAfter(p))]
  /\ UNCHANGED <<ob, l2, out, sub, stream, passed, strayed, calls>>

EndSnapshotLate ==
  /\ snap.phase = "levels" /\ LevelSent /\ snap.nextLevel = {}
  /\ snap' = At("sent") /\ stream' = <<>>
  /\ UNCHANGED <<ob, l2, out, sub, passed, strayed, calls>>

EndSnapshot ==
  /\ snap.phase = "levels" /\ LevelSent /\ snap.nextLevel = {}
  /\ snap' = At("sent")
  /\ UNCHANGED <<ob, l2, out, sub, stream, passed, strayed, calls>>

Deliver ==
  /\ snap.phase = "sent" /\ stream # <<>>
  /\ sub' = Apply(sub, Head(stream)) /\ stream' = Tail(stream)
  /\ UNCHANGED <<ob, l2, out, snap, passed, strayed, calls>>

\* The subscriber loses its connections and keeps its book until it has a new snapshot.
Disconnect ==
  /\ snap.phase # "none"
  /\ snap' = At("none") /\ stream' = <<>>
  /\ UNCHANGED <<ob, l2, out, sub, passed, strayed, calls>>

Next ==
  \/ FeedAdd \/ FeedModify \/ FeedReduce \/ FeedCancel \/ FeedReset \/ FeedMatch \/ FeedLevel
  \/ AskSnapshot \/ StartSnapshot \/ NextOrder \/ SendOrder \/ StartLevels \/ NextLevel \/ EndSnapshot
  \/ Deliver \/ Disconnect

Spec == Init /\ [][Next]_vars

-----------------------------------------------------------------------------
(* Properties *)

Sum(S, f(_)) == MapThenSumSet(f, S)

\* Each level is the orders at its price, each with a rank of its own, and the side is its levels.
OrdersAddUp(b) ==
  /\ DOMAIN b.levels = {b.orders[id].price : id \in DOMAIN b.orders}
  /\ \A p \in DOMAIN b.levels :
       LET ids == {id \in DOMAIN b.orders : b.orders[id].price = p}
       IN /\ b.levels[p] = [qty |-> Sum(ids, LAMBDA id : b.orders[id].qty), nOrders |-> Cardinality(ids), orders |-> ids]
          /\ Cardinality(Ranks(b, ids)) = Cardinality(ids)
  /\ b.qty = Sum(DOMAIN b.orders, LAMBDA id : b.orders[id].qty)
  /\ b.nv = Sum(DOMAIN b.orders, LAMBDA id : b.orders[id].qty * b.orders[id].price)

\* After any calls the levels of a book are the orders on it, and the levels of the book it is
\* mapped to, with another, are both of theirs; but for the market level, where what a reset
\* removes stays above.
BooksAddUp ==
  /\ OrdersAddUp(ob) /\ OrdersAddUp(sub)
  /\ out.nv = ob.nv + l2.nv
  /\ \A p \in Prices :
       LET at(b) == Level(b, p)
       IN IF p # NoPrice THEN at(out).qty = at(ob).qty + at(l2).qty /\ at(out).nOrders = at(ob).nOrders + at(l2).nOrders
          ELSE at(out).qty >= at(ob).qty + at(l2).qty /\ at(out).nOrders >= at(ob).nOrders + at(l2).nOrders

Queues == [p \in Prices |-> LET ids == ByRank(ob, p) IN [i \in DOMAIN ids |-> [id |-> ids[i], qty |-> ob.orders[ids[i]].qty]]]

Priority == INSTANCE PriceTimeBook WITH queue <- Queues

\* The ranks the book gives its orders, shifts and leaves behind keep price-time priority, and
\* reduceOrder() and match() do what the priority says, whatever calls came before.
KeepsPriority ==
  /\ Priority!Spec
  /\ [][ob'.qty < ob.qty =>
          /\ (\E id \in DOMAIN ob.orders, q \in Qtys : ob' = ReduceOrder(ob, id, q).book) => Priority!Reduce
          /\ (\E limit \in Prices, q \in Qtys : ob' = Match(ob, limit, q).book) => Priority!Trade]_ob

\* Once a subscriber has a snapshot and the stream that follows, its copy has the orders of the
\* book, at their prices, though the snapshot was read order by order while the feed went on; it
\* may lack an order that passed the snapshot by.  Nothing is said if a node was deleted, or moved
\* to where other orders follow it, while the snapshot's iterators stood at it.
SnapshotAgrees ==
  snap.phase = "sent" /\ stream = <<>> /\ ~strayed =>
    /\ DOMAIN sub.orders \subseteq DOMAIN ob.orders
    /\ DOMAIN ob.orders \ passed \subseteq DOMAIN sub.orders
    /\ \A id \in DOMAIN sub.orders : sub.orders[id].price = ob.orders[id].price /\ sub.orders[id].qty = ob.orders[id].qty
=============================================================================
