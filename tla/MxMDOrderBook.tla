--------------------------- MODULE MxMDOrderBook ---------------------------
(***************************************************************************)
(* One side of an order book of mxmd MxMD.cpp: orders, the price levels    *)
(* that hold them by rank, and the totals of levels and side.  Sells are   *)
(* modelled: the best price is the lowest.                                 *)
(*                                                                         *)
(* A handler returns the book after it, the changes it makes to the levels *)
(* of the book this one is mapped to (out), and the messages it streams.   *)
(***************************************************************************)
EXTENDS Integers, SequencesExt

CONSTANT UniformRanks  \* the venue's flag: ranks at a level stay next to each other

NoRank == -1   \* an order without a rank goes to the end of its level
NoPrice == 0   \* an order without a price is at the market level; a change without one keeps the price

EmptyBook == [orders |-> <<>>, levels |-> <<>>, qty |-> 0, nv |-> 0]
NoLevel == [qty |-> 0, nOrders |-> 0, orders |-> {}]

Level(b, price) == IF price \in DOMAIN b.levels THEN b.levels[price] ELSE NoLevel

SetLevelKeep(b, price, level) == [b EXCEPT !.levels = (price :> level) @@ @]

\* A level whose quantity comes to 0 is deleted, with any order it still holds.
SetLevel(b, price, level) ==
  IF level.qty # 0 THEN [b EXCEPT !.levels = (price :> level) @@ @]
  ELSE [b EXCEPT !.levels = Restrict(@, DOMAIN @ \ {price}), !.orders = Restrict(@, DOMAIN @ \ level.orders)]

AddTotals(b, price, qty) == [b EXCEPT !.qty = @ + qty, !.nv = @ + price * qty]

Ranks(b, ids) == {b.orders[id].rank : id \in ids}

\* Of ids, the orders whose ranks follow each other from rank upwards.
RunFrom(b, ids, rank) == {id \in ids : rank <= b.orders[id].rank /\ rank..b.orders[id].rank \subseteq Ranks(b, ids)}

ShiftRanks(b, ids, by) ==
  IF ~UniformRanks THEN b
  ELSE [b EXCEPT !.orders = [id \in DOMAIN @ |-> [@[id] EXCEPT !.rank = IF id \in ids THEN @ + by ELSE @]]]

AddToLevel(b, id, order) ==
  LET level == Level(b, order.price)
      rank == IF order.rank # NoRank THEN order.rank
              ELSE IF level.orders = {} THEN 0 ELSE Max(Ranks(b, level.orders)) + 1
      room == ShiftRanks(b, RunFrom(b, level.orders, rank), 1)
      with == [room EXCEPT !.orders = (id :> [order EXCEPT !.rank = rank]) @@ @]
  IN SetLevel(AddTotals(with, order.price, order.qty), order.price,
              [qty |-> level.qty + order.qty, nOrders |-> level.nOrders + 1, orders |-> level.orders \cup {id}])

\* The order keeps its place in the index of orders, for its caller to remove or to add again.
DelFromLevel(b, id) ==
  LET order == b.orders[id]
      level == b.levels[order.price]
      rest == level.orders \ {CHOOSE x \in level.orders : b.orders[x].rank = order.rank}
      closed == ShiftRanks(b, RunFrom(b, rest, order.rank + 1), -1)
  IN SetLevel(AddTotals(closed, order.price, -order.qty), order.price,
              [qty |-> level.qty - order.qty, nOrders |-> level.nOrders - 1, orders |-> rest])

Forget(b, id) == [b EXCEPT !.orders = Restrict(@, DOMAIN @ \ {id})]

Change(price, qty, nOrders) == [price |-> price, qty |-> qty, nOrders |-> nOrders]
Message(type, id, rank, price, qty) == [type |-> type, id |-> id, rank |-> rank, price |-> price, qty |-> qty]
Ignored(b) == [book |-> b, out |-> <<>>, msgs |-> <<>>]

-----------------------------------------------------------------------------
(* Handlers of orders *)

ReplaceAddTwice(b, id, new, msgs) ==
  LET old == b.orders[id]
      off == DelFromLevel(b, id)
  IN [book |-> IF new.qty > 0 THEN AddToLevel(off, id, new) ELSE Forget(off, id),
      out |-> <<Change(new.price, -old.qty, -1)>>
              \o (IF new.qty > 0 THEN <<Change(new.price, new.qty, 1)>> ELSE <<>>),
      msgs |-> msgs]

\* An order is taken off its level and added again as it is now, or forgotten if nothing is left.
Replace(b, id, new, msgs) ==
  LET old == b.orders[id]
      off == DelFromLevel(b, id)
  IN [book |-> IF new.qty > 0 THEN AddToLevel(off, id, new) ELSE Forget(off, id),
      out |-> <<Change(old.price, -old.qty, -1)>>
              \o (IF new.qty > 0 THEN <<Change(new.price, new.qty, 1)>> ELSE <<>>),
      msgs |-> msgs]

ModifyOrder(b, id, rank, price, qty) ==
  IF id \notin DOMAIN b.orders THEN Ignored(b)
  ELSE LET kept == IF price = NoPrice THEN b.orders[id].price ELSE price
       IN Replace(b, id, [rank |-> rank, price |-> kept, qty |-> qty], <<Message("modify", id, rank, price, qty)>>)

AddOrder(b, id, rank, price, qty) ==
  IF id \in DOMAIN b.orders THEN ModifyOrder(b, id, rank, price, qty)
  ELSE [book |-> AddToLevel(b, id, [rank |-> rank, price |-> price, qty |-> qty]),
        out |-> <<Change(price, qty, 1)>>,
        msgs |-> <<Message("add", id, rank, price, qty)>>]

ReduceOrderLast(b, id, by) ==
  IF id \notin DOMAIN b.orders THEN Ignored(b)
  ELSE LET left == Max({b.orders[id].qty - by, 0})
       IN Replace(b, id, [b.orders[id] EXCEPT !.qty = left, !.rank = NoRank],
                  <<Message("modify", id, NoRank, NoPrice, left)>>)

\* The order keeps its rank; the message has none.
ReduceOrder(b, id, by) ==
  IF id \notin DOMAIN b.orders THEN Ignored(b)
  ELSE LET left == Max({b.orders[id].qty - by, 0})
       IN Replace(b, id, [b.orders[id] EXCEPT !.qty = left], <<Message("modify", id, NoRank, NoPrice, left)>>)

CancelOrder(b, id) ==
  IF id \notin DOMAIN b.orders THEN Ignored(b)
  ELSE [book |-> Forget(DelFromLevel(b, id), id),
        out |-> <<Change(b.orders[id].price, -b.orders[id].qty, -1)>>,
        msgs |-> <<Message("cancel", id, NoRank, NoPrice, 0)>>]

PriceSeq(prices) == SetToSortSeq(prices, <)
ByRank(b, price) == SetToSortSeq(Level(b, price).orders, LAMBDA x, y : b.orders[x].rank < b.orders[y].rank)

\* The market level is emptied without a word to the book above.
Reset(b) ==
  LET prices == PriceSeq(DOMAIN b.levels \ {NoPrice})
  IN [book |-> EmptyBook,
      out |-> [i \in DOMAIN prices |-> Change(prices[i], -b.levels[prices[i]].qty, -b.levels[prices[i]].nOrders)],
      msgs |-> <<Message("reset", {}, NoRank, NoPrice, 0)>>]

\* An incoming order takes what it can of one on the book; ranks stay as they are.
Fill(acc, id) ==
  IF acc.left = 0 THEN acc
  ELSE LET order == acc.book.orders[id]
           level == acc.book.levels[order.price]
           qty == IF order.qty <= acc.left THEN order.qty ELSE acc.left
           all == qty = order.qty
           less == [level EXCEPT !.qty = @ - qty, !.nOrders = IF all THEN @ - 1 ELSE @,
                                 !.orders = IF all THEN @ \ {id} ELSE @]
           after == IF all THEN Forget(acc.book, id) ELSE [acc.book EXCEPT !.orders[id].qty = @ - qty]
       IN [book |-> SetLevel(AddTotals(after, order.price, -qty), order.price, less),
           left |-> acc.left - qty,
           msgs |-> Append(acc.msgs, IF all THEN Message("cancel", id, NoRank, NoPrice, 0)
                                     ELSE Message("modify", id, order.rank, order.price, order.qty - qty))]

Match(b, limit, qty) ==
  LET prices == PriceSeq({p \in DOMAIN b.levels : p # NoPrice /\ (limit = NoPrice \/ p <= limit)})
      done == FoldLeft(Fill, [book |-> b, left |-> qty, msgs |-> <<>>],
                       FlattenSeq([i \in DOMAIN prices |-> ByRank(b, prices[i])]))
      Taken(p) == Change(p, Level(done.book, p).qty - Level(b, p).qty, Level(done.book, p).nOrders - Level(b, p).nOrders)
  IN [book |-> done.book,
      out |-> SelectSeq([i \in DOMAIN prices |-> Taken(prices[i])], LAMBDA c : c.qty # 0),
      msgs |-> done.msgs]

-----------------------------------------------------------------------------
(* Handlers of price levels, and of messages *)

PxLevel(b, price, delta, qty, nOrders) ==
  LET old == Level(b, price)
      new == IF delta THEN [old EXCEPT !.qty = @ + qty, !.nOrders = @ + nOrders]
             ELSE [old EXCEPT !.qty = qty, !.nOrders = nOrders]
  IN [book |-> SetLevel(AddTotals(b, price, new.qty - old.qty), price, new),
      out |-> <<Change(price, new.qty - old.qty, new.nOrders - old.nOrders)>>,
      msgs |-> <<>>]

\* The book others are mapped to takes their changes.
Aggregate(out, changes) ==
  FoldLeft(LAMBDA b, c : PxLevel(b, c.price, TRUE, c.qty, c.nOrders).book, out, changes)

\* A subscriber applies a message to its copy of the book.
Apply(b, m) ==
  CASE m.type = "add" -> AddOrder(b, m.id, m.rank, m.price, m.qty).book
    [] m.type = "modify" -> ModifyOrder(b, m.id, m.rank, m.price, m.qty).book
    [] m.type = "cancel" -> CancelOrder(b, m.id).book
    [] m.type = "reset" -> EmptyBook
=============================================================================
