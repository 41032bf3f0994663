--------------------------- MODULE PriceTimeBook ---------------------------
(***************************************************************************)
(* What an order book promises about priority: orders at a price wait in   *)
(* the order in which they came or were last changed, a reduction does not *)
(* cost an order its place, and an incoming order is matched by price,     *)
(* then place.  Each operator is the set of what a call can make of q.     *)
(***************************************************************************)
EXTENDS Integers, SequencesExt

CONSTANTS Ids, Prices, Qtys, NoPrice

VARIABLE queue  \* per price, the orders that wait there

Waiting(q) == {e.id : e \in UNION {ToSet(q[p]) : p \in Prices}}
Without(q, id) == [p \in Prices |-> SelectSeq(q[p], LAMBDA e : e.id # id)]
Open(q) == [p \in Prices |-> SelectSeq(q[p], LAMBDA e : e.qty > 0)]

\* A new order, or one changed, goes to the end of the queue at its price.
Entered(q) ==
  {[Without(q, id) EXCEPT ![p] = Append(@, [id |-> id, qty |-> qty])] : id \in Ids, p \in Prices, qty \in Qtys}

Left(q) == {Without(q, id) : id \in Waiting(q)}

Reduced(q) ==
  {Open([p \in Prices |-> [i \in DOMAIN q[p] |-> IF q[p][i].id = id THEN [q[p][i] EXCEPT !.qty = @ - by] ELSE q[p][i]]]) :
     id \in Waiting(q), by \in Qtys}

\* What waits before the i-th order at a price is taken first.
Ahead(q, p, i) ==
  LET Total(s) == FoldLeft(LAMBDA n, e : n + e.qty, 0, s)
  IN Total(SubSeq(q[p], 1, i - 1)) + MapThenSumSet(LAMBDA x : Total(q[x]), {x \in Prices \ {NoPrice} : x < p})

Traded(q) ==
  LET Reached(limit) == {p \in Prices \ {NoPrice} : limit = NoPrice \/ p <= limit}
      Taken(p, i, qty) == Max({0, Min({q[p][i].qty, qty - Ahead(q, p, i)})})
      After(limit, qty) ==
        [p \in Prices |-> IF p \notin Reached(limit) THEN q[p]
                          ELSE [i \in DOMAIN q[p] |-> [q[p][i] EXCEPT !.qty = @ - Taken(p, i, qty)]]]
  IN {Open(After(limit, qty)) : limit \in Prices, qty \in Qtys}

Init == queue = [p \in Prices |-> <<>>]

Enter == queue' \in Entered(queue)
Leave == queue' \in Left(queue)
Reduce == queue' \in Reduced(queue)
Trade == queue' \in Traded(queue)
Clear == queue' = [p \in Prices |-> <<>>]
Next == queue' # queue /\ (Enter \/ Leave \/ Reduce \/ Trade \/ Clear)

Spec == Init /\ [][Next]_queue
=============================================================================
