---------------------------- MODULE MxTOrderMgr ----------------------------
(***************************************************************************)
(* The order state machine of mxt (class MxTOrderMgr): one order with its  *)
(* new order, modify and cancel requests, each in an event state           *)
(*                                                                         *)
(*   U unset, H held, D deferred, Q queued, T aborted, S sent, P pending   *)
(*   fill, A acknowledged, X rejected, C closed (MxTOrder.hpp).            *)
(*                                                                         *)
(* Each handler is an operator on the order; a continuation it returns is  *)
(* called at once and is part of it.  An order has one leg, and quantities *)
(* are its only numbers: a price is better than the order's or is not.     *)
(* What is told to the client (acknowledgements, executions) is left out.  *)
(*                                                                         *)
(* External: the application, which asks filterModify() and filterCancel() *)
(* before modify() and cancel(), takes back a queued request it wants to   *)
(* replace (T) and sends what is still queued (S); and the market.         *)
(***************************************************************************)
EXTENDS Integers, Sequences, SequencesExt

CONSTANTS
  Profiles,     \* of markets, and how the application trades on them: see Profile
  MaxQty,       \* bound: quantity of an order
  MaxRequests,  \* bound: modifies and cancels of the client
  MaxEvents     \* bound: what the market does unasked, but for fills

VARIABLES
  order,     \* the order in the manager, with the queue of requests to send (out)
  profile,
  wire,      \* requests on their way to the market
  back,      \* messages on their way back
  market,    \* the market's side of the order
  odd,       \* history: whether abnormal() was called, or code was reached that never should be
  requests, events

vars == <<order, profile, wire, back, market, odd, requests, events>>

EventState == {"U", "H", "D", "Q", "T", "S", "P", "A", "X", "C"}
Request == {"new", "mod", "cxl"}
Qty == 0..MaxQty

Profile ==
  [asyncMod : BOOLEAN, asyncCxl : BOOLEAN,  \* may a modify, a cancel be sent before the new order is acknowledged
   simulated : BOOLEAN,             \* are modifies simulated as cancel and replace
   rejectCancels : BOOLEAN,         \* does the rejection of a modify cancel the order
   copiesCum : BOOLEAN,             \* do the application's legs take cumQty from an acknowledgement: mxt's do not
   unasked : BOOLEAN,               \* does the market cancel and modify orders unasked
   early : SUBSET {"fill", "answer"}]  \* what may arrive before messages sent earlier

ASSUME ProfilesAssumption == Profiles \subseteq Profile
ASSUME BoundsAssumption == MaxQty \in Nat /\ MaxRequests \in Nat /\ MaxEvents \in Nat

Orders ==
  [new : EventState, mod : EventState, cxl : EventState, modifyCxl : BOOLEAN, modifyNew : BOOLEAN,
   qty : Qty, cum : Nat, leaves : Qty, modQty : Qty, modCum : Nat, cxlQty : Qty, cxlCum : Nat,
   out : Seq(Request)]
Messages ==
  [type : {"ordered", "reject", "modified", "modReject", "canceled", "cxlReject", "fill", "closed"},
   qty : Qty, cum : Nat]

TypeOK ==
  /\ order \in Orders /\ profile \in Profiles
  /\ wire \in Seq([type : Request, qty : Qty]) /\ back \in Seq(Messages)
  /\ market \in [live : BOOLEAN, left : Qty, done : Nat] /\ odd \in BOOLEAN
  /\ requests \in 0..MaxRequests /\ events \in 0..MaxEvents
  \* What is queued is in the queue.
  /\ \A r \in Request : order[r] = "Q" => Contains(order.out, r)

-----------------------------------------------------------------------------
(* Helpers of the handlers *)

Done(o) == [order |-> o, odd |-> FALSE]
Abnormal(o) == [order |-> o, odd |-> TRUE]

LeavesSigned(qty, cum) == qty - cum

Leaves(qty, cum) == IF qty > cum THEN qty - cum ELSE 0
UpdateLeaves(o) == [o EXCEPT !.leaves = Leaves(o.qty, o.cum)]
Update(o, qty) == UpdateLeaves([o EXCEPT !.qty = qty])
Filled(o) == o.cum >= o.qty
PendingFill(o, cum) == o.cum < cum

\* newOrderOut(), modifyOut(), cancelOut(), and their ...In<Queued>().
Out(o, r) == [o EXCEPT ![r] = "Q", !.out = Append(@, r)]
OutIf(o, r, states) == IF o[r] \in states THEN Out(o, r) ELSE o
DeferOr(o, r, defer) == IF defer THEN [o EXCEPT ![r] = "D"] ELSE Out(o, r)

Acked(o) == [o EXCEPT !.new = IF @ \in {"H", "Q", "S"} THEN "A" ELSE @]
SynCancel(o) == [o EXCEPT !.cxlQty = o.qty, !.cxlCum = 0]

\* A simulated modify waits for its cancel.
Simulating(o) == o.modifyCxl /\ o.mod \in {"H", "D"} /\ o.cxl \in {"D", "Q", "S", "P", "X"}

-----------------------------------------------------------------------------
(* The handlers *)

NewOrder(o, qty) == Out([o EXCEPT !.qty = qty, !.cum = 0, !.leaves = qty], "new")

Ordered(o) ==
  LET a == UpdateLeaves([o EXCEPT !.new = "A", !.modifyNew = FALSE])
  IN CASE ~o.modifyCxl /\ o.new \in {"H", "Q", "S"} ->
            Done(IF o.cxl = "D" THEN Out(a, "cxl") ELSE OutIf(a, "mod", {"D"}))
       [] o.new \in {"A", "C"} -> Done(UpdateLeaves(o))
       [] o.new = "S" /\ Simulating(o) -> Done(OutIf(a, "cxl", {"D", "X"}))
       [] OTHER -> Abnormal(a)

Reject(o) ==
  LET Closing(x) == [x EXCEPT !.new = IF @ = "C" THEN @ ELSE "X", !.modifyNew = FALSE, !.leaves = 0]
  IN CASE ~o.modifyCxl /\ o.new \in {"H", "Q", "S", "A", "X"} ->
            Done(Closing(IF o.cxl \in {"D", "Q"} THEN [o EXCEPT !.cxl = "X"]
                         ELSE IF o.mod \in {"D", "Q"} THEN [o EXCEPT !.mod = "X"] ELSE o))
       [] o.new \in {"S", "A"} /\ Simulating(o) ->
            Done(Closing([o EXCEPT !.mod = "X", !.cxl = IF @ \in {"D", "Q"} THEN "U" ELSE @]))
       [] OTHER -> Abnormal(Closing(o))

MayModifyWhileModifying(o) == o.new \notin {"X", "C"} /\ o.cxl \notin {"D", "Q", "S", "P"}

MayModify(o) ==
  o.new \notin {"X", "C"} /\ o.cxl \notin {"D", "Q", "S", "P"} /\ o.mod \notin {"D", "Q", "S", "P"}

NoRequest(o) == o.mod \in {"U", "A", "X"} /\ o.cxl \in {"U", "A", "X"}

\* Modify-on-queue: a new order that was not sent is queued again, as a new one.
ModifyNewOrder(o, qty) ==
  LET u == Update([o EXCEPT !.modifyNew = TRUE], qty)
  IN IF Filled(u) THEN [u EXCEPT !.new = "A", !.modifyNew = FALSE] ELSE NewOrder(u, qty)

Modify(o, qty) ==
  LET m == [o EXCEPT !.modQty = qty, !.modCum = 0]
  IN CASE NoRequest(o) /\ o.new \in {"S", "A"} -> Done(DeferOr(m, "mod", o.new = "S" /\ ~profile.asyncMod))
       [] NoRequest(o) /\ o.new \in {"H", "T"} -> Done(ModifyNewOrder(o, qty))
       [] o.new = "A" /\ o.mod \in {"H", "D", "T"} ->
            IF o.modifyCxl /\ o.cxl \in {"S", "P"} THEN Done([m EXCEPT !.mod = "D"])
            ELSE Done(Out([m EXCEPT !.cxl = IF o.modifyCxl THEN "U" ELSE @, !.modifyCxl = FALSE], "mod"))
       [] OTHER -> Abnormal(o)

\* A market that cannot modify: the order is cancelled, and then sent again as it is to be.
ModSimulated(o, qty) ==
  LET m == [o EXCEPT !.modQty = qty, !.mod = "D"]
      c == SynCancel([m EXCEPT !.modifyCxl = TRUE])
  IN CASE NoRequest(o) /\ o.new \in {"S", "A"} ->
            Done(DeferOr([c EXCEPT !.modCum = 0], "cxl", o.new = "S" /\ ~profile.asyncCxl))
       [] NoRequest(o) /\ o.new \in {"H", "T"} -> Done(ModifyNewOrder(o, qty))
       [] o.new = "A" /\ o.mod \in {"H", "D", "T"} ->
            Done(IF o.modifyCxl /\ o.cxl \in {"Q", "S", "P"} THEN m ELSE Out(c, "cxl"))
       [] OTHER -> Abnormal(o)

Modified(o, qty, cum) ==
  LET solicited == o.new \in {"S", "A"} /\ o.mod \in {"D", "Q", "S"}
      m == [Acked(o) EXCEPT !.modQty = qty,
                            !.modCum = IF profile.copiesCum THEN cum ELSE IF solicited THEN @ ELSE 0]
      accepted == OutIf(IF PendingFill(m, m.modCum) THEN [m EXCEPT !.mod = "P"]
                        ELSE Update([m EXCEPT !.mod = "A"], qty), "cxl", {"D"})
  IN CASE solicited \/ o.new \in {"A", "C"} \/ (~o.modifyCxl /\ o.new \in {"H", "Q", "S"}) -> Done(accepted)
       [] ~solicited /\ o.new = "S" /\ Simulating(o) -> Done(OutIf(accepted, "cxl", {"X"}))
       [] OTHER -> Abnormal(Update(o, qty))

ModRejectKeepDeferred(o) ==
  IF o.mod \in {"D", "Q", "S", "P"} THEN Done([o EXCEPT !.mod = "X"]) ELSE Abnormal(o)

ModReject(o) ==
  LET m == [o EXCEPT !.mod = "X"]
  IN CASE o.new \in {"S", "A"} /\ o.mod \in {"D", "Q", "S", "P"} -> Done(OutIf(m, "cxl", {"D"}))
       [] o.new \in {"X", "C"} /\ o.mod \in {"S", "P"} -> Done(m)
       [] OTHER -> Abnormal(o)

\* A modify that is rejected takes the order with it.
ModRejectCxl(o) ==
  LET m == [o EXCEPT !.mod = "X", !.modifyCxl = FALSE]
  IN CASE o.new \in {"S", "A"} /\ o.mod \in {"D", "Q", "S", "P"} ->
            Done(IF Filled(o) \/ o.cxl \in {"Q", "S", "P"} THEN m
                 ELSE DeferOr(IF o.cxl = "D" THEN m ELSE SynCancel(m), "cxl",
                              o.new = "S" /\ ~profile.asyncCxl))
       [] o.new \in {"X", "C"} /\ o.mod \in {"S", "P"} -> Done([o EXCEPT !.mod = "X"])
       [] OTHER -> Abnormal(o)

\* filterCancel(): a cancel that meets the cancel of a simulated modify turns it into one.
CancelPending(o) == o.new \notin {"X", "C"} /\ o.cxl \in {"D", "Q", "S", "P"}

Cancel(o) ==
  LET c == SynCancel([o EXCEPT !.modifyCxl = FALSE, !.mod = IF @ \in {"H", "D", "T"} THEN "X" ELSE @])
  IN CASE o.new \in {"S", "A"} -> Done(DeferOr(c, "cxl", "S" \in {o.new, o.mod} /\ ~profile.asyncCxl))
       [] o.new \in {"H", "T"} -> Done([o EXCEPT !.new = "C", !.modifyNew = FALSE])
       [] OTHER -> Abnormal(o)

Canceled(o, cum) ==
  LET solicited == o.cxl \in {"D", "Q", "S"}
      c == [IF solicited THEN Acked(o) ELSE SynCancel(Acked(o)) EXCEPT !.cxlCum = IF profile.copiesCum THEN cum ELSE @]
      pending == PendingFill(c, c.cxlCum)
      closed == IF pending THEN [c EXCEPT !.cxl = "P"]
                ELSE Update([c EXCEPT !.cxl = "A", !.new = "C"], c.cxlQty)
      u == Update([c EXCEPT !.cxl = "A", !.modifyNew = TRUE, !.modifyCxl = FALSE], c.modQty)
      replaced == IF pending THEN [c EXCEPT !.cxl = "P"]
                  ELSE IF o.mod = "H" THEN [u EXCEPT !.new = "H", !.mod = "U"] ELSE u
  IN CASE ~o.modifyCxl /\ o.new \in {"H", "Q", "S", "A"} ->
            Done([closed EXCEPT !.mod = IF @ \in {"D", "Q"} THEN "X" ELSE @, !.leaves = 0])
       [] o.new \in {"X", "C"} -> Done([o EXCEPT !.cxl = IF solicited THEN "A" ELSE @])
       [] o.modifyCxl /\ o.new \in {"S", "A"} /\ o.mod \in {"H", "D"} ->
            Done(IF Filled(replaced) THEN [replaced EXCEPT !.modifyNew = FALSE, !.new = "A"]
                 ELSE Out(replaced, "new"))
       [] OTHER -> Abnormal([o EXCEPT !.new = IF @ = "X" THEN @ ELSE "C", !.leaves = 0])

CxlReject(o) ==
  IF o.cxl \in {"D", "Q", "S"} THEN Done([o EXCEPT !.cxl = "X"]) ELSE Abnormal(o)

\* fill(): it acknowledges an order that is not, and a modify that alone allows it.
Fill(o, better) ==
  LET a == IF o.new \in {"H", "Q", "S"} THEN [o EXCEPT !.new = "A", !.modifyNew = FALSE] ELSE o
      b == CASE ~o.modifyCxl /\ o.new \in {"H", "Q", "S"} ->
                  IF o.cxl = "D" THEN Out(a, "cxl") ELSE OutIf(a, "mod", {"D"})
             [] o.new = "S" /\ Simulating(o) -> OutIf(a, "cxl", {"D", "X"})
             [] OTHER -> o
      f == UpdateLeaves([b EXCEPT !.cum = @ + 1])
      modifies == /\ f.mod \in {"H", "D", "Q", "S"}
                  /\ IF f.cum > f.qty THEN f.cum <= f.modQty ELSE better
      m == IF f.mod = "P" /\ ~PendingFill(f, f.modCum) THEN Update([f EXCEPT !.mod = "A"], f.modQty) ELSE f
  IN Done(IF modifies THEN Update([f EXCEPT !.mod = "A"], f.modQty)
          ELSE IF m.cxl = "P" /\ ~PendingFill(m, m.cxlCum)
          THEN Update([m EXCEPT !.cxl = "A", !.new = "C"], m.cxlQty) ELSE m)

Closed(o) == [o EXCEPT !.new = "C", !.leaves = 0]

-----------------------------------------------------------------------------
(* External: the application *)

Unset ==
  [new |-> "U", mod |-> "U", cxl |-> "U", modifyCxl |-> FALSE, modifyNew |-> FALSE, qty |-> 0,
   cum |-> 0, leaves |-> 0, modQty |-> 0, modCum |-> 0, cxlQty |-> 0, cxlCum |-> 0, out |-> <<>>]

Init ==
  /\ order = Unset /\ profile \in Profiles
  /\ wire = <<>> /\ back = <<>>
  /\ market = [live |-> FALSE, left |-> 0, done |-> 0]
  /\ odd = FALSE /\ requests = 0 /\ events = 0

Handled(r) == order' = r.order /\ odd' = (odd \/ r.odd)

\* Takes back what is queued: a new order, or a modify of an acknowledged one.  Its place in
\* the queue is passed over, or is taken by what is queued instead.
Aborted(o) ==
  LET r == IF o.new = "A" THEN "mod" ELSE "new"
  IN IF o[r] = "Q" THEN [o EXCEPT ![r] = "T"] ELSE o

ClientNew(qty) ==
  /\ order.new = "U"
  /\ order' = NewOrder(order, qty)
  /\ UNCHANGED <<profile, wire, back, market, odd, requests, events>>

ClientModify(qty) ==
  /\ order.new # "U" /\ requests < MaxRequests
  /\ MayModify(Aborted(order))
  /\ Handled(IF profile.simulated THEN ModSimulated(Aborted(order), qty) ELSE Modify(Aborted(order), qty))
  /\ requests' = requests + 1
  /\ UNCHANGED <<profile, wire, back, market, events>>

ClientCancel ==
  /\ order.new \notin {"U", "X", "C"} /\ requests < MaxRequests
  /\ Handled(IF CancelPending(order) THEN Done([order EXCEPT !.modifyCxl = FALSE])
             ELSE Cancel(Aborted(order)))
  /\ requests' = requests + 1
  /\ UNCHANGED <<profile, wire, back, market, events>>

\* Sends the first queued request, unless it is not wanted any more.
Send ==
  /\ order.out # <<>>
  /\ LET r == Head(order.out)
         rest == [order EXCEPT !.out = Tail(@)]
     IN IF order[r] = "Q"
        THEN /\ order' = [rest EXCEPT ![r] = "S"]
             /\ wire' = Append(wire, [type |-> r, qty |-> IF r = "mod" THEN order.modQty ELSE order.leaves])
        ELSE order' = rest /\ UNCHANGED wire
  /\ UNCHANGED <<profile, back, market, odd, requests, events>>

-----------------------------------------------------------------------------
(* External: the market *)

Says(type, qty) == back' = Append(back, [type |-> type, qty |-> qty, cum |-> market.done])
Ends(type) == Says(type, 0) /\ market' = [market EXCEPT !.live = FALSE, !.left = 0]

\* The market answers a request; it may reject any, of a live order too.
Answer ==
  /\ wire # <<>>
  /\ wire' = Tail(wire)
  /\ LET m == Head(wire)
     IN \/ /\ m.type = "new"
           /\ Says("ordered", 0) /\ market' = [market EXCEPT !.live = TRUE, !.left = m.qty]
        \/ m.type = "new" /\ Ends("reject")
        \/ /\ m.type = "mod" /\ market.live /\ m.qty > market.done /\ ~profile.simulated
           /\ Says("modified", m.qty) /\ market' = [market EXCEPT !.left = m.qty - market.done]
        \/ m.type = "mod" /\ Says("modReject", 0) /\ UNCHANGED market
        \/ m.type = "cxl" /\ market.live /\ Ends("canceled")
        \/ m.type = "cxl" /\ Says("cxlReject", 0) /\ UNCHANGED market
  /\ UNCHANGED <<order, profile, odd, requests, events>>

\* It fills one of the order.
Trade ==
  /\ market.live
  /\ Says("fill", 1)
  /\ market' = [live |-> market.left > 1, left |-> market.left - 1, done |-> market.done + 1]
  /\ UNCHANGED <<order, profile, wire, odd, requests, events>>

\* It expires, cancels or restates the order unasked.
Unasked ==
  /\ market.live /\ events < MaxEvents
  /\ \/ Ends("closed")
     \/ profile.unasked /\ Ends("canceled")
     \/ \E qty \in market.done + 1..MaxQty :
          profile.unasked /\ Says("modified", qty) /\ market' = [market EXCEPT !.left = qty - market.done]
  /\ events' = events + 1
  /\ UNCHANGED <<order, profile, wire, odd, requests>>

Kind(i) == IF back[i].type = "fill" THEN "fill" ELSE "answer"

\* A fill may have a price only a modify allows that the market accepted before.
Betters(i) == {FALSE} \cup {back[j].type = "modified" : j \in 1..i-1}

Handler(m, better) ==
  CASE m.type = "ordered" -> Ordered(order)
    [] m.type = "reject" -> Reject(order)
    [] m.type = "modified" -> Modified(order, m.qty, m.cum)
    [] m.type = "modReject" -> IF profile.rejectCancels THEN ModRejectCxl(order) ELSE ModReject(order)
    [] m.type = "canceled" -> Canceled(order, m.cum)
    [] m.type = "cxlReject" -> CxlReject(order)
    [] m.type = "fill" -> Fill(order, better)
    [] m.type = "closed" -> Done(Closed(order))

Deliver ==
  \E i \in DOMAIN back :
    /\ i = 1 \/ (Kind(i) \in profile.early /\ \A j \in 1..i-1 : Kind(j) # Kind(i))
    /\ \E better \in Betters(i) : Handled(Handler(back[i], better))
    /\ back' = RemoveAt(back, i)
    /\ UNCHANGED <<profile, wire, market, requests, events>>

Settled == order.out = <<>> /\ wire = <<>> /\ back = <<>>
Stopped == order.new # "U" /\ Settled /\ ~market.live /\ UNCHANGED vars

Next ==
  \/ \E qty \in 1..MaxQty : ClientNew(qty) \/ ClientModify(qty)
  \/ ClientCancel \/ Send \/ Answer \/ Trade \/ Unasked \/ Deliver \/ Stopped

Spec == Init /\ [][Next]_vars

-----------------------------------------------------------------------------
(* Properties *)

\* Once every message has arrived, the manager and the market agree: on what
\* was filled, on whether the order is open, and on what is left of it, and no
\* request of an open order waits for an answer; but a modify that was deferred
\* until its order is cancelled, to be simulated, waits for good if the market
\* rejects the cancel (cxlReject() leaves it so).
Agrees ==
  (order.new # "U" /\ Settled) =>
    /\ order.cum = market.done
    /\ market.live <=> (order.new = "A" /\ ~Filled(order))
    /\ market.live =>
         /\ order.leaves = market.left
         /\ \/ {order.mod, order.cxl} \cap {"D", "Q", "S", "P"} = {}
            \/ order.mod = "D" /\ order.cxl = "X"

\* With a market that answers in order and only what it was asked, abnormal() is
\* never called, and what "should never happen" does not.
Orderly == (profile.early = {} /\ ~profile.unasked) => ~odd
=============================================================================
