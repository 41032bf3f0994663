------------------------- MODULE MxTOrderMgrProofs -------------------------
(***************************************************************************)
(* Theorems about MxTOrderMgr, for any quantities, numbers of requests and *)
(* kinds of market: every variable keeps its type; and with a market that  *)
(* answers in order, and only what it is asked, no handler meets what it   *)
(* calls abnormal, and the two sides agree once every message has arrived. *)
(***************************************************************************)
EXTENDS MxTOrderMgr, SequenceTheorems, TLAPS

-----------------------------------------------------------------------------
(* Orders: what the helpers of the handlers return                         *)

LEMMA OrderFields ==
  ASSUME NEW o \in Orders
  PROVE  /\ o.new \in EventState /\ o.mod \in EventState /\ o.cxl \in EventState
         /\ o.modifyCxl \in BOOLEAN /\ o.modifyNew \in BOOLEAN
         /\ o.qty \in Qty /\ o.cum \in Nat /\ o.leaves \in Qty
         /\ o.modQty \in Qty /\ o.modCum \in Nat /\ o.cxlQty \in Qty /\ o.cxlCum \in Nat
         /\ o.out \in Seq(Request)
  BY DEF Orders

LEMMA LeavesType ==
  ASSUME NEW qty \in Qty, NEW cum \in Nat
  PROVE  Leaves(qty, cum) \in Qty
  BY BoundsAssumption DEF Leaves, Qty

LEMMA UpdateType ==
  ASSUME NEW o \in Orders, NEW qty \in Qty
  PROVE  UpdateLeaves(o) \in Orders /\ Update(o, qty) \in Orders
  BY LeavesType, OrderFields DEF UpdateLeaves, Update, Orders

LEMMA OutType ==
  ASSUME NEW o \in Orders, NEW r \in Request
  PROVE  Out(o, r) \in Orders
<1>1. Append(o.out, r) \in Seq(Request)
  BY OrderFields
<1>2. CASE r = "new"
  BY <1>1, <1>2 DEF Out, Orders, EventState
<1>3. CASE r = "mod"
  BY <1>1, <1>3 DEF Out, Orders, EventState
<1>4. CASE r = "cxl"
  BY <1>1, <1>4 DEF Out, Orders, EventState
<1> QED
  BY <1>2, <1>3, <1>4 DEF Request

-----------------------------------------------------------------------------
(* Orders once there is one: what is queued is in the queue, and a new     *)
(* order in it has something to trade and is not being replaced.           *)

Queued(o) == \A r \in Request : o[r] = "Q" => Contains(o.out, r)

Good(o) ==
  /\ o \in Orders /\ o.new # "U"
  /\ Queued(o)
  /\ o.new = "Q" => o.leaves >= 1
  /\ o.modifyCxl => o.new \notin {"H", "Q", "T"}

LEMMA ContainsAppend ==
  ASSUME NEW s \in Seq(Request), NEW r \in Request, NEW x \in Request,
         x = r \/ Contains(s, x)
  PROVE  Contains(Append(s, r), x)
<1>1. Len(Append(s, r)) = Len(s) + 1 /\ Append(s, r)[Len(s) + 1] = r /\ Len(s) \in Nat
  BY AppendProperties
<1>2. \A i \in 1..Len(s) : Append(s, r)[i] = s[i]
  BY AppendProperties
<1> QED
  BY <1>1, <1>2 DEF Contains

\* An update that queues nothing keeps an order good.
LEMMA GoodKept ==
  ASSUME NEW o, Good(o), NEW p \in Orders, p.out = o.out, p.new # "U",
         \A r \in Request : p[r] = "Q" => o[r] = "Q",
         p.new = "Q" => p.leaves >= 1,
         p.modifyCxl => p.new \notin {"H", "Q", "T"}
  PROVE  Good(p)
  BY DEF Good, Queued

LEMMA GoodOut ==
  ASSUME NEW o, Good(o), NEW r \in {"mod", "cxl"}
  PROVE  Good(Out(o, r)) /\ Out(o, r).new = o.new
<1>1. o \in Orders /\ Out(o, r) \in Orders
  BY OutType DEF Good, Request
<1>2. o.out \in Seq(Request)
  BY <1>1, OrderFields
<1>3. \A x \in Request : x = r \/ Contains(o.out, x) => Contains(Append(o.out, r), x)
  BY <1>2, ContainsAppend DEF Request
<1>4. CASE r = "mod"
  <2>1. /\ Out(o, r).new = o.new /\ Out(o, r).mod = "Q" /\ Out(o, r).cxl = o.cxl
        /\ Out(o, r).leaves = o.leaves /\ Out(o, r).modifyCxl = o.modifyCxl
        /\ Out(o, r).out = Append(o.out, r)
    BY <1>1, <1>4 DEF Out, Orders
  <2> QED
    BY <1>1, <1>3, <1>4, <2>1 DEF Good, Queued, Request
<1>5. CASE r = "cxl"
  <2>1. /\ Out(o, r).new = o.new /\ Out(o, r).mod = o.mod /\ Out(o, r).cxl = "Q"
        /\ Out(o, r).leaves = o.leaves /\ Out(o, r).modifyCxl = o.modifyCxl
        /\ Out(o, r).out = Append(o.out, r)
    BY <1>1, <1>5 DEF Out, Orders
  <2> QED
    BY <1>1, <1>3, <1>5, <2>1 DEF Good, Queued, Request
<1> QED
  BY <1>4, <1>5

\* A new order is queued with something to trade.
LEMMA GoodOutNew ==
  ASSUME NEW o \in Orders, o.leaves >= 1, ~o.modifyCxl, \A r \in {"mod", "cxl"} : o[r] = "Q" => Contains(o.out, r)
  PROVE  Good(Out(o, "new"))
<1>1. Out(o, "new") \in Orders
  BY OutType DEF Request
<1>2. o.out \in Seq(Request)
  BY OrderFields
<1>3. \A x \in Request : x = "new" \/ Contains(o.out, x) => Contains(Append(o.out, "new"), x)
  BY <1>2, ContainsAppend DEF Request
<1>4. /\ Out(o, "new").new = "Q" /\ Out(o, "new").mod = o.mod /\ Out(o, "new").cxl = o.cxl
      /\ Out(o, "new").leaves = o.leaves /\ Out(o, "new").modifyCxl = o.modifyCxl
      /\ Out(o, "new").out = Append(o.out, "new")
  BY DEF Out, Orders
<1> QED
  BY <1>1, <1>3, <1>4 DEF Good, Queued, Request

LEMMA GoodOutIf ==
  ASSUME NEW o, Good(o), NEW r \in {"mod", "cxl"}, NEW states
  PROVE  Good(OutIf(o, r, states)) /\ OutIf(o, r, states).new = o.new
  BY GoodOut DEF OutIf

LEMMA GoodDeferOr ==
  ASSUME NEW o, Good(o), NEW r \in {"mod", "cxl"}, NEW defer \in BOOLEAN
  PROVE  Good(DeferOr(o, r, defer)) /\ DeferOr(o, r, defer).new = o.new
<1>1. o \in Orders
  BY DEF Good
<1>2. Good([o EXCEPT !.mod = "D"]) /\ Good([o EXCEPT !.cxl = "D"])
  <2>1. [o EXCEPT !.mod = "D"] \in Orders /\ [o EXCEPT !.cxl = "D"] \in Orders
    BY <1>1 DEF Orders, EventState
  <2> QED
    BY <1>1, <2>1, GoodKept DEF Good, Orders, Request
<1> QED
  BY <1>1, <1>2, GoodOut DEF DeferOr, Orders

LEMMA GoodUpdate ==
  ASSUME NEW o, Good(o), o.new # "Q"
  PROVE  /\ Good(UpdateLeaves(o)) /\ UpdateLeaves(o).new = o.new
         /\ \A qty \in Qty : Good(Update(o, qty)) /\ Update(o, qty).new = o.new
<1>0. UpdateLeaves(o) = Update(o, o.qty) /\ o.qty \in Qty
  BY DEF UpdateLeaves, Update, Good, Orders
<1> SUFFICES ASSUME NEW qty \in Qty
             PROVE  Good(Update(o, qty)) /\ Update(o, qty).new = o.new
  BY <1>0
<1> DEFINE p == Update(o, qty)
<1>1. o \in Orders /\ p \in Orders
  BY UpdateType DEF Good
<1>2. p.new = o.new /\ p.mod = o.mod /\ p.cxl = o.cxl /\ p.out = o.out /\ p.modifyCxl = o.modifyCxl
  BY <1>1 DEF UpdateLeaves, Update, Orders
<1> HIDE DEF p
<1>3. Good(p)
  BY <1>1, <1>2, GoodKept DEF Good, Request
<1> QED
  BY <1>2, <1>3 DEF p

-----------------------------------------------------------------------------
(* What each handler does to a good order                                  *)

Result(r) == Good(r.order) /\ r.odd \in BOOLEAN

LEMMA ResultDone ==
  ASSUME NEW o, Good(o)
  PROVE  Result(Done(o)) /\ Result(Abnormal(o))
  BY DEF Result, Done, Abnormal

LEMMA NewOrderGood ==
  ASSUME NEW o \in Orders, ~o.modifyCxl, NEW qty \in Qty, qty >= 1,
         \A r \in {"mod", "cxl"} : o[r] = "Q" => Contains(o.out, r)
  PROVE  Good(NewOrder(o, qty))
<1> DEFINE n == [o EXCEPT !.qty = qty, !.cum = 0, !.leaves = qty]
<1>1. n \in Orders
  BY DEF Orders
<1>2. n.leaves = qty /\ n.modifyCxl = o.modifyCxl /\ n.mod = o.mod /\ n.cxl = o.cxl /\ n.out = o.out
  BY DEF Orders
<1>3. \A r \in {"mod", "cxl"} : n[r] = "Q" => Contains(n.out, r)
  BY <1>2
<1> HIDE DEF n
<1>4. Good(Out(n, "new"))
  BY <1>1, <1>2, <1>3, GoodOutNew
<1> QED
  BY <1>4 DEF NewOrder, n

LEMMA AckedGood ==
  ASSUME NEW o, Good(o)
  PROVE  Good(Acked(o)) /\ Acked(o).new \notin {"Q", "U"}
<1>1. Acked(o) \in Orders
  BY DEF Good, Acked, Orders, EventState
<1>2. /\ Acked(o).new = IF o.new \in {"H", "Q", "S"} THEN "A" ELSE o.new
      /\ Acked(o).mod = o.mod /\ Acked(o).cxl = o.cxl /\ Acked(o).out = o.out
      /\ Acked(o).modifyCxl = o.modifyCxl
  BY DEF Good, Acked, Orders
<1> QED
  BY <1>1, <1>2, GoodKept DEF Good, Request

LEMMA OrderedGood ==
  ASSUME NEW o, Good(o)
  PROVE  Result(Ordered(o))
<1> DEFINE n == [o EXCEPT !.new = "A", !.modifyNew = FALSE]
           a == UpdateLeaves(n)
<1>1. Good(n) /\ n.new = "A"
  <2>1. n \in Orders
    BY DEF Good, Orders, EventState
  <2>2. n.new = "A" /\ n.mod = o.mod /\ n.cxl = o.cxl /\ n.out = o.out
    BY DEF Good, Orders
  <2> HIDE DEF n
  <2> QED
    BY <2>1, <2>2, GoodKept DEF Request
<1> HIDE DEF n
<1>2. Good(a)
  BY <1>1, GoodUpdate
<1>3. o.new \in {"A", "C"} => Good(UpdateLeaves(o))
  BY GoodUpdate
<1> HIDE DEF a
<1>4. Ordered(o) = CASE ~o.modifyCxl /\ o.new \in {"H", "Q", "S"} ->
                          Done(IF o.cxl = "D" THEN Out(a, "cxl") ELSE OutIf(a, "mod", {"D"}))
                     [] o.new \in {"A", "C"} -> Done(UpdateLeaves(o))
                     [] o.new = "S" /\ Simulating(o) -> Done(OutIf(a, "cxl", {"D", "X"}))
                     [] OTHER -> Abnormal(a)
  BY DEF Ordered, a, n
<1>5. Good(IF o.cxl = "D" THEN Out(a, "cxl") ELSE OutIf(a, "mod", {"D"})) /\ Good(OutIf(a, "cxl", {"D", "X"}))
  BY <1>2, GoodOut, GoodOutIf
<1> QED
  BY <1>2, <1>3, <1>4, <1>5, ResultDone

LEMMA RejectGood ==
  ASSUME NEW o, Good(o)
  PROVE  Result(Reject(o))
<1> DEFINE Closing(x) == [x EXCEPT !.new = IF @ = "C" THEN @ ELSE "X", !.modifyNew = FALSE, !.leaves = 0]
<1>1. ASSUME NEW x, Good(x)
      PROVE  Good(Closing(x))
  <2>0. 0 \in Qty /\ (IF x.new = "C" THEN x.new ELSE "X") \in EventState
    BY BoundsAssumption DEF Qty, EventState
  <2>1. Closing(x) \in Orders
    BY <1>1, <2>0 DEF Good, Orders
  <2>2. /\ Closing(x).new \in {"C", "X"} /\ Closing(x).mod = x.mod /\ Closing(x).cxl = x.cxl
        /\ Closing(x).out = x.out
    BY <1>1 DEF Good, Orders
  <2> QED
    BY <1>1, <2>1, <2>2, GoodKept DEF Good, Request
<1> HIDE DEF Closing
<1>2. \A m, c \in {"X", "U"} : /\ Good([o EXCEPT !.mod = m]) /\ Good([o EXCEPT !.cxl = c])
                              /\ Good([o EXCEPT !.mod = m, !.cxl = c])
  <2> TAKE m, c \in {"X", "U"}
  <2>1. \A p \in {[o EXCEPT !.mod = m], [o EXCEPT !.cxl = c], [o EXCEPT !.mod = m, !.cxl = c]} :
          /\ p \in Orders /\ p.new = o.new /\ p.mod \in {o.mod, m} /\ p.cxl \in {o.cxl, c} /\ p.out = o.out
          /\ p.leaves = o.leaves /\ p.modifyCxl = o.modifyCxl
    BY DEF Good, Orders, EventState
  <2>2. ASSUME NEW p \in Orders, p.new = o.new, p.mod \in {o.mod, m}, p.cxl \in {o.cxl, c}, p.out = o.out,
               p.leaves = o.leaves, p.modifyCxl = o.modifyCxl
        PROVE  Good(p)
    BY <2>2, GoodKept DEF Good, Request
  <2> QED
    BY <2>1, <2>2
<1>3. [o EXCEPT !.mod = "X", !.cxl = IF @ \in {"D", "Q"} THEN "U" ELSE @]
        \in {[o EXCEPT !.mod = "X"], [o EXCEPT !.mod = "X", !.cxl = "U"]}
  BY DEF Good, Orders
<1>4. Reject(o) = CASE ~o.modifyCxl /\ o.new \in {"H", "Q", "S", "A", "X"} ->
            Done(Closing(IF o.cxl \in {"D", "Q"} THEN [o EXCEPT !.cxl = "X"]
                         ELSE IF o.mod \in {"D", "Q"} THEN [o EXCEPT !.mod = "X"] ELSE o))
       [] o.new \in {"S", "A"} /\ Simulating(o) ->
            Done(Closing([o EXCEPT !.mod = "X", !.cxl = IF @ \in {"D", "Q"} THEN "U" ELSE @]))
       [] OTHER -> Abnormal(Closing(o))
  BY DEF Reject, Closing
<1>5. \A x : Good(x) => Result(Done(Closing(x))) /\ Result(Abnormal(Closing(x)))
  BY <1>1, ResultDone
<1>6. Good(IF o.cxl \in {"D", "Q"} THEN [o EXCEPT !.cxl = "X"]
                         ELSE IF o.mod \in {"D", "Q"} THEN [o EXCEPT !.mod = "X"] ELSE o)
  BY <1>2
<1>7. Good([o EXCEPT !.mod = "X", !.cxl = IF @ \in {"D", "Q"} THEN "U" ELSE @])
  BY <1>2, <1>3
<1> QED
  BY <1>4, <1>5, <1>6, <1>7

\* Flags and quantities that are not the new order's, and events that are not queued.
LEMMA GoodTweak ==
  ASSUME NEW o, Good(o), NEW p \in Orders, p.new = o.new, p.out = o.out, p.leaves = o.leaves,
         p.mod \in {o.mod} \cup (EventState \ {"Q"}), p.cxl \in {o.cxl} \cup (EventState \ {"Q"}),
         p.modifyCxl => o.modifyCxl \/ o.new \in {"S", "A"}
  PROVE  Good(p)
  BY GoodKept DEF Good, Request

LEMMA ModifyNewOrderGood ==
  ASSUME NEW o, Good(o), o.new \in {"H", "T"}, NEW qty \in Qty, qty >= 1
  PROVE  Good(ModifyNewOrder(o, qty))
<1> DEFINE n == [o EXCEPT !.modifyNew = TRUE]
           u == Update(n, qty)
           f == [u EXCEPT !.new = "A", !.modifyNew = FALSE]
<1>1. Good(n) /\ n.new = o.new /\ ~n.modifyCxl
  <2>1. n \in Orders
    BY DEF Good, Orders
  <2>2. /\ n.new = o.new /\ n.out = o.out /\ n.leaves = o.leaves /\ n.mod = o.mod /\ n.cxl = o.cxl
        /\ n.modifyCxl = o.modifyCxl
    BY DEF Good, Orders
  <2> HIDE DEF n
  <2> QED
    BY <2>1, <2>2, GoodTweak DEF Good
<1>2. Good(u) /\ u.new = o.new /\ ~u.modifyCxl
  <2>1. u.modifyCxl = n.modifyCxl
    BY <1>1 DEF Update, UpdateLeaves, Good, Orders
  <2> HIDE DEF n
  <2> QED
    BY <1>1, <2>1, GoodUpdate
<1> HIDE DEF n, u
<1>3. Good(f)
  <2>1. f \in Orders
    BY <1>2 DEF Good, Orders, EventState
  <2>2. f.new = "A" /\ f.out = u.out /\ f.mod = u.mod /\ f.cxl = u.cxl
    BY <1>2 DEF Good, Orders
  <2> HIDE DEF f
  <2> QED
    BY <1>2, <2>1, <2>2, GoodKept DEF Good, Request
<1>4. Good(NewOrder(u, qty))
  BY <1>2, NewOrderGood DEF Good, Queued, Request
<1> QED
  BY <1>3, <1>4 DEF ModifyNewOrder, n, u, f

LEMMA ModifyGood ==
  ASSUME NEW o, Good(o), NEW qty \in Qty, qty >= 1, profile \in Profile
  PROVE  Result(Modify(o, qty))
<1> DEFINE m == [o EXCEPT !.modQty = qty, !.modCum = 0]
           d == [m EXCEPT !.mod = "D"]
           u == [m EXCEPT !.cxl = IF o.modifyCxl THEN "U" ELSE @, !.modifyCxl = FALSE]
<1>1. Good(m) /\ m.new = o.new
  <2>1. m \in Orders
    BY DEF Good, Orders
  <2>2. /\ m.new = o.new /\ m.out = o.out /\ m.leaves = o.leaves /\ m.mod = o.mod /\ m.cxl = o.cxl
        /\ m.modifyCxl = o.modifyCxl
    BY DEF Good, Orders
  <2> HIDE DEF m
  <2> QED
    BY <2>1, <2>2, GoodTweak
<1> HIDE DEF m
<1>2. Good(d)
  <2>1. d \in Orders
    BY <1>1 DEF Good, Orders, EventState
  <2>2. /\ d.new = m.new /\ d.out = m.out /\ d.leaves = m.leaves /\ d.mod = "D" /\ d.cxl = m.cxl
        /\ d.modifyCxl = m.modifyCxl
    BY <1>1 DEF Good, Orders
  <2> HIDE DEF d
  <2> QED
    BY <1>1, <2>1, <2>2, GoodTweak DEF EventState
<1>3. Good(u)
  <2>1. u \in Orders
    BY <1>1 DEF Good, Orders, EventState
  <2>2. /\ u.new = m.new /\ u.out = m.out /\ u.leaves = m.leaves /\ u.mod = m.mod /\ u.cxl \in {m.cxl, "U"}
        /\ ~u.modifyCxl
    BY <1>1 DEF Good, Orders
  <2> HIDE DEF u
  <2> QED
    BY <1>1, <2>1, <2>2, GoodTweak DEF EventState
<1> HIDE DEF d, u
<1>4. (o.new = "S" /\ ~profile.asyncMod) \in BOOLEAN
  OBVIOUS
<1>5. Good(DeferOr(m, "mod", o.new = "S" /\ ~profile.asyncMod)) /\ Good(Out(u, "mod"))
  BY <1>1, <1>3, <1>4, GoodDeferOr, GoodOut
<1>6. o.new \in {"H", "T"} => Good(ModifyNewOrder(o, qty))
  BY ModifyNewOrderGood
<1>7. Modify(o, qty) =
        CASE NoRequest(o) /\ o.new \in {"S", "A"} -> Done(DeferOr(m, "mod", o.new = "S" /\ ~profile.asyncMod))
          [] NoRequest(o) /\ o.new \in {"H", "T"} -> Done(ModifyNewOrder(o, qty))
          [] o.new = "A" /\ o.mod \in {"H", "D", "T"} ->
               IF o.modifyCxl /\ o.cxl \in {"S", "P"} THEN Done(d) ELSE Done(Out(u, "mod"))
          [] OTHER -> Abnormal(o)
  BY DEF Modify, m, d, u
<1> QED
  BY <1>2, <1>5, <1>6, <1>7, ResultDone

LEMMA ModSimulatedGood ==
  ASSUME NEW o, Good(o), NEW qty \in Qty, qty >= 1, profile \in Profile
  PROVE  Result(ModSimulated(o, qty))
<1> DEFINE m == [o EXCEPT !.modQty = qty, !.mod = "D"]
           b == [m EXCEPT !.modifyCxl = TRUE]
           c == SynCancel(b)
           e == [c EXCEPT !.modCum = 0]
<1>1. Good(m) /\ m.new = o.new
  <2>1. m \in Orders
    BY DEF Good, Orders, EventState
  <2>2. /\ m.new = o.new /\ m.out = o.out /\ m.leaves = o.leaves /\ m.mod = "D" /\ m.cxl = o.cxl
        /\ m.modifyCxl = o.modifyCxl
    BY DEF Good, Orders
  <2> HIDE DEF m
  <2> QED
    BY <2>1, <2>2, GoodTweak DEF EventState
<1> HIDE DEF m
<1>2. ASSUME o.new \in {"S", "A"}
      PROVE  Good(c) /\ Good(e)
  <2>1. c \in Orders /\ e \in Orders
    BY <1>1 DEF Good, Orders, SynCancel
  <2>2. \A p \in {c, e} : /\ p.new = m.new /\ p.out = m.out /\ p.leaves = m.leaves /\ p.mod = m.mod
                          /\ p.cxl = m.cxl
    BY <1>1 DEF Good, Orders, SynCancel
  <2> HIDE DEF c, e
  <2> QED
    BY <1>1, <1>2, <2>1, <2>2, GoodTweak
<1> HIDE DEF c, e
<1>3. (o.new = "S" /\ ~profile.asyncCxl) \in BOOLEAN
  OBVIOUS
<1>4. o.new \in {"S", "A"} => Good(DeferOr(e, "cxl", o.new = "S" /\ ~profile.asyncCxl)) /\ Good(Out(c, "cxl"))
  BY <1>2, <1>3, GoodDeferOr, GoodOut
<1>5. o.new \in {"H", "T"} => Good(ModifyNewOrder(o, qty))
  BY ModifyNewOrderGood
<1>6. ModSimulated(o, qty) =
        CASE NoRequest(o) /\ o.new \in {"S", "A"} -> Done(DeferOr(e, "cxl", o.new = "S" /\ ~profile.asyncCxl))
          [] NoRequest(o) /\ o.new \in {"H", "T"} -> Done(ModifyNewOrder(o, qty))
          [] o.new = "A" /\ o.mod \in {"H", "D", "T"} ->
               Done(IF o.modifyCxl /\ o.cxl \in {"Q", "S", "P"} THEN m ELSE Out(c, "cxl"))
          [] OTHER -> Abnormal(o)
  BY DEF ModSimulated, m, b, c, e
<1> QED
  BY <1>1, <1>4, <1>5, <1>6, ResultDone

LEMMA GoodEvent ==
  ASSUME NEW o, Good(o), NEW s \in EventState \ {"Q"}
  PROVE  /\ Good([o EXCEPT !.mod = s]) /\ [o EXCEPT !.mod = s].new = o.new
         /\ Good([o EXCEPT !.cxl = s]) /\ [o EXCEPT !.cxl = s].new = o.new
<1> DEFINE m == [o EXCEPT !.mod = s]
           c == [o EXCEPT !.cxl = s]
<1>1. m \in Orders /\ c \in Orders
  BY DEF Good, Orders
<1>2. /\ m.new = o.new /\ m.out = o.out /\ m.leaves = o.leaves /\ m.mod = s /\ m.cxl = o.cxl
      /\ m.modifyCxl = o.modifyCxl
  BY DEF Good, Orders
<1>3. /\ c.new = o.new /\ c.out = o.out /\ c.leaves = o.leaves /\ c.mod = o.mod /\ c.cxl = s
      /\ c.modifyCxl = o.modifyCxl
  BY DEF Good, Orders
<1> HIDE DEF m, c
<1>4. Good(m) /\ Good(c)
  BY <1>1, <1>2, <1>3, GoodTweak
<1> QED
  BY <1>2, <1>3, <1>4 DEF m, c

LEMMA GoodSynCancel ==
  ASSUME NEW o, Good(o)
  PROVE  Good(SynCancel(o)) /\ SynCancel(o).new = o.new
<1>1. SynCancel(o) \in Orders
  BY DEF Good, Orders, SynCancel
<1>2. /\ SynCancel(o).new = o.new /\ SynCancel(o).out = o.out /\ SynCancel(o).leaves = o.leaves
      /\ SynCancel(o).mod = o.mod /\ SynCancel(o).cxl = o.cxl /\ SynCancel(o).modifyCxl = o.modifyCxl
  BY DEF Good, Orders, SynCancel
<1> QED
  BY <1>1, <1>2, GoodTweak

LEMMA ModifiedGood ==
  ASSUME NEW o, Good(o), NEW qty \in Qty, NEW cum \in Nat
  PROVE  Result(Modified(o, qty, cum))
<1> DEFINE a == Acked(o)
           solicited == o.new \in {"S", "A"} /\ o.mod \in {"D", "Q", "S"}
           m == [a EXCEPT !.modQty = qty,
                          !.modCum = IF profile.copiesCum THEN cum ELSE IF solicited THEN @ ELSE 0]
           n == IF PendingFill(m, m.modCum) THEN [m EXCEPT !.mod = "P"] ELSE Update([m EXCEPT !.mod = "A"], qty)
           accepted == OutIf(n, "cxl", {"D"})
<1>1. Good(a) /\ a.new # "Q"
  BY AckedGood
<1> HIDE DEF a
<1>2. Good(m) /\ m.new # "Q"
  <2>1. m \in Orders
    BY <1>1 DEF Good, Orders
  <2>2. /\ m.new = a.new /\ m.out = a.out /\ m.leaves = a.leaves /\ m.mod = a.mod /\ m.cxl = a.cxl
        /\ m.modifyCxl = a.modifyCxl
    BY <1>1 DEF Good, Orders
  <2> HIDE DEF m
  <2> QED
    BY <1>1, <2>1, <2>2, GoodTweak
<1> HIDE DEF m
<1>3. Good([m EXCEPT !.mod = "P"]) /\ Good([m EXCEPT !.mod = "A"]) /\ [m EXCEPT !.mod = "A"].new # "Q"
  BY <1>2, GoodEvent DEF EventState
<1>4. Good(n)
  BY <1>3, GoodUpdate
<1> HIDE DEF n
<1>5. Good(accepted) /\ Good(OutIf(accepted, "cxl", {"X"}))
  BY <1>4, GoodOutIf
<1>6. Modified(o, qty, cum) =
        CASE solicited \/ o.new \in {"A", "C"} \/ (~o.modifyCxl /\ o.new \in {"H", "Q", "S"}) -> Done(accepted)
          [] ~solicited /\ o.new = "S" /\ Simulating(o) -> Done(OutIf(accepted, "cxl", {"X"}))
          [] OTHER -> Abnormal(Update(o, qty))
  BY DEF Modified, a, m, n
<1> HIDE DEF accepted, solicited
<1>7. o.new # "Q" => Good(Update(o, qty))
  BY GoodUpdate
<1>8. ~(~o.modifyCxl /\ o.new \in {"H", "Q", "S"}) => o.new # "Q"
  BY DEF Good
<1> QED
  BY <1>5, <1>6, <1>7, <1>8, ResultDone

LEMMA ModRejectGood ==
  ASSUME NEW o, Good(o)
  PROVE  Result(ModReject(o))
<1>1. Good([o EXCEPT !.mod = "X"])
  BY GoodEvent DEF EventState
<1>2. Good(OutIf([o EXCEPT !.mod = "X"], "cxl", {"D"}))
  BY <1>1, GoodOutIf
<1> QED
  BY <1>1, <1>2, ResultDone DEF ModReject

LEMMA ModRejectCxlGood ==
  ASSUME NEW o, Good(o)
  PROVE  Result(ModRejectCxl(o))
<1> DEFINE x == [o EXCEPT !.mod = "X"]
           m == [o EXCEPT !.mod = "X", !.modifyCxl = FALSE]
<1>1. Good(x)
  BY GoodEvent DEF EventState
<1>2. Good(m)
  <2>1. m \in Orders
    BY DEF Good, Orders, EventState
  <2>2. /\ m.new = o.new /\ m.out = o.out /\ m.leaves = o.leaves /\ m.mod = "X" /\ m.cxl = o.cxl
        /\ ~m.modifyCxl
    BY DEF Good, Orders
  <2> HIDE DEF m
  <2> QED
    BY <2>1, <2>2, GoodTweak DEF EventState
<1> HIDE DEF m, x
<1>3. Good(IF o.cxl = "D" THEN m ELSE SynCancel(m))
  BY <1>2, GoodSynCancel
<1>4. (o.new = "S" /\ ~profile.asyncCxl) \in BOOLEAN
  OBVIOUS
<1>5. Good(DeferOr(IF o.cxl = "D" THEN m ELSE SynCancel(m), "cxl", o.new = "S" /\ ~profile.asyncCxl))
  BY <1>3, <1>4, GoodDeferOr
<1>6. ModRejectCxl(o) =
        CASE o.new \in {"S", "A"} /\ o.mod \in {"D", "Q", "S", "P"} ->
               Done(IF Filled(o) \/ o.cxl \in {"Q", "S", "P"} THEN m
                    ELSE DeferOr(IF o.cxl = "D" THEN m ELSE SynCancel(m), "cxl",
                                 o.new = "S" /\ ~profile.asyncCxl))
          [] o.new \in {"X", "C"} /\ o.mod \in {"S", "P"} -> Done(x)
          [] OTHER -> Abnormal(o)
  BY DEF ModRejectCxl, m, x
<1> QED
  BY <1>1, <1>2, <1>5, <1>6, ResultDone

LEMMA CancelGood ==
  ASSUME NEW o, Good(o)
  PROVE  Result(Cancel(o))
<1> DEFINE b == [o EXCEPT !.modifyCxl = FALSE, !.mod = IF @ \in {"H", "D", "T"} THEN "X" ELSE @]
           c == SynCancel(b)
           d == [o EXCEPT !.new = "C", !.modifyNew = FALSE]
<1>1. Good(b)
  <2>1. b \in Orders
    BY DEF Good, Orders, EventState
  <2>2. /\ b.new = o.new /\ b.out = o.out /\ b.leaves = o.leaves /\ b.mod \in {o.mod, "X"} /\ b.cxl = o.cxl
        /\ ~b.modifyCxl
    BY DEF Good, Orders
  <2> HIDE DEF b
  <2> QED
    BY <2>1, <2>2, GoodTweak DEF EventState
<1>2. Good(d)
  <2>1. d \in Orders
    BY DEF Good, Orders, EventState
  <2>2. d.new = "C" /\ d.out = o.out /\ d.mod = o.mod /\ d.cxl = o.cxl
    BY DEF Good, Orders
  <2> HIDE DEF d
  <2> QED
    BY <2>1, <2>2, GoodKept DEF Good, Request
<1> HIDE DEF b, d
<1>3. Good(c)
  BY <1>1, GoodSynCancel
<1> HIDE DEF c
<1>4. ("S" \in {o.new, o.mod} /\ ~profile.asyncCxl) \in BOOLEAN
  OBVIOUS
<1>5. Good(DeferOr(c, "cxl", "S" \in {o.new, o.mod} /\ ~profile.asyncCxl))
  BY <1>3, <1>4, GoodDeferOr
<1>6. Cancel(o) =
        CASE o.new \in {"S", "A"} -> Done(DeferOr(c, "cxl", "S" \in {o.new, o.mod} /\ ~profile.asyncCxl))
          [] o.new \in {"H", "T"} -> Done(d)
          [] OTHER -> Abnormal(o)
  BY DEF Cancel, b, c, d
<1> QED
  BY <1>2, <1>5, <1>6, ResultDone

LEMMA CxlRejectGood ==
  ASSUME NEW o, Good(o)
  PROVE  Result(CxlReject(o))
<1>1. Good([o EXCEPT !.cxl = "X"])
  BY GoodEvent DEF EventState
<1> QED
  BY <1>1, ResultDone DEF CxlReject

LEMMA ClosedGood ==
  ASSUME NEW o, Good(o)
  PROVE  Good(Closed(o))
<1>0. 0 \in Qty
  BY BoundsAssumption DEF Qty
<1>1. Closed(o) \in Orders
  BY <1>0 DEF Good, Closed, Orders, EventState
<1>2. Closed(o).new = "C" /\ Closed(o).out = o.out /\ Closed(o).mod = o.mod /\ Closed(o).cxl = o.cxl
  BY DEF Good, Closed, Orders
<1> QED
  BY <1>1, <1>2, GoodKept DEF Good, Request

\* Without copies of cumQty an event never waits for a fill.
Uncounted(o) == ~profile.copiesCum => o.modCum = 0 /\ o.cxlCum = 0

LEMMA CanceledGood ==
  ASSUME NEW o, Good(o), NEW cum \in Nat, o.modifyCxl => Uncounted(o) /\ cum <= o.cum
  PROVE  Result(Canceled(o, cum))
<1> DEFINE solicited == o.cxl \in {"D", "Q", "S"}
           b == IF solicited THEN Acked(o) ELSE SynCancel(Acked(o))
           c == [b EXCEPT !.cxlCum = IF profile.copiesCum THEN cum ELSE @]
           pending == PendingFill(c, c.cxlCum)
           p == [c EXCEPT !.cxl = "P"]
           closed == IF pending THEN p ELSE Update([c EXCEPT !.cxl = "A", !.new = "C"], c.cxlQty)
           k == [closed EXCEPT !.mod = IF @ \in {"D", "Q"} THEN "X" ELSE @, !.leaves = 0]
           v == [c EXCEPT !.cxl = "A", !.modifyNew = TRUE, !.modifyCxl = FALSE]
           u == Update(v, c.modQty)
           w == [u EXCEPT !.new = "H", !.mod = "U"]
           replaced == IF pending THEN p ELSE IF o.mod = "H" THEN w ELSE u
           f == [replaced EXCEPT !.modifyNew = FALSE, !.new = "A"]
           s == [o EXCEPT !.cxl = IF solicited THEN "A" ELSE @]
           e == [o EXCEPT !.new = IF @ = "X" THEN @ ELSE "C", !.leaves = 0]
<1>0. 0 \in Qty
  BY BoundsAssumption DEF Qty
<1>1. Good(c) /\ c.new \notin {"Q", "U"}
  <2>1. Good(b) /\ b.new \notin {"Q", "U"}
    BY AckedGood, GoodSynCancel
  <2> HIDE DEF b
  <2>2. c \in Orders
    BY <2>1 DEF Good, Orders
  <2>3. /\ c.new = b.new /\ c.out = b.out /\ c.leaves = b.leaves /\ c.mod = b.mod /\ c.cxl = b.cxl
        /\ c.modifyCxl = b.modifyCxl
    BY <2>1 DEF Good, Orders
  <2> HIDE DEF c
  <2> QED
    BY <2>1, <2>2, <2>3, GoodTweak
<1>2. c \in Orders /\ c.cxlQty \in Qty /\ c.modQty \in Qty
  BY <1>1, OrderFields DEF Good
<1>3. Good(s)
  <2>1. s \in Orders
    BY DEF Good, Orders, EventState
  <2>2. /\ s.new = o.new /\ s.out = o.out /\ s.leaves = o.leaves /\ s.mod = o.mod /\ s.cxl \in {o.cxl, "A"}
        /\ s.modifyCxl = o.modifyCxl
    BY DEF Good, Orders
  <2> HIDE DEF s
  <2> QED
    BY <2>1, <2>2, GoodTweak DEF EventState
<1>4. Good(e)
  <2>1. (IF o.new = "X" THEN o.new ELSE "C") \in EventState
    BY DEF EventState
  <2>2. e \in Orders
    BY <1>0, <2>1 DEF Good, Orders
  <2>3. e.new \in {"X", "C"} /\ e.out = o.out /\ e.mod = o.mod /\ e.cxl = o.cxl
    BY DEF Good, Orders
  <2> HIDE DEF e
  <2> QED
    BY <2>2, <2>3, GoodKept DEF Good, Request
<1>13. o.modifyCxl => ~pending
  <2>1. c.cum = o.cum /\ c.cxlCum \in {IF profile.copiesCum THEN cum ELSE o.cxlCum, IF profile.copiesCum THEN cum ELSE 0}
    BY DEF Good, Orders, Acked, SynCancel
  <2>2. o.cum \in Nat
    BY DEF Good, Orders
  <2> HIDE DEF c
  <2> QED
    BY <2>1, <2>2 DEF PendingFill, Uncounted
<1> HIDE DEF c, pending, e
<1>5. Good(p) /\ p.new \notin {"Q", "U"}
  BY <1>1, GoodEvent DEF EventState
<1>6. Good(closed) /\ closed.new \notin {"Q", "U"}
  <2> DEFINE x == [c EXCEPT !.cxl = "A", !.new = "C"]
  <2>1. x \in Orders
    BY <1>2 DEF Orders, EventState
  <2>2. x.new = "C" /\ x.out = c.out /\ x.mod = c.mod /\ x.cxl = "A"
    BY <1>2 DEF Orders
  <2> HIDE DEF x
  <2>3. Good(x)
    BY <1>1, <2>1, <2>2, GoodKept DEF Request
  <2>4. Good(Update(x, c.cxlQty)) /\ Update(x, c.cxlQty).new = "C"
    BY <1>2, <2>2, <2>3, GoodUpdate
  <2> QED
    BY <1>5, <2>4 DEF x
<1> HIDE DEF closed
<1>7. Good(k)
  <2>1. (IF closed.mod \in {"D", "Q"} THEN "X" ELSE closed.mod) \in EventState
    BY <1>6 DEF EventState, Good, Orders
  <2>2. k \in Orders
    BY <1>0, <1>6, <2>1 DEF Good, Orders
  <2>3. k.new = closed.new /\ k.out = closed.out /\ k.mod \in {closed.mod, "X"} /\ k.cxl = closed.cxl
        /\ k.modifyCxl = closed.modifyCxl
    BY <1>6 DEF Good, Orders
  <2> HIDE DEF k
  <2> QED
    BY <1>6, <2>2, <2>3, GoodKept DEF Good, Request
<1>8. /\ Good(u) /\ u.new \notin {"Q", "U"} /\ ~u.modifyCxl
      /\ u.leaves = Leaves(u.qty, u.cum)
  <2>1. v \in Orders
    BY <1>2 DEF Orders, EventState
  <2>2. /\ v.new = c.new /\ v.out = c.out /\ v.leaves = c.leaves /\ v.mod = c.mod /\ v.cxl = "A"
        /\ ~v.modifyCxl
    BY <1>2 DEF Orders
  <2> HIDE DEF v
  <2>3. Good(v)
    BY <1>1, <2>1, <2>2, GoodTweak DEF EventState
  <2>4. Good(u) /\ u.new = v.new
    BY <1>1, <1>2, <2>2, <2>3, GoodUpdate
  <2>5. u.modifyCxl = v.modifyCxl /\ u.leaves = Leaves(u.qty, u.cum)
    BY <2>1 DEF Update, UpdateLeaves, Orders
  <2> QED
    BY <1>1, <2>2, <2>4, <2>5
<1> HIDE DEF p, u
<1>9. Good(w) /\ ~w.modifyCxl /\ w.leaves = Leaves(w.qty, w.cum)
  <2>1. w \in Orders
    BY <1>8 DEF Good, Orders, EventState
  <2>2. /\ w.new = "H" /\ w.out = u.out /\ w.leaves = u.leaves /\ w.mod = "U" /\ w.cxl = u.cxl
        /\ w.modifyCxl = u.modifyCxl /\ w.qty = u.qty /\ w.cum = u.cum
    BY <1>8 DEF Good, Orders
  <2> HIDE DEF w
  <2> QED
    BY <1>8, <2>1, <2>2, GoodKept DEF Request
<1> HIDE DEF w
<1>10. Good(replaced)
  BY <1>5, <1>8, <1>9
<1>11. Good(f)
  <2> HIDE DEF replaced
  <2>1. f \in Orders
    BY <1>10 DEF Good, Orders, EventState
  <2>2. f.new = "A" /\ f.out = replaced.out /\ f.mod = replaced.mod /\ f.cxl = replaced.cxl
    BY <1>10 DEF Good, Orders
  <2> HIDE DEF f
  <2> QED
    BY <1>10, <2>1, <2>2, GoodKept DEF Request
<1>12. Canceled(o, cum) =
         CASE ~o.modifyCxl /\ o.new \in {"H", "Q", "S", "A"} -> Done(k)
           [] o.new \in {"X", "C"} -> Done(s)
           [] o.modifyCxl /\ o.new \in {"S", "A"} /\ o.mod \in {"H", "D"} ->
                Done(IF Filled(replaced) THEN f ELSE Out(replaced, "new"))
           [] OTHER -> Abnormal(e)
  BY DEF Canceled, c, pending, closed, p, u, w, e
<1>14. o.modifyCxl /\ ~Filled(replaced) => Good(Out(replaced, "new"))
  <2> SUFFICES ASSUME o.modifyCxl, ~Filled(replaced)
               PROVE  Good(Out(replaced, "new"))
    OBVIOUS
  <2>1. ~replaced.modifyCxl /\ replaced.leaves = Leaves(replaced.qty, replaced.cum)
    BY <1>8, <1>9, <1>13
  <2> HIDE DEF replaced
  <2>2. replaced \in Orders /\ replaced.qty \in Nat /\ replaced.cum \in Nat
    BY <1>10, OrderFields, BoundsAssumption DEF Good, Qty
  <2>3. replaced.leaves >= 1
    BY <2>1, <2>2 DEF Filled, Leaves
  <2> QED
    BY <1>10, <2>1, <2>2, <2>3, GoodOutNew DEF Good, Queued, Request
<1> QED
  BY <1>3, <1>4, <1>7, <1>11, <1>12, <1>14, ResultDone

LEMMA FillGood ==
  ASSUME NEW o, Good(o), NEW better \in BOOLEAN
  PROVE  Result(Fill(o, better))
<1> DEFINE n == [o EXCEPT !.new = "A", !.modifyNew = FALSE]
           a == IF o.new \in {"H", "Q", "S"} THEN n ELSE o
           b == CASE ~o.modifyCxl /\ o.new \in {"H", "Q", "S"} ->
                       IF o.cxl = "D" THEN Out(a, "cxl") ELSE OutIf(a, "mod", {"D"})
                  [] o.new = "S" /\ Simulating(o) -> OutIf(a, "cxl", {"D", "X"})
                  [] OTHER -> o
           e == [b EXCEPT !.cum = @ + 1]
           f == UpdateLeaves(e)
           y == [f EXCEPT !.mod = "A"]
           m == IF f.mod = "P" /\ ~PendingFill(f, f.modCum) THEN Update(y, f.modQty) ELSE f
           c == [m EXCEPT !.cxl = "A", !.new = "C"]
           modifies == /\ f.mod \in {"H", "D", "Q", "S"}
                       /\ IF f.cum > f.qty THEN f.cum <= f.modQty ELSE better
<1>1. Good(a) /\ (o.new \in {"H", "Q", "S"} => a.new = "A")
  <2>1. n \in Orders
    BY DEF Good, Orders, EventState
  <2>2. n.new = "A" /\ n.out = o.out /\ n.mod = o.mod /\ n.cxl = o.cxl
    BY DEF Good, Orders
  <2> HIDE DEF n
  <2>3. Good(n)
    BY <2>1, <2>2, GoodKept DEF Request
  <2> QED
    BY <2>2, <2>3
<1> HIDE DEF a
<1>2. Good(b) /\ b.new # "Q"
  <2>1. /\ Good(Out(a, "cxl")) /\ Out(a, "cxl").new = a.new
        /\ Good(OutIf(a, "mod", {"D"})) /\ OutIf(a, "mod", {"D"}).new = a.new
        /\ Good(OutIf(a, "cxl", {"D", "X"})) /\ OutIf(a, "cxl", {"D", "X"}).new = a.new
    BY <1>1, GoodOut, GoodOutIf
  <2> QED
    BY <1>1, <2>1 DEF Good
<1> HIDE DEF b
<1>3. Good(f) /\ f.new # "Q"
  <2>1. e \in Orders
    BY <1>2 DEF Good, Orders
  <2>2. /\ e.new = b.new /\ e.out = b.out /\ e.leaves = b.leaves /\ e.mod = b.mod /\ e.cxl = b.cxl
        /\ e.modifyCxl = b.modifyCxl
    BY <1>2 DEF Good, Orders
  <2> HIDE DEF e
  <2>3. Good(e)
    BY <1>2, <2>1, <2>2, GoodTweak
  <2> QED
    BY <1>2, <2>2, <2>3, GoodUpdate
<1> HIDE DEF f
<1>4. Good(y) /\ y.new # "Q" /\ f.modQty \in Qty
  <2>1. Good(y) /\ y.new = f.new
    BY <1>3, GoodEvent DEF EventState
  <2>2. f.modQty \in Qty
    BY <1>3 DEF Good, Orders
  <2> QED
    BY <1>3, <2>1, <2>2
<1> HIDE DEF y
<1>5. Good(Update(y, f.modQty)) /\ Update(y, f.modQty).new # "Q"
  BY <1>4, GoodUpdate
<1>6. Good(m)
  BY <1>3, <1>5
<1> HIDE DEF m
<1>7. Good(Update(c, m.cxlQty))
  <2>1. c \in Orders /\ m.cxlQty \in Qty
    BY <1>6 DEF Good, Orders, EventState
  <2>2. c.new = "C" /\ c.out = m.out /\ c.mod = m.mod /\ c.cxl = "A"
    BY <1>6 DEF Good, Orders
  <2> HIDE DEF c
  <2>3. Good(c)
    BY <1>6, <2>1, <2>2, GoodKept DEF Request
  <2> QED
    BY <2>1, <2>2, <2>3, GoodUpdate
<1>8. Fill(o, better) =
        Done(IF modifies THEN Update(y, f.modQty)
             ELSE IF m.cxl = "P" /\ ~PendingFill(m, m.cxlCum) THEN Update(c, m.cxlQty) ELSE m)
  BY DEF Fill, n, a, b, e, f, y, m
<1> HIDE DEF modifies, c
<1> QED
  BY <1>5, <1>6, <1>7, <1>8, ResultDone

-----------------------------------------------------------------------------
(* What no handler changes                                                 *)

NotHeld(o) == o.new # "H" /\ o.mod # "H"

\* No event is held or counted that was not, a new order stays queued only with the modify it
\* waits for, and an order is replaced only where modifies are simulated.
Keeps(o, p) ==
  /\ Uncounted(o) => Uncounted(p)
  /\ NotHeld(o) => NotHeld(p)
  /\ p.new \in {"Q", "T"} => p.new = o.new /\ p.mod = o.mod
  /\ p.modifyCxl => o.modifyCxl \/ profile.simulated

LEMMA OrderedKeeps ==
  ASSUME NEW o \in Orders
  PROVE  Keeps(o, Ordered(o).order) /\ Ordered(o).order.cum = o.cum
  BY DEF Orders, Keeps, Ordered, Done, Abnormal, OutIf, Out, UpdateLeaves, Uncounted, NotHeld
LEMMA RejectKeeps ==
  ASSUME NEW o \in Orders
  PROVE  Keeps(o, Reject(o).order) /\ Reject(o).order.cum = o.cum
  BY DEF Orders, Keeps, Reject, Done, Abnormal, Uncounted, NotHeld
LEMMA ModRejectKeeps ==
  ASSUME NEW o \in Orders
  PROVE  Keeps(o, ModReject(o).order) /\ ModReject(o).order.cum = o.cum
  BY DEF Orders, Keeps, ModReject, Done, Abnormal, OutIf, Out, Uncounted, NotHeld
LEMMA ModRejectCxlKeeps ==
  ASSUME NEW o \in Orders
  PROVE  Keeps(o, ModRejectCxl(o).order) /\ ModRejectCxl(o).order.cum = o.cum
  BY DEF Orders, Keeps, ModRejectCxl, Done, Abnormal, DeferOr, SynCancel, Out, Uncounted, NotHeld
LEMMA CancelKeeps ==
  ASSUME NEW o \in Orders
  PROVE  Keeps(o, Cancel(o).order) /\ Cancel(o).order.cum = o.cum
  BY DEF Orders, Keeps, Cancel, Done, Abnormal, DeferOr, SynCancel, Out, Uncounted, NotHeld
LEMMA CxlRejectKeeps ==
  ASSUME NEW o \in Orders
  PROVE  Keeps(o, CxlReject(o).order) /\ CxlReject(o).order.cum = o.cum
  BY DEF Orders, Keeps, CxlReject, Done, Abnormal, Uncounted, NotHeld
LEMMA ClosedKeeps ==
  ASSUME NEW o \in Orders
  PROVE  Keeps(o, Closed(o)) /\ Closed(o).cum = o.cum
  BY DEF Orders, Keeps, Closed, Uncounted, NotHeld
LEMMA ModifiedKeeps ==
  ASSUME NEW o \in Orders, NEW qty \in Qty, NEW cum \in Nat
  PROVE  Keeps(o, Modified(o, qty, cum).order) /\ Modified(o, qty, cum).order.cum = o.cum
<1> DEFINE b == Acked(o)
           solicited == o.new \in {"S", "A"} /\ o.mod \in {"D", "Q", "S"}
           m == [b EXCEPT !.modQty = qty,
                          !.modCum = IF profile.copiesCum THEN cum ELSE IF solicited THEN @ ELSE 0]
           p == [m EXCEPT !.mod = "P"]
           a == [m EXCEPT !.mod = "A"]
           n == IF PendingFill(m, m.modCum) THEN p ELSE Update(a, qty)
           accepted == OutIf(n, "cxl", {"D"})
           also == OutIf(accepted, "cxl", {"X"})
           Near(x) == /\ x \in Orders /\ x.cum = o.cum /\ x.modifyCxl = o.modifyCxl
                      /\ (o.new \in {"H", "Q", "S"} => x.new = "A") /\ (o.new \notin {"H", "Q", "S"} => x.new = o.new)
                      /\ (Uncounted(o) => Uncounted(x))
<1>1. Near(b)
  BY DEF Acked, Orders, EventState, Uncounted
<1> HIDE DEF b
<1>2. Near(m)
  BY <1>1 DEF Orders, Uncounted
<1> HIDE DEF m
<1>3. Near(p) /\ p.mod = "P" /\ Near(a) /\ a.mod = "A"
  BY <1>2 DEF Orders, EventState, Uncounted
<1> HIDE DEF p, a
<1>4. Near(Update(a, qty)) /\ Update(a, qty).mod = "A"
  <2>1. Update(a, qty) \in Orders
    BY <1>3, UpdateType
  <2> QED
    BY <1>3, <2>1 DEF Update, UpdateLeaves, Orders, Uncounted
<1>5. Near(n) /\ n.mod \in {"A", "P"}
  BY <1>3, <1>4
<1> HIDE DEF n
<1>6. ASSUME NEW x, Near(x), x.mod \in {"A", "P"}, NEW states
      PROVE  Near(OutIf(x, "cxl", states)) /\ OutIf(x, "cxl", states).mod = x.mod
  <2>1. Out(x, "cxl") \in Orders
    BY <1>6, OutType DEF Request
  <2> QED
    BY <1>6, <2>1 DEF OutIf, Out, Orders, Uncounted
<1>7. Near(accepted) /\ accepted.mod \in {"A", "P"}
  BY <1>5, <1>6
<1> HIDE DEF accepted
<1>8. Near(also) /\ also.mod \in {"A", "P"}
  BY <1>6, <1>7
<1> HIDE DEF also
<1>9. \A x : Near(x) /\ x.mod \in {"A", "P"} /\ o.new # "T" => Keeps(o, x) /\ x.cum = o.cum
  BY DEF Keeps, NotHeld
<1>10. Keeps(o, Update(o, qty)) /\ Update(o, qty).cum = o.cum
  BY DEF Keeps, NotHeld, Update, UpdateLeaves, Orders, Uncounted
<1>11. Modified(o, qty, cum) =
         CASE solicited \/ o.new \in {"A", "C"} \/ (~o.modifyCxl /\ o.new \in {"H", "Q", "S"}) -> Done(accepted)
           [] ~solicited /\ o.new = "S" /\ Simulating(o) -> Done(also)
           [] OTHER -> Abnormal(Update(o, qty))
  BY DEF Modified, accepted, also, a, b, m, n, p
<1>12. \/ Modified(o, qty, cum).order \in {accepted, also} /\ o.new # "T"
       \/ Modified(o, qty, cum).order = Update(o, qty)
  BY <1>11 DEF Done, Abnormal
<1> HIDE DEF Near
<1> QED
  BY <1>7, <1>8, <1>9, <1>10, <1>12

LEMMA CanceledKeeps ==
  ASSUME NEW o \in Orders, NEW cum \in Nat
  PROVE  LET p == Canceled(o, cum).order
         IN /\ p.cum = o.cum
            /\ Uncounted(o) => Uncounted(p)
            /\ NotHeld(o) => NotHeld(p)
            /\ NotHeld(o) /\ p.new \in {"Q", "T"} =>
                 (p.new = o.new /\ p.mod = o.mod) \/ (o.modifyCxl /\ p.mod = "D")
            /\ p.modifyCxl => o.modifyCxl
<1> DEFINE solicited == o.cxl \in {"D", "Q", "S"}
           b == IF solicited THEN Acked(o) ELSE SynCancel(Acked(o))
           c == [b EXCEPT !.cxlCum = IF profile.copiesCum THEN cum ELSE @]
           pending == PendingFill(c, c.cxlCum)
           h == [c EXCEPT !.cxl = "P"]
           t == [c EXCEPT !.cxl = "A", !.new = "C"]
           closed == IF pending THEN h ELSE Update(t, c.cxlQty)
           k == [closed EXCEPT !.mod = IF @ \in {"D", "Q"} THEN "X" ELSE @, !.leaves = 0]
           v == [c EXCEPT !.cxl = "A", !.modifyNew = TRUE, !.modifyCxl = FALSE]
           u == Update(v, c.modQty)
           w == [u EXCEPT !.new = "H", !.mod = "U"]
           replaced == IF pending THEN h ELSE IF o.mod = "H" THEN w ELSE u
           f == [replaced EXCEPT !.modifyNew = FALSE, !.new = "A"]
           q == Out(replaced, "new")
           s == [o EXCEPT !.cxl = IF solicited THEN "A" ELSE @]
           e == [o EXCEPT !.new = IF @ = "X" THEN @ ELSE "C", !.leaves = 0]
           Near(x) == /\ x \in Orders /\ x.cum = o.cum /\ (x.modifyCxl => o.modifyCxl)
                      /\ (Uncounted(o) => Uncounted(x))
           Base(x) == Near(x) /\ x.mod = o.mod
           Acks(x) == Base(x) /\ x.new = (IF o.new \in {"H", "Q", "S"} THEN "A" ELSE o.new)
<1>0. 0 \in Qty
  BY BoundsAssumption DEF Qty
<1>1. Acks(b)
  BY DEF Acked, SynCancel, Orders, EventState, Uncounted
<1> HIDE DEF b
<1>2. Acks(c)
  BY <1>1 DEF Orders, Uncounted
<1> HIDE DEF c, pending
<1>3. Acks(h)
  BY <1>2 DEF Orders, EventState, Uncounted
<1> HIDE DEF h
<1>4. Base(t) /\ t.new = "C"
  BY <1>2 DEF Orders, EventState, Uncounted
<1> HIDE DEF t
<1>5. c.cxlQty \in Qty /\ c.modQty \in Qty
  BY <1>2 DEF Orders
<1>6. Base(Update(t, c.cxlQty)) /\ Update(t, c.cxlQty).new = "C"
  <2>1. Update(t, c.cxlQty) \in Orders
    BY <1>4, <1>5, UpdateType
  <2> QED
    BY <1>4, <2>1 DEF Update, UpdateLeaves, Orders, Uncounted
<1>7. Base(closed) /\ closed.new \in {"C", IF o.new \in {"H", "Q", "S"} THEN "A" ELSE o.new}
  BY <1>3, <1>6
<1> HIDE DEF closed
<1>8. Near(k) /\ k.new = closed.new /\ k.mod \in {o.mod, "X"}
  <2>1. (IF closed.mod \in {"D", "Q"} THEN "X" ELSE closed.mod) \in EventState
    BY <1>7 DEF EventState, Orders
  <2> QED
    BY <1>0, <1>7, <2>1 DEF Orders, Uncounted
<1> HIDE DEF k
<1>9. Base(v) /\ v.new = c.new
  BY <1>2 DEF Orders, EventState, Uncounted
<1> HIDE DEF v
<1>10. Base(u) /\ u.new = c.new
  <2>1. u \in Orders
    BY <1>5, <1>9, UpdateType
  <2> QED
    BY <1>9, <2>1 DEF Update, UpdateLeaves, Orders, Uncounted
<1> HIDE DEF u
<1>11. Near(w) /\ w.new = "H" /\ w.mod = "U"
  BY <1>10 DEF Orders, EventState, Uncounted
<1> HIDE DEF w
<1>12. Near(replaced) /\ (o.mod # "H" => replaced.mod = o.mod)
  BY <1>3, <1>10, <1>11
<1> HIDE DEF replaced
<1>13. Near(f) /\ f.new = "A" /\ f.mod = replaced.mod
  BY <1>12 DEF Orders, EventState, Uncounted
<1> HIDE DEF f
<1>14. Near(q) /\ q.new = "Q" /\ q.mod = replaced.mod
  <2>1. q \in Orders
    BY <1>12, OutType DEF Request
  <2> QED
    BY <1>12, <2>1 DEF Out, Orders, Uncounted
<1> HIDE DEF q
<1>15. Base(s) /\ s.new = o.new
  BY DEF Orders, EventState, Uncounted
<1> HIDE DEF s
<1>16. Base(e) /\ e.new \in {"X", "C"}
  <2>1. (IF o.new = "X" THEN o.new ELSE "C") \in EventState
    BY DEF EventState
  <2> QED
    BY <1>0, <2>1 DEF Orders, Uncounted
<1> HIDE DEF e
<1>17. Canceled(o, cum) =
         CASE ~o.modifyCxl /\ o.new \in {"H", "Q", "S", "A"} -> Done(k)
           [] o.new \in {"X", "C"} -> Done(s)
           [] o.modifyCxl /\ o.new \in {"S", "A"} /\ o.mod \in {"H", "D"} ->
                Done(IF Filled(replaced) THEN f ELSE q)
           [] OTHER -> Abnormal(e)
  BY DEF Canceled, c, pending, closed, h, k, u, w, e, b, t, v, replaced, f, q, s
<1> HIDE DEF Near
<1> DEFINE p == Canceled(o, cum).order
<1>18. \/ ~o.modifyCxl /\ o.new \in {"H", "Q", "S", "A"} /\ p = k
       \/ p \in {s, e}
       \/ o.modifyCxl /\ o.mod \in {"H", "D"} /\ p \in {f, q}
  BY <1>17 DEF Done, Abnormal
<1> HIDE DEF p
<1>19. Near(p)
  BY <1>8, <1>13, <1>14, <1>15, <1>16, <1>18
<1>20. NotHeld(o) => NotHeld(p)
  BY <1>2, <1>7, <1>8, <1>12, <1>13, <1>14, <1>15, <1>16, <1>18 DEF NotHeld
<1>21. NotHeld(o) /\ p.new \in {"Q", "T"} => (p.new = o.new /\ p.mod = o.mod) \/ (o.modifyCxl /\ p.mod = "D")
  BY <1>7, <1>8, <1>12, <1>13, <1>14, <1>15, <1>16, <1>18 DEF NotHeld
<1> QED
  BY <1>19, <1>20, <1>21 DEF Near, p

LEMMA FillKeeps ==
  ASSUME NEW o \in Orders, NEW better \in BOOLEAN, o.new \notin {"Q", "T"}
  PROVE  Keeps(o, Fill(o, better).order) /\ Fill(o, better).order.cum = o.cum + 1
<1> DEFINE n == [o EXCEPT !.new = "A", !.modifyNew = FALSE]
           a == IF o.new \in {"H", "Q", "S"} THEN n ELSE o
           b == CASE ~o.modifyCxl /\ o.new \in {"H", "Q", "S"} ->
                       IF o.cxl = "D" THEN Out(a, "cxl") ELSE OutIf(a, "mod", {"D"})
                  [] o.new = "S" /\ Simulating(o) -> OutIf(a, "cxl", {"D", "X"})
                  [] OTHER -> o
           e == [b EXCEPT !.cum = @ + 1]
           f == UpdateLeaves(e)
           y == [f EXCEPT !.mod = "A"]
           z == Update(y, f.modQty)
           m == IF f.mod = "P" /\ ~PendingFill(f, f.modCum) THEN z ELSE f
           c == [m EXCEPT !.cxl = "A", !.new = "C"]
           d == Update(c, m.cxlQty)
           modifies == /\ f.mod \in {"H", "D", "Q", "S"}
                       /\ IF f.cum > f.qty THEN f.cum <= f.modQty ELSE better
           Near(x, k) == x \in Orders /\ x.cum = o.cum + k /\ x.modifyCxl = o.modifyCxl /\ (Uncounted(o) => Uncounted(x))
<1>0. o.cum \in Nat
  BY DEF Orders
<1>1. Near(a, 0) /\ a.mod = o.mod /\ a.new = (IF o.new \in {"H", "Q", "S"} THEN "A" ELSE o.new)
  <2>1. n \in Orders
    BY DEF Orders, EventState
  <2>2. /\ n.cum = o.cum /\ n.modifyCxl = o.modifyCxl /\ n.modCum = o.modCum /\ n.cxlCum = o.cxlCum
        /\ n.mod = o.mod /\ n.new = "A"
    BY DEF Orders
  <2> HIDE DEF n
  <2> QED
    BY <1>0, <2>1, <2>2 DEF Uncounted
<1> HIDE DEF a
<1>2. Near(b, 0) /\ (b = o \/ (b.new = "A" /\ b.mod \in {o.mod, "Q"}))
  <2>1. \A r \in Request : Out(a, r) \in Orders
    BY <1>1, OutType
  <2>2. /\ Near(Out(a, "cxl"), 0) /\ Out(a, "cxl").mod = a.mod /\ Out(a, "cxl").new = a.new
        /\ Near(Out(a, "mod"), 0) /\ Out(a, "mod").mod = "Q" /\ Out(a, "mod").new = a.new
    BY <1>1, <2>1 DEF Out, Orders, Uncounted, Request
  <2> QED
    BY <1>1, <2>2 DEF OutIf, Orders, Uncounted
<1> HIDE DEF b
<1>3. Near(e, 1) /\ e.new = b.new /\ e.mod = b.mod
  <2>1. e \in Orders
    BY <1>2 DEF Orders
  <2>2. /\ e.cum = b.cum + 1 /\ e.modifyCxl = b.modifyCxl /\ e.modCum = b.modCum /\ e.cxlCum = b.cxlCum
        /\ e.mod = b.mod /\ e.new = b.new
    BY <1>2 DEF Orders
  <2> HIDE DEF e
  <2> QED
    BY <1>0, <1>2, <2>1, <2>2 DEF Uncounted
<1> HIDE DEF e
<1>4. Near(f, 1) /\ f.new = b.new /\ f.mod = b.mod
  <2>1. f \in Orders /\ e.qty \in Qty
    BY <1>3, UpdateType DEF Orders
  <2> QED
    BY <1>3, <2>1 DEF Update, UpdateLeaves, Orders, Uncounted
<1> HIDE DEF f
<1>5. Near(y, 1) /\ y.new = f.new /\ y.mod = "A" /\ f.modQty \in Qty
  BY <1>4 DEF Orders, EventState, Uncounted
<1> HIDE DEF y
<1>6. Near(z, 1) /\ z.new = f.new /\ z.mod = "A"
  <2>1. z \in Orders
    BY <1>5, UpdateType
  <2> QED
    BY <1>5, <2>1 DEF Update, UpdateLeaves, Orders, Uncounted
<1> HIDE DEF z
<1>7. m \in {z, f} /\ (m = z => f.mod = "P" \/ z = f)
  OBVIOUS
<1> HIDE DEF m
<1>8. Near(d, 1) /\ d.new = "C" /\ d.mod = m.mod
  <2>1. Near(c, 1) /\ c.new = "C" /\ c.mod = m.mod /\ m.cxlQty \in Qty
    BY <1>4, <1>6, <1>7 DEF Orders, EventState, Uncounted
  <2> HIDE DEF c
  <2>2. d \in Orders
    BY <2>1, UpdateType
  <2> QED
    BY <2>1, <2>2 DEF Update, UpdateLeaves, Orders, Uncounted
<1> HIDE DEF d, modifies
<1>9. Fill(o, better) = Done(IF modifies THEN z
                             ELSE IF m.cxl = "P" /\ ~PendingFill(m, m.cxlCum) THEN d ELSE m)
  BY DEF Fill, n, a, b, e, f, y, z, m, d, modifies
<1>10. Fill(o, better).order \in {z, d, m}
  BY <1>9 DEF Done
<1>11. \A p \in {z, d, f} : /\ Near(p, 1) /\ p.new \in {f.new, "C"} /\ p.mod \in {f.mod, "A"}
  BY <1>4, <1>6, <1>7, <1>8
<1>12. f.new \notin {"Q", "T"} /\ (NotHeld(o) => f.new # "H" /\ f.mod # "H")
  BY <1>2, <1>4 DEF NotHeld
<1>13. \A p \in {z, d, f} : Keeps(o, p) /\ p.cum = o.cum + 1
  BY <1>11, <1>12 DEF Keeps, NotHeld
<1> QED
  BY <1>7, <1>10, <1>13

LEMMA ModifyNewOrderKeeps ==
  ASSUME NEW o \in Orders, NEW qty \in Qty
  PROVE  LET p == ModifyNewOrder(o, qty)
         IN /\ p.cum \in {0, o.cum} /\ p.new \in {"A", "Q"} /\ p.mod = o.mod /\ p.modifyCxl = o.modifyCxl
            /\ p.modCum = o.modCum /\ p.cxlCum = o.cxlCum
  BY DEF ModifyNewOrder, NewOrder, Update, UpdateLeaves, Out, Orders

\* A modify of the client does not disturb a new order that is queued, unless it replaces it.
ClientKeeps(o, p) ==
  /\ Uncounted(o) => Uncounted(p)
  /\ NotHeld(o) => NotHeld(p)
  /\ p.new \in {"Q", "T"} => (o.new \in {"H", "T"} /\ NoRequest(o)) \/ (p.new = o.new /\ p.mod = o.mod)
  /\ p.modifyCxl => o.modifyCxl \/ profile.simulated
  /\ p.cum = o.cum \/ (o.new \in {"H", "T"} /\ NoRequest(o) /\ p.cum = 0)

LEMMA ModifyKeeps ==
  ASSUME NEW o \in Orders, NEW qty \in Qty
  PROVE  ClientKeeps(o, Modify(o, qty).order)
<1>1. CASE NoRequest(o) /\ o.new \in {"H", "T"}
  <2>1. Modify(o, qty) = Done(ModifyNewOrder(o, qty))
    BY <1>1 DEF Modify
  <2> QED
    BY <1>1, <2>1, ModifyNewOrderKeeps DEF Done, ClientKeeps, Uncounted, NotHeld
<1>2. CASE ~(NoRequest(o) /\ o.new \in {"H", "T"})
  BY <1>2 DEF Orders, ClientKeeps, Modify, Done, Abnormal, DeferOr, Out, Uncounted, NotHeld
<1> QED
  BY <1>1, <1>2

LEMMA ModSimulatedKeeps ==
  ASSUME NEW o \in Orders, NEW qty \in Qty, profile.simulated
  PROVE  ClientKeeps(o, ModSimulated(o, qty).order)
<1>1. CASE NoRequest(o) /\ o.new \in {"H", "T"}
  <2>1. ModSimulated(o, qty) = Done(ModifyNewOrder(o, qty))
    BY <1>1 DEF ModSimulated
  <2> QED
    BY <1>1, <2>1, ModifyNewOrderKeeps DEF Done, ClientKeeps, Uncounted, NotHeld
<1>2. CASE ~(NoRequest(o) /\ o.new \in {"H", "T"})
  BY <1>2 DEF Orders, ClientKeeps, ModSimulated, SynCancel, Done, Abnormal, DeferOr, Out, Uncounted, NotHeld
<1> QED
  BY <1>1, <1>2

-----------------------------------------------------------------------------
(* Sequences                                                               *)

LEMMA RemoveAtProperties ==
  ASSUME NEW S, NEW s \in Seq(S), NEW i \in 1..Len(s)
  PROVE  /\ RemoveAt(s, i) \in Seq(S)
         /\ Len(RemoveAt(s, i)) = Len(s) - 1
         /\ \A j \in 1..Len(s) - 1 : RemoveAt(s, i)[j] = IF j < i THEN s[j] ELSE s[j + 1]
<1> DEFINE b == SubSeq(s, 1, i - 1)
           a == SubSeq(s, i + 1, Len(s))
<1>0. Len(s) \in Nat
  OBVIOUS
<1>1. b \in Seq(S) /\ Len(b) = i - 1 /\ \A j \in 1..i - 1 : b[j] = s[j]
  BY <1>0, SubSeqProperties
<1>2. a \in Seq(S) /\ Len(a) = Len(s) - i /\ \A j \in 1..Len(s) - i : a[j] = s[i + j]
  <2>1. a \in Seq(S) /\ Len(a) = IF i + 1 <= Len(s) + 1 THEN Len(s) + 1 - (i + 1) ELSE 0
    BY <1>0, SubSeqProperties
  <2>2. \A j \in 1..Len(s) + 1 - (i + 1) : a[j] = s[(i + 1) + j - 1]
    BY <1>0, SubSeqProperties
  <2> QED
    BY <1>0, <2>1, <2>2
<1> HIDE DEF a, b
<1>3. b \o a \in Seq(S) /\ Len(b \o a) = Len(b) + Len(a)
  BY <1>1, <1>2, ConcatProperties
<1>4. \A j \in 1..Len(s) - 1 : (b \o a)[j] = IF j <= Len(b) THEN b[j] ELSE a[j - Len(b)]
  BY <1>0, <1>1, <1>2, ConcatProperties
<1>5. ASSUME NEW j \in 1..Len(s) - 1
      PROVE  (b \o a)[j] = IF j < i THEN s[j] ELSE s[j + 1]
  <2>1. CASE j < i
    BY <1>0, <1>1, <1>4, <2>1
  <2>2. CASE ~(j < i)
    <3>1. j - (i - 1) \in 1..Len(s) - i /\ i + (j - (i - 1)) = j + 1
      BY <1>0, <2>2
    <3> QED
      BY <1>0, <1>1, <1>2, <1>4, <2>2, <3>1
  <2> QED
    BY <2>1, <2>2
<1>6. Len(b \o a) = Len(s) - 1
  BY <1>0, <1>1, <1>2, <1>3
<1>7. b \o a = RemoveAt(s, i)
  BY DEF RemoveAt, a, b
<1> QED
  BY <1>3, <1>5, <1>6, <1>7

-----------------------------------------------------------------------------
(* The inductive invariant for the types                                   *)

Rejects == {"modReject", "cxlReject"}
Finals == {"reject", "canceled", "closed"}

Filling(m) == IF m.type = "fill" THEN 1 ELSE 0

\* Between a new order that is queued, or on its way, and its answer the market has no order:
\* only requests of an earlier one are still answered, and those are rejected.
Opening == order.new \in {"Q", "T"} \/ \E i \in DOMAIN wire : wire[i].type = "new"
Generation ==
  /\ \A i \in DOMAIN wire : wire[i].type = "new" =>
       /\ wire[i].qty >= 1 /\ order.new \notin {"Q", "T"}
       /\ \A j \in DOMAIN wire : wire[j].type = "new" => j = i
  /\ Opening => ~market.live /\ \A i \in DOMAIN back : back[i].type \in Rejects

\* After the message that ends an order only rejections come.
AfterEnd ==
  \A i \in DOMAIN back : back[i].type \in Finals =>
    ~market.live /\ \A j \in DOMAIN back : j > i => back[j].type \in Rejects

\* A queued new order was not filled yet, or is the replacement of a simulated modify.
Fresh == order.new \in {"Q", "T"} => (market.done = 0 /\ order.cum = 0) \/ order.mod = "D"

\* The quantities that messages count are at most those of the fills before them.
Behind ==
  \E e \in [1..Len(back) + 1 -> Nat] :
    /\ e[1] <= order.cum /\ market.done <= e[Len(back) + 1]
    /\ \A i \in 1..Len(back) : back[i].cum <= e[i] /\ e[i + 1] <= e[i] + Filling(back[i])

Started == order.new # "U" => Good(order)
Before ==
  order.new = "U" => order = Unset /\ wire = <<>> /\ back = <<>> /\ ~market.live /\ market.done = 0

TypeInv ==
  /\ TypeOK /\ Started /\ Before
  /\ NotHeld(order) /\ Uncounted(order) /\ (order.modifyCxl => profile.simulated)
  /\ market.live => market.left >= 1
  /\ Generation /\ AfterEnd /\ Fresh /\ Behind

\* The markets whose answers to cancels of simulated modifies come in order.
Supported(p) == p.simulated => "answer" \notin p.early

LEMMA TypeInvInit == Init => TypeInv
<1> SUFFICES ASSUME Init
             PROVE  TypeInv
  OBVIOUS
<1>1. 0 \in Qty /\ 0 \in 0..MaxRequests /\ 0 \in 0..MaxEvents
  BY BoundsAssumption DEF Qty
<1>2. Unset \in Orders
  BY <1>1 DEF Unset, Orders, EventState
<1>3. \A r \in Request : Unset[r] = "U"
  BY DEF Unset, Request
<1>4. TypeOK
  <2>1. wire \in Seq([type : Request, qty : Qty]) /\ back \in Seq(Messages)
    BY DEF Init
  <2>2. market \in [live : BOOLEAN, left : Qty, done : Nat]
    BY <1>1 DEF Init
  <2>3. odd \in BOOLEAN /\ requests \in 0..MaxRequests /\ events \in 0..MaxEvents
    BY <1>1 DEF Init
  <2> QED
    BY <1>2, <1>3, <2>1, <2>2, <2>3 DEF Init, TypeOK
<1>5. Unset.new = "U" /\ Unset.mod = "U" /\ ~Unset.modifyCxl /\ Unset.modCum = 0 /\ Unset.cxlCum = 0 /\ Unset.cum = 0
  BY DEF Unset
<1>6. Behind
  <2> DEFINE e == [i \in 1..1 |-> 0]
  <2>1. e \in [1..Len(back) + 1 -> Nat] /\ e[1] = 0 /\ Len(back) = 0
    BY DEF Init
  <2> HIDE DEF e
  <2> QED
    BY <1>5, <2>1 DEF Behind, Init
<1>7. DOMAIN wire = {} /\ DOMAIN back = {}
  BY DEF Init
<1> QED
  BY <1>4, <1>5, <1>6, <1>7
     DEF Init, TypeInv, Started, Before, NotHeld, Uncounted, Generation, Opening, AfterEnd, Fresh

LEMMA HandlerKeeps ==
  ASSUME TypeInv, Supported(profile), NEW i \in DOMAIN back, NEW better \in BOOLEAN,
         i = 1 \/ Kind(i) \in profile.early
  PROVE  LET r == Handler(back[i], better)
         IN /\ Result(r) /\ r.order.cum = order.cum + Filling(back[i])
            /\ Uncounted(r.order) /\ NotHeld(r.order) /\ (r.order.modifyCxl => profile.simulated)
            /\ r.order.new \in {"Q", "T"} =>
                 \/ r.order.new = order.new /\ r.order.mod = order.mod
                 \/ back[i].type = "canceled" /\ i = 1 /\ r.order.mod = "D"
<1> DEFINE m == back[i]
<1>1. Good(order) /\ order \in Orders /\ order.cum \in Nat
  <2>1. order.new # "U"
    BY DEF TypeInv, Before
  <2> QED
    BY <2>1 DEF TypeInv, Started, Good, Orders
<1>2. m \in Messages /\ m.qty \in Qty /\ m.cum \in Nat
  <2>1. back \in Seq(Messages)
    BY DEF TypeInv, TypeOK
  <2>2. m \in Messages
    BY <2>1
  <2> HIDE DEF m
  <2> QED
    BY <2>2 DEF Messages
<1>3. order.modifyCxl /\ m.type = "canceled" => i = 1 /\ m.cum <= order.cum
  <2> SUFFICES ASSUME order.modifyCxl, m.type = "canceled"
               PROVE  i = 1 /\ m.cum <= order.cum
    OBVIOUS
  <2>1. "answer" \notin profile.early /\ Kind(i) = "answer"
    BY DEF TypeInv, Supported, Kind
  <2>2. i = 1
    BY <2>1
  <2>3. PICK e \in [1..Len(back) + 1 -> Nat] : e[1] <= order.cum /\ back[1].cum <= e[1]
    <3>1. back \in Seq(Messages) /\ 1 \in 1..Len(back)
      BY <2>2 DEF TypeInv, TypeOK
    <3> QED
      BY <3>1 DEF TypeInv, Behind
  <2>4. e[1] \in Nat
    <3>1. Len(back) \in Nat
      BY DEF TypeInv, TypeOK
    <3> QED
      BY <3>1
  <2> QED
    BY <1>1, <1>2, <2>2, <2>3, <2>4
<1>4. Uncounted(order) /\ NotHeld(order) /\ (order.modifyCxl => profile.simulated)
  BY DEF TypeInv
<1> DEFINE r == Handler(m, better)
           Kept(p) == Keeps(order, p) /\ p.cum = order.cum
<1> HIDE DEF m
<1>5. \A p : Kept(p) => /\ p.cum = order.cum + 0 /\ Uncounted(p) /\ NotHeld(p) /\ (p.modifyCxl => profile.simulated)
                        /\ p.new \in {"Q", "T"} => p.new = order.new /\ p.mod = order.mod
  BY <1>1, <1>4 DEF Keeps
<1>6. CASE m.type = "ordered"
  BY <1>1, <1>5, <1>6, OrderedGood, OrderedKeeps DEF Handler, Filling, m
<1>7. CASE m.type = "reject"
  BY <1>1, <1>5, <1>7, RejectGood, RejectKeeps DEF Handler, Filling, m
<1>8. CASE m.type = "modified"
  BY <1>1, <1>2, <1>5, <1>8, ModifiedGood, ModifiedKeeps DEF Handler, Filling, m
<1>9. CASE m.type = "modReject"
  BY <1>1, <1>5, <1>9, ModRejectGood, ModRejectKeeps, ModRejectCxlGood, ModRejectCxlKeeps DEF Handler, Filling, m
<1>10. CASE m.type = "canceled"
  <2>1. r = Canceled(order, m.cum)
    BY <1>10 DEF Handler
  <2>2. Result(r)
    BY <1>1, <1>2, <1>3, <1>4, <1>10, <2>1, CanceledGood
  <2>3. LET p == r.order
        IN /\ p.cum = order.cum
           /\ Uncounted(order) => Uncounted(p)
           /\ NotHeld(order) => NotHeld(p)
           /\ NotHeld(order) /\ p.new \in {"Q", "T"} =>
                (p.new = order.new /\ p.mod = order.mod) \/ (order.modifyCxl /\ p.mod = "D")
           /\ p.modifyCxl => order.modifyCxl
    BY <1>1, <1>2, <2>1, CanceledKeeps
  <2> QED
    BY <1>1, <1>3, <1>4, <1>10, <2>2, <2>3 DEF Filling, m
<1>11. CASE m.type = "cxlReject"
  BY <1>1, <1>5, <1>11, CxlRejectGood, CxlRejectKeeps DEF Handler, Filling, m
<1>12. CASE m.type = "fill"
  <2>1. order.new \notin {"Q", "T"}
    BY <1>12 DEF TypeInv, Generation, Opening, Rejects, m
  <2>2. r = Fill(order, better)
    BY <1>12 DEF Handler
  <2> QED
    BY <1>1, <1>4, <1>12, <2>1, <2>2, FillGood, FillKeeps DEF Keeps, Filling, m
<1>13. CASE m.type = "closed"
  <2>1. r = Done(Closed(order))
    BY <1>13 DEF Handler
  <2>2. r.order = Closed(order)
    BY <2>1 DEF Done
  <2> QED
    BY <1>1, <1>5, <1>13, <2>1, <2>2, ClosedGood, ClosedKeeps, ResultDone DEF Filling, m
<1> QED
  BY <1>2, <1>6, <1>7, <1>8, <1>9, <1>10, <1>11, <1>12, <1>13 DEF Messages

-----------------------------------------------------------------------------
(* Each action keeps the invariant                                         *)

\* What the application does to an order that the market knows nothing of yet.
LEMMA OrderStep ==
  ASSUME TypeInv, order.new # "U", Good(order'), NotHeld(order'), Uncounted(order)',
         order'.modifyCxl => profile.simulated, order'.cum = order.cum,
         order'.new \in {"Q", "T"} =>
           order.new \in {"Q", "T"} /\ (order'.mod = order.mod \/ (market.done = 0 /\ order.cum = 0)),
         UNCHANGED <<profile, wire, back, market, events>>, odd' \in BOOLEAN, requests' \in 0..MaxRequests
  PROVE  TypeInv'
<1>1. TypeOK'
  BY DEF TypeInv, TypeOK, Good, Queued
<1>2. Behind'
  BY DEF TypeInv, Behind
<1>3. Generation'
  BY DEF TypeInv, Generation, Opening
<1>4. AfterEnd' /\ Fresh'
  BY DEF TypeInv, AfterEnd, Fresh
<1>5. Started' /\ Before'
  BY DEF Started, Before, Good
<1>6. NotHeld(order)' /\ (order.modifyCxl => profile.simulated)' /\ (market.live => market.left >= 1)'
  BY DEF TypeInv, NotHeld
<1> QED
  BY <1>1, <1>2, <1>3, <1>4, <1>5, <1>6 DEF TypeInv

LEMMA AbortedGood ==
  ASSUME Good(order)
  PROVE  LET o == Aborted(order)
         IN /\ Good(o) /\ o.cum = order.cum /\ o.modCum = order.modCum /\ o.cxlCum = order.cxlCum
            /\ o.modifyCxl = order.modifyCxl
            /\ \/ o.new = order.new /\ (o.mod = order.mod \/ (order.new = "A" /\ o.mod = "T"))
               \/ order.new = "Q" /\ o.new = "T" /\ o.mod = order.mod
<1> DEFINE n == [order EXCEPT !["new"] = "T"]
           m == [order EXCEPT !["mod"] = "T"]
<1>1. n \in Orders /\ m \in Orders
  BY DEF Good, Orders, EventState
<1>2. /\ n.new = "T" /\ n.mod = order.mod /\ n.cxl = order.cxl /\ n.out = order.out /\ n.modifyCxl = order.modifyCxl
      /\ n.cum = order.cum /\ n.modCum = order.modCum /\ n.cxlCum = order.cxlCum
  BY DEF Good, Orders
<1>3. /\ m.new = order.new /\ m.mod = "T" /\ m.cxl = order.cxl /\ m.out = order.out /\ m.modifyCxl = order.modifyCxl
      /\ m.cum = order.cum /\ m.modCum = order.modCum /\ m.cxlCum = order.cxlCum /\ m.leaves = order.leaves
  BY DEF Good, Orders
<1>4. Aborted(order) = IF order.new = "A" THEN IF order.mod = "Q" THEN m ELSE order
                       ELSE IF order.new = "Q" THEN n ELSE order
  BY DEF Aborted, n, m
<1> HIDE DEF n, m
<1>5. Good(m)
  BY <1>1, <1>3, GoodTweak DEF EventState
<1>6. order.new = "Q" => Good(n)
  BY <1>1, <1>2, GoodKept DEF Good, Request
<1> QED
  BY <1>2, <1>3, <1>4, <1>5, <1>6

LEMMA TypeInvClientNew ==
  ASSUME TypeInv, NEW qty \in 1..MaxQty, ClientNew(qty)
  PROVE  TypeInv'
<1>1. /\ order = Unset /\ wire = <<>> /\ back = <<>> /\ ~market.live /\ market.done = 0
      /\ order' = NewOrder(Unset, qty) /\ UNCHANGED <<profile, wire, back, market, odd, requests, events>>
  BY DEF TypeInv, Before, ClientNew
<1>2. 0 \in Qty /\ qty \in Qty
  BY BoundsAssumption DEF Qty
<1>3. Unset \in Orders
  BY <1>2 DEF Unset, Orders, EventState
<1>4. ~Unset.modifyCxl /\ Unset.mod = "U" /\ Unset.cxl = "U" /\ Unset.modCum = 0 /\ Unset.cxlCum = 0
  BY DEF Unset
<1>5. Good(NewOrder(Unset, qty))
  BY <1>2, <1>3, <1>4, NewOrderGood
<1>6. LET p == NewOrder(Unset, qty)
      IN /\ p.new = "Q" /\ p.mod = "U" /\ p.cum = 0 /\ p.modCum = 0 /\ p.cxlCum = 0 /\ ~p.modifyCxl
  BY <1>2, <1>3, <1>4 DEF NewOrder, Out, Orders
<1>7. TypeOK'
  BY <1>1, <1>5 DEF TypeInv, TypeOK, Good, Queued
<1>8. Behind'
  <2> DEFINE e == [i \in 1..1 |-> 0]
  <2>1. e \in [1..Len(back') + 1 -> Nat] /\ e[1] = 0 /\ Len(back') = 0
    BY <1>1
  <2> HIDE DEF e
  <2> QED
    BY <1>1, <1>6, <2>1 DEF Behind
<1>9. DOMAIN wire' = {} /\ DOMAIN back' = {}
  BY <1>1
<1>10. Started' /\ Before'
  BY <1>1, <1>5 DEF Started, Before, Good
<1>11. Uncounted(order)'
  BY <1>1, <1>6 DEF Uncounted
<1>12. NotHeld(order)' /\ (order.modifyCxl => profile.simulated)' /\ (market.live => market.left >= 1)'
  BY <1>1, <1>6 DEF NotHeld
<1>13. Generation' /\ AfterEnd' /\ Fresh'
  BY <1>1, <1>6, <1>9 DEF Generation, Opening, AfterEnd, Fresh
<1> QED
  BY <1>7, <1>8, <1>10, <1>11, <1>12, <1>13 DEF TypeInv

LEMMA TypeInvClientModify ==
  ASSUME TypeInv, NEW qty \in 1..MaxQty, ClientModify(qty)
  PROVE  TypeInv'
<1> DEFINE o == Aborted(order)
           p == IF profile.simulated THEN ModSimulated(o, qty) ELSE Modify(o, qty)
<1>1. qty \in Qty /\ qty >= 1 /\ requests \in 0..MaxRequests
  BY BoundsAssumption DEF Qty, TypeInv, TypeOK
<1>2. Good(order) /\ order.new # "U" /\ profile \in Profile /\ odd \in BOOLEAN
  BY ProfilesAssumption DEF ClientModify, TypeInv, TypeOK, Started
<1>3. /\ Good(o) /\ o.cum = order.cum /\ o.modCum = order.modCum /\ o.cxlCum = order.cxlCum
      /\ o.modifyCxl = order.modifyCxl
      /\ \/ o.new = order.new /\ (o.mod = order.mod \/ (order.new = "A" /\ o.mod = "T"))
         \/ order.new = "Q" /\ o.new = "T" /\ o.mod = order.mod
  BY <1>2, AbortedGood
<1>4. /\ Handled(p) /\ requests < MaxRequests /\ requests' = requests + 1
      /\ UNCHANGED <<profile, wire, back, market, events>>
  BY DEF ClientModify
<1> HIDE DEF o
<1>5. Result(p)
  BY <1>1, <1>2, <1>3, ModifyGood, ModSimulatedGood
<1>6. ClientKeeps(o, p.order)
  BY <1>1, <1>3, ModifyKeeps, ModSimulatedKeeps DEF Good
<1> HIDE DEF p
<1>7. order' = p.order /\ odd' = (odd \/ p.odd)
  BY <1>4 DEF Handled
<1>8. odd' \in BOOLEAN /\ requests' \in 0..MaxRequests
  BY <1>1, <1>2, <1>4, <1>5, <1>7, BoundsAssumption DEF Result
<1>9. Uncounted(o) /\ NotHeld(o)
  BY <1>3 DEF TypeInv, Uncounted, NotHeld
<1>10. o.new \in {"Q", "T"} => order.new \in {"Q", "T"} /\ o.mod = order.mod
  BY <1>3
<1>11. NoRequest(o) /\ o.new = "T" => market.done = 0 /\ order.cum = 0
  BY <1>10 DEF NoRequest, TypeInv, Fresh
<1>12. p.order.cum = order.cum
  BY <1>3, <1>6, <1>9, <1>11 DEF ClientKeeps, NotHeld
<1>13. p.order.new \in {"Q", "T"} =>
         order.new \in {"Q", "T"} /\ (p.order.mod = order.mod \/ (market.done = 0 /\ order.cum = 0))
  BY <1>6, <1>9, <1>10, <1>11 DEF ClientKeeps, NotHeld
<1>14. Uncounted(order)'
  BY <1>4, <1>6, <1>7, <1>9 DEF ClientKeeps, Uncounted
<1>15. NotHeld(order') /\ (order'.modifyCxl => profile.simulated)
  BY <1>3, <1>6, <1>7, <1>9 DEF ClientKeeps, TypeInv
<1> QED
  BY <1>2, <1>4, <1>5, <1>7, <1>8, <1>12, <1>13, <1>14, <1>15, OrderStep DEF Result

LEMMA TypeInvClientCancel ==
  ASSUME TypeInv, ClientCancel
  PROVE  TypeInv'
<1> DEFINE o == Aborted(order)
           d == [order EXCEPT !.modifyCxl = FALSE]
           p == IF CancelPending(order) THEN Done(d) ELSE Cancel(o)
<1>1. requests \in 0..MaxRequests
  BY DEF TypeInv, TypeOK
<1>2. Good(order) /\ order.new # "U" /\ odd \in BOOLEAN
  BY DEF ClientCancel, TypeInv, TypeOK, Started
<1>3. /\ Good(o) /\ o.cum = order.cum /\ o.modCum = order.modCum /\ o.cxlCum = order.cxlCum
      /\ o.modifyCxl = order.modifyCxl
      /\ \/ o.new = order.new /\ (o.mod = order.mod \/ (order.new = "A" /\ o.mod = "T"))
         \/ order.new = "Q" /\ o.new = "T" /\ o.mod = order.mod
  BY <1>2, AbortedGood
<1>4. /\ Handled(p) /\ requests < MaxRequests /\ requests' = requests + 1
      /\ UNCHANGED <<profile, wire, back, market, events>>
  BY DEF ClientCancel
<1> HIDE DEF o
<1>5. Good(d)
  <2>1. d \in Orders
    BY <1>2 DEF Good, Orders
  <2>2. /\ d.new = order.new /\ d.out = order.out /\ d.leaves = order.leaves /\ d.mod = order.mod
        /\ d.cxl = order.cxl /\ ~d.modifyCxl
    BY <1>2 DEF Good, Orders
  <2> HIDE DEF d
  <2> QED
    BY <1>2, <2>1, <2>2, GoodTweak
<1>6. d.new = order.new /\ d.mod = order.mod /\ d.cum = order.cum /\ d.modCum = order.modCum
      /\ d.cxlCum = order.cxlCum /\ ~d.modifyCxl
  BY <1>2 DEF Good, Orders
<1> HIDE DEF d
<1>7. Result(Done(d)) /\ Done(d).order = d
  BY <1>5, ResultDone DEF Done
<1>8. Result(Cancel(o)) /\ Keeps(o, Cancel(o).order) /\ Cancel(o).order.cum = o.cum
  BY <1>3, CancelGood, CancelKeeps DEF Good
<1>9. Uncounted(o) /\ NotHeld(o)
  BY <1>3 DEF TypeInv, Uncounted, NotHeld
<1>10. /\ Result(p) /\ p.order.cum = order.cum /\ Uncounted(p.order) /\ NotHeld(p.order)
       /\ (p.order.modifyCxl => profile.simulated)
       /\ (p.order.new \in {"Q", "T"} => order.new \in {"Q", "T"} /\ p.order.mod = order.mod)
  <2>1. CASE CancelPending(order)
    BY <1>6, <1>7, <2>1 DEF TypeInv, Uncounted, NotHeld
  <2>2. CASE ~CancelPending(order)
    BY <1>3, <1>8, <1>9, <2>2 DEF Keeps, TypeInv
  <2> QED
    BY <2>1, <2>2
<1> HIDE DEF p
<1>11. order' = p.order /\ odd' = (odd \/ p.odd)
  BY <1>4 DEF Handled
<1>12. odd' \in BOOLEAN /\ requests' \in 0..MaxRequests
  BY <1>1, <1>2, <1>4, <1>10, <1>11, BoundsAssumption DEF Result
<1>13. Uncounted(order)'
  BY <1>4, <1>10, <1>11 DEF Uncounted
<1> QED
  BY <1>2, <1>4, <1>10, <1>11, <1>12, <1>13, OrderStep DEF Result

Wire == [type : Request, qty : Qty]

LEMMA TypeInvSend ==
  ASSUME TypeInv, Send
  PROVE  TypeInv'
<1> DEFINE r == Head(order.out)
           rest == [order EXCEPT !.out = Tail(@)]
           sent == [rest EXCEPT ![r] = "S"]
           w == [type |-> r, qty |-> IF r = "mod" THEN order.modQty ELSE order.leaves]
<1>1. order.new # "U"
  BY DEF TypeInv, Before, Send, Unset
<1>2. Good(order) /\ order \in Orders /\ order.out \in Seq(Request) /\ order.out # <<>>
  BY <1>1 DEF TypeInv, Started, Good, Orders, Send
<1>3. /\ r \in Request /\ Tail(order.out) \in Seq(Request)
      /\ Len(Tail(order.out)) = Len(order.out) - 1 /\ Len(order.out) \in Nat
      /\ \A i \in 1..Len(order.out) - 1 : Tail(order.out)[i] = order.out[i + 1]
      /\ r = order.out[1]
  BY <1>2, HeadTailProperties
<1>4. \A x \in Request \ {r} : Contains(order.out, x) => Contains(Tail(order.out), x)
  <2> SUFFICES ASSUME NEW x \in Request \ {r}, Contains(order.out, x)
               PROVE  Contains(Tail(order.out), x)
    OBVIOUS
  <2>1. PICK i \in 1..Len(order.out) : order.out[i] = x
    BY <1>2 DEF Contains
  <2>2. i - 1 \in 1..Len(order.out) - 1 /\ (i - 1) + 1 = i
    BY <1>3, <2>1
  <2> QED
    BY <1>3, <2>1, <2>2 DEF Contains
<1>5. /\ rest \in Orders /\ rest.out = Tail(order.out) /\ \A x \in Request : rest[x] = order[x]
      /\ rest.leaves = order.leaves /\ rest.modifyCxl = order.modifyCxl /\ rest.cum = order.cum
      /\ rest.modCum = order.modCum /\ rest.cxlCum = order.cxlCum
  BY <1>2, <1>3 DEF Orders, Request
<1> HIDE DEF r, rest
<1>6. /\ sent \in Orders /\ sent.out = Tail(order.out) /\ sent[r] = "S" /\ \A x \in Request \ {r} : sent[x] = order[x]
      /\ sent.leaves = order.leaves /\ sent.modifyCxl = order.modifyCxl /\ sent.cum = order.cum
      /\ sent.modCum = order.modCum /\ sent.cxlCum = order.cxlCum
  <2>1. CASE r = "new"
    BY <1>5, <2>1 DEF Orders, EventState, Request
  <2>2. CASE r = "mod"
    BY <1>5, <2>2 DEF Orders, EventState, Request
  <2>3. CASE r = "cxl"
    BY <1>5, <2>3 DEF Orders, EventState, Request
  <2> QED
    BY <1>3, <2>1, <2>2, <2>3 DEF Request
<1>7. w \in Wire
  BY <1>2, <1>3 DEF Wire, Orders
<1>8. /\ UNCHANGED <<profile, back, market, odd, requests, events>>
      /\ \/ order[r] = "Q" /\ order' = sent /\ wire' = Append(wire, w)
         \/ order[r] # "Q" /\ order' = rest /\ wire' = wire
  BY DEF Send, r, rest, sent, w
<1>w. w.type = r /\ w.qty = (IF r = "mod" THEN order.modQty ELSE order.leaves)
  OBVIOUS
<1> HIDE DEF sent, w
<1>9. CASE order[r] # "Q"
  <2>1. order' = rest /\ wire' = wire
    BY <1>8, <1>9
  <2>2. Good(rest)
    BY <1>2, <1>4, <1>5, <1>9 DEF Good, Queued, Request
  <2>3. rest.new = order.new /\ rest.mod = order.mod
    BY <1>5 DEF Request
  <2>4. odd' \in BOOLEAN /\ requests' \in 0..MaxRequests
    BY <1>8 DEF TypeInv, TypeOK
  <2>5. Uncounted(order)' /\ NotHeld(order')
    BY <1>5, <1>8, <2>1, <2>3 DEF TypeInv, Uncounted, NotHeld
  <2> QED
    BY <1>1, <1>5, <1>8, <2>1, <2>2, <2>3, <2>4, <2>5, OrderStep DEF TypeInv
<1>10. CASE order[r] = "Q"
  <2>1. order' = sent /\ wire' = Append(wire, w)
    BY <1>8, <1>10
  <2>2. Queued(sent) /\ sent.new # "U" /\ (sent.modifyCxl => sent.new \notin {"H", "Q", "T"})
        /\ (sent.new = "Q" => sent.leaves >= 1)
    BY <1>2, <1>3, <1>4, <1>6 DEF Good, Queued, Request
  <2>3. Good(sent)
    BY <1>6, <2>2 DEF Good
  <2>4. wire \in Seq(Wire) /\ wire' \in Seq(Wire) /\ Len(wire) \in Nat
    BY <1>7, <2>1 DEF TypeInv, TypeOK, Wire
  <2>5. TypeOK'
    BY <1>8, <2>1, <2>3, <2>4 DEF TypeInv, TypeOK, Good, Queued, Wire
  <2>6. DOMAIN wire = 1..Len(wire) /\ DOMAIN wire' = 1..Len(wire) + 1 /\ wire'[Len(wire) + 1] = w
        /\ \A i \in DOMAIN wire : wire'[i] = wire[i]
    BY <1>7, <2>1, <2>4, AppendProperties
  <2>7. /\ (sent.new \in {"Q", "T"} => r # "new" /\ order.new \in {"Q", "T"})
        /\ (r = "new" => order.new = "Q" /\ sent.new = "S")
        /\ (r # "new" => sent.new = order.new)
    BY <1>6, <1>10 DEF Request
  <2>8. Generation'
    <3>1. r = "new" => w.qty >= 1 /\ \A i \in DOMAIN wire : wire[i].type # "new"
      BY <1>2, <1>w, <2>7 DEF Good, TypeInv, Generation
    <3>2. \A i \in DOMAIN wire' : wire'[i].type = "new" =>
            /\ wire'[i].qty >= 1 /\ order'.new \notin {"Q", "T"}
            /\ \A j \in DOMAIN wire' : wire'[j].type = "new" => j = i
      <4>1. CASE r = "new"
        BY <1>w, <2>1, <2>4, <2>6, <2>7, <3>1, <4>1
      <4>2. CASE r # "new"
        BY <1>w, <2>1, <2>4, <2>6, <2>7, <4>2 DEF TypeInv, Generation
      <4> QED
        BY <4>1, <4>2
    <3>3. Opening' => Opening
      BY <1>w, <2>1, <2>4, <2>6, <2>7 DEF Opening
    <3> QED
      BY <1>8, <3>2, <3>3 DEF TypeInv, Generation
  <2>9. Behind'
    BY <1>6, <1>8, <2>1 DEF TypeInv, Behind
  <2>10. AfterEnd' /\ Before' /\ Started'
    BY <1>8, <2>1, <2>2, <2>3 DEF TypeInv, AfterEnd, Before, Started
  <2>11. Fresh'
    BY <1>6, <1>8, <1>10, <2>1, <2>7 DEF TypeInv, Fresh, Request
  <2>12. NotHeld(order)' /\ (order.modifyCxl => profile.simulated)' /\ (market.live => market.left >= 1)'
    BY <1>3, <1>6, <1>8, <2>1 DEF TypeInv, NotHeld, Request
  <2>13. Uncounted(order)'
    BY <1>6, <1>8, <2>1 DEF TypeInv, Uncounted
  <2> QED
    BY <2>5, <2>8, <2>9, <2>10, <2>11, <2>12, <2>13 DEF TypeInv
<1> QED
  BY <1>9, <1>10

\* What the market says next counts what was filled so far.
LEMMA MarketStep ==
  ASSUME TypeInv, NEW m \in Messages, m.cum = market.done, back' = Append(back, m),
         UNCHANGED <<order, profile, odd, requests>>, events' \in 0..MaxEvents, order.new # "U",
         wire' = wire \/ (wire # <<>> /\ wire' = Tail(wire)),
         market' \in [live : BOOLEAN, left : Qty, done : Nat],
         market'.live => market'.left >= 1, market'.done = market.done + Filling(m),
         \/ m.type \in Rejects /\ market' = market
         \/ /\ ~Opening' /\ \A i \in DOMAIN back : back[i].type \notin Finals
            /\ m.type \in Finals => ~market'.live
  PROVE  TypeInv'
<1>1. /\ wire \in Seq(Wire) /\ back \in Seq(Messages) /\ back' \in Seq(Messages)
      /\ Len(wire) \in Nat /\ Len(back) \in Nat
  BY DEF TypeInv, TypeOK, Wire
<1>2. /\ wire' \in Seq(Wire)
      /\ \/ wire' = wire
         \/ /\ Len(wire) >= 1 /\ DOMAIN wire = 1..Len(wire) /\ DOMAIN wire' = 1..Len(wire) - 1
            /\ \A i \in 1..Len(wire) - 1 : wire'[i] = wire[i + 1]
  <2>1. CASE wire' = wire
    BY <1>1, <2>1
  <2>2. CASE wire # <<>> /\ wire' = Tail(wire)
    <3>1. /\ Tail(wire) \in Seq(Wire) /\ Len(Tail(wire)) = Len(wire) - 1
          /\ \A i \in 1..Len(Tail(wire)) : Tail(wire)[i] = wire[i + 1]
      BY <1>1, <2>2, HeadTailProperties
    <3>2. Len(wire) # 0
      BY <1>1, <2>2, EmptySeq
    <3>3. DOMAIN wire = 1..Len(wire) /\ DOMAIN Tail(wire) = 1..Len(Tail(wire))
      BY <1>1, <3>1
    <3>4. Len(wire) >= 1 /\ DOMAIN wire' = 1..Len(wire) - 1 /\ wire' \in Seq(Wire)
      <4>1. Len(wire) >= 1
        BY <1>1, <3>2
      <4>2. DOMAIN Tail(wire) = 1..Len(wire) - 1
        BY <3>1, <3>3
      <4> QED
        BY <2>2, <3>1, <4>1, <4>2
    <3>5. \A i \in 1..Len(wire) - 1 : wire'[i] = wire[i + 1]
      BY <2>2, <3>1
    <3> QED
      BY <3>3, <3>4, <3>5
  <2> QED
    BY <2>1, <2>2
<1>3. TypeOK'
  BY <1>1, <1>2 DEF TypeInv, TypeOK, Wire
<1>4. /\ DOMAIN back = 1..Len(back) /\ DOMAIN back' = 1..Len(back) + 1 /\ Len(back') = Len(back) + 1
      /\ back'[Len(back) + 1] = m /\ \A i \in 1..Len(back) : back'[i] = back[i]
  BY <1>1, AppendProperties
<1>5. Opening' => Opening
  <2>1. CASE wire' = wire
    BY <2>1 DEF Opening
  <2>2. CASE wire' # wire
    <3>0. /\ DOMAIN wire = 1..Len(wire) /\ DOMAIN wire' = 1..Len(wire) - 1
          /\ \A i \in 1..Len(wire) - 1 : wire'[i] = wire[i + 1]
      BY <1>2, <2>2
    <3>1. \A i \in DOMAIN wire' : i + 1 \in DOMAIN wire /\ wire'[i] = wire[i + 1]
      BY <1>1, <3>0
    <3> QED
      BY <3>1 DEF Opening
  <2> QED
    BY <2>1, <2>2
<1>6. Generation'
  <2>1. \A i \in DOMAIN wire' : wire'[i].type = "new" =>
          /\ wire'[i].qty >= 1 /\ order'.new \notin {"Q", "T"}
          /\ \A j \in DOMAIN wire' : wire'[j].type = "new" => j = i
    <3>1. CASE wire' = wire
      BY <3>1 DEF TypeInv, Generation
    <3>2. CASE wire' # wire
      <4>0. /\ DOMAIN wire = 1..Len(wire) /\ DOMAIN wire' = 1..Len(wire) - 1
            /\ \A i \in 1..Len(wire) - 1 : wire'[i] = wire[i + 1]
        BY <1>2, <3>2
      <4>1. \A i \in DOMAIN wire' : i \in Nat /\ i + 1 \in DOMAIN wire /\ wire'[i] = wire[i + 1]
        BY <1>1, <4>0
      <4>2. \A i \in DOMAIN wire : wire[i].type = "new" =>
              /\ wire[i].qty >= 1 /\ order.new \notin {"Q", "T"}
              /\ \A j \in DOMAIN wire : wire[j].type = "new" => j = i
        BY DEF TypeInv, Generation
      <4>3. \A i, j \in DOMAIN wire' : i + 1 = j + 1 => i = j
        BY <4>1
      <4> HIDE DEF TypeInv
      <4> QED
        BY <4>1, <4>2, <4>3
    <3> QED
      BY <3>1, <3>2
  <2>2. Opening' => ~market'.live /\ \A i \in DOMAIN back' : back'[i].type \in Rejects
    BY <1>4, <1>5 DEF TypeInv, Generation
  <2> QED
    BY <2>1, <2>2 DEF Generation
<1>7. AfterEnd'
  <2>1. CASE m.type \in Rejects /\ market' = market
    BY <1>1, <1>4, <2>1 DEF TypeInv, AfterEnd, Rejects, Finals
  <2>2. CASE /\ ~Opening' /\ \A i \in DOMAIN back : back[i].type \notin Finals
             /\ m.type \in Finals => ~market'.live
    BY <1>1, <1>4, <2>2 DEF AfterEnd
  <2> QED
    BY <2>1, <2>2
<1>8. Fresh'
  BY DEF TypeInv, Fresh, Opening, Filling, Rejects
<1>9. Behind'
  <2>1. PICK e \in [1..Len(back) + 1 -> Nat] :
          /\ e[1] <= order.cum /\ market.done <= e[Len(back) + 1]
          /\ \A i \in 1..Len(back) : back[i].cum <= e[i] /\ e[i + 1] <= e[i] + Filling(back[i])
    BY DEF TypeInv, Behind
  <2> DEFINE f == [i \in 1..Len(back') + 1 |->
                     IF i <= Len(back) + 1 THEN e[i] ELSE e[Len(back) + 1] + Filling(m)]
  <2>2. Filling(m) \in Nat /\ market.done \in Nat
    BY DEF Filling, TypeInv, TypeOK
  <2>3. f \in [1..Len(back') + 1 -> Nat]
    BY <1>1, <1>4, <2>2
  <2>4. /\ \A i \in 1..Len(back) + 1 : f[i] = e[i] /\ e[i] \in Nat
        /\ f[Len(back') + 1] = e[Len(back) + 1] + Filling(m) /\ f[Len(back) + 2] = e[Len(back) + 1] + Filling(m)
    <3>1. Len(back') + 1 = Len(back) + 2 /\ 1..Len(back') + 1 = 1..Len(back) + 2
      BY <1>1, <1>4
    <3>2. \A i \in 1..Len(back) + 2 : f[i] = IF i <= Len(back) + 1 THEN e[i] ELSE e[Len(back) + 1] + Filling(m)
      BY <3>1
    <3>3. \A i \in 1..Len(back) + 1 : f[i] = e[i]
      BY <1>1, <3>2
    <3>4. f[Len(back) + 2] = e[Len(back) + 1] + Filling(m)
      BY <1>1, <3>2
    <3>5. \A i \in 1..Len(back) + 1 : e[i] \in Nat
      OBVIOUS
    <3> QED
      BY <3>1, <3>3, <3>4, <3>5
  <2> HIDE DEF f
  <2>5. f[1] <= order'.cum /\ market'.done <= f[Len(back') + 1]
    <3>1. 1 \in 1..Len(back) + 1 /\ Len(back) + 1 \in 1..Len(back) + 1
      BY <1>1
    <3> QED
      BY <2>1, <2>2, <2>4, <3>1
  <2>6. \A i \in 1..Len(back') : back'[i].cum <= f[i] /\ f[i + 1] <= f[i] + Filling(back'[i])
    <3> SUFFICES ASSUME NEW i \in 1..Len(back')
                 PROVE  back'[i].cum <= f[i] /\ f[i + 1] <= f[i] + Filling(back'[i])
      OBVIOUS
    <3>1. CASE i \in 1..Len(back)
      <4>1. i + 1 \in 1..Len(back) + 1 /\ i \in 1..Len(back) + 1
        BY <1>1, <3>1
      <4> QED
        BY <1>4, <2>1, <2>4, <3>1, <4>1
    <3>2. CASE i = Len(back) + 1
      <4>1. e[Len(back) + 1] \in Nat /\ f[i] = e[Len(back) + 1]
        BY <1>1, <2>4, <3>2
      <4> QED
        BY <1>4, <2>1, <2>2, <2>4, <3>2, <4>1
    <3> QED
      BY <1>1, <1>4, <3>1, <3>2
  <2> QED
    BY <2>3, <2>5, <2>6 DEF Behind
<1>10. Started' /\ Before' /\ NotHeld(order)' /\ (order.modifyCxl => profile.simulated)' /\ Uncounted(order)'
  BY DEF TypeInv, Started, Before, NotHeld, Uncounted
<1> QED
  BY <1>3, <1>6, <1>7, <1>8, <1>9, <1>10 DEF TypeInv

LEMMA LiveUnopened ==
  ASSUME TypeInv, market.live, wire' = wire \/ (wire # <<>> /\ wire' = Tail(wire)), UNCHANGED order
  PROVE  ~Opening' /\ (\A i \in DOMAIN back : back[i].type \notin Finals) /\ order.new # "U" /\ market.left >= 1
<1>1. wire \in Seq(Wire) /\ Len(wire) \in Nat
  BY DEF TypeInv, TypeOK, Wire
<1>2. ~Opening
  BY DEF TypeInv, Generation
<1>3. \A i \in DOMAIN wire' : \E j \in DOMAIN wire : wire'[i] = wire[j]
  <2>1. CASE wire' = wire
    BY <2>1
  <2>2. CASE wire # <<>> /\ wire' = Tail(wire)
    <3>1. /\ Tail(wire) \in Seq(Wire) /\ Len(Tail(wire)) = Len(wire) - 1
          /\ \A i \in 1..Len(Tail(wire)) : Tail(wire)[i] = wire[i + 1]
      BY <1>1, <2>2, HeadTailProperties
    <3>2. \A i \in DOMAIN Tail(wire) : i + 1 \in DOMAIN wire /\ Tail(wire)[i] = wire[i + 1]
      BY <1>1, <3>1
    <3> QED
      BY <2>2, <3>2
  <2> QED
    BY <2>1, <2>2
<1>4. ~Opening'
  BY <1>2, <1>3 DEF Opening
<1> QED
  BY <1>4 DEF TypeInv, AfterEnd, Before

LEMMA TypeInvAnswer ==
  ASSUME TypeInv, Answer
  PROVE  TypeInv'
<1> DEFINE m == Head(wire)
           M(type, qty) == [type |-> type, qty |-> qty, cum |-> market.done]
<1>1. wire \in Seq(Wire) /\ wire # <<>> /\ Len(wire) \in Nat
  BY DEF TypeInv, TypeOK, Wire, Answer
<1>2. /\ m \in Wire /\ m = wire[1] /\ Len(wire) >= 1 /\ DOMAIN wire = 1..Len(wire) /\ DOMAIN Tail(wire) = 1..Len(wire) - 1
      /\ \A i \in 1..Len(wire) - 1 : Tail(wire)[i] = wire[i + 1]
  <2>1. /\ Tail(wire) \in Seq(Wire) /\ Len(Tail(wire)) = Len(wire) - 1
        /\ \A i \in 1..Len(Tail(wire)) : Tail(wire)[i] = wire[i + 1]
        /\ m \in Wire /\ m = wire[1]
    BY <1>1, HeadTailProperties
  <2>2. Len(wire) >= 1
    BY <1>1, EmptySeq
  <2> QED
    BY <1>1, <2>1, <2>2
<1> HIDE DEF m
<1>3. m.type \in Request /\ m.qty \in Qty
  BY <1>2 DEF Wire
<1>4. 0 \in Qty /\ Qty \subseteq Nat
  BY BoundsAssumption DEF Qty
<1>5. /\ market.live \in BOOLEAN /\ market.left \in Qty /\ market.done \in Nat
      /\ market \in [live : BOOLEAN, left : Qty, done : Nat]
  BY DEF TypeInv, TypeOK
<1>6. /\ wire' = Tail(wire) /\ UNCHANGED <<order, profile, odd, requests, events>> /\ events' \in 0..MaxEvents
      /\ \/ /\ m.type = "new"
            /\ Says("ordered", 0) /\ market' = [market EXCEPT !.live = TRUE, !.left = m.qty]
         \/ m.type = "new" /\ Ends("reject")
         \/ /\ m.type = "mod" /\ market.live /\ m.qty > market.done /\ ~profile.simulated
            /\ Says("modified", m.qty) /\ market' = [market EXCEPT !.left = m.qty - market.done]
         \/ m.type = "mod" /\ Says("modReject", 0) /\ UNCHANGED market
         \/ m.type = "cxl" /\ market.live /\ Ends("canceled")
         \/ m.type = "cxl" /\ Says("cxlReject", 0) /\ UNCHANGED market
  BY DEF Answer, m, TypeInv, TypeOK
<1>7. order.new # "U"
  BY <1>1 DEF TypeInv, Before
<1>8. \A type \in {"ordered", "reject", "modified", "modReject", "canceled", "cxlReject"} : \A qty \in Qty :
        M(type, qty) \in Messages /\ M(type, qty).type = type /\ M(type, qty).cum = market.done
        /\ Filling(M(type, qty)) = 0
  BY <1>5 DEF Messages, Filling
<1>9. \A type, qty : Says(type, qty) => back' = Append(back, M(type, qty))
  BY DEF Says
<1>10. m.type = "new" => /\ ~Opening' /\ \A i \in DOMAIN back : back[i].type \notin Finals
                         /\ m.qty >= 1
  <2> SUFFICES ASSUME m.type = "new"
               PROVE  /\ ~Opening' /\ \A i \in DOMAIN back : back[i].type \notin Finals
                      /\ m.qty >= 1
    OBVIOUS
  <2>1. /\ 1 \in DOMAIN wire /\ wire[1].type = "new" /\ m.qty >= 1 /\ order.new \notin {"Q", "T"}
        /\ \A j \in DOMAIN wire : wire[j].type = "new" => j = 1
    BY <1>1, <1>2 DEF TypeInv, Generation
  <2>2. \A j \in DOMAIN Tail(wire) : Tail(wire)[j].type # "new"
    <3>1. \A j \in DOMAIN Tail(wire) : j + 1 \in DOMAIN wire /\ j + 1 # 1 /\ Tail(wire)[j] = wire[j + 1]
      BY <1>1, <1>2
    <3> QED
      BY <2>1, <3>1
  <2>3. ~Opening'
    BY <1>6, <2>1, <2>2 DEF Opening
  <2>4. Opening
    BY <2>1 DEF Opening
  <2> QED
    BY <2>1, <2>3, <2>4 DEF TypeInv, Generation, Rejects, Finals
<1>11. wire' = wire \/ (wire # <<>> /\ wire' = Tail(wire))
  BY <1>1, <1>6
<1>12. market.live => ~Opening' /\ \A i \in DOMAIN back : back[i].type \notin Finals
  BY <1>6, <1>11, LiveUnopened
<1> DEFINE ended == [market EXCEPT !.live = FALSE, !.left = 0]
           opened == [market EXCEPT !.live = TRUE, !.left = m.qty]
           restated == [market EXCEPT !.left = m.qty - market.done]
<1>13. /\ ended \in [live : BOOLEAN, left : Qty, done : Nat] /\ ~ended.live /\ ended.done = market.done + 0
       /\ opened \in [live : BOOLEAN, left : Qty, done : Nat] /\ opened.left = m.qty /\ opened.done = market.done + 0
  <2>1. ended \in [live : BOOLEAN, left : Qty, done : Nat] /\ opened \in [live : BOOLEAN, left : Qty, done : Nat]
    BY <1>3, <1>4, <1>5
  <2>2. ~ended.live
    BY <1>5
  <2>3. ended.done = market.done /\ opened.done = market.done /\ opened.left = m.qty
    BY <1>5
  <2> HIDE DEF ended, opened
  <2> QED
    BY <1>5, <2>1, <2>2, <2>3
<1>14. m.qty > market.done =>
         /\ restated \in [live : BOOLEAN, left : Qty, done : Nat] /\ restated.left >= 1
         /\ restated.done = market.done + 0
  <2> SUFFICES ASSUME m.qty > market.done
               PROVE  /\ restated \in [live : BOOLEAN, left : Qty, done : Nat] /\ restated.left >= 1
                      /\ restated.done = market.done + 0
    OBVIOUS
  <2>1. m.qty - market.done \in Qty /\ m.qty - market.done >= 1
    BY <1>3, <1>5, BoundsAssumption DEF Qty
  <2> QED
    BY <1>5, <2>1
<1> HIDE DEF ended, opened, restated, M
<1>15. market.done = market.done + 0 /\ (market.live => market.left >= 1)
  BY <1>5 DEF TypeInv
<1>16. CASE m.type = "new" /\ Says("ordered", 0) /\ market' = opened
  <2> DEFINE x == M("ordered", 0)
  <2>1. x \in Messages /\ x.type = "ordered" /\ x.cum = market.done /\ Filling(x) = 0 /\ back' = Append(back, x)
    BY <1>4, <1>8, <1>9, <1>16
  <2> HIDE DEF x
  <2> QED
    BY <1>6, <1>7, <1>10, <1>11, <1>13, <1>16, <2>1, MarketStep DEF Finals
<1>17. CASE m.type = "new" /\ Says("reject", 0) /\ market' = ended
  <2> DEFINE x == M("reject", 0)
  <2>1. x \in Messages /\ x.type = "reject" /\ x.cum = market.done /\ Filling(x) = 0 /\ back' = Append(back, x)
    BY <1>4, <1>8, <1>9, <1>17
  <2> HIDE DEF x
  <2> QED
    BY <1>6, <1>7, <1>10, <1>11, <1>13, <1>17, <2>1, MarketStep
<1>18. CASE market.live /\ m.qty > market.done /\ Says("modified", m.qty) /\ market' = restated
  <2> DEFINE x == M("modified", m.qty)
  <2>1. x \in Messages /\ x.type = "modified" /\ x.cum = market.done /\ Filling(x) = 0 /\ back' = Append(back, x)
    BY <1>3, <1>8, <1>9, <1>18
  <2> HIDE DEF x
  <2> QED
    BY <1>6, <1>7, <1>11, <1>12, <1>14, <1>18, <2>1, MarketStep DEF Finals
<1>19. CASE Says("modReject", 0) /\ market' = market
  <2> DEFINE x == M("modReject", 0)
  <2>1. x \in Messages /\ x.type = "modReject" /\ x.cum = market.done /\ Filling(x) = 0 /\ back' = Append(back, x)
    BY <1>4, <1>8, <1>9, <1>19
  <2> HIDE DEF x
  <2> QED
    BY <1>5, <1>6, <1>7, <1>11, <1>15, <1>19, <2>1, MarketStep DEF Rejects
<1>20. CASE market.live /\ Says("canceled", 0) /\ market' = ended
  <2> DEFINE x == M("canceled", 0)
  <2>1. x \in Messages /\ x.type = "canceled" /\ x.cum = market.done /\ Filling(x) = 0 /\ back' = Append(back, x)
    BY <1>4, <1>8, <1>9, <1>20
  <2> HIDE DEF x
  <2> QED
    BY <1>6, <1>7, <1>11, <1>12, <1>13, <1>20, <2>1, MarketStep
<1>21. CASE Says("cxlReject", 0) /\ market' = market
  <2> DEFINE x == M("cxlReject", 0)
  <2>1. x \in Messages /\ x.type = "cxlReject" /\ x.cum = market.done /\ Filling(x) = 0 /\ back' = Append(back, x)
    BY <1>4, <1>8, <1>9, <1>21
  <2> HIDE DEF x
  <2> QED
    BY <1>5, <1>6, <1>7, <1>11, <1>15, <1>21, <2>1, MarketStep DEF Rejects
<1> QED
  BY <1>6, <1>16, <1>17, <1>18, <1>19, <1>20, <1>21 DEF Ends, ended, opened, restated

LEMMA TypeInvTrade ==
  ASSUME TypeInv, Trade
  PROVE  TypeInv'
<1> DEFINE x == [type |-> "fill", qty |-> 1, cum |-> market.done]
<1>1. market.left \in Qty /\ market.done \in Nat /\ Qty \subseteq Nat
  BY BoundsAssumption DEF TypeInv, TypeOK, Qty
<1>2. /\ market.live /\ back' = Append(back, x)
      /\ market' = [live |-> market.left > 1, left |-> market.left - 1, done |-> market.done + 1]
      /\ UNCHANGED <<order, profile, wire, odd, requests, events>>
  BY DEF Trade, Says
<1>3. ~Opening' /\ (\A i \in DOMAIN back : back[i].type \notin Finals) /\ order.new # "U" /\ market.left >= 1
  BY <1>2, LiveUnopened
<1>4. market.left - 1 \in Qty /\ 1 \in Qty
  BY <1>1, <1>3, BoundsAssumption DEF Qty
<1>5. x \in Messages /\ x.type = "fill" /\ x.cum = market.done /\ Filling(x) = 1
  BY <1>1, <1>4 DEF Messages, Filling
<1>6. events' \in 0..MaxEvents
  BY <1>2 DEF TypeInv, TypeOK
<1>7. /\ market' \in [live : BOOLEAN, left : Qty, done : Nat]
      /\ market'.live => market'.left >= 1
      /\ market'.done = market.done + 1
  <2> DEFINE live == market.left > 1
  <2>0. live \in BOOLEAN /\ (live => market.left > 1)
    OBVIOUS
  <2>1. live \in BOOLEAN /\ (live => market.left - 1 >= 1) /\ market.done + 1 \in Nat
    <3>1. market.left > 1 => market.left - 1 >= 1
      <4>1. market.left \in Nat
        BY <1>1, Zenon
      <4> HIDE DEF live
      <4> QED
        BY <4>1
    <3>2. market.done + 1 \in Nat
      BY <1>1
    <3> HIDE DEF live
    <3> QED
      BY <2>0, <3>1, <3>2, Zenon
  <2>2. market' = [live |-> live, left |-> market.left - 1, done |-> market.done + 1]
    BY <1>2
  <2> HIDE DEF live
  <2>3. market' \in [live : BOOLEAN, left : Qty, done : Nat]
    BY <1>4, <2>1, <2>2
  <2>4. market'.live = live /\ market'.left = market.left - 1 /\ market'.done = market.done + 1
    BY <2>2
  <2> QED
    BY <2>1, <2>3, <2>4
<1> HIDE DEF x
<1> QED
  BY <1>2, <1>3, <1>5, <1>6, <1>7, MarketStep DEF Finals

LEMMA TypeInvUnasked ==
  ASSUME TypeInv, Unasked
  PROVE  TypeInv'
<1> DEFINE M(type, qty) == [type |-> type, qty |-> qty, cum |-> market.done]
<1>1. /\ market.left \in Qty /\ market.done \in Nat /\ Qty \subseteq Nat /\ 0 \in Qty
      /\ market.live \in BOOLEAN /\ events \in 0..MaxEvents
      /\ market \in [live : BOOLEAN, left : Qty, done : Nat]
  BY BoundsAssumption DEF TypeInv, TypeOK, Qty
<1>2. /\ market.live /\ UNCHANGED <<order, profile, wire, odd, requests>>
      /\ events < MaxEvents /\ events' = events + 1
  BY DEF Unasked
<1>3. events' \in 0..MaxEvents
  BY <1>1, <1>2, BoundsAssumption
<1>4. ~Opening' /\ (\A i \in DOMAIN back : back[i].type \notin Finals) /\ order.new # "U" /\ market.left >= 1
  BY <1>2, LiveUnopened
<1>5. ASSUME NEW type \in {"closed", "canceled"}, Ends(type)
      PROVE  TypeInv'
  <2> DEFINE x == M(type, 0)
             ended == [market EXCEPT !.live = FALSE, !.left = 0]
  <2>1. /\ x \in Messages /\ x.type = type /\ x.cum = market.done /\ Filling(x) = 0
        /\ back' = Append(back, x) /\ market' = ended
    BY <1>1, <1>5 DEF Ends, Says, Messages, Filling
  <2>2. ended \in [live : BOOLEAN, left : Qty, done : Nat] /\ ~ended.live /\ ended.done = market.done + 0
    <3>1. ended \in [live : BOOLEAN, left : Qty, done : Nat]
      BY <1>1
    <3>2. ~ended.live
      BY <1>1
    <3>3. ended.done = market.done
      BY <1>1
    <3> HIDE DEF ended
    <3> QED
      BY <1>1, <3>1, <3>2, <3>3
  <2> HIDE DEF x, ended
  <2> QED
    BY <1>2, <1>3, <1>4, <2>1, <2>2, MarketStep
<1>6. ASSUME NEW qty \in market.done + 1..MaxQty, Says("modified", qty),
             market' = [market EXCEPT !.left = qty - market.done]
      PROVE  TypeInv'
  <2> DEFINE x == M("modified", qty)
             restated == [market EXCEPT !.left = qty - market.done]
  <2>0. qty \in Qty /\ qty - market.done \in Qty /\ qty - market.done >= 1
    BY <1>1, BoundsAssumption DEF Qty
  <2>1. /\ x \in Messages /\ x.type = "modified" /\ x.cum = market.done /\ Filling(x) = 0
        /\ back' = Append(back, x) /\ market' = restated
    BY <1>1, <1>6, <2>0 DEF Says, Messages, Filling
  <2>2. restated \in [live : BOOLEAN, left : Qty, done : Nat] /\ restated.left >= 1 /\ restated.done = market.done + 0
    BY <1>1, <2>0
  <2> HIDE DEF x, restated
  <2> QED
    BY <1>2, <1>3, <1>4, <2>1, <2>2, MarketStep DEF Finals
<1> QED
  BY <1>5, <1>6 DEF Unasked

LEMMA LaterSums ==
  ASSUME NEW u \in Nat, NEW v \in Nat, NEW w \in Nat, NEW x \in Nat, NEW d \in Nat, x <= u, v <= u + w
  PROVE  x <= u + d /\ v + d <= (u + d) + w
  OBVIOUS

LEMMA TypeInvDeliver ==
  ASSUME TypeInv, Supported(profile), Deliver
  PROVE  TypeInv'
<1>1. PICK i \in DOMAIN back :
        /\ i = 1 \/ (Kind(i) \in profile.early /\ \A j \in 1..i-1 : Kind(j) # Kind(i))
        /\ \E better \in Betters(i) : Handled(Handler(back[i], better))
        /\ back' = RemoveAt(back, i)
        /\ UNCHANGED <<profile, wire, market, requests, events>>
  BY DEF Deliver
<1>2. PICK better \in BOOLEAN : Handled(Handler(back[i], better))
  BY <1>1 DEF Betters
<1> DEFINE r == Handler(back[i], better)
           n == Len(back)
<1>3. /\ Result(r) /\ r.order.cum = order.cum + Filling(back[i])
      /\ Uncounted(r.order) /\ NotHeld(r.order) /\ (r.order.modifyCxl => profile.simulated)
      /\ r.order.new \in {"Q", "T"} =>
           \/ r.order.new = order.new /\ r.order.mod = order.mod
           \/ back[i].type = "canceled" /\ i = 1 /\ r.order.mod = "D"
  BY <1>1, HandlerKeeps
<1> HIDE DEF r
<1>4. order' = r.order /\ odd' = (odd \/ r.odd)
  BY <1>2 DEF Handled, r
<1>5. /\ back \in Seq(Messages) /\ n \in Nat /\ DOMAIN back = 1..n /\ i \in 1..n /\ odd \in BOOLEAN
  BY DEF TypeInv, TypeOK
<1>6. /\ back' \in Seq(Messages) /\ Len(back') = n - 1 /\ DOMAIN back' = 1..n - 1
      /\ \A j \in 1..n - 1 : back'[j] = IF j < i THEN back[j] ELSE back[j + 1]
  <2> DEFINE b == RemoveAt(back, i)
  <2>1. /\ b \in Seq(Messages) /\ Len(b) = n - 1
        /\ \A j \in 1..n - 1 : b[j] = IF j < i THEN back[j] ELSE back[j + 1]
    BY <1>5, RemoveAtProperties
  <2>2. b = back'
    BY <1>1
  <2> HIDE DEF b
  <2> QED
    BY <2>1, <2>2
<1>7. TypeOK'
  <2>1. odd' \in BOOLEAN
    BY <1>3, <1>4, <1>5 DEF Result
  <2> QED
    BY <1>1, <1>3, <1>4, <1>6, <2>1 DEF TypeInv, TypeOK, Result, Good, Queued
<1>8. Started' /\ Before' /\ NotHeld(order)' /\ (order.modifyCxl => profile.simulated)' /\ (market.live => market.left >= 1)'
  BY <1>1, <1>3, <1>4 DEF Result, Good, Started, Before, NotHeld, TypeInv
<1>9. Uncounted(order)'
  BY <1>1, <1>3, <1>4 DEF Uncounted
\* Where a message is now, and where it was.
<1> DEFINE At(j) == IF j < i THEN j ELSE j + 1
<1>10. \A j \in DOMAIN back' : At(j) \in DOMAIN back /\ back'[j] = back[At(j)]
  BY <1>5, <1>6
<1>11. \A j, k \in DOMAIN back' : j > k => At(j) > At(k)
  BY <1>5, <1>6
<1>12. \A j \in DOMAIN back' : i = 1 => At(j) > i
  BY <1>5, <1>6
<1> HIDE DEF At
<1>13. AfterEnd'
  BY <1>1, <1>10, <1>11 DEF TypeInv, AfterEnd
<1>14. order'.new \in {"Q", "T"} =>
         \/ order.new = order'.new /\ order'.mod = order.mod /\ order'.cum = order.cum
         \/ /\ order'.mod = "D" /\ ~market.live /\ \A j \in DOMAIN back' : back'[j].type \in Rejects
            /\ \A j \in DOMAIN wire : wire[j].type # "new"
  <2> SUFFICES ASSUME order'.new \in {"Q", "T"}
               PROVE  \/ order.new = order'.new /\ order'.mod = order.mod /\ order'.cum = order.cum
                      \/ /\ order'.mod = "D" /\ ~market.live /\ \A j \in DOMAIN back' : back'[j].type \in Rejects
                         /\ \A j \in DOMAIN wire : wire[j].type # "new"
    OBVIOUS
  <2>1. CASE r.order.new = order.new /\ r.order.mod = order.mod
    <3>1. Opening
      BY <1>4, <2>1 DEF Opening
    <3>2. back[i].type \in Rejects
      BY <3>1 DEF TypeInv, Generation
    <3>3. Filling(back[i]) = 0 /\ order.cum \in Nat
      BY <3>2 DEF Filling, Rejects, TypeInv, TypeOK, Orders
    <3> QED
      BY <1>3, <1>4, <2>1, <3>3
  <2>2. CASE back[i].type = "canceled" /\ i = 1 /\ r.order.mod = "D"
    <3>1. ~market.live /\ \A j \in DOMAIN back : j > i => back[j].type \in Rejects
      BY <2>2 DEF TypeInv, AfterEnd, Finals
    <3>2. \A j \in DOMAIN back' : back'[j].type \in Rejects
      BY <1>10, <1>12, <2>2, <3>1
    <3>3. ~Opening
      BY <2>2 DEF TypeInv, Generation, Rejects
    <3> QED
      BY <1>4, <2>2, <3>1, <3>2, <3>3 DEF Opening
  <2> QED
    BY <1>3, <1>4, <2>1, <2>2
<1>15. Fresh'
  BY <1>1, <1>14 DEF TypeInv, Fresh
<1>16. Generation'
  <2>1. \A j \in DOMAIN wire : wire[j].type = "new" => order'.new \notin {"Q", "T"}
    BY <1>14 DEF TypeInv, Generation
  <2>2. CASE Opening
    BY <1>1, <1>10, <2>1, <2>2 DEF TypeInv, Generation
  <2>3. CASE ~Opening
    BY <1>1, <1>14, <2>3 DEF Opening, Generation
  <2> QED
    BY <2>2, <2>3
<1>17. Behind'
  <2>1. PICK e \in [1..n + 1 -> Nat] :
          /\ e[1] <= order.cum /\ market.done <= e[n + 1]
          /\ \A j \in 1..n : back[j].cum <= e[j] /\ e[j + 1] <= e[j] + Filling(back[j])
    BY DEF TypeInv, Behind
  <2> DEFINE d == Filling(back[i])
             f == [j \in 1..n |-> IF j < i THEN e[j] + d ELSE e[j + 1]]
  <2>2. d \in Nat /\ order.cum \in Nat /\ (\A j \in 1..n + 1 : e[j] \in Nat) /\ market.done \in Nat
        /\ \A j \in 1..n : back[j].cum \in Nat /\ Filling(back[j]) \in Nat
    <3>1. \A j \in 1..n + 1 : e[j] \in Nat
      OBVIOUS
    <3>2. \A j \in 1..n : back[j] \in Messages
      BY <1>5
    <3>3. \A j \in 1..n : back[j].cum \in Nat
      BY <3>2 DEF Messages
    <3>4. order.cum \in Nat /\ market.done \in Nat
      BY DEF TypeInv, TypeOK, Orders
    <3>5. d \in Nat /\ \A j \in 1..n : Filling(back[j]) \in Nat
      BY DEF Filling
    <3> QED
      BY <3>1, <3>3, <3>4, <3>5
  <2> HIDE DEF d
  <2>3. f \in [1..Len(back') + 1 -> Nat] /\ Len(back') + 1 = n
    BY <1>5, <1>6, <2>2
  <2>4. \A j \in 1..n : f[j] = IF j < i THEN e[j] + d ELSE e[j + 1]
    OBVIOUS
  <2> HIDE DEF f
  <2>5. f[1] <= order'.cum
    <3>1. 1 \in 1..n /\ 1 \in 1..n + 1 /\ 2 \in 1..n + 1
      BY <1>5
    <3>2. order'.cum = order.cum + d
      BY <1>3, <1>4 DEF d
    <3>3. CASE 1 < i
      <4>1. f[1] = e[1] + d /\ e[1] \in Nat
        BY <2>2, <2>4, <3>1, <3>3
      <4> QED
        BY <2>1, <2>2, <3>2, <4>1
    <3>4. CASE i = 1
      <4>1. e[1 + 1] <= e[1] + d
        BY <2>1, <3>1, <3>4 DEF d
      <4>2. f[1] = e[1 + 1]
        BY <2>4, <3>1, <3>4
      <4>3. e[1] <= order.cum /\ e[1 + 1] \in Nat /\ e[1] \in Nat
        BY <2>1, <2>2, <3>1
      <4> QED
        BY <2>2, <3>2, <4>1, <4>2, <4>3
    <3> QED
      BY <1>5, <3>3, <3>4
  <2>6. market'.done <= f[Len(back') + 1]
    <3>1. n \in 1..n /\ ~(n < i)
      BY <1>5
    <3> QED
      BY <1>1, <2>1, <2>3, <2>4, <3>1
  <2>7. ASSUME NEW j \in 1..Len(back')
        PROVE  back'[j].cum <= f[j] /\ f[j + 1] <= f[j] + Filling(back'[j])
    <3>1. j \in 1..n - 1 /\ j \in 1..n /\ j \in 1..n + 1 /\ j + 1 \in 1..n /\ j + 1 \in 1..n + 1 /\ j + 2 \in 1..n + 1
      BY <1>5, <1>6
    <3>2. /\ e[j] \in Nat /\ e[j + 1] \in Nat /\ e[j + 2] \in Nat /\ back[j].cum \in Nat /\ back[j + 1].cum \in Nat
          /\ Filling(back[j]) \in Nat /\ Filling(back[j + 1]) \in Nat
      <4>1. \A k \in 1..n + 1 : e[k] \in Nat
        BY <2>2
      <4>2. \A k \in 1..n : back[k].cum \in Nat /\ Filling(back[k]) \in Nat
        BY <2>2
      <4> DEFINE k == j + 1
                 l == j + 2
      <4>3. k \in 1..n /\ k \in 1..n + 1 /\ l \in 1..n + 1
        BY <3>1
      <4> HIDE DEF n, k, l
      <4>4. e[j] \in Nat /\ e[k] \in Nat /\ e[l] \in Nat
        BY <3>1, <4>1, <4>3, Zenon
      <4>5. /\ back[j].cum \in Nat /\ Filling(back[j]) \in Nat
            /\ back[k].cum \in Nat /\ Filling(back[k]) \in Nat
        BY <3>1, <4>2, <4>3
      <4> QED
        BY <4>4, <4>5 DEF k, l
    <3>3. /\ back[j].cum <= e[j] /\ e[j + 1] <= e[j] + Filling(back[j])
          /\ back[j + 1].cum <= e[j + 1] /\ e[(j + 1) + 1] <= e[j + 1] + Filling(back[j + 1])
      BY <2>1, <3>1
    <3>4. (j + 1) + 1 = j + 2
      BY <3>1
    <3>5. CASE j + 1 < i
      <4>1. back'[j] = back[j] /\ f[j] = e[j] + d /\ f[j + 1] = e[j + 1] + d
        BY <1>5, <1>6, <2>4, <3>1, <3>5
      <4>2. d \in Nat
        BY <2>2
      <4>3. back[j].cum <= e[j] + d /\ e[j + 1] + d <= (e[j] + d) + Filling(back[j])
        BY <3>2, <3>3, <4>2, LaterSums
      <4> QED
        BY <4>1, <4>3
    <3>6. CASE j + 1 = i
      <4>1. back'[j] = back[j] /\ f[j] = e[j] + d /\ f[j + 1] = e[j + 2] /\ d = Filling(back[j + 1])
        BY <1>5, <1>6, <2>4, <3>1, <3>4, <3>6 DEF d
      <4>2. d \in Nat
        BY <2>2
      <4>3. back[j].cum <= e[j] + d
        BY <3>2, <3>3, <4>2
      <4>4. e[j + 2] <= (e[j] + d) + Filling(back[j])
        BY <3>2, <3>3, <3>4, <4>1, <4>2
      <4> QED
        BY <4>1, <4>3, <4>4
    <3>7. CASE ~(j < i)
      <4>1. back'[j] = back[j + 1] /\ f[j] = e[j + 1] /\ f[j + 1] = e[j + 2]
        BY <1>5, <1>6, <2>4, <3>1, <3>4, <3>7
      <4> QED
        BY <3>3, <3>4, <4>1
    <3> QED
      BY <1>5, <3>1, <3>5, <3>6, <3>7
  <2> QED
    BY <2>3, <2>5, <2>6, <2>7 DEF Behind
<1> QED
  BY <1>7, <1>8, <1>9, <1>13, <1>15, <1>16, <1>17 DEF TypeInv

LEMMA TypeInvUnchanged ==
  ASSUME TypeInv, UNCHANGED vars
  PROVE  TypeInv'
  BY DEF vars, TypeInv, TypeOK, Started, Before, NotHeld, Uncounted, Generation, Opening, AfterEnd, Fresh, Behind

LEMMA TypeInvStep ==
  ASSUME TypeInv, Supported(profile), [Next]_vars
  PROVE  TypeInv'
<1>1. ASSUME NEW qty \in 1..MaxQty, ClientNew(qty)
      PROVE  TypeInv'
  BY <1>1, TypeInvClientNew
<1>2. ASSUME NEW qty \in 1..MaxQty, ClientModify(qty)
      PROVE  TypeInv'
  BY <1>2, TypeInvClientModify
<1>3. CASE Stopped
  BY <1>3, TypeInvUnchanged DEF Stopped
<1> QED
  BY <1>1, <1>2, <1>3, TypeInvClientCancel, TypeInvSend, TypeInvAnswer, TypeInvTrade, TypeInvUnasked,
     TypeInvDeliver, TypeInvUnchanged DEF Next

LEMMA ProfileKept ==
  ASSUME [Next]_vars
  PROVE  profile' = profile
  BY DEF Next, ClientNew, ClientModify, ClientCancel, Send, Answer, Trade, Unasked, Deliver, Stopped, vars

\* Every market the application may trade on keeps the invariant, or is not supported.
LEMMA TypeInvAlways == Spec => [](Supported(profile) => TypeInv)
<1>1. Init => (Supported(profile) => TypeInv)
  BY TypeInvInit
<1>2. (Supported(profile) => TypeInv) /\ [Next]_vars => (Supported(profile) => TypeInv)'
  BY TypeInvStep, ProfileKept DEF Supported
<1> QED
  BY <1>1, <1>2, PTL DEF Spec

\* Whatever the quantities, the number of requests and the market, an order and all that is on
\* its way keep their types: in particular an event that is queued is in the queue, so that a
\* request that is to be sent is not forgotten, and the market never fills more than it has.  A
\* market that answers the cancel of a simulated modify before the fills it counts is left out:
\* the replacement is queued while the cancel is pending fill, and the fills may leave nothing of it.
THEOREM OrderTypeCorrect ==
  ASSUME \A p \in Profiles : Supported(p)
  PROVE  Spec => []TypeOK
<1>1. TypeInv => TypeOK
  BY DEF TypeInv
<1>2. Init => TypeInv
  BY TypeInvInit
<1>3. TypeInv /\ [Next]_vars => TypeInv'
  BY TypeInvStep DEF TypeInv, TypeOK
<1> QED
  BY <1>1, <1>2, <1>3, PTL DEF Spec

-----------------------------------------------------------------------------
(* Orders of a market that answers in order, and only what it is asked     *)

\* The states of the events; a simulated modify waits for its cancel; what is left of an order
\* that is not ended is right.
Local(o) ==
  /\ o.new \in {"U", "Q", "S", "A", "X", "C"}
  /\ o.mod \in {"U", "D", "Q", "S", "A", "X"}
  /\ o.cxl \in {"U", "D", "Q", "S", "A", "X"}
  /\ o.modifyCxl /\ o.new \in {"S", "A"} => o.mod = "D" /\ o.cxl \in {"D", "Q", "S", "X"}
  /\ o.new \in {"Q", "S", "A"} => o.leaves = Leaves(o.qty, o.cum)

\* A deferred request waits for another one, or a modify for a cancel that was rejected.
Waits(o) ==
  /\ o.mod = "D" /\ o.new = "A" => o.cxl \in {"D", "Q", "S", "X"}
  /\ o.cxl = "D" /\ o.new = "A" => o.mod = "S"

\* The requests that were sent and not answered, with those of X answered now.
Turn(o, p, X) ==
  /\ Local(p)
  /\ \A r \in Request : p[r] = "S" <=> o[r] = "S" /\ r \notin X

LEMMA OrderedInOrder ==
  ASSUME NEW o \in Orders, Local(o), o.new = "S"
  PROVE  LET r == Ordered(o)
         IN /\ ~r.odd /\ Turn(o, r.order, {"new"}) /\ r.order.new = "A" /\ r.order.qty = o.qty /\ Waits(r.order)
<1> DEFINE n == [o EXCEPT !.new = "A", !.modifyNew = FALSE]
           a == UpdateLeaves(n)
           c == Out(a, "cxl")
           m == Out(a, "mod")
           Good1(p) == Turn(o, p, {"new"}) /\ p.new = "A" /\ p.qty = o.qty /\ Waits(p)
<1>1. /\ n \in Orders /\ n.new = "A" /\ n.mod = o.mod /\ n.cxl = o.cxl /\ n.modifyCxl = o.modifyCxl
      /\ n.cum = o.cum /\ n.qty = o.qty
  BY DEF Orders, EventState
<1> HIDE DEF n
<1>2. a \in Orders
  BY <1>1, UpdateType DEF Orders
<1>3. /\ a.new = "A" /\ a.mod = o.mod /\ a.cxl = o.cxl /\ a.modifyCxl = o.modifyCxl
      /\ a.cum = o.cum /\ a.qty = o.qty /\ a.leaves = Leaves(o.qty, o.cum)
  BY <1>1, <1>2 DEF UpdateLeaves, Orders
<1> HIDE DEF a
<1>4. /\ c.new = "A" /\ c.mod = o.mod /\ c.cxl = "Q" /\ c.modifyCxl = o.modifyCxl
      /\ c.cum = o.cum /\ c.qty = o.qty /\ c.leaves = Leaves(o.qty, o.cum)
  BY <1>2, <1>3 DEF Out, Orders
<1>5. /\ m.new = "A" /\ m.mod = "Q" /\ m.cxl = o.cxl /\ m.modifyCxl = o.modifyCxl
      /\ m.cum = o.cum /\ m.qty = o.qty /\ m.leaves = Leaves(o.qty, o.cum)
  BY <1>2, <1>3 DEF Out, Orders
<1> HIDE DEF c, m
<1>6. Ordered(o) =
        CASE ~o.modifyCxl /\ o.new \in {"H", "Q", "S"} ->
               Done(IF o.cxl = "D" THEN c ELSE IF a.mod \in {"D"} THEN m ELSE a)
          [] o.new \in {"A", "C"} -> Done(UpdateLeaves(o))
          [] o.new = "S" /\ Simulating(o) -> Done(IF a.cxl \in {"D", "X"} THEN c ELSE a)
          [] OTHER -> Abnormal(a)
  BY DEF Ordered, OutIf, a, n, c, m
<1>7. o.modifyCxl \in BOOLEAN /\ (o.modifyCxl => Simulating(o))
  BY DEF Orders, Local, Simulating
<1>8. o.cxl \in {"D", "X"} => Good1(c)
  BY <1>4 DEF Turn, Local, Waits, Request
<1>9. ~o.modifyCxl /\ o.cxl # "D" /\ o.mod = "D" => Good1(m)
  BY <1>5 DEF Turn, Local, Waits, Request
<1>10. o.cxl # "D" /\ (~o.modifyCxl => o.mod # "D") /\ (o.modifyCxl => o.cxl # "X") => Good1(a)
  BY <1>3 DEF Turn, Local, Waits, Request
<1> HIDE DEF Good1
<1>11. \E p : Ordered(o) = Done(p) /\ Good1(p)
  <2>1. CASE o.modifyCxl
    <3>1. Ordered(o) = Done(IF a.cxl \in {"D", "X"} THEN c ELSE a)
      BY <1>6, <1>7, <2>1
    <3> QED
      BY <1>3, <1>8, <1>10, <2>1, <3>1
  <2>2. CASE ~o.modifyCxl
    <3>0. ~o.modifyCxl /\ o.new \in {"H", "Q", "S"} /\ o.new \notin {"A", "C"} /\ ~Simulating(o)
      BY <2>2 DEF Simulating
    <3>1. Ordered(o) = Done(IF o.cxl = "D" THEN c ELSE IF a.mod \in {"D"} THEN m ELSE a)
      BY <1>6, <3>0, Zenon
    <3> QED
      BY <1>3, <1>8, <1>9, <1>10, <2>2, <3>1
  <2> QED
    BY <2>1, <2>2
<1>12. PICK p : Ordered(o) = Done(p) /\ Good1(p)
  BY <1>11
<1>13. Ordered(o).order = p /\ Ordered(o).odd = FALSE
  BY <1>12 DEF Done
<1> QED
  BY <1>12, <1>13 DEF Good1

LEMMA RejectInOrder ==
  ASSUME NEW o \in Orders, Local(o), o.new = "S"
  PROVE  LET r == Reject(o)
         IN /\ ~r.odd /\ Turn(o, r.order, {"new"}) /\ r.order.new = "X" /\ r.order.qty = o.qty
  BY DEF Orders, Local, Turn, Request, Reject, Simulating, Done, Abnormal

LEMMA ModRejectInOrder ==
  ASSUME NEW o \in Orders, Local(o), o.mod = "S", o.new \in {"A", "X", "C"}
  PROVE  LET r == ModReject(o)
         IN /\ ~r.odd /\ Turn(o, r.order, {"mod"}) /\ r.order.new = o.new /\ r.order.qty = o.qty /\ Waits(r.order)
  BY DEF Orders, Local, Waits, Turn, Request, ModReject, Done, Abnormal, OutIf, Out

LEMMA ModRejectCxlInOrder ==
  ASSUME NEW o \in Orders, Local(o), o.mod = "S", o.new \in {"A", "X", "C"}
  PROVE  LET r == ModRejectCxl(o)
         IN /\ ~r.odd /\ Turn(o, r.order, {"mod"}) /\ r.order.new = o.new /\ r.order.qty = o.qty
            /\ Waits(r.order) \/ Filled(o)
  BY DEF Orders, Local, Waits, Turn, Request, ModRejectCxl, SynCancel, DeferOr, Done, Abnormal, OutIf, Out

LEMMA CxlRejectInOrder ==
  ASSUME NEW o \in Orders, Local(o), o.cxl = "S", o.new \in {"A", "X", "C"}
  PROVE  LET r == CxlReject(o)
         IN /\ ~r.odd /\ Turn(o, r.order, {"cxl"}) /\ r.order.new = o.new /\ r.order.qty = o.qty /\ Waits(r.order)
  BY DEF Orders, Local, Turn, Request, CxlReject, Done, Abnormal, Waits

LEMMA ClosedInOrder ==
  ASSUME NEW o \in Orders, Local(o), o.new = "A"
  PROVE  /\ Turn(o, Closed(o), {}) /\ Closed(o).new = "C"
  BY DEF Orders, Local, Turn, Request, Closed

LEMMA FillInOrder ==
  ASSUME NEW o \in Orders, Local(o), o.new = "A", o.cum < o.qty
  PROVE  LET r == Fill(o, FALSE)
         IN /\ ~r.odd /\ Turn(o, r.order, {}) /\ r.order.new = "A" /\ r.order.qty = o.qty
            /\ r.order.mod = o.mod /\ r.order.cxl = o.cxl
<1> DEFINE e == [o EXCEPT !.cum = @ + 1]
           f == UpdateLeaves(e)
<1>1. o.cum \in Nat /\ o.qty \in Nat
  BY BoundsAssumption DEF Orders, Qty
<1>2. e \in Orders /\ e.cum = o.cum + 1 /\ e.qty = o.qty
  BY DEF Orders
<1>3. f \in Orders
  BY <1>2, UpdateType DEF Orders
<1>4. /\ f.cum = o.cum + 1 /\ f.qty = o.qty /\ f.new = o.new /\ f.mod = o.mod /\ f.cxl = o.cxl
      /\ f.modifyCxl = o.modifyCxl /\ f.leaves = Leaves(f.qty, f.cum)
  BY <1>3 DEF UpdateLeaves, Orders
<1> HIDE DEF f
<1>5. ~(f.cum > f.qty) /\ f.mod # "P" /\ f.cxl # "P"
  BY <1>1, <1>4 DEF Local
<1>6. Fill(o, FALSE) = Done(f)
  BY <1>5 DEF Fill, f
<1>7. Turn(o, f, {})
  BY <1>4 DEF Local, Turn, Request
<1> DEFINE r == Fill(o, FALSE)
<1>8. r = [order |-> f, odd |-> FALSE]
  BY <1>6 DEF Done
<1> HIDE DEF r
<1>9. r.order = f /\ r.odd = FALSE
  BY <1>8
<1>10. ~r.odd /\ Turn(o, r.order, {}) /\ r.order.new = "A" /\ r.order.qty = o.qty
       /\ r.order.mod = o.mod /\ r.order.cxl = o.cxl
  BY <1>4, <1>7, <1>9
<1> QED
  BY <1>10 DEF r

LEMMA ModifiedInOrder ==
  ASSUME NEW o \in Orders, Local(o), o.mod = "S", o.new = "A", Uncounted(o), NEW qty \in Qty, NEW cum \in Nat,
         cum = o.cum
  PROVE  LET r == Modified(o, qty, cum)
         IN /\ ~r.odd /\ Turn(o, r.order, {"mod"}) /\ r.order.new = "A" /\ r.order.qty = qty /\ Waits(r.order)
<1> DEFINE m == [o EXCEPT !.modQty = qty, !.modCum = IF profile.copiesCum THEN cum ELSE @]
           n == [m EXCEPT !.mod = "A"]
           u == Update(n, qty)
<1>1. Acked(o) = o
  BY DEF Acked, Orders
<1>2. m \in Orders /\ m.modCum \in {cum, o.modCum} /\ m.cum = o.cum /\ m.qty = o.qty
      /\ m.new = o.new /\ m.cxl = o.cxl /\ m.modifyCxl = o.modifyCxl /\ (profile.copiesCum => m.modCum = cum)
      /\ (~profile.copiesCum => m.modCum = o.modCum)
  BY DEF Orders
<1> HIDE DEF m
<1>3. ~PendingFill(m, m.modCum)
  <2>1. o.cum \in Nat /\ m.cum = o.cum /\ (m.modCum = o.cum \/ m.modCum = 0)
    BY <1>2 DEF Orders, Uncounted
  <2> QED
    BY <2>1 DEF PendingFill
<1>4. n \in Orders /\ n.new = o.new /\ n.mod = "A" /\ n.cxl = o.cxl /\ n.cum = o.cum /\ n.modifyCxl = o.modifyCxl
  BY <1>2 DEF Orders, EventState
<1> HIDE DEF n
<1>5. u \in Orders
  BY <1>4, UpdateType
<1>6. /\ u.new = o.new /\ u.mod = "A" /\ u.cxl = o.cxl /\ u.cum = o.cum /\ u.modifyCxl = o.modifyCxl
      /\ u.qty = qty /\ u.leaves = Leaves(qty, o.cum)
  BY <1>4 DEF Update, UpdateLeaves, Orders
<1> HIDE DEF u
<1>7. Modified(o, qty, cum) = Done(OutIf(u, "cxl", {"D"}))
  <2> DEFINE k == [Acked(o) EXCEPT !.modQty = qty, !.modCum = IF profile.copiesCum THEN cum ELSE IF TRUE THEN @ ELSE 0]
             accepted == OutIf(IF PendingFill(k, k.modCum) THEN [k EXCEPT !.mod = "P"]
                               ELSE Update([k EXCEPT !.mod = "A"], qty), "cxl", {"D"})
  <2>1. (o.new \in {"S", "A"} /\ o.mod \in {"D", "Q", "S"}) = TRUE
    OBVIOUS
  <2>2. Modified(o, qty, cum) =
          CASE TRUE \/ o.new \in {"A", "C"} \/ (~o.modifyCxl /\ o.new \in {"H", "Q", "S"}) -> Done(accepted)
            [] ~TRUE /\ o.new = "S" /\ Simulating(o) -> Done(OutIf(accepted, "cxl", {"X"}))
            [] OTHER -> Abnormal(Update(o, qty))
    BY <2>1 DEF Modified
  <2>3. k = m
    BY <1>1 DEF m
  <2>4. accepted = OutIf(u, "cxl", {"D"})
    BY <1>3, <2>3 DEF u, n
  <2> HIDE DEF accepted
  <2> QED
    BY <2>2, <2>4
<1>8. ~o.modifyCxl
  BY DEF Local
<1>9. LET p == OutIf(u, "cxl", {"D"})
      IN /\ p.new = o.new /\ p.mod = "A" /\ p.cxl = (IF o.cxl = "D" THEN "Q" ELSE o.cxl) /\ p.cum = o.cum
         /\ ~p.modifyCxl /\ p.qty = qty /\ p.leaves = Leaves(qty, o.cum)
  BY <1>5, <1>6, <1>8 DEF OutIf, Out, Orders
<1>10. Turn(o, OutIf(u, "cxl", {"D"}), {"mod"}) /\ Waits(OutIf(u, "cxl", {"D"}))
  BY <1>9 DEF Turn, Waits, Local, Request
<1> QED
  BY <1>7, <1>9, <1>10 DEF Done

LEMMA CanceledInOrder ==
  ASSUME NEW o \in Orders, Local(o), o.cxl = "S", o.new = "A", Uncounted(o), NEW cum \in Nat, cum = o.cum
  PROVE  LET r == Canceled(o, cum)
         IN /\ ~r.odd /\ Local(r.order)
            /\ \/ r.order.new = "C" /\ Turn(o, r.order, {"cxl"})
               \/ /\ o.modifyCxl /\ o.mod = "D" /\ r.order.mod = "D" /\ r.order.cxl = "A"
                  /\ r.order.new = "Q" \/ (r.order.new = "A" /\ Filled(r.order))
<1> DEFINE solicited == o.cxl \in {"D", "Q", "S"}
           c == [IF solicited THEN Acked(o) ELSE SynCancel(Acked(o))
                   EXCEPT !.cxlCum = IF profile.copiesCum THEN cum ELSE @]
           pending == PendingFill(c, c.cxlCum)
           t == [c EXCEPT !.cxl = "A", !.new = "C"]
           e == Update(t, c.cxlQty)
           closed == IF pending THEN [c EXCEPT !.cxl = "P"] ELSE e
           k == [closed EXCEPT !.mod = IF @ \in {"D", "Q"} THEN "X" ELSE @, !.leaves = 0]
           v == [c EXCEPT !.cxl = "A", !.modifyNew = TRUE, !.modifyCxl = FALSE]
           u == Update(v, c.modQty)
           replaced == IF pending THEN [c EXCEPT !.cxl = "P"]
                       ELSE IF o.mod = "H" THEN [u EXCEPT !.new = "H", !.mod = "U"] ELSE u
           f == [replaced EXCEPT !.modifyNew = FALSE, !.new = "A"]
           q == Out(replaced, "new")
           s == [o EXCEPT !.cxl = IF solicited THEN "A" ELSE @]
           z == [o EXCEPT !.new = IF @ = "X" THEN @ ELSE "C", !.leaves = 0]
           Better(p) == /\ Local(p)
                        /\ \/ p.new = "C" /\ Turn(o, p, {"cxl"})
                           \/ /\ o.modifyCxl /\ o.mod = "D" /\ p.mod = "D" /\ p.cxl = "A"
                              /\ p.new = "Q" \/ (p.new = "A" /\ Filled(p))
<1>1. Acked(o) = o
  BY DEF Acked, Orders
<1>2. /\ c \in Orders /\ c.new = "A" /\ c.mod = o.mod /\ c.cum = o.cum /\ c.modifyCxl = o.modifyCxl
      /\ c.cxlCum \in {o.cum, 0} /\ c.cxlQty \in Qty /\ c.modQty \in Qty
  BY <1>1 DEF Orders, Uncounted
<1> HIDE DEF c
<1>3. ~pending
  <2>1. o.cum \in Nat
    BY DEF Orders
  <2> QED
    BY <1>2, <2>1 DEF PendingFill
<1> HIDE DEF pending
<1>4. t \in Orders /\ t.new = "C" /\ t.mod = o.mod /\ t.cxl = "A"
  BY <1>2 DEF Orders, EventState
<1> HIDE DEF t
<1>5. e \in Orders /\ e.new = "C" /\ e.mod = o.mod /\ e.cxl = "A"
  <2>1. e \in Orders
    BY <1>2, <1>4, UpdateType
  <2> QED
    BY <1>4, <2>1 DEF Update, UpdateLeaves, Orders
<1> HIDE DEF e
<1>6. closed = e
  BY <1>3
<1> HIDE DEF closed
<1>7. k.new = "C" /\ k.mod = (IF o.mod \in {"D", "Q"} THEN "X" ELSE o.mod) /\ k.cxl = "A"
  BY <1>5, <1>6 DEF Orders
<1> HIDE DEF k
<1>8. Better(k)
  BY <1>7 DEF Local, Turn, Request
<1>9. /\ v \in Orders /\ v.new = "A" /\ v.mod = o.mod /\ v.cxl = "A" /\ ~v.modifyCxl /\ v.cum = o.cum
  BY <1>2 DEF Orders, EventState
<1> HIDE DEF v
<1>10. u \in Orders
  BY <1>2, <1>9, UpdateType
<1>11. /\ u.new = "A" /\ u.mod = o.mod /\ u.cxl = "A" /\ ~u.modifyCxl /\ u.leaves = Leaves(u.qty, u.cum)
  BY <1>2, <1>9, <1>10 DEF Update, UpdateLeaves, Orders
<1> HIDE DEF u
<1>12. replaced = u
  <2>1. o.mod # "H"
    BY DEF Local
  <2> QED
    BY <1>3, <2>1
<1> HIDE DEF replaced
<1>13. /\ f.new = "A" /\ f.mod = o.mod /\ f.cxl = "A" /\ ~f.modifyCxl /\ f.leaves = Leaves(f.qty, f.cum)
       /\ Filled(u) => Filled(f)
  BY <1>10, <1>11, <1>12 DEF Orders, Filled
<1>14. /\ q.new = "Q" /\ q.mod = o.mod /\ q.cxl = "A" /\ ~q.modifyCxl /\ q.leaves = Leaves(q.qty, q.cum)
  BY <1>10, <1>11, <1>12 DEF Orders, Out
<1> HIDE DEF f, q
<1>15. o.modifyCxl => o.mod = "D" /\ Better(q) /\ (Filled(u) => Better(f))
  BY <1>13, <1>14 DEF Local
<1> HIDE DEF s, z
<1>16. Canceled(o, cum) =
         CASE ~o.modifyCxl /\ o.new \in {"H", "Q", "S", "A"} -> Done(k)
           [] o.new \in {"X", "C"} -> Done(s)
           [] o.modifyCxl /\ o.new \in {"S", "A"} /\ o.mod \in {"H", "D"} ->
                Done(IF Filled(replaced) THEN f ELSE q)
           [] OTHER -> Abnormal(z)
  BY DEF Canceled, c, pending, closed, e, t, k, u, v, replaced, f, q, s, z
<1> HIDE DEF Better
<1>17. \E p : Canceled(o, cum) = Done(p) /\ Better(p)
  <2>1. CASE ~o.modifyCxl
    <3>1. ~o.modifyCxl /\ o.new \in {"H", "Q", "S", "A"} /\ o.new \notin {"X", "C"}
      BY <2>1
    <3>2. Canceled(o, cum) = Done(k)
      BY <1>16, <3>1, Zenon
    <3> QED
      BY <1>8, <3>2
  <2>2. CASE o.modifyCxl
    <3>1. o.modifyCxl /\ o.new \in {"S", "A"} /\ o.mod \in {"H", "D"} /\ o.new \notin {"X", "C"}
      BY <1>15, <2>2
    <3>2. Canceled(o, cum) = Done(IF Filled(replaced) THEN f ELSE q)
      BY <1>16, <3>1, Zenon
    <3> QED
      BY <1>12, <1>15, <2>2, <3>2
  <2> QED
    BY <2>1, <2>2
<1>18. PICK p : Canceled(o, cum) = Done(p) /\ Better(p)
  BY <1>17
<1>19. Canceled(o, cum).order = p /\ Canceled(o, cum).odd = FALSE
  BY <1>18 DEF Done
<1> QED
  BY <1>18, <1>19 DEF Better

\* An order that may be modified, when what was queued is taken back.
Free(o) ==
  /\ o \in Orders /\ o.new \in {"T", "S", "A"} /\ o.mod \in {"U", "A", "X", "T"} /\ o.cxl \in {"U", "A", "X"}
  /\ o.mod = "T" => o.new = "A"
  /\ ~o.modifyCxl /\ (o.new = "T" => o.cum = 0)
  /\ o.leaves = Leaves(o.qty, o.cum)

\* What a modify of it does: it waits, it is queued, or the new order is queued again.
Asks(o, p) ==
  /\ Local(p) /\ Waits(p) /\ p.mod # "S" /\ p.cxl # "S"
  /\ IF o.new = "T" THEN p.new = "Q" /\ p.mod # "Q" /\ p.cxl # "Q" ELSE p.new = o.new /\ p.qty = o.qty

LEMMA ModifyNewInOrder ==
  ASSUME NEW o, Free(o), o.new = "T", NEW qty \in Qty, qty >= 1
  PROVE  Asks(o, ModifyNewOrder(o, qty))
<1> DEFINE m == [o EXCEPT !.modifyNew = TRUE]
           u == Update(m, qty)
           n == [u EXCEPT !.qty = qty, !.cum = 0, !.leaves = qty]
<1>1. /\ m \in Orders /\ m.new = "T" /\ m.mod = o.mod /\ m.cxl = o.cxl /\ ~m.modifyCxl /\ m.cum = 0
      /\ qty \in Nat /\ o.mod # "T"
  <2>1. /\ m \in Orders /\ m.new = "T" /\ m.mod = o.mod /\ m.cxl = o.cxl /\ m.modifyCxl = o.modifyCxl /\ m.cum = 0
    BY DEF Free, Orders
  <2>2. qty \in Nat
    BY BoundsAssumption DEF Qty
  <2> HIDE DEF m
  <2> QED
    BY <2>1, <2>2 DEF Free
<1> HIDE DEF m
<1>2. u \in Orders
  BY <1>1, UpdateType
<1>3. u.mod = o.mod /\ u.cxl = o.cxl /\ ~u.modifyCxl /\ u.cum = 0 /\ u.qty = qty
  BY <1>1, <1>2 DEF Update, UpdateLeaves, Orders
<1> HIDE DEF u
<1>4. ~Filled(u)
  BY <1>1, <1>3 DEF Filled
<1>5. /\ n \in Orders /\ n.mod = o.mod /\ n.cxl = o.cxl /\ ~n.modifyCxl /\ n.cum = 0 /\ n.qty = qty /\ n.leaves = qty
  BY <1>2, <1>3 DEF Orders
<1> HIDE DEF n
<1> DEFINE p == Out(n, "new")
<1>6. /\ p.new = "Q" /\ p.mod = o.mod /\ p.cxl = o.cxl /\ ~p.modifyCxl /\ p.cum = 0 /\ p.qty = qty /\ p.leaves = qty
  BY <1>5 DEF Out, Orders
<1>7. ModifyNewOrder(o, qty) = p
  BY <1>4 DEF ModifyNewOrder, NewOrder, u, m, n
<1> HIDE DEF p
<1>8. p.leaves = Leaves(p.qty, p.cum)
  BY <1>1, <1>6 DEF Leaves
<1> QED
  BY <1>1, <1>6, <1>7, <1>8 DEF Asks, Free, Local, Waits

LEMMA ModifyInOrder ==
  ASSUME NEW o, Free(o), NEW qty \in Qty, qty >= 1
  PROVE  LET r == Modify(o, qty)
         IN ~r.odd /\ Asks(o, r.order)
<1> DEFINE m == [o EXCEPT !.modQty = qty, !.modCum = 0]
           w == [o EXCEPT !.modQty = qty, !.modCum = 0, !.cxl = IF o.modifyCxl THEN "U" ELSE @, !.modifyCxl = FALSE]
           d == [m EXCEPT !.mod = "D"]
           p == DeferOr(m, "mod", o.new = "S" /\ ~profile.asyncMod)
           q == Out([m EXCEPT !.cxl = IF o.modifyCxl THEN "U" ELSE @, !.modifyCxl = FALSE], "mod")
           Same(x) == /\ x \in Orders /\ x.new = o.new /\ x.mod = o.mod /\ x.cxl = o.cxl /\ ~x.modifyCxl
                      /\ x.qty = o.qty /\ x.cum = o.cum /\ x.leaves = o.leaves
<1>1. Same(m)
  BY DEF Free, Orders
<1> HIDE DEF m
<1>2. Same([m EXCEPT !.cxl = IF o.modifyCxl THEN "U" ELSE @, !.modifyCxl = FALSE])
  BY <1>1 DEF Free, Orders
<1>3. ASSUME NEW x, Same(x), o.new \in {"S", "A"}
      PROVE  Asks(o, Out(x, "mod"))
  <2> DEFINE y == Out(x, "mod")
  <2>1. /\ y.new = o.new /\ y.mod = "Q" /\ y.cxl = o.cxl /\ ~y.modifyCxl
        /\ y.qty = o.qty /\ y.cum = o.cum /\ y.leaves = o.leaves
    BY <1>3 DEF Out, Orders
  <2> HIDE DEF y
  <2>2. Asks(o, y)
    BY <1>3, <2>1 DEF Asks, Free, Local, Waits
  <2> QED
    BY <2>2 DEF y
<1>4. /\ d.new = o.new /\ d.mod = "D" /\ d.cxl = o.cxl /\ ~d.modifyCxl
      /\ d.qty = o.qty /\ d.cum = o.cum /\ d.leaves = o.leaves
  BY <1>1 DEF Orders
<1> HIDE DEF d
<1>5. o.new = "S" => Asks(o, d)
  BY <1>4 DEF Asks, Free, Local, Waits
<1>6. o.new \in {"S", "A"} => Asks(o, p) /\ Asks(o, q)
  <2> SUFFICES ASSUME o.new \in {"S", "A"}
               PROVE  Asks(o, p) /\ Asks(o, q)
    OBVIOUS
  <2>1. Asks(o, q)
    BY <1>2, <1>3
  <2>2. Asks(o, Out(m, "mod"))
    BY <1>1, <1>3
  <2>3. p = IF o.new = "S" /\ ~profile.asyncMod THEN d ELSE Out(m, "mod")
    BY DEF DeferOr, d
  <2> QED
    BY <1>5, <2>1, <2>2, <2>3
<1> HIDE DEF p, q
<1>7. NoRequest(o) <=> o.mod # "T"
  BY DEF NoRequest, Free
<1>8. o.new = "T" => Asks(o, ModifyNewOrder(o, qty))
  BY ModifyNewInOrder
<1>9. Modify(o, qty) =
        CASE NoRequest(o) /\ o.new \in {"S", "A"} -> Done(p)
          [] NoRequest(o) /\ o.new \in {"H", "T"} -> Done(ModifyNewOrder(o, qty))
          [] o.new = "A" /\ o.mod \in {"H", "D", "T"} ->
               IF o.modifyCxl /\ o.cxl \in {"S", "P"} THEN Done(d) ELSE Done(q)
          [] OTHER -> Abnormal(o)
  BY DEF Modify, p, q, m, d
<1> HIDE DEF Asks
<1>10. \E x : Modify(o, qty) = Done(x) /\ Asks(o, x)
  <2>1. CASE o.new = "T"
    <3>1. NoRequest(o) /\ o.new \in {"H", "T"} /\ ~(o.new \in {"S", "A"}) /\ ~(o.new = "A")
      BY <1>7, <2>1 DEF Free
    <3>2. Modify(o, qty) = Done(ModifyNewOrder(o, qty))
      BY <1>9, <3>1, Zenon
    <3> QED
      BY <1>8, <2>1, <3>2
  <2>2. CASE o.new # "T" /\ o.mod # "T"
    <3>1. NoRequest(o) /\ o.new \in {"S", "A"} /\ ~(o.new \in {"H", "T"}) /\ ~(o.mod \in {"H", "D", "T"})
      BY <1>7, <2>2 DEF Free
    <3>2. Modify(o, qty) = Done(p)
      BY <1>9, <3>1, Zenon
    <3> QED
      BY <1>6, <3>1, <3>2
  <2>3. CASE o.mod = "T"
    <3>1. ~NoRequest(o) /\ o.new = "A" /\ o.mod \in {"H", "D", "T"} /\ ~o.modifyCxl
      BY <1>7, <2>3 DEF Free
    <3>2. Modify(o, qty) = IF o.modifyCxl /\ o.cxl \in {"S", "P"} THEN Done(d) ELSE Done(q)
      BY <1>9, <3>1, Zenon
    <3>3. Modify(o, qty) = Done(q) /\ o.new \in {"S", "A"}
      BY <3>1, <3>2
    <3> QED
      BY <1>6, <3>3
  <2> QED
    BY <2>1, <2>2, <2>3
<1>11. PICK x : Modify(o, qty) = Done(x) /\ Asks(o, x)
  BY <1>10
<1>12. Modify(o, qty).order = x /\ Modify(o, qty).odd = FALSE
  BY <1>11 DEF Done
<1> QED
  BY <1>11, <1>12

LEMMA ModSimulatedInOrder ==
  ASSUME NEW o, Free(o), NEW qty \in Qty, qty >= 1
  PROVE  LET r == ModSimulated(o, qty)
         IN ~r.odd /\ Asks(o, r.order)
<1> DEFINE m == [o EXCEPT !.modQty = qty, !.mod = "D"]
           c == SynCancel([m EXCEPT !.modifyCxl = TRUE])
           b == [c EXCEPT !.modCum = 0]
           d == [b EXCEPT !.cxl = "D"]
           p == DeferOr(b, "cxl", o.new = "S" /\ ~profile.asyncCxl)
           q == Out(c, "cxl")
           Same(x) == /\ x \in Orders /\ x.new = o.new /\ x.mod = "D" /\ x.qty = o.qty /\ x.cum = o.cum
                      /\ x.leaves = o.leaves
<1>1. m \in Orders /\ Same(m)
  BY DEF Free, Orders, EventState
<1> HIDE DEF m
<1>2. Same(c)
  BY <1>1, BoundsAssumption DEF SynCancel, Orders
<1> HIDE DEF c
<1>3. Same(b)
  BY <1>2 DEF Orders
<1> HIDE DEF b
<1>4. ASSUME NEW x, Same(x), o.new \in {"S", "A"}
      PROVE  Asks(o, Out(x, "cxl"))
  <2> DEFINE y == Out(x, "cxl")
  <2>1. y.new = o.new /\ y.mod = "D" /\ y.cxl = "Q" /\ y.qty = o.qty /\ y.cum = o.cum /\ y.leaves = o.leaves
    BY <1>4 DEF Out, Orders
  <2> HIDE DEF y
  <2>2. Asks(o, y)
    BY <1>4, <2>1 DEF Asks, Free, Local, Waits
  <2> QED
    BY <2>2 DEF y
<1>5. d.new = o.new /\ d.mod = "D" /\ d.cxl = "D" /\ d.qty = o.qty /\ d.cum = o.cum /\ d.leaves = o.leaves
  BY <1>3 DEF Orders
<1> HIDE DEF d
<1>6. o.new = "S" => Asks(o, d)
  BY <1>5 DEF Asks, Free, Local, Waits
<1>7. o.new \in {"S", "A"} => Asks(o, p) /\ Asks(o, q)
  <2> SUFFICES ASSUME o.new \in {"S", "A"}
               PROVE  Asks(o, p) /\ Asks(o, q)
    OBVIOUS
  <2>1. Asks(o, q) /\ Asks(o, Out(b, "cxl"))
    BY <1>2, <1>3, <1>4
  <2>2. p = IF o.new = "S" /\ ~profile.asyncCxl THEN d ELSE Out(b, "cxl")
    BY DEF DeferOr, d
  <2> QED
    BY <1>6, <2>1, <2>2
<1> HIDE DEF p, q
<1>8. NoRequest(o) <=> o.mod # "T"
  BY DEF NoRequest, Free
<1>9. o.new = "T" => Asks(o, ModifyNewOrder(o, qty))
  BY ModifyNewInOrder
<1>10. ModSimulated(o, qty) =
         CASE NoRequest(o) /\ o.new \in {"S", "A"} -> Done(p)
           [] NoRequest(o) /\ o.new \in {"H", "T"} -> Done(ModifyNewOrder(o, qty))
           [] o.new = "A" /\ o.mod \in {"H", "D", "T"} ->
                Done(IF o.modifyCxl /\ o.cxl \in {"Q", "S", "P"} THEN m ELSE q)
           [] OTHER -> Abnormal(o)
  BY DEF ModSimulated, p, q, m, c, b
<1> HIDE DEF Asks
<1>11. \E x : ModSimulated(o, qty) = Done(x) /\ Asks(o, x)
  <2>1. CASE o.new = "T"
    <3>1. NoRequest(o) /\ o.new \in {"H", "T"} /\ ~(o.new \in {"S", "A"}) /\ ~(o.new = "A")
      BY <1>8, <2>1 DEF Free
    <3>2. ModSimulated(o, qty) = Done(ModifyNewOrder(o, qty))
      BY <1>10, <3>1, Zenon
    <3> QED
      BY <1>9, <2>1, <3>2
  <2>2. CASE o.new # "T" /\ o.mod # "T"
    <3>1. NoRequest(o) /\ o.new \in {"S", "A"} /\ ~(o.new \in {"H", "T"}) /\ ~(o.mod \in {"H", "D", "T"})
      BY <1>8, <2>2 DEF Free
    <3>2. ModSimulated(o, qty) = Done(p)
      BY <1>10, <3>1, Zenon
    <3> QED
      BY <1>7, <3>1, <3>2
  <2>3. CASE o.mod = "T"
    <3>1. ~NoRequest(o) /\ o.new = "A" /\ o.mod \in {"H", "D", "T"} /\ ~o.modifyCxl
      BY <1>8, <2>3 DEF Free
    <3>2. ModSimulated(o, qty) = Done(IF o.modifyCxl /\ o.cxl \in {"Q", "S", "P"} THEN m ELSE q)
      BY <1>10, <3>1, Zenon
    <3>3. ModSimulated(o, qty) = Done(q) /\ o.new \in {"S", "A"}
      BY <3>1, <3>2
    <3> QED
      BY <1>7, <3>3
  <2> QED
    BY <2>1, <2>2, <2>3
<1>12. PICK x : ModSimulated(o, qty) = Done(x) /\ Asks(o, x)
  BY <1>11
<1>13. ModSimulated(o, qty).order = x /\ ModSimulated(o, qty).odd = FALSE
  BY <1>12 DEF Done
<1> QED
  BY <1>12, <1>13

LEMMA AbortedInOrder ==
  ASSUME NEW a \in Orders, Local(a), a.new \notin {"U", "X", "C"}
  PROVE  LET o == Aborted(a)
         IN /\ o \in Orders /\ o.cxl = a.cxl /\ o.modifyCxl = a.modifyCxl
            /\ o.qty = a.qty /\ o.cum = a.cum /\ o.leaves = a.leaves
            /\ o.new = (IF a.new = "Q" THEN "T" ELSE a.new)
            /\ o.mod = (IF a.new = "A" /\ a.mod = "Q" THEN "T" ELSE a.mod)
<1> DEFINE n == [a EXCEPT !["new"] = "T"]
           m == [a EXCEPT !["mod"] = "T"]
<1>1. /\ n \in Orders /\ n.cxl = a.cxl /\ n.modifyCxl = a.modifyCxl
      /\ n.qty = a.qty /\ n.cum = a.cum /\ n.leaves = a.leaves /\ n.new = "T" /\ n.mod = a.mod
  BY DEF Orders, EventState
<1>2. /\ m \in Orders /\ m.cxl = a.cxl /\ m.modifyCxl = a.modifyCxl
      /\ m.qty = a.qty /\ m.cum = a.cum /\ m.leaves = a.leaves /\ m.new = a.new /\ m.mod = "T"
  BY DEF Orders, EventState
<1>3. Aborted(a) = IF a.new = "A" THEN IF a.mod = "Q" THEN m ELSE a
                   ELSE IF a.new = "Q" THEN n ELSE a
  BY DEF Aborted, n, m
<1> HIDE DEF n, m
<1> QED
  BY <1>1, <1>2, <1>3

LEMMA AbortedFree ==
  ASSUME NEW a, Good(a), Local(a), a.new = "Q" => a.cum = 0 \/ a.mod = "D", MayModify(Aborted(a))
  PROVE  Free(Aborted(a))
<1> DEFINE o == Aborted(a)
<1>1. a \in Orders /\ a.new \notin {"U", "X", "C"}
  <2>1. a.new \in {"X", "C"} => Aborted(a) = a
    BY DEF Aborted
  <2> QED
    BY <2>1 DEF Good, MayModify
<1>2. /\ o \in Orders /\ o.cxl = a.cxl /\ o.modifyCxl = a.modifyCxl
      /\ o.qty = a.qty /\ o.cum = a.cum /\ o.leaves = a.leaves
      /\ o.new = (IF a.new = "Q" THEN "T" ELSE a.new)
      /\ o.mod = (IF a.new = "A" /\ a.mod = "Q" THEN "T" ELSE a.mod)
  BY <1>1, AbortedInOrder
<1> HIDE DEF o
<1>3. o.mod \notin {"D", "Q", "S", "P"} /\ o.cxl \notin {"D", "Q", "S", "P"}
  BY DEF MayModify, o
<1>4. o.new \in {"T", "S", "A"} /\ o.mod \in {"U", "A", "X", "T"} /\ o.cxl \in {"U", "A", "X"}
  BY <1>1, <1>2, <1>3 DEF Local
<1>5. o.mod = "T" => o.new = "A"
  BY <1>1, <1>2 DEF Local
<1>6. ~o.modifyCxl
  BY <1>1, <1>2, <1>3 DEF Good, Local
<1>7. o.new = "T" => o.cum = 0
  <2>1. a.new = "Q" => o.mod = a.mod
    BY <1>2
  <2>2. a.new = "Q" => a.cum = 0
    BY <1>3, <2>1
  <2>3. o.new = "T" => a.new = "Q"
    BY <1>1, <1>2 DEF Local
  <2> QED
    BY <1>2, <2>2, <2>3
<1>8. o.leaves = Leaves(o.qty, o.cum)
  BY <1>1, <1>2 DEF Local
<1> QED
  BY <1>2, <1>4, <1>5, <1>6, <1>7, <1>8 DEF Free, o

LEMMA CancelInOrder ==
  ASSUME NEW a \in Orders, Local(a), a.new \notin {"U", "X", "C"}, ~CancelPending(a)
  PROVE  LET r == Cancel(Aborted(a))
         IN /\ ~r.odd /\ Local(r.order)
            /\ \A x \in Request : r.order[x] = "S" <=> a[x] = "S"
            /\ IF a.new = "Q" THEN r.order.new = "C"
               ELSE r.order.new = a.new /\ r.order.qty = a.qty /\ Waits(r.order)
<1> DEFINE o == Aborted(a)
           k == [o EXCEPT !.modifyCxl = FALSE, !.mod = IF @ \in {"H", "D", "T"} THEN "X" ELSE @]
           c == SynCancel(k)
           d == [c EXCEPT !.cxl = "D"]
           q == Out(c, "cxl")
           p == DeferOr(c, "cxl", "S" \in {o.new, o.mod} /\ ~profile.asyncCxl)
           e == [o EXCEPT !.new = "C", !.modifyNew = FALSE]
           Ok(x) == /\ Local(x)
                    /\ \A y \in Request : x[y] = "S" <=> a[y] = "S"
                    /\ IF a.new = "Q" THEN x.new = "C" ELSE x.new = a.new /\ x.qty = a.qty /\ Waits(x)
<1>1. /\ o \in Orders /\ o.cxl = a.cxl /\ o.modifyCxl = a.modifyCxl
      /\ o.qty = a.qty /\ o.cum = a.cum /\ o.leaves = a.leaves
      /\ o.new = (IF a.new = "Q" THEN "T" ELSE a.new)
      /\ o.mod = (IF a.new = "A" /\ a.mod = "Q" THEN "T" ELSE a.mod)
  BY AbortedInOrder
<1> HIDE DEF o
<1>2. a.new \in {"Q", "S", "A"} /\ a.cxl \in {"U", "A", "X"}
  BY DEF Local, CancelPending
<1>3. /\ k \in Orders /\ k.new = o.new /\ k.mod = (IF o.mod \in {"D", "T"} THEN "X" ELSE o.mod) /\ k.cxl = o.cxl
      /\ ~k.modifyCxl /\ k.qty = o.qty /\ k.cum = o.cum /\ k.leaves = o.leaves
  <2>1. o.mod # "H"
    BY <1>1 DEF Local
  <2> QED
    BY <1>1, <2>1 DEF Orders, EventState
<1> HIDE DEF k
<1>4. /\ c \in Orders /\ c.new = o.new /\ c.mod = k.mod /\ c.cxl = o.cxl
      /\ ~c.modifyCxl /\ c.qty = o.qty /\ c.cum = o.cum /\ c.leaves = o.leaves
  BY <1>3 DEF SynCancel, Orders
<1> HIDE DEF c
<1>5. /\ d.new = o.new /\ d.mod = k.mod /\ d.cxl = "D" /\ ~d.modifyCxl
      /\ d.qty = o.qty /\ d.cum = o.cum /\ d.leaves = o.leaves
  BY <1>4 DEF Orders
<1> HIDE DEF d
<1>6. /\ q.new = o.new /\ q.mod = k.mod /\ q.cxl = "Q" /\ ~q.modifyCxl
      /\ q.qty = o.qty /\ q.cum = o.cum /\ q.leaves = o.leaves
  BY <1>4 DEF Out, Orders
<1> HIDE DEF q
<1>7. e.new = "C" /\ e.mod = o.mod /\ e.cxl = o.cxl
  BY <1>1 DEF Orders
<1> HIDE DEF e
<1>8. p = IF "S" \in {o.new, o.mod} /\ ~profile.asyncCxl THEN d ELSE q
  BY DEF DeferOr, p, d, q
<1>9. a.new = "Q" => Ok(e)
  BY <1>1, <1>2, <1>7 DEF Local, Request
<1>10. a.new # "Q" => Ok(q)
  BY <1>1, <1>2, <1>3, <1>6 DEF Local, Waits, Request
<1>11. a.new # "Q" /\ "S" \in {o.new, o.mod} => Ok(d)
  BY <1>1, <1>2, <1>3, <1>5 DEF Local, Waits, Request
<1> HIDE DEF p, Ok
<1>12. Cancel(o) =
         CASE o.new \in {"S", "A"} -> Done(p)
           [] o.new \in {"H", "T"} -> Done(e)
           [] OTHER -> Abnormal(o)
  BY DEF Cancel, p, c, k, e
<1>13. \E x : Cancel(o) = Done(x) /\ Ok(x)
  <2>1. CASE a.new = "Q"
    <3>1. o.new \in {"H", "T"} /\ ~(o.new \in {"S", "A"})
      BY <1>1, <2>1
    <3>2. Cancel(o) = Done(e)
      BY <1>12, <3>1, Zenon
    <3> QED
      BY <1>9, <2>1, <3>2
  <2>2. CASE a.new # "Q"
    <3>1. ~(o.new \in {"H", "T"}) /\ o.new \in {"S", "A"}
      BY <1>1, <1>2, <2>2
    <3>2. Cancel(o) = Done(p)
      BY <1>12, <3>1, Zenon
    <3> QED
      BY <1>8, <1>10, <1>11, <2>2, <3>2
  <2> QED
    BY <2>1, <2>2
<1>14. PICK x : Cancel(o) = Done(x) /\ Ok(x)
  BY <1>13
<1>15. Cancel(o).order = x /\ Cancel(o).odd = FALSE
  BY <1>14 DEF Done
<1> QED
  BY <1>14, <1>15 DEF Ok, o

-----------------------------------------------------------------------------
(* The inductive invariant for a market that answers in order              *)

InOrder == profile.early = {} /\ ~profile.unasked

\* The request that a message answers.
Of(m) ==
  CASE m.type \in {"ordered", "reject"} -> "new"
    [] m.type \in {"modified", "modReject"} -> "mod"
    [] m.type \in {"canceled", "cxlReject"} -> "cxl"
    [] m.type \in {"fill", "closed"} -> "none"

\* What was sent is on its way, or its answer is, and no more than once.
Once ==
  /\ \A i, j \in DOMAIN wire : wire[i].type = wire[j].type => i = j
  /\ \A i, j \in DOMAIN back : Of(back[i]) = Of(back[j]) /\ Of(back[i]) \in Request => i = j
  /\ \A i \in DOMAIN wire : \A j \in DOMAIN back : wire[i].type # Of(back[j])
  /\ \A r \in Request : order[r] = "S" <=>
       (\E i \in DOMAIN wire : wire[i].type = r) \/ (\E i \in DOMAIN back : Of(back[i]) = r)

\* A new order and its answer come before anything else.
NewFirst ==
  /\ \A i \in DOMAIN wire : wire[i].type = "new" => i = 1 /\ back = <<>> /\ ~market.live
  /\ \A i \in DOMAIN back : Of(back[i]) = "new" => i = 1

\* To an order that has ended the market has nothing to say; one it was not sent it does not know.
Ended == order.new \in {"X", "C"} => ~market.live /\ \A i \in DOMAIN back : back[i].type \in Rejects
Idle ==
  order.new \in {"U", "Q"} =>
    wire = <<>> /\ back = <<>> /\ ~market.live /\ order.mod # "Q" /\ order.cxl # "Q"

\* What was filled when a message was sent is what the messages before it tell.
Count(i) == IF i <= Len(back) THEN back[i].cum ELSE market.done
Chain == order.cum = Count(1) /\ \A i \in DOMAIN back : Count(i + 1) = Count(i) + Filling(back[i])
Rising == order.cum <= market.done /\ \A i \in DOMAIN back : back[i].cum + Filling(back[i]) <= market.done

\* The quantity of the order once the first n messages have come: its own, or that of a modify.
IsLimit(q, n) ==
  \/ \E i \in DOMAIN back : i <= n /\ back[i].type = "modified" /\ q = back[i].qty
  \/ (\A i \in DOMAIN back : i <= n => back[i].type # "modified") /\ q = order.qty

\* The market fills no more than it, and ends an order only then or with a message that says so.
Bounded ==
  /\ \A i \in DOMAIN back : back[i].type = "fill" => \A q \in Qty : IsLimit(q, i - 1) => back[i].cum < q
  /\ market.live => \A q \in Qty : IsLimit(q, Len(back)) => market.done + market.left = q
  /\ \A i \in DOMAIN wire : wire[i].type = "new" => market.done + wire[i].qty = order.qty
Over ==
  order.new \in {"S", "A"} /\ (\A i \in DOMAIN wire : wire[i].type # "new") /\ ~market.live =>
    \/ \E i \in DOMAIN back : back[i].type \in Finals
    \/ \A q \in Qty : IsLimit(q, Len(back)) => market.done >= q

\* While the order is open a deferred request waits for another.
Open == market.live => Waits(order)

InOrderInv ==
  /\ ~odd /\ Local(order)
  /\ Once /\ NewFirst /\ Ended /\ Idle /\ Chain /\ Rising /\ Bounded /\ Over /\ Open

LEMMA OfType ==
  ASSUME NEW m \in Messages
  PROVE  /\ m.type \in {"ordered", "reject"} <=> Of(m) = "new"
         /\ m.type \in {"modified", "modReject"} <=> Of(m) = "mod"
         /\ m.type \in {"canceled", "cxlReject"} <=> Of(m) = "cxl"
         /\ m.type \in {"fill", "closed"} <=> Of(m) = "none"
         /\ Of(m) \in Request \/ Of(m) = "none"
         /\ Filling(m) \in {0, 1} /\ (m.type = "fill" <=> Filling(m) = 1)
<1>1. m.type \in {"ordered", "reject", "modified", "modReject", "canceled", "cxlReject", "fill", "closed"}
  BY DEF Messages
<1> QED
  BY <1>1 DEF Of, Request, Filling

LEMMA InOrderInit == Init => InOrderInv
<1> SUFFICES ASSUME Init
             PROVE  InOrderInv
  OBVIOUS
<1>1. wire = <<>> /\ back = <<>> /\ DOMAIN wire = {} /\ DOMAIN back = {} /\ Len(back) = 0
  BY DEF Init
<1>2. order.new = "U" /\ order.mod = "U" /\ order.cxl = "U" /\ order.cum = 0 /\ ~market.live /\ market.done = 0 /\ ~odd
  BY DEF Init, Unset
<1>3. \A r \in Request : order[r] # "S"
  BY <1>2 DEF Request
<1>4. Once /\ NewFirst
  BY <1>1, <1>3 DEF Once, NewFirst
<1>5. Ended /\ Idle /\ Over /\ Open /\ Local(order)
  BY <1>1, <1>2 DEF Ended, Idle, Over, Open, Local
<1>6. Chain /\ Rising /\ Bounded
  BY <1>1, <1>2 DEF Chain, Rising, Bounded, Count
<1> QED
  BY <1>2, <1>4, <1>5, <1>6 DEF InOrderInv

\* A step of the application, of which the market knows nothing yet.
LEMMA QuietStep ==
  ASSUME TypeInv, InOrderInv, UNCHANGED <<wire, back, market>>, ~odd', Local(order'), order'.cum = order.cum,
         \A r \in Request : order'[r] = "S" <=> order[r] = "S",
         \/ /\ order'.new = order.new /\ order'.qty = order.qty /\ (Waits(order) => Waits(order'))
            /\ order.new \in {"U", "Q"} => order'.mod = order.mod /\ order'.cxl = order.cxl
         \/ order.new \in {"U", "Q"} /\ order'.new = "Q" /\ order'.mod # "Q" /\ order'.cxl # "Q"
         \/ order.new = "Q" /\ order'.new = "C"
  PROVE  InOrderInv'
<1>1. Once' /\ NewFirst'
  BY DEF InOrderInv, Once, NewFirst
<1>2. Chain' /\ Rising'
  BY DEF InOrderInv, Chain, Count, Rising
<1>3. CASE /\ order'.new = order.new /\ order'.qty = order.qty /\ (Waits(order) => Waits(order'))
           /\ order.new \in {"U", "Q"} => order'.mod = order.mod /\ order'.cxl = order.cxl
  <2>1. Ended' /\ Idle' /\ Open'
    BY <1>3 DEF InOrderInv, Ended, Idle, Open
  <2>2. Bounded' /\ Over'
    BY <1>3 DEF InOrderInv, Bounded, Over, IsLimit
  <2> QED
    BY <1>1, <1>2, <2>1, <2>2 DEF InOrderInv
<1>4. CASE /\ order.new \in {"U", "Q"} /\ order'.new \in {"Q", "C"}
           /\ order'.new = "Q" => order'.mod # "Q" /\ order'.cxl # "Q"
  <2>1. wire' = <<>> /\ back' = <<>> /\ DOMAIN wire' = {} /\ DOMAIN back' = {} /\ ~market'.live
    BY <1>4 DEF InOrderInv, Idle
  <2>2. Ended' /\ Idle' /\ Open' /\ Bounded' /\ Over'
    BY <1>4, <2>1 DEF Ended, Idle, Open, Bounded, Over
  <2> QED
    BY <1>1, <1>2, <2>2 DEF InOrderInv
<1> QED
  BY <1>3, <1>4

LEMMA InOrderClientNew ==
  ASSUME TypeInv, InOrderInv, NEW qty \in 1..MaxQty, ClientNew(qty)
  PROVE  InOrderInv'
<1>1. order = Unset /\ order' = NewOrder(Unset, qty) /\ UNCHANGED <<wire, back, market, odd>>
  BY DEF TypeInv, Before, ClientNew
<1>2. qty \in Nat /\ qty \in Qty /\ 0 \in Qty
  BY BoundsAssumption DEF Qty
<1>3. Unset \in Orders
  BY <1>2 DEF Unset, Orders, EventState
<1>4. Unset.mod = "U" /\ Unset.cxl = "U" /\ Unset.new = "U" /\ Unset.cum = 0 /\ ~Unset.modifyCxl
  BY DEF Unset
<1> DEFINE p == NewOrder(Unset, qty)
<1>5. /\ p.new = "Q" /\ p.mod = "U" /\ p.cxl = "U" /\ p.cum = 0 /\ p.qty = qty /\ p.leaves = qty /\ ~p.modifyCxl
  BY <1>2, <1>3, <1>4 DEF NewOrder, Out, Orders
<1> HIDE DEF p
<1>6. p.leaves = Leaves(p.qty, p.cum)
  BY <1>2, <1>5 DEF Leaves
<1>7. Local(p) /\ \A r \in Request : p[r] = "S" <=> Unset[r] = "S"
  BY <1>4, <1>5, <1>6 DEF Local, Request
<1>8. order' = p /\ ~odd'
  BY <1>1 DEF InOrderInv, p
<1> QED
  BY <1>1, <1>4, <1>5, <1>7, <1>8, QuietStep

LEMMA InOrderClientModify ==
  ASSUME TypeInv, InOrderInv, NEW qty \in 1..MaxQty, ClientModify(qty)
  PROVE  InOrderInv'
<1> DEFINE o == Aborted(order)
           r == IF profile.simulated THEN ModSimulated(o, qty) ELSE Modify(o, qty)
<1>1. /\ Handled(r) /\ order.new # "U" /\ MayModify(o) /\ UNCHANGED <<wire, back, market>>
  BY DEF ClientModify
<1>2. qty \in Qty /\ qty >= 1
  BY BoundsAssumption DEF Qty
<1>3. Good(order) /\ order \in Orders /\ Local(order) /\ (order.new = "Q" => order.cum = 0 \/ order.mod = "D")
  BY <1>1 DEF TypeInv, Started, Good, InOrderInv, Fresh
<1>4. Free(o)
  BY <1>1, <1>3, AbortedFree
<1>5. ~r.odd /\ Asks(o, r.order)
  BY <1>2, <1>4, ModifyInOrder, ModSimulatedInOrder
<1>6. /\ o.cxl = order.cxl /\ o.qty = order.qty /\ o.cum = order.cum
      /\ o.new = (IF order.new = "Q" THEN "T" ELSE order.new)
      /\ o.mod = (IF order.new = "A" /\ order.mod = "Q" THEN "T" ELSE order.mod)
  <2>1. order.new \notin {"X", "C"}
    <3>1. order.new \in {"X", "C"} => Aborted(order) = order
      BY DEF Aborted
    <3> QED
      BY <1>1, <3>1 DEF MayModify
  <2> QED
    BY <1>1, <1>3, <2>1, AbortedInOrder
<1> HIDE DEF o, r
<1>7. order' = r.order /\ ~odd'
  BY <1>1, <1>5 DEF Handled, InOrderInv
<1>8. order'.cum = order.cum
  <2>1. ClientKeeps(o, r.order)
    BY <1>2, <1>4, ModifyKeeps, ModSimulatedKeeps DEF r, Free
  <2>2. order'.cum = o.cum
    BY <1>4, <1>7, <2>1 DEF ClientKeeps, Free
  <2> QED
    BY <1>6, <2>2
<1>9. \A x \in Request : order'[x] = "S" <=> order[x] = "S"
  BY <1>4, <1>5, <1>6, <1>7 DEF Asks, Free, Request
<1>10. CASE order.new = "Q"
  <2>1. order'.new = "Q" /\ order'.mod # "Q" /\ order'.cxl # "Q"
    BY <1>5, <1>6, <1>7, <1>10 DEF Asks
  <2> QED
    BY <1>1, <1>5, <1>7, <1>8, <1>9, <1>10, <2>1, QuietStep DEF Asks
<1>11. CASE order.new # "Q"
  <2>1. order'.new = order.new /\ order'.qty = order.qty /\ Waits(order') /\ order.new \notin {"U", "Q"}
    BY <1>1, <1>3, <1>5, <1>6, <1>7, <1>11 DEF Asks, Local
  <2> QED
    BY <1>1, <1>5, <1>7, <1>8, <1>9, <2>1, QuietStep DEF Asks
<1> QED
  BY <1>10, <1>11

LEMMA InOrderClientCancel ==
  ASSUME TypeInv, InOrderInv, ClientCancel
  PROVE  InOrderInv'
<1>1. order.new \notin {"U", "X", "C"} /\ UNCHANGED <<wire, back, market>>
  BY DEF ClientCancel
<1>2. order \in Orders /\ Local(order) /\ ~odd
  BY <1>1 DEF TypeInv, Started, Good, InOrderInv
<1>3. CASE CancelPending(order)
  <2> DEFINE d == [order EXCEPT !.modifyCxl = FALSE]
  <2>1. Handled(Done(d))
    BY <1>3 DEF ClientCancel
  <2>2. order' = d /\ ~odd'
    BY <1>2, <2>1 DEF Handled, Done
  <2>3. /\ d.new = order.new /\ d.mod = order.mod /\ d.cxl = order.cxl /\ ~d.modifyCxl
        /\ d.qty = order.qty /\ d.cum = order.cum /\ d.leaves = order.leaves
    BY <1>2 DEF Orders
  <2> HIDE DEF d
  <2>4. Local(d) /\ (Waits(order) => Waits(d)) /\ \A x \in Request : d[x] = "S" <=> order[x] = "S"
    BY <1>2, <2>3 DEF Local, Waits, Request
  <2> QED
    BY <1>1, <2>2, <2>3, <2>4, QuietStep
<1>4. CASE ~CancelPending(order)
  <2> DEFINE r == Cancel(Aborted(order))
  <2>1. /\ ~r.odd /\ Local(r.order)
        /\ \A x \in Request : r.order[x] = "S" <=> order[x] = "S"
        /\ IF order.new = "Q" THEN r.order.new = "C"
           ELSE r.order.new = order.new /\ r.order.qty = order.qty /\ Waits(r.order)
    BY <1>1, <1>2, <1>4, CancelInOrder
  <2>2. r.order.cum = order.cum
    <3>1. Aborted(order) \in Orders /\ Aborted(order).cum = order.cum
      BY <1>1, <1>2, AbortedInOrder
    <3> QED
      BY <3>1, CancelKeeps
  <2>3. Handled(r)
    BY <1>4 DEF ClientCancel
  <2> HIDE DEF r
  <2>4. order' = r.order /\ ~odd'
    BY <1>2, <2>1, <2>3 DEF Handled
  <2>5. CASE order.new = "Q"
    BY <1>1, <2>1, <2>2, <2>4, <2>5, QuietStep
  <2>6. CASE order.new # "Q"
    BY <1>1, <2>1, <2>2, <2>4, <2>6, QuietStep
  <2> QED
    BY <2>5, <2>6
<1> QED
  BY <1>3, <1>4

LEMMA InOrderSend ==
  ASSUME TypeInv, InOrderInv, Send
  PROVE  InOrderInv'
<1> DEFINE r == Head(order.out)
           rest == [order EXCEPT !.out = Tail(@)]
           sent == [rest EXCEPT ![r] = "S"]
           w == [type |-> r, qty |-> IF r = "mod" THEN order.modQty ELSE order.leaves]
<1>1. order.new # "U" /\ order.out # <<>>
  BY DEF TypeInv, Before, Send, Unset
<1>2. /\ Good(order) /\ order \in Orders /\ order.out \in Seq(Request) /\ Local(order) /\ ~odd
      /\ order.qty \in Nat /\ order.cum \in Nat /\ order.leaves \in Qty /\ order.modQty \in Qty
  BY <1>1, BoundsAssumption DEF TypeInv, Started, Good, Orders, InOrderInv, Qty
<1>3. r \in Request /\ Tail(order.out) \in Seq(Request)
  BY <1>1, <1>2, HeadTailProperties
<1>4. /\ rest \in Orders /\ \A x \in Request : rest[x] = order[x]
      /\ rest.leaves = order.leaves /\ rest.modifyCxl = order.modifyCxl /\ rest.cum = order.cum /\ rest.qty = order.qty
  BY <1>2, <1>3 DEF Orders, Request
<1> HIDE DEF r, rest
<1>5. /\ sent[r] = "S" /\ \A x \in Request \ {r} : sent[x] = order[x]
      /\ sent.leaves = order.leaves /\ sent.modifyCxl = order.modifyCxl /\ sent.cum = order.cum /\ sent.qty = order.qty
  <2>1. CASE r = "new"
    BY <1>4, <2>1 DEF Orders, Request
  <2>2. CASE r = "mod"
    BY <1>4, <2>2 DEF Orders, Request
  <2>3. CASE r = "cxl"
    BY <1>4, <2>3 DEF Orders, Request
  <2> QED
    BY <1>3, <2>1, <2>2, <2>3 DEF Request
<1>6. w \in Wire /\ w.type = r /\ w.qty = (IF r = "mod" THEN order.modQty ELSE order.leaves)
  BY <1>2, <1>3 DEF Wire
<1>7. /\ UNCHANGED <<back, market>> /\ ~odd'
      /\ \/ order[r] = "Q" /\ order' = sent /\ wire' = Append(wire, w)
         \/ order[r] # "Q" /\ order' = rest /\ wire' = wire
  BY <1>2 DEF Send, r, rest, sent, w
<1> HIDE DEF sent, w
<1>8. CASE order[r] # "Q"
  <2>1. order' = rest /\ UNCHANGED <<wire, back, market>> /\ ~odd'
    BY <1>7, <1>8
  <2>2. rest.new = order.new /\ rest.mod = order.mod /\ rest.cxl = order.cxl
    BY <1>4 DEF Request
  <2>3. Local(rest) /\ (Waits(order) => Waits(rest))
    BY <1>2, <1>4, <2>2 DEF Local, Waits
  <2> QED
    BY <1>4, <2>1, <2>2, <2>3, QuietStep
<1>9. CASE order[r] = "Q"
  <2>1. order' = sent /\ wire' = Append(wire, w)
    BY <1>7, <1>9
  <2>2. wire \in Seq(Wire) /\ wire' \in Seq(Wire) /\ Len(wire) \in Nat
    BY <1>6, <2>1 DEF TypeInv, TypeOK, Wire
  <2>3. DOMAIN wire = 1..Len(wire) /\ DOMAIN wire' = 1..Len(wire) + 1 /\ wire'[Len(wire) + 1] = w
        /\ \A i \in DOMAIN wire : wire'[i] = wire[i]
    BY <1>6, <2>1, <2>2, AppendProperties
  \* It was not on its way, nor its answer.
  <2>4. (\A i \in DOMAIN wire : wire[i].type # r) /\ \A i \in DOMAIN back : Of(back[i]) # r
    BY <1>3, <1>9 DEF InOrderInv, Once
  <2>5. CASE r = "new"
    <3>1. order.new = "Q"
      BY <1>9, <2>5
    <3>2. wire = <<>> /\ back = <<>> /\ ~market.live /\ DOMAIN back = {} /\ Len(wire) = 0
      BY <3>1 DEF InOrderInv, Idle
    <3>3. sent.new = "S" /\ sent.mod = order.mod /\ sent.cxl = order.cxl
      BY <1>5, <2>5 DEF Request
    <3>4. DOMAIN wire' = {1} /\ wire'[1] = w
      BY <2>3, <3>2
    <3>5. Once'
      <4>1. \A x \in Request : sent[x] = "S" <=> x = "new"
        BY <1>3, <1>5, <2>5, <3>2 DEF InOrderInv, Once
      <4> QED
        BY <1>6, <1>7, <2>1, <2>5, <3>2, <3>4, <4>1 DEF Once
    <3>6. NewFirst'
      BY <1>7, <3>2, <3>4 DEF NewFirst
    <3>7. Local(sent)
      BY <1>2, <1>5, <3>1, <3>3 DEF Local, Good
    <3>8. Ended' /\ Idle' /\ Open'
      BY <1>7, <2>1, <3>2, <3>3 DEF Ended, Idle, Open
    <3>9. Chain' /\ Rising'
      BY <1>5, <1>7, <2>1 DEF InOrderInv, Chain, Count, Rising
    <3>10. market.done + order.leaves = order.qty
      <4>1. order.cum = market.done
        BY <3>2 DEF InOrderInv, Chain, Count
      <4>2. order.leaves >= 1 /\ order.leaves = Leaves(order.qty, order.cum)
        BY <1>2, <3>1 DEF Good, Local
      <4> QED
        BY <1>2, <4>1, <4>2 DEF Leaves
    <3>11. Bounded'
      BY <1>5, <1>6, <1>7, <2>1, <2>5, <3>2, <3>4, <3>10 DEF Bounded
    <3>12. Over'
      BY <1>6, <2>5, <3>4 DEF Over
    <3> QED
      BY <1>7, <2>1, <3>5, <3>6, <3>7, <3>8, <3>9, <3>11, <3>12 DEF InOrderInv
  <2>6. CASE r # "new"
    <3>1. /\ sent.new = order.new /\ r \in {"mod", "cxl"}
          /\ IF r = "mod" THEN sent.mod = "S" /\ sent.cxl = order.cxl ELSE sent.cxl = "S" /\ sent.mod = order.mod
      BY <1>3, <1>5, <2>6 DEF Request
    <3>2. Once'
      <4>1. \A i, j \in DOMAIN wire' : wire'[i].type = wire'[j].type => i = j
        BY <1>6, <2>2, <2>3, <2>4 DEF InOrderInv, Once
      <4>2. \A i \in DOMAIN wire' : \A j \in DOMAIN back' : wire'[i].type # Of(back'[j])
        BY <1>6, <1>7, <2>2, <2>3, <2>4 DEF InOrderInv, Once
      <4>3. \A x \in Request : (\E i \in DOMAIN wire' : wire'[i].type = x)
                                 <=> (\E i \in DOMAIN wire : wire[i].type = x) \/ x = r
        BY <1>6, <2>2, <2>3
      <4>4. \A x \in Request : sent[x] = "S" <=> order[x] = "S" \/ x = r
        BY <1>5
      <4>5. \A x \in Request : order[x] = "S" <=>
              (\E i \in DOMAIN wire : wire[i].type = x) \/ (\E i \in DOMAIN back : Of(back[i]) = x)
        BY DEF InOrderInv, Once
      <4>6. \A i, j \in DOMAIN back' : Of(back'[i]) = Of(back'[j]) /\ Of(back'[i]) \in Request => i = j
        BY <1>7 DEF InOrderInv, Once
      <4>7. \A x \in Request : order'[x] = "S" <=>
              (\E i \in DOMAIN wire' : wire'[i].type = x) \/ (\E i \in DOMAIN back' : Of(back'[i]) = x)
        BY <1>7, <2>1, <4>3, <4>4, <4>5
      <4> QED
        BY <4>1, <4>2, <4>6, <4>7 DEF Once
    <3>3. \A i \in DOMAIN wire' : wire'[i].type = "new" => i \in DOMAIN wire /\ wire[i] = wire'[i]
      BY <1>6, <2>2, <2>3, <2>6
    <3>4. NewFirst'
      BY <1>7, <3>3 DEF InOrderInv, NewFirst
    <3>5. order.new \notin {"U", "Q"}
      BY <1>1, <1>9, <2>6, <3>1 DEF InOrderInv, Idle
    <3>6. Local(sent)
      BY <1>2, <1>5, <1>9, <3>1 DEF Local
    <3>7. Ended' /\ Idle' /\ Open'
      BY <1>7, <1>9, <2>1, <3>1, <3>5 DEF InOrderInv, Ended, Idle, Open, Waits
    <3>8. Chain' /\ Rising'
      BY <1>5, <1>7, <2>1 DEF InOrderInv, Chain, Count, Rising
    <3>9. Bounded'
      BY <1>5, <1>7, <2>1, <3>3 DEF InOrderInv, Bounded, IsLimit
    <3>10. (\A i \in DOMAIN wire' : wire'[i].type # "new") => \A i \in DOMAIN wire : wire[i].type # "new"
      BY <2>2, <2>3
    <3>11. Over'
      BY <1>5, <1>7, <2>1, <3>1, <3>10 DEF InOrderInv, Over, IsLimit
    <3> QED
      BY <1>7, <2>1, <3>2, <3>4, <3>6, <3>7, <3>8, <3>9, <3>11 DEF InOrderInv
  <2> QED
    BY <2>5, <2>6
<1> QED
  BY <1>8, <1>9

\* What the market may say next: it answers what was sent first, or tells what it did.
Replies(m) == wire # <<>> /\ wire' = Tail(wire) /\ Of(m) = Head(wire).type
Tells(m) == wire' = wire /\ Of(m) = "none" /\ market.live
Happens(m) ==
  \/ /\ m.type = "ordered" /\ market'.live
     /\ market'.left = Head(wire).qty /\ market'.done = market.done
  \/ m.type = "reject" /\ ~market'.live /\ market'.done = market.done
  \/ /\ m.type = "modified" /\ market.live /\ market'.live
     /\ market'.done = market.done /\ market.done + market'.left = m.qty
  \/ m.type = "modReject" /\ market' = market
  \/ m.type \in {"canceled", "closed"} /\ market.live /\ ~market'.live /\ market'.done = market.done
  \/ m.type = "cxlReject" /\ market' = market
  \/ /\ m.type = "fill" /\ market.live /\ (market'.live <=> market.left > 1)
     /\ market'.left = market.left - 1 /\ market'.done = market.done + 1

LEMMA MarketInOrder ==
  ASSUME TypeInv, InOrderInv, NEW m \in Messages, m.cum = market.done, back' = Append(back, m),
         UNCHANGED <<order, odd>>, Replies(m) \/ Tells(m), Happens(m)
  PROVE  InOrderInv'
<1>0. PICK n \in Nat : n = Len(back)
  BY DEF TypeInv, TypeOK
<1>1. /\ n = Len(back) /\ wire \in Seq(Wire) /\ back \in Seq(Messages) /\ Len(wire) \in Nat /\ n \in Nat
      /\ market.done \in Nat /\ market.left \in Nat /\ Qty \subseteq Nat
  BY <1>0, BoundsAssumption DEF TypeInv, TypeOK, Wire, Qty
<1>2. /\ DOMAIN back = 1..n /\ DOMAIN back' = 1..n + 1 /\ Len(back') = n + 1
      /\ back'[n + 1] = m /\ \A i \in 1..n : back'[i] = back[i]
  BY <1>1, AppendProperties
<1>3. Replies(m) => /\ Len(wire) >= 1 /\ 1 \in DOMAIN wire /\ Of(m) = wire[1].type /\ Head(wire) = wire[1] /\ Of(m) \in Request
                    /\ DOMAIN wire = 1..Len(wire) /\ DOMAIN wire' = 1..Len(wire) - 1
                    /\ \A i \in 1..Len(wire) - 1 : wire'[i] = wire[i + 1]
  <2> SUFFICES ASSUME Replies(m)
               PROVE  /\ Len(wire) >= 1 /\ 1 \in DOMAIN wire /\ Of(m) = wire[1].type /\ Head(wire) = wire[1] /\ Of(m) \in Request
                      /\ DOMAIN wire = 1..Len(wire) /\ DOMAIN wire' = 1..Len(wire) - 1
                      /\ \A i \in 1..Len(wire) - 1 : wire'[i] = wire[i + 1]
    OBVIOUS
  <2>1. /\ Tail(wire) \in Seq(Wire) /\ Len(Tail(wire)) = Len(wire) - 1
        /\ \A i \in 1..Len(Tail(wire)) : Tail(wire)[i] = wire[i + 1]
        /\ Head(wire) \in Wire /\ Head(wire) = wire[1]
    BY <1>1, HeadTailProperties DEF Replies
  <2>2. Len(wire) >= 1
    BY <1>1, EmptySeq DEF Replies
  <2>3. DOMAIN wire = 1..Len(wire) /\ 1 \in DOMAIN wire /\ DOMAIN Tail(wire) = 1..Len(wire) - 1
    BY <1>1, <2>1, <2>2
  <2>4. Head(wire).type \in Request
    BY <2>1 DEF Wire
  <2> QED
    BY <2>1, <2>2, <2>3, <2>4 DEF Replies
<1>4. /\ m.type \in {"ordered", "reject"} <=> Of(m) = "new"
      /\ m.type \in {"modified", "modReject"} <=> Of(m) = "mod"
      /\ m.type \in {"canceled", "cxlReject"} <=> Of(m) = "cxl"
      /\ m.type \in {"fill", "closed"} <=> Of(m) = "none"
      /\ Filling(m) \in {0, 1} /\ (m.type = "fill" <=> Filling(m) = 1)
  BY OfType
\* What is on its way now was then, and after the request that is answered.
<1>5. \A i \in DOMAIN wire' : \E j \in DOMAIN wire : wire'[i] = wire[j] /\ (Replies(m) => j = i + 1) /\ (~Replies(m) => j = i)
  <2>1. CASE Replies(m)
    <3>1. \A i \in DOMAIN wire' : i + 1 \in DOMAIN wire /\ wire'[i] = wire[i + 1]
      BY <1>1, <1>3, <2>1
    <3> QED
      BY <2>1, <3>1
  <2>2. CASE ~Replies(m)
    BY <2>2 DEF Tells
  <2> QED
    BY <2>1, <2>2
<1>6. \A i \in DOMAIN wire : (\E j \in DOMAIN wire' : wire'[j] = wire[i]) \/ (Replies(m) /\ i = 1)
  <2>1. CASE Replies(m)
    <3>1. \A i \in DOMAIN wire : i # 1 => i - 1 \in DOMAIN wire' /\ wire'[i - 1] = wire[(i - 1) + 1] /\ (i - 1) + 1 = i
      BY <1>1, <1>3, <2>1
    <3> QED
      BY <2>1, <3>1
  <2>2. CASE ~Replies(m)
    BY <2>2 DEF Tells
  <2> QED
    BY <2>1, <2>2
<1>7. Replies(m) => /\ \A j \in DOMAIN back : Of(back[j]) # Of(m)
                    /\ \A i \in DOMAIN wire' : wire'[i].type # Of(m)
  <2> SUFFICES ASSUME Replies(m)
               PROVE  /\ \A j \in DOMAIN back : Of(back[j]) # Of(m)
                      /\ \A i \in DOMAIN wire' : wire'[i].type # Of(m)
    OBVIOUS
  <2>1. \A j \in DOMAIN back : Of(back[j]) # Of(m)
    BY <1>3 DEF InOrderInv, Once
  <2>2. \A i \in DOMAIN wire' : i + 1 \in DOMAIN wire /\ i + 1 # 1 /\ wire'[i] = wire[i + 1]
    BY <1>1, <1>3
  <2>3. \A i \in DOMAIN wire : wire[i].type = wire[1].type => i = 1
    BY <1>3 DEF InOrderInv, Once
  <2> QED
    BY <1>3, <2>1, <2>2, <2>3
<1>8. Once'
  <2>1. \A i, j \in DOMAIN wire' : wire'[i].type = wire'[j].type => i = j
    <3>1. CASE Replies(m)
      <4>1. \A i \in DOMAIN wire' : i \in Nat /\ i + 1 \in DOMAIN wire /\ wire'[i] = wire[i + 1]
        BY <1>1, <1>3, <3>1
      <4>2. \A i, j \in DOMAIN wire' : i + 1 = j + 1 => i = j
        BY <4>1
      <4>3. \A i, j \in DOMAIN wire : wire[i].type = wire[j].type => i = j
        BY DEF InOrderInv, Once
      <4> QED
        BY <4>1, <4>2, <4>3
    <3>2. CASE Tells(m)
      BY <3>2 DEF Tells, InOrderInv, Once
    <3> QED
      BY <3>1, <3>2
  <2>2. \A i, j \in DOMAIN back' : Of(back'[i]) = Of(back'[j]) /\ Of(back'[i]) \in Request => i = j
    <3>1. \A i \in 1..n : Of(back[i]) # Of(m) \/ Of(m) = "none"
      BY <1>2, <1>7 DEF Tells
    <3>2. "none" \notin Request
      BY DEF Request
    <3>3. \A i, j \in 1..n : Of(back[i]) = Of(back[j]) /\ Of(back[i]) \in Request => i = j
      BY <1>2 DEF InOrderInv, Once
    <3> QED
      BY <1>1, <1>2, <3>1, <3>2, <3>3
  <2>3. \A i \in DOMAIN wire' : \A j \in DOMAIN back' : wire'[i].type # Of(back'[j])
    <3>1. \A i \in DOMAIN wire : \A j \in 1..n : wire[i].type # Of(back[j])
      BY <1>2 DEF InOrderInv, Once
    <3>2. \A i \in DOMAIN wire' : wire'[i].type # Of(m)
      <4>1. CASE Replies(m)
        BY <1>7, <4>1
      <4>2. CASE Tells(m)
        <5>1. \A i \in DOMAIN wire : wire[i].type \in Request
          <6>1. \A i \in DOMAIN wire : wire[i] \in Wire
            BY <1>1
          <6> QED
            BY <6>1 DEF Wire
        <5> QED
          BY <4>2, <5>1 DEF Tells, Request
      <4> QED
        BY <4>1, <4>2
    <3> QED
      BY <1>1, <1>2, <1>5, <3>1, <3>2
  <2>4. ASSUME NEW x \in Request
        PROVE  order'[x] = "S" <=> (\E i \in DOMAIN wire' : wire'[i].type = x) \/ (\E i \in DOMAIN back' : Of(back'[i]) = x)
    <3>1. order[x] = "S" <=> (\E i \in DOMAIN wire : wire[i].type = x) \/ (\E i \in DOMAIN back : Of(back[i]) = x)
      BY DEF InOrderInv, Once
    <3>2. (\E i \in DOMAIN back' : Of(back'[i]) = x) <=> (\E i \in DOMAIN back : Of(back[i]) = x) \/ Of(m) = x
      BY <1>1, <1>2
    <3>3. Of(m) = x => Replies(m) /\ wire[1].type = x /\ 1 \in DOMAIN wire
      BY <1>3 DEF Tells, Request
    <3>4. (\E i \in DOMAIN wire' : wire'[i].type = x) => \E i \in DOMAIN wire : wire[i].type = x
      BY <1>5
    <3>5. (\E i \in DOMAIN wire : wire[i].type = x) => (\E i \in DOMAIN wire' : wire'[i].type = x) \/ Of(m) = x
      BY <1>3, <1>6
    <3> QED
      BY <3>1, <3>2, <3>3, <3>4, <3>5
  <2> QED
    BY <2>1, <2>2, <2>3, <2>4 DEF Once
<1>9. (\A i \in DOMAIN wire' : wire'[i].type # "new") /\ (Of(m) = "new" => n = 0 /\ order.new = "S" /\ ~market.live)
  <2>1. \A i \in DOMAIN wire : wire[i].type = "new" => i = 1 /\ back = <<>> /\ ~market.live
    BY DEF InOrderInv, NewFirst
  <2>2. CASE Replies(m)
    <3>1. \A i \in DOMAIN wire' : i + 1 \in DOMAIN wire /\ i + 1 # 1 /\ wire'[i] = wire[i + 1]
      BY <1>1, <1>3, <2>2
    <3>2. Of(m) = "new" => order["new"] = "S"
      BY <1>3, <2>2 DEF InOrderInv, Once
    <3>3. Of(m) = "new" => back = <<>> /\ ~market.live
      BY <1>3, <2>1, <2>2
    <3> QED
      BY <1>1, <2>1, <3>1, <3>2, <3>3
  <2>3. CASE Tells(m)
    BY <2>1, <2>3 DEF Tells
  <2> QED
    BY <2>2, <2>3
<1>10. NewFirst'
  BY <1>1, <1>2, <1>9 DEF InOrderInv, NewFirst
<1>11. order.new \notin {"U", "Q"}
  BY DEF InOrderInv, Idle, Replies, Tells
<1>12. Ended' /\ Idle'
  <2>1. Idle'
    BY <1>11 DEF Idle
  <2>2. order.new \in {"X", "C"} => ~market.live /\ \A i \in DOMAIN back : back[i].type \in Rejects
    BY DEF InOrderInv, Ended
  <2>3. order.new \in {"X", "C"} => m.type \in Rejects /\ market' = market
    BY <1>4, <1>9, <2>2 DEF Happens, Rejects
  <2>4. Ended'
    BY <1>1, <1>2, <2>2, <2>3 DEF Ended
  <2> QED
    BY <2>1, <2>4
<1>13. Chain'
  <2>1. market'.done = market.done + Filling(m)
    BY <1>1, <1>4 DEF Happens
  <2>2. \A i \in 1..n + 1 : Count(i)' = Count(i)
    BY <1>1, <1>2 DEF Count
  <2>3. Count(n + 1) = m.cum /\ Count(n + 2)' = market'.done
    BY <1>1, <1>2 DEF Count
  <2>4. order.cum = Count(1) /\ \A i \in 1..n : Count(i + 1) = Count(i) + Filling(back[i])
    BY <1>2 DEF InOrderInv, Chain
  <2>5. \A i \in 1..n : Count(i + 1)' = Count(i)' + Filling(back'[i])
    <3>1. \A i \in 1..n : i \in 1..n + 1 /\ i + 1 \in 1..n + 1
      BY <1>1
    <3> QED
      BY <1>2, <2>2, <2>4, <3>1
  <2>6. Count(n + 1 + 1)' = Count(n + 1)' + Filling(back'[n + 1])
    <3>1. n + 1 \in 1..n + 1 /\ n + 1 + 1 = n + 2
      BY <1>1
    <3> QED
      BY <1>2, <2>1, <2>2, <2>3, <3>1
  <2>7. \A i \in 1..n + 1 : Count(i + 1)' = Count(i)' + Filling(back'[i])
    <3>1. \A i \in 1..n + 1 : i \in 1..n \/ i = n + 1
      BY <1>1
    <3> QED
      BY <2>5, <2>6, <3>1
  <2>8. Count(1)' = order'.cum
    BY <1>1, <2>2, <2>4
  <2> QED
    BY <1>2, <2>7, <2>8 DEF Chain
<1>14. \A q, k : k \in 0..n => (IsLimit(q, k)' <=> IsLimit(q, k))
  BY <1>1, <1>2 DEF IsLimit
<1>15. \A q : m.type # "modified" => (IsLimit(q, n + 1)' <=> IsLimit(q, n))
  BY <1>1, <1>2 DEF IsLimit
<1>16. \A q : m.type = "modified" /\ IsLimit(q, n + 1)' => q = m.qty
  <2> SUFFICES ASSUME NEW q, m.type = "modified", IsLimit(q, n + 1)'
               PROVE  q = m.qty
    OBVIOUS
  <2>1. Replies(m) /\ Of(m) = "mod"
    BY <1>4 DEF Tells
  <2>2. \A i \in 1..n : back'[i].type # "modified"
    <3>1. \A i \in 1..n : back[i] \in Messages /\ Of(back[i]) # "mod"
      BY <1>1, <1>2, <1>7, <2>1
    <3> QED
      BY <1>2, <3>1, OfType
  <2> QED
    BY <1>1, <1>2, <2>2 DEF IsLimit
<1>17. Bounded'
  <2>1. \A i \in DOMAIN back' : back'[i].type = "fill" => \A q \in Qty : IsLimit(q, i - 1)' => back'[i].cum < q
    <3>1. \A i \in 1..n : back[i].type = "fill" => \A q \in Qty : IsLimit(q, i - 1) => back[i].cum < q
      BY <1>2 DEF InOrderInv, Bounded
    <3>2. \A i \in 1..n : i - 1 \in 0..n
      BY <1>1
    <3>3. \A i \in 1..n : back'[i].type = "fill" => \A q \in Qty : IsLimit(q, i - 1)' => back'[i].cum < q
      BY <1>2, <1>14, <3>1, <3>2
    <3>4. m.type = "fill" => \A q \in Qty : IsLimit(q, n)' => m.cum < q
      <4> SUFFICES ASSUME m.type = "fill", NEW q \in Qty, IsLimit(q, n)'
                   PROVE  m.cum < q
        OBVIOUS
      <4>1. market.live /\ market.left >= 1
        BY DEF Happens, TypeInv
      <4>2. IsLimit(q, n)
        BY <1>1, <1>14
      <4>3. market.done + market.left = q
        BY <1>1, <4>1, <4>2 DEF InOrderInv, Bounded
      <4> QED
        BY <1>1, <4>1, <4>3
    <3>5. (n + 1) - 1 = n /\ \A i \in 1..n + 1 : i \in 1..n \/ i = n + 1
      BY <1>1
    <3> QED
      BY <1>2, <3>3, <3>4, <3>5
  <2>2. market.live => \A q \in Qty : IsLimit(q, n) => market.done + market.left = q
    BY <1>1 DEF InOrderInv, Bounded
  <2>3. ASSUME market'.live, NEW q \in Qty, IsLimit(q, n + 1)'
        PROVE  market'.done + market'.left = q
    <3>1. CASE m.type = "ordered"
      <4>1. Replies(m) /\ n = 0 /\ wire[1].type = "new"
        BY <1>3, <1>4, <1>9, <3>1 DEF Tells
      <4>2. market.done + wire[1].qty = order.qty /\ Head(wire) = wire[1]
        BY <1>3, <4>1 DEF InOrderInv, Bounded
      <4>3. IsLimit(q, n)
        BY <1>15, <2>3, <3>1
      <4>4. q = order.qty
        BY <1>2, <4>1, <4>3 DEF IsLimit
      <4>5. market'.done = market.done /\ market'.left = wire[1].qty
        BY <3>1, <4>2 DEF Happens
      <4> QED
        BY <4>2, <4>4, <4>5
    <3>2. CASE m.type = "modified"
      <4>1. q = m.qty
        BY <1>16, <2>3, <3>2
      <4> QED
        BY <3>2, <4>1 DEF Happens
    <3>3. CASE m.type \in {"modReject", "cxlReject"}
      <4>1. market' = market /\ IsLimit(q, n)
        BY <1>15, <2>3, <3>3 DEF Happens
      <4> QED
        BY <2>2, <2>3, <4>1
    <3>4. CASE m.type = "fill"
      <4>1. market.live /\ IsLimit(q, n) /\ market'.left = market.left - 1 /\ market'.done = market.done + 1
        BY <1>15, <2>3, <3>4 DEF Happens
      <4>2. market.done + market.left = q
        BY <2>2, <4>1
      <4> QED
        BY <1>1, <4>1, <4>2
    <3> QED
      BY <2>3, <3>1, <3>2, <3>3, <3>4 DEF Happens
  <2> QED
    BY <1>2, <1>9, <2>1, <2>3 DEF Bounded
<1>18. Over'
  <2> SUFFICES ASSUME order.new \in {"S", "A"}, ~market'.live
               PROVE  \/ \E i \in DOMAIN back' : back'[i].type \in Finals
                      \/ \A q \in Qty : IsLimit(q, n + 1)' => market'.done >= q
    BY <1>2 DEF Over
  <2>1. CASE m.type \in Finals
    BY <1>1, <1>2, <2>1
  <2>2. CASE m.type \in {"modReject", "cxlReject"}
    <3>1. market' = market /\ Replies(m) /\ Of(m) # "new"
      BY <1>4, <2>2 DEF Happens, Tells
    <3>2. \A i \in DOMAIN wire : wire[i].type # "new"
      BY <1>3, <1>6, <1>9, <3>1
    <3>3. \/ \E i \in DOMAIN back : back[i].type \in Finals
          \/ \A q \in Qty : IsLimit(q, n) => market.done >= q
      BY <1>1, <3>1, <3>2 DEF InOrderInv, Over
    <3> QED
      BY <1>1, <1>2, <1>15, <2>2, <3>1, <3>3
  <2>3. CASE m.type = "fill"
    <3>1. market.live /\ market'.done = market.done + 1 /\ market.left = 1
      <4>1. market.live /\ ~(market.left > 1) /\ market'.done = market.done + 1
        BY <2>3 DEF Happens
      <4>2. market.left >= 1
        BY <4>1 DEF TypeInv
      <4> QED
        BY <1>1, <4>1, <4>2
    <3>2. \A q \in Qty : IsLimit(q, n) => market.done + market.left = q
      BY <1>1, <3>1 DEF InOrderInv, Bounded
    <3>3. \A q \in Qty : IsLimit(q, n) => market'.done >= q
      BY <1>1, <3>1, <3>2
    <3> QED
      BY <1>15, <2>3, <3>3
  <2> QED
    BY <2>1, <2>2, <2>3 DEF Happens, Finals
<1>19. Open'
  <2> SUFFICES ASSUME market'.live
               PROVE  Waits(order)
    BY <1>2 DEF Open, Waits
  <2>1. CASE market.live
    BY <2>1 DEF InOrderInv, Open
  <2>2. CASE ~market.live
    <3>1. m.type = "ordered"
      BY <2>2 DEF Happens
    <3>2. n = 0 /\ order.new = "S"
      BY <1>4, <1>9, <3>1
    <3> QED
      BY <1>2, <3>1, <3>2 DEF Waits
  <2> QED
    BY <2>1, <2>2
<1>20. Rising'
  <2>1. market'.done = market.done + Filling(m)
    BY <1>1, <1>4 DEF Happens
  <2>2. \A i \in 1..n : back[i].cum \in Nat /\ Filling(back[i]) \in {0, 1} /\ back[i].cum + Filling(back[i]) <= market.done
    <3>1. \A i \in 1..n : back[i] \in Messages
      BY <1>1
    <3>2. \A i \in 1..n : back[i].cum \in Nat /\ Filling(back[i]) \in {0, 1}
      BY <3>1, OfType DEF Messages
    <3> QED
      BY <1>2, <3>2 DEF InOrderInv, Rising
  <2>3. order.cum \in Nat /\ order.cum <= market.done
    BY DEF InOrderInv, Rising, TypeInv, TypeOK, Orders
  <2>4. \A i \in 1..n : back[i].cum + Filling(back[i]) <= market'.done
    <3> SUFFICES ASSUME NEW i \in 1..n
                 PROVE  back[i].cum + Filling(back[i]) <= market'.done
      OBVIOUS
    <3> DEFINE a == back[i].cum
               b == Filling(back[i])
    <3>1. a \in Nat /\ b \in {0, 1} /\ a + b <= market.done
      BY <2>2
    <3> HIDE DEF a, b
    <3>2. a + b <= market'.done
      BY <1>1, <1>4, <2>1, <3>1
    <3> QED
      BY <3>2 DEF a, b
  <2>5. \A i \in 1..n + 1 : back'[i].cum + Filling(back'[i]) <= market'.done
    <3>1. m.cum + Filling(m) <= market'.done
      BY <1>1, <1>4, <2>1
    <3>2. \A i \in 1..n + 1 : i \in 1..n \/ i = n + 1
      BY <1>1
    <3> QED
      BY <1>2, <2>4, <3>1, <3>2
  <2>6. order.cum <= market'.done
    BY <1>1, <1>4, <2>1, <2>3
  <2> QED
    BY <1>2, <2>5, <2>6 DEF Rising
<1>21. ~odd' /\ Local(order')
  BY DEF InOrderInv
<1> QED
  BY <1>8, <1>10, <1>12, <1>13, <1>17, <1>18, <1>19, <1>20, <1>21 DEF InOrderInv

LEMMA InOrderAnswer ==
  ASSUME TypeInv, InOrderInv, Answer
  PROVE  InOrderInv'
<1> DEFINE m == Head(wire)
           M(type, qty) == [type |-> type, qty |-> qty, cum |-> market.done]
           ended == [market EXCEPT !.live = FALSE, !.left = 0]
           opened == [market EXCEPT !.live = TRUE, !.left = m.qty]
           restated == [market EXCEPT !.left = m.qty - market.done]
<1>1. wire \in Seq(Wire) /\ wire # <<>> /\ m \in Wire
  <2>1. wire \in Seq(Wire) /\ wire # <<>>
    BY DEF TypeInv, TypeOK, Wire, Answer
  <2> QED
    BY <2>1, HeadTailProperties
<1> HIDE DEF m
<1>2. m.type \in Request /\ m.qty \in Qty /\ m.qty \in Nat /\ 0 \in Qty
  BY <1>1, BoundsAssumption DEF Wire, Qty
<1>3. market \in [live : BOOLEAN, left : Qty, done : Nat] /\ market.done \in Nat /\ market.live \in BOOLEAN
  BY DEF TypeInv, TypeOK
<1>4. /\ wire' = Tail(wire) /\ UNCHANGED <<order, odd>>
      /\ \/ m.type = "new" /\ Says("ordered", 0) /\ market' = opened
         \/ m.type = "new" /\ Says("reject", 0) /\ market' = ended
         \/ m.type = "mod" /\ market.live /\ m.qty > market.done /\ Says("modified", m.qty) /\ market' = restated
         \/ m.type = "mod" /\ Says("modReject", 0) /\ market' = market
         \/ m.type = "cxl" /\ market.live /\ Says("canceled", 0) /\ market' = ended
         \/ m.type = "cxl" /\ Says("cxlReject", 0) /\ market' = market
  BY DEF Answer, Ends, m, ended, opened, restated
<1>5. ASSUME NEW type \in {"ordered", "reject", "modified", "modReject", "canceled", "cxlReject"}, NEW qty \in Qty,
             Says(type, qty),
             type \in {"ordered", "reject"} => m.type = "new",
             type \in {"modified", "modReject"} => m.type = "mod",
             type \in {"canceled", "cxlReject"} => m.type = "cxl",
             Happens(M(type, qty))
      PROVE  InOrderInv'
  <2> DEFINE x == M(type, qty)
  <2>1. x \in Messages
    BY <1>3, <1>5 DEF Messages
  <2>2. x.type = type /\ x.cum = market.done /\ back' = Append(back, x)
    BY <1>5 DEF Says
  <2>3. Happens(x)
    BY <1>5
  <2> HIDE DEF x
  <2>4. Of(x) = m.type
    BY <1>5, <2>1, <2>2, OfType
  <2>5. Replies(x)
    BY <1>1, <1>4, <2>4 DEF Replies, m
  <2> QED
    BY <1>4, <2>1, <2>2, <2>3, <2>5, MarketInOrder
<1>6. \A type, qty : M(type, qty).type = type /\ M(type, qty).qty = qty
  OBVIOUS
<1>7. ~ended.live /\ ended.done = market.done /\ opened.live /\ opened.left = m.qty /\ opened.done = market.done
  BY <1>3
<1>8. restated.live = market.live /\ restated.done = market.done /\ restated.left = m.qty - market.done
  BY <1>3
<1> HIDE DEF M, ended, opened, restated
<1>9. CASE m.type = "new" /\ Says("ordered", 0) /\ market' = opened
  <2>1. Happens(M("ordered", 0))
    BY <1>6, <1>7, <1>9 DEF Happens, m
  <2> QED
    BY <1>2, <1>5, <1>9, <2>1
<1>10. CASE m.type = "new" /\ Says("reject", 0) /\ market' = ended
  <2>1. Happens(M("reject", 0))
    BY <1>6, <1>7, <1>10 DEF Happens
  <2> QED
    BY <1>2, <1>5, <1>10, <2>1
<1>11. CASE m.type = "mod" /\ market.live /\ Says("modified", m.qty) /\ market' = restated
  <2>1. market.done + (m.qty - market.done) = m.qty
    BY <1>2, <1>3
  <2>2. market.live /\ market'.live
    BY <1>8, <1>11, Zenon
  <2>3. market'.done = market.done /\ market.done + market'.left = m.qty
    BY <1>8, <1>11, <2>1
  <2>4. Happens(M("modified", m.qty))
    BY <1>6, <2>2, <2>3 DEF Happens
  <2> QED
    BY <1>2, <1>5, <1>11, <2>4
<1>12. CASE m.type = "mod" /\ Says("modReject", 0) /\ market' = market
  <2>1. Happens(M("modReject", 0))
    BY <1>6, <1>12 DEF Happens
  <2> QED
    BY <1>2, <1>5, <1>12, <2>1
<1>13. CASE m.type = "cxl" /\ market.live /\ Says("canceled", 0) /\ market' = ended
  <2>1. Happens(M("canceled", 0))
    BY <1>6, <1>7, <1>13 DEF Happens
  <2> QED
    BY <1>2, <1>5, <1>13, <2>1
<1>14. CASE m.type = "cxl" /\ Says("cxlReject", 0) /\ market' = market
  <2>1. Happens(M("cxlReject", 0))
    BY <1>6, <1>14 DEF Happens
  <2> QED
    BY <1>2, <1>5, <1>14, <2>1
<1> QED
  BY <1>4, <1>9, <1>10, <1>11, <1>12, <1>13, <1>14

LEMMA InOrderTrade ==
  ASSUME TypeInv, InOrderInv, Trade
  PROVE  InOrderInv'
<1> DEFINE x == [type |-> "fill", qty |-> 1, cum |-> market.done]
<1>1. market.left \in Qty /\ market.done \in Nat /\ market.left >= 1 /\ 1 \in Qty
  <2>1. market.left \in Qty /\ market.done \in Nat /\ market.left >= 1
    BY DEF TypeInv, TypeOK, Trade
  <2> QED
    BY <2>1, BoundsAssumption DEF Qty
<1>2. /\ market.live /\ back' = Append(back, x) /\ UNCHANGED <<order, wire, odd>>
      /\ market' = [live |-> market.left > 1, left |-> market.left - 1, done |-> market.done + 1]
  BY DEF Trade, Says
<1>3. x \in Messages /\ x.type = "fill" /\ x.cum = market.done
  BY <1>1 DEF Messages
<1> HIDE DEF x
<1>4. Happens(x)
  <2>1. market'.live = (market.left > 1) /\ market'.left = market.left - 1 /\ market'.done = market.done + 1
    BY <1>2
  <2> QED
    BY <1>2, <1>3, <2>1 DEF Happens
<1>5. Tells(x)
  BY <1>2, <1>3, OfType DEF Tells
<1> QED
  BY <1>2, <1>3, <1>4, <1>5, MarketInOrder

LEMMA InOrderUnasked ==
  ASSUME TypeInv, InOrder, InOrderInv, Unasked
  PROVE  InOrderInv'
<1> DEFINE x == [type |-> "closed", qty |-> 0, cum |-> market.done]
           ended == [market EXCEPT !.live = FALSE, !.left = 0]
<1>1. market.done \in Nat /\ market \in [live : BOOLEAN, left : Qty, done : Nat] /\ 0 \in Qty
  BY BoundsAssumption DEF TypeInv, TypeOK, Qty
<1>2. market.live /\ back' = Append(back, x) /\ UNCHANGED <<order, wire, odd>> /\ market' = ended
  BY DEF Unasked, InOrder, Says, Ends
<1>3. x \in Messages /\ x.type = "closed" /\ x.cum = market.done
  BY <1>1 DEF Messages
<1>4. ~ended.live /\ ended.done = market.done
  BY <1>1
<1> HIDE DEF x, ended
<1>5. Happens(x) /\ Tells(x)
  BY <1>2, <1>3, <1>4, OfType DEF Happens, Tells
<1> QED
  BY <1>2, <1>3, <1>5, MarketInOrder

\* The message that comes next.
LEMMA NextMessage ==
  ASSUME TypeInv, InOrderInv, back # <<>>
  PROVE  /\ 1 \in DOMAIN back /\ back[1] \in Messages /\ back[1].cum = order.cum
         /\ order \in Orders /\ order.new \in {"S", "A", "X", "C"}
         /\ Of(back[1]) \in Request => order[Of(back[1])] = "S"
         /\ order.new = "S" <=> Of(back[1]) = "new"
         /\ order.new \in {"X", "C"} => back[1].type \in Rejects
         /\ \A i \in DOMAIN back : i # 1 => Of(back[i]) # Of(back[1]) \/ Of(back[1]) = "none"
<1>1. back \in Seq(Messages) /\ order \in Orders
  BY DEF TypeInv, TypeOK
<1>2. Len(back) \in Nat /\ Len(back) # 0 /\ 1 \in DOMAIN back /\ back[1] \in Messages
  <2>1. Len(back) \in Nat /\ Len(back) # 0
    BY <1>1, EmptySeq
  <2>2. 1 \in DOMAIN back
    BY <1>1, <2>1
  <2> QED
    BY <1>1, <2>1, <2>2
<1>3. back[1].cum = order.cum
  BY <1>2 DEF InOrderInv, Chain, Count
<1>4. order.new \in {"S", "A", "X", "C"}
  BY DEF InOrderInv, Local, Idle
<1>5. Of(back[1]) \in Request => order[Of(back[1])] = "S"
  BY <1>2 DEF InOrderInv, Once
<1>6. order.new = "S" => Of(back[1]) = "new"
  <2> SUFFICES ASSUME order.new = "S"
               PROVE  Of(back[1]) = "new"
    OBVIOUS
  <2>1. (\E i \in DOMAIN wire : wire[i].type = "new") \/ (\E i \in DOMAIN back : Of(back[i]) = "new")
    BY DEF InOrderInv, Once, Request
  <2>2. \E i \in DOMAIN back : Of(back[i]) = "new"
    BY <2>1 DEF InOrderInv, NewFirst
  <2> QED
    BY <2>2 DEF InOrderInv, NewFirst
<1>7. Of(back[1]) = "new" => order.new = "S"
  BY <1>5 DEF Request
<1>8. order.new \in {"X", "C"} => back[1].type \in Rejects
  BY <1>2 DEF InOrderInv, Ended
<1>9. \A i \in DOMAIN back : i # 1 => Of(back[i]) # Of(back[1]) \/ Of(back[1]) = "none"
  <2>1. Of(back[1]) \in Request \/ Of(back[1]) = "none"
    BY <1>2, OfType
  <2> QED
    BY <1>2, <2>1 DEF InOrderInv, Once
<1> QED
  BY <1>1, <1>2, <1>3, <1>4, <1>5, <1>6, <1>7, <1>8, <1>9

\* An open order is not filled, unless a modify on its way back has changed that.
LEMMA OpenUnfilled ==
  ASSUME TypeInv, InOrderInv, market.live, \A i \in DOMAIN back : back[i].type # "modified"
  PROVE  ~Filled(order)
<1>1. /\ order.qty \in Qty /\ Qty \subseteq Nat /\ order.cum \in Nat /\ market.done \in Nat /\ market.left \in Qty
      /\ market.left >= 1
  BY BoundsAssumption DEF TypeInv, TypeOK, Orders, Qty
<1>2. IsLimit(order.qty, Len(back))
  BY DEF IsLimit
<1>3. market.done + market.left = order.qty
  BY <1>1, <1>2 DEF InOrderInv, Bounded
<1>4. order.cum <= market.done
  BY DEF InOrderInv, Rising
<1>5. order.qty \in Nat /\ market.left \in Nat
  BY <1>1
<1>6. ~(order.cum >= order.qty)
  BY <1>1, <1>3, <1>4, <1>5
<1> QED
  BY <1>6 DEF Filled

\* What a handler does with it.
LEMMA HandlerInOrder ==
  ASSUME TypeInv, InOrderInv, back # <<>>
  PROVE  LET m == back[1]
             r == Handler(m, FALSE)
             p == r.order
         IN /\ ~r.odd /\ Local(p)
            /\ \A x \in Request : p[x] = "S" <=> order[x] = "S" /\ x # Of(m)
            /\ m.type \notin Finals =>
                 /\ p.new = (IF m.type = "ordered" THEN "A" ELSE order.new)
                 /\ p.qty = (IF m.type = "modified" THEN m.qty ELSE order.qty)
                 /\ market.live => Waits(p)
            /\ m.type \in Finals =>
                 \/ p.new \in {"X", "C"}
                 \/ /\ m.type = "canceled" /\ order.mod = "D" /\ order.new = "A" /\ p.mod = "D" /\ p.cxl = "A"
                    /\ p.new = "Q" \/ (p.new = "A" /\ Filled(p))
<1> DEFINE m == back[1]
           r == Handler(m, FALSE)
           Good2(s) ==
             LET p == s.order
             IN /\ ~s.odd /\ Local(p)
                /\ \A x \in Request : p[x] = "S" <=> order[x] = "S" /\ x # Of(m)
                /\ m.type \notin Finals =>
                     /\ p.new = (IF m.type = "ordered" THEN "A" ELSE order.new)
                     /\ p.qty = (IF m.type = "modified" THEN m.qty ELSE order.qty)
                     /\ market.live => Waits(p)
                /\ m.type \in Finals =>
                     \/ p.new \in {"X", "C"}
                     \/ /\ m.type = "canceled" /\ order.mod = "D" /\ order.new = "A" /\ p.mod = "D" /\ p.cxl = "A"
                        /\ p.new = "Q" \/ (p.new = "A" /\ Filled(p))
<1>1. /\ 1 \in DOMAIN back /\ m \in Messages /\ m.cum = order.cum
      /\ order \in Orders /\ order.new \in {"S", "A", "X", "C"}
      /\ Of(m) \in Request => order[Of(m)] = "S"
      /\ order.new = "S" <=> Of(m) = "new"
      /\ order.new \in {"X", "C"} => m.type \in Rejects
      /\ \A i \in DOMAIN back : i # 1 => Of(back[i]) # Of(m) \/ Of(m) = "none"
  BY NextMessage
<1>2. Local(order) /\ Uncounted(order)
  BY DEF InOrderInv, TypeInv
<1>3. m.type \in {"ordered", "reject", "modified", "modReject", "canceled", "cxlReject", "fill", "closed"}
      /\ m.qty \in Qty /\ m.cum \in Nat
  BY <1>1 DEF Messages
<1>4. /\ m.type \in {"ordered", "reject"} <=> Of(m) = "new"
      /\ m.type \in {"modified", "modReject"} <=> Of(m) = "mod"
      /\ m.type \in {"canceled", "cxlReject"} <=> Of(m) = "cxl"
      /\ m.type \in {"fill", "closed"} <=> Of(m) = "none"
  BY <1>1, OfType
<1>5. /\ Of(m) = "mod" => order.mod = "S" /\ order.new \in {"A", "X", "C"}
      /\ Of(m) = "cxl" => order.cxl = "S" /\ order.new \in {"A", "X", "C"}
      /\ Of(m) = "none" => order.new = "A"
  BY <1>1, <1>4 DEF Request, Rejects
<1> HIDE DEF m
<1>6. CASE m.type = "ordered"
  <2>1. r = Ordered(order)
    BY <1>6 DEF Handler
  <2>2. /\ ~r.odd /\ Turn(order, r.order, {"new"}) /\ r.order.new = "A" /\ r.order.qty = order.qty /\ Waits(r.order)
    BY <1>1, <1>2, <1>4, <1>6, <2>1, OrderedInOrder
  <2> HIDE DEF r
  <2>3. Good2(r)
    BY <1>4, <1>6, <2>2 DEF Turn, Finals
  <2> QED
    BY <2>3 DEF r, m
<1>7. CASE m.type = "reject"
  <2>1. r = Reject(order)
    BY <1>7 DEF Handler
  <2>2. ~r.odd /\ Turn(order, r.order, {"new"}) /\ r.order.new = "X"
    BY <1>1, <1>2, <1>4, <1>7, <2>1, RejectInOrder
  <2> HIDE DEF r
  <2>3. Good2(r)
    BY <1>4, <1>7, <2>2 DEF Turn, Finals
  <2> QED
    BY <2>3 DEF r, m
<1>8. CASE m.type = "modified"
  <2>1. r = Modified(order, m.qty, m.cum)
    BY <1>8 DEF Handler
  <2>2. order.new = "A" /\ order.mod = "S"
    BY <1>1, <1>4, <1>5, <1>8 DEF Rejects
  <2>3. ~r.odd /\ Turn(order, r.order, {"mod"}) /\ r.order.new = "A" /\ r.order.qty = m.qty /\ Waits(r.order)
    BY <1>1, <1>2, <1>3, <2>1, <2>2, ModifiedInOrder
  <2> HIDE DEF r
  <2>4. Good2(r)
    BY <1>4, <1>8, <2>2, <2>3 DEF Turn, Finals
  <2> QED
    BY <2>4 DEF r, m
<1>9. CASE m.type = "modReject"
  <2>1. r = IF profile.rejectCancels THEN ModRejectCxl(order) ELSE ModReject(order)
    BY <1>9 DEF Handler
  <2>2. order.new \in {"A", "X", "C"} /\ order.mod = "S"
    BY <1>4, <1>5, <1>9
  <2>3. ~r.odd /\ Turn(order, r.order, {"mod"}) /\ r.order.new = order.new /\ r.order.qty = order.qty
        /\ (Waits(r.order) \/ Filled(order))
    BY <1>1, <1>2, <2>1, <2>2, ModRejectInOrder, ModRejectCxlInOrder
  <2>4. market.live => ~Filled(order)
    <3>1. \A i \in DOMAIN back : back[i].type # "modified"
      <4>1. \A i \in DOMAIN back : i # 1 => Of(back[i]) # "mod"
        BY <1>1, <1>4, <1>9
      <4>2. \A i \in DOMAIN back : back[i] \in Messages
        BY DEF TypeInv, TypeOK
      <4>3. \A i \in DOMAIN back : i # 1 => back[i].type # "modified"
        BY <4>1, <4>2, OfType
      <4>4. back[1].type # "modified"
        BY <1>9 DEF m
      <4> QED
        BY <4>3, <4>4
    <3> QED
      BY <3>1, OpenUnfilled
  <2> HIDE DEF r
  <2>5. Good2(r)
    BY <1>4, <1>9, <2>3, <2>4 DEF Turn, Finals
  <2> QED
    BY <2>5 DEF r, m
<1>10. CASE m.type = "canceled"
  <2>1. r = Canceled(order, m.cum)
    BY <1>10 DEF Handler
  <2>2. order.new = "A" /\ order.cxl = "S"
    BY <1>1, <1>4, <1>5, <1>10 DEF Rejects
  <2>3. /\ ~r.odd /\ Local(r.order)
        /\ \/ r.order.new = "C" /\ Turn(order, r.order, {"cxl"})
           \/ /\ order.modifyCxl /\ order.mod = "D" /\ r.order.mod = "D" /\ r.order.cxl = "A"
              /\ r.order.new = "Q" \/ (r.order.new = "A" /\ Filled(r.order))
    BY <1>1, <1>2, <1>3, <2>1, <2>2, CanceledInOrder
  <2> HIDE DEF r
  <2>4. \A x \in Request : r.order[x] = "S" <=> order[x] = "S" /\ x # "cxl"
    BY <2>2, <2>3 DEF Turn, Request
  <2>5. Good2(r)
    BY <1>4, <1>10, <2>2, <2>3, <2>4 DEF Finals
  <2> QED
    BY <2>5 DEF r, m
<1>11. CASE m.type = "cxlReject"
  <2>1. r = CxlReject(order)
    BY <1>11 DEF Handler
  <2>2. order.new \in {"A", "X", "C"} /\ order.cxl = "S"
    BY <1>4, <1>5, <1>11
  <2>3. ~r.odd /\ Turn(order, r.order, {"cxl"}) /\ r.order.new = order.new /\ r.order.qty = order.qty /\ Waits(r.order)
    BY <1>1, <1>2, <2>1, <2>2, CxlRejectInOrder
  <2> HIDE DEF r
  <2>4. Good2(r)
    BY <1>4, <1>11, <2>3 DEF Turn, Finals
  <2> QED
    BY <2>4 DEF r, m
<1>12. CASE m.type = "fill"
  <2>1. r = Fill(order, FALSE)
    BY <1>12 DEF Handler
  <2>2. order.new = "A" /\ order.cum < order.qty
    <3>1. IsLimit(order.qty, 1 - 1)
      <4>1. back \in Seq(Messages)
        BY DEF TypeInv, TypeOK
      <4>2. \A i \in DOMAIN back : ~(i <= 1 - 1)
        BY <4>1
      <4> QED
        BY <4>2 DEF IsLimit
    <3>2. order.qty \in Qty
      BY <1>1 DEF Orders
    <3>3. m.cum < order.qty
      BY <1>1, <1>12, <3>1, <3>2 DEF InOrderInv, Bounded, m
    <3> QED
      BY <1>1, <1>4, <1>5, <1>12, <3>3
  <2>3. ~r.odd /\ Turn(order, r.order, {}) /\ r.order.new = "A" /\ r.order.qty = order.qty
        /\ r.order.mod = order.mod /\ r.order.cxl = order.cxl
    BY <1>1, <1>2, <2>1, <2>2, FillInOrder
  <2>4. market.live => Waits(order)
    BY DEF InOrderInv, Open
  <2> HIDE DEF r
  <2>5. Good2(r)
    BY <1>4, <1>12, <2>2, <2>3, <2>4 DEF Turn, Finals, Waits, Request
  <2> QED
    BY <2>5 DEF r, m
<1>13. CASE m.type = "closed"
  <2>1. r.order = Closed(order) /\ r.odd = FALSE
    BY <1>13 DEF Handler, Done
  <2>2. Turn(order, Closed(order), {}) /\ Closed(order).new = "C"
    BY <1>1, <1>2, <1>4, <1>5, <1>13, ClosedInOrder
  <2> HIDE DEF r
  <2>3. Good2(r)
    BY <1>4, <1>13, <2>1, <2>2 DEF Turn, Finals, Request
  <2> QED
    BY <2>3 DEF r, m
<1> QED
  BY <1>3, <1>6, <1>7, <1>8, <1>9, <1>10, <1>11, <1>12, <1>13

LEMMA InOrderDeliver ==
  ASSUME TypeInv, InOrder, InOrderInv, Deliver
  PROVE  InOrderInv'
<1> DEFINE m == back[1]
           r == Handler(m, FALSE)
<1>1. back # <<>> /\ Handled(r) /\ back' = RemoveAt(back, 1) /\ UNCHANGED <<profile, wire, market>>
  <2>1. PICK i \in DOMAIN back :
          /\ i = 1 \/ (Kind(i) \in profile.early /\ \A j \in 1..i-1 : Kind(j) # Kind(i))
          /\ \E better \in Betters(i) : Handled(Handler(back[i], better))
          /\ back' = RemoveAt(back, i)
          /\ UNCHANGED <<profile, wire, market, requests, events>>
    BY DEF Deliver
  <2>2. i = 1
    BY <2>1 DEF InOrder
  <2>3. Betters(1) = {FALSE}
    BY DEF Betters
  <2>4. back # <<>>
    <3>1. DOMAIN back # {} /\ DOMAIN <<>> = {}
      BY <2>1
    <3> QED
      BY <3>1
  <2>5. Handled(r)
    <3>1. \E better \in Betters(1) : Handled(Handler(back[1], better))
      BY <2>1, <2>2
    <3> QED
      BY <2>3, <3>1
  <2> QED
    BY <2>1, <2>2, <2>4, <2>5
<1>2. PICK n \in Nat : n = Len(back)
  BY DEF TypeInv, TypeOK
<1>3. /\ n = Len(back) /\ back \in Seq(Messages) /\ DOMAIN back = 1..n /\ n >= 1 /\ Qty \subseteq Nat
      /\ wire \in Seq(Wire)
  <2>1. back \in Seq(Messages) /\ Qty \subseteq Nat /\ wire \in Seq(Wire)
    BY BoundsAssumption DEF TypeInv, TypeOK, Qty, Wire
  <2> QED
    BY <1>1, <1>2, <2>1, EmptySeq
<1>4. /\ back' \in Seq(Messages) /\ Len(back') = n - 1 /\ DOMAIN back' = 1..n - 1
      /\ \A j \in 1..n - 1 : back'[j] = back[j + 1]
  <2> DEFINE b == RemoveAt(back, 1)
  <2>1. /\ b \in Seq(Messages) /\ Len(b) = n - 1
        /\ \A j \in 1..n - 1 : b[j] = IF j < 1 THEN back[j] ELSE back[j + 1]
    BY <1>3, RemoveAtProperties
  <2>2. b = back'
    BY <1>1
  <2> HIDE DEF b
  <2>3. DOMAIN back' = 1..n - 1 /\ \A j \in 1..n - 1 : ~(j < 1)
    BY <1>3, <2>1, <2>2
  <2> QED
    BY <2>1, <2>2, <2>3
<1>5. /\ \A j \in 1..n - 1 : j \in Nat /\ j + 1 \in 1..n /\ j + 1 # 1 /\ back'[j] = back[j + 1]
      /\ \A i \in 1..n : i # 1 => i - 1 \in 1..n - 1 /\ back'[i - 1] = back[i]
  <2>1. \A j \in 1..n - 1 : j \in Nat /\ j + 1 \in 1..n /\ j + 1 # 1
    BY <1>3
  <2>2. \A i \in 1..n : i # 1 => i - 1 \in 1..n - 1 /\ (i - 1) + 1 = i
    BY <1>3
  <2> QED
    BY <1>4, <2>1, <2>2
<1>6. /\ 1 \in 1..n /\ m \in Messages /\ m.cum = order.cum
      /\ order \in Orders /\ order.new \in {"S", "A", "X", "C"}
      /\ Of(m) \in Request => order[Of(m)] = "S"
      /\ order.new = "S" <=> Of(m) = "new"
      /\ \A i \in 1..n : i # 1 => Of(back[i]) # Of(m) \/ Of(m) = "none"
  BY <1>1, <1>3, NextMessage
<1>7. LET p == r.order
      IN /\ ~r.odd /\ Local(p)
         /\ \A x \in Request : p[x] = "S" <=> order[x] = "S" /\ x # Of(m)
         /\ m.type \notin Finals =>
              /\ p.new = (IF m.type = "ordered" THEN "A" ELSE order.new)
              /\ p.qty = (IF m.type = "modified" THEN m.qty ELSE order.qty)
              /\ market.live => Waits(p)
         /\ m.type \in Finals =>
              \/ p.new \in {"X", "C"}
              \/ /\ m.type = "canceled" /\ order.mod = "D" /\ order.new = "A" /\ p.mod = "D" /\ p.cxl = "A"
                 /\ p.new = "Q" \/ (p.new = "A" /\ Filled(p))
  BY <1>1, HandlerInOrder
<1>8. r.order.cum = order.cum + Filling(m)
  <2>1. Supported(profile)
    BY DEF Supported, InOrder
  <2> QED
    BY <1>3, <1>6, <2>1, HandlerKeeps
<1> HIDE DEF r
<1>9. order' = r.order /\ ~odd'
  BY <1>1, <1>7 DEF Handled, InOrderInv
<1>10. /\ m.type \in {"ordered", "reject"} <=> Of(m) = "new"
       /\ m.type \in {"modified", "modReject"} <=> Of(m) = "mod"
       /\ m.type \in {"canceled", "cxlReject"} <=> Of(m) = "cxl"
       /\ m.type \in {"fill", "closed"} <=> Of(m) = "none"
       /\ Of(m) \in Request \/ Of(m) = "none"
       /\ Filling(m) \in {0, 1} /\ (m.type = "fill" <=> Filling(m) = 1)
  BY <1>6, OfType
<1>m. m = back[1]
  OBVIOUS
<1> HIDE DEF m
<1>11. Once'
  <2>1. \A i, j \in 1..n - 1 : Of(back'[i]) = Of(back'[j]) /\ Of(back'[i]) \in Request => i = j
    <3>1. \A i, j \in 1..n : Of(back[i]) = Of(back[j]) /\ Of(back[i]) \in Request => i = j
      BY <1>3 DEF InOrderInv, Once
    <3>2. \A i, j \in 1..n - 1 : i + 1 = j + 1 => i = j
      BY <1>3
    <3> QED
      BY <1>5, <3>1, <3>2
  <2>2. \A i \in DOMAIN wire : \A j \in 1..n : wire[i].type # Of(back[j])
    BY <1>3 DEF InOrderInv, Once
  <2>3. ASSUME NEW x \in Request
        PROVE  order'[x] = "S" <=> (\E i \in DOMAIN wire : wire[i].type = x) \/ (\E i \in 1..n - 1 : Of(back'[i]) = x)
    <3>1. order[x] = "S" <=> (\E i \in DOMAIN wire : wire[i].type = x) \/ (\E i \in 1..n : Of(back[i]) = x)
      BY <1>3 DEF InOrderInv, Once
    <3>2. x # Of(m) => ((\E i \in 1..n : Of(back[i]) = x) <=> (\E i \in 1..n - 1 : Of(back'[i]) = x))
      BY <1>5, <1>m
    <3>3. x = Of(m) => (\A i \in DOMAIN wire : wire[i].type # x) /\ \A i \in 1..n - 1 : Of(back'[i]) # x
      <4>1. x # "none"
        BY DEF Request
      <4> QED
        BY <1>5, <1>6, <1>m, <2>2, <4>1
    <3>4. order'[x] = "S" <=> order[x] = "S" /\ x # Of(m)
      BY <1>7, <1>9
    <3> QED
      BY <3>1, <3>2, <3>3, <3>4
  <2>4. \A i, j \in DOMAIN wire : wire[i].type = wire[j].type => i = j
    BY DEF InOrderInv, Once
  <2>5. \A i \in DOMAIN wire : \A j \in 1..n - 1 : wire[i].type # Of(back'[j])
    BY <1>5, <2>2
  <2> QED
    BY <1>1, <1>4, <2>1, <2>3, <2>4, <2>5 DEF Once
<1>12. \A i \in DOMAIN wire : wire[i].type # "new"
  BY <1>1 DEF InOrderInv, NewFirst
<1>13. NewFirst'
  <2>1. \A i \in 1..n - 1 : Of(back'[i]) # "new"
    BY <1>3, <1>5 DEF InOrderInv, NewFirst
  <2> QED
    BY <1>1, <1>4, <1>12, <2>1 DEF NewFirst
\* After a message that ends the order only rejections come.
<1>14. m.type \in Finals => ~market.live /\ \A i \in 1..n - 1 : back'[i].type \in Rejects
  <2>1. \A i \in 1..n - 1 : i + 1 > 1
    BY <1>3
  <2>2. m.type \in Finals => ~market.live /\ \A j \in 1..n : j > 1 => back[j].type \in Rejects
    BY <1>3, <1>6, <1>m DEF TypeInv, AfterEnd
  <2>3. \A i \in 1..n - 1 : i + 1 \in 1..n /\ back'[i] = back[i + 1]
    BY <1>5
  <2> QED
    BY <2>1, <2>2, <2>3
<1>15. Ended'
  <2>1. order'.new \in {"X", "C"} => m.type \in Finals \/ order.new \in {"X", "C"}
    BY <1>7, <1>9
  <2>2. order.new \in {"X", "C"} => ~market.live /\ \A i \in 1..n - 1 : back'[i].type \in Rejects
    BY <1>3, <1>5 DEF InOrderInv, Ended
  <2> QED
    BY <1>1, <1>4, <1>14, <2>1, <2>2 DEF Ended
\* Nor does anything once a simulated modify was cancelled to be replaced.
<1>16. m.type = "canceled" /\ order.mod = "D" /\ order.new = "A" => wire = <<>> /\ back' = <<>>
  <2> SUFFICES ASSUME m.type = "canceled", order.mod = "D", order.new = "A"
               PROVE  wire = <<>> /\ back' = <<>>
    OBVIOUS
  <2>1. \A x \in Request : order[x] = "S" => x = "cxl"
    BY DEF Request
  <2>2. Of(m) = "cxl" /\ m.type \in Finals
    BY <1>10 DEF Finals
  <2>3. DOMAIN wire = {}
    <3>1. \A i \in DOMAIN wire : wire[i].type \in Request
      <4>1. \A i \in DOMAIN wire : wire[i] \in Wire
        BY <1>3
      <4> QED
        BY <4>1 DEF Wire
    <3>2. \A i \in DOMAIN wire : order[wire[i].type] = "S" /\ wire[i].type # Of(m)
      BY <1>3, <1>6, <1>m, <3>1 DEF InOrderInv, Once
    <3> QED
      BY <2>1, <2>2, <3>1, <3>2
  <2>4. 1..n - 1 = {}
    <3>1. \A i \in 1..n - 1 : back'[i] \in Messages /\ back'[i].type \in Rejects
      BY <1>4, <1>14, <2>2
    <3>2. \A i \in 1..n - 1 : Of(back'[i]) \in Request
      BY <3>1, OfType DEF Rejects, Request
    <3>3. \A i \in 1..n - 1 : order[Of(back'[i])] = "S"
      BY <1>3, <1>5, <3>2 DEF InOrderInv, Once
    <3>4. \A i \in 1..n - 1 : Of(back'[i]) # Of(m)
      BY <1>5, <1>6, <2>2
    <3> QED
      BY <2>1, <2>2, <3>2, <3>3, <3>4
  <2>5. Len(wire) = 0 /\ n - 1 = 0
    <3>1. Len(wire) \in Nat /\ DOMAIN wire = 1..Len(wire)
      BY <1>3
    <3>2. \A k \in Nat : k # 0 => 1 \in 1..k
      OBVIOUS
    <3>3. n - 1 \in Nat
      BY <1>3
    <3> QED
      BY <2>3, <2>4, <3>1, <3>2, <3>3
  <2> QED
    BY <1>3, <1>4, <2>5, EmptySeq
<1>17. Idle'
  <2>1. order'.new \in {"U", "Q"} =>
          /\ m.type = "canceled" /\ order.mod = "D" /\ order.new = "A" /\ order'.mod = "D" /\ order'.cxl = "A"
          /\ ~market.live
    BY <1>6, <1>7, <1>9, <1>14
  <2> QED
    BY <1>1, <1>16, <2>1 DEF Idle
<1>18. Chain'
  <2>1. \A i \in 1..n : Count(i)' = Count(i + 1)
    <3> SUFFICES ASSUME NEW i \in 1..n
                 PROVE  Count(i)' = Count(i + 1)
      OBVIOUS
    <3>1. CASE i \in 1..n - 1
      <4>1. i <= n - 1 /\ i + 1 <= n
        BY <3>1
      <4> QED
        BY <1>3, <1>4, <3>1, <4>1 DEF Count
    <3>2. CASE i = n
      <4>1. ~(n <= n - 1) /\ ~(n + 1 <= n)
        OBVIOUS
      <4> QED
        BY <1>1, <1>3, <1>4, <3>2, <4>1 DEF Count
    <3> QED
      BY <1>3, <3>1, <3>2
  <2>2. order.cum = Count(1) /\ \A i \in 1..n : Count(i + 1) = Count(i) + Filling(back[i])
    BY <1>3 DEF InOrderInv, Chain
  <2>3. order'.cum = Count(1)'
    BY <1>6, <1>8, <1>9, <1>m, <2>1, <2>2
  <2>4. \A i \in 1..n - 1 : i \in 1..n /\ i + 1 \in 1..n
    BY <1>3
  <2>5. \A i \in 1..n - 1 : Count(i + 1)' = Count(i)' + Filling(back'[i])
    BY <1>5, <2>1, <2>2, <2>4
  <2> QED
    BY <1>4, <2>3, <2>5 DEF Chain
<1>19. Rising'
  <2>1. \A i \in 1..n : back[i].cum + Filling(back[i]) <= market.done
    BY <1>3 DEF InOrderInv, Rising
  <2>2. order'.cum <= market.done
    BY <1>6, <1>8, <1>9, <1>m, <2>1
  <2> QED
    BY <1>1, <1>4, <1>5, <2>1, <2>2 DEF Rising
\* The limits do not change with what has come.
<1>20. ASSUME m.type \notin Finals, NEW q, NEW k \in 0..n - 1, IsLimit(q, k)'
       PROVE  IsLimit(q, k + 1)
  <2>1. CASE m.type = "modified"
    <3>1. \A i \in 1..n - 1 : back'[i].type # "modified"
      <4>1. \A i \in 1..n - 1 : back'[i] \in Messages /\ Of(back'[i]) # "mod"
        BY <1>4, <1>5, <1>6, <1>10, <2>1
      <4> QED
        BY <4>1, OfType
    <3>2. q = m.qty
      BY <1>4, <1>7, <1>9, <1>20, <2>1, <3>1 DEF IsLimit
    <3>3. 1 <= k + 1
      BY <1>3
    <3> QED
      BY <1>3, <1>6, <1>m, <2>1, <3>2, <3>3 DEF IsLimit
  <2>2. CASE m.type # "modified"
    <3>1. order'.qty = order.qty
      BY <1>7, <1>9, <1>20, <2>2
    <3>2. CASE \E i \in 1..n - 1 : i <= k /\ back'[i].type = "modified" /\ q = back'[i].qty
      <4>1. PICK i \in 1..n - 1 : i <= k /\ back'[i].type = "modified" /\ q = back'[i].qty
        BY <3>2
      <4>2. i + 1 \in 1..n /\ i + 1 <= k + 1
        BY <1>3, <4>1
      <4> QED
        BY <1>3, <1>5, <4>1, <4>2 DEF IsLimit
    <3>3. CASE (\A i \in 1..n - 1 : i <= k => back'[i].type # "modified") /\ q = order.qty
      <4>1. ASSUME NEW i \in 1..n, i <= k + 1
            PROVE  back[i].type # "modified"
        <5>1. CASE i = 1
          BY <1>m, <2>2, <5>1
        <5>2. CASE i # 1
          <6>1. i - 1 \in 1..n - 1 /\ i - 1 <= k
            BY <1>3, <4>1, <5>2
          <6> QED
            BY <1>5, <3>3, <5>2, <6>1
        <5> QED
          BY <5>1, <5>2
      <4> QED
        BY <1>3, <3>3, <4>1 DEF IsLimit
    <3> QED
      BY <1>4, <1>20, <3>1, <3>2, <3>3 DEF IsLimit
  <2> QED
    BY <2>1, <2>2
<1>21. Bounded'
  <2>1. CASE m.type \in Finals
    BY <1>1, <1>4, <1>12, <1>14, <2>1 DEF Bounded, Rejects
  <2>2. CASE m.type \notin Finals
    <3>1. \A i \in 1..n - 1 : back'[i].type = "fill" => \A q \in Qty : IsLimit(q, i - 1)' => back'[i].cum < q
      <4> SUFFICES ASSUME NEW i \in 1..n - 1, back'[i].type = "fill", NEW q \in Qty, IsLimit(q, i - 1)'
                   PROVE  back'[i].cum < q
        OBVIOUS
      <4>1. i - 1 \in 0..n - 1 /\ (i - 1) + 1 = (i + 1) - 1 /\ i + 1 \in 1..n
        BY <1>3
      <4>2. IsLimit(q, (i - 1) + 1)
        BY <1>20, <2>2, <4>1
      <4>3. IsLimit(q, (i + 1) - 1)
        BY <4>1, <4>2
      <4>4. back[i + 1].type = "fill"
        BY <1>5
      <4>5. back[i + 1].cum < q
        BY <1>3, <4>1, <4>3, <4>4 DEF InOrderInv, Bounded
      <4> QED
        BY <1>5, <4>5
    <3>2. market.live => \A q \in Qty : IsLimit(q, n - 1)' => market.done + market.left = q
      <4> SUFFICES ASSUME market.live, NEW q \in Qty, IsLimit(q, n - 1)'
                   PROVE  market.done + market.left = q
        OBVIOUS
      <4>1. n - 1 \in 0..n - 1 /\ (n - 1) + 1 = n
        BY <1>3
      <4>2. IsLimit(q, (n - 1) + 1)
        BY <1>20, <2>2, <4>1
      <4>3. IsLimit(q, n)
        BY <4>1, <4>2
      <4> QED
        BY <1>3, <4>3 DEF InOrderInv, Bounded
    <3> QED
      BY <1>1, <1>4, <1>12, <3>1, <3>2 DEF Bounded
  <2> QED
    BY <2>1, <2>2
<1>22. Over'
  <2> SUFFICES ASSUME order'.new \in {"S", "A"}, ~market.live
               PROVE  \/ \E i \in 1..n - 1 : back'[i].type \in Finals
                      \/ \A q \in Qty : IsLimit(q, n - 1)' => market.done >= q
    BY <1>1, <1>4 DEF Over
  <2>1. CASE m.type \in Finals
    <3>1. back' = <<>> /\ Filled(order')
      BY <1>7, <1>9, <1>16, <2>1
    <3>2. \A q : IsLimit(q, n - 1)' => q = order'.qty
      BY <3>1 DEF IsLimit
    <3>3. order'.cum >= order'.qty /\ order'.cum <= market.done
      BY <1>1, <1>19, <3>1 DEF Filled, Rising
    <3>4. order'.cum \in Nat /\ market.done \in Nat
      <4>1. order.cum \in Nat /\ market.done \in Nat
        BY DEF TypeInv, TypeOK, Orders
      <4> QED
        BY <1>8, <1>9, <1>10, <4>1
    <3>5. ASSUME NEW q \in Qty, q = order'.qty
          PROVE  market.done >= q
      <4>1. q \in Nat
        BY <1>3
      <4> QED
        BY <3>3, <3>4, <3>5, <4>1
    <3> QED
      BY <3>2, <3>5
  <2>2. CASE m.type \notin Finals
    <3>1. order.new \in {"S", "A"}
      BY <1>7, <1>9, <2>2, <1>6, <1>10
    <3>2. \/ \E i \in 1..n : back[i].type \in Finals
          \/ \A q \in Qty : IsLimit(q, n) => market.done >= q
      BY <1>3, <1>12, <3>1 DEF InOrderInv, Over
    <3>3. (\E i \in 1..n : back[i].type \in Finals) => \E i \in 1..n - 1 : back'[i].type \in Finals
      BY <1>5, <1>m, <2>2
    <3>4. \A q : IsLimit(q, n - 1)' => IsLimit(q, n)
      <4> SUFFICES ASSUME NEW q, IsLimit(q, n - 1)'
                   PROVE  IsLimit(q, n)
        OBVIOUS
      <4>1. n - 1 \in 0..n - 1 /\ (n - 1) + 1 = n
        BY <1>3
      <4>2. IsLimit(q, (n - 1) + 1)
        BY <1>20, <2>2, <4>1
      <4> QED
        BY <4>1, <4>2
    <3> QED
      BY <3>2, <3>3, <3>4
  <2> QED
    BY <2>1, <2>2
<1>23. Open'
  <2>1. market.live => m.type \notin Finals
    BY <1>14
  <2> QED
    BY <1>1, <1>4, <1>7, <1>9, <2>1 DEF Open, Waits
<1> QED
  BY <1>7, <1>9, <1>11, <1>13, <1>15, <1>17, <1>18, <1>19, <1>21, <1>22, <1>23 DEF InOrderInv

LEMMA InOrderStep ==
  ASSUME TypeInv, InOrder, InOrderInv, [Next]_vars
  PROVE  InOrderInv'
<1>1. ASSUME NEW qty \in 1..MaxQty, ClientNew(qty)
      PROVE  InOrderInv'
  BY <1>1, InOrderClientNew
<1>2. ASSUME NEW qty \in 1..MaxQty, ClientModify(qty)
      PROVE  InOrderInv'
  BY <1>2, InOrderClientModify
<1>3. CASE UNCHANGED vars
  <2>1. Once' /\ NewFirst' /\ Ended' /\ Idle' /\ Open'
    BY <1>3 DEF vars, InOrderInv, Once, NewFirst, Ended, Idle, Open
  <2>2. Chain' /\ Rising'
    BY <1>3 DEF vars, InOrderInv, Chain, Rising, Count
  <2>3. Bounded' /\ Over'
    BY <1>3 DEF vars, InOrderInv, Bounded, Over, IsLimit
  <2>4. ~odd' /\ Local(order')
    BY <1>3 DEF vars, InOrderInv
  <2> QED
    BY <2>1, <2>2, <2>3, <2>4 DEF InOrderInv
<1> QED
  BY <1>1, <1>2, <1>3, InOrderClientCancel, InOrderSend, InOrderAnswer, InOrderTrade, InOrderUnasked,
     InOrderDeliver DEF Next, Stopped

LEMMA InOrderAlways == Spec => [](InOrder => TypeInv /\ InOrderInv)
<1>1. Init => (InOrder => TypeInv /\ InOrderInv)
  BY TypeInvInit, InOrderInit
<1>2. (InOrder => TypeInv /\ InOrderInv) /\ [Next]_vars => (InOrder => TypeInv /\ InOrderInv)'
  <2>1. InOrder => Supported(profile)
    BY DEF InOrder, Supported
  <2>2. [Next]_vars => (InOrder' <=> InOrder)
    BY ProfileKept DEF InOrder
  <2> QED
    BY <2>1, <2>2, TypeInvStep, InOrderStep
<1> QED
  BY <1>1, <1>2, PTL DEF Spec

\* Whatever the quantities, the number of requests and the profile of the market, one that
\* answers in order, and only what it was asked, never drives a handler to call abnormal() or
\* to where the code says that it should not come.
THEOREM OrderlyHolds == Spec => []Orderly
<1>1. (InOrder => TypeInv /\ InOrderInv) => Orderly
  BY DEF InOrder, InOrderInv, Orderly
<1> QED
  BY <1>1, InOrderAlways, PTL

LEMMA SettledAgrees ==
  ASSUME TypeInv, InOrderInv
  PROVE  Agrees
<1> DEFINE Answered == \/ {order.mod, order.cxl} \cap {"D", "Q", "S", "P"} = {}
                       \/ order.mod = "D" /\ order.cxl = "X"
<1> SUFFICES ASSUME order.new # "U", Settled
             PROVE  /\ order.cum = market.done
                    /\ market.live <=> (order.new = "A" /\ ~Filled(order))
                    /\ market.live => order.leaves = market.left /\ Answered
  BY DEF Agrees
<1>1. wire = <<>> /\ back = <<>> /\ order.out = <<>> /\ Len(back) = 0 /\ DOMAIN wire = {} /\ DOMAIN back = {}
      /\ Len(order.out) = 0
  BY DEF Settled
<1>2. /\ order \in Orders /\ order.qty \in Qty /\ Qty \subseteq Nat /\ order.cum \in Nat /\ market.done \in Nat
      /\ market.left \in Nat /\ market.live \in BOOLEAN /\ (market.live => market.left >= 1)
  BY BoundsAssumption DEF TypeInv, TypeOK, Orders, Qty
<1>3. order.cum = market.done
  BY <1>1 DEF InOrderInv, Chain, Count
\* What was sent was answered, and what was queued was sent.
<1>4. \A r \in Request : order[r] # "S" /\ order[r] # "Q"
  <2>1. \A r \in Request : order[r] # "S"
    BY <1>1 DEF InOrderInv, Once
  <2>2. \A r \in Request : ~Contains(order.out, r)
    BY <1>1 DEF Contains
  <2> QED
    BY <2>1, <2>2 DEF TypeInv, TypeOK
<1>5. /\ order.new \in {"A", "X", "C"}
      /\ order.mod \in {"U", "D", "A", "X"} /\ order.cxl \in {"U", "D", "A", "X"}
      /\ order.new = "A" => order.leaves = Leaves(order.qty, order.cum)
  <2>1. order.new \notin {"S", "Q"} /\ order.mod \notin {"S", "Q"} /\ order.cxl \notin {"S", "Q"}
    BY <1>4 DEF Request
  <2> QED
    BY <2>1 DEF InOrderInv, Local
<1>6. IsLimit(order.qty, Len(back))
  BY <1>1 DEF IsLimit
<1>7. market.live => order.new = "A" /\ market.done + market.left = order.qty
  BY <1>2, <1>5, <1>6 DEF InOrderInv, Ended, Bounded
<1>8. market.live => ~Filled(order) /\ order.leaves = market.left
  <2> SUFFICES ASSUME market.live
               PROVE  ~Filled(order) /\ order.leaves = market.left
    OBVIOUS
  <2>1. market.done + market.left = order.qty /\ market.left >= 1 /\ order.qty \in Nat
    BY <1>2, <1>7
  <2>2. order.qty > order.cum /\ order.qty - order.cum = market.left
    BY <1>2, <1>3, <2>1
  <2> QED
    BY <1>2, <1>5, <1>7, <2>1, <2>2 DEF Filled, Leaves
<1>9. order.new = "A" /\ ~market.live => Filled(order)
  <2> SUFFICES ASSUME order.new = "A", ~market.live
               PROVE  Filled(order)
    OBVIOUS
  <2>1. market.done >= order.qty
    BY <1>1, <1>2, <1>6 DEF InOrderInv, Over
  <2> QED
    BY <1>3, <2>1 DEF Filled
<1>10. market.live => Answered
  <2>1. market.live => (order.mod = "D" => order.cxl = "X") /\ order.cxl # "D"
    BY <1>5, <1>7 DEF InOrderInv, Open, Waits
  <2> QED
    BY <1>5, <2>1
<1> QED
  BY <1>3, <1>7, <1>8, <1>9, <1>10

\* With such a market the manager and the market agree once every message has arrived: on what
\* was filled, on whether the order is open, and on what is left of it; and no request of an open
\* order waits for an answer that never comes.
THEOREM AgreesInOrder == Spec => [](profile.early = {} /\ ~profile.unasked => Agrees)
<1>1. (InOrder => TypeInv /\ InOrderInv) => (profile.early = {} /\ ~profile.unasked => Agrees)
  BY SettledAgrees DEF InOrder
<1> QED
  BY <1>1, InOrderAlways, PTL

=============================================================================
