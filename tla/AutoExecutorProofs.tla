--------------------------- MODULE AutoExecutorProofs ---------------------------
(***************************************************************************)
(* Proofs about AutoExecutor, for any pyramid limit, numbers of bars and   *)
(* orders, and any set of faults: type correctness, that the row never     *)
(* attributes more than was placed nor stacks past the limit, that what is *)
(* sold or covered stays within it, and that manual orders are left alone. *)
(* Then, each without the faults it does not survive: that a bar opens one *)
(* lot, that the reconciliation strips only what is gone, and that a close *)
(* leaves no older stop.                                                   *)
(***************************************************************************)
EXTENDS AutoExecutor, FiniteSetTheorems, SequenceTheorems, TLAPS

OrderType == [kind : {"buy", "sell", "stop"}, own : BOOLEAN, qty : Nat \ {0},
              bar : 1..MaxBars, state : OrderStates]

(* The placed opening orders of the strategy.                              *)
Backed == {o \in Ids : orders[o].own /\ orders[o].kind = "buy"
                       /\ orders[o].state \notin {"sent", "refused"}}

OwnId(o) == o \in Ids /\ orders[o].own

(* The steps of the worker that assume its row is OPEN.                    *)
OpenSteps == {"recover", "ensure", "cover", "covering", "exit", "close", "sweep", "read",
              "sell", "selling", "settle"}

(* What the worker's step says of its locals and the row: an open that is  *)
(* under way has room in the stack, and the order it sent is not yet among *)
(* those the row attributes.                                               *)
WorkerInv ==
    /\ pc \in OpenSteps => IsOpen
    /\ pc # "idle" => at # 0
    /\ pc = "sell" => plan # 0 /\ plan <= row.qty
    /\ pc \in {"opening", "covering"} => OwnId(tgt)
    /\ pc = "opening" => orders[tgt].kind = "buy"
    /\ pc = "attribute" => tgt \in Backed
    /\ pc \in {"opening", "attribute"} =>
          HasRoom /\ (IsOpen => row.qty <= Cardinality(Backed \ {tgt}))

IInv ==
    /\ TypeOK
    /\ orders \in Seq(OrderType)
    /\ ManualUntouched
    /\ row.stop # 0 => OwnId(row.stop)
    /\ PyramidBound
    /\ AttributionBacked
    /\ WorkerInv

-----------------------------------------------------------------------------
(* What a step may do to the orders: ids stay, owners and kinds stay, what *)
(* was placed stays placed, and only own orders are ever being cancelled.  *)
OrdersStep ==
    /\ orders' \in Seq(OrderType) /\ Len(orders') <= MaxOrders
    /\ Ids \subseteq Ids'
    /\ \A o \in Ids : /\ orders[o].own => orders'[o].own
                      /\ orders'[o].kind = orders[o].kind
                      /\ orders[o].state \notin {"sent", "refused"}
                           => orders'[o].state \notin {"sent", "refused"}
    /\ \A o \in Ids' : ~orders'[o].own => orders'[o].state # "cancelling"

LEMMA OrdersTyped ==
    ASSUME IInv
    PROVE  /\ orders \in Seq(OrderType) /\ Len(orders) \in Nat /\ Len(orders) <= MaxOrders
           /\ Ids = 1 .. Len(orders) /\ \A o \in Ids : orders[o] \in OrderType
           /\ \A o \in Ids : ~orders[o].own => orders[o].state # "cancelling"
<1>1. orders \in Seq(OrderType)
  BY DEF IInv
<1>2. Len(orders) \in Nat /\ orders \in [1 .. Len(orders) -> OrderType]
  BY <1>1, LenProperties
<1> QED
  BY <1>1, <1>2 DEF IInv, TypeOK, Ids, ManualUntouched

LEMMA SameOrders == IInv /\ UNCHANGED orders => OrdersStep
BY OrdersTyped DEF OrdersStep, Ids

(* Orders that change their state and nothing else.                        *)
LEMMA Restated ==
    ASSUME IInv, NEW f, orders' = f, DOMAIN f = Ids,
           \A o \in Ids : /\ f[o] \in OrderType
                          /\ orders[o].own => f[o].own
                          /\ f[o].kind = orders[o].kind
                          /\ orders[o].state \notin {"sent", "refused"}
                               => f[o].state \notin {"sent", "refused"}
                          /\ ~f[o].own => f[o].state # "cancelling",
           f = [o \in Ids |-> f[o]]
    PROVE  OrdersStep
<1>1. Len(orders) \in Nat /\ Len(orders) <= MaxOrders /\ Ids = 1 .. Len(orders)
  BY OrdersTyped
<1>2. f \in [1 .. Len(orders) -> OrderType]
  BY <1>1
<1>3. f \in Seq(OrderType)
  BY <1>1, <1>2, SeqDef
<1>4. Len(f) = Len(orders)
  BY <1>1, <1>2, <1>3, LenProperties
<1> QED
  BY <1>1, <1>3, <1>4 DEF OrdersStep, Ids

LEMMA CancelKeeps ==
    ASSUME IInv, NEW S, \A o \in S \intersect Ids : OwnId(o), CancelRequested(S)
    PROVE  OrdersStep
<1>1. PICK done \in SUBSET S :
          orders' = [o \in Ids |-> IF o \in done /\ orders[o].state = "live"
                                   THEN [orders[o] EXCEPT !.state = "cancelling"]
                                   ELSE orders[o]]
  BY DEF CancelRequested
<1> DEFINE f == [o \in Ids |-> IF o \in done /\ orders[o].state = "live"
                               THEN [orders[o] EXCEPT !.state = "cancelling"]
                               ELSE orders[o]]
<1>2. ASSUME NEW o \in Ids
      PROVE  /\ f[o] \in OrderType
             /\ orders[o].own => f[o].own
             /\ f[o].kind = orders[o].kind
             /\ orders[o].state \notin {"sent", "refused"}
                  => f[o].state \notin {"sent", "refused"}
             /\ ~f[o].own => f[o].state # "cancelling"
  <2>1. orders[o] \in OrderType /\ (~orders[o].own => orders[o].state # "cancelling")
    BY OrdersTyped
  <2>2. CASE o \in done /\ orders[o].state = "live"
    BY <2>1, <2>2 DEF OwnId, OrderType, OrderStates
  <2>3. CASE ~(o \in done /\ orders[o].state = "live")
    BY <2>1, <2>3
  <2> QED
    BY <2>2, <2>3
<1>3. orders' = f /\ DOMAIN f = Ids /\ f = [o \in Ids |-> f[o]]
  BY <1>1
<1> HIDE DEF f
<1> QED
  BY <1>2, <1>3, Restated

LEMMA StateKeeps ==
    ASSUME IInv, NEW o \in Ids, NEW st \in OrderStates, OwnId(o) \/ st # "cancelling",
           orders[o].state \in {"sent", "refused"} \/ st \notin {"sent", "refused"},
           orders' = [orders EXCEPT ![o].state = st]
    PROVE  OrdersStep
<1> DEFINE f == [orders EXCEPT ![o].state = st]
<1>1. f = [x \in Ids |-> IF x = o THEN [orders[x] EXCEPT !.state = st] ELSE orders[x]]
  BY OrdersTyped DEF Ids
<1>2. ASSUME NEW x \in Ids
      PROVE  /\ f[x] \in OrderType
             /\ orders[x].own => f[x].own
             /\ f[x].kind = orders[x].kind
             /\ orders[x].state \notin {"sent", "refused"}
                  => f[x].state \notin {"sent", "refused"}
             /\ ~f[x].own => f[x].state # "cancelling"
  <2>1. orders[x] \in OrderType /\ (~orders[x].own => orders[x].state # "cancelling")
    BY OrdersTyped
  <2>2. CASE x = o
    BY <1>1, <2>1, <2>2 DEF OwnId, OrderType
  <2>3. CASE x # o
    BY <1>1, <2>1, <2>3
  <2> QED
    BY <2>2, <2>3
<1>3. orders' = f /\ DOMAIN f = Ids /\ f = [x \in Ids |-> f[x]]
  BY <1>1
<1> HIDE DEF f
<1> QED
  BY <1>2, <1>3, Restated

LEMMA AppendKeeps ==
    ASSUME IInv, NEW new \in OrderType, Len(orders) < MaxOrders,
           ~new.own => new.state # "cancelling", orders' = Append(orders, new)
    PROVE  /\ OrdersStep /\ Len(orders) + 1 \notin Ids
           /\ Len(orders) + 1 \in Ids' /\ orders'[Len(orders) + 1] = new
           /\ Len(orders) + 1 \in 1 .. MaxOrders
<1>1. /\ orders \in Seq(OrderType) /\ Len(orders) \in Nat /\ Ids = 1 .. Len(orders)
      /\ \A o \in Ids : ~orders[o].own => orders[o].state # "cancelling"
  BY OrdersTyped
<1>2. /\ orders' \in Seq(OrderType) /\ Len(orders') = Len(orders) + 1
      /\ \A o \in 1 .. Len(orders) : orders'[o] = orders[o]
      /\ orders'[Len(orders) + 1] = new
  BY <1>1, AppendProperties
<1>3. Ids' = 1 .. Len(orders) + 1
  BY <1>2, LenProperties DEF Ids
<1> QED
  BY <1>1, <1>2, <1>3, BoundsAssumption DEF OrdersStep
-----------------------------------------------------------------------------
LEMMA BackedFinite ==
    ASSUME IInv
    PROVE  /\ IsFiniteSet(Backed) /\ Cardinality(Backed) \in Nat
           /\ \A o : IsFiniteSet(Backed \ {o}) /\ Cardinality(Backed \ {o}) \in Nat
<1>1. IsFiniteSet(Ids)
  BY OrdersTyped, FS_Interval
<1>2. Backed \in SUBSET Ids
  BY DEF Backed
<1>3. IsFiniteSet(Backed)
  BY <1>1, <1>2, FS_Subset
<1>4. \A o : (Backed \ {o}) \in SUBSET Backed
  OBVIOUS
<1> QED
  BY <1>3, <1>4, FS_Subset, FS_CardinalityType

LEMMA BackedFiniteNext ==
    ASSUME OrdersStep
    PROVE  IsFiniteSet(Backed')
<1>1. IsFiniteSet(Ids')
  <2>1. Len(orders') \in Nat /\ DOMAIN orders' = 1 .. Len(orders')
    BY LenProperties DEF OrdersStep
  <2> QED
    BY <2>1, FS_Interval DEF Ids
<1>2. Backed' \in SUBSET Ids'
  BY DEF Backed
<1> QED
  BY <1>1, <1>2, FS_Subset

LEMMA BackedGrows ==
    ASSUME IInv, OrdersStep
    PROVE  /\ Backed \subseteq Backed'
           /\ IsFiniteSet(Backed') /\ Cardinality(Backed') \in Nat
           /\ Cardinality(Backed) <= Cardinality(Backed')
           /\ \A o : /\ Cardinality(Backed' \ {o}) \in Nat
                     /\ Cardinality(Backed \ {o}) <= Cardinality(Backed' \ {o})
           /\ \A o : OwnId(o) => OwnId(o)' /\ orders'[o].kind = orders[o].kind
<1>1. Backed \subseteq Backed'
  BY DEF Backed, OrdersStep
<1>2. IsFiniteSet(Backed')
  BY BackedFiniteNext
<1>3. ASSUME NEW o
      PROVE  /\ Cardinality(Backed' \ {o}) \in Nat
             /\ Cardinality(Backed \ {o}) <= Cardinality(Backed' \ {o})
  <2>1. (Backed' \ {o}) \in SUBSET Backed' /\ (Backed \ {o}) \in SUBSET (Backed' \ {o})
    BY <1>1
  <2>2. IsFiniteSet(Backed' \ {o})
    BY <1>2, <2>1, FS_Subset
  <2> QED
    BY <2>1, <2>2, FS_Subset, FS_CardinalityType
<1>4. \A o : OwnId(o) => OwnId(o)' /\ orders'[o].kind = orders[o].kind
  BY DEF OwnId, OrdersStep
<1> QED
  BY <1>1, <1>2, <1>3, <1>4, FS_Subset, FS_CardinalityType
-----------------------------------------------------------------------------
(* The type invariant by its parts, the orders aside.                      *)
RowOK == row \in [status : RowStates, qty : Nat, lots : Nat, stop : 0..MaxOrders]

LocalsOK ==
    /\ pc \in Steps /\ work \in {"none", "BUY", "SELL", "BAR"} /\ at \in 0..MaxBars
    /\ tgt \in 0..MaxOrders /\ plan \in Nat

RestOK ==
    /\ logged \subseteq 1..MaxBars
    /\ cool \in BOOLEAN /\ reconciled \in BOOLEAN
    /\ emptyRead \in {"none", "recent", "old"}
    /\ bar \in 1..MaxBars
    /\ held \in Int /\ resizing \in BOOLEAN /\ feedReady \in BOOLEAN

LEMMA Typed == IInv => RowOK /\ LocalsOK /\ RestOK /\ WorkerInv
BY DEF IInv, TypeOK, RowOK, LocalsOK, RestOK

LEMMA TypeStep == ASSUME OrdersStep, RowOK', LocalsOK', RestOK' PROVE TypeOK'
<1>1. \A o \in Ids' : orders'[o] \in OrderType
  <2>1. orders' \in Seq(OrderType)
    BY DEF OrdersStep
  <2>2. orders' \in [1 .. Len(orders') -> OrderType]
    BY <2>1, LenProperties
  <2> QED
    BY <2>2 DEF Ids
<1> QED
  BY <1>1 DEF OrdersStep, RowOK, LocalsOK, RestOK, TypeOK, OrderType

(* A step that attributes nothing: the row keeps its quantity as long as   *)
(* it is OPEN, and tracks no stop or an own one.                           *)
LEMMA Finish ==
    ASSUME IInv, OrdersStep, RowOK', LocalsOK', RestOK', WorkerInv',
           row'.status = "OPEN" => IsOpen /\ row'.qty = row.qty /\ row'.lots = row.lots,
           row'.stop # 0 => row'.stop \in Ids' /\ orders'[row'.stop].own
    PROVE  IInv'
<1>1. PyramidBound'
  BY DEF IInv, PyramidBound, IsOpen
<1>2. ManualUntouched' /\ orders' \in Seq(OrderType)
  BY DEF OrdersStep, ManualUntouched
<1>3. AttributionBacked'
  <2>1. IsOpen => row.qty <= Cardinality(Backed)
    BY DEF IInv, AttributionBacked, Backed
  <2>2. row \in [status : RowStates, qty : Nat, lots : Nat, stop : 0..MaxOrders]
    BY Typed DEF RowOK
  <2>3. IsOpen' => row'.qty <= Cardinality(Backed')
    BY <2>1, <2>2, BackedGrows, BackedFinite DEF IsOpen
  <2> QED
    BY <2>3 DEF AttributionBacked, Backed
<1> QED
  BY <1>1, <1>2, <1>3, TypeStep DEF IInv, OwnId

(* The same for a step that leaves the row alone.                          *)
LEMMA FinishRow ==
    ASSUME IInv, OrdersStep, UNCHANGED row, LocalsOK', RestOK', WorkerInv' PROVE IInv'
<1>1. row.stop # 0 => OwnId(row.stop)
  BY DEF IInv
<1>2. row'.stop # 0 => row'.stop \in Ids' /\ orders'[row'.stop].own
  BY <1>1 DEF OwnId, OrdersStep
<1>3. RowOK' /\ (IsOpen' => IsOpen)
  BY Typed DEF RowOK, IsOpen
<1> QED
  BY <1>2, <1>3, Finish DEF IsOpen
-----------------------------------------------------------------------------
(***************************************************************************)
(* What happens around the worker                                          *)
(***************************************************************************)
LEMMA AroundWorker ==
    ASSUME IInv, OrdersStep, UNCHANGED <<row, pc, work, at, tgt, plan>>, RestOK' PROVE IInv'
<1>1. LocalsOK'
  BY Typed DEF LocalsOK
<1>2. /\ pc \in OpenSteps => IsOpen
      /\ pc # "idle" => at # 0
      /\ pc = "sell" => plan # 0 /\ plan <= row.qty
      /\ pc \in {"opening", "covering"} => OwnId(tgt)
      /\ pc = "opening" => orders[tgt].kind = "buy"
      /\ pc = "attribute" => tgt \in Backed
      /\ pc \in {"opening", "attribute"} =>
            HasRoom /\ (IsOpen => row.qty <= Cardinality(Backed \ {tgt}))
  BY Typed DEF WorkerInv
<1>3. PICK t \in 0..MaxOrders : t = tgt
  BY Typed DEF LocalsOK
<1>4. /\ OwnId(t) => OwnId(t)' /\ orders'[t].kind = orders[t].kind
      /\ t \in Backed => t \in Backed'
      /\ Cardinality(Backed' \ {t}) \in Nat /\ Cardinality(Backed \ {t}) \in Nat
      /\ Cardinality(Backed \ {t}) <= Cardinality(Backed' \ {t})
  BY BackedGrows, BackedFinite
<1>5. row.qty \in Nat
  BY Typed DEF RowOK
<1>6. IsOpen' = IsOpen /\ HasRoom' = HasRoom
  BY DEF IsOpen, HasRoom
<1>7. pc \in {"opening", "covering"} => tgt' \in Ids' /\ orders'[tgt'].own
  BY <1>2, <1>3, <1>4 DEF OwnId
<1>8. pc = "opening" => orders'[tgt'].kind = "buy"
  BY <1>2, <1>3, <1>4
<1>9. pc = "attribute" => tgt' \in Backed'
  BY <1>2, <1>3, <1>4
<1>10. pc \in {"opening", "attribute"} => (IsOpen => row.qty <= Cardinality(Backed' \ {tgt'}))
  BY <1>2, <1>3, <1>4, <1>5
<1>11. WorkerInv'
  BY <1>2, <1>6, <1>7, <1>8, <1>9, <1>10 DEF WorkerInv, OwnId
<1> QED
  BY <1>1, <1>11, FinishRow

LEMMA BrokerKeeps == ASSUME IInv, BrokerStep PROVE IInv'
<1>1. ASSUME NEW o \in Ids, NEW st \in OrderStates \ {"sent", "refused"}, SetState(o, st),
             OwnId(o) \/ st # "cancelling", held' \in Int
      PROVE  IInv'
  <2>1. /\ orders' = [orders EXCEPT ![o].state = st]
        /\ UNCHANGED <<row, logged, pc, work, at, tgt, plan, cool, reconciled, emptyRead,
                       bar, resizing, feedReady>>
    BY <1>1 DEF SetState, durable, memory
  <2>2. OrdersStep
    BY <1>1, <2>1, StateKeeps
  <2>3. RestOK'
    BY <1>1, <2>1, Typed DEF RestOK
  <2> QED
    BY <2>1, <2>2, <2>3, AroundWorker
<1>2. ASSUME NEW o \in Ids, Refuse(o) PROVE IInv'
  <2>1. /\ orders' = [orders EXCEPT ![o].state = "refused"] /\ orders[o].state = "sent"
        /\ UNCHANGED <<row, logged, pc, work, at, tgt, plan, cool, reconciled, emptyRead,
                       bar, held, resizing, feedReady>>
    BY <1>2 DEF Refuse, SetState, durable, memory
  <2>2. OrdersStep
    BY <1>2, <2>1, StateKeeps DEF OrderStates
  <2>3. RestOK'
    BY <2>1, Typed DEF RestOK
  <2> QED
    BY <2>1, <2>2, <2>3, AroundWorker
<1>3. held \in Int /\ \A o \in Ids : orders[o].qty \in Nat
  BY Typed, OrdersTyped DEF RestOK, OrderType
<1>4. ASSUME NEW o \in Ids, Place(o) PROVE IInv'
  BY <1>1, <1>3, <1>4 DEF Place, OrderStates
<1>5. ASSUME NEW o \in Ids, Fill(o) PROVE IInv'
  BY <1>1, <1>3, <1>5 DEF Fill, OrderStates
<1>6. ASSUME NEW o \in Ids, Cancelled(o) PROVE IInv'
  BY <1>1, <1>3, <1>6 DEF Cancelled, OrderStates
<1> QED
  BY <1>2, <1>4, <1>5, <1>6 DEF BrokerStep

LEMMA OperatorKeeps == ASSUME IInv, OperatorStep PROVE IInv'
<1> USE DEF durable, memory, quiet
<1>1. RestOK
  BY Typed
<1>2. CASE OperatorTrade
  BY <1>1, <1>2, SameOrders, AroundWorker, BoundsAssumption DEF OperatorTrade, RestOK
<1>3. CASE ManualStop
  <2> DEFINE new == [kind |-> "stop", own |-> FALSE, qty |-> 1, bar |-> bar, state |-> "live"]
  <2>1. new \in OrderType
    BY <1>1 DEF OrderType, OrderStates, RestOK
  <2>2. OrdersStep
    BY <1>3, <2>1, AppendKeeps DEF ManualStop
  <2> QED
    BY <1>1, <1>3, <2>2, AroundWorker DEF ManualStop, RestOK
<1>4. CASE ResizeCreate
  <2>1. PICK q \in 1..(MaxAdds + 1) :
          orders' = Append(orders, [kind |-> "stop", own |-> TRUE, qty |-> q, bar |-> bar,
                                    state |-> "live"])
    BY <1>4 DEF ResizeCreate
  <2> DEFINE new == [kind |-> "stop", own |-> TRUE, qty |-> q, bar |-> bar, state |-> "live"]
  <2>2. new \in OrderType
    BY <1>1, BoundsAssumption DEF OrderType, OrderStates, RestOK
  <2>3. OrdersStep
    BY <1>4, <2>1, <2>2, AppendKeeps DEF ResizeCreate
  <2> QED
    BY <1>1, <1>4, <2>3, AroundWorker DEF ResizeCreate, RestOK
<1>5. CASE ResizeFails
  BY <1>1, <1>5, SameOrders, AroundWorker DEF ResizeFails, RestOK
<1>6. ASSUME NEW o \in Ids, ResizeCancel(o) PROVE IInv'
  <2>1. OwnId(o) /\ orders[o].state = "live" /\ orders' = [orders EXCEPT ![o].state = "cancelling"]
    BY <1>6 DEF ResizeCancel, IsOwn, OwnId
  <2>2. OrdersStep
    BY <2>1, StateKeeps DEF OrderStates
  <2> QED
    BY <1>1, <1>6, <2>2, AroundWorker DEF ResizeCancel, RestOK
<1> QED
  BY <1>2, <1>3, <1>4, <1>5, <1>6 DEF OperatorStep

LEMMA ClockKeeps == ASSUME IInv, ClockStep PROVE IInv'
<1> USE DEF durable, memory, market
<1>1. RestOK
  BY Typed
<1>2. UNCHANGED <<row, pc, work, at, tgt, plan, orders>>
  BY DEF ClockStep, NextBar, CoolOff, GraceElapses, FeedUp, FeedDown
<1>3. RestOK'
  <2>1. CASE NextBar
    BY <1>1, <2>1, BoundsAssumption DEF NextBar, RestOK
  <2>2. CASE CoolOff \/ GraceElapses
    BY <1>1, <2>2 DEF CoolOff, GraceElapses, RestOK
  <2>3. CASE FeedUp \/ FeedDown
    BY <1>1, <2>3 DEF FeedUp, FeedDown, RestOK
  <2> QED
    BY <2>1, <2>2, <2>3 DEF ClockStep
<1> QED
  BY <1>2, <1>3, SameOrders, AroundWorker

LEMMA CrashKeeps == ASSUME IInv, Crash PROVE IInv'
<1>1. /\ UNCHANGED <<row, logged, bar, orders, held, resizing>>
      /\ pc' = "idle" /\ work' = "none" /\ at' = 0 /\ tgt' = 0 /\ plan' = 0
      /\ cool' = FALSE /\ reconciled' = FALSE /\ emptyRead' = "none" /\ feedReady' \in BOOLEAN
  BY Typed DEF Crash, durable, RestOK
<1>2. LocalsOK'
  BY <1>1, BoundsAssumption DEF LocalsOK, Steps
<1>3. RestOK'
  <2>1. /\ logged' \subseteq 1..MaxBars /\ bar' \in 1..MaxBars /\ held' \in Int
        /\ emptyRead' \in {"none", "recent", "old"}
    BY <1>1, Typed DEF RestOK
  <2>2. resizing' \in BOOLEAN /\ cool' \in BOOLEAN /\ reconciled' \in BOOLEAN
    BY <1>1, Typed, Zenon DEF RestOK
  <2> QED
    BY <1>1, <2>1, <2>2, Zenon DEF RestOK
<1>4. WorkerInv'
  BY <1>1 DEF WorkerInv, OpenSteps
<1> QED
  BY <1>1, <1>2, <1>3, <1>4, SameOrders, FinishRow
-----------------------------------------------------------------------------
(***************************************************************************)
(* The worker                                                              *)
(***************************************************************************)
(* Where the worker ends an item, its invariant says nothing.              *)
LEMMA Idle ==
    ASSUME IInv, Return PROVE LocalsOK' /\ WorkerInv'
<1>1. LocalsOK'
  BY BoundsAssumption DEF Return, LocalsOK, Steps
<1>2. WorkerInv'
  BY DEF Return, WorkerInv, OpenSteps
<1> QED
  BY <1>1, <1>2

(* Steps at which it says only that the row is OPEN.                       *)
PlainSteps == {"reconcile", "orphan", "decide", "recover", "ensure", "cover", "exit",
               "close", "sweep", "read", "selling", "settle"}

LEMMA Plain ==
    ASSUME IInv, pc # "idle", NEW step \in PlainSteps, Goto(step), step \in OpenSteps => IsOpen',
           tgt' \in 0..MaxOrders, plan' \in Nat
    PROVE  LocalsOK' /\ WorkerInv'
<1>1. pc' = step /\ work' = work /\ at' = at
  BY DEF Goto
<1>2. LocalsOK'
  BY <1>1, Typed DEF LocalsOK, Steps, PlainSteps
<1>3. WorkerInv'
  BY <1>1, Typed DEF WorkerInv, OpenSteps, PlainSteps
<1> QED
  BY <1>2, <1>3

LEMMA Ensured ==
    ASSUME IInv, pc # "idle", AfterEnsure, IsOpen' PROVE LocalsOK' /\ WorkerInv'
<1>1. CASE Return
  BY <1>1, Idle
<1>2. CASE Goto("exit") /\ tgt' = 0 /\ plan' = 0
  BY <1>2, Plain, BoundsAssumption DEF PlainSteps
<1> QED
  BY <1>1, <1>2 DEF AfterEnsure

(* The steps that change neither the row nor the orders.                   *)
LEMMA QuietSteps ==
    ASSUME IInv,
           \/ \E w \in {"BUY", "SELL", "BAR"} : Take(w)
           \/ ReconcileSkip \/ Skip \/ BeginClose \/ BeginBar \/ NoExit \/ OpenFail
           \/ NoStop \/ CannotCover \/ CoverFail \/ CloseRaises \/ CloseFail
    PROVE  IInv'
<1> USE DEF durable, market
<1>1. /\ UNCHANGED <<row, logged, orders, bar, held, resizing, feedReady, cool, emptyRead>>
      /\ reconciled' = reconciled \/ reconciled' = (reconciled \/ ~IsOpen)
  BY DEF Take, ReconcileSkip, Skip, BeginClose, BeginBar, NoExit, OpenFail, NoStop,
         CannotCover, CoverFail, CloseRaises, CloseFail
<1>2. RestOK'
  <2>1. reconciled' \in BOOLEAN
    BY <1>1, Typed, Zenon DEF RestOK
  <2> QED
    BY <1>1, <2>1, Typed, Zenon DEF RestOK
<1>3. IsOpen' = IsOpen /\ OrdersStep
  BY <1>1, SameOrders DEF IsOpen
<1>4. /\ tgt \in 0..MaxOrders /\ plan \in Nat
      /\ pc \in OpenSteps => IsOpen
  BY Typed DEF LocalsOK, WorkerInv
<1>5. ASSUME NEW w \in {"BUY", "SELL", "BAR"}, Take(w) PROVE LocalsOK' /\ WorkerInv'
  <2>1. /\ pc' = "reconcile" /\ work' = w /\ tgt' = tgt /\ plan' = plan
        /\ at' \in 1..bar
    BY <1>5 DEF Take
  <2>2. at' \in 1..MaxBars
    BY <2>1, Typed, BoundsAssumption DEF RestOK
  <2>3. LocalsOK'
    BY <1>4, <2>1, <2>2, BoundsAssumption DEF LocalsOK, Steps
  <2>4. WorkerInv'
    BY <2>1, <2>2 DEF WorkerInv, OpenSteps
  <2> QED
    BY <2>3, <2>4
<1>6. ASSUME ReconcileSkip PROVE LocalsOK' /\ WorkerInv'
  BY <1>4, <1>6, Plain DEF ReconcileSkip, PlainSteps, OpenSteps
<1>7. ASSUME BeginClose PROVE LocalsOK' /\ WorkerInv'
  BY <1>3, <1>4, <1>7, Plain DEF BeginClose, PlainSteps, OpenSteps
<1>8. ASSUME BeginBar PROVE LocalsOK' /\ WorkerInv'
  BY <1>3, <1>4, <1>8, Plain DEF BeginBar, PlainSteps
<1>9. ASSUME NoStop PROVE LocalsOK' /\ WorkerInv'
  BY <1>3, <1>4, <1>9, Plain DEF NoStop, PlainSteps, OpenSteps
<1>10. ASSUME CannotCover \/ CoverFail PROVE LocalsOK' /\ WorkerInv'
  BY <1>3, <1>4, <1>10, Ensured DEF CannotCover, CoverFail, OpenSteps
<1>11. ASSUME Skip \/ NoExit \/ OpenFail \/ CloseRaises \/ CloseFail PROVE LocalsOK' /\ WorkerInv'
  BY <1>11, Idle DEF Skip, NoExit, OpenFail, CloseRaises, CloseFail
<1>12. LocalsOK' /\ WorkerInv'
  BY <1>5, <1>6, <1>7, <1>8, <1>9, <1>10, <1>11
<1> QED
  BY <1>1, <1>2, <1>3, <1>12, FinishRow
-----------------------------------------------------------------------------
(* An order leaves: it is own, new, and not yet placed.                    *)
LEMMA Sent ==
    ASSUME IInv, NEW kind \in {"buy", "sell", "stop"}, NEW qty \in Nat \ {0},
           NEW b \in 1..MaxBars, Send(kind, qty, b)
    PROVE  /\ OrdersStep /\ tgt' \in 0..MaxOrders /\ tgt' \notin Ids
           /\ tgt' \in Ids' /\ orders'[tgt'].own /\ orders'[tgt'].kind = kind
           /\ orders'[tgt'].qty = qty
<1> DEFINE new == [kind |-> kind, own |-> TRUE, qty |-> qty, bar |-> b, state |-> "sent"]
<1>1. new \in OrderType /\ new.own /\ new.kind = kind /\ new.qty = qty
  BY Typed DEF RestOK, OrderType, OrderStates
<1>2. orders' = Append(orders, new) /\ Len(orders) < MaxOrders /\ tgt' = Len(orders) + 1
  BY DEF Send
<1>3. Len(orders) \in Nat
  BY OrdersTyped
<1> HIDE DEF new
<1>4. /\ OrdersStep /\ Len(orders) + 1 \notin Ids
      /\ Len(orders) + 1 \in Ids' /\ orders'[Len(orders) + 1] = new
      /\ Len(orders) + 1 \in 1 .. MaxOrders
  BY <1>1, <1>2, AppendKeeps
<1> QED
  BY <1>1, <1>2, <1>3, <1>4

LEMMA OpenKeeps == ASSUME IInv, Open PROVE IInv'
<1>1. /\ OrdersStep /\ tgt' \in 0..MaxOrders /\ tgt' \notin Ids
      /\ tgt' \in Ids' /\ orders'[tgt'].own /\ orders'[tgt'].kind = "buy"
  <2>1. at \in 1..MaxBars
    BY Typed, BoundsAssumption DEF Open, LocalsOK, WorkerInv
  <2> QED
    BY <2>1, Sent DEF Open
<1>2. /\ UNCHANGED <<row, logged, plan, cool, reconciled, emptyRead, bar, held, resizing,
                     feedReady>>
      /\ pc' = "opening" /\ UNCHANGED <<work, at>> /\ HasRoom /\ pc = "decide"
  BY DEF Open, Goto, durable, quiet
<1>3. LocalsOK'
  BY <1>1, <1>2, Typed DEF LocalsOK, Steps
<1>4. RestOK'
  BY <1>2, Typed, Zenon DEF RestOK
<1>5. IsOpen => row.qty <= Cardinality(Backed' \ {tgt'})
  <2>1. Backed \subseteq Backed' \ {tgt'}
    BY <1>1, BackedGrows DEF Backed
  <2>2. IsFiniteSet(Backed' \ {tgt'}) /\ Backed \in SUBSET (Backed' \ {tgt'})
    <3>1. (Backed' \ {tgt'}) \in SUBSET Backed'
      OBVIOUS
    <3> QED
      BY <1>1, <2>1, <3>1, BackedFiniteNext, FS_Subset
  <2>3. /\ Cardinality(Backed) <= Cardinality(Backed' \ {tgt'})
        /\ Cardinality(Backed) \in Nat /\ Cardinality(Backed' \ {tgt'}) \in Nat
    BY <2>2, BackedFinite, FS_Subset, FS_CardinalityType
  <2>4. IsOpen => row.qty <= Cardinality(Backed)
    BY DEF IInv, AttributionBacked, Backed
  <2>5. row.qty \in Nat
    BY Typed DEF RowOK
  <2> QED
    BY <2>3, <2>4, <2>5
<1>6. IsOpen' = IsOpen /\ HasRoom' = HasRoom
  BY <1>2 DEF IsOpen, HasRoom
<1>7. WorkerInv'
  BY <1>1, <1>2, <1>5, <1>6, Typed DEF WorkerInv, OwnId, OpenSteps
<1> QED
  BY <1>1, <1>2, <1>3, <1>4, <1>7, FinishRow

LEMMA CoverKeeps == ASSUME IInv, Cover PROVE IInv' /\ orders'[tgt'].qty <= row.qty /\ IsOpen
<1>1. Reducible(row.qty, Visible) \in Nat \ {0} /\ Reducible(row.qty, Visible) <= row.qty
  <2>1. Visible \in Int /\ row.qty \in Nat
    BY Typed DEF Visible, RestOK, RowOK
  <2> QED
    BY <2>1 DEF Cover, Reducible
<1>2. PICK q \in Nat \ {0} : q = Reducible(row.qty, Visible)
  BY <1>1
<1>3. /\ OrdersStep /\ tgt' \in 0..MaxOrders
      /\ tgt' \in Ids' /\ orders'[tgt'].own /\ orders'[tgt'].qty = q
  BY <1>2, Sent, Typed DEF Cover, RestOK
<1>4. /\ UNCHANGED <<row, logged, plan, cool, reconciled, emptyRead, bar, held, resizing,
                     feedReady>>
      /\ pc' = "covering" /\ UNCHANGED <<work, at>> /\ IsOpen /\ pc = "cover"
  BY Typed DEF Cover, Goto, durable, quiet, WorkerInv, OpenSteps
<1>5. LocalsOK'
  BY <1>3, <1>4, Typed DEF LocalsOK, Steps
<1>6. RestOK'
  BY <1>4, Typed, Zenon DEF RestOK
<1>7. WorkerInv'
  BY <1>3, <1>4, Typed DEF WorkerInv, OwnId, OpenSteps, IsOpen
<1> QED
  BY <1>1, <1>2, <1>3, <1>4, <1>5, <1>6, <1>7, FinishRow

LEMMA SellKeeps == ASSUME IInv, Sell PROVE IInv' /\ orders'[tgt'].qty <= row.qty /\ IsOpen
<1>1. IsOpen /\ plan \in Nat \ {0} /\ plan <= row.qty
  BY Typed DEF Sell, WorkerInv, OpenSteps, LocalsOK
<1>2. OrdersStep /\ tgt' \in 0..MaxOrders /\ orders'[tgt'].qty = plan
  BY <1>1, Sent, Typed DEF Sell, RestOK
<1>3. /\ UNCHANGED <<row, logged, plan, cool, reconciled, emptyRead, bar, held, resizing,
                     feedReady>>
      /\ Goto("selling") /\ pc = "sell"
  BY DEF Sell, durable, quiet
<1>4. RestOK'
  BY <1>3, Typed, Zenon DEF RestOK
<1>5. IsOpen'
  BY <1>1, <1>3 DEF IsOpen
<1>6. LocalsOK' /\ WorkerInv'
  BY <1>1, <1>2, <1>3, <1>5, Plain DEF PlainSteps
<1> QED
  BY <1>1, <1>2, <1>3, <1>4, <1>6, FinishRow
-----------------------------------------------------------------------------
(* The cancels.                                                            *)
LEMMA CancelSteps ==
    ASSUME IInv, ReconcileCancel \/ Recover \/ CancelTracked \/ Sweep PROVE IInv'
<1>1. row.stop \in 0..MaxOrders /\ (row.stop # 0 => OwnId(row.stop))
  BY Typed DEF RowOK, IInv
<1>2. OrdersStep
  <2>1. \E S : CancelRequested(S) /\ \A o \in S \intersect Ids : OwnId(o)
    <3>1. CASE ReconcileCancel \/ CancelTracked
      BY <1>1, <3>1 DEF ReconcileCancel, CancelTracked
    <3>2. CASE Recover
      <4>1. CancelRequested({row.stop})
        BY <3>2 DEF Recover
      <4>2. \A o \in {row.stop} \intersect Ids : OwnId(o)
        BY <1>1, OrdersTyped
      <4> QED
        BY <4>1, <4>2
    <3>3. CASE Sweep
      <4>1. PICK own \in OwnReads : CancelRequested(own \ {tgt})
        BY <3>3 DEF Sweep
      <4>2. \A o \in own : OwnId(o)
        BY <4>1 DEF OwnReads, OwnLive, IsOwn, OwnId
      <4> QED
        BY <4>1, <4>2
    <3> QED
      BY <3>1, <3>2, <3>3
  <2> QED
    BY <2>1, CancelKeeps
<1>3. /\ UNCHANGED <<logged, cool, emptyRead, bar, held, resizing, feedReady, plan>>
      /\ tgt' \in {tgt, row.stop}
      /\ reconciled' = reconciled \/ reconciled' = TRUE
      /\ row' = row \/ row' = [row EXCEPT !.stop = 0]
  BY DEF ReconcileCancel, Recover, CancelTracked, Sweep, durable, quiet
<1>4. RestOK'
  <2>1. reconciled' \in BOOLEAN
    BY <1>3, Typed, Zenon DEF RestOK
  <2> QED
    BY <1>3, <2>1, Typed, Zenon DEF RestOK
<1>5. /\ RowOK' /\ row'.status = row.status /\ row'.qty = row.qty /\ row'.lots = row.lots
      /\ row'.stop \in {row.stop, 0}
  BY <1>3, Typed, BoundsAssumption DEF RowOK
<1>6. LocalsOK' /\ WorkerInv'
  <2>1. pc \in {"recover", "close", "sweep"} => IsOpen'
    BY <1>5, Typed DEF WorkerInv, OpenSteps, IsOpen
  <2>2. \E step \in PlainSteps : Goto(step) /\ (step \in OpenSteps => IsOpen')
    BY <2>1 DEF ReconcileCancel, Recover, CancelTracked, Sweep, PlainSteps, OpenSteps
  <2>3. tgt' \in 0..MaxOrders /\ plan' \in Nat /\ pc # "idle"
    BY <1>1, <1>3, Typed DEF LocalsOK, ReconcileCancel, Recover, CancelTracked, Sweep
  <2> QED
    BY <2>2, <2>3, Plain
<1>7. row'.stop # 0 => row'.stop \in Ids' /\ orders'[row'.stop].own
  BY <1>1, <1>2, <1>5 DEF OrdersStep, OwnId
<1> QED
  BY <1>2, <1>4, <1>5, <1>6, <1>7, Finish DEF IsOpen
-----------------------------------------------------------------------------
(* The steps that write the row, or log a decision, and leave the orders.  *)
LEMMA RowSteps ==
    ASSUME IInv, UNCHANGED <<bar, orders, held, resizing, feedReady>>,
           RowOK', LocalsOK', WorkerInv',
           logged' \subseteq 1..MaxBars, emptyRead' \in {"none", "recent", "old"},
           cool' = cool \/ cool' = TRUE, reconciled' = reconciled \/ reconciled' = TRUE,
           row'.status = "OPEN" => IsOpen /\ row'.qty = row.qty /\ row'.lots = row.lots,
           row'.stop # 0 => OwnId(row'.stop)
    PROVE  IInv'
<1>1. RestOK'
  <2>1. cool' \in BOOLEAN /\ reconciled' \in BOOLEAN
    BY Typed, Zenon DEF RestOK
  <2> QED
    BY <2>1, Typed, Zenon DEF RestOK
<1>2. OrdersStep
  BY SameOrders
<1>3. row'.stop # 0 => row'.stop \in Ids' /\ orders'[row'.stop].own
  BY DEF OwnId, Ids
<1> QED
  BY <1>1, <1>2, <1>3, Finish

LEMMA ReconcileReadKeeps == ASSUME IInv, ReconcileRead PROVE IInv'
<1>1. /\ UNCHANGED <<logged, tgt, plan, cool, bar, orders, held, resizing, feedReady>>
      /\ row' = row \/ row' = [row EXCEPT !.status = "CLOSED_EXTERNALLY"]
      /\ reconciled' = reconciled \/ reconciled' = TRUE
      /\ emptyRead' \in {emptyRead, "none", "recent"}
      /\ Goto("decide") \/ Goto("orphan")
      /\ pc = "reconcile"
  BY DEF ReconcileRead, market
<1>2. /\ RowOK' /\ row'.qty = row.qty /\ row'.lots = row.lots /\ row'.stop = row.stop
      /\ row'.status \in {row.status, "CLOSED_EXTERNALLY"}
  BY <1>1, Typed DEF RowOK, RowStates
<1>3. LocalsOK' /\ WorkerInv'
  BY <1>1, Typed, Plain DEF PlainSteps, OpenSteps, LocalsOK
<1>4. /\ logged' \subseteq 1..MaxBars /\ emptyRead' \in {"none", "recent", "old"}
      /\ row'.stop # 0 => OwnId(row'.stop)
      /\ row'.status = "OPEN" => IsOpen
  BY <1>1, <1>2, Typed DEF RestOK, IInv, IsOpen
<1> QED
  BY <1>1, <1>2, <1>3, <1>4, RowSteps

LEMMA LogSteps == ASSUME IInv, OpenOk \/ CloseOk PROVE IInv'
<1>1. /\ UNCHANGED <<row, tgt, plan, cool, reconciled, emptyRead, bar, orders, held,
                     resizing, feedReady, work, at>>
      /\ logged' = logged \union {at}
      /\ Answered /\ pc # "idle"
  BY DEF OpenOk, CloseOk, Goto, market
<1>2. logged' \subseteq 1..MaxBars /\ RowOK' /\ IsOpen' = IsOpen /\ HasRoom' = HasRoom
  BY <1>1, Typed, BoundsAssumption DEF RestOK, RowOK, IsOpen, HasRoom, LocalsOK, WorkerInv
<1>3. LocalsOK' /\ WorkerInv'
  <2>1. CASE CloseOk
    BY <1>1, <1>2, <2>1, Typed, Plain DEF CloseOk, PlainSteps, OpenSteps, LocalsOK, WorkerInv
  <2>2. CASE OpenOk
    <3>1. pc = "opening" /\ pc' = "attribute"
      BY <2>2 DEF OpenOk, Goto
    <3>2. LocalsOK'
      BY <1>1, <3>1, Typed DEF LocalsOK, Steps
    <3>3. tgt \in Backed
      BY <1>1, <3>1, Typed DEF WorkerInv, OwnId, Backed, Answered
    <3>4. Backed' = Backed
      BY <1>1 DEF Backed, Ids
    <3>5. HasRoom /\ (IsOpen => row.qty <= Cardinality(Backed \ {tgt}))
      BY <3>1, Typed DEF WorkerInv
    <3>6. tgt' = tgt /\ row' = row
      BY <1>1
    <3>7. tgt' \in Backed' /\ (IsOpen' => row'.qty <= Cardinality(Backed' \ {tgt'}))
      BY <1>2, <3>3, <3>4, <3>5, <3>6
    <3>8. WorkerInv'
      BY <1>1, <1>2, <3>1, <3>5, <3>7, Typed DEF WorkerInv, OpenSteps
    <3> QED
      BY <3>2, <3>8
  <2> QED
    BY <2>1, <2>2
<1>4. row'.stop # 0 => OwnId(row'.stop)
  BY <1>1 DEF IInv
<1> QED
  BY <1>1, <1>2, <1>3, <1>4, Typed, RowSteps DEF RestOK, IsOpen
LEMMA RowAdd ==
    ASSUME NEW r \in [status : RowStates, qty : Nat, lots : Nat, stop : 0..MaxOrders]
    PROVE  [r EXCEPT !.qty = r.qty + 1, !.lots = r.lots + 1]
             = [status |-> r.status, qty |-> r.qty + 1, lots |-> r.lots + 1, stop |-> r.stop]
<1> DEFINE s == [r EXCEPT !.qty = r.qty + 1]
           t == [status |-> r.status, qty |-> r.qty + 1, lots |-> r.lots, stop |-> r.stop]
<1>1. s = t
  OBVIOUS
<1>2. [t EXCEPT !.lots = r.lots + 1]
        = [status |-> r.status, qty |-> r.qty + 1, lots |-> r.lots + 1, stop |-> r.stop]
  OBVIOUS
<1> QED
  BY <1>1, <1>2, Zenon

(* An open is attributed: its order was placed, and is not yet counted.    *)
LEMMA AttributeKeeps == ASSUME IInv, Attribute PROVE IInv'
<1>1. /\ UNCHANGED <<logged, tgt, plan, reconciled, emptyRead, bar, orders, held, resizing,
                     feedReady>>
      /\ row' = IF IsOpen THEN [row EXCEPT !.qty = @ + 1, !.lots = @ + 1]
                ELSE [status |-> "OPEN", qty |-> 1, lots |-> 1, stop |-> 0]
      /\ cool' = TRUE
      /\ Goto("recover") \/ Goto("ensure")
      /\ pc = "attribute"
  BY DEF Attribute, market
<1>2. /\ RowOK /\ HasRoom /\ tgt \in Backed
      /\ IsOpen => row.qty <= Cardinality(Backed \ {tgt}) /\ row.qty = row.lots
  BY <1>1, Typed DEF WorkerInv, IInv, PyramidBound
<1>3. RowOK' /\ row'.status = "OPEN"
  <2>1. CASE IsOpen
    <3>1. row' = [row EXCEPT !.qty = row.qty + 1, !.lots = row.lots + 1]
      BY <1>1, <2>1
    <3>2. row' = [status |-> "OPEN", qty |-> row.qty + 1, lots |-> row.lots + 1,
                  stop |-> row.stop]
      BY <1>2, <2>1, <3>1, RowAdd DEF RowOK, IsOpen
    <3> QED
      BY <1>2, <3>2 DEF RowOK, RowStates
  <2>2. CASE ~IsOpen
    <3>1. row' = [status |-> "OPEN", qty |-> 1, lots |-> 1, stop |-> 0]
      BY <1>1, <2>2
    <3> QED
      BY <3>1, BoundsAssumption DEF RowOK, RowStates
  <2> QED
    BY <2>1, <2>2
<1>4. row'.stop # 0 => OwnId(row'.stop)
  BY <1>1, <1>2 DEF IInv, RowOK
<1>5. PyramidBound'
  BY <1>1, <1>2, BoundsAssumption DEF PyramidBound, RowOK, HasRoom, IsOpen
<1>6. row'.qty <= Cardinality(Backed)
  <2>1. Cardinality(Backed) \in Nat /\ Cardinality(Backed \ {tgt}) = Cardinality(Backed) - 1
    BY <1>2, BackedFinite, FS_RemoveElement
  <2>2. Cardinality(Backed \ {tgt}) \in Nat
    BY BackedFinite
  <2> QED
    BY <1>1, <1>2, <2>1, <2>2 DEF RowOK
<1>7. AttributionBacked'
  BY <1>1, <1>6 DEF AttributionBacked, Backed, Ids
<1>8. LocalsOK' /\ WorkerInv'
  BY <1>1, <1>3, Typed, Plain DEF PlainSteps, LocalsOK, IsOpen
<1>9. RestOK'
  <2>1. cool' \in BOOLEAN
    BY <1>1, Zenon
  <2> QED
    BY <1>1, <2>1, Typed, Zenon DEF RestOK
<1>10. OrdersStep
  BY <1>1, SameOrders
<1>11. ManualUntouched' /\ orders' \in Seq(OrderType)
  BY <1>10 DEF OrdersStep, ManualUntouched
<1>12. (row.stop # 0 => OwnId(row.stop))'
  BY <1>1, <1>4 DEF OwnId, Ids
<1> QED
  BY <1>3, <1>5, <1>7, <1>8, <1>9, <1>10, <1>11, <1>12, TypeStep DEF IInv

LEMMA CloseSteps == ASSUME IInv, AttributeUnknown \/ Settle \/ ReadForClose PROVE IInv'
<1>1. /\ UNCHANGED <<logged, reconciled, emptyRead, bar, orders, held, resizing, feedReady>>
      /\ cool' = cool \/ cool' = TRUE
  BY DEF AttributeUnknown, Settle, ReadForClose, market
<1>2. logged' \subseteq 1..MaxBars /\ emptyRead' \in {"none", "recent", "old"}
  BY <1>1, Typed DEF RestOK
<1>3. RowOK /\ (row.stop # 0 => OwnId(row.stop)) /\ (pc = "read" => IsOpen)
  BY Typed DEF IInv, WorkerInv, OpenSteps
<1>4. ASSUME row' = [status |-> "UNKNOWN", qty |-> 0, lots |-> 1, stop |-> 0]
             \/ row' = [row EXCEPT !.status = "CLOSED"]
             \/ row' = [row EXCEPT !.status = "CLOSED_EXTERNALLY"], Return
      PROVE  IInv'
  <2>1. /\ RowOK' /\ row'.status # "OPEN"
        /\ row'.stop # 0 => OwnId(row'.stop)
    BY <1>3, <1>4, BoundsAssumption DEF RowOK, RowStates
  <2> QED
    BY <1>1, <1>2, <1>4, <2>1, Idle, RowSteps
<1>5. CASE AttributeUnknown \/ Settle
  BY <1>4, <1>5 DEF AttributeUnknown, Settle
<1>6. CASE ReadForClose
  <2>1. CASE Reducible(row.qty, Visible) = 0
    BY <1>4, <1>6, <2>1 DEF ReadForClose
  <2>2. CASE Reducible(row.qty, Visible) # 0
    <3>1. /\ plan' = Reducible(row.qty, Visible) /\ pc' = "sell" /\ pc = "read"
          /\ UNCHANGED <<row, tgt, work, at>>
      BY <1>6, <2>2 DEF ReadForClose, Goto
    <3>2. plan' \in Nat /\ plan' # 0 /\ plan' <= row.qty
      <4>1. Visible \in Int /\ row.qty \in Nat
        BY Typed DEF Visible, RestOK, RowOK
      <4> QED
        BY <2>2, <3>1, <4>1 DEF Reducible
    <3>3. LocalsOK'
      BY <3>1, <3>2, Typed DEF LocalsOK, Steps
    <3>4. IsOpen /\ IsOpen'
      BY <1>3, <1>6, <3>1 DEF ReadForClose, IsOpen
    <3>5. WorkerInv'
      BY <3>1, <3>2, <3>4, Typed DEF WorkerInv, OpenSteps
    <3>6. RowOK'
      BY <1>3, <3>1 DEF RowOK
    <3> QED
      BY <1>1, <1>2, <1>3, <3>1, <3>3, <3>4, <3>5, <3>6, RowSteps
  <2> QED
    BY <2>1, <2>2
<1> QED
  BY <1>5, <1>6

LEMMA StopSteps == ASSUME IInv, VerifyStop \/ CoverOk PROVE IInv'
<1>1. /\ UNCHANGED <<logged, cool, reconciled, emptyRead, bar, orders, held, resizing,
                     feedReady>>
      /\ IsOpen
  BY Typed DEF VerifyStop, CoverOk, market, WorkerInv, OpenSteps
<1>2. PICK s : row' = row \/ (row' = [row EXCEPT !.stop = s] /\ (s = 0 \/ OwnId(s)))
  <2>1. CASE CoverOk
    BY <2>1, Typed DEF CoverOk, WorkerInv
  <2>2. CASE VerifyStop
    BY <2>2 DEF VerifyStop, OwnReads, OwnLive, IsOwn, OwnId
  <2> QED
    BY <2>1, <2>2
<1>3. OwnId(s) => s \in 0..MaxOrders
  BY OrdersTyped, BoundsAssumption DEF OwnId
<1>4. /\ RowOK' /\ row'.status = "OPEN" /\ row'.qty = row.qty /\ row'.lots = row.lots
      /\ row'.stop # 0 => OwnId(row'.stop)
  BY <1>1, <1>2, <1>3, Typed, BoundsAssumption DEF RowOK, IInv, IsOpen
<1>5. LocalsOK' /\ WorkerInv'
  <2>1. pc # "idle" /\ (AfterEnsure \/ (Goto("cover") /\ UNCHANGED <<tgt, plan>>))
    BY DEF VerifyStop, CoverOk
  <2> QED
    BY <1>4, <2>1, Ensured, Plain, Typed DEF PlainSteps, LocalsOK, IsOpen
<1>6. logged' \subseteq 1..MaxBars /\ emptyRead' \in {"none", "recent", "old"}
  BY <1>1, Typed DEF RestOK
<1> QED
  BY <1>1, <1>4, <1>5, <1>6, RowSteps DEF IsOpen
-----------------------------------------------------------------------------
LEMMA Initially == Init => IInv
<1> SUFFICES ASSUME Init PROVE IInv
  OBVIOUS
<1>1. orders = <<>> /\ orders \in Seq(OrderType) /\ Ids = {} /\ Len(orders) = 0
  BY DEF Init, Ids
<1>2. RowOK /\ LocalsOK
  BY BoundsAssumption DEF Init, RowOK, LocalsOK, RowStates, Steps
<1>3. RestOK
  <2>1. cool \in BOOLEAN /\ reconciled \in BOOLEAN /\ resizing \in BOOLEAN /\ feedReady \in BOOLEAN
    BY Zenon DEF Init
  <2>2. /\ logged \subseteq 1..MaxBars /\ emptyRead \in {"none", "recent", "old"}
        /\ bar \in 1..MaxBars /\ held \in Int
    BY BoundsAssumption DEF Init
  <2> QED
    BY <2>1, <2>2, Zenon DEF RestOK
<1>4. TypeOK
  BY <1>1, <1>2, <1>3, BoundsAssumption DEF TypeOK, RowOK, LocalsOK, RestOK
<1>5. row.status = "NONE" /\ row.stop = 0 /\ pc = "idle"
  BY DEF Init
<1>6. WorkerInv /\ PyramidBound /\ AttributionBacked /\ ManualUntouched
  BY <1>1, <1>5 DEF WorkerInv, OpenSteps, PyramidBound, AttributionBacked, ManualUntouched, IsOpen
<1> QED
  BY <1>1, <1>4, <1>5, <1>6 DEF IInv

LEMMA StepKeeps == ASSUME IInv, [Next]_vars PROVE IInv'
<1>1. CASE WorkerStep
  BY <1>1, QuietSteps, OpenKeeps, CoverKeeps, SellKeeps, CancelSteps, ReconcileReadKeeps,
     LogSteps, AttributeKeeps, CloseSteps, StopSteps DEF WorkerStep
<1>2. CASE UNCHANGED vars
  BY <1>2, SameOrders, AroundWorker, Typed DEF vars, RestOK
<1> QED
  BY <1>1, <1>2, QuietSteps, BrokerKeeps, OperatorKeeps, ClockKeeps, CrashKeeps DEF Next

THEOREM Invariance == Spec => []IInv
BY Initially, StepKeeps, PTL DEF Spec

(* Every variable keeps its type, the ids of the orders included.          *)
THEOREM TypeCorrect == Spec => []TypeOK
<1>1. IInv => TypeOK
  BY DEF IInv
<1> QED
  BY <1>1, Invariance, PTL

(* The OPEN row never stacks more than one lot and pyramid_max_adds, with  *)
(* one share to each, whatever fails, times out or is cut off.             *)
THEOREM StackBounded == Spec => []PyramidBound
<1>1. IInv => PyramidBound
  BY DEF IInv
<1> QED
  BY <1>1, Invariance, PTL

(* What the OPEN row attributes was placed with the broker.                *)
THEOREM PlacedFirst == Spec => []AttributionBacked
<1>1. IInv => AttributionBacked
  BY DEF IInv
<1> QED
  BY <1>1, Invariance, PTL

(* No cancel of the executor, or of a resize of its stops, reaches a       *)
(* manual order.                                                           *)
THEOREM ManualSafe == Spec => []ManualUntouched
<1>1. IInv => ManualUntouched
  BY DEF IInv
<1> QED
  BY <1>1, Invariance, PTL

(* What is sold, or covered by a stop, is at most what the row attributes. *)
THEOREM SalesAttributed == Spec => SellsWithinAttribution
<1> DEFINE Sale == (pc = "sell" \/ pc = "cover") /\ pc' \in {"selling", "covering"}
                     => orders'[tgt'].qty <= row.qty /\ IsOpen
<1>1. ASSUME IInv, [Next]_vars PROVE [Sale]_vars
  <2>1. SUFFICES ASSUME pc = "sell" \/ pc = "cover", pc' \in {"selling", "covering"}, Next
                 PROVE  orders'[tgt'].qty <= row.qty /\ IsOpen
    BY <1>1
  <2>2. Cover \/ Sell
    BY <2>1 DEF Next, Take, WorkerStep, ReconcileSkip, ReconcileRead, ReconcileCancel, Skip,
       Open, BeginClose, BeginBar, NoExit, OpenOk, OpenFail, Attribute, AttributeUnknown,
       Recover, VerifyStop, NoStop, CannotCover, CoverOk, CoverFail, CancelTracked, Sweep,
       ReadForClose, CloseRaises, CloseOk, Settle, CloseFail, BrokerStep, Place, Refuse, Fill,
       Cancelled, SetState, OperatorStep, OperatorTrade, ManualStop, ResizeCreate,
       ResizeFails, ResizeCancel, ClockStep, NextBar, CoolOff, GraceElapses, FeedUp, FeedDown,
       Crash, memory, Goto, Return, AfterEnsure
  <2> QED
    BY <1>1, <2>2, CoverKeeps, SellKeeps
<1> QED
  BY <1>1, Invariance, PTL DEF Spec, SellsWithinAttribution
-----------------------------------------------------------------------------
(***************************************************************************)
(* What becomes of the orders                                              *)
(***************************************************************************)
(* An order keeps its kind, owner and bar; what is refused or cancelled    *)
(* stays so, nothing becomes "sent" again, and only what was sent becomes  *)
(* live.                                                                   *)
Dead == {"refused", "cancelled"}
Advance ==
    /\ Ids \subseteq Ids'
    /\ \A o \in Ids :
          /\ orders'[o].kind = orders[o].kind /\ orders'[o].own = orders[o].own
          /\ orders'[o].bar = orders[o].bar
          /\ orders[o].state \in Dead => orders'[o].state = orders[o].state
          /\ orders'[o].state = "sent" => orders[o].state = "sent"
          /\ orders'[o].state = "live" => orders[o].state \in {"sent", "live"}

(* A new order was sent by the worker, or is a stop that a human or a      *)
(* resize placed.                                                          *)
NewOrder(o) ==
    \/ /\ Open /\ o = tgt' /\ orders'[o].kind = "buy"
       /\ orders'[o].bar = at /\ orders'[o].state = "sent"
    \/ Cover /\ o = tgt' /\ orders'[o].kind = "stop" /\ orders'[o].state = "sent"
    \/ Sell /\ o = tgt' /\ orders'[o].kind = "sell" /\ orders'[o].state = "sent"
    \/ /\ ManualStop \/ ResizeCreate
       /\ orders'[o].kind = "stop" /\ orders'[o].state = "live" /\ orders'[o].bar = bar

LEMMA Cancelling ==
    ASSUME IInv, NEW S, CancelRequested(S) PROVE Advance /\ Ids' = Ids
<1>1. PICK done \in SUBSET S :
          orders' = [o \in Ids |-> IF o \in done /\ orders[o].state = "live"
                                   THEN [orders[o] EXCEPT !.state = "cancelling"]
                                   ELSE orders[o]]
  BY DEF CancelRequested
<1>2. Ids' = Ids
  BY <1>1 DEF Ids
<1>3. ASSUME NEW o \in Ids
      PROVE  /\ orders'[o].kind = orders[o].kind /\ orders'[o].own = orders[o].own
             /\ orders'[o].bar = orders[o].bar
             /\ orders[o].state \in Dead => orders'[o].state = orders[o].state
             /\ orders'[o].state = "sent" => orders[o].state = "sent"
             /\ orders'[o].state = "live" => orders[o].state \in {"sent", "live"}
  <2>1. orders[o] \in OrderType
    BY OrdersTyped
  <2>2. CASE o \in done /\ orders[o].state = "live"
    BY <1>1, <2>1, <2>2 DEF Dead, OrderType
  <2>3. CASE ~(o \in done /\ orders[o].state = "live")
    BY <1>1, <2>1, <2>3 DEF OrderType
  <2> QED
    BY <2>2, <2>3
<1> QED
  BY <1>2, <1>3 DEF Advance

LEMMA Stating ==
    ASSUME IInv, NEW o \in Ids, NEW st \in OrderStates \ {"sent"}, orders[o].state \notin Dead,
           st = "live" => orders[o].state = "sent", orders' = [orders EXCEPT ![o].state = st]
    PROVE  Advance /\ Ids' = Ids
<1>1. \A x \in Ids : orders'[x] = IF x = o THEN [orders[x] EXCEPT !.state = st] ELSE orders[x]
  BY OrdersTyped DEF Ids
<1>2. Ids' = Ids
  BY OrdersTyped DEF Ids
<1>3. ASSUME NEW x \in Ids
      PROVE  /\ orders'[x].kind = orders[x].kind /\ orders'[x].own = orders[x].own
             /\ orders'[x].bar = orders[x].bar
             /\ orders[x].state \in Dead => orders'[x].state = orders[x].state
             /\ orders'[x].state = "sent" => orders[x].state = "sent"
             /\ orders'[x].state = "live" => orders[x].state \in {"sent", "live"}
  <2>1. orders[x] \in OrderType
    BY OrdersTyped
  <2>2. CASE x = o
    BY <1>1, <2>1, <2>2 DEF OrderType
  <2>3. CASE x # o
    BY <1>1, <2>1, <2>3 DEF OrderType
  <2> QED
    BY <2>2, <2>3
<1> QED
  BY <1>2, <1>3 DEF Advance

LEMMA Appending ==
    ASSUME IInv, NEW new \in OrderType, orders' = Append(orders, new)
    PROVE  /\ Advance /\ Ids' = Ids \union {Len(orders) + 1}
           /\ orders'[Len(orders) + 1] = new
<1>1. orders \in Seq(OrderType) /\ Len(orders) \in Nat /\ Ids = 1 .. Len(orders)
  BY OrdersTyped
<1>2. /\ orders' \in Seq(OrderType) /\ Len(orders') = Len(orders) + 1
      /\ \A o \in 1 .. Len(orders) : orders'[o] = orders[o]
      /\ orders'[Len(orders) + 1] = new
  BY <1>1, AppendProperties
<1>3. Ids' = 1 .. Len(orders) + 1
  BY <1>2, LenProperties DEF Ids
<1>4. Ids' = Ids \union {Len(orders) + 1}
  BY <1>1, <1>3
<1>5. Advance
  BY <1>1, <1>2, <1>4 DEF Advance
<1> QED
  BY <1>2, <1>4, <1>5

LEMMA OrderAdvances ==
    ASSUME IInv, [Next]_vars PROVE Advance /\ \A o \in Ids' \ Ids : NewOrder(o)
<1>1. CASE UNCHANGED orders
  BY <1>1 DEF Advance, Ids
<1>2. ASSUME NEW S, CancelRequested(S) PROVE Advance /\ Ids' = Ids
  BY <1>2, Cancelling
<1>3. ASSUME NEW o \in Ids, Place(o) \/ Refuse(o) \/ Fill(o) \/ Cancelled(o) \/ ResizeCancel(o)
      PROVE  Advance /\ Ids' = Ids
  <2>1. PICK st \in {"live", "refused", "filled", "cancelled", "cancelling"} :
           /\ orders' = [orders EXCEPT ![o].state = st]
           /\ orders[o].state \in {"sent", "live", "cancelling"}
           /\ st = "live" => orders[o].state = "sent"
    BY <1>3 DEF Place, Refuse, Fill, Cancelled, ResizeCancel, SetState, IsOwn
  <2> QED
    BY <2>1, Stating DEF OrderStates, Dead
<1>4. ASSUME NEW kind \in {"buy", "sell", "stop"}, NEW qty \in Nat \ {0}, NEW b \in 1..MaxBars,
             Send(kind, qty, b)
      PROVE  Advance /\ \A o \in Ids' \ Ids : /\ o = tgt' /\ orders'[o].kind = kind
                                              /\ orders'[o].bar = b /\ orders'[o].state = "sent"
  <2> DEFINE new == [kind |-> kind, own |-> TRUE, qty |-> qty, bar |-> b, state |-> "sent"]
  <2>1. new \in OrderType /\ orders' = Append(orders, new) /\ tgt' = Len(orders) + 1
    BY <1>4 DEF Send, OrderType, OrderStates
  <2>2. new.kind = kind /\ new.bar = b /\ new.state = "sent"
    OBVIOUS
  <2> HIDE DEF new
  <2> QED
    BY <2>1, <2>2, Appending
<1>5. CASE Open
  <2>1. at \in 1..MaxBars
    BY <1>5, Typed, BoundsAssumption DEF Open, LocalsOK, WorkerInv
  <2>2. Send("buy", 1, at)
    BY <1>5 DEF Open
  <2> QED
    BY <1>4, <1>5, <2>1, <2>2 DEF NewOrder
<1>6. bar \in 1..MaxBars /\ Visible \in Int /\ row.qty \in Nat
  BY Typed DEF RestOK, RowOK, Visible
<1>7. CASE Cover
  <2>1. PICK q \in Nat \ {0} : q = Reducible(row.qty, Visible)
    BY <1>6, <1>7 DEF Cover, Reducible
  <2>2. Send("stop", q, bar)
    BY <1>7, <2>1 DEF Cover
  <2> QED
    BY <1>4, <1>6, <1>7, <2>2 DEF NewOrder
<1>8. CASE Sell
  <2>1. plan \in Nat \ {0} /\ Send("sell", plan, bar)
    BY <1>8, Typed DEF Sell, LocalsOK, WorkerInv
  <2> QED
    BY <1>4, <1>6, <1>8, <2>1 DEF NewOrder
<1>9. CASE ManualStop \/ ResizeCreate
  <2>1. PICK own \in BOOLEAN, q \in Nat \ {0} :
           orders' = Append(orders, [kind |-> "stop", own |-> own, qty |-> q, bar |-> bar,
                                     state |-> "live"])
    <3>1. CASE ManualStop
      <4>1. 1 \in Nat \ {0} /\ FALSE \in BOOLEAN
        OBVIOUS
      <4> QED
        BY <3>1, <4>1, Zenon DEF ManualStop
    <3>2. CASE ResizeCreate
      <4>1. PICK q \in 1..(MaxAdds + 1) :
               orders' = Append(orders, [kind |-> "stop", own |-> TRUE, qty |-> q,
                                         bar |-> bar, state |-> "live"])
        BY <3>2 DEF ResizeCreate
      <4>2. q \in Nat \ {0} /\ TRUE \in BOOLEAN
        BY BoundsAssumption
      <4> QED
        BY <4>1, <4>2, Zenon
    <3> QED
      BY <1>9, <3>1, <3>2
  <2> DEFINE new == [kind |-> "stop", own |-> own, qty |-> q, bar |-> bar, state |-> "live"]
  <2>2. new \in OrderType /\ orders' = Append(orders, new)
    BY <1>6, <2>1 DEF OrderType, OrderStates
  <2>3. new.kind = "stop" /\ new.bar = bar /\ new.state = "live"
    OBVIOUS
  <2> HIDE DEF new
  <2> QED
    BY <1>9, <2>2, <2>3, Appending DEF NewOrder
<1>10. CASE ReconcileCancel \/ Recover \/ CancelTracked \/ Sweep
  BY <1>2, <1>10 DEF ReconcileCancel, Recover, CancelTracked, Sweep
<1>11. CASE WorkerStep
  BY <1>1, <1>5, <1>7, <1>8, <1>10, <1>11 DEF WorkerStep, ReconcileSkip, ReconcileRead, Skip,
     BeginClose, BeginBar, NoExit, OpenOk, OpenFail, Attribute, AttributeUnknown, VerifyStop,
     NoStop, CannotCover, CoverOk, CoverFail, ReadForClose, CloseRaises, CloseOk, Settle,
     CloseFail, market
<1>12. CASE BrokerStep
  BY <1>3, <1>12 DEF BrokerStep
<1>13. CASE OperatorStep
  BY <1>1, <1>3, <1>9, <1>13 DEF OperatorStep, OperatorTrade, ResizeFails
<1>14. CASE ~WorkerStep /\ ~BrokerStep /\ ~OperatorStep
  BY <1>1, <1>14 DEF Next, Take, ClockStep, NextBar, CoolOff, GraceElapses, FeedUp, FeedDown,
     Crash, vars, market
<1> QED
  BY <1>11, <1>12, <1>13, <1>14
-----------------------------------------------------------------------------
(***************************************************************************)
(* One lot per bar, when every call is answered and nothing restarts: a    *)
(* buy that was not refused or killed is about a logged bar, or is the one *)
(* in flight.  An open that timed out, or was cut off before its decision  *)
(* is logged, may be sent again for the same bar.                          *)
(***************************************************************************)
AliveBuy(o) == orders[o].kind = "buy" /\ orders[o].state \notin Dead

BuysInv ==
    /\ \A o \in Ids : AliveBuy(o) => orders[o].bar \in logged \/ (pc = "opening" /\ o = tgt)
    /\ \A o1, o2 \in Ids :
          AliveBuy(o1) /\ AliveBuy(o2) /\ orders[o1].bar = orders[o2].bar => o1 = o2
    /\ pc = "opening" => orders[tgt].bar = at

LEMMA Opening ==
    ASSUME [Next]_vars, "timeout" \notin Faults, "crash" \notin Faults
    PROVE  /\ logged \subseteq logged'
           /\ pc' = "opening" => Open \/ (pc = "opening" /\ UNCHANGED <<tgt, at>>)
           /\ pc = "opening" /\ pc' # "opening" => at \in logged' \/ orders[tgt].state \in Dead
           /\ Open => pc # "opening" /\ pc' = "opening" /\ at' = at /\ at \notin logged
                      /\ tgt' = Len(orders) + 1
<1> USE DEF durable, memory, quiet, market, Goto, Return
<1>1. CASE Open
  BY <1>1 DEF Open, Send
<1>2. CASE OpenOk
  BY <1>2 DEF OpenOk, Open
<1>3. CASE OpenFail
  BY <1>3 DEF OpenFail, Open, Rejected, GivesUp, Dead
<1>4. CASE CloseOk
  BY <1>4 DEF CloseOk, Open
<1>5. CASE WorkerStep /\ ~Open /\ ~OpenOk /\ ~OpenFail /\ ~CloseOk
  BY <1>5 DEF WorkerStep, ReconcileSkip, ReconcileRead, ReconcileCancel, Skip, BeginClose,
     BeginBar, NoExit, Attribute, AttributeUnknown, Recover, VerifyStop, NoStop, CannotCover,
     Cover, CoverOk, CoverFail, CancelTracked, Sweep, ReadForClose, CloseRaises, Sell, Settle,
     CloseFail, AfterEnsure
<1>6. CASE ~WorkerStep
  <2>1. ~Open
    BY <1>6 DEF WorkerStep
  <2> QED
    BY <1>6, <2>1 DEF Next, Take, BrokerStep, Place, Refuse, Fill, Cancelled, SetState,
       OperatorStep, OperatorTrade, ManualStop, ResizeCreate, ResizeFails, ResizeCancel,
       ClockStep, NextBar, CoolOff, GraceElapses, FeedUp, FeedDown, Crash, vars
<1> QED
  BY <1>1, <1>2, <1>3, <1>4, <1>5, <1>6

LEMMA BuysStep ==
    ASSUME IInv, BuysInv, [Next]_vars, "timeout" \notin Faults, "crash" \notin Faults
    PROVE  BuysInv'
<1>1. Advance /\ \A o \in Ids' \ Ids : NewOrder(o)
  BY OrderAdvances
<1>2. /\ logged \subseteq logged'
      /\ pc' = "opening" => Open \/ (pc = "opening" /\ UNCHANGED <<tgt, at>>)
      /\ pc = "opening" /\ pc' # "opening" => at \in logged' \/ orders[tgt].state \in Dead
      /\ Open => pc # "opening" /\ pc' = "opening" /\ at' = at /\ at \notin logged
                 /\ tgt' = Len(orders) + 1
  BY Opening
<1>3. /\ pc = "opening" => tgt \in Ids
      /\ pc' = "opening" => tgt' \in Ids'
      /\ Len(orders) + 1 \notin Ids
  <2>1. IInv'
    BY StepKeeps
  <2> QED
    BY <2>1, OrdersTyped DEF IInv, WorkerInv, OwnId
<1>4. ASSUME NEW o \in Ids', AliveBuy(o)'
      PROVE  \/ o \in Ids /\ AliveBuy(o) /\ orders'[o].bar = orders[o].bar
             \/ Open /\ o = tgt' /\ orders'[o].bar = at
  BY <1>1, <1>4 DEF Advance, AliveBuy, NewOrder, Dead
<1>5. ASSUME NEW o \in Ids', AliveBuy(o)'
      PROVE  orders'[o].bar \in logged' \/ (pc' = "opening" /\ o = tgt')
  <2>1. CASE Open /\ o = tgt'
    BY <1>2, <2>1
  <2>2. CASE o \in Ids /\ AliveBuy(o) /\ orders'[o].bar = orders[o].bar
    <3>1. orders[o].bar \in logged \/ (pc = "opening" /\ o = tgt)
      BY <2>2 DEF BuysInv
    <3>2. CASE orders[o].bar \in logged
      BY <1>2, <2>2, <3>2
    <3>3. CASE pc = "opening" /\ o = tgt
      BY <1>2, <2>2, <3>3 DEF BuysInv, AliveBuy
    <3> QED
      BY <3>1, <3>2, <3>3
  <2> QED
    BY <1>4, <1>5, <2>1, <2>2
<1>6. ASSUME NEW o1 \in Ids', NEW o2 \in Ids', AliveBuy(o1)', AliveBuy(o2)',
             orders'[o1].bar = orders'[o2].bar
      PROVE  o1 = o2
  <2>1. ASSUME NEW o \in Ids, AliveBuy(o), Open PROVE orders[o].bar # at
    BY <1>2, <2>1 DEF BuysInv
  <2> QED
    BY <1>4, <1>6, <2>1 DEF BuysInv
<1>7. pc' = "opening" => orders'[tgt'].bar = at'
  <2>1. CASE Open
    <3>1. PICK t \in Ids' \ Ids : t = tgt'
      BY <1>2, <1>3, <2>1
    <3>2. pc = "decide" /\ pc' = "opening"
      BY <1>2, <2>1 DEF Open
    <3>3. NewOrder(t)
      BY <1>1
    <3>4. orders'[t].bar = at
      BY <3>2, <3>3 DEF NewOrder, Cover, Sell, ManualStop, ResizeCreate, memory
    <3> QED
      BY <1>2, <2>1, <3>1, <3>4
  <2>2. CASE pc = "opening" /\ UNCHANGED <<tgt, at>>
    <3>1. PICK t \in Ids : t = tgt
      BY <1>3, <2>2
    <3> QED
      BY <1>1, <2>2, <3>1 DEF Advance, BuysInv
  <2> QED
    BY <1>2, <2>1, <2>2
<1> QED
  BY <1>5, <1>6, <1>7 DEF BuysInv

(* A bar opens at most one lot, even if its signal is delivered again, as  *)
(* long as every answer arrives and the service does not restart.          *)
THEOREM OneLot ==
    ASSUME "timeout" \notin Faults, "crash" \notin Faults PROVE Spec => []OneLotPerBar
<1>1. Init => BuysInv
  BY DEF Init, BuysInv, Ids
<1>2. IInv /\ BuysInv /\ [Next]_vars => BuysInv'
  BY BuysStep
<1>3. BuysInv => OneLotPerBar
  BY DEF BuysInv, OneLotPerBar, AliveBuy, Dead
<1> QED
  BY <1>1, <1>2, <1>3, Invariance, PTL DEF Spec
-----------------------------------------------------------------------------
(***************************************************************************)
(* The reconciliation, while the position feed stays up but for restarts:  *)
(* an empty read is believed only once the grace period has seen the cache *)
(* loaded, and a restart that empties it starts the period anew.           *)
(***************************************************************************)
FeedInv == emptyRead = "old" => feedReady

LEMMA FeedStep == ASSUME FeedInv, [Next]_vars, "feed" \notin Faults PROVE FeedInv'
<1> USE DEF FeedInv, durable, memory, quiet, market
<1>1. CASE WorkerStep
  BY <1>1 DEF WorkerStep, ReconcileSkip, ReconcileRead, ReconcileCancel, Skip, Open, BeginClose,
     BeginBar, NoExit, OpenOk, OpenFail, Attribute, AttributeUnknown, Recover, VerifyStop,
     NoStop, CannotCover, Cover, CoverOk, CoverFail, CancelTracked, Sweep, ReadForClose,
     CloseRaises, Sell, CloseOk, Settle, CloseFail, AcceptEmpty
<1>2. CASE ~WorkerStep
  BY <1>2 DEF Next, Take, BrokerStep, Place, Refuse, Fill, Cancelled, SetState, OperatorStep,
     OperatorTrade, ManualStop, ResizeCreate, ResizeFails, ResizeCancel, ClockStep, NextBar,
     CoolOff, GraceElapses, FeedUp, FeedDown, Crash, vars
<1> QED
  BY <1>1, <1>2

(* The reconciliation strips the attribution only of a position that is    *)
(* gone, unless the position feed drops outside a restart.                 *)
THEOREM StripsGone ==
    ASSUME "feed" \notin Faults PROVE Spec => ReconcileStripsOnlyGone
<1> DEFINE Strip == pc = "reconcile" /\ IsOpen /\ row'.status = "CLOSED_EXTERNALLY" => held <= 0
<1>1. Init => FeedInv
  BY DEF Init, FeedInv
<1>2. FeedInv /\ [Next]_vars => FeedInv'
  BY FeedStep
<1>3. ASSUME FeedInv, [Next]_vars PROVE [Strip]_vars
  <2>1. SUFFICES ASSUME pc = "reconcile", IsOpen, row'.status = "CLOSED_EXTERNALLY", Next
                 PROVE  held <= 0
    BY <1>3
  <2>2. row' # row
    BY <2>1 DEF IsOpen
  <2>3. ReconcileRead
    <3>1. CASE WorkerStep
      BY <2>1, <2>2, <3>1 DEF WorkerStep, ReconcileSkip, ReconcileCancel, Skip, Open,
         BeginClose, BeginBar, NoExit, OpenOk, OpenFail, Attribute, AttributeUnknown, Recover,
         VerifyStop, NoStop, CannotCover, Cover, CoverOk, CoverFail, CancelTracked, Sweep,
         ReadForClose, CloseRaises, Sell, CloseOk, Settle, CloseFail, durable
    <3>2. CASE ~WorkerStep
      BY <2>1, <2>2, <3>2 DEF Next, Take, BrokerStep, Place, Refuse, Fill, Cancelled, SetState,
         OperatorStep, OperatorTrade, ManualStop, ResizeCreate, ResizeFails, ResizeCancel,
         ClockStep, NextBar, CoolOff, GraceElapses, FeedUp, FeedDown, Crash, durable
    <3> QED
      BY <3>1, <3>2
  <2> QED
    BY <1>3, <2>2, <2>3 DEF ReconcileRead, AcceptEmpty, Visible, FeedInv
<1> QED
  BY <1>1, <1>2, <1>3, PTL DEF Spec, ReconcileStripsOnlyGone
-----------------------------------------------------------------------------
(***************************************************************************)
(* The sweep of a close, when every call is answered, no read or cancel    *)
(* fails and nothing restarts: no stop is then in flight when the sweep    *)
(* reads, so what is live after it was created later.  A stop that timed   *)
(* out may still be placed after the sweep.                                *)
(***************************************************************************)
Sending == {"opening", "covering", "selling"}
Swept == {"read", "sell", "selling", "settle"}

OwnStop(o) == orders[o].kind = "stop" /\ orders[o].own /\ orders[o].state = "live"

SweptInv ==
    /\ at <= bar
    /\ \A o \in Ids : orders[o].state = "sent" => o = tgt /\ pc \in Sending
    /\ pc = "selling" => tgt \in Ids /\ orders[tgt].kind = "sell"
    /\ pc = "sweep" => tgt = 0 \/ (tgt \in Ids /\ orders[tgt].state # "live")
    /\ pc \in Swept => \A o \in Ids : OwnStop(o) => orders[o].bar >= at

LEMMA Control ==
    ASSUME [Next]_vars, "timeout" \notin Faults, "crash" \notin Faults
    PROVE  /\ pc \in Sending => \/ pc' = pc /\ tgt' = tgt
                                \/ orders[tgt].state # "sent" /\ UNCHANGED orders
           /\ Open \/ Cover => pc \notin Sending /\ pc' \in Sending /\ pc' # "selling"
           /\ Sell => /\ pc \notin Sending /\ pc' = "selling"
                      /\ tgt' = Len(orders) + 1
           /\ pc' = "selling" => Sell \/ (pc = "selling" /\ tgt' = tgt)
           /\ pc' = "sweep" => CancelTracked \/ (pc = "sweep" /\ tgt' = tgt)
           /\ pc' \in Swept => at' = at /\ (Sweep \/ pc \in Swept)
           /\ at' = at \/ at' = 0 \/ at' \in 1..bar
           /\ bar' = bar \/ bar' = bar + 1
<1> USE DEF durable, memory, quiet, market, Goto, Return, Sending, Swept
<1>1. CASE Open \/ Cover \/ Sell
  BY <1>1 DEF Open, Cover, Sell, Send
<1>2. CASE OpenOk \/ OpenFail \/ CoverOk \/ CoverFail \/ CloseOk \/ CloseFail
  BY <1>2 DEF OpenOk, OpenFail, CoverOk, CoverFail, CloseOk, CloseFail, Answered, Rejected,
     GivesUp, AfterEnsure, Open, Cover, Sell
<1>3. CASE CancelTracked \/ Sweep
  BY <1>3 DEF CancelTracked, Sweep, Open, Cover, Sell
<1>4. CASE WorkerStep /\ ~(Open \/ Cover \/ Sell) /\ ~(CancelTracked \/ Sweep)
           /\ ~(OpenOk \/ OpenFail \/ CoverOk \/ CoverFail \/ CloseOk \/ CloseFail)
  BY <1>4 DEF WorkerStep, ReconcileSkip, ReconcileRead, ReconcileCancel, Skip, BeginClose,
     BeginBar, NoExit, Attribute, AttributeUnknown, Recover, VerifyStop, NoStop, CannotCover,
     ReadForClose, CloseRaises, Settle, AfterEnsure
<1>5. CASE ~WorkerStep
  <2>1. ~Open /\ ~Cover /\ ~Sell
    BY <1>5 DEF WorkerStep
  <2> QED
    BY <1>5, <2>1 DEF Next, Take, BrokerStep, Place, Refuse, Fill, Cancelled, SetState,
       OperatorStep, OperatorTrade, ManualStop, ResizeCreate, ResizeFails, ResizeCancel,
       ClockStep, NextBar, CoolOff, GraceElapses, FeedUp, FeedDown, Crash, vars
<1> QED
  BY <1>1, <1>2, <1>3, <1>4, <1>5

(* The two cancels of a close.                                             *)
LEMMA TrackedCancelled ==
    ASSUME IInv, SweptInv, CancelTracked, "deaf" \notin Faults
    PROVE  tgt' = 0 \/ (tgt' \in Ids' /\ orders'[tgt'].state # "live")
<1>1. row.stop \in 0..MaxOrders /\ (row.stop # 0 => row.stop \in Ids)
  BY Typed DEF IInv, RowOK, OwnId
<1>2. PICK s \in 0..MaxOrders : s = row.stop
  BY <1>1
<1>3. /\ tgt' = s
      /\ orders' = [o \in Ids |-> IF o \in {s} \ {0} /\ orders[o].state = "live"
                                  THEN [orders[o] EXCEPT !.state = "cancelling"]
                                  ELSE orders[o]]
  BY <1>2 DEF CancelTracked, CancelRequested
<1>4. CASE s # 0
  <2>1. s \in Ids /\ orders[s] \in OrderType
    BY <1>1, <1>2, <1>4, OrdersTyped
  <2>2. Ids' = Ids /\ orders'[s].state # "live"
    BY <1>3, <1>4, <2>1 DEF Ids, OrderType
  <2> QED
    BY <1>3, <2>1, <2>2
<1> QED
  BY <1>3, <1>4

LEMMA SweepClears ==
    ASSUME IInv, SweptInv, Sweep, "deaf" \notin Faults, NEW o \in Ids'
    PROVE  ~OwnStop(o)'
<1>1. /\ pc = "sweep"
      /\ orders' = [x \in Ids |-> IF x \in OwnLive \ {tgt} /\ orders[x].state = "live"
                                  THEN [orders[x] EXCEPT !.state = "cancelling"]
                                  ELSE orders[x]]
  BY DEF Sweep, CancelRequested, OwnReads
<1>2. o \in Ids /\ orders[o] \in OrderType
  BY <1>1, OrdersTyped DEF Ids
<1>3. CASE o \in OwnLive \ {tgt} /\ orders[o].state = "live"
  BY <1>1, <1>2, <1>3 DEF OrderType, OwnStop
<1>4. CASE ~(o \in OwnLive \ {tgt} /\ orders[o].state = "live")
  <2>1. orders'[o] = orders[o]
    BY <1>1, <1>2, <1>4
  <2>2. SUFFICES ASSUME OwnStop(o)' PROVE FALSE
    OBVIOUS
  <2>3. OwnStop(o)
    BY <2>1, <2>2 DEF OwnStop
  <2>4. o \in OwnLive /\ orders[o].state = "live"
    BY <1>2, <2>3 DEF OwnLive, IsOwn, OwnStop
  <2>5. o = tgt
    BY <1>4, <2>4
  <2>6. o # 0
    BY <1>2, OrdersTyped
  <2> QED
    BY <1>1, <2>4, <2>5, <2>6 DEF SweptInv
<1> QED
  BY <1>3, <1>4

LEMMA SweptStep ==
    ASSUME IInv, SweptInv, [Next]_vars,
           "timeout" \notin Faults, "crash" \notin Faults, "deaf" \notin Faults
    PROVE  SweptInv'
<1>1. Advance /\ \A o \in Ids' \ Ids : NewOrder(o)
  BY OrderAdvances
<1>2. /\ pc \in Sending => \/ pc' = pc /\ tgt' = tgt
                           \/ orders[tgt].state # "sent" /\ UNCHANGED orders
      /\ Open \/ Cover => pc \notin Sending /\ pc' \in Sending /\ pc' # "selling"
      /\ Sell => pc \notin Sending /\ pc' = "selling" /\ tgt' = Len(orders) + 1
      /\ pc' = "selling" => Sell \/ (pc = "selling" /\ tgt' = tgt)
      /\ pc' = "sweep" => CancelTracked \/ (pc = "sweep" /\ tgt' = tgt)
      /\ pc' \in Swept => at' = at /\ (Sweep \/ pc \in Swept)
      /\ at' = at \/ at' = 0 \/ at' \in 1..bar
      /\ bar' = bar \/ bar' = bar + 1
  BY Control
<1>3. at \in Nat /\ bar \in Nat /\ bar >= 1 /\ at <= bar
  BY Typed, BoundsAssumption DEF LocalsOK, RestOK, SweptInv
<1>4. PICK t \in 0..MaxOrders : t = tgt
  BY Typed DEF LocalsOK
<1>5. at' <= bar'
  BY <1>2, <1>3
<1>6. ASSUME NEW o \in Ids', orders'[o].state = "sent" PROVE o = tgt' /\ pc' \in Sending
  <2>1. CASE o \in Ids
    <3>1. orders[o].state = "sent"
      BY <1>1, <1>6, <2>1 DEF Advance
    <3>2. o = tgt /\ pc \in Sending
      BY <2>1, <3>1 DEF SweptInv
    <3> QED
      BY <1>2, <3>1, <3>2
  <2>2. CASE o \notin Ids
    BY <1>1, <1>2, <1>6, <2>2 DEF NewOrder, Sending
  <2> QED
    BY <2>1, <2>2
<1>7. ASSUME pc' = "selling" PROVE tgt' \in Ids' /\ orders'[tgt'].kind = "sell"
  <2>1. CASE Sell
    <3>1. PICK u \in Nat \ {0} : u = plan
      BY <2>1, Typed DEF Sell, WorkerInv, LocalsOK
    <3>2. bar \in 1..MaxBars /\ Send("sell", u, bar)
      BY <2>1, <3>1, Typed DEF Sell, RestOK
    <3> QED
      BY <3>2, Sent
  <2>2. CASE pc = "selling" /\ tgt' = tgt
    BY <1>1, <1>4, <2>2 DEF SweptInv, Advance
  <2> QED
    BY <1>2, <1>7, <2>1, <2>2
<1>8. ASSUME pc' = "sweep" PROVE tgt' = 0 \/ (tgt' \in Ids' /\ orders'[tgt'].state # "live")
  <2>1. CASE CancelTracked
    BY <2>1, TrackedCancelled
  <2>2. CASE pc = "sweep" /\ tgt' = tgt
    <3>1. t = 0 \/ (t \in Ids /\ orders[t].state # "live" /\ orders[t].state # "sent")
      BY <1>4, <2>2 DEF SweptInv, Sending
    <3>2. t = 0 \/ (t \in Ids' /\ orders'[t].state # "live")
      BY <1>1, <3>1 DEF Advance
    <3> QED
      BY <1>4, <2>2, <3>2
  <2> QED
    BY <1>2, <1>8, <2>1, <2>2
<1>9. ASSUME pc' \in Swept, NEW o \in Ids', OwnStop(o)' PROVE orders'[o].bar >= at'
  <2>1. ~Sweep
    BY <1>9, SweepClears
  <2>2. pc \in Swept /\ at' = at
    BY <1>2, <1>9, <2>1
  <2>3. CASE o \in Ids
    <3>1. /\ orders[o].kind = "stop" /\ orders[o].own /\ orders'[o].bar = orders[o].bar
          /\ orders[o].state \in {"sent", "live"}
      BY <1>1, <1>9, <2>3 DEF Advance, OwnStop
    <3>2. orders[o].state # "sent"
      BY <2>2, <2>3, <3>1 DEF SweptInv, Sending, Swept
    <3> QED
      BY <2>2, <2>3, <3>1, <3>2 DEF SweptInv, OwnStop
  <2>4. CASE o \notin Ids
    BY <1>1, <1>3, <1>9, <2>2, <2>4 DEF NewOrder, OwnStop
  <2> QED
    BY <2>3, <2>4
<1> QED
  BY <1>5, <1>6, <1>7, <1>8, <1>9 DEF SweptInv

(* A close takes with it every stop of the strategy that is older than the *)
(* bar it acts on, as long as calls are answered and nothing restarts.     *)
THEOREM OldStopsGone ==
    ASSUME "timeout" \notin Faults, "crash" \notin Faults, "deaf" \notin Faults
    PROVE  Spec => NoOldStop
<1> DEFINE Closing == IsOpen /\ row'.status = "CLOSED" =>
              \A o \in Ids : orders[o].kind = "stop" /\ orders[o].own /\ orders[o].state = "live"
                             => orders[o].bar >= at
<1>1. Init => SweptInv
  BY DEF Init, SweptInv, Ids, Swept
<1>2. IInv /\ SweptInv /\ [Next]_vars => SweptInv'
  BY SweptStep
<1>3. ASSUME IInv, SweptInv, [Next]_vars PROVE [Closing]_vars
  <2>1. SUFFICES ASSUME IsOpen, row'.status = "CLOSED", Next
                 PROVE  \A o \in Ids : OwnStop(o) => orders[o].bar >= at
    BY <1>3 DEF OwnStop
  <2>2. row' # row /\ RowOK
    BY <2>1, <1>3, Typed DEF IsOpen
  <2>3. Settle
    <3>1. CASE WorkerStep
      BY <2>1, <2>2, <3>1 DEF WorkerStep, ReconcileSkip, ReconcileRead, ReconcileCancel, Skip,
         Open, BeginClose, BeginBar, NoExit, OpenOk, OpenFail, Attribute, AttributeUnknown,
         Recover, VerifyStop, NoStop, CannotCover, Cover, CoverOk, CoverFail, CancelTracked,
         Sweep, ReadForClose, CloseRaises, Sell, CloseOk, CloseFail, durable, IsOpen, RowOK
    <3>2. CASE ~WorkerStep
      BY <2>1, <2>2, <3>2 DEF Next, Take, BrokerStep, Place, Refuse, Fill, Cancelled, SetState,
         OperatorStep, OperatorTrade, ManualStop, ResizeCreate, ResizeFails, ResizeCancel,
         ClockStep, NextBar, CoolOff, GraceElapses, FeedUp, FeedDown, Crash, durable
    <3> QED
      BY <3>1, <3>2
  <2> QED
    BY <1>3, <2>3 DEF Settle, SweptInv, Swept
<1> QED
  BY <1>1, <1>2, <1>3, Invariance, PTL DEF Spec, NoOldStop
=============================================================================
