----------------------------- MODULE AutoExecutor -----------------------------
(***************************************************************************)
(* The auto-executor (src/trader/strategy/auto_executor.py) for one        *)
(* (strategy, conId) pair: its single worker thread, the attribution row   *)
(* and the bar log it persists, the memory a restart loses, and the        *)
(* broker and trader_service it reaches by RPC.  All its state is keyed by *)
(* the pair and its orders carry the strategy's orderRef, so pairs meet    *)
(* only in the broker position.                                            *)
(*                                                                         *)
(* The worker stops at every RPC and every write to its tables: other      *)
(* processes, a crash, or the broker act between any two of its steps (a   *)
(* read and the one write it decides are a single step, and so are the two *)
(* writes of an open that cannot be attributed).                           *)
(* MMR.approve() is seen from outside: an order is "sent" to the trader,   *)
(* which places or refuses it, maybe after the caller gave up.  Every BUY  *)
(* is one lot of one share.                                                *)
(***************************************************************************)
EXTENDS Integers, Sequences, FiniteSets

CONSTANTS MaxAdds,    (* pyramid_max_adds of the strategy                  *)
          MaxBars,    (* bound: bars fed to the executor                   *)
          MaxLag,     (* bound: bars by which an item may be taken late    *)
          MaxOrders,  (* bound: orders ever sent                           *)
          Faults      (* what may go wrong, a subset of FaultKinds         *)

FaultKinds == {"timeout",   \* an RPC that acts is given up by its caller
               "crash",     \* strategy_service (and trader_service) restart
               "deaf",      \* a read or a cancel RPC fails
               "feed",      \* the trader's position feed drops and reloads
               "race",      \* an order fills while its cancel is pending
               "die",       \* the broker kills a working order
               "operator"}  \* a human trades the same instrument

ASSUME BoundsAssumption == /\ MaxAdds \in Nat /\ MaxBars \in Nat \ {0} /\ MaxLag \in Nat
                           /\ MaxOrders \in Nat
                           /\ Faults \subseteq FaultKinds

VARIABLES row,        (* the newest auto_exec_positions row of the pair    *)
          logged,     (* bars with an 'open' or 'close' decision           *)
          pc, work,   (* the worker: its step and its work item            *)
          at,         (* the bar the item is about                         *)
          tgt, plan,  (* its locals: an order id, a quantity               *)
          cool,       (* the in-memory cooldown is running                 *)
          reconciled, (* _reconciled                                       *)
          emptyRead,  (* _first_empty_broker_read: none, recent, old       *)
          bar,        (* the newest bar                                    *)
          orders,     (* the orders of this instrument, by id              *)
          held,       (* the broker's position                             *)
          resizing,   (* a resize has a stop cancelled, not yet re-created *)
          feedReady   (* the trader's position cache is loaded             *)

durable == <<row, logged>>
memory == <<pc, work, at, tgt, plan, cool, reconciled, emptyRead>>
quiet == <<bar, held, resizing, feedReady>>   (* the market without its orders *)
market == <<bar, orders, held, resizing, feedReady>>
vars == <<row, logged, pc, work, at, tgt, plan, cool, reconciled, emptyRead,
          bar, orders, held, resizing, feedReady>>

Ids == DOMAIN orders
RowStates == {"NONE", "OPEN", "CLOSED", "CLOSED_EXTERNALLY", "UNKNOWN"}
OrderStates == {"sent", "refused", "live", "cancelling", "cancelled", "filled"}
Steps == {"idle", "reconcile", "orphan", "decide", "opening", "attribute", "recover",
          "ensure", "cover", "covering", "exit", "close", "sweep", "read", "sell",
          "selling", "settle"}

TypeOK ==
    /\ row \in [status : RowStates, qty : Nat, lots : Nat, stop : 0..MaxOrders]
    /\ logged \subseteq 1..MaxBars
    /\ pc \in Steps /\ work \in {"none", "BUY", "SELL", "BAR"} /\ at \in 0..MaxBars
    /\ tgt \in 0..MaxOrders /\ plan \in Nat
    /\ cool \in BOOLEAN /\ reconciled \in BOOLEAN
    /\ emptyRead \in {"none", "recent", "old"}
    /\ bar \in 1..MaxBars
    /\ Len(orders) <= MaxOrders
    /\ \A o \in Ids : orders[o] \in [kind : {"buy", "sell", "stop"}, own : BOOLEAN,
                                     qty : Nat \ {0}, bar : 1..MaxBars, state : OrderStates]
    /\ held \in Int /\ resizing \in BOOLEAN /\ feedReady \in BOOLEAN

Init ==
    /\ row = [status |-> "NONE", qty |-> 0, lots |-> 0, stop |-> 0]
    /\ logged = {}
    /\ pc = "idle" /\ work = "none" /\ at = 0 /\ tgt = 0 /\ plan = 0
    /\ cool = FALSE /\ reconciled = FALSE /\ emptyRead = "none"
    /\ bar = 1 /\ orders = <<>> /\ held = 0 /\ resizing = FALSE /\ feedReady = TRUE

------------------------------------------------------------------------------
(* What the worker sees and sends.                                         *)
IsOpen == row.status = "OPEN"

(* _broker_positions(): empty while the trader's cache is not loaded.      *)
Visible == IF feedReady THEN held ELSE 0

(* Mutant: the clamp to the attributed quantity is missing.                *)
BrokerQuantity(attributed, broker) == IF broker <= 0 THEN 0 ELSE broker

(* reducible_quantity() and protective_stop_plan()'s quantity.             *)
Reducible(attributed, broker) == IF broker <= 0 THEN 0
                                 ELSE IF broker < attributed THEN broker ELSE attributed

(* Mutant: the orderRef is not looked at.                                  *)
IsOwnAnyRef(o) == orders[o].kind \in {"sell", "stop"} /\ orders[o].state = "live"

(* _own_live_protectives(): live SELLs under this strategy's orderRef; an  *)
(* empty list when the read fails.                                         *)
IsOwn(o) == orders[o].own /\ orders[o].kind \in {"sell", "stop"} /\ orders[o].state = "live"
OwnLive == {o \in Ids : IsOwn(o)}
OwnReads == {OwnLive} \union (IF "deaf" \in Faults THEN {{}} ELSE {})

(* The cancel of the orders in S, of which some calls may fail: a success  *)
(* says that the cancel was requested, not that the order is gone.         *)
CancelRequested(S) ==
    \E done \in (IF "deaf" \in Faults THEN SUBSET S ELSE {S}) :
        orders' = [o \in Ids |-> IF o \in done /\ orders[o].state = "live"
                                 THEN [orders[o] EXCEPT !.state = "cancelling"]
                                 ELSE orders[o]]

(* An order leaves for trader_service; the worker waits for the answer.    *)
(* The bar of a buy is the one its signal is about, that of any other order*)
(* the newest one when it was created.                                     *)
Send(kind, qty, b) ==
    /\ Len(orders) < MaxOrders
    /\ orders' = Append(orders, [kind |-> kind, own |-> TRUE, qty |-> qty, bar |-> b,
                                 state |-> "sent"])
    /\ tgt' = Len(orders) + 1

Answered == orders[tgt].state \notin {"sent", "refused"}
Rejected == orders[tgt].state \in {"refused", "cancelled"}
GivesUp == "timeout" \in Faults

Goto(step) == pc' = step /\ UNCHANGED <<work, at>>

(* The item is done and its locals are gone.                               *)
Return == pc' = "idle" /\ work' = "none" /\ at' = 0 /\ tgt' = 0 /\ plan' = 0

------------------------------------------------------------------------------
(* One work item.  Signals and bars queue up for the worker; the queue is  *)
(* not state of its own: an item may come late, and any number of times.   *)
Take(w) ==
    /\ pc = "idle"
    /\ work' = w
    /\ at' \in {b \in 1..bar : bar - b <= MaxLag}
    /\ pc' = "reconcile"
    /\ UNCHANGED <<durable, tgt, plan, cool, reconciled, emptyRead, market>>

(* _reconcile_once(): nothing to do, nothing open, or nothing readable.    *)
ReconcileSkip ==
    /\ pc = "reconcile"
    /\ reconciled \/ ~IsOpen \/ "deaf" \in Faults
    /\ reconciled' = (reconciled \/ ~IsOpen)
    /\ Goto("decide")
    /\ UNCHANGED <<durable, tgt, plan, cool, emptyRead, market>>

(* Mutant: an empty read is believed at once.                              *)
AcceptAnyEmpty == TRUE

(* accept_empty_broker_read(): only one still empty after the grace period.*)
AcceptEmpty == emptyRead = "old"

(* The read of all positions; it is empty while the cache is, or when the  *)
(* account holds neither this instrument nor another.                      *)
ReconcileRead == \E others \in BOOLEAN :
    LET empty == ~feedReady \/ (held = 0 /\ ~others) IN
    /\ pc = "reconcile" /\ ~reconciled /\ IsOpen
    /\ \/ /\ empty /\ ~AcceptEmpty
          /\ emptyRead' = IF emptyRead = "none" THEN "recent" ELSE emptyRead
          /\ Goto("decide")
          /\ UNCHANGED <<row, reconciled>>
       \/ /\ ~empty \/ AcceptEmpty
          /\ emptyRead' = IF empty THEN emptyRead ELSE "none"
          /\ IF Visible <= 0
             THEN /\ row' = [row EXCEPT !.status = "CLOSED_EXTERNALLY"]
                  /\ Goto("orphan")
                  /\ UNCHANGED reconciled
             ELSE /\ reconciled' = TRUE
                  /\ Goto("decide")
                  /\ UNCHANGED row
    /\ UNCHANGED <<logged, tgt, plan, cool, market>>

(* ... then the tracked stop of the row just closed is cancelled.          *)
ReconcileCancel ==
    /\ pc = "orphan"
    /\ CancelRequested({row.stop} \ {0})
    /\ reconciled' = TRUE
    /\ Goto("decide")
    /\ UNCHANGED <<durable, tgt, plan, cool, emptyRead, quiet>>

------------------------------------------------------------------------------
(* decide_signal() and _process_bar().  Kill switch, disarmed, not running,*)
(* stale bar, manifest, an identity that does not round-trip and a failed  *)
(* propose() all end the item with nothing sent.                           *)
Skip ==
    /\ pc = "decide"
    /\ Return
    /\ UNCHANGED <<durable, cool, reconciled, emptyRead, market>>

HasRoom == IsOpen => row.lots <= MaxAdds

Open ==
    /\ pc = "decide" /\ work = "BUY"
    /\ at \notin logged
    /\ HasRoom
    /\ ~cool
    /\ Send("buy", 1, at)
    /\ Goto("opening")
    /\ UNCHANGED <<durable, plan, cool, reconciled, emptyRead, quiet>>

BeginClose ==
    /\ \/ pc = "decide" /\ work = "SELL" /\ IsOpen
       \/ pc = "exit"
    /\ at \notin logged
    /\ Goto("close")
    /\ UNCHANGED <<durable, tgt, plan, cool, reconciled, emptyRead, market>>

BeginBar ==
    /\ pc = "decide" /\ work = "BAR" /\ IsOpen
    /\ Goto("ensure")
    /\ UNCHANGED <<durable, tgt, plan, cool, reconciled, emptyRead, market>>

(* No time exit is due, or one already fired on this bar.                  *)
NoExit ==
    /\ pc = "exit"
    /\ Return
    /\ UNCHANGED <<durable, cool, reconciled, emptyRead, market>>

------------------------------------------------------------------------------
(* Mutant: the decision is not logged.                                     *)
OpenOkUnlogged ==
    /\ pc = "opening" /\ Answered
    /\ Goto("attribute")
    /\ UNCHANGED <<durable, tgt, plan, cool, reconciled, emptyRead, market>>

(* _execute_open(): approve() succeeded.                                   *)
OpenOk ==
    /\ pc = "opening" /\ Answered
    /\ logged' = logged \union {at}
    /\ Goto("attribute")
    /\ UNCHANGED <<row, tgt, plan, cool, reconciled, emptyRead, market>>

(* Mutant: a failed or timed-out open is attributed all the same.          *)
OpenFailAttributed ==
    /\ pc = "opening" /\ (Rejected \/ GivesUp)
    /\ Goto("attribute")
    /\ UNCHANGED <<durable, tgt, plan, cool, reconciled, emptyRead, market>>

(* approve() failed, or gave up on an order that may still be placed: only *)
(* open_failed is logged, with no cooldown.                                *)
OpenFail ==
    /\ pc = "opening" /\ (Rejected \/ GivesUp)
    /\ Return
    /\ UNCHANGED <<durable, cool, reconciled, emptyRead, market>>

(* record_add() on an open row, record_open() otherwise.                   *)
Attribute ==
    /\ pc = "attribute"
    /\ row' = IF IsOpen THEN [row EXCEPT !.qty = @ + 1, !.lots = @ + 1]
              ELSE [status |-> "OPEN", qty |-> 1, lots |-> 1, stop |-> 0]
    /\ cool' = TRUE
    /\ Goto(IF IsOpen /\ row.stop # 0 THEN "recover" ELSE "ensure")
    /\ UNCHANGED <<logged, tgt, plan, reconciled, emptyRead, market>>

(* Mutant: an unreadable quantity is folded into the open row as an add.   *)
AttributeUnknownAsAdd ==
    /\ pc = "attribute" /\ "deaf" \in Faults
    /\ row' = IF IsOpen THEN [row EXCEPT !.lots = @ + 1]
              ELSE [status |-> "UNKNOWN", qty |-> 0, lots |-> 1, stop |-> 0]
    /\ cool' = TRUE
    /\ Return
    /\ UNCHANGED <<logged, reconciled, emptyRead, market>>

(* The executed quantity could not be read: record_open(0) and then        *)
(* record_close(UNKNOWN), which closes every OPEN row of the pair.         *)
AttributeUnknown ==
    /\ pc = "attribute" /\ "deaf" \in Faults
    /\ row' = [status |-> "UNKNOWN", qty |-> 0, lots |-> 1, stop |-> 0]
    /\ cool' = TRUE
    /\ Return
    /\ UNCHANGED <<logged, reconciled, emptyRead, market>>

(* A pyramid add: the old stop no longer covers the stack.                 *)
Recover ==
    /\ pc = "recover"
    /\ CancelRequested({row.stop})
    /\ row' = [row EXCEPT !.stop = 0]
    /\ Goto("ensure")
    /\ UNCHANGED <<logged, tgt, plan, cool, reconciled, emptyRead, quiet>>

------------------------------------------------------------------------------
(* _ensure_protective(), at the end of an open and at every bar.           *)
AfterEnsure == IF work = "BAR" THEN Goto("exit") /\ tgt' = 0 /\ plan' = 0 ELSE Return

(* The tracked stop is verified, replaced in the tracking by another live  *)
(* one, or given up.                                                       *)
VerifyStop == \E own \in OwnReads :
    /\ pc = "ensure" /\ row.stop # 0
    /\ \/ row.stop \in own /\ AfterEnsure /\ UNCHANGED row
       \/ /\ row.stop \notin own
          /\ \E o \in own : row' = [row EXCEPT !.stop = o]
          /\ AfterEnsure
       \/ /\ own = {}
          /\ row' = [row EXCEPT !.stop = 0]
          /\ Goto("cover") /\ UNCHANGED <<tgt, plan>>
    /\ UNCHANGED <<logged, cool, reconciled, emptyRead, market>>

NoStop ==
    /\ pc = "ensure" /\ row.stop = 0
    /\ Goto("cover")
    /\ UNCHANGED <<durable, tgt, plan, cool, reconciled, emptyRead, market>>

(* Nothing visible to cover, nothing readable, or an instrument that does  *)
(* not resolve: left to the next bar.                                      *)
CannotCover ==
    /\ pc = "cover"
    /\ AfterEnsure
    /\ UNCHANGED <<durable, cool, reconciled, emptyRead, market>>

(* Mutant: the quantity of the stop is not looked at.                      *)
CoverAnyQuantity ==
    /\ pc = "cover"
    /\ Send("stop", Reducible(row.qty, Visible), bar)
    /\ Goto("covering")
    /\ UNCHANGED <<durable, plan, cool, reconciled, emptyRead, quiet>>

Cover ==
    /\ pc = "cover"
    /\ Reducible(row.qty, Visible) > 0
    /\ Send("stop", Reducible(row.qty, Visible), bar)
    /\ Goto("covering")
    /\ UNCHANGED <<durable, plan, cool, reconciled, emptyRead, quiet>>

CoverOk ==
    /\ pc = "covering" /\ Answered
    /\ row' = [row EXCEPT !.stop = tgt]
    /\ AfterEnsure
    /\ UNCHANGED <<logged, cool, reconciled, emptyRead, market>>

CoverFail ==
    /\ pc = "covering" /\ (orders[tgt].state = "refused" \/ GivesUp)
    /\ AfterEnsure
    /\ UNCHANGED <<durable, cool, reconciled, emptyRead, market>>

------------------------------------------------------------------------------
(* _execute_close(): the tracked stop first, its tracking cleared whatever *)
(* the cancel answers ...                                                  *)
CancelTracked ==
    /\ pc = "close"
    /\ CancelRequested({row.stop} \ {0})
    /\ row' = [row EXCEPT !.stop = 0]
    /\ tgt' = row.stop
    /\ Goto("sweep")
    /\ UNCHANGED <<logged, plan, cool, reconciled, emptyRead, quiet>>

(* Mutant: no sweep.                                                       *)
NoSweep ==
    /\ pc = "sweep"
    /\ Goto("read")
    /\ UNCHANGED <<durable, tgt, plan, cool, reconciled, emptyRead, market>>

(* ... then every other own live sell-side order ...                       *)
Sweep == \E own \in OwnReads :
    /\ pc = "sweep"
    /\ CancelRequested(own \ {tgt})
    /\ Goto("read")
    /\ UNCHANGED <<durable, tgt, plan, cool, reconciled, emptyRead, quiet>>

(* ... then the broker position decides how much is left to sell.          *)
ReadForClose == LET left == Reducible(row.qty, Visible) IN
    /\ pc = "read"
    /\ IF left = 0 THEN /\ row' = [row EXCEPT !.status = "CLOSED_EXTERNALLY"]
                       /\ Return
                  ELSE /\ plan' = left
                       /\ Goto("sell")
                       /\ UNCHANGED <<row, tgt>>
    /\ UNCHANGED <<logged, cool, reconciled, emptyRead, market>>

(* The read or propose() raises: the item is dropped, with its stops       *)
(* already cancelled.                                                      *)
CloseRaises ==
    /\ pc = "sell" \/ (pc = "read" /\ "deaf" \in Faults)
    /\ Return
    /\ UNCHANGED <<durable, cool, reconciled, emptyRead, market>>

Sell ==
    /\ pc = "sell"
    /\ Send("sell", plan, bar)
    /\ Goto("selling")
    /\ UNCHANGED <<durable, plan, cool, reconciled, emptyRead, quiet>>

CloseOk ==
    /\ pc = "selling" /\ Answered
    /\ logged' = logged \union {at}
    /\ Goto("settle")
    /\ UNCHANGED <<row, tgt, plan, cool, reconciled, emptyRead, market>>

Settle ==
    /\ pc = "settle"
    /\ row' = [row EXCEPT !.status = "CLOSED"]
    /\ cool' = TRUE
    /\ Return
    /\ UNCHANGED <<logged, reconciled, emptyRead, market>>

(* Mutant: a call that ran out of time is waited for.                      *)
CloseFailNoTimeout ==
    /\ pc = "selling" /\ Rejected
    /\ Return
    /\ UNCHANGED <<durable, cool, reconciled, emptyRead, market>>

(* Failed or given up: the row stays OPEN for the next trigger.            *)
CloseFail ==
    /\ pc = "selling" /\ (Rejected \/ GivesUp)
    /\ Return
    /\ UNCHANGED <<durable, cool, reconciled, emptyRead, market>>

------------------------------------------------------------------------------
(* trader_service and the broker.                                          *)
SetState(o, s) ==
    /\ orders' = [orders EXCEPT ![o].state = s]
    /\ UNCHANGED <<durable, memory, bar, resizing, feedReady>>

(* place_standalone_order() refuses a stop larger than the live position.  *)
Place(o) ==
    /\ orders[o].state = "sent"
    /\ orders[o].kind = "stop" => Visible >= orders[o].qty
    /\ SetState(o, "live")
    /\ UNCHANGED held

Refuse(o) ==
    /\ orders[o].state = "sent"
    /\ SetState(o, "refused")
    /\ UNCHANGED held

Fill(o) ==
    /\ \/ orders[o].state = "live"
       \/ orders[o].state = "cancelling" /\ "race" \in Faults
    /\ SetState(o, "filled")
    /\ held' = IF orders[o].kind = "buy" THEN held + orders[o].qty ELSE held - orders[o].qty

Cancelled(o) ==
    /\ \/ orders[o].state = "cancelling"
       \/ orders[o].state = "live" /\ "die" \in Faults
    /\ SetState(o, "cancelled")
    /\ UNCHANGED held

(* A human trades the instrument, places a stop of their own, or resizes   *)
(* the position: execute_resize_plan() cancels each stop and, by a second  *)
(* call, re-creates it for the new quantity with the orderRef it had.      *)
OperatorTrade ==
    /\ "operator" \in Faults
    /\ \E h \in 0..(MaxAdds + 1) : h # held /\ held' = h
    /\ UNCHANGED <<durable, memory, bar, orders, resizing, feedReady>>

ManualStop ==
    /\ "operator" \in Faults /\ held > 0 /\ Len(orders) < MaxOrders
    /\ orders' = Append(orders, [kind |-> "stop", own |-> FALSE, qty |-> 1, bar |-> bar,
                                 state |-> "live"])
    /\ UNCHANGED <<durable, memory, quiet>>

ResizeCancel(o) ==
    /\ "operator" \in Faults /\ ~resizing
    /\ IsOwn(o) /\ orders[o].kind = "stop"
    /\ orders' = [orders EXCEPT ![o].state = "cancelling"]
    /\ resizing' = TRUE
    /\ UNCHANGED <<durable, memory, bar, held, feedReady>>

ResizeCreate ==
    /\ resizing /\ Len(orders) < MaxOrders
    /\ \E q \in 1..(MaxAdds + 1) :
          /\ q <= Visible
          /\ orders' = Append(orders, [kind |-> "stop", own |-> TRUE, qty |-> q, bar |-> bar,
                                       state |-> "live"])
    /\ resizing' = FALSE
    /\ UNCHANGED <<durable, memory, bar, held, feedReady>>

ResizeFails ==
    /\ resizing /\ resizing' = FALSE
    /\ UNCHANGED <<durable, memory, bar, orders, held, feedReady>>

(* Time passes: a bar, the cooldown, the grace period (long enough for the *)
(* trader's cache to load: that is what it is for).                        *)
NextBar == bar < MaxBars /\ bar' = bar + 1
           /\ UNCHANGED <<durable, memory, orders, held, resizing, feedReady>>

CoolOff == cool /\ cool' = FALSE
           /\ UNCHANGED <<durable, pc, work, at, tgt, plan, reconciled, emptyRead, market>>

GraceElapses ==
    /\ emptyRead = "recent" /\ feedReady
    /\ emptyRead' = "old"
    /\ UNCHANGED <<durable, pc, work, at, tgt, plan, cool, reconciled, market>>

FeedUp == ~feedReady /\ feedReady' = TRUE
          /\ UNCHANGED <<durable, memory, bar, orders, held, resizing>>

FeedDown == "feed" \in Faults /\ feedReady /\ feedReady' = FALSE
            /\ UNCHANGED <<durable, memory, bar, orders, held, resizing>>

(* strategy_service restarts, alone or with trader_service: the tables are *)
(* kept, everything in memory and every queued item is gone.               *)
Crash ==
    /\ "crash" \in Faults
    /\ pc' = "idle" /\ work' = "none" /\ at' = 0 /\ tgt' = 0 /\ plan' = 0
    /\ cool' = FALSE /\ reconciled' = FALSE /\ emptyRead' = "none"
    /\ feedReady' \in {feedReady, FALSE}
    /\ UNCHANGED <<durable, bar, orders, held, resizing>>

------------------------------------------------------------------------------
WorkerStep ==
    \/ ReconcileSkip \/ ReconcileRead \/ ReconcileCancel \/ Skip
    \/ Open \/ BeginClose \/ BeginBar \/ NoExit
    \/ OpenOk \/ OpenFail \/ Attribute \/ AttributeUnknown \/ Recover
    \/ VerifyStop \/ NoStop \/ CannotCover \/ Cover \/ CoverOk \/ CoverFail
    \/ CancelTracked \/ Sweep \/ ReadForClose \/ CloseRaises \/ Sell
    \/ CloseOk \/ Settle \/ CloseFail

BrokerStep == \E o \in Ids : Place(o) \/ Refuse(o) \/ Fill(o) \/ Cancelled(o)

OperatorStep == \/ OperatorTrade \/ ManualStop \/ ResizeCreate \/ ResizeFails
                \/ \E o \in Ids : ResizeCancel(o)

ClockStep == NextBar \/ CoolOff \/ GraceElapses \/ FeedUp \/ FeedDown

Next == \/ \E w \in {"BUY", "SELL", "BAR"} : Take(w)
        \/ WorkerStep \/ BrokerStep \/ OperatorStep \/ ClockStep \/ Crash

Spec == Init /\ [][Next]_vars

(* The worker is one running thread, and every RPC it makes has a timeout. *)
FairSpec == Spec /\ WF_vars(WorkerStep)

------------------------------------------------------------------------------
(* The stack never exceeds one lot and pyramid_max_adds more, whatever     *)
(* calls fail, time out or are cut off by a restart.                       *)
PyramidBound == IsOpen => row.lots <= MaxAdds + 1 /\ row.qty = row.lots

(* Only an order that was placed is attributed: an open that failed or     *)
(* whose outcome is unknown never enters the row.                          *)
AttributionBacked ==
    IsOpen => row.qty <= Cardinality({o \in Ids :
                 orders[o].own /\ orders[o].kind = "buy"
                 /\ orders[o].state \notin {"sent", "refused"}})

(* The executor sells, and covers with a stop, at most what the row        *)
(* attributes to the strategy, also when the account holds more: the two   *)
(* clamps work on what was read several RPCs earlier.                      *)
SellsWithinAttribution ==
    [][(pc = "sell" \/ pc = "cover") /\ pc' \in {"selling", "covering"} =>
          orders'[tgt'].qty <= row.qty /\ IsOpen]_vars

(* Ownership is the orderRef: a stop a human placed is never cancelled.    *)
ManualUntouched == \A o \in Ids : ~orders[o].own => orders[o].state # "cancelling"

(* The reconciliation after a restart strips the attribution only of a     *)
(* position that is gone, though the trader's cache may still be empty.    *)
ReconcileStripsOnlyGone ==
    [][pc = "reconcile" /\ IsOpen /\ row'.status = "CLOSED_EXTERNALLY" => held <= 0]_vars

(* A bar opens at most one lot, even if its signal is delivered again, as  *)
(* long as the answer of approve() arrives and is logged.                  *)
OneLotPerBar ==
    \A o1, o2 \in Ids :
        /\ orders[o1].kind = "buy" /\ orders[o1].state \in {"live", "filled"}
        /\ orders[o2].kind = "buy" /\ orders[o2].state \in {"live", "filled"}
        /\ orders[o1].bar = orders[o2].bar
        => o1 = o2

(* A close takes with it every stop the strategy had before the bar it acts*)
(* on, also one that a resize re-created and nothing tracks: none is left  *)
(* that could trigger into the flat position.                              *)
NoOldStop ==
    [][IsOpen /\ row'.status = "CLOSED" =>
          \A o \in Ids : orders[o].kind = "stop" /\ orders[o].own /\ orders[o].state = "live"
                         => orders[o].bar >= at]_vars

(* The one worker thread is never stuck: it comes back for the next item,  *)
(* whatever RPC is not answered.                                           *)
WorkerReturns == pc # "idle" ~> pc = "idle"

(* What the comment on _execute_close() says: cancelling the stop before   *)
(* the read keeps a close from overselling into a short.                   *)
NeverShort == held >= 0

(* What the comment on _execute_close()'s sweep says it is for: no stop of *)
(* the strategy stays live against the position it closed.                 *)
NoOrphanStop ==
    row.status = "CLOSED" /\ pc = "idle" =>
        \A o \in Ids : orders[o].kind = "stop" /\ orders[o].own => orders[o].state # "live"

(* What accept_empty_broker_read() says of believing an empty read: a      *)
(* position that is there is never closed as external.                     *)
StripsOnlyGone ==
    [][IsOpen /\ row'.status = "CLOSED_EXTERNALLY" => held <= 0]_vars
==============================================================================
