---------------------------- MODULE OrderPlacement ----------------------------
(***************************************************************************)
(* How trader_service turns a request into orders: place_expressive_order  *)
(* (the proposal path), place_order_simple behind its RPC (the direct      *)
(* path) and place_standalone_order (protective orders), with the risk     *)
(* gate, the flip split, the legs of a bracket and the confirmation.       *)
(* Requests are asyncio tasks: a step runs from one await to the next, so  *)
(* another request, a status update or a position update may come in       *)
(* between.  One instrument, one account, one strategy.                    *)
(***************************************************************************)
EXTENDS OrderLifecycle, Integers

CONSTANTS Requests,    (* the requests a caller may send                    *)
          Callers,     (* the tasks that serve them                         *)
          Positions,   (* the positions the account may start with          *)
          Unreadable,  (* the value of a position read that failed          *)
          MaxOpen,     (* limits.max_open_orders                            *)
          MaxRate,     (* limits.max_signals_per_hour                       *)
          RequireApproval,  (* require_proposal_approval of trader.yaml     *)
          Faults,      (* what may go wrong beside refusals                 *)
          MaxFaults    (* bound: how often the stream or the operator acts  *)

Halves == {"first", "second"}            (* second: the remainder of a flip *)
Legs   == {"entry", "profit", "stop"}
Slots  == Callers \X Halves \X Legs

RequestType == [path : {"proposal", "direct", "standalone"}, side : {"BUY", "SELL"}, qty : Nat,
                exit : {"NONE", "STOP", "BRACKET"}, byAmount : BOOLEAN]

ASSUME OrdersAssumption == Orders = Slots
ASSUME RequestsAssumption == Requests \subseteq RequestType
ASSUME PositionsAssumption == Positions \subseteq Int
ASSUME CallersAssumption == IsFiniteSet(Callers)
ASSUME LimitsAssumption == MaxRate \in Nat /\ MaxFaults \in Nat
ASSUME FaultsAssumption == Faults \subseteq {"unreadable", "stale", "lie", "noise", "operator"}

VARIABLES held,     (* the broker's position                                *)
          pc,       (* where the request stands                             *)
          req,      (* the request                                          *)
          half,     (* the half it is working on                            *)
          plan,     (* split_for_order's answer: [reduce, open]             *)
          isExit,   (* the half's exit-class flag                           *)
          allowOpen,(* the direct path's permission to open                 *)
          basis,    (* the size of the position its exemption rests on      *)
          opens,    (* gather_risk_inputs' open order count                 *)
          result,   (* per half, what the placement reported                *)
          sent,     (* per order, what was handed to the broker             *)
          lied,     (* orders whose Cancelled was not the truth             *)
          faults,   (* how many faults there were                           *)
          peak      (* most requests seen between gate and placement        *)

taskVars == <<pc, req, half, plan, isExit, allowOpen, basis, opens, result, peak>>
brokerVars == <<held, sent, lied, faults>>
vars == <<trackerVars, taskVars, brokerVars>>

Sides == {"BUY", "SELL"}
NotSent == [side |-> "BUY", qty |-> 0, exempt |-> FALSE, live |-> FALSE]
NoPlan  == [reduce |-> 0, open |-> 0]
NoRequest == [path |-> "none", side |-> "BUY", qty |-> 0, exit |-> "NONE", byAmount |-> FALSE]

Opposite(side) == IF side = "BUY" THEN "SELL" ELSE "BUY"
Signed(side, qty) == IF side = "BUY" THEN qty ELSE -qty

(* Mutant: a short position's size is negative.                            *)
SizeSigned(n) == n
Size(n) == IF n < 0 THEN -n ELSE n

Init ==
    /\ TrackerInit
    /\ held \in Positions
    /\ pc = [s \in Callers |-> "idle"]
    /\ req = [s \in Callers |-> NoRequest]
    /\ half = [s \in Callers |-> "first"]
    /\ plan = [s \in Callers |-> NoPlan]
    /\ isExit = [s \in Callers |-> FALSE]
    /\ allowOpen = [s \in Callers |-> TRUE]
    /\ basis = [s \in Callers |-> 0]
    /\ opens = [s \in Callers |-> 0]
    /\ result = [s \in Callers |-> [h \in Halves |-> "none"]]
    /\ sent = [o \in Orders |-> NotSent]
    /\ lied = {}
    /\ faults = 0
    /\ peak = 0
-----------------------------------------------------------------------------
(* The reads and decisions of one step.                                    *)

(* _signed_position(): the cached position, which a fill reaches late, or  *)
(* None on a failed read.                                                  *)
Reads == {held} \union (IF "stale" \in Faults THEN Positions ELSE {})
                \union (IF "unreadable" \in Faults THEN {Unreadable} ELSE {})

(* order_reduces_exposure() over the kernel reduces_exposure().            *)
Reduces(side, seen) ==
    /\ seen # Unreadable
    /\ \/ side = "SELL" /\ seen > 0
       \/ side = "BUY" /\ seen < 0

(* Mutant: the whole order takes the exit's exemption, as before the split.*)
SplitNever(side, seen, qty) ==
    IF Reduces(side, seen) THEN [reduce |-> qty, open |-> 0]
                           ELSE [reduce |-> 0, open |-> qty]

(* split_for_order() over split_order(): everything opens when the read    *)
(* failed or the side is the position's own.                               *)
Split(side, seen, qty) ==
    IF Reduces(side, seen)
    THEN LET part == IF qty <= Size(seen) THEN qty ELSE Size(seen)
         IN [reduce |-> part, open |-> qty - part]
    ELSE [reduce |-> 0, open |-> qty]

IsFlip(p) == p.reduce > 0 /\ p.open > 0

(* The order-rate limit counts today's opening ORDER_SUBMITTED events.     *)
Opened == Cardinality({o \in Orders : o[3] = "entry" /\ sent[o].qty > 0 /\ ~sent[o].exempt})

(* Requests that passed the gate and have not placed yet.                  *)
InGap == {s \in Callers : pc[s] = "tier" /\ ~isExit[s]}

(* Mutant: the limits are compared with > instead of >=.                   *)
GateOffByOne(count) == count <= MaxOpen /\ Opened <= MaxRate

(* RiskGate.evaluate(), the two limits that count: working orders (as read *)
(* by gather_risk_inputs) and recent submissions (read here).  All other   *)
(* checks are the nondeterministic GateRefuses and TierRefuses.            *)
GatePasses(count) == count < MaxOpen /\ Opened < MaxRate

Goto(s, label) == pc' = [pc EXCEPT ![s] = label] /\ UNCHANGED peak

(* The gate passed: s will place after the next await.                     *)
EnterGap(s) ==
    /\ pc' = [pc EXCEPT ![s] = "tier"]
    /\ peak' = LET gap == Cardinality(InGap \union {s}) IN IF gap > peak THEN gap ELSE peak

(* The legs of a half: the reduction of a flip and the direct path place a *)
(* plain entry.                                                            *)
LegsOf(r, plain) ==
    IF plain \/ r.path # "proposal" THEN {"entry"}
    ELSE CASE r.exit = "NONE"    -> {"entry"}
           [] r.exit = "STOP"    -> {"entry", "stop"}
           [] r.exit = "BRACKET" -> Legs

Before(leg) ==
    CASE leg = "entry" -> {} [] leg = "profit" -> {"entry"} [] leg = "stop" -> {"entry", "profit"}

(* Mutant: the entry of a bracket is transmitted at once.                  *)
TransmitAtOnce(legs, refused) == TRUE

(* Only the last leg transmits, and with it the legs staged before it.     *)
Transmits(legs, refused) == refused \notin legs

(* subscribe_place_order_direct() leg by leg; no await in between.  If a   *)
(* leg is refused the legs staged before it are cancelled, best effort     *)
(* (cleaned = FALSE: that cancel raised).  An entry without exemption      *)
(* needs its gate record, which the callers of this operator establish.    *)
PlaceLegs(s, h, r, qty, legs, exempt, refused, cleaned) ==
    LET placed == {<<s, h, l>> : l \in IF refused \in legs THEN legs \cap Before(refused) ELSE legs}
        live == Transmits(legs, refused)
    IN /\ sent' = [o \in Orders |->
              IF o \in placed
              THEN [side |-> IF o[3] = "entry" THEN r.side ELSE Opposite(r.side),
                    qty |-> qty, exempt |-> exempt \/ o[3] # "entry", live |-> live]
              ELSE sent[o]]
       /\ Observe([o \in placed |->
              IF refused \in legs /\ cleaned THEN "Dead" ELSE "Pending"])

(* The refusals of one call: none, or one of the legs.                     *)
RefusedAt == Legs \union {"none"}

Report(s, h, outcome) == result' = [result EXCEPT ![s][h] = outcome]
-----------------------------------------------------------------------------
(* place_expressive_order()                                                *)

(* The legs of one half, then the wait for the entry's verdict; a refused  *)
(* leg fails the half, and a failed reduction ends the request.            *)
PlaceAndConfirm(s, h, r, qty, legs, exempt, refused, cleaned) ==
    /\ PlaceLegs(s, h, r, qty, legs, exempt, refused, cleaned)
    /\ IF refused \in legs
       THEN Goto(s, "done") /\ Report(s, h, "fail") /\ UNCHANGED verdict
       ELSE /\ Goto(s, "confirm")
            /\ Await(<<s, h, "entry">>)
            /\ UNCHANGED result

Begin(s, r, seen) ==
    /\ pc[s] = "idle"
    /\ req' = [req EXCEPT ![s] = r]
    /\ half' = [half EXCEPT ![s] = "first"]
    /\ basis' = [basis EXCEPT ![s] = IF seen = Unreadable THEN 0 ELSE Size(seen)]

(* An order that reduces the position is placed at once: no gate, no await.*)
(* A flip places its reduction as a plain close.                           *)
ProposalExit(s, r, seen, refused, cleaned) ==
    /\ r.path = "proposal"
    /\ Reduces(r.side, seen)
    /\ Begin(s, r, seen)
    /\ LET p == Split(r.side, seen, r.qty)
       IN /\ plan' = [plan EXCEPT ![s] = p]
          /\ isExit' = [isExit EXCEPT ![s] = TRUE]
          /\ PlaceAndConfirm(s, "first", r, p.reduce, LegsOf(r, IsFlip(p)), TRUE, refused, cleaned)
    /\ UNCHANGED <<allowOpen, opens, held, lied, faults>>

ProposalOpen(s, r, seen) ==
    /\ r.path = "proposal"
    /\ ~Reduces(r.side, seen)
    /\ Begin(s, r, seen)
    /\ plan' = [plan EXCEPT ![s] = Split(r.side, seen, r.qty)]
    /\ isExit' = [isExit EXCEPT ![s] = FALSE]
    /\ Goto(s, "margin")
    /\ UNCHANGED <<allowOpen, opens, result, trackerVars, brokerVars>>

(* whatIf answered: the inputs of the gate are gathered, then the price of *)
(* a market order is awaited.                                              *)
GatherInputs(s) ==
    /\ pc[s] = "margin"
    /\ opens' = [opens EXCEPT ![s] = OpenCount]
    /\ Goto(s, "value")
    /\ UNCHANGED <<req, half, plan, isExit, allowOpen, basis, result, trackerVars, brokerVars>>

(* evaluate() on the inputs gathered before that await; a pass leads to    *)
(* the approver tier, which awaits a price of its own.                     *)
Evaluate(s) ==
    /\ pc[s] = "value"
    /\ GatePasses(opens[s])
    /\ EnterGap(s)
    /\ UNCHANGED <<req, half, plan, isExit, allowOpen, basis, opens, result, trackerVars, brokerVars>>

(* Filter, margin, leverage, a limit of the gate or the approver tier      *)
(* refuses; never an exit.                                                 *)
RefuseOpen(s) ==
    /\ pc[s] \in {"margin", "value", "tier"}
    /\ ~isExit[s]
    /\ Goto(s, "done")
    /\ Report(s, half[s], "fail")
    /\ UNCHANGED <<req, half, plan, isExit, allowOpen, basis, opens, trackerVars, brokerVars>>

PlaceOpen(s, refused, cleaned) ==
    /\ pc[s] = "tier"
    /\ req[s].path = "proposal"
    /\ PlaceAndConfirm(s, half[s], req[s], plan[s].open, LegsOf(req[s], FALSE), FALSE, refused, cleaned)
    /\ UNCHANGED <<req, half, plan, isExit, allowOpen, basis, opens, held, lied, faults>>

(* What a cancelOrder for each of them makes of the orders.                *)
AfterCancel(orders) == [o \in orders |-> AfterCancelRequest(o, sent[o].live)]

OrdersOf(s, h) == {o \in Orders : o[1] = s /\ o[2] = h /\ sent[o].qty > 0}

(* wait_decisive() returned.  Rejected: the legs are cancelled, best       *)
(* effort, and the half failed.  Anything else, a timeout too, is success; *)
(* after the reduction of a flip the remainder starts at the gates as new  *)
(* exposure (force_open), whatever the position says.                      *)
Resume(s) ==
    LET h     == half[s]
        entry == <<s, h, "entry">>
    IN /\ pc[s] = "confirm"
       /\ Returned(entry)
       /\ Forget(entry)
       /\ IF verdict[entry] = "rejected"
          THEN /\ \E cancelled \in SUBSET OrdersOf(s, h) : Observe(AfterCancel(cancelled))
               /\ Report(s, h, "fail")
               /\ Goto(s, "done")
               /\ UNCHANGED <<half, isExit>>
          ELSE /\ Report(s, h, "ok")
               /\ UNCHANGED <<status, recorded>>
               /\ IF h = "first" /\ IsFlip(plan[s])
                  THEN /\ half' = [half EXCEPT ![s] = "second"]
                       /\ isExit' = [isExit EXCEPT ![s] = FALSE]
                       /\ Goto(s, "margin")
                  ELSE Goto(s, "done") /\ UNCHANGED <<half, isExit>>
    /\ UNCHANGED <<req, plan, allowOpen, basis, opens, brokerVars>>

(* The eight seconds are over first.                                       *)
WaitTimeout(s) == pc[s] = "confirm" /\ Expire(<<s, half[s], "entry">>) /\ UNCHANGED <<taskVars, brokerVars>>
-----------------------------------------------------------------------------
(* place_order_simple() and Executioner.place_order()                      *)

(* The RPC boundary with require_proposal_approval: an order that opens is *)
(* refused, a flip may only reduce.  An order sized by an amount has no    *)
(* quantity yet, so its split is empty and it passes.                      *)
ProposalGate(r, seen) ==
    LET p == IF r.byAmount THEN NoPlan ELSE Split(r.side, seen, r.qty)
    IN IF ~RequireApproval \/ p.open = 0 THEN "open"
       ELSE IF p.reduce > 0 THEN "reduce only" ELSE "refuse"

DirectOrder(s, r, seen) ==
    /\ r.path = "direct"
    /\ pc[s] = "idle"
    /\ req' = [req EXCEPT ![s] = r]
    /\ allowOpen' = [allowOpen EXCEPT ![s] = ProposalGate(r, seen) = "open"]
    /\ IF ProposalGate(r, seen) = "refuse"
       THEN Goto(s, "done") /\ Report(s, "first", "fail")
       ELSE Goto(s, "quote") /\ UNCHANGED result
    /\ UNCHANGED <<half, plan, isExit, basis, opens, trackerVars, brokerVars>>

(* The gates of Executioner.place_order on a non-exit, in one step with    *)
(* whatever came before it.                                                *)
GateDirect(s, h, count) ==
    \/ GatePasses(count) /\ EnterGap(s) /\ UNCHANGED result
    \/ Goto(s, "done") /\ Report(s, h, "fail")

(* The snapshot arrived: split, classify and gate the first half; then a   *)
(* second snapshot (and the tier) is awaited, exits too.                   *)
DirectQuote(s, seen) ==
    LET r == req[s]
        p == Split(r.side, seen, r.qty)
    IN /\ pc[s] = "quote"
       /\ plan' = [plan EXCEPT ![s] = p]
       /\ basis' = [basis EXCEPT ![s] = IF seen = Unreadable THEN 0 ELSE Size(seen)]
       /\ isExit' = [isExit EXCEPT ![s] = Reduces(r.side, seen)]
       /\ IF Reduces(r.side, seen)
          THEN Goto(s, "tier") /\ UNCHANGED result
          ELSE GateDirect(s, "first", OpenCount)
       /\ UNCHANGED <<req, half, allowOpen, opens, trackerVars, brokerVars>>

(* A snapshot that raises ends the call, for an exit too.                  *)
QuoteFails(s) ==
    /\ req[s].path = "direct"
    /\ pc[s] \in {"quote", "tier"}
    /\ Goto(s, "done")
    /\ Report(s, half[s], "fail")
    /\ UNCHANGED <<req, half, plan, isExit, allowOpen, basis, opens, trackerVars, brokerVars>>

(* The half is placed without waiting for a verdict.  After a reduction,   *)
(* placed or not, the remainder goes to the gates if this path may open.   *)
PlaceDirect(s, refused) ==
    LET h == half[s]
        r == req[s]
        qty == IF h = "second" \/ ~isExit[s] THEN plan[s].open ELSE plan[s].reduce
        outcome == IF refused = "entry" THEN "fail" ELSE "ok"
    IN /\ pc[s] = "tier"
       /\ r.path = "direct"
       /\ refused \in {"none", "entry"}
       /\ PlaceLegs(s, h, r, qty, {"entry"}, isExit[s], refused, TRUE)
       /\ IF h = "first" /\ IsFlip(plan[s]) /\ allowOpen[s]
          THEN /\ half' = [half EXCEPT ![s] = "second"]
               /\ isExit' = [isExit EXCEPT ![s] = FALSE]
               /\ \/ /\ GatePasses(OpenCount')
                     /\ EnterGap(s)
                     /\ Report(s, h, outcome)
                  \/ /\ Goto(s, "done")
                     /\ result' = [result EXCEPT ![s] = [first |-> outcome, second |-> "fail"]]
          ELSE Goto(s, "done") /\ Report(s, h, outcome) /\ UNCHANGED <<half, isExit>>
       /\ UNCHANGED <<req, plan, allowOpen, basis, opens, verdict, held, lied, faults>>

(* place_standalone_order(): only a reduction that fits the position.      *)
Standalone(s, r, seen, refused) ==
    /\ r.path = "standalone"
    /\ Begin(s, r, seen)
    /\ refused \in {"none", "entry"}
    /\ IF Reduces(r.side, seen) /\ r.qty <= Size(seen)
       THEN /\ PlaceLegs(s, "first", r, r.qty, {"entry"}, TRUE, refused, TRUE)
            /\ Report(s, "first", IF refused = "entry" THEN "fail" ELSE "ok")
            /\ UNCHANGED verdict
       ELSE Report(s, "first", "fail") /\ UNCHANGED <<trackerVars, sent>>
    /\ Goto(s, "done")
    /\ UNCHANGED <<plan, isExit, allowOpen, opens, held, lied, faults>>
-----------------------------------------------------------------------------
(* The broker, the position feed and the operator.                         *)

Parent(o) == <<o[1], o[2], "entry">>
IsChild(o) == o[3] # "entry"
Siblings(o) == {c \in Orders : IsChild(c) /\ Parent(c) = Parent(o) /\ c # o}

Transmitted(o) == sent[o].qty > 0 /\ sent[o].live
Update(o, st) == OnTrade([x \in {o} |-> st])

(* Nobody waits for a child to be accepted, so that is not a step.         *)
Accept(o) ==
    /\ Transmitted(o) /\ ~IsChild(o) /\ status[o] = "Pending"
    /\ Update(o, "Working")
    /\ UNCHANGED <<taskVars, brokerVars>>

(* The broker refuses an order or kills it, a child when its parent died   *)
(* or its sibling filled.                                                  *)
Kill(o) ==
    /\ Transmitted(o) /\ status[o] \in Active
    /\ IsChild(o) => \/ status[Parent(o)] = "Dead"
                     \/ \E c \in Siblings(o) : status[c] = "Filled"
    /\ Update(o, "Dead")
    /\ UNCHANGED <<taskVars, brokerVars>>

(* A child works only on a filled parent, and one child at most fills.     *)
MayFill(o) ==
    /\ Transmitted(o)
    /\ status[o] \in Active \/ o \in lied
    /\ IsChild(o) => /\ recorded[Parent(o)] # <<>>
                     /\ recorded[Parent(o)][Len(recorded[Parent(o)])] = "filled"
                     /\ \A c \in Siblings(o) : status[c] # "Filled"

Fill(o) ==
    /\ MayFill(o)
    /\ Update(o, "Filled")
    /\ held' = held + Signed(sent[o].side, sent[o].qty)
    /\ lied' = lied \ {o}
    /\ UNCHANGED <<taskVars, sent, faults>>

(* A fault of this kind may still happen.                                  *)
Disturb(kind) == kind \in Faults /\ faults < MaxFaults /\ faults' = faults + 1

(* The stream says Cancelled of an order that goes on to fill.             *)
Lie(o) ==
    /\ Disturb("lie")
    /\ Transmitted(o) /\ ~IsChild(o) /\ status[o] \in Active
    /\ Update(o, "Dead")
    /\ lied' = lied \union {o}
    /\ UNCHANGED <<taskVars, held, sent>>

(* Noise: a Cancelled after the Filled.                                    *)
Repeat(o) ==
    /\ Disturb("noise")
    /\ status[o] = "Filled"
    /\ Update(o, "Dead")
    /\ UNCHANGED <<taskVars, held, sent, lied>>

(* cancel_order(): any working order of this client, and cancel_all().     *)
Cancel(orders) ==
    /\ Disturb("operator")
    /\ \E o \in orders : Transmitted(o) /\ status[o] \in {"Pending", "Working"}
    /\ OnTrade(AfterCancel({o \in orders : sent[o].qty > 0}))
    /\ UNCHANGED <<taskVars, held, sent, lied>>

CancelOrder(o) == Cancel({o})
CancelAll == Cancel(Orders)

Arrive(s) ==
    \E r \in Requests, seen \in Reads :
        \/ ProposalOpen(s, r, seen)
        \/ DirectOrder(s, r, seen)
        \/ \E refused \in RefusedAt, cleaned \in BOOLEAN : ProposalExit(s, r, seen, refused, cleaned)
        \/ \E refused \in RefusedAt : Standalone(s, r, seen, refused)

Work(s) ==
    \/ GatherInputs(s) \/ Evaluate(s) \/ RefuseOpen(s) \/ QuoteFails(s)
    \/ \E seen \in Reads : DirectQuote(s, seen)
    \/ \E refused \in RefusedAt, cleaned \in BOOLEAN : PlaceOpen(s, refused, cleaned)
    \/ \E refused \in RefusedAt : PlaceDirect(s, refused)

Wait(s) == Resume(s) \/ WaitTimeout(s)

Broker ==
    \/ \E o \in Orders : Accept(o) \/ Kill(o) \/ Fill(o) \/ Lie(o) \/ Repeat(o) \/ CancelOrder(o)
    \/ CancelAll

Next == (\E s \in Callers : Arrive(s) \/ Work(s) \/ Wait(s)) \/ Broker

Spec == Init /\ [][Next]_vars
-----------------------------------------------------------------------------
Pcs == {"idle", "margin", "value", "quote", "tier", "confirm", "done"}

TypeOK ==
    /\ TrackerTypeOK
    /\ pc \in [Callers -> Pcs]
    /\ req \in [Callers -> Requests \union {NoRequest}]
    /\ half \in [Callers -> Halves]
    /\ plan \in [Callers -> [reduce : Nat, open : Nat]]
    /\ isExit \in [Callers -> BOOLEAN]
    /\ allowOpen \in [Callers -> BOOLEAN]
    /\ basis \in [Callers -> Nat]
    /\ opens \in [Callers -> Nat]
    /\ result \in [Callers -> [Halves -> {"none", "ok", "fail"}]]
    /\ sent \in [Orders -> [side : Sides, qty : Nat, exempt : BOOLEAN, live : BOOLEAN]]
    /\ held \in Int /\ peak \in Nat /\ faults \in 0 .. MaxFaults
    /\ lied \subseteq Orders

(* A half reaches the market with all its legs or with none: no entry of a *)
(* bracket can fill before its protection has been handed over, and what a *)
(* rollback leaves behind was never transmitted.                           *)
AllOrNothing ==
    \A s \in Callers, h \in Halves :
        LET mine == OrdersOf(s, h)
        IN /\ \A o, p \in mine : sent[o].live = sent[p].live
           /\ \A o \in mine : recorded[o] # <<>> /\ recorded[o][Len(recorded[o])] = "filled"
                => /\ sent[o].live
                   /\ "stop" \in LegsOf(req[s], h = "first" /\ IsFlip(plan[s]))
                         => <<s, h, "stop">> \in mine

(* What a request places without the gate's record never exceeds the       *)
(* position it was classified against: a position-crossing order does not  *)
(* carry its opening half through the exit's exemption.                    *)
ExemptWithinPosition ==
    \A s \in Callers : \A h \in Halves :
        LET o == <<s, h, "entry">>
        IN sent[o].exempt => h = "first" /\ sent[o].qty <= basis[s]

(* The limits are read before an await and spent after it, so they can be  *)
(* passed by several requests at once; the overshoot is bounded by how     *)
(* many were between gate and placement together, and without an overlap   *)
(* the rate limit is exact.                                                *)
RateOvershootBounded == Opened <= MaxRate - 1 + peak \/ Opened = 0

(* A half that was reported failed has no order that fills, except when    *)
(* the broker's Cancelled was not the truth.                               *)
FailedHalfIsDead ==
    \A s \in Callers, h \in Halves :
        result[s][h] = "fail" =>
            \A o \in OrdersOf(s, h) : status[o] = "Filled" => recorded[Parent(o)] = <<"dead", "filled">>

(* With require_proposal_approval a direct order never opens exposure.     *)
NoDirectOpen ==
    RequireApproval =>
        \A s \in Callers, h \in Halves :
            req[s].path = "direct" /\ sent[<<s, h, "entry">>].qty > 0
                => sent[<<s, h, "entry">>].exempt
=============================================================================
