------------------------------ MODULE ResizePlan ------------------------------
(***************************************************************************)
(* sdk.py, compute_resize_plan and execute_resize_plan: one adjustment of  *)
(* a resize, for a long position covered by the legs of a bracket, against *)
(* trader_service and a broker that works on its own.  The SDK submits the *)
(* delta, waits for a growing position, and replaces one protective order  *)
(* after the other; every call may time out and still be carried out, the  *)
(* position trader_service sees lags behind the broker's, and a leg may    *)
(* trigger at any time.  Adjustments follow one another and share nothing. *)
(***************************************************************************)
EXTENDS Integers, FiniteSets

CONSTANTS Legs,     (* the protective orders found for the position          *)
          Start,    (* shares held, one unit of value each                   *)
          Other,    (* value of the other positions                          *)
          Bounds    (* the portfolio values asked for                        *)

ASSUME LegsAssumption == IsFiniteSet(Legs)
ASSUME SizesAssumption == Start \in Nat \ {0} /\ Other \in Nat /\ Bounds \subseteq Nat

VARIABLES
    target,     (* target_qty of the adjustment                              *)
    pc, leg,    (* execute_resize_plan: where it is, and on which order      *)
    todo,       (* associated orders it has not come to                      *)
    outcome,    (* what it was told of the delta                             *)
    warned,     (* orders it put a warning out for; "grow" for the position  *)
    delta,      (* the delta: with trader_service, at the broker, done       *)
    old, new,   (* per leg: the original order and the one re-created for it *)
    held, seen  (* the position, and the one trader_service knows of         *)

sdkVars    == <<target, pc, leg, todo, outcome, warned>>
brokerVars == <<delta, old, new, held, seen>>
vars == <<sdkVars, brokerVars>>

(* compute_resize_deltas: int() cuts the scaled quantity down.             *)
TargetQty(bound) == (Start * bound) \div (Start + Other)

Growing == target > Start

DeltaWhole == target

(* The quantity of the market order that takes the position there.         *)
Delta == target - Start

Init ==
    /\ \E bound \in Bounds : target = TargetQty(bound) /\ target # Start
    /\ pc = "delta" /\ leg \in Legs /\ todo = Legs
    /\ outcome = "none" /\ warned = {}
    /\ delta = "none"
    /\ old = [l \in Legs |-> "live"] /\ new = [l \in Legs |-> "none"]
    /\ held = Start /\ seen = Start
-----------------------------------------------------------------------------
(* The SDK: the delta                                                      *)

SendDelta ==
    /\ pc = "delta" /\ delta = "none"
    /\ delta' = "sent"
    /\ UNCHANGED <<sdkVars, old, new, held, seen>>

(* place_order_simple resolves on submission: "ok" does not mean filled.   *)
DeltaOk ==
    /\ pc = "delta" /\ delta \in {"working", "filled", "rejected"}
    /\ outcome' = "ok"
    /\ pc' = IF Growing THEN "await" ELSE "next"
    /\ UNCHANGED <<target, leg, todo, warned, brokerVars>>

DeltaRefused ==
    /\ pc = "delta" /\ delta = "refused"
    /\ outcome' = "failed" /\ pc' = "done"
    /\ UNCHANGED <<target, leg, todo, warned, brokerVars>>

DeltaTimeoutAsOk ==
    /\ pc = "delta" /\ delta # "none"
    /\ outcome' = "unknown" /\ pc' = IF Growing THEN "await" ELSE "next"
    /\ UNCHANGED <<target, leg, todo, warned, brokerVars>>

DeltaTimeout ==
    /\ pc = "delta" /\ delta # "none"
    /\ outcome' = "unknown" /\ pc' = "done"
    /\ UNCHANGED <<target, leg, todo, warned, brokerVars>>

(* _resolve_contract fails: the orders stay at their old quantity.         *)
Unresolved ==
    /\ pc \in {"await", "next"} /\ todo = Legs
    /\ warned' = {"grow"} /\ pc' = "done"
    /\ UNCHANGED <<target, leg, todo, outcome, brokerVars>>

GrownOnSubmission ==
    /\ pc = "await" /\ seen >= Start
    /\ pc' = "next"
    /\ UNCHANGED <<target, leg, todo, outcome, warned, brokerVars>>

(* _await_grown_position.                                                  *)
Grown ==
    /\ pc = "await" /\ seen >= target
    /\ pc' = "next"
    /\ UNCHANGED <<target, leg, todo, outcome, warned, brokerVars>>

AwaitTimeout ==
    /\ pc = "await" /\ seen < target
    /\ warned' = {"grow"} /\ pc' = "done"
    /\ UNCHANGED <<target, leg, todo, outcome, brokerVars>>
-----------------------------------------------------------------------------
(* The SDK: one protective order after the other                           *)

NextLeg(l) ==
    /\ pc = "next" /\ l \in todo
    /\ leg' = l /\ todo' = todo \ {l} /\ pc' = "cancel"
    /\ UNCHANGED <<target, outcome, warned, brokerVars>>

Finish ==
    /\ pc = "next" /\ todo = {}
    /\ pc' = "done"
    /\ UNCHANGED <<target, leg, todo, outcome, warned, brokerVars>>

RequestCancel(l) ==
    old' = [old EXCEPT ![l] = IF @ = "live" THEN "cancelling" ELSE @]

(* cancel_order succeeds when the request went out, also for an order that *)
(* is done by then.                                                        *)
Cancel ==
    /\ pc = "cancel"
    /\ RequestCancel(leg)
    /\ new' = [new EXCEPT ![leg] = "sent"]
    /\ pc' = "create"
    /\ UNCHANGED <<target, leg, todo, outcome, warned, delta, held, seen>>

(* The call fails or times out, before or after the request went out.      *)
CancelUnconfirmed ==
    /\ pc = "cancel"
    /\ RequestCancel(leg) \/ UNCHANGED old
    /\ warned' = warned \union {leg}
    /\ pc' = "next"
    /\ UNCHANGED <<target, leg, todo, outcome, delta, new, held, seen>>

CreateOk ==
    /\ pc = "create" /\ new[leg] \in {"live", "filled", "rejected"}
    /\ pc' = "next"
    /\ UNCHANGED <<target, leg, todo, outcome, warned, brokerVars>>

CreateFailUnsaid ==
    /\ pc = "create"
    /\ pc' = "next"
    /\ UNCHANGED <<target, leg, todo, outcome, warned, brokerVars>>

(* Refused, or no answer: POSITION UNPROTECTED.                            *)
CreateFail ==
    /\ pc = "create"
    /\ warned' = warned \union {leg}
    /\ pc' = "next"
    /\ UNCHANGED <<target, leg, todo, outcome, brokerVars>>

SDK ==
    \/ SendDelta \/ DeltaOk \/ DeltaRefused \/ DeltaTimeout
    \/ Unresolved \/ Grown \/ AwaitTimeout
    \/ \E l \in Legs : NextLeg(l)
    \/ Finish \/ Cancel \/ CancelUnconfirmed \/ CreateOk \/ CreateFail
-----------------------------------------------------------------------------
(* trader_service                                                          *)

PlaceDelta ==
    /\ delta = "sent"
    /\ delta' \in {"working", "refused"}
    /\ UNCHANGED <<sdkVars, old, new, held, seen>>

(* place_standalone_order: only what reduces the position it sees, and     *)
(* never more than that position.                                          *)
PlaceStandalone(l) ==
    /\ new[l] = "sent"
    /\ new' = [new EXCEPT ![l] =
                   IF 0 < target /\ target <= seen THEN "live" ELSE "refused"]
    /\ UNCHANGED <<sdkVars, delta, old, held, seen>>

(* A position event arrives.                                               *)
Sync ==
    /\ seen # held
    /\ seen' = held
    /\ UNCHANGED <<sdkVars, delta, old, new, held>>
-----------------------------------------------------------------------------
(* The broker                                                              *)

ResolveDelta ==
    /\ delta = "working"
    /\ \/ delta' = "filled" /\ held' = held + Delta
       \/ delta' = "rejected" /\ UNCHANGED held
    /\ UNCHANGED <<sdkVars, old, new, seen>>

(* The legs of the original bracket are one OCA group: a fill of one       *)
(* cancels the others.                                                     *)
FireOld(l) ==
    /\ old[l] \in {"live", "cancelling"}
    /\ old' = [k \in Legs |->
                  CASE k = l -> "filled"
                    [] k # l /\ old[k] \in {"live", "cancelling"} -> "cancelled"
                    [] OTHER -> old[k]]
    /\ held' = held - Start
    /\ UNCHANGED <<sdkVars, delta, new, seen>>

CancelDone(l) ==
    /\ old[l] = "cancelling"
    /\ old' = [old EXCEPT ![l] = "cancelled"]
    /\ UNCHANGED <<sdkVars, delta, new, held, seen>>

(* A re-created order stands alone: it fires, or is rejected late.         *)
ResolveNew(l) ==
    /\ new[l] = "live"
    /\ \/ new' = [new EXCEPT ![l] = "filled"] /\ held' = held - target
       \/ new' = [new EXCEPT ![l] = "rejected"] /\ UNCHANGED held
    /\ UNCHANGED <<sdkVars, delta, old, seen>>

Environment ==
    \/ PlaceDelta \/ Sync \/ ResolveDelta
    \/ \E l \in Legs : PlaceStandalone(l) \/ FireOld(l) \/ CancelDone(l) \/ ResolveNew(l)

Next == SDK \/ Environment

Spec == Init /\ [][Next]_vars
-----------------------------------------------------------------------------
(* The position is the one it started with, moved by every order that has  *)
(* filled.                                                                 *)
OldFilled == {l \in Legs : old[l] = "filled"}
NewFilled == {l \in Legs : new[l] = "filled"}

Moved == IF delta = "filled" THEN target - Start ELSE 0

Accounted == held = Start + Moved - Start * Cardinality(OldFilled)
                                  - target * Cardinality(NewFilled)

TypeOK ==
    /\ target \in {TargetQty(bound) : bound \in Bounds} \ {Start}
    /\ pc \in {"delta", "await", "next", "cancel", "create", "done"}
    /\ leg \in Legs /\ todo \subseteq Legs
    /\ outcome \in {"none", "ok", "failed", "unknown"}
    /\ warned \subseteq Legs \union {"grow"}
    /\ delta \in {"none", "sent", "working", "refused", "filled", "rejected"}
    /\ old \in [Legs -> {"live", "cancelling", "cancelled", "filled"}]
    /\ new \in [Legs -> {"none", "sent", "refused", "live", "rejected", "filled"}]
    /\ held \in Int /\ seen \in Int
    /\ Accounted

Fired == \E l \in Legs : "filled" \in {old[l], new[l]}

(* A delta that was refused, or that nobody knows the fate of, leaves      *)
(* every protective order as it was: nothing is cancelled unless a leg     *)
(* fired.                                                                  *)
AbandonedUntouched ==
    outcome \in {"failed", "unknown"} =>
        \A l \in Legs : new[l] = "none" /\ (old[l] = "live" \/ Fired)

(* A larger order is asked for only when trader_service will take it: in a *)
(* position that grows, no leg is cancelled for a replacement the position *)
(* is still too small for, unless a leg fired in between.                  *)
RecreateAccepted ==
    Growing => \A l \in Legs : new[l] = "refused" => Fired

(* A plan that ends without a failure or a warning has left exactly one    *)
(* working order per leg, of the quantity held, once the delta is filled   *)
(* and unless a leg fired or the broker rejected an order it had taken.    *)
SilentMeansCovered ==
    /\ pc = "done" /\ outcome = "ok" /\ warned = {}
    /\ delta = "filled" /\ ~Fired
    => /\ held = target
       /\ \A l \in Legs : old[l] # "live" /\ new[l] \in {"live", "rejected"}
=============================================================================
