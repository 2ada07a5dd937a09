---------------------------- MODULE ResizePlanProofs ----------------------------
(***************************************************************************)
(* Proofs about ResizePlan, for any set of protective orders, any sizes    *)
(* and any portfolio bounds: the position is accounted for, an abandoned   *)
(* delta leaves the protection alone, a growing position never has a       *)
(* replacement refused, and a silent plan has covered the position.        *)
(***************************************************************************)
EXTENDS ResizePlan, FiniteSetTheorems, TLAPS

USE DEF TargetQty, Growing, Delta

LEMMA DivNat == ASSUME NEW a \in Nat, NEW b \in Nat \ {0} PROVE a \div b \in Nat
OBVIOUS

(* int() of a scaled quantity is a quantity.                               *)
LEMMA TargetNat == ASSUME TypeOK PROVE target \in Nat
<1>1. PICK bound \in Bounds : target = (Start * bound) \div (Start + Other)
  BY DEF TypeOK
<1>2. Start * bound \in Nat /\ Start + Other \in Nat \ {0}
  BY SizesAssumption
<1> QED
  BY <1>1, <1>2, DivNat

LEMMA OneMore == ASSUME NEW n \in Int, NEW k \in Nat PROVE n * (k + 1) = n * k + n
OBVIOUS

(* How the number of filled orders changes.                                *)
LEMMA FilledFinite ==
    /\ IsFiniteSet(OldFilled) /\ Cardinality(OldFilled) \in Nat
    /\ IsFiniteSet(NewFilled) /\ Cardinality(NewFilled) \in Nat
<1>1. OldFilled \subseteq Legs /\ NewFilled \subseteq Legs
  BY DEF OldFilled, NewFilled
<1> QED
  BY <1>1, LegsAssumption, FS_Subset, FS_CardinalityType

(***************************************************************************)
(* Type correctness and the account of the position                        *)
(***************************************************************************)
LEMMA InitTypeOK == Init => TypeOK
<1> SUFFICES ASSUME Init PROVE TypeOK
  OBVIOUS
<1>1. OldFilled = {} /\ NewFilled = {}
  BY DEF Init, OldFilled, NewFilled
<1>2. Cardinality(OldFilled) = 0 /\ Cardinality(NewFilled) = 0
  BY <1>1, FS_EmptySet
<1>3. target \in Nat
  <2>1. PICK bound \in Bounds : target = (Start * bound) \div (Start + Other)
    BY DEF Init
  <2>2. Start * bound \in Nat /\ Start + Other \in Nat \ {0}
    BY SizesAssumption
  <2> QED
    BY <2>1, <2>2, DivNat
<1>4. Accounted
  BY <1>2, <1>3, SizesAssumption DEF Init, Accounted, Moved
<1> QED
  BY <1>4, SizesAssumption DEF Init, TypeOK

(* Steps that leave both sets of filled orders, the delta and the position *)
(* alone keep the account.                                                 *)
LEMMA AccountKept ==
    ASSUME TypeOK, OldFilled' = OldFilled, NewFilled' = NewFilled,
           target' = target, held' = held, Moved' = Moved
    PROVE  Accounted'
BY DEF TypeOK, Accounted

(* The legs are tried once each: a leg to come, and the one whose cancel   *)
(* comes next, has no replacement; nothing is tried before the delta.      *)
Untried ==
    /\ pc \in {"delta", "await"} => todo = Legs
    /\ \A l \in todo : new[l] = "none"
    /\ pc = "cancel" => leg \notin todo /\ new[leg] = "none"
    /\ pc = "create" => leg \notin todo

TypeInv == TypeOK /\ Untried

LEMMA InitTypeInv == Init => TypeInv
BY InitTypeOK DEF Init, TypeInv, Untried

LEMMA SdkKeepsTypeInv == ASSUME TypeInv, SDK PROVE TypeInv'
<1> USE DEF sdkVars, brokerVars, TypeInv
<1>a. CASE SendDelta
  <2>1. OldFilled' = OldFilled /\ NewFilled' = NewFilled /\ Moved' = Moved
    BY <1>a DEF SendDelta, OldFilled, NewFilled, Moved
  <2>2. Accounted'
    BY <1>a, <2>1, AccountKept DEF SendDelta
  <2> QED
    BY <1>a, <2>2 DEF SendDelta, TypeOK, Untried
<1>b. CASE \/ DeltaOk \/ DeltaRefused \/ DeltaTimeout
           \/ Unresolved \/ Grown \/ AwaitTimeout
           \/ (\E l \in Legs : NextLeg(l)) \/ Finish \/ CreateOk \/ CreateFail
  <2>1. UNCHANGED brokerVars /\ target' = target
    BY <1>b DEF DeltaOk, DeltaRefused, DeltaTimeout, Unresolved, Grown, AwaitTimeout,
                NextLeg, Finish, CreateOk, CreateFail
  <2>2. OldFilled' = OldFilled /\ NewFilled' = NewFilled /\ Moved' = Moved
    BY <2>1 DEF OldFilled, NewFilled, Moved
  <2>3. Accounted'
    BY <2>1, <2>2, AccountKept
  <2>4. /\ pc' \in {"delta", "await", "next", "cancel", "create", "done"}
        /\ leg' \in Legs /\ todo' \subseteq Legs
        /\ outcome' \in {"none", "ok", "failed", "unknown"}
        /\ warned' \subseteq Legs \union {"grow"}
        /\ Untried'
    BY <1>b, <2>1 DEF TypeOK, Untried, DeltaOk, DeltaRefused, DeltaTimeout, Unresolved,
                      Grown, AwaitTimeout, NextLeg, Finish, CreateOk, CreateFail
  <2> QED
    BY <2>1, <2>3, <2>4 DEF TypeOK
<1>c. CASE Cancel \/ CancelUnconfirmed
  <2>1. OldFilled' = OldFilled
    BY <1>c DEF Cancel, CancelUnconfirmed, RequestCancel, OldFilled, TypeOK
  <2>2. NewFilled' = NewFilled
    BY <1>c DEF Cancel, CancelUnconfirmed, NewFilled, TypeOK, Untried
  <2>3. Accounted'
    BY <1>c, <2>1, <2>2, AccountKept DEF Cancel, CancelUnconfirmed, Moved
  <2>4. old' \in [Legs -> {"live", "cancelling", "cancelled", "filled"}]
    BY <1>c DEF Cancel, CancelUnconfirmed, RequestCancel, TypeOK
  <2> QED
    BY <1>c, <2>3, <2>4 DEF Cancel, CancelUnconfirmed, TypeOK, Untried
<1> QED
  BY <1>a, <1>b, <1>c DEF SDK

LEMMA EnvironmentKeepsTypeInv == ASSUME TypeInv, Environment PROVE TypeInv'
<1> USE DEF sdkVars, brokerVars, TypeInv
<1>t. target \in Nat /\ Start \in Nat
  BY TargetNat, SizesAssumption
<1>a. CASE PlaceDelta \/ Sync
  <2>1. OldFilled' = OldFilled /\ NewFilled' = NewFilled /\ Moved' = Moved
    BY <1>a DEF PlaceDelta, Sync, OldFilled, NewFilled, Moved
  <2>2. Accounted'
    BY <1>a, <2>1, AccountKept DEF PlaceDelta, Sync
  <2> QED
    BY <1>a, <2>2 DEF PlaceDelta, Sync, TypeOK, Untried
<1>b. CASE ResolveDelta
  <2>1. OldFilled' = OldFilled /\ NewFilled' = NewFilled
    BY <1>b DEF ResolveDelta, OldFilled, NewFilled
  <2>2. Accounted' /\ held' \in Int
    <3>1. Start * Cardinality(OldFilled) \in Int /\ target * Cardinality(NewFilled) \in Int
      BY <1>t, FilledFinite
    <3> QED
      BY <1>b, <1>t, <2>1, <3>1 DEF ResolveDelta, Accounted, Moved, TypeOK
  <2> QED
    BY <1>b, <2>2 DEF ResolveDelta, TypeOK, Untried
<1>c. ASSUME NEW l \in Legs, PlaceStandalone(l) PROVE TypeInv'
  <2>1. OldFilled' = OldFilled /\ NewFilled' = NewFilled /\ Moved' = Moved
    BY <1>c DEF PlaceStandalone, OldFilled, NewFilled, Moved, TypeOK
  <2>2. Accounted'
    BY <1>c, <2>1, AccountKept DEF PlaceStandalone
  <2> QED
    BY <1>c, <2>2 DEF PlaceStandalone, TypeOK, Untried
<1>d. ASSUME NEW l \in Legs, CancelDone(l) PROVE TypeInv'
  <2>1. OldFilled' = OldFilled /\ NewFilled' = NewFilled /\ Moved' = Moved
    BY <1>d DEF CancelDone, OldFilled, NewFilled, Moved, TypeOK
  <2>2. Accounted'
    BY <1>d, <2>1, AccountKept DEF CancelDone
  <2> QED
    BY <1>d, <2>2 DEF CancelDone, TypeOK, Untried
<1>e. ASSUME NEW l \in Legs, FireOld(l) PROVE TypeInv'
  <2>1. OldFilled' = OldFilled \union {l} /\ l \notin OldFilled
    BY <1>e DEF FireOld, OldFilled, TypeOK
  <2>2. Cardinality(OldFilled') = Cardinality(OldFilled) + 1
    BY <2>1, FilledFinite, FS_AddElement
  <2>3. NewFilled' = NewFilled /\ Moved' = Moved /\ held' = held - Start /\ target' = target
    BY <1>e DEF FireOld, NewFilled, Moved
  <2>4. Start * Cardinality(OldFilled') = Start * Cardinality(OldFilled) + Start
    BY <1>t, <2>2, OneMore, FilledFinite
  <2>5. Accounted' /\ held' \in Int
    <3>1. Start * Cardinality(OldFilled) \in Int /\ target * Cardinality(NewFilled) \in Int
      BY <1>t, FilledFinite
    <3>2. Moved \in Int
      BY <1>t DEF Moved
    <3> QED
      BY <1>t, <2>3, <2>4, <3>1, <3>2 DEF Accounted, TypeOK
  <2>6. old' \in [Legs -> {"live", "cancelling", "cancelled", "filled"}]
    BY <1>e DEF FireOld, TypeOK
  <2> QED
    BY <1>e, <2>5, <2>6 DEF FireOld, TypeOK, Untried
<1>f. ASSUME NEW l \in Legs, ResolveNew(l) PROVE TypeInv'
  <2>0. new' \in [Legs -> {"none", "sent", "refused", "live", "rejected", "filled"}]
    BY <1>f DEF ResolveNew, TypeOK
  <2>1. OldFilled' = OldFilled /\ Moved' = Moved /\ target' = target
    BY <1>f DEF ResolveNew, OldFilled, Moved
  <2>2. CASE new' = [new EXCEPT ![l] = "filled"] /\ held' = held - target
    <3>1. NewFilled' = NewFilled \union {l} /\ l \notin NewFilled
      BY <1>f, <2>2 DEF ResolveNew, NewFilled, TypeOK
    <3>2. Cardinality(NewFilled') = Cardinality(NewFilled) + 1
      BY <3>1, FilledFinite, FS_AddElement
    <3>3. target * Cardinality(NewFilled') = target * Cardinality(NewFilled) + target
      BY <1>t, <3>2, OneMore, FilledFinite
    <3>4. Start * Cardinality(OldFilled) \in Int /\ target * Cardinality(NewFilled) \in Int
      BY <1>t, FilledFinite
    <3>5. Moved \in Int
      BY <1>t DEF Moved
    <3>6. Accounted' /\ held' \in Int
      BY <1>t, <2>1, <2>2, <3>3, <3>4, <3>5 DEF Accounted, TypeOK
    <3> QED
      BY <1>f, <2>0, <3>6 DEF ResolveNew, TypeOK, Untried
  <2>3. CASE new' = [new EXCEPT ![l] = "rejected"] /\ held' = held
    <3>1. NewFilled' = NewFilled
      BY <1>f, <2>3 DEF ResolveNew, NewFilled, TypeOK
    <3>2. Accounted'
      BY <2>1, <2>3, <3>1, AccountKept
    <3> QED
      BY <1>f, <2>0, <2>3, <3>2 DEF ResolveNew, TypeOK, Untried
  <2> QED
    BY <1>f, <2>2, <2>3 DEF ResolveNew
<1> QED
  BY <1>a, <1>b, <1>c, <1>d, <1>e, <1>f DEF Environment

LEMMA StepKeepsTypeInv == TypeInv /\ [Next]_vars => TypeInv'
<1>1. ASSUME TypeInv, UNCHANGED vars PROVE TypeInv'
  BY <1>1 DEF vars, sdkVars, brokerVars, TypeInv, TypeOK, Untried, Accounted, Moved,
              OldFilled, NewFilled
<1> QED
  BY <1>1, SdkKeepsTypeInv, EnvironmentKeepsTypeInv DEF Next

(* The position is what the filled orders made of it, and no leg is tried  *)
(* twice.                                                                  *)
THEOREM TypeCorrect == Spec => []TypeOK
<1>1. Spec => []TypeInv
  BY InitTypeInv, StepKeepsTypeInv, PTL DEF Spec
<1>2. TypeInv => TypeOK
  BY DEF TypeInv
<1> QED
  BY <1>1, <1>2, PTL
-----------------------------------------------------------------------------
(***************************************************************************)
(* Legs that fired stay fired; without one, the delta alone moves the      *)
(* position.                                                               *)
(***************************************************************************)
LEMMA FiredStays == ASSUME TypeInv, [Next]_vars, Fired PROVE Fired'
<1> USE DEF sdkVars, brokerVars, TypeInv, TypeOK, Fired
<1>1. PICK k \in Legs : "filled" \in {old[k], new[k]}
  OBVIOUS
<1>2. CASE UNCHANGED vars
  BY <1>1, <1>2 DEF vars
<1>3. CASE SDK
  BY <1>1, <1>3 DEF SDK, SendDelta, DeltaOk, DeltaRefused, DeltaTimeout, Unresolved, Grown,
                    AwaitTimeout, NextLeg, Finish, Cancel, CancelUnconfirmed, RequestCancel,
                    CreateOk, CreateFail, Untried
<1>4. CASE Environment
  BY <1>1, <1>4 DEF Environment, PlaceDelta, Sync, ResolveDelta, PlaceStandalone, FireOld,
                    CancelDone, ResolveNew
<1> QED
  BY <1>2, <1>3, <1>4 DEF Next

LEMMA UnfiredPosition == ASSUME TypeInv, ~Fired PROVE held = Start + Moved
<1>1. OldFilled = {} /\ NewFilled = {}
  BY DEF Fired, OldFilled, NewFilled
<1>2. Cardinality(OldFilled) = 0 /\ Cardinality(NewFilled) = 0
  BY <1>1, FS_EmptySet
<1>3. target \in Nat
  BY TargetNat DEF TypeInv
<1> QED
  BY <1>2, <1>3, SizesAssumption DEF TypeInv, TypeOK, Accounted, Moved
-----------------------------------------------------------------------------
(***************************************************************************)
(* An abandoned delta                                                      *)
(***************************************************************************)
(* Unless the delta was answered with success, nothing was cancelled and   *)
(* nothing created.                                                        *)
Untouched ==
    /\ pc = "delta" => outcome = "none"
    /\ outcome # "ok" =>
          /\ pc \in {"delta", "done"}
          /\ \A l \in Legs : new[l] = "none" /\ (old[l] = "live" \/ Fired)

LEMMA InitUntouched == Init => Untouched
BY DEF Init, Untouched

LEMMA StepKeepsUntouched ==
    ASSUME TypeInv, Untouched, [Next]_vars PROVE Untouched'
<1> USE DEF sdkVars, brokerVars
<1>0. pc' = "delta" => outcome' = "none"
  BY DEF Untouched, Next, vars, SDK, SendDelta, DeltaOk, DeltaRefused, DeltaTimeout, Unresolved,
         Grown, AwaitTimeout, NextLeg, Finish, Cancel, CancelUnconfirmed, CreateOk, CreateFail,
         Environment, PlaceDelta, Sync, ResolveDelta, PlaceStandalone, FireOld, CancelDone,
         ResolveNew
<1> SUFFICES ASSUME outcome' # "ok"
             PROVE  /\ pc' \in {"delta", "done"}
                    /\ \A l \in Legs : new'[l] = "none" /\ (old'[l] = "live" \/ Fired')
  BY <1>0 DEF Untouched
<1>1. CASE UNCHANGED vars
  BY <1>1, FiredStays DEF vars, Untouched
<1>2. CASE SDK
  <2>1. \/ SendDelta \/ DeltaRefused \/ DeltaTimeout
    BY <1>2 DEF SDK, Untouched, DeltaOk, Unresolved, Grown, AwaitTimeout, NextLeg, Finish,
                Cancel, CancelUnconfirmed, CreateOk, CreateFail
  <2>2. outcome # "ok" /\ UNCHANGED <<old, new>>
    BY <2>1, <1>2 DEF SendDelta, DeltaRefused, DeltaTimeout, Untouched
  <2> QED
    BY <2>1, <2>2, FiredStays DEF Untouched, SendDelta, DeltaRefused, DeltaTimeout
<1>3. CASE Environment
  <2>1. outcome # "ok" /\ pc' = pc
    BY <1>3 DEF Environment, PlaceDelta, Sync, ResolveDelta, PlaceStandalone, FireOld,
                CancelDone, ResolveNew
  <2>2. CASE PlaceDelta \/ Sync \/ ResolveDelta
    BY <2>1, <2>2, FiredStays DEF Untouched, PlaceDelta, Sync, ResolveDelta
  <2>3. ASSUME NEW k \in Legs, PlaceStandalone(k) \/ ResolveNew(k) PROVE FALSE
    BY <2>1, <2>3 DEF Untouched, PlaceStandalone, ResolveNew
  <2>4. ASSUME NEW k \in Legs, FireOld(k)
        PROVE  Fired' /\ new' = new
    BY <2>4 DEF FireOld, Fired, TypeInv, TypeOK
  <2>5. ASSUME NEW k \in Legs, CancelDone(k)
        PROVE  Fired' /\ new' = new
    <3>1. Fired
      BY <2>1, <2>5 DEF CancelDone, Untouched
    <3> QED
      BY <2>5, <3>1, FiredStays DEF CancelDone
  <2> QED
    BY <1>3, <2>1, <2>2, <2>3, <2>4, <2>5 DEF Environment, Untouched
<1> QED
  BY <1>1, <1>2, <1>3 DEF Next

(* A delta that was refused or timed out leaves every protective order as  *)
(* it was (execute_resize_plan's continue after a failed delta).           *)
THEOREM Abandoned == Spec => []AbandonedUntouched
<1>1. Init => TypeInv /\ Untouched
  BY InitTypeInv, InitUntouched
<1>2. TypeInv /\ Untouched /\ [Next]_vars => (TypeInv /\ Untouched)'
  BY StepKeepsTypeInv, StepKeepsUntouched
<1>3. TypeInv /\ Untouched => AbandonedUntouched
  BY DEF Untouched, AbandonedUntouched
<1> QED
  BY <1>1, <1>2, <1>3, PTL DEF Spec
-----------------------------------------------------------------------------
(***************************************************************************)
(* Replacements in a growing position                                      *)
(***************************************************************************)
(* Without a leg that fired, trader_service knows the position before the  *)
(* delta or after it; once the legs are replaced, the grown one.           *)
Replacing == pc \in {"next", "cancel", "create"} \/ \E l \in Legs : new[l] # "none"

SeenInv ==
    ~Fired =>
        /\ seen \in {Start, held}
        /\ Growing /\ Replacing => seen >= target
        /\ Growing => \A l \in Legs : new[l] # "refused"

LEMMA InitSeen == Init => SeenInv
BY DEF Init, SeenInv, Replacing

LEMMA StepKeepsSeen == ASSUME TypeInv, SeenInv, [Next]_vars PROVE SeenInv'
<1> SUFFICES ASSUME ~Fired'
             PROVE  /\ seen' \in {Start, held'}
                    /\ Growing' /\ Replacing' => seen' >= target'
                    /\ Growing' => \A l \in Legs : new'[l] # "refused"
  BY DEF SeenInv
<1> USE DEF sdkVars, brokerVars
<1>f. ~Fired
  BY FiredStays
<1>t. target \in Nat /\ Start \in Nat \ {0} /\ held \in Int /\ seen \in Int
  BY TargetNat, SizesAssumption DEF TypeInv, TypeOK
<1>h. held = Start + Moved
  BY <1>f, UnfiredPosition
<1>1. CASE UNCHANGED vars
  BY <1>1, <1>f DEF vars, SeenInv, Replacing
<1>2. CASE SDK
  <2>1. UNCHANGED <<target, held, seen>>
    BY <1>2 DEF SDK, SendDelta, DeltaOk, DeltaRefused, DeltaTimeout, Unresolved, Grown,
                AwaitTimeout, NextLeg, Finish, Cancel, CancelUnconfirmed, CreateOk, CreateFail
  <2>2. \A l \in Legs : new'[l] = "refused" => new[l] = "refused"
    BY <1>2 DEF SDK, SendDelta, DeltaOk, DeltaRefused, DeltaTimeout, Unresolved, Grown,
                AwaitTimeout, NextLeg, Finish, Cancel, CancelUnconfirmed, CreateOk, CreateFail,
                TypeInv, TypeOK
  <2>3. Growing /\ Replacing' => Replacing \/ seen >= target
    BY <1>2, <1>t DEF SDK, SendDelta, DeltaOk, DeltaRefused, DeltaTimeout, Unresolved, Grown,
                AwaitTimeout, NextLeg, Finish, Cancel, CancelUnconfirmed, CreateOk, CreateFail,
                TypeInv, TypeOK, Replacing
  <2> QED
    BY <1>f, <2>1, <2>2, <2>3 DEF SeenInv
<1>3. CASE PlaceDelta
  BY <1>3, <1>f DEF PlaceDelta, SeenInv, Replacing
<1>4. CASE Sync
  BY <1>4, <1>f, <1>t DEF Sync, SeenInv, Replacing
<1>5. CASE ResolveDelta
  <2>1. held = Start /\ seen = Start
    BY <1>5, <1>f, <1>h, <1>t DEF ResolveDelta, Moved, SeenInv
  <2>2. ~(Growing /\ Replacing)
    BY <2>1, <1>f, <1>t DEF SeenInv
  <2> QED
    BY <1>5, <2>1, <2>2, <1>f DEF ResolveDelta, SeenInv, Replacing
<1>6. ASSUME NEW k \in Legs, PlaceStandalone(k)
      PROVE  SeenInv'
  <2>1. new[k] # "none"
    BY <1>6 DEF PlaceStandalone
  <2>2. Replacing
    BY <2>1 DEF Replacing
  <2>3. Growing => 0 < target /\ target <= seen
    BY <2>2, <1>f, <1>t DEF SeenInv
  <2>4. Growing => \A l \in Legs : new'[l] # "refused"
    BY <1>6, <1>f, <2>3 DEF PlaceStandalone, SeenInv, TypeInv, TypeOK
  <2> QED
    BY <1>6, <1>f, <2>2, <2>4 DEF PlaceStandalone, SeenInv
<1>7. ASSUME NEW k \in Legs, FireOld(k) PROVE FALSE
  BY <1>7 DEF FireOld, Fired, TypeInv, TypeOK
<1>8. ASSUME NEW k \in Legs, CancelDone(k) PROVE SeenInv'
  BY <1>8, <1>f DEF CancelDone, SeenInv, Replacing
<1>9. ASSUME NEW k \in Legs, ResolveNew(k) PROVE SeenInv'
  <2>1. new' = [new EXCEPT ![k] = "rejected"] /\ held' = held
    BY <1>9 DEF ResolveNew, Fired, TypeInv, TypeOK
  <2>2. Replacing
    BY <1>9 DEF ResolveNew, Replacing
  <2> QED
    BY <1>9, <1>f, <2>1, <2>2 DEF ResolveNew, SeenInv, TypeInv, TypeOK
<1> QED
  BY <1>1, <1>2, <1>3, <1>4, <1>5, <1>6, <1>7, <1>8, <1>9 DEF Next, Environment, SeenInv

(* In a growing position no replacement is refused, unless a leg fired:    *)
(* _await_grown_position waits for what place_standalone_order will ask.   *)
THEOREM Accepted == Spec => []RecreateAccepted
<1>1. Init => TypeInv /\ SeenInv
  BY InitTypeInv, InitSeen
<1>2. TypeInv /\ SeenInv /\ [Next]_vars => (TypeInv /\ SeenInv)'
  BY StepKeepsTypeInv, StepKeepsSeen
<1>3. TypeInv /\ SeenInv => RecreateAccepted
  BY DEF SeenInv, RecreateAccepted
<1> QED
  BY <1>1, <1>2, <1>3, PTL DEF Spec
-----------------------------------------------------------------------------
(***************************************************************************)
(* A silent plan                                                           *)
(***************************************************************************)
(* Without a warning, every leg the plan has come to and is done with lost *)
(* its original order and has a replacement the broker was given.          *)
Covered(l) == old[l] # "live" /\ new[l] \in {"live", "rejected"}

AtLeg(l) == l = leg /\ pc \in {"cancel", "create"}

LoopInv ==
    /\ pc = "create" => old[leg] # "live"
    /\ pc = "done" /\ outcome = "ok" /\ warned = {} => todo = {}
    /\ warned = {} /\ ~Fired => \A l \in Legs \ todo : AtLeg(l) \/ Covered(l)

LEMMA InitLoop == Init => LoopInv
BY DEF Init, LoopInv

LEMMA StepKeepsLoop == ASSUME TypeInv, Untouched, LoopInv, [Next]_vars PROVE LoopInv'
<1> USE DEF sdkVars, brokerVars, LoopInv
<1>f. ~Fired' => ~Fired
  BY FiredStays
<1>1. CASE UNCHANGED vars
  BY <1>1, <1>f DEF vars, AtLeg, Covered
<1>2. CASE SendDelta \/ DeltaOk \/ DeltaRefused \/ DeltaTimeout \/ Unresolved \/ Grown \/ AwaitTimeout
  <2>1. UNCHANGED <<old, new, todo>> /\ todo \subseteq Legs
    BY <1>2 DEF SendDelta, DeltaOk, DeltaRefused, DeltaTimeout, Unresolved, Grown, AwaitTimeout,
                TypeInv, TypeOK
  <2>2. todo = Legs
    BY <1>2 DEF SendDelta, DeltaOk, DeltaRefused, DeltaTimeout, Unresolved, Grown, AwaitTimeout,
                TypeInv, Untried
  <2>3. pc' # "create" /\ (pc' = "done" /\ outcome' = "ok" => warned' # {})
    BY <1>2 DEF SendDelta, DeltaOk, DeltaRefused, DeltaTimeout, Unresolved, Grown, AwaitTimeout
  <2> QED
    BY <2>1, <2>2, <2>3
<1>3. ASSUME NEW k \in Legs, NextLeg(k) PROVE LoopInv'
  <2>1. \A l \in Legs \ todo' : l = k \/ l \in Legs \ todo
    BY <1>3 DEF NextLeg
  <2>2. warned = {} /\ ~Fired => \A l \in Legs \ todo : Covered(l)
    BY <1>3 DEF NextLeg, AtLeg
  <2> QED
    BY <1>3, <1>f, <2>1, <2>2 DEF NextLeg, AtLeg, Covered
<1>4. CASE Finish
  BY <1>4, <1>f DEF Finish, AtLeg, Covered
<1>5. CASE Cancel
  <2>1. old'[leg] # "live" /\ pc' = "create" /\ leg' = leg /\ todo' = todo /\ warned' = warned
    BY <1>5 DEF Cancel, RequestCancel, TypeInv, TypeOK
  <2>2. \A l \in Legs : l # leg => old'[l] = old[l] /\ new'[l] = new[l]
    BY <1>5 DEF Cancel, RequestCancel, TypeInv, TypeOK
  <2> QED
    BY <1>5, <1>f, <2>1, <2>2 DEF AtLeg, Covered
<1>6. CASE CancelUnconfirmed \/ CreateFail
  BY <1>6 DEF CancelUnconfirmed, CreateFail
<1>7. CASE CreateOk
  <2>1. warned = {} /\ ~Fired => Covered(leg)
    BY <1>7 DEF CreateOk, Covered, Fired, TypeInv, TypeOK
  <2>2. warned = {} /\ ~Fired => \A l \in Legs \ todo : Covered(l)
    BY <1>7, <2>1 DEF AtLeg
  <2> QED
    BY <1>7, <1>f, <2>2 DEF CreateOk, Covered
<1>8. CASE PlaceDelta \/ Sync \/ ResolveDelta
  BY <1>8, <1>f DEF PlaceDelta, Sync, ResolveDelta, AtLeg, Covered
<1>9. ASSUME NEW k \in Legs, PlaceStandalone(k) \/ ResolveNew(k) PROVE LoopInv'
  <2>1. UNCHANGED <<sdkVars, old>>
    BY <1>9 DEF PlaceStandalone, ResolveNew
  <2>2. ASSUME ~Fired', NEW l \in Legs, Covered(l) PROVE Covered(l)'
    <3>1. new'[l] \in {"live", "rejected"}
      BY <1>9, <2>2 DEF PlaceStandalone, ResolveNew, Covered, Fired, TypeInv, TypeOK
    <3> QED
      BY <2>1, <2>2, <3>1 DEF Covered
  <2> QED
    BY <1>f, <2>1, <2>2 DEF AtLeg
<1>10. ASSUME NEW k \in Legs, FireOld(k) \/ CancelDone(k) PROVE LoopInv'
  <2>1. UNCHANGED <<sdkVars, new>> /\ \A l \in Legs : old'[l] = "live" => old[l] = "live"
    BY <1>10 DEF FireOld, CancelDone, TypeInv, TypeOK
  <2>2. leg \in Legs
    BY DEF TypeInv, TypeOK
  <2> QED
    BY <1>f, <2>1, <2>2 DEF AtLeg, Covered
<1> QED
  BY <1>1, <1>2, <1>3, <1>4, <1>5, <1>6, <1>7, <1>8, <1>9, <1>10 DEF Next, SDK, Environment

(* A plan that ends with neither a failure nor a warning has covered the   *)
(* position it made, once the delta is filled, unless a leg fired.         *)
THEOREM SilentCovers == Spec => []SilentMeansCovered
<1>1. Init => TypeInv /\ Untouched /\ LoopInv
  BY InitTypeInv, InitUntouched, InitLoop
<1>2. TypeInv /\ Untouched /\ LoopInv /\ [Next]_vars => (TypeInv /\ Untouched /\ LoopInv)'
  BY StepKeepsTypeInv, StepKeepsUntouched, StepKeepsLoop
<1>3. TypeInv /\ LoopInv => SilentMeansCovered
  <2> SUFFICES ASSUME TypeInv, LoopInv, pc = "done", outcome = "ok", warned = {},
                      delta = "filled", ~Fired
               PROVE  held = target /\ \A l \in Legs : Covered(l)
    BY DEF SilentMeansCovered, Covered
  <2>1. held = target
    BY UnfiredPosition, TargetNat, SizesAssumption DEF Moved, TypeInv
  <2> QED
    BY <2>1 DEF LoopInv, AtLeg
<1> QED
  BY <1>1, <1>2, <1>3, PTL DEF Spec
=============================================================================
