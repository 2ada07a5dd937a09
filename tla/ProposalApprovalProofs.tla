------------------------ MODULE ProposalApprovalProofs ------------------------
(***************************************************************************)
(* Theorems about ProposalApproval, for every set of proposals, metadata   *)
(* keys and clients.                                                       *)
(***************************************************************************)
EXTENDS ProposalApproval, TLAPS

(* What a compare-and-swap may do to the columns: nothing, or one edge of  *)
(* the transition table.                                                   *)
LEMMA TryTransitionEffect ==
  ASSUME StoreTypeOK, NEW p \in Proposals, NEW from, NEW to \in RowStatus,
         NEW ids \in SUBSET Legs, TryTransition(p, from, to, ids)
  PROVE  /\ StoreTypeOK'
         /\ meta' = meta
         /\ \/ /\ ~CasWins(p, from, to)
               /\ UNCHANGED <<status, orderIds>>
            \/ /\ CasWins(p, from, to)
               /\ status' = [status EXCEPT ![p] = to]
               /\ orderIds' = [orderIds EXCEPT ![p] = ids]
<1>1. CasWins(p, from, to) \in BOOLEAN
  BY DEF CasWins
<1>2. CASE CasWins(p, from, to)
  BY <1>2 DEF TryTransition, StoreTypeOK
<1>3. CASE ~CasWins(p, from, to)
  BY <1>3 DEF TryTransition, StoreTypeOK
<1> QED
  BY <1>1, <1>2, <1>3

(* update_status() takes one edge of the transition table too, or raises   *)
(* and changes nothing.                                                    *)
LEMMA UpdateStatusEffect ==
  ASSUME StoreTypeOK, NEW p \in Proposals, NEW to \in RowStatus, UpdateStatus(p, to)
  PROVE  /\ StoreTypeOK'
         /\ UNCHANGED <<orderIds, meta>>
         /\ \/ UNCHANGED status
            \/ /\ status[p] \in RowStatus /\ to \in AllowedTransitions[status[p]]
               /\ status' = [status EXCEPT ![p] = to]
<1>1. CASE HasRow(p) /\ to \in AllowedTransitions[status[p]]
  BY <1>1 DEF UpdateStatus, StoreTypeOK, HasRow
<1>2. CASE ~(HasRow(p) /\ to \in AllowedTransitions[status[p]])
  BY <1>2 DEF UpdateStatus, StoreTypeOK
<1> QED
  BY <1>1, <1>2

(* A step of the trader's task changes that task, its answer and the       *)
(* orders, and nothing the clients keep.                                   *)
TraderStep(c, p) ==
    \/ Refuse(c, p) \/ PlaceOrder(c, p) \/ PlaceReduction(c, p)
    \/ ConfirmReduction(c, p) \/ RefuseRemainder(c, p) \/ Confirm(c, p)
    \/ LoseTask(c, p)

(* The trader's task moves its own stage, answer and order, and never      *)
(* touches a row or a client.                                              *)
LEMMA TraderStepEffect ==
  ASSUME NEW c \in Clients, NEW p \in Proposals, TraderStep(c, p), TypeOK
  PROVE  /\ UNCHANGED <<status, orderIds, meta, pc, cur, enrich>>
         /\ rpc[c][p] \in Stage \ {"none", "done"}
         /\ \E s \in Stage \ {"none"} : rpc' = [rpc EXCEPT ![c][p] = s]
         /\ reply' = reply \/ \E a \in Answer : reply' = [reply EXCEPT ![c][p] = a]
         /\ order' = order \/ \E l \in Legs : order' = [order EXCEPT ![p][l] = "working"]
<1> USE DEF Stage, Answer
<1>1. CASE Refuse(c, p)
  BY <1>1 DEF Refuse, Finish
<1>2. CASE PlaceOrder(c, p)
  BY <1>2, LegsAssumption DEF PlaceOrder
<1>3. CASE PlaceReduction(c, p)
  BY <1>3, LegsAssumption DEF PlaceReduction
<1>4. CASE ConfirmReduction(c, p)
  BY <1>4 DEF ConfirmReduction, Finish
<1>5. CASE RefuseRemainder(c, p)
  BY <1>5 DEF RefuseRemainder, Finish
<1>6. CASE Confirm(c, p)
  BY <1>6 DEF Confirm, Finish
<1>7. CASE LoseTask(c, p)
  BY <1>7 DEF LoseTask, Finish
<1> QED
  BY <1>1, <1>2, <1>3, <1>4, <1>5, <1>6, <1>7, TraderStep(c, p) DEF TraderStep

(* A step of the trader's task keeps every variable's type.                *)
LEMMA TraderStepTypes ==
  ASSUME NEW c \in Clients, NEW p \in Proposals, TraderStep(c, p), TypeOK
  PROVE  TypeOK'
<1>1. PICK s \in Stage \ {"none"} : rpc' = [rpc EXCEPT ![c][p] = s]
  BY TraderStepEffect
<1>2. rpc' \in [Clients -> [Proposals -> Stage]]
  BY <1>1 DEF TypeOK
<1>3. reply' \in [Clients -> [Proposals -> Answer]]
  <2>1. CASE reply' = reply
    BY <2>1 DEF TypeOK
  <2>2. ASSUME NEW a \in Answer, reply' = [reply EXCEPT ![c][p] = a]
        PROVE  reply' \in [Clients -> [Proposals -> Answer]]
    BY <2>2 DEF TypeOK
  <2> QED
    BY <2>1, <2>2, TraderStepEffect
<1>4. order' \in [Proposals -> [Legs -> OrderState]]
  <2>1. CASE order' = order
    BY <2>1 DEF TypeOK
  <2>2. ASSUME NEW l \in Legs, order' = [order EXCEPT ![p][l] = "working"]
        PROVE  order' \in [Proposals -> [Legs -> OrderState]]
    BY <2>2 DEF TypeOK, OrderState
  <2> QED
    BY <2>1, <2>2, TraderStepEffect
<1> QED
  BY <1>2, <1>3, <1>4, TraderStepEffect DEF TypeOK, StoreTypeOK

(* Every variable keeps its type under every operation of approve(),       *)
(* reject(), propose() and the trader's task.                              *)
THEOREM TypeCorrect == Spec => []TypeOK
<1>1. Init => TypeOK
  BY DEF Init, StoreInit, TypeOK, StoreTypeOK, Stage, Answer, OrderState
<1>2. TypeOK /\ [Next]_vars => TypeOK'
  <2> SUFFICES ASSUME TypeOK, [Next]_vars PROVE TypeOK'
    OBVIOUS
  <2> USE LegsAssumption DEF TypeOK, Stage, Answer, OrderState
  <2>a. {"PENDING", "APPROVED", "EXECUTED", "FAILED", "REJECTED"} \subseteq RowStatus
    BY DEF RowStatus, Terminal
  <2>1. ASSUME NEW p \in Proposals, Propose(p) PROVE TypeOK'
    BY <2>1, <2>a DEF Propose, Add, StoreTypeOK
  <2>2. ASSUME NEW p \in Proposals, NEW k \in MetaKeys, Enrich(p, k) PROVE TypeOK'
    BY <2>2 DEF Enrich, UpdateMetadata, StoreTypeOK
  <2>3. ASSUME NEW p \in Proposals, Reject(p) PROVE TypeOK'
    <3>1. orderIds[p] \in SUBSET Legs
      BY DEF StoreTypeOK
    <3>2. StoreTypeOK'
      BY <2>3, <2>a, <3>1, TryTransitionEffect DEF Reject
    <3> QED
      BY <2>3, <3>2 DEF Reject
  <2>4. ASSUME NEW p \in Proposals, DeleteRow(p) PROVE TypeOK'
    BY <2>4 DEF DeleteRow, Delete, StoreTypeOK
  <2>5. ASSUME NEW c \in Clients, NEW p \in Proposals, Begin(c, p) PROVE TypeOK'
    BY <2>5 DEF Begin, StoreTypeOK
  <2>6. ASSUME NEW c \in Clients, Claim(c) PROVE TypeOK'
    <3>1. cur[c] \in Proposals /\ orderIds[cur[c]] \in SUBSET Legs
      BY DEF StoreTypeOK
    <3>2. StoreTypeOK'
      BY <2>6, <2>a, <3>1, TryTransitionEffect DEF Claim
    <3> QED
      BY <2>6, <3>2 DEF Claim
  <2>7. ASSUME NEW c \in Clients, FailBeforeSubmit(c) PROVE TypeOK'
    <3>1. cur[c] \in Proposals /\ orderIds[cur[c]] \in SUBSET Legs
      BY DEF StoreTypeOK
    <3>2. StoreTypeOK'
      BY <2>7, <2>a, <3>1, TryTransitionEffect, UpdateStatusEffect DEF FailBeforeSubmit
    <3> QED
      BY <2>7, <3>2 DEF FailBeforeSubmit
  <2>8. ASSUME NEW c \in Clients, Submit(c) PROVE TypeOK'
    BY <2>8 DEF Submit, StoreTypeOK
  <2>9. ASSUME NEW c \in Clients, ReceiveOk(c) PROVE TypeOK'
    <3>1. cur[c] \in Proposals /\ {l \in Legs : order[cur[c]][l] # "none"} \in SUBSET Legs
      OBVIOUS
    <3>2. StoreTypeOK'
      BY <2>9, <2>a, <3>1, TryTransitionEffect DEF ReceiveOk
    <3> QED
      BY <2>9, <3>2 DEF ReceiveOk
  <2>10. ASSUME NEW c \in Clients, ReceiveFail(c) PROVE TypeOK'
    <3>1. cur[c] \in Proposals /\ orderIds[cur[c]] \in SUBSET Legs
      BY DEF StoreTypeOK
    <3>2. StoreTypeOK'
      BY <2>10, <2>a, <3>1, TryTransitionEffect DEF ReceiveFail
    <3> QED
      BY <2>10, <3>2 DEF ReceiveFail
  <2>11. ASSUME NEW c \in Clients, Timeout(c) \/ Crash(c) PROVE TypeOK'
    BY <2>11 DEF Timeout, Crash, StoreTypeOK
  <2>12. ASSUME NEW c \in Clients, NEW p \in Proposals, TraderStep(c, p) PROVE TypeOK'
    BY <2>12, TraderStepTypes
  <2>13. ASSUME NEW p \in Proposals, NEW l \in Legs, BrokerUpdate(p, l) PROVE TypeOK'
    BY <2>13 DEF BrokerUpdate, StoreTypeOK
  <2>14. CASE UNCHANGED vars
    BY <2>14 DEF vars, StoreTypeOK
  <2> QED
    BY <2>1, <2>2, <2>3, <2>4, <2>5, <2>6, <2>7, <2>8, <2>9, <2>10, <2>11, <2>12,
       <2>13, <2>14
       DEF Next, StoreNext, ClientNext, TraderNext, BrokerNext, TraderStep
<1> QED
  BY <1>1, <1>2, PTL DEF Spec

------------------------------------------------------------------------------
(* First the claims.  A client is active on p from its claim on.  Only the *)
(* compare-and-swap makes a new active client; it needs the row PENDING,   *)
(* which no active client leaves behind, so there is never a second one,   *)
(* and the holder of an open claim is the only one to close it.            *)
ClaimInv == ActiveIsClaimed /\ OneActive /\ HolderIsOpen

(* Nothing is claimed at the start.                                        *)
LEMMA ClaimInvInit == Init => ClaimInv
  BY
     DEF Init, StoreInit, ClaimInv, ActiveIsClaimed, OneActive, HolderIsOpen,
         Active, Holds

(* No step lets a second client become active on a proposal, or takes the  *)
(* claim from the one that holds it.                                       *)
LEMMA ClaimInvStep == TypeOK /\ ClaimInv /\ [Next]_vars => ClaimInv'
<1> SUFFICES ASSUME TypeOK, ClaimInv, [Next]_vars PROVE ClaimInv'
  OBVIOUS
<1> USE DEF ClaimInv
<1>ids. \A p \in Proposals : orderIds[p] \in SUBSET Legs
  BY DEF TypeOK, StoreTypeOK
<1>rows. {"PENDING", "APPROVED", "EXECUTED", "FAILED", "REJECTED"} \subseteq RowStatus
  BY DEF RowStatus, Terminal
<1>1. ASSUME NEW p \in Proposals, Propose(p) PROVE ClaimInv'
  BY <1>1
     DEF Propose, Add, ActiveIsClaimed, OneActive, HolderIsOpen, Active, Holds,
         TypeOK, StoreTypeOK
<1>2. ASSUME NEW p \in Proposals, NEW k \in MetaKeys, Enrich(p, k) PROVE ClaimInv'
  BY <1>2
     DEF Enrich, UpdateMetadata, ActiveIsClaimed, OneActive, HolderIsOpen, Active,
         Holds, TypeOK, StoreTypeOK
<1>3. ASSUME NEW p \in Proposals, DeleteRow(p) PROVE ClaimInv'
  BY <1>3
     DEF DeleteRow, Delete, HasRow, RowStatus, Terminal, ActiveIsClaimed, OneActive,
         HolderIsOpen, Active, Holds, TypeOK, StoreTypeOK
<1>4. ASSUME NEW c \in Clients, NEW p \in Proposals, Begin(c, p) PROVE ClaimInv'
  BY <1>4
     DEF Begin, ActiveIsClaimed, OneActive, HolderIsOpen, Active, Holds, TypeOK,
         StoreTypeOK
<1>5. ASSUME NEW c \in Clients, Timeout(c) \/ Crash(c) PROVE ClaimInv'
  BY <1>5
     DEF Timeout, Crash, ActiveIsClaimed, OneActive, HolderIsOpen, Active, Holds,
         TypeOK, StoreTypeOK
<1>6. ASSUME NEW p \in Proposals, NEW l \in Legs, BrokerUpdate(p, l) PROVE ClaimInv'
  BY <1>6
     DEF BrokerUpdate, ActiveIsClaimed, OneActive, HolderIsOpen, Active, Holds,
         TypeOK, StoreTypeOK
<1>7. CASE UNCHANGED vars
  BY <1>7
     DEF vars, ActiveIsClaimed, OneActive, HolderIsOpen, Active, Holds, TypeOK,
         StoreTypeOK
<1>8. ASSUME NEW c \in Clients, NEW p \in Proposals, TraderStep(c, p) PROVE ClaimInv'
  <2>a. PICK s \in Stage \ {"none"} : rpc' = [rpc EXCEPT ![c][p] = s]
    BY <1>8, TraderStepEffect
  <2>b. rpc[c][p] # "none"
    BY <1>8, TraderStepEffect
  <2>c. UNCHANGED <<status, pc, cur>>
    BY <1>8, TraderStepEffect
  <2>d. \A c1 \in Clients, p1 \in Proposals : (rpc'[c1][p1] = "none") = (rpc[c1][p1] = "none")
    BY <2>a, <2>b DEF TypeOK
  <2> QED
    BY <2>c, <2>d DEF ActiveIsClaimed, OneActive, HolderIsOpen, Active, Holds, TypeOK
<1>9. ASSUME NEW p \in Proposals, Reject(p) PROVE ClaimInv'
  <2>a. status' = status \/ (status[p] = "PENDING" /\ status' = [status EXCEPT ![p] = "REJECTED"])
    BY <1>9, <1>ids, <1>rows, TryTransitionEffect DEF Reject, CasWins, TypeOK
  <2>b. UNCHANGED <<pc, cur, rpc>>
    BY <1>9 DEF Reject
  <2>1. CASE status' = status
    BY <2>b, <2>1 DEF ActiveIsClaimed, OneActive, HolderIsOpen, Active, Holds
  <2>2. CASE status[p] = "PENDING" /\ status' = [status EXCEPT ![p] = "REJECTED"]
    <3>a. \A c \in Clients : ~Active(c, p)
      BY <2>2 DEF ActiveIsClaimed
    <3> QED
      BY <2>b, <2>2, <3>a
         DEF ActiveIsClaimed, OneActive, HolderIsOpen, Active, Holds, TypeOK,
             StoreTypeOK
  <2> QED
    BY <2>a, <2>1, <2>2
<1>10. ASSUME NEW c \in Clients, Claim(c) PROVE ClaimInv'
  <2>1. CASE CasWins(cur[c], "PENDING", "APPROVED")
    <3>a. /\ status[cur[c]] = "PENDING" /\ cur[c] \in Proposals
          /\ status' = [status EXCEPT ![cur[c]] = "APPROVED"]
          /\ pc' = [pc EXCEPT ![c] = "claimed"]
      BY <1>10, <2>1 DEF Claim, TryTransition, CasWins, TypeOK
    <3>b. \A c1 \in Clients : ~Active(c1, cur[c])
      BY <3>a DEF ActiveIsClaimed
    <3> QED
      BY <1>10, <3>a, <3>b
         DEF Claim, ActiveIsClaimed, OneActive, HolderIsOpen, Active, Holds, TypeOK,
             StoreTypeOK
  <2>2. CASE ~CasWins(cur[c], "PENDING", "APPROVED")
    <3>a. status' = status /\ pc' = [pc EXCEPT ![c] = "idle"]
      BY <1>10, <2>2 DEF Claim, TryTransition
    <3> QED
      BY <1>10, <3>a
         DEF Claim, ActiveIsClaimed, OneActive, HolderIsOpen, Active, Holds, TypeOK
  <2> QED
    BY <2>1, <2>2
<1>11. ASSUME NEW c \in Clients, Submit(c) PROVE ClaimInv'
  BY <1>11
     DEF Submit, ActiveIsClaimed, OneActive, HolderIsOpen, Active, Holds, TypeOK,
         StoreTypeOK
<1>12. ASSUME NEW c \in Clients, FailBeforeSubmit(c) \/ ReceiveOk(c) \/ ReceiveFail(c)
       PROVE  ClaimInv'
  <2>a. /\ pc[c] \in {"claimed", "waiting"} /\ cur[c] \in Proposals
        /\ UNCHANGED <<cur, rpc>> /\ pc' = [pc EXCEPT ![c] = "idle"]
    BY <1>12 DEF FailBeforeSubmit, ReceiveOk, ReceiveFail, TypeOK
  <2> StoreTypeOK
    BY DEF TypeOK
  <2>b. \/ status' = status
        \/ \E v \in {"EXECUTED", "FAILED"} : status' = [status EXCEPT ![cur[c]] = v]
    <3>1. CASE FailBeforeSubmit(c)
      <4>1. CASE UpdateStatus(cur[c], "FAILED")
        BY <1>rows, <2>a, <4>1, UpdateStatusEffect
      <4>2. CASE TryTransition(cur[c], "APPROVED", "FAILED", orderIds[cur[c]])
        BY <4>2 DEF TryTransition
      <4> QED
        BY <3>1, <4>1, <4>2 DEF FailBeforeSubmit
    <3>2. CASE ReceiveOk(c)
      BY <3>2 DEF ReceiveOk, TryTransition
    <3>3. CASE ReceiveFail(c)
      BY <3>3 DEF ReceiveFail, TryTransition
    <3> QED
      BY <1>12, <3>1, <3>2, <3>3
  <2>c. \A c1 \in Clients : Holds(c1, cur[c]) => c1 = c
    BY <2>a DEF OneActive, Active, Holds
  <2> QED
    BY <2>a, <2>b, <2>c
       DEF ActiveIsClaimed, OneActive, HolderIsOpen, Active, Holds, TypeOK,
           StoreTypeOK
<1> QED
  BY <1>1, <1>2, <1>3, <1>4, <1>5, <1>6, <1>7, <1>8, <1>9, <1>10, <1>11, <1>12
     DEF Next, StoreNext, ClientNext, TraderNext, BrokerNext, TraderStep

(* Hence the claim protocol holds in every reachable state.                *)
LEMMA ClaimInvariance == Spec => [](TypeOK /\ ClaimInv)
  BY TypeCorrect, ClaimInvInit, ClaimInvStep, PTL DEF Spec

------------------------------------------------------------------------------
(* Then the trader's answers: one is given when the task is done, and only *)
(* a task that placed the entry answers ok.                                *)
TraderInv == AnswerIsFinal /\ OkIsPlaced

(* An answer is only given by a task that is over, and ok only after the   *)
(* entry was placed: every step keeps this.                                *)
LEMMA TraderInvStep == TypeOK /\ ClaimInv /\ TraderInv /\ [Next]_vars => TraderInv'
<1> SUFFICES ASSUME TypeOK, ClaimInv, TraderInv, [Next]_vars PROVE TraderInv'
  OBVIOUS
<1> USE LegsAssumption DEF TraderInv, AnswerIsFinal, OkIsPlaced
<1>1. CASE UNCHANGED <<rpc, reply, order>>
  BY <1>1
<1>2. ASSUME NEW c \in Clients, Submit(c) PROVE TraderInv'
  <2>1. rpc[c][cur[c]] = "none" /\ reply[c][cur[c]] = "pending"
    BY <1>2 DEF Submit, ClaimInv, HolderIsOpen, TypeOK
  <2> QED
    BY <1>2, <2>1 DEF Submit, TypeOK
<1>3. ASSUME NEW c \in Clients, NEW p \in Proposals, TraderStep(c, p) PROVE TraderInv'
  <2> USE DEF TypeOK
  <2>1. CASE Refuse(c, p)
    BY <2>1 DEF Refuse, Finish
  <2>2. CASE PlaceOrder(c, p)
    BY <2>2 DEF PlaceOrder
  <2>3. CASE PlaceReduction(c, p)
    BY <2>3 DEF PlaceReduction
  <2>4. CASE ConfirmReduction(c, p)
    <3>1. CASE order[p]["reduction"] = "dead"
      <4>1. Finish(c, p, "fail") /\ UNCHANGED order
        BY <2>4, <3>1 DEF ConfirmReduction
      <4> QED
        BY <4>1 DEF Finish
    <3>2. CASE order[p]["reduction"] # "dead"
      <4>1. /\ rpc[c][p] = "reducing" /\ rpc' = [rpc EXCEPT ![c][p] = "reduced"]
            /\ UNCHANGED <<reply, order>>
        BY <2>4, <3>2 DEF ConfirmReduction
      <4> QED
        BY <4>1
    <3> QED
      BY <3>1, <3>2
  <2>5. CASE RefuseRemainder(c, p)
    BY <2>5 DEF RefuseRemainder, Finish
  <2>6. CASE Confirm(c, p)
    BY <2>6 DEF Confirm, Finish
  <2>7. CASE LoseTask(c, p)
    BY <2>7 DEF LoseTask, Finish
  <2> QED
    BY <1>3, <2>1, <2>2, <2>3, <2>4, <2>5, <2>6, <2>7 DEF TraderStep
<1>4. ASSUME NEW p \in Proposals, NEW l \in Legs, BrokerUpdate(p, l) PROVE TraderInv'
  BY <1>4 DEF BrokerUpdate, TypeOK
<1> QED
  BY <1>1, <1>2, <1>3, <1>4 DEF Next, StoreNext, ClientNext, TraderNext, BrokerNext,
     TraderStep, Propose, Enrich, Reject, DeleteRow, Begin, Claim, FailBeforeSubmit,
     ReceiveOk, ReceiveFail, Timeout, Crash, vars

------------------------------------------------------------------------------
(* Last the rows: what a terminal status says about answers and orders.    *)
RowInv == ClosedOnAnswer /\ ExecutedIsRecorded

(* The steps that close no row and touch no answer.                        *)
RowChange == \A p \in Proposals :
    /\ status'[p] = status[p] \/ status'[p] \notin {"EXECUTED", "FAILED"}
    /\ \/ orderIds'[p] = orderIds[p]
       \/ orderIds'[p] = {} /\ status'[p] = "DELETED"

(* A step that leaves the trader and the broker alone and closes no row    *)
(* keeps what the rows record.                                             *)
LEMMA QuietStep ==
  ASSUME RowInv, UNCHANGED <<rpc, reply, order>>, RowChange
  PROVE  RowInv'
  BY DEF RowInv, ClosedOnAnswer, ExecutedIsRecorded, RowChange

(* What a row records stays backed by the trader's answers through every   *)
(* step.                                                                   *)
LEMMA RowInvStep ==
  TypeOK /\ ClaimInv /\ TraderInv /\ RowInv /\ [Next]_vars => RowInv'
<1> SUFFICES ASSUME TypeOK, ClaimInv, TraderInv, RowInv, [Next]_vars PROVE RowInv'
  OBVIOUS
<1> StoreTypeOK
  BY DEF TypeOK
<1>1. ASSUME NEW p \in Proposals, Propose(p) PROVE RowInv'
  <2>1. RowChange
    BY <1>1 DEF Propose, Add, StoreTypeOK, RowChange
  <2> QED
    BY <1>1, <2>1, QuietStep DEF Propose, Add
<1>2. CASE UNCHANGED <<status, orderIds, rpc, reply, order>>
  <2>1. RowChange
    BY <1>2 DEF RowChange
  <2> QED
    BY <1>2, <2>1, QuietStep
<1>3. ASSUME NEW p \in Proposals, DeleteRow(p) PROVE RowInv'
  <2>1. RowChange
    BY <1>3 DEF DeleteRow, Delete, StoreTypeOK, RowChange
  <2> QED
    BY <1>3, <2>1, QuietStep DEF DeleteRow, Delete
<1>4. ASSUME NEW p \in Proposals, Reject(p) PROVE RowInv'
  <2>1. \/ UNCHANGED <<status, orderIds>>
        \/ /\ status' = [status EXCEPT ![p] = "REJECTED"]
           /\ orderIds' = [orderIds EXCEPT ![p] = orderIds[p]]
    BY <1>4 DEF Reject, TryTransition
  <2>2. RowChange
    BY <2>1 DEF StoreTypeOK, RowChange
  <2> QED
    BY <1>4, <2>2, QuietStep DEF Reject
<1>5. ASSUME NEW c \in Clients, Claim(c) PROVE RowInv'
  <2>a. cur[c] \in Proposals
    BY DEF TypeOK
  <2>1. \/ UNCHANGED <<status, orderIds>>
        \/ /\ status' = [status EXCEPT ![cur[c]] = "APPROVED"]
           /\ orderIds' = [orderIds EXCEPT ![cur[c]] = orderIds[cur[c]]]
    BY <1>5 DEF Claim, TryTransition
  <2>2. RowChange
    BY <2>1, <2>a DEF StoreTypeOK, RowChange
  <2> QED
    BY <1>5, <2>2, QuietStep DEF Claim
<1>6. ASSUME NEW c \in Clients, Submit(c) PROVE RowInv'
  <2>1. cur[c] \in Proposals /\ status[cur[c]] \notin {"EXECUTED", "FAILED"}
    BY <1>6 DEF Submit, ClaimInv, HolderIsOpen, TypeOK
  <2> QED
    BY <1>6, <2>1 DEF Submit, RowInv, ClosedOnAnswer, ExecutedIsRecorded, TypeOK
<1>7. ASSUME NEW c \in Clients, FailBeforeSubmit(c) PROVE RowInv'
  <2>1. cur[c] \in Proposals /\ \A c1 \in Clients : rpc[c1][cur[c]] = "none"
    BY <1>7 DEF FailBeforeSubmit, ClaimInv, HolderIsOpen, OneActive, Active, Holds, TypeOK
  <2>2. /\ UNCHANGED <<rpc, reply, order>>
        /\ orderIds' = orderIds \/ orderIds' = [orderIds EXCEPT ![cur[c]] = orderIds[cur[c]]]
        /\ status' = status \/ status' = [status EXCEPT ![cur[c]] = "FAILED"]
    BY <1>7 DEF FailBeforeSubmit, UpdateStatus, TryTransition
  <2> QED
    BY <2>1, <2>2 DEF RowInv, ClosedOnAnswer, ExecutedIsRecorded, StoreTypeOK
<1>8. ASSUME NEW c \in Clients, ReceiveOk(c) PROVE RowInv'
  <2>1. /\ cur[c] \in Proposals /\ reply[c][cur[c]] = "ok"
        /\ UNCHANGED <<rpc, reply, order>>
    BY <1>8 DEF ReceiveOk, TypeOK
  <2>2. order[cur[c]]["order"] # "none"
    BY <2>1 DEF TraderInv, OkIsPlaced
  <2>3. \/ UNCHANGED <<status, orderIds>>
        \/ /\ status' = [status EXCEPT ![cur[c]] = "EXECUTED"]
           /\ orderIds' = [orderIds EXCEPT ![cur[c]] = {l \in Legs : order[cur[c]][l] # "none"}]
    BY <1>8 DEF ReceiveOk, TryTransition
  <2> QED
    BY <2>1, <2>2, <2>3, LegsAssumption
       DEF RowInv, ClosedOnAnswer, ExecutedIsRecorded, StoreTypeOK
<1>9. ASSUME NEW c \in Clients, ReceiveFail(c) PROVE RowInv'
  <2>1. /\ cur[c] \in Proposals /\ reply[c][cur[c]] \in {"fail", "error"}
        /\ UNCHANGED <<rpc, reply, order>>
    BY <1>9 DEF ReceiveFail, TypeOK
  <2>2. \A c1 \in Clients : rpc[c1][cur[c]] # "none" => c1 = c
    BY <1>9, <2>1 DEF ReceiveFail, ClaimInv, OneActive, Active, Holds
  <2>3. \/ UNCHANGED <<status, orderIds>>
        \/ /\ status' = [status EXCEPT ![cur[c]] = "FAILED"]
           /\ orderIds' = [orderIds EXCEPT ![cur[c]] = orderIds[cur[c]]]
    BY <1>9 DEF ReceiveFail, TryTransition
  <2> QED
    BY <2>1, <2>2, <2>3 DEF RowInv, ClosedOnAnswer, ExecutedIsRecorded, StoreTypeOK
<1>10. ASSUME NEW c \in Clients, NEW p \in Proposals, TraderStep(c, p) PROVE RowInv'
  <2>1. /\ UNCHANGED <<status, orderIds>>
        /\ rpc[c][p] \notin {"none", "done"}
    BY <1>10, TraderStepEffect
  <2>2. reply[c][p] = "pending"
    BY <2>1 DEF TraderInv, AnswerIsFinal, TypeOK
  <2>3. status[p] # "FAILED"
    BY <2>1, <2>2 DEF RowInv, ClosedOnAnswer
  <2>4. ASSUME NEW c1 \in Clients, NEW p1 \in Proposals, p1 # p \/ c1 # c
        PROVE  rpc'[c1][p1] = rpc[c1][p1] /\ reply'[c1][p1] = reply[c1][p1]
    <3>1. PICK s \in Stage \ {"none"} : rpc' = [rpc EXCEPT ![c][p] = s]
      BY <1>10, TraderStepEffect
    <3>2. reply' = reply \/ \E a \in Answer : reply' = [reply EXCEPT ![c][p] = a]
      BY <1>10, TraderStepEffect
    <3> QED
      BY <2>4, <3>1, <3>2 DEF TypeOK
  <2>5. \A p1 \in Proposals, l \in Legs : order[p1][l] # "none" => order'[p1][l] # "none"
    <3>1. CASE order' = order
      BY <3>1
    <3>2. ASSUME NEW l \in Legs, order' = [order EXCEPT ![p][l] = "working"]
          PROVE  \A p1 \in Proposals, l1 \in Legs :
                    order[p1][l1] # "none" => order'[p1][l1] # "none"
      BY <3>2 DEF TypeOK
    <3> QED
      BY <1>10, <3>1, <3>2, TraderStepEffect
  <2>6. ClosedOnAnswer'
    BY <2>1, <2>2, <2>3, <2>4 DEF RowInv, ClosedOnAnswer
  <2>7. ExecutedIsRecorded'
    BY <2>1, <2>5 DEF RowInv, ExecutedIsRecorded, StoreTypeOK
  <2> QED
    BY <2>6, <2>7 DEF RowInv
<1>11. ASSUME NEW p \in Proposals, NEW l \in Legs, BrokerUpdate(p, l) PROVE RowInv'
  <2>1. /\ UNCHANGED <<status, orderIds, rpc, reply>>
        /\ \A p1 \in Proposals, l1 \in Legs : order[p1][l1] # "none" => order'[p1][l1] # "none"
    BY <1>11 DEF BrokerUpdate, TypeOK
  <2> QED
    BY <2>1 DEF RowInv, ClosedOnAnswer, ExecutedIsRecorded, StoreTypeOK
<1> QED
  BY <1>1, <1>2, <1>3, <1>4, <1>5, <1>6, <1>7, <1>8, <1>9, <1>10, <1>11
     DEF Next, StoreNext, ClientNext, TraderNext, BrokerNext, TraderStep, Enrich,
         UpdateMetadata, Begin, Timeout, Crash, vars

(* The strengthened invariant of the whole pipeline.                       *)
THEOREM Invariance == Spec => []IInv
<1>1. Init => TraderInv /\ RowInv
  BY LegsAssumption DEF Init, StoreInit, TraderInv, AnswerIsFinal, OkIsPlaced, RowInv,
     ClosedOnAnswer, ExecutedIsRecorded
<1>2. Spec => [](TypeOK /\ ClaimInv /\ TraderInv /\ RowInv)
  BY <1>1, ClaimInvariance, TraderInvStep, RowInvStep, PTL DEF Spec
<1>3. ClaimInv /\ TraderInv /\ RowInv => IInv
  BY DEF ClaimInv, TraderInv, RowInv, IInv
<1> QED
  BY <1>2, <1>3, PTL

------------------------------------------------------------------------------
(* However approvers race, time out, die and retry, at most one of them    *)
(* hands a proposal to the trader.                                         *)
THEOREM ExecutedOnce == Spec => []OneExecution
<1>1. IInv => OneExecution
  BY DEF IInv, OneActive, Active, OneExecution
<1> QED
  BY <1>1, Invariance, PTL

(* What reached the trader was claimed first: its row has left PENDING.    *)
THEOREM ClaimedFirst == Spec => []NoTradeWithoutClaim
<1>1. IInv => NoTradeWithoutClaim
  BY DEF IInv, ActiveIsClaimed, Active, NoTradeWithoutClaim
<1> QED
  BY <1>1, Invariance, PTL

(* approve() closes a row only on an answer, never on a timeout's guess.   *)
THEOREM ClosedOnlyOnAnswer == Spec => []ClosedOnAnswer
<1>1. IInv => ClosedOnAnswer
  BY DEF IInv
<1> QED
  BY <1>1, Invariance, PTL

(* An EXECUTED row carries the ids of orders that were placed.             *)
THEOREM ExecutedRowsRecorded == Spec => []ExecutedIsRecorded
<1>1. IInv => ExecutedIsRecorded
  BY DEF IInv
<1> QED
  BY <1>1, Invariance, PTL

------------------------------------------------------------------------------
(* Every compare-and-swap of the pipeline starts from an open status, so a *)
(* row that is terminal keeps its columns through every step.              *)
THEOREM TerminalRowsFinal == Spec => TerminalFinal
<1> DEFINE Kept == \A p \in Proposals : status[p] \in Terminal =>
                      /\ status'[p] = status[p]
                      /\ orderIds'[p] = orderIds[p]
                      /\ meta'[p] = meta[p]
<1>1. ASSUME TypeOK, [Next]_vars PROVE Kept
  <2> StoreTypeOK
    BY <1>1 DEF TypeOK
  <2> \A c \in Clients : cur[c] \in Proposals
    BY <1>1 DEF TypeOK
  <2>0. ASSUME NEW p \in Proposals, NEW from \in {"PENDING", "APPROVED"}, NEW to, NEW ids,
              TryTransition(p, from, to, ids)
        PROVE  Kept
    BY <2>0 DEF TryTransition, CasWins, StoreTypeOK, Terminal
  <2>1. ASSUME NEW p \in Proposals, Propose(p) PROVE Kept
    BY <2>1 DEF Propose, Add, StoreTypeOK, Terminal
  <2>2. ASSUME NEW p \in Proposals, NEW k \in MetaKeys, Enrich(p, k) PROVE Kept
    BY <2>2 DEF Enrich, UpdateMetadata, MetadataWrites, StoreTypeOK
  <2>3. ASSUME NEW p \in Proposals, Reject(p) PROVE Kept
    BY <2>0, <2>3 DEF Reject
  <2>4. ASSUME NEW p \in Proposals, DeleteRow(p) PROVE Kept
    BY <2>4 DEF DeleteRow, Delete, StoreTypeOK
  <2>5. ASSUME NEW c \in Clients, Claim(c) PROVE Kept
    BY <2>0, <2>5 DEF Claim
  <2>6. ASSUME NEW c \in Clients, FailBeforeSubmit(c) PROVE Kept
    <3>1. CASE UpdateStatus(cur[c], "FAILED")
      BY <3>1
         DEF UpdateStatus, AllowedTransitions, HasRow, RowStatus, Terminal,
             StoreTypeOK
    <3>2. CASE TryTransition(cur[c], "APPROVED", "FAILED", orderIds[cur[c]])
      BY <2>0, <3>2
    <3> QED
      BY <2>6, <3>1, <3>2 DEF FailBeforeSubmit
  <2>7. ASSUME NEW c \in Clients, ReceiveOk(c) \/ ReceiveFail(c) PROVE Kept
    BY <2>0, <2>7 DEF ReceiveOk, ReceiveFail
  <2>8. CASE UNCHANGED <<status, orderIds, meta>>
    BY <2>8
  <2> QED
    BY <1>1, <2>1, <2>2, <2>3, <2>4, <2>5, <2>6, <2>7, <2>8
       DEF Next, StoreNext, ClientNext, TraderNext, BrokerNext, Begin, Submit, Timeout,
           Crash, Refuse, PlaceOrder, PlaceReduction, ConfirmReduction, RefuseRemainder,
           Confirm, LoseTask, BrokerUpdate, vars
<1>2. TypeOK /\ [Next]_vars => [Kept]_vars
  BY <1>1
<1> QED
  BY <1>2, TypeCorrect, PTL DEF Spec, TerminalFinal

------------------------------------------------------------------------------
(* Where the ledger's variables come from.                                 *)
LEMMA LedgerStutter ==
  ASSUME \A p \in Proposals : \/ status'[p] = status[p]
                              \/ status[p] \notin Terminal /\ status'[p] \notin Terminal,
         \A c \in Clients, p \in Proposals : (rpc'[c][p] = "none") = (rpc[c][p] = "none")
  PROVE  UNCHANGED Ledger!ledgerVars
  BY DEF Ledger!ledgerVars, spentBy, verdict, Terminal

(* A compare-and-swap that closes a row concludes the ledger's entry.      *)
LEMMA LedgerConclude ==
  ASSUME TypeOK, NEW p \in Proposals, NEW v \in {"EXECUTED", "FAILED", "REJECTED"},
         status[p] \in {"PENDING", "APPROVED"},
         status' = [status EXCEPT ![p] = v],
         UNCHANGED rpc,
         v = "EXECUTED" => \E c \in Clients : rpc[c][p] # "none",
         v = "REJECTED" => \A c \in Clients : rpc[c][p] = "none"
  PROVE  Ledger!Next
<1> DEFINE w == CASE v = "EXECUTED" -> "executed"
                  [] v = "FAILED"   -> "failed"
                  [] v = "REJECTED" -> "declined"
<1>1. verdict[p] = "undecided"
  BY DEF verdict
<1>2. spentBy' = spentBy /\ spentBy[p] = {c \in Clients : rpc[c][p] # "none"}
  BY DEF spentBy
<1>3. w \in {"executed", "failed", "declined"}
  OBVIOUS
<1>4. verdict' = [verdict EXCEPT ![p] = w]
  BY DEF verdict, TypeOK, StoreTypeOK
<1>5. w = "executed" => spentBy[p] # {}
  BY <1>2
<1>6. w = "declined" => spentBy[p] = {}
  BY <1>2
<1>7. Ledger!Conclude(p, w)
  BY <1>1, <1>2, <1>4, <1>5, <1>6 DEF Ledger!Conclude
<1> QED
  BY <1>3, <1>7 DEF Ledger!Next

(* Every step of the pipeline is a step of the ledger or leaves its state  *)
(* alone.                                                                  *)
LEMMA LedgerStep ==
  TypeOK /\ ClaimInv /\ TraderInv /\ [Next]_vars => [Ledger!Next]_(Ledger!ledgerVars)
<1> SUFFICES ASSUME TypeOK, ClaimInv, TraderInv, [Next]_vars
             PROVE  Ledger!Next \/ UNCHANGED Ledger!ledgerVars
  OBVIOUS
<1> DEFINE Goal == Ledger!Next \/ UNCHANGED Ledger!ledgerVars
<1> StoreTypeOK /\ \A c \in Clients : cur[c] \in Proposals
  BY DEF TypeOK
<1>0. ASSUME NEW p \in Proposals, NEW from \in {"PENDING", "APPROVED"},
             NEW v \in {"EXECUTED", "FAILED", "REJECTED"}, NEW ids,
             TryTransition(p, from, v, ids), UNCHANGED rpc,
             v = "EXECUTED" => \E c \in Clients : rpc[c][p] # "none",
             v = "REJECTED" /\ status[p] = from => \A c \in Clients : rpc[c][p] = "none"
      PROVE  Goal
  <2>1. CASE CasWins(p, from, v)
    BY <1>0, <2>1, LedgerConclude DEF TryTransition, CasWins
  <2>2. CASE ~CasWins(p, from, v)
    BY <1>0, <2>2, LedgerStutter DEF TryTransition
  <2> QED
    BY <2>1, <2>2
<1>1. ASSUME NEW p \in Proposals, Propose(p) \/ DeleteRow(p) PROVE Goal
  <2>1. UNCHANGED rpc
    BY <1>1 DEF Propose, DeleteRow
  <2>2. \E v \in {"PENDING", "DELETED"} :
           status[p] \notin Terminal /\ status' = [status EXCEPT ![p] = v]
    BY <1>1 DEF Propose, DeleteRow, Add, Delete, Terminal
  <2>3. \A q \in Proposals : \/ status'[q] = status[q]
                             \/ status[q] \notin Terminal /\ status'[q] \notin Terminal
    BY <2>2 DEF StoreTypeOK, Terminal
  <2> QED
    BY <2>1, <2>3, LedgerStutter
<1>2. ASSUME NEW p \in Proposals, Reject(p) PROVE Goal
  <2>1. status[p] = "PENDING" => \A c \in Clients : rpc[c][p] = "none"
    BY DEF ClaimInv, ActiveIsClaimed, Active
  <2> QED
    BY <1>0, <1>2, <2>1 DEF Reject
<1>3. ASSUME NEW c \in Clients, Claim(c) PROVE Goal
  <2>1. UNCHANGED rpc
    BY <1>3 DEF Claim
  <2>2. \A q \in Proposals : \/ status'[q] = status[q]
                             \/ status[q] \notin Terminal /\ status'[q] \notin Terminal
    BY <1>3 DEF Claim, TryTransition, CasWins, StoreTypeOK, Terminal
  <2> QED
    BY <2>1, <2>2, LedgerStutter
<1>4. ASSUME NEW c \in Clients, Submit(c) PROVE Goal
  <2>1. /\ status' = status
        /\ rpc' = [rpc EXCEPT ![c][cur[c]] = "sent"]
    BY <1>4 DEF Submit
  <2>2. /\ \A c1 \in Clients : rpc[c1][cur[c]] = "none"
        /\ status[cur[c]] \in {"APPROVED", "DELETED"}
    BY <1>4 DEF Submit, ClaimInv, HolderIsOpen, OneActive, Active, Holds
  <2>3. verdict[cur[c]] = "undecided" /\ verdict' = verdict /\ spentBy[cur[c]] = {}
    BY <2>1, <2>2 DEF verdict, spentBy
  <2>4. spentBy' = [spentBy EXCEPT ![cur[c]] = {c}]
    <3>1. \A c1 \in Clients, q \in Proposals :
             rpc'[c1][q] # "none" <=> rpc[c1][q] # "none" \/ (c1 = c /\ q = cur[c])
      BY <2>1 DEF TypeOK
    <3>2. \A q \in Proposals : spentBy'[q] = IF q = cur[c] THEN {c} ELSE spentBy[q]
      BY <2>2, <3>1 DEF spentBy
    <3> QED
      BY <3>2 DEF spentBy
  <2>5. Ledger!Spend(cur[c], c)
    BY <2>3, <2>4 DEF Ledger!Spend
  <2> QED
    BY <2>5 DEF Ledger!Next
<1>5. ASSUME NEW c \in Clients, FailBeforeSubmit(c) PROVE Goal
  <2>0. UNCHANGED rpc
    BY <1>5 DEF FailBeforeSubmit
  <2>1. CASE UpdateStatus(cur[c], "FAILED")
    <3>1. CASE UNCHANGED status
      BY <2>0, <3>1, LedgerStutter
    <3>2. CASE /\ status[cur[c]] \in {"PENDING", "APPROVED"}
               /\ status' = [status EXCEPT ![cur[c]] = "FAILED"]
      BY <2>0, <3>2, LedgerConclude
    <3> QED
      BY <2>1, <3>1, <3>2
         DEF UpdateStatus, HasRow, AllowedTransitions, RowStatus, Terminal
  <2>2. CASE TryTransition(cur[c], "APPROVED", "FAILED", orderIds[cur[c]])
    BY <1>0, <2>0, <2>2
  <2> QED
    BY <1>5, <2>1, <2>2 DEF FailBeforeSubmit
<1>6. ASSUME NEW c \in Clients, ReceiveOk(c) PROVE Goal
  <2>1. rpc[c][cur[c]] # "none" /\ UNCHANGED rpc
    BY <1>6 DEF ReceiveOk, ClaimInv, HolderIsOpen
  <2> QED
    BY <1>0, <1>6, <2>1 DEF ReceiveOk
<1>7. ASSUME NEW c \in Clients, ReceiveFail(c) PROVE Goal
  BY <1>0, <1>7 DEF ReceiveFail
<1>8. ASSUME NEW c \in Clients, NEW p \in Proposals, TraderStep(c, p) PROVE Goal
  <2>1. /\ status' = status /\ rpc[c][p] # "none"
        /\ \E s \in Stage \ {"none"} : rpc' = [rpc EXCEPT ![c][p] = s]
    BY <1>8, TraderStepEffect
  <2>2. \A c1 \in Clients, p1 \in Proposals : (rpc'[c1][p1] = "none") = (rpc[c1][p1] = "none")
    BY <2>1 DEF TypeOK
  <2> QED
    BY <2>1, <2>2, LedgerStutter
<1>9. CASE UNCHANGED <<status, rpc>>
  BY <1>9, LedgerStutter
<1> QED
  BY <1>1, <1>2, <1>3, <1>4, <1>5, <1>6, <1>7, <1>8, <1>9
     DEF Next, StoreNext, ClientNext, TraderNext, BrokerNext, TraderStep, Enrich,
         UpdateMetadata, Begin, Timeout, Crash, BrokerUpdate, vars

(* The pipeline implements its ledger: whatever the interleaving, each     *)
(* proposal is spent at most once, only while undecided, decided at most   *)
(* once, and never declined after it was spent.                            *)
THEOREM ImplementsLedger == Spec => LedgerSpec
<1>1. Init => Ledger!Init
  BY DEF Init, StoreInit, Ledger!Init, spentBy, verdict
<1>2. Spec => [](TypeOK /\ ClaimInv /\ TraderInv)
  BY Invariance, TypeCorrect, PTL DEF IInv, ClaimInv, TraderInv
<1> QED
  BY <1>1, <1>2, LedgerStep, PTL DEF Spec, LedgerSpec, Ledger!Spec
==============================================================================
