--------------------------- MODULE ProposalApproval ---------------------------
(***************************************************************************)
(* The propose / approve / reject pipeline: several SDK processes (human   *)
(* shells, the LLM loop, the auto-executor's worker) share the proposal    *)
(* table, and MMR.approve() sends the one place_expressive_order RPC to    *)
(* trader_service (src/trader/sdk.py, src/trader/trading/                  *)
(* trading_runtime.py).  The call is modelled message by message: it may   *)
(* be answered, time out while the trader still works on it, or be lost    *)
(* with either process.                                                    *)
(*                                                                         *)
(* rpc[c][p] is the trader's task for client c's submission of p; it       *)
(* outlives the client's wait.  order[p][leg] is what the broker has: a    *)
(* plain submission uses the leg "order"; one that crosses zero            *)
(* (_place_flip_split) first places the leg "reduction".                   *)
(***************************************************************************)
EXTENDS ProposalStore

CONSTANT Clients   (* processes that hold an MMR SDK *)

ASSUME LegsAssumption == Legs = {"reduction", "order"}

VARIABLES pc,      (* where each client's approve() call stands            *)
          cur,     (* the proposal that call is about                      *)
          enrich,  (* propose()'s best-effort metadata writes still to do  *)
          rpc,     (* the trader's task of a submission                    *)
          reply,   (* what the trader answered to it                       *)
          order    (* the broker's order for each leg                      *)

callVars == <<pc, cur>>
traderVars == <<rpc, reply, order>>
vars == <<status, orderIds, meta, pc, cur, enrich, rpc, reply, order>>

Stage == {"none", "sent", "reducing", "reduced", "placed", "done"}
Answer == {"pending", "ok", "fail", "error"}
OrderState == {"none", "working", "dead", "filled"}

TypeOK ==
    /\ StoreTypeOK
    /\ pc \in [Clients -> {"idle", "read", "claimed", "waiting"}]
    /\ cur \in [Clients -> Proposals]
    /\ enrich \in [Proposals -> SUBSET MetaKeys]
    /\ rpc \in [Clients -> [Proposals -> Stage]]
    /\ reply \in [Clients -> [Proposals -> Answer]]
    /\ order \in [Proposals -> [Legs -> OrderState]]

Init ==
    /\ StoreInit
    /\ pc = [c \in Clients |-> "idle"]
    /\ cur \in [Clients -> Proposals]
    /\ enrich = [p \in Proposals |-> {}]
    /\ rpc = [c \in Clients |-> [p \in Proposals |-> "none"]]
    /\ reply = [c \in Clients |-> [p \in Proposals |-> "pending"]]
    /\ order = [p \in Proposals |-> [l \in Legs |-> "none"]]

------------------------------------------------------------------------------
(* propose(): the insert, then the snapshot and leverage keys one by one.  *)
(* An approver may already be at work on the row; the first write that     *)
(* raises (terminal row) ends the enrichment.                              *)
Propose(p) ==
    /\ Add(p)
    /\ enrich' = [enrich EXCEPT ![p] = MetaKeys]
    /\ UNCHANGED <<pc, cur, rpc, reply, order>>

Enrich(p, k) ==
    /\ k \in enrich[p]
    /\ UpdateMetadata(p, k)
    /\ enrich' = [enrich EXCEPT ![p] = IF status[p] \in Terminal THEN {} ELSE @ \ {k}]
    /\ UNCHANGED <<pc, cur, rpc, reply, order>>

(* Mutant: a reject() that also takes back rows already claimed.           *)
RejectClaimed(p) ==
    /\ HasRow(p)
    /\ \E from \in {"PENDING", "APPROVED"} :
          TryTransition(p, from, "REJECTED", orderIds[p])
    /\ UNCHANGED <<pc, cur, enrich, rpc, reply, order>>

(* reject(): one compare-and-swap from PENDING.                            *)
Reject(p) ==
    /\ HasRow(p)
    /\ TryTransition(p, "PENDING", "REJECTED", orderIds[p])
    /\ UNCHANGED <<pc, cur, enrich, rpc, reply, order>>

DeleteRow(p) ==
    /\ Delete(p)
    /\ UNCHANGED <<pc, cur, enrich, rpc, reply, order>>

------------------------------------------------------------------------------
(* approve(), step by step.  Begin: get() saw the row PENDING.             *)
Begin(c, p) ==
    /\ pc[c] = "idle"
    /\ status[p] = "PENDING"
    /\ pc' = [pc EXCEPT ![c] = "read"]
    /\ cur' = [cur EXCEPT ![c] = p]
    /\ UNCHANGED <<status, orderIds, meta, enrich, rpc, reply, order>>

(* Mutant: the result of try_transition() is ignored.                      *)
ClaimUnchecked(c) ==
    /\ pc[c] = "read"
    /\ TryTransition(cur[c], "PENDING", "APPROVED", orderIds[cur[c]])
    /\ pc' = [pc EXCEPT ![c] = "claimed"]
    /\ UNCHANGED <<cur, enrich, rpc, reply, order>>

(* The claim that exactly one of the racing approvers wins.                *)
Claim(c) ==
    /\ pc[c] = "read"
    /\ TryTransition(cur[c], "PENDING", "APPROVED", orderIds[cur[c]])
    /\ pc' = [pc EXCEPT ![c] =
                 IF CasWins(cur[c], "PENDING", "APPROVED") THEN "claimed" ELSE "idle"]
    /\ UNCHANGED <<cur, enrich, rpc, reply, order>>

(* No contract, no price, no whole share: refused before anything is sent. *)
(* Two of these returns use update_status, whose refusal raises and ends   *)
(* in the same compare-and-swap as the others.                             *)
FailBeforeSubmit(c) ==
    /\ pc[c] = "claimed"
    /\ \/ UpdateStatus(cur[c], "FAILED")
       \/ TryTransition(cur[c], "APPROVED", "FAILED", orderIds[cur[c]])
    /\ pc' = [pc EXCEPT ![c] = "idle"]
    /\ UNCHANGED <<cur, enrich, rpc, reply, order>>

(* The request leaves the client.  A send that finds no route raises       *)
(* ConnectionError instead and is FailBeforeSubmit.                        *)
Submit(c) ==
    /\ pc[c] = "claimed"
    /\ pc' = [pc EXCEPT ![c] = "waiting"]
    /\ rpc' = [rpc EXCEPT ![c][cur[c]] = "sent"]
    /\ UNCHANGED <<status, orderIds, meta, cur, enrich, reply, order>>

(* Mutant: the order ids of the result are not passed on.                  *)
ReceiveOkWithoutIds(c) ==
    /\ pc[c] = "waiting"
    /\ reply[c][cur[c]] = "ok"
    /\ TryTransition(cur[c], "APPROVED", "EXECUTED", orderIds[cur[c]])
    /\ pc' = [pc EXCEPT ![c] = "idle"]
    /\ UNCHANGED <<cur, enrich, rpc, reply, order>>

ReceiveOk(c) ==
    /\ pc[c] = "waiting"
    /\ reply[c][cur[c]] = "ok"
    /\ TryTransition(cur[c], "APPROVED", "EXECUTED",
                     {l \in Legs : order[cur[c]][l] # "none"})
    /\ pc' = [pc EXCEPT ![c] = "idle"]
    /\ UNCHANGED <<cur, enrich, rpc, reply, order>>

(* A failed result and an exception of the remote handler both end FAILED. *)
ReceiveFail(c) ==
    /\ pc[c] = "waiting"
    /\ reply[c][cur[c]] \in {"fail", "error"}
    /\ TryTransition(cur[c], "APPROVED", "FAILED", orderIds[cur[c]])
    /\ pc' = [pc EXCEPT ![c] = "idle"]
    /\ UNCHANGED <<cur, enrich, rpc, reply, order>>

(* Mutants: a timeout recorded as a failure, and as a status of its own.   *)
TimeoutAsFailure(c) ==
    /\ pc[c] = "waiting"
    /\ TryTransition(cur[c], "APPROVED", "FAILED", orderIds[cur[c]])
    /\ pc' = [pc EXCEPT ![c] = "idle"]
    /\ UNCHANGED <<cur, enrich, rpc, reply, order>>

TimeoutAsUnknown(c) ==
    /\ pc[c] = "waiting"
    /\ status' = [status EXCEPT ![cur[c]] = "UNKNOWN"]
    /\ pc' = [pc EXCEPT ![c] = "idle"]
    /\ UNCHANGED <<orderIds, meta, cur, enrich, rpc, reply, order>>

(* TimeoutError: the outcome is unknown, the row stays APPROVED.           *)
Timeout(c) ==
    /\ pc[c] = "waiting"
    /\ pc' = [pc EXCEPT ![c] = "idle"]
    /\ UNCHANGED <<status, orderIds, meta, cur, enrich, rpc, reply, order>>

(* The client process dies; rows and the trader's tasks stay.              *)
Crash(c) ==
    /\ pc[c] # "idle"
    /\ pc' = [pc EXCEPT ![c] = "idle"]
    /\ UNCHANGED <<status, orderIds, meta, cur, enrich, rpc, reply, order>>

------------------------------------------------------------------------------
(* The trader's task place_expressive_order.                               *)
Finish(c, p, a) ==
    /\ rpc' = [rpc EXCEPT ![c][p] = "done"]
    /\ reply' = [reply EXCEPT ![c][p] = a]

(* Validation, structural check, filter, margin, gate or approver tier     *)
(* refuse, or the handler raises, before the first placement.              *)
Refuse(c, p) ==
    /\ rpc[c][p] = "sent"
    /\ \E a \in {"fail", "error"} : Finish(c, p, a)
    /\ UNCHANGED <<status, orderIds, meta, pc, cur, enrich, order>>

PlaceOrder(c, p) ==
    /\ rpc[c][p] \in {"sent", "reduced"}
    /\ rpc' = [rpc EXCEPT ![c][p] = "placed"]
    /\ order' = [order EXCEPT ![p]["order"] = "working"]
    /\ UNCHANGED <<status, orderIds, meta, pc, cur, enrich, reply>>

(* _place_flip_split: the reduction goes first and is confirmed; when it   *)
(* died the remainder is not attempted ...                                 *)
PlaceReduction(c, p) ==
    /\ rpc[c][p] = "sent"
    /\ rpc' = [rpc EXCEPT ![c][p] = "reducing"]
    /\ order' = [order EXCEPT ![p]["reduction"] = "working"]
    /\ UNCHANGED <<status, orderIds, meta, pc, cur, enrich, reply>>

ConfirmReduction(c, p) ==
    /\ rpc[c][p] = "reducing"
    /\ IF order[p]["reduction"] = "dead"
       THEN Finish(c, p, "fail")
       ELSE /\ rpc' = [rpc EXCEPT ![c][p] = "reduced"]
            /\ UNCHANGED reply
    /\ UNCHANGED <<status, orderIds, meta, pc, cur, enrich, order>>

(* ... and when the gates refuse the opening remainder, or it raises, the  *)
(* whole call fails with the reduction where it is.                        *)
RefuseRemainder(c, p) ==
    /\ rpc[c][p] = "reduced"
    /\ \E a \in {"fail", "error"} : Finish(c, p, a)
    /\ UNCHANGED <<status, orderIds, meta, pc, cur, enrich, order>>

(* wait_decisive(): only a dead entry is a failure; a slow one is success. *)
Confirm(c, p) ==
    /\ rpc[c][p] = "placed"
    /\ Finish(c, p, IF order[p]["order"] = "dead" THEN "fail" ELSE "ok")
    /\ UNCHANGED <<status, orderIds, meta, pc, cur, enrich, order>>

(* trader_service dies with the task; what it placed stays at the broker.  *)
LoseTask(c, p) ==
    /\ rpc[c][p] \in Stage \ {"none", "done"}
    /\ Finish(c, p, "pending")
    /\ UNCHANGED <<status, orderIds, meta, pc, cur, enrich, order>>

(* The broker: an order fills or dies, and a Cancelled can be followed by  *)
(* Filled (the race OrderLifecycleTracker supersedes).                     *)
BrokerUpdate(p, l) ==
    /\ \E s \in {"dead", "filled"} :
          /\ order[p][l] = "working" \/ (order[p][l] = "dead" /\ s = "filled")
          /\ order' = [order EXCEPT ![p][l] = s]
    /\ UNCHANGED <<status, orderIds, meta, pc, cur, enrich, rpc, reply>>

------------------------------------------------------------------------------
StoreNext == \E p \in Proposals :
    \/ Propose(p)
    \/ \E k \in MetaKeys : Enrich(p, k)
    \/ Reject(p)
    \/ DeleteRow(p)

ClientNext == \E c \in Clients :
    \/ \E p \in Proposals : Begin(c, p)
    \/ Claim(c) \/ FailBeforeSubmit(c) \/ Submit(c)
    \/ ReceiveOk(c) \/ ReceiveFail(c) \/ Timeout(c) \/ Crash(c)

TraderNext == \E c \in Clients, p \in Proposals :
    \/ Refuse(c, p) \/ PlaceOrder(c, p) \/ PlaceReduction(c, p)
    \/ ConfirmReduction(c, p) \/ RefuseRemainder(c, p) \/ Confirm(c, p)
    \/ LoseTask(c, p)

BrokerNext == \E p \in Proposals, l \in Legs : BrokerUpdate(p, l)

Next == StoreNext \/ ClientNext \/ TraderNext \/ BrokerNext

Spec == Init /\ [][Next]_vars

------------------------------------------------------------------------------
(* At most one client ever hands a proposal to the trader, however the     *)
(* approvers race, time out, die or retry: approve()'s claim is what keeps *)
(* a proposal from being traded twice.                                     *)
OneExecution ==
    \A p \in Proposals : \A c1, c2 \in Clients :
        rpc[c1][p] # "none" /\ rpc[c2][p] # "none" => c1 = c2

(* A proposal that was handed to the trader was claimed first, and no      *)
(* reject() can make it look declined afterwards.                          *)
NoTradeWithoutClaim ==
    \A p \in Proposals : \A c \in Clients :
        rpc[c][p] # "none" => status[p] \in {"APPROVED", "EXECUTED", "FAILED", "DELETED"}

(* A row closes only on an answer: EXECUTED on the trader's success,       *)
(* FAILED after a submission only on its failure.  A timeout, a lost task  *)
(* and a dead client leave the row APPROVED.                               *)
ClosedOnAnswer ==
    \A p \in Proposals :
        /\ status[p] = "EXECUTED" => \E c \in Clients : reply[c][p] = "ok"
        /\ status[p] = "FAILED" =>
              \A c \in Clients : rpc[c][p] # "none" => reply[c][p] \in {"fail", "error"}

(* The ids recorded with EXECUTED are those of orders that were placed,    *)
(* the entry among them: reconcile and cancel work from this column.       *)
ExecutedIsRecorded ==
    \A p \in Proposals :
        /\ status[p] = "EXECUTED" => "order" \in orderIds[p]
        /\ \A l \in orderIds[p] : order[p][l] # "none"

(* A row in a terminal status never changes again, the metadata included,  *)
(* though enrichment, approvers and rejecters may all still be at work.    *)
TerminalFinal ==
    [][\A p \in Proposals : status[p] \in Terminal =>
          /\ status'[p] = status[p]
          /\ orderIds'[p] = orderIds[p]
          /\ meta'[p] = meta[p]]_vars

(* The comment on sdk.py's TimeoutError branch: a FAILED row tells the     *)
(* operator that the trade never happened, so no order of it may be live   *)
(* or filled.                                                              *)
FailedMeansNoOrder ==
    \A p \in Proposals : status[p] = "FAILED" =>
        \A l \in Legs : order[p][l] \in {"none", "dead"}

------------------------------------------------------------------------------
(* The inductive invariant.  Active(c, p): client c holds the claim of p,  *)
(* or has held it long enough to submit.                                   *)
Holds(c, p) == pc[c] \in {"claimed", "waiting"} /\ cur[c] = p
Active(c, p) == Holds(c, p) \/ rpc[c][p] # "none"

ActiveIsClaimed ==
    \A c \in Clients : \A p \in Proposals :
        Active(c, p) => status[p] \in {"APPROVED", "EXECUTED", "FAILED", "DELETED"}

OneActive ==
    \A p \in Proposals : \A c1, c2 \in Clients :
        Active(c1, p) /\ Active(c2, p) => c1 = c2

HolderIsOpen ==
    \A c \in Clients :
        /\ pc[c] = "claimed" => /\ rpc[c][cur[c]] = "none"
                               /\ status[cur[c]] \in {"APPROVED", "DELETED"}
        /\ pc[c] = "waiting" => /\ rpc[c][cur[c]] # "none"
                               /\ status[cur[c]] \in {"APPROVED", "DELETED"}

AnswerIsFinal ==
    \A c \in Clients : \A p \in Proposals :
        reply[c][p] # "pending" => rpc[c][p] = "done"

OkIsPlaced ==
    \A c \in Clients : \A p \in Proposals :
        rpc[c][p] = "placed" \/ reply[c][p] = "ok" => order[p]["order"] # "none"

IInv == /\ ActiveIsClaimed /\ OneActive /\ HolderIsOpen
        /\ AnswerIsFinal /\ OkIsPlaced /\ ClosedOnAnswer /\ ExecutedIsRecorded

------------------------------------------------------------------------------
(* What the pipeline promises: ProposalLedger.                             *)
spentBy == [p \in Proposals |-> {c \in Clients : rpc[c][p] # "none"}]

verdict == [p \in Proposals |->
    CASE status[p] = "EXECUTED" -> "executed"
      [] status[p] = "FAILED"   -> "failed"
      [] status[p] \in {"REJECTED", "EXPIRED"} -> "declined"
      [] OTHER -> "undecided"]

Ledger == INSTANCE ProposalLedger WITH spentBy <- spentBy, verdict <- verdict

(* Every behaviour of the pipeline is one of the ledger: a proposal is     *)
(* spent at most once, decided at most once, and never declined after it   *)
(* was spent nor executed before.                                          *)
LedgerSpec == Ledger!Spec
==============================================================================
