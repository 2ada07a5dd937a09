---------------------------- MODULE ProposalStore ----------------------------
(***************************************************************************)
(* The rows of the DuckDB table trade_proposals and the operations of      *)
(* ProposalStore on them (src/trader/data/proposal_store.py).  Every       *)
(* operation runs inside DuckDBConnection.execute_atomic, so each of them  *)
(* is one atomic step of whoever calls it.  The modules of the callers     *)
(* extend this one and use the operations as conjuncts of their actions.   *)
(***************************************************************************)
CONSTANTS Proposals,  (* the proposal ids the sequence hands out            *)
          MetaKeys,   (* the metadata keys propose() adds after the insert  *)
          Legs        (* the orders one proposal may leave at the broker    *)

VARIABLES status,    (* the status column, or ABSENT / DELETED without a row *)
          orderIds,  (* the order_ids column                                 *)
          meta       (* the metadata keys present                            *)

storeVars == <<status, orderIds, meta>>

Terminal == {"EXECUTED", "REJECTED", "EXPIRED", "FAILED"}
RowStatus == {"PENDING", "APPROVED"} \union Terminal

AllowedTransitions ==
    [s \in RowStatus |->
        CASE s = "PENDING"  -> {"APPROVED", "REJECTED", "EXPIRED", "FAILED"}
          [] s = "APPROVED" -> {"EXECUTED", "FAILED", "REJECTED"}
          [] OTHER          -> {}]

StoreTypeOK ==
    /\ status \in [Proposals -> RowStatus \union {"ABSENT", "DELETED"}]
    /\ orderIds \in [Proposals -> SUBSET Legs]
    /\ meta \in [Proposals -> SUBSET MetaKeys]

StoreInit ==
    /\ status = [p \in Proposals |-> "ABSENT"]
    /\ orderIds = [p \in Proposals |-> {}]
    /\ meta = [p \in Proposals |-> {}]

HasRow(p) == status[p] \in RowStatus

(* add(): a new row is born PENDING; the id comes from a sequence and is   *)
(* never handed out again.                                                 *)
Add(p) ==
    /\ status[p] = "ABSENT"
    /\ status' = [status EXCEPT ![p] = "PENDING"]
    /\ UNCHANGED <<orderIds, meta>>

(* Mutant: the UPDATE without its AND status = ?.                          *)
CasWithoutStatus(p, from, to) == HasRow(p) /\ to \in AllowedTransitions[from]

(* try_transition(): compare-and-swap.  CasWins is its return value; the   *)
(* losing call changes nothing.                                            *)
CasWins(p, from, to) == status[p] = from /\ to \in AllowedTransitions[from]

TryTransition(p, from, to, ids) ==
    /\ IF CasWins(p, from, to)
       THEN /\ status' = [status EXCEPT ![p] = to]
            /\ orderIds' = [orderIds EXCEPT ![p] = ids]
       ELSE UNCHANGED <<status, orderIds>>
    /\ UNCHANGED meta

(* update_status(): read-check-write; an edge that is not in the table     *)
(* raises and changes nothing.                                             *)
UpdateStatus(p, to) ==
    /\ IF HasRow(p) /\ to \in AllowedTransitions[status[p]]
       THEN status' = [status EXCEPT ![p] = to]
       ELSE UNCHANGED status
    /\ UNCHANGED <<orderIds, meta>>

(* Mutant: no terminal check before the merge.                             *)
MetadataAlwaysWrites(p) == HasRow(p)

(* update_metadata(): merges a key; raises on a terminal row and is a      *)
(* no-op on a missing one.  MetadataWrites is FALSE exactly then.          *)
MetadataWrites(p) == HasRow(p) /\ status[p] \notin Terminal

UpdateMetadata(p, k) ==
    /\ meta' = IF MetadataWrites(p) THEN [meta EXCEPT ![p] = @ \union {k}] ELSE meta
    /\ UNCHANGED <<status, orderIds>>

(* delete(force=False): refuses a terminal row, frees any other.           *)
Delete(p) ==
    /\ HasRow(p) /\ status[p] \notin Terminal
    /\ status' = [status EXCEPT ![p] = "DELETED"]
    /\ orderIds' = [orderIds EXCEPT ![p] = {}]
    /\ meta' = [meta EXCEPT ![p] = {}]
==============================================================================
