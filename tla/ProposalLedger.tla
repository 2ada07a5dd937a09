---------------------------- MODULE ProposalLedger ----------------------------
(***************************************************************************)
(* What the propose / approve / reject pipeline promises, without its      *)
(* processes: each proposal is spent (handed to the trader) by at most one *)
(* client, at most once, while it is undecided, and is decided at most     *)
(* once.  ProposalApproval implements it.                                  *)
(***************************************************************************)
CONSTANTS Proposals, Clients

VARIABLES spentBy,  (* the clients that submitted the proposal: at most one *)
          verdict   (* what the proposal's row says for good                *)

ledgerVars == <<spentBy, verdict>>

Init ==
    /\ spentBy = [p \in Proposals |-> {}]
    /\ verdict = [p \in Proposals |-> "undecided"]

Spend(p, c) ==
    /\ verdict[p] = "undecided"
    /\ spentBy[p] = {}
    /\ spentBy' = [spentBy EXCEPT ![p] = {c}]
    /\ UNCHANGED verdict

Conclude(p, v) ==
    /\ verdict[p] = "undecided"
    /\ v = "executed" => spentBy[p] # {}
    /\ v = "declined" => spentBy[p] = {}
    /\ verdict' = [verdict EXCEPT ![p] = v]
    /\ UNCHANGED spentBy

Next == \E p \in Proposals :
    \/ \E c \in Clients : Spend(p, c)
    \/ \E v \in {"executed", "failed", "declined"} : Conclude(p, v)

Spec == Init /\ [][Next]_ledgerVars
==============================================================================
