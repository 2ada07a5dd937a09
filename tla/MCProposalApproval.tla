-------------------------- MODULE MCProposalApproval --------------------------
(* Instances of ProposalApproval for TLC.                                  *)
EXTENDS ProposalApproval

MCLegs == {"reduction", "order"}
==============================================================================
