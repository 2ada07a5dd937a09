------------------------------- MODULE RpcCalls -------------------------------
(***************************************************************************)
(* What a remote call promises its caller: it is executed at most once,    *)
(* only after it was issued; an answer is the answer of an execution or of *)
(* a refusal of this very call; and once the caller was told "unreachable" *)
(* the call is never executed.  A call that times out may be executed      *)
(* before or after, which is why callers treat it as ambiguous.            *)
(***************************************************************************)
EXTENDS Naturals

CONSTANT Calls

VARIABLES told,      (* what the caller was told                            *)
          runs       (* per call, how often its method was invoked          *)

Outcomes == {"unissued", "pending", "result", "error", "timeout", "unreachable", "interrupted"}

CallsInit ==
    /\ told = [c \in Calls |-> "unissued"]
    /\ runs = [c \in Calls |-> 0]

Issue(c) ==
    /\ told[c] = "unissued"
    /\ told' = [told EXCEPT ![c] = "pending"]
    /\ UNCHANGED runs

Execute(c) ==
    /\ told[c] \notin {"unissued", "unreachable", "result", "error"}
    /\ runs[c] = 0
    /\ runs' = [runs EXCEPT ![c] = 1]
    /\ UNCHANGED told

Tell(c, outcome) ==
    /\ told[c] = "pending"
    /\ outcome = "result" => runs[c] = 1
    /\ outcome = "unreachable" => runs[c] = 0
    /\ told' = [told EXCEPT ![c] = outcome]
    /\ UNCHANGED runs

CallsNext ==
    \E c \in Calls :
        \/ Issue(c) \/ Execute(c)
        \/ \E outcome \in Outcomes \ {"unissued", "pending"} : Tell(c, outcome)

CallsSpec == CallsInit /\ [][CallsNext]_<<told, runs>>
=============================================================================
