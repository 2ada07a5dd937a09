---------------------------- MODULE MCAutoExecutor ----------------------------
(* Instances of AutoExecutor for TLC: what may go wrong in each run.       *)
EXTENDS AutoExecutor

(* The services and the broker; not the feed, whose loss outside a restart *)
(* ReconcileStripsOnlyGone does not survive.                               *)
ServiceFaults == {"timeout", "crash", "deaf", "race", "die"}

(* Calls answered and no restart, but a human at work, or a race, or a     *)
(* restart alone.                                                          *)
OperatorAndFeed == {"operator", "feed"}
CancelRace == {"race"}
RestartOnly == {"crash"}
==============================================================================
