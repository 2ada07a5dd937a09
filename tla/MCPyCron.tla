-------------------------------- MODULE MCPyCron --------------------------------
(* Job configurations for TLC, after config_defaults/pycron.yaml: services  *)
(* due every minute, one depending on the other, and a job with a stop.     *)
EXTENDS PyCron, TLC

CONSTANTS trader, strategy, timed

Service == [depends |-> {}, delayed |-> TRUE, onStart |-> TRUE, ifFound |-> TRUE,
            ifFinished |-> TRUE, stops |-> FALSE, always |-> TRUE]

(* A service, and a job with a stop that depends on it.                    *)
Timed == [Service EXCEPT !.depends = {trader}, !.ifFound = FALSE, !.stops = TRUE, !.always = FALSE]
TimedJobs == (trader :> Service) @@ (timed :> Timed)

(* The shipped services, the second with a stop as well.                   *)
Stopped == (trader :> Service) @@
           (strategy :> [Service EXCEPT !.depends = {trader}, !.ifFound = FALSE, !.stops = TRUE])

(* The shipped services.                                                   *)
Services == (trader :> Service) @@ (strategy :> [Service EXCEPT !.depends = {trader}])

(* A job with a stop that starts without a delay, the default.             *)
Immediate == timed :> [Timed EXCEPT !.depends = {}, !.delayed = FALSE]

Alike == Permutations(Pids)
=============================================================================
