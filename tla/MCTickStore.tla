------------------------------- MODULE MCTickStore -------------------------------
(* Sets of writers for TLC: the two command-line refreshes, the two        *)
(* services, and pairs that meet on the same rows.                         *)
EXTENDS TickStore

CONSTANTS cli, other, service, runtime

AllKinds == [w \in {cli, other, service, runtime} |->
                CASE w = service -> "service" [] w = runtime -> "runtime" [] OTHER -> "cli"]
KindOf   == [w \in Writers |-> AllKinds[w]]

Massive    == [w \in Writers |-> IF w \in {service, runtime} THEN "ib" ELSE "massive"]
TwelveData == [w \in Writers |-> IF w = runtime THEN "ib" ELSE "twelvedata"]
Ib         == [w \in Writers |-> "ib"]

Minutes == [w \in Writers |-> "min"]
Daily   == [w \in Writers |-> "day"]
(* The services fetch different sizes.                                     *)
Both    == [w \in Writers |-> IF w \in {service, other} THEN "day" ELSE "min"]

CliDaily == [w \in Writers |-> IF w \in {cli, other} THEN "day" ELSE "min"]

(* Every fault but those that lose bars: a forced download meets no        *)
(* impossible bar, and nobody writes a whole window directly.              *)
Disturbed == [w \in Writers |-> {"gap", "failed", "locked", "crash"}
                                   \cup IF w = cli THEN {"force"} ELSE {"bad"}]
Any       == [w \in Writers |-> AllFaults \ IF w = cli THEN {} ELSE {"force"}]
Calm      == [w \in Writers |-> {}]
Gappy     == [w \in Writers |-> {"gap"}]
NoCalendar == [w \in Writers |-> {"gap", "whole"}]
Forced    == [w \in Writers |-> {"bad", "force"}]

(* A session passes at once: no job runs in the middle of one.             *)
BySession == {Per}
ByBar     == {1}
==================================================================================
