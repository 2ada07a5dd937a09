---------------------------- MODULE OrderLifecycle ----------------------------
(***************************************************************************)
(* What trader_service knows of the orders it placed: the book             *)
(* (src/trader/trading/book.py), which counts the working orders for the   *)
(* risk gate, and the OrderLifecycleTracker (order_lifecycle.py), which    *)
(* records one outcome per order in the event store and lets a placement   *)
(* wait for a decisive status.  Both are fed by the same status stream and *)
(* run on one event loop, so an update is one step.                        *)
(***************************************************************************)
EXTENDS Naturals, FiniteSets, Sequences

CONSTANT Orders   (* order ids                                             *)

VARIABLES status,    (* the order's latest status, ABSENT before placeOrder *)
          recorded,  (* the outcomes written to the event store, in order   *)
          verdict    (* the future of a wait_decisive, "none" without one   *)

trackerVars == <<status, recorded, verdict>>

Accepted == {"Working"}        (* PreSubmitted, Submitted                   *)
Dead     == {"Dead"}           (* Cancelled, ApiCancelled, Inactive         *)
Active   == {"Pending", "Working", "PendingCancel"}
Statuses == {"ABSENT", "Pending", "Working", "PendingCancel", "Filled", "Dead"}
Verdicts == {"none", "pending", "filled", "accepted", "rejected", "timeout"}

TrackerTypeOK ==
    /\ status \in [Orders -> Statuses]
    /\ recorded \in [Orders -> Seq({"filled", "dead"})]
    /\ verdict \in [Orders -> Verdicts]

TrackerInit ==
    /\ status = [o \in Orders |-> "ABSENT"]
    /\ recorded = [o \in Orders |-> <<>>]
    /\ verdict = [o \in Orders |-> "none"]

(* get_open_order_count(): distinct orders whose latest status is active.  *)
OpenCount == Cardinality({o \in Orders : status[o] \in Active})

(* Mutant: a cancel that was only requested counts as a death.             *)
DecisiveOnCancelRequest(st) ==
    CASE st = "Filled"                       -> "filled"
      [] st \in Accepted                     -> "accepted"
      [] st \in Dead \union {"PendingCancel"} -> "rejected"
      [] OTHER                               -> "pending"

(* _decisive(): pending statuses are not decisive yet.                     *)
Decisive(st) ==
    CASE st = "Filled"    -> "filled"
      [] st \in Accepted  -> "accepted"
      [] st \in Dead      -> "rejected"
      [] OTHER            -> "pending"

(* The outcome bookkeeping of on_trade(): the first terminal status is     *)
(* recorded; Filled supersedes a recorded death; nothing supersedes Filled.*)
(* _terminal_logged[id] is the last element of recorded[id].               *)
Outcome(st) == IF st = "Filled" THEN "filled" ELSE "dead"

RecordTerminalOnce(log, st) ==
    IF st \in Dead \union {"Filled"} /\ log = <<>>
    THEN <<Outcome(st)>> ELSE log

RecordLatest(log, st) ==
    IF /\ st \in Dead \union {"Filled"}
       /\ log = <<>> \/ log[Len(log)] # Outcome(st)
    THEN Append(log, Outcome(st)) ELSE log

Record(log, st) ==
    IF \/ st \in Dead \union {"Filled"} /\ log = <<>>
       \/ st = "Filled" /\ log = <<"dead">>
    THEN Append(log, Outcome(st)) ELSE log

(* on_trade() for the orders in DOMAIN news, each with its new status: the *)
(* status is remembered, a terminal one recorded, and a decisive one       *)
(* settles the future that is still pending.                               *)
Observe(news) ==
    /\ status' = [o \in Orders |-> IF o \in DOMAIN news THEN news[o] ELSE status[o]]
    /\ recorded' = [o \in Orders |->
           IF o \in DOMAIN news THEN Record(recorded[o], news[o]) ELSE recorded[o]]

Settle(news) ==
    verdict' = [o \in Orders |->
        IF o \in DOMAIN news /\ verdict[o] = "pending" THEN Decisive(news[o]) ELSE verdict[o]]

OnTrade(news) == Observe(news) /\ Settle(news)

(* cancelOrder() of ib_async: a staged order dies at once, an active one   *)
(* waits for the broker, a finished one is left alone.                     *)
AfterCancelRequest(o, transmitted) ==
    CASE status[o] = "Pending" /\ ~transmitted -> "Dead"
      [] status[o] \in Active /\ transmitted   -> "PendingCancel"
      [] OTHER                                 -> status[o]

(* wait_decisive() on an order just placed: its status is not decisive, so *)
(* a future is registered.  The caller resumes when it is settled and the  *)
(* future is dropped.                                                      *)
Await(o)    == verdict' = [verdict EXCEPT ![o] = "pending"]
Returned(o) == verdict[o] \notin {"none", "pending"}
Forget(o)   == verdict' = [verdict EXCEPT ![o] = "none"]

(* The deadline passes first: the order is UNKNOWN, not failed.            *)
Expire(o) ==
    /\ verdict[o] = "pending"
    /\ verdict' = [verdict EXCEPT ![o] = "timeout"]
    /\ UNCHANGED <<status, recorded>>
-----------------------------------------------------------------------------
(* An order's events: a fill is written exactly once if the order ever     *)
(* reported Filled, a death at most once and never after the fill.         *)
OutcomeLogs == {<<>>, <<"dead">>, <<"filled">>, <<"dead", "filled">>}

(* Whatever the order of the statuses, the last outcome on record is the   *)
(* stronger one: a reported fill is the last thing written, so the ledger  *)
(* that pairs fills never loses one to an earlier or later Cancelled.      *)
FillIsRecorded ==
    \A o \in Orders :
        /\ recorded[o] \in OutcomeLogs
        /\ status[o] = "Filled" => recorded[o] # <<>> /\ recorded[o][Len(recorded[o])] = "filled"
        /\ status[o] \in Dead => recorded[o] # <<>>
=============================================================================
