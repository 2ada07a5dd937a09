--------------------------- MODULE MCOrderPlacement ---------------------------
(* Instances of OrderPlacement for TLC.                                    *)
EXTENDS OrderPlacement, TLC

MCOrders == Slots
MCSymmetry == Permutations(Callers)

Request(path, side, qty, exit, byAmount) ==
    [path |-> path, side |-> side, qty |-> qty, exit |-> exit, byAmount |-> byAmount]

(* A flip of a long of one, a bracket, two orders of the direct path, the  *)
(* second sized by an amount, and a protective stop.                       *)
MCRequests ==
    {Request("proposal", "SELL", 2, "NONE", FALSE),
     Request("proposal", "BUY", 1, "BRACKET", FALSE),
     Request("direct", "SELL", 2, "NONE", FALSE),
     Request("direct", "SELL", 2, "NONE", TRUE),
     Request("standalone", "SELL", 1, "NONE", FALSE)}
===============================================================================
