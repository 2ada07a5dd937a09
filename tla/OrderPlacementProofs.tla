-------------------------- MODULE OrderPlacementProofs --------------------------
(***************************************************************************)
(* Proofs about OrderPlacement, for any requests, callers, positions,      *)
(* limits and faults: type correctness, that a fill is the last word of an *)
(* order's record, that an exemption stays within the position it rests    *)
(* on, by how much concurrent requests can pass the rate limit, that the   *)
(* legs of a half are transmitted together or not at all, and that a half  *)
(* reported failed does not fill.                                          *)
(***************************************************************************)
EXTENDS OrderPlacement, FiniteSetTheorems, SequenceTheorems, TLAPS

-----------------------------------------------------------------------------
(* The tracker                                                             *)

(* A step of the status stream, or none.                                   *)
StatusStep ==
    \/ UNCHANGED <<status, recorded>>
    \/ \E S \in SUBSET Orders : \E news \in [S -> Statuses] : Observe(news)

LEMMA OutcomeLogsAreLogs == OutcomeLogs \subseteq Seq({"filled", "dead"})
BY DEF OutcomeLogs

LEMMA DeadThenFilled == Append(<<"dead">>, "filled") = <<"dead", "filled">>
<1> DEFINE A == {"dead", "filled"}
           app == Append(<<"dead">>, "filled")
           log2 == <<"dead", "filled">>
<1>1. app \in Seq(A) /\ Len(app) = 2 /\ app[1] = "dead" /\ app[2] = "filled"
  <2>1. <<"dead">> \in Seq(A) /\ "filled" \in A /\ Len(<<"dead">>) = 1
    OBVIOUS
  <2> QED
    BY <2>1, AppendProperties
<1>2. log2 \in Seq(A) /\ Len(log2) = 2 /\ log2[1] = "dead" /\ log2[2] = "filled"
  OBVIOUS
<1> HIDE DEF app, log2, A
<1>3. \A i \in 1 .. Len(app) : app[i] = log2[i]
  <2>1. \A i \in 1 .. 2 : i = 1 \/ i = 2
    OBVIOUS
  <2> QED
    BY <1>1, <1>2, <2>1
<1>4. app = log2
  BY <1>1, <1>2, <1>3, SeqEqual, Zenon
<1> QED
  BY <1>4 DEF app, log2

(* What Record makes of each of the four logs.                             *)
LEMMA RecordValues ==
    ASSUME NEW log \in OutcomeLogs, NEW st \in Statuses
    PROVE  Record(log, st) =
               IF st = "Filled"
               THEN IF log \in {<<>>, <<"filled">>} THEN <<"filled">> ELSE <<"dead", "filled">>
               ELSE IF st = "Dead" /\ log = <<>> THEN <<"dead">> ELSE log
<1>1. CASE log = <<>>
  BY <1>1 DEF Record, Outcome, Dead
<1>2. CASE log = <<"dead">>
  BY <1>2, DeadThenFilled DEF Record, Outcome, Dead
<1>3. CASE log = <<"filled">>
  BY <1>3 DEF Record, Outcome, Dead
<1>4. CASE log = <<"dead", "filled">>
  BY <1>4 DEF Record, Outcome, Dead
<1> QED
  BY <1>1, <1>2, <1>3, <1>4 DEF OutcomeLogs

LEMMA RecordLog ==
    ASSUME NEW log \in OutcomeLogs, NEW st \in Statuses
    PROVE  /\ Record(log, st) \in OutcomeLogs
           /\ st = "Filled" => /\ Record(log, st) # <<>>
                               /\ Record(log, st)[Len(Record(log, st))] = "filled"
           /\ st \in Dead => Record(log, st) # <<>>
<1>1. CASE st = "Filled"
  BY <1>1, RecordValues DEF OutcomeLogs, Dead
<1>2. CASE st = "Dead"
  BY <1>2, RecordValues DEF OutcomeLogs
<1>3. CASE st \notin {"Filled", "Dead"}
  BY <1>3, RecordValues DEF Dead
<1> QED
  BY <1>1, <1>2, <1>3

LEMMA StatusStepType ==
    ASSUME status \in [Orders -> Statuses], FillIsRecorded, StatusStep,
           recorded \in [Orders -> Seq({"filled", "dead"})]
    PROVE  /\ status' \in [Orders -> Statuses]
           /\ recorded' \in [Orders -> Seq({"filled", "dead"})]
           /\ FillIsRecorded'
<1>1. CASE UNCHANGED <<status, recorded>>
  BY <1>1 DEF FillIsRecorded
<1>2. ASSUME NEW S \in SUBSET Orders, NEW news \in [S -> Statuses], Observe(news)
      PROVE  /\ status' \in [Orders -> Statuses]
             /\ recorded' \in [Orders -> Seq({"filled", "dead"})]
             /\ FillIsRecorded'
  <2>1. DOMAIN news = S /\ \A o \in S : news[o] \in Statuses
    OBVIOUS
  <2>2. ASSUME NEW o \in Orders
        PROVE  /\ status'[o] = IF o \in S THEN news[o] ELSE status[o]
               /\ recorded'[o] = IF o \in S THEN Record(recorded[o], news[o]) ELSE recorded[o]
    BY <1>2, <2>1 DEF Observe
  <2>3. status' \in [Orders -> Statuses]
    BY <1>2, <2>1 DEF Observe
  <2>4. ASSUME NEW o \in Orders
        PROVE  /\ recorded'[o] \in OutcomeLogs
               /\ status'[o] = "Filled" =>
                    recorded'[o] # <<>> /\ recorded'[o][Len(recorded'[o])] = "filled"
               /\ status'[o] \in Dead => recorded'[o] # <<>>
    <3>1. recorded[o] \in OutcomeLogs
      BY DEF FillIsRecorded
    <3>2. CASE o \in S
      BY <2>1, <2>2, <3>1, <3>2, RecordLog
    <3>3. CASE o \notin S
      BY <2>2, <3>3 DEF FillIsRecorded
    <3> QED
      BY <3>2, <3>3
  <2>5. recorded' \in [Orders -> Seq({"filled", "dead"})]
    <3>1. \A o \in Orders : recorded'[o] \in Seq({"filled", "dead"})
      BY <2>4, OutcomeLogsAreLogs
    <3>2. recorded' = [o \in Orders |-> recorded'[o]]
      BY <1>2 DEF Observe
    <3> QED
      BY <3>1, <3>2
  <2> QED
    BY <2>3, <2>4, <2>5 DEF FillIsRecorded, Dead
<1> QED
  BY <1>1, <1>2 DEF StatusStep
-----------------------------------------------------------------------------
(* The helpers of a placement                                              *)

SentType == [side : Sides, qty : Nat, exempt : BOOLEAN, live : BOOLEAN]

Entry(s, h) == <<s, h, "entry">>

LEMMA SlotParts ==
    /\ \A o \in Orders : o[1] \in Callers /\ o[2] \in Halves /\ o[3] \in Legs /\ o = <<o[1], o[2], o[3]>>
    /\ \A s \in Callers, h \in Halves, l \in Legs : <<s, h, l>> \in Orders
BY OrdersAssumption DEF Slots

LEMMA RequestParts ==
    ASSUME NEW r \in Requests \union {NoRequest}
    PROVE  /\ r.side \in Sides /\ r.qty \in Nat /\ r.exit \in {"NONE", "STOP", "BRACKET"}
           /\ r.path \in {"proposal", "direct", "standalone", "none"}
BY RequestsAssumption DEF RequestType, NoRequest, Sides

LEMMA LegsOfType ==
    ASSUME NEW r \in Requests \union {NoRequest}, NEW plain \in BOOLEAN
    PROVE  LegsOf(r, plain) \subseteq Legs
BY RequestParts DEF LegsOf, Legs

LEMMA SplitType ==
    ASSUME NEW side \in Sides, NEW seen, seen = Unreadable \/ seen \in Int, NEW qty \in Nat
    PROVE  /\ Split(side, seen, qty) \in [reduce : Nat, open : Nat]
           /\ Reduces(side, seen) => Split(side, seen, qty).reduce <= Size(seen)
           /\ ~Reduces(side, seen) => Split(side, seen, qty).reduce = 0
BY DEF Split, Reduces, Size, Sides

LEMMA ReadsType ==
    ASSUME held \in Int, NEW seen \in Reads
    PROVE  /\ seen = Unreadable \/ seen \in Int
           /\ (IF seen = Unreadable THEN 0 ELSE Size(seen)) \in Nat
BY PositionsAssumption DEF Reads, Size

(* What a placement does to the orders.                                    *)
Placed(s, h, qty, exempt) ==
    /\ sent' \in [Orders -> SentType]
    /\ StatusStep
    /\ \A o \in Orders : o[1] # s \/ o[2] # h => sent'[o] = sent[o]
    /\ \/ sent'[Entry(s, h)] = sent[Entry(s, h)]
       \/ sent'[Entry(s, h)].qty = qty /\ sent'[Entry(s, h)].exempt = exempt

LEMMA PlaceEffect ==
    ASSUME sent \in [Orders -> SentType],
           NEW s \in Callers, NEW h \in Halves, NEW r \in Requests \union {NoRequest},
           NEW qty \in Nat, NEW legs \in SUBSET Legs, NEW exempt \in BOOLEAN,
           NEW refused, NEW cleaned,
           PlaceLegs(s, h, r, qty, legs, exempt, refused, cleaned)
    PROVE  Placed(s, h, qty, exempt)
<1> DEFINE placed == {<<s, h, l>> : l \in IF refused \in legs THEN legs \cap Before(refused) ELSE legs}
           new(o) == [side |-> IF o[3] = "entry" THEN r.side ELSE Opposite(r.side),
                      qty |-> qty, exempt |-> exempt \/ o[3] # "entry",
                      live |-> Transmits(legs, refused)]
           news == [o \in placed |-> IF refused \in legs /\ cleaned THEN "Dead" ELSE "Pending"]
<1>1. /\ sent' = [o \in Orders |-> IF o \in placed THEN new(o) ELSE sent[o]]
      /\ Observe(news)
  BY Zenon DEF PlaceLegs
<1>2. placed \subseteq Orders /\ \A o \in placed : o[1] = s /\ o[2] = h
  BY SlotParts
<1>3. news \in [placed -> Statuses]
  BY DEF Statuses
<1>4. StatusStep
  BY <1>1, <1>2, <1>3 DEF StatusStep
<1>5. Transmits(legs, refused) \in BOOLEAN
  BY DEF Transmits
<1>6. ASSUME NEW o \in Orders PROVE new(o) \in SentType
  BY <1>5, RequestParts DEF SentType, Opposite, Sides
<1>7. sent' \in [Orders -> SentType]
  BY <1>1, <1>6
<1>8. <<s, h, "entry">> \in Orders /\ <<s, h, "entry">>[3] = "entry"
  BY SlotParts DEF Legs
<1>9. new(<<s, h, "entry">>).qty = qty /\ new(<<s, h, "entry">>).exempt = exempt
  BY <1>8
<1> HIDE DEF placed, new, news
<1> QED
  BY <1>1, <1>2, <1>4, <1>7, <1>8, <1>9 DEF Entry, Placed
-----------------------------------------------------------------------------
(***************************************************************************)
(* The invariant                                                           *)
(***************************************************************************)
TaskTypeOK ==
    /\ pc \in [Callers -> Pcs]
    /\ req \in [Callers -> Requests \union {NoRequest}]
    /\ half \in [Callers -> Halves]
    /\ plan \in [Callers -> [reduce : Nat, open : Nat]]
    /\ isExit \in [Callers -> BOOLEAN]
    /\ allowOpen \in [Callers -> BOOLEAN]
    /\ basis \in [Callers -> Nat]
    /\ opens \in [Callers -> Nat]
    /\ result \in [Callers -> [Halves -> {"none", "ok", "fail"}]]
    /\ peak \in Nat

(* What a request carries from one await to the next: the exit flag is set *)
(* only between its classification and its placement, for the first half,  *)
(* with a reduction within the position it was classified against; a half  *)
(* that goes through the gates is no flip's reduction.                     *)
TaskInv(s) ==
    /\ pc[s] \in {"idle", "quote"} =>
         /\ ~isExit[s] /\ half[s] = "first"
         /\ \A h \in Halves : ~sent[Entry(s, h)].exempt
    /\ pc[s] = "quote" => req[s].path = "direct"
    /\ pc[s] \in {"margin", "value"} => ~isExit[s]
    /\ pc[s] = "tier" /\ req[s].path = "proposal" => ~isExit[s]
    /\ isExit[s] => half[s] = "first" /\ plan[s].reduce <= basis[s]
    /\ half[s] = "first" /\ ~isExit[s] /\ pc[s] \in {"margin", "value", "tier"}
         => plan[s].reduce = 0
    /\ \A h \in Halves :
         sent[Entry(s, h)].exempt => h = "first" /\ sent[Entry(s, h)].qty <= basis[s]

IInv ==
    /\ TypeOK
    /\ FillIsRecorded
    /\ \A s \in Callers : TaskInv(s)

(* The rate limit's ledger: a step leaves both the opening orders and the  *)
(* requests in the gap alone, lets one request into the gap below the      *)
(* limit, or turns one request in the gap into an order.                   *)
OpenedSet == {o \in Orders : o[3] = "entry" /\ sent[o].qty > 0 /\ ~sent[o].exempt}

Quiet == OpenedSet' \subseteq OpenedSet /\ InGap' \subseteq InGap /\ peak' = peak

Enters(s) ==
    /\ OpenedSet' \subseteq OpenedSet
    /\ InGap' \subseteq InGap \union {s}
    /\ Opened < MaxRate
    /\ Cardinality(InGap \union {s}) <= peak'

Spends(s) ==
    /\ s \in InGap /\ InGap' \subseteq InGap \ {s}
    /\ \E o \in Orders : OpenedSet' \subseteq OpenedSet \union {o}
    /\ peak' = peak

(* What every step of the task of s amounts to.                            *)
TaskStep(s) ==
    /\ TaskTypeOK' /\ sent' \in [Orders -> SentType]
    /\ StatusStep /\ verdict' \in [Orders -> Verdicts]
    /\ UNCHANGED <<held, lied, faults>>
    /\ TaskInv(s)'
    /\ \A u \in Callers : u # s =>
         /\ pc'[u] = pc[u] /\ req'[u] = req[u] /\ half'[u] = half[u]
         /\ plan'[u] = plan[u] /\ isExit'[u] = isExit[u] /\ basis'[u] = basis[u]
         /\ \A h \in Halves : sent'[Entry(u, h)] = sent[Entry(u, h)]
    /\ Quiet \/ Enters(s) \/ Spends(s)

LEMMA Typed ==
    ASSUME IInv
    PROVE  /\ TaskTypeOK /\ sent \in [Orders -> SentType]
           /\ status \in [Orders -> Statuses] /\ verdict \in [Orders -> Verdicts]
           /\ held \in Int
           /\ \A s \in Callers : TaskInv(s)
BY DEF IInv, TypeOK, TaskTypeOK, TrackerTypeOK, SentType

LEMMA Counts ==
    /\ IsFiniteSet(Orders)
    /\ OpenCount \in Nat
    /\ \A s \in Callers : Cardinality(InGap \union {s}) \in Nat
<1>1. IsFiniteSet(Halves) /\ IsFiniteSet(Legs)
  <2>1. Halves = {"first"} \union {"second"} /\ Legs = ({"entry"} \union {"profit"}) \union {"stop"}
    BY DEF Halves, Legs
  <2> QED
    BY <2>1, FS_Singleton, FS_Union
<1>2. IsFiniteSet(Orders)
  <2>1. IsFiniteSet(Callers \X (Halves \X Legs))
    BY <1>1, CallersAssumption, FS_Product
  <2> DEFINE f == [x \in Callers \X (Halves \X Legs) |-> <<x[1], x[2][1], x[2][2]>>]
  <2>2. f \in Surjection(Callers \X (Halves \X Legs), Slots)
    <3>1. f \in [Callers \X (Halves \X Legs) -> Slots]
      BY DEF Slots
    <3>2. ASSUME NEW o \in Slots PROVE \E x \in Callers \X (Halves \X Legs) : f[x] = o
      <4>1. <<o[1], <<o[2], o[3]>>>> \in Callers \X (Halves \X Legs)
        BY DEF Slots
      <4>2. f[<<o[1], <<o[2], o[3]>>>>] = o
        BY <4>1 DEF Slots
      <4> QED
        BY <4>1, <4>2
    <3> QED
      BY <3>1, <3>2 DEF Surjection
  <2> QED
    BY <2>1, <2>2, FS_Surjection, OrdersAssumption
<1>3. OpenCount \in Nat
  <2>1. {o \in Orders : status[o] \in Active} \in SUBSET Orders
    OBVIOUS
  <2> QED
    BY <1>2, <2>1, FS_Subset, FS_CardinalityType DEF OpenCount
<1>4. ASSUME NEW s \in Callers PROVE Cardinality(InGap \union {s}) \in Nat
  <2>1. (InGap \union {s}) \in SUBSET Callers
    BY DEF InGap
  <2> QED
    BY <2>1, CallersAssumption, FS_Subset, FS_CardinalityType
<1> QED
  BY <1>2, <1>3, <1>4
-----------------------------------------------------------------------------
(***************************************************************************)
(* The steps of a request that place nothing                               *)
(***************************************************************************)
OthersStay(s) ==
    \A u \in Callers : u # s =>
        /\ pc'[u] = pc[u] /\ req'[u] = req[u] /\ half'[u] = half[u]
        /\ plan'[u] = plan[u] /\ isExit'[u] = isExit[u] /\ basis'[u] = basis[u]
        /\ \A h \in Halves : sent'[Entry(u, h)] = sent[Entry(u, h)]

LEMMA Gap ==
    ASSUME NEW s \in Callers, OthersStay(s)
    PROVE  /\ InGap' \subseteq InGap \union {s}
           /\ pc'[s] # "tier" \/ isExit'[s] => InGap' \subseteq InGap \ {s}
BY DEF InGap, OthersStay

LEMMA SameOrders == sent' = sent => OpenedSet' = OpenedSet
BY DEF OpenedSet

(* A step that changes no order and ends outside the gap.                  *)
LEMMA OutsideGap ==
    ASSUME NEW s \in Callers, IInv, OthersStay(s), UNCHANGED <<sent, peak, held, lied, faults>>,
           TaskTypeOK', TaskInv(s)', StatusStep, verdict' \in [Orders -> Verdicts],
           pc'[s] # "tier" \/ isExit'[s]
    PROVE  TaskStep(s)
<1>1. Quiet
  BY Gap, SameOrders DEF Quiet
<1>2. sent' \in [Orders -> SentType]
  BY Typed
<1> QED
  BY <1>1, <1>2, Zenon DEF TaskStep, OthersStay

(* A step that changes no order and enters the gap.                        *)
LEMMA IntoGap ==
    ASSUME NEW s \in Callers, IInv, OthersStay(s), UNCHANGED <<sent, held, lied, faults>>,
           TaskTypeOK', TaskInv(s)', StatusStep, verdict' \in [Orders -> Verdicts],
           EnterGap(s), Opened < MaxRate
    PROVE  TaskStep(s)
<1>1. Cardinality(InGap \union {s}) <= peak'
  BY Typed, Counts DEF EnterGap, TaskTypeOK
<1>2. Enters(s)
  BY <1>1, Gap, SameOrders DEF Enters
<1>3. sent' \in [Orders -> SentType]
  BY Typed
<1> QED
  BY <1>2, <1>3, Zenon DEF TaskStep, OthersStay

LEMMA PeakType ==
    ASSUME IInv, NEW s \in Callers, EnterGap(s)
    PROVE  peak' \in Nat
BY Typed, Counts DEF EnterGap, TaskTypeOK

LEMMA ReportType ==
    ASSUME IInv, NEW s \in Callers, NEW h \in Halves, NEW outcome \in {"ok", "fail"},
           Report(s, h, outcome)
    PROVE  result' \in [Callers -> [Halves -> {"none", "ok", "fail"}]]
<1>1. result \in [Callers -> [Halves -> {"none", "ok", "fail"}]]
  BY Typed DEF TaskTypeOK
<1>2. [result[s] EXCEPT ![h] = outcome] \in [Halves -> {"none", "ok", "fail"}]
  BY <1>1
<1>3. result' = [result EXCEPT ![s] = [result[s] EXCEPT ![h] = outcome]]
  BY DEF Report
<1> QED
  BY <1>1, <1>2, <1>3

LEMMA NoStatusStep == UNCHANGED trackerVars => StatusStep /\ verdict' = verdict
BY DEF trackerVars, StatusStep

LEMMA ProposalOpenStep ==
    ASSUME IInv, NEW s \in Callers, NEW r \in Requests, NEW seen \in Reads,
           ProposalOpen(s, r, seen)
    PROVE  TaskStep(s)
<1>1. TaskTypeOK /\ TaskInv(s) /\ held \in Int /\ sent \in [Orders -> SentType]
      /\ verdict \in [Orders -> Verdicts]
  BY Typed
<1> DEFINE p == Split(r.side, seen, r.qty)
           b == IF seen = Unreadable THEN 0 ELSE Size(seen)
<1>2. p \in [reduce : Nat, open : Nat] /\ b \in Nat /\ p.reduce = 0
  <2>1. r.side \in Sides /\ r.qty \in Nat /\ ~Reduces(r.side, seen)
    BY RequestParts DEF ProposalOpen
  <2>2. (seen = Unreadable \/ seen \in Int) /\ b \in Nat
    BY <1>1, ReadsType
  <2> QED
    BY <2>1, <2>2, SplitType
<1> HIDE DEF p, b
<1>3. /\ pc[s] = "idle" /\ pc' = [pc EXCEPT ![s] = "margin"] /\ req' = [req EXCEPT ![s] = r]
      /\ half' = [half EXCEPT ![s] = "first"] /\ plan' = [plan EXCEPT ![s] = p]
      /\ isExit' = [isExit EXCEPT ![s] = FALSE] /\ basis' = [basis EXCEPT ![s] = b]
      /\ UNCHANGED <<allowOpen, opens, result, peak, sent, held, lied, faults, verdict>>
      /\ UNCHANGED trackerVars
  BY DEF ProposalOpen, Begin, Goto, p, b, trackerVars, brokerVars
<1>4. TaskTypeOK'
  BY <1>1, <1>2, <1>3 DEF TaskTypeOK, Pcs, Halves
<1>5. OthersStay(s) /\ pc'[s] = "margin"
  BY <1>1, <1>3 DEF OthersStay, TaskTypeOK
<1>6. TaskInv(s)'
  BY <1>1, <1>2, <1>3 DEF TaskInv, TaskTypeOK
<1> QED
  BY <1>1, <1>3, <1>4, <1>5, <1>6, OutsideGap, NoStatusStep

LEMMA DirectOrderStep ==
    ASSUME IInv, NEW s \in Callers, NEW r \in Requests, NEW seen \in Reads,
           DirectOrder(s, r, seen)
    PROVE  TaskStep(s)
<1>1. TaskTypeOK /\ TaskInv(s) /\ verdict \in [Orders -> Verdicts]
  BY Typed
<1> DEFINE allowed == ProposalGate(r, seen) = "open"
<1>2. allowed \in BOOLEAN
  OBVIOUS
<1> HIDE DEF allowed
<1>3. /\ pc[s] = "idle" /\ req' = [req EXCEPT ![s] = r] /\ r.path = "direct"
      /\ allowOpen' = [allowOpen EXCEPT ![s] = allowed]
      /\ UNCHANGED <<half, plan, isExit, basis, opens, peak, sent, held, lied, faults, verdict>>
      /\ UNCHANGED trackerVars
  BY DEF DirectOrder, Goto, trackerVars, brokerVars, allowed
<1>4. \/ pc' = [pc EXCEPT ![s] = "done"] /\ Report(s, "first", "fail")
      \/ pc' = [pc EXCEPT ![s] = "quote"] /\ result' = result
  BY DEF DirectOrder, Goto
<1>5. TaskTypeOK'
  <2>1. allowOpen' \in [Callers -> BOOLEAN]
    BY <1>1, <1>2, <1>3, Zenon DEF TaskTypeOK
  <2>2. pc' \in [Callers -> Pcs] /\ result' \in [Callers -> [Halves -> {"none", "ok", "fail"}]]
    BY <1>1, <1>4, ReportType DEF TaskTypeOK, Pcs, Halves
  <2>3. req' \in [Callers -> Requests \union {NoRequest}]
    BY <1>1, <1>3 DEF TaskTypeOK
  <2> QED
    BY <1>1, <1>3, <2>1, <2>2, <2>3 DEF TaskTypeOK
<1>6. OthersStay(s) /\ pc'[s] \in {"done", "quote"}
  BY <1>1, <1>3, <1>4 DEF OthersStay, TaskTypeOK
<1>7. TaskInv(s)'
  BY <1>1, <1>3, <1>6 DEF TaskInv, TaskTypeOK
<1> QED
  BY <1>1, <1>3, <1>5, <1>6, <1>7, OutsideGap, NoStatusStep
LEMMA GatherInputsStep ==
    ASSUME IInv, NEW s \in Callers, GatherInputs(s) PROVE TaskStep(s)
<1>1. TaskTypeOK /\ TaskInv(s) /\ verdict \in [Orders -> Verdicts]
  BY Typed
<1>2. /\ pc[s] = "margin" /\ pc' = [pc EXCEPT ![s] = "value"]
      /\ opens' = [opens EXCEPT ![s] = OpenCount]
      /\ UNCHANGED <<req, half, plan, isExit, allowOpen, basis, result, peak, sent, held, lied, faults>>
      /\ UNCHANGED trackerVars
  BY DEF GatherInputs, Goto, trackerVars, brokerVars
<1>3. TaskTypeOK'
  BY <1>1, <1>2, Counts DEF TaskTypeOK, Pcs
<1>4. OthersStay(s) /\ pc'[s] = "value"
  BY <1>1, <1>2 DEF OthersStay, TaskTypeOK
<1>5. TaskInv(s)'
  BY <1>1, <1>2 DEF TaskInv, TaskTypeOK
<1> QED
  BY <1>1, <1>2, <1>3, <1>4, <1>5, OutsideGap, NoStatusStep

LEMMA EvaluateStep ==
    ASSUME IInv, NEW s \in Callers, Evaluate(s) PROVE TaskStep(s)
<1>1. TaskTypeOK /\ TaskInv(s) /\ verdict \in [Orders -> Verdicts]
  BY Typed
<1>2. /\ pc[s] = "value" /\ pc' = [pc EXCEPT ![s] = "tier"]
      /\ EnterGap(s) /\ Opened < MaxRate
      /\ UNCHANGED <<req, half, plan, isExit, allowOpen, basis, opens, result, sent, held, lied, faults>>
      /\ UNCHANGED trackerVars
  BY DEF Evaluate, EnterGap, GatePasses, trackerVars, brokerVars
<1>3. TaskTypeOK'
  BY <1>1, <1>2, PeakType DEF TaskTypeOK, Pcs
<1>4. OthersStay(s) /\ pc'[s] = "tier"
  BY <1>1, <1>2 DEF OthersStay, TaskTypeOK
<1>5. TaskInv(s)'
  BY <1>1, <1>2 DEF TaskInv, TaskTypeOK
<1> QED
  BY <1>1, <1>2, <1>3, <1>4, <1>5, IntoGap, NoStatusStep

(* A refusal, or a snapshot that raises: the request is over.              *)
LEMMA GiveUpStep ==
    ASSUME IInv, NEW s \in Callers, RefuseOpen(s) \/ QuoteFails(s) PROVE TaskStep(s)
<1>1. TaskTypeOK /\ TaskInv(s) /\ verdict \in [Orders -> Verdicts]
  BY Typed
<1>2. /\ pc' = [pc EXCEPT ![s] = "done"] /\ Report(s, half[s], "fail") /\ half[s] \in Halves
      /\ UNCHANGED <<req, half, plan, isExit, allowOpen, basis, opens, peak, sent, held, lied, faults>>
      /\ UNCHANGED trackerVars
  BY <1>1 DEF RefuseOpen, QuoteFails, Goto, trackerVars, brokerVars, TaskTypeOK
<1>3. TaskTypeOK'
  BY <1>1, <1>2, ReportType DEF TaskTypeOK, Pcs
<1>4. OthersStay(s) /\ pc'[s] = "done"
  BY <1>1, <1>2 DEF OthersStay, TaskTypeOK
<1>5. TaskInv(s)'
  BY <1>1, <1>2, <1>4 DEF TaskInv, TaskTypeOK
<1> QED
  BY <1>1, <1>2, <1>3, <1>4, <1>5, OutsideGap, NoStatusStep

LEMMA DirectQuoteStep ==
    ASSUME IInv, NEW s \in Callers, NEW seen \in Reads, DirectQuote(s, seen)
    PROVE  TaskStep(s)
<1>1. TaskTypeOK /\ TaskInv(s) /\ held \in Int /\ verdict \in [Orders -> Verdicts]
  BY Typed
<1> DEFINE p == Split(req[s].side, seen, req[s].qty)
           b == IF seen = Unreadable THEN 0 ELSE Size(seen)
           exit == Reduces(req[s].side, seen)
<1>2. /\ p \in [reduce : Nat, open : Nat] /\ b \in Nat
      /\ exit => p.reduce <= b
      /\ ~exit => p.reduce = 0
  <2>1. req[s].side \in Sides /\ req[s].qty \in Nat
    BY <1>1, RequestParts DEF TaskTypeOK
  <2>2. (seen = Unreadable \/ seen \in Int) /\ b \in Nat
    BY <1>1, ReadsType
  <2>3. exit => b = Size(seen)
    BY DEF Reduces
  <2> QED
    BY <2>1, <2>2, <2>3, SplitType
<1>3. exit \in BOOLEAN
  BY DEF Reduces
<1>4. /\ pc[s] = "quote" /\ plan' = [plan EXCEPT ![s] = p] /\ basis' = [basis EXCEPT ![s] = b]
      /\ isExit' = [isExit EXCEPT ![s] = exit]
      /\ UNCHANGED <<req, half, allowOpen, opens, sent, held, lied, faults>>
      /\ UNCHANGED trackerVars
      /\ \/ exit /\ pc' = [pc EXCEPT ![s] = "tier"] /\ UNCHANGED <<peak, result>>
         \/ /\ ~exit /\ EnterGap(s) /\ Opened < MaxRate /\ UNCHANGED result
         \/ /\ ~exit /\ pc' = [pc EXCEPT ![s] = "done"] /\ UNCHANGED peak
            /\ Report(s, "first", "fail")
  BY DEF DirectQuote, GateDirect, GatePasses, Goto, trackerVars, brokerVars
<1> HIDE DEF p, b, exit
<1>5. /\ plan'[s] = p /\ basis'[s] = b /\ (isExit'[s] <=> exit)
      /\ plan' \in [Callers -> [reduce : Nat, open : Nat]] /\ basis' \in [Callers -> Nat]
      /\ isExit' \in [Callers -> BOOLEAN]
  BY <1>1, <1>2, <1>3, <1>4 DEF TaskTypeOK
<1>6. /\ pc' \in [Callers -> Pcs] /\ pc'[s] \in {"tier", "done"}
      /\ \A u \in Callers : u # s => pc'[u] = pc[u]
  BY <1>1, <1>4 DEF TaskTypeOK, Pcs, EnterGap
<1>7. peak' \in Nat /\ result' \in [Callers -> [Halves -> {"none", "ok", "fail"}]]
  BY <1>1, <1>4, PeakType, ReportType DEF TaskTypeOK, Halves
<1>8. TaskTypeOK'
  BY <1>1, <1>4, <1>5, <1>6, <1>7 DEF TaskTypeOK
<1>9. OthersStay(s)
  BY <1>1, <1>4, <1>6 DEF OthersStay, TaskTypeOK
<1>10. TaskInv(s)'
  <2>1. /\ half'[s] = "first" /\ req'[s] = req[s]
        /\ \A h \in Halves : ~sent'[Entry(s, h)].exempt
    BY <1>1, <1>4 DEF TaskInv
  <2>2. req[s].path # "proposal" \/ ~isExit'[s]
    BY <1>1, <1>4 DEF TaskInv
  <2> QED
    BY <1>2, <1>5, <1>6, <2>1, <2>2 DEF TaskInv
<1> QED
  BY <1>1, <1>4, <1>5, <1>6, <1>8, <1>9, <1>10, OutsideGap, IntoGap, NoStatusStep
-----------------------------------------------------------------------------
(***************************************************************************)
(* The steps of a request that place orders, and those that wait           *)
(***************************************************************************)
(* The ledger of opening orders over a placement.                          *)
LEMMA PlaceCounts ==
    ASSUME IInv, NEW s \in Callers, NEW h \in Halves, NEW qty, NEW exempt \in BOOLEAN,
           \A o \in Orders : o[1] # s \/ o[2] # h => sent'[o] = sent[o],
           sent'[Entry(s, h)] = sent[Entry(s, h)]
             \/ (sent'[Entry(s, h)].qty = qty /\ sent'[Entry(s, h)].exempt = exempt)
    PROVE  /\ OpenedSet' \subseteq OpenedSet \union {Entry(s, h)}
           /\ exempt => OpenedSet' \subseteq OpenedSet
           /\ \A u \in Callers, g \in Halves :
                 u # s \/ g # h => sent'[Entry(u, g)] = sent[Entry(u, g)]
<1>1. ASSUME NEW o \in Orders, o[3] = "entry", o # Entry(s, h) PROVE sent'[o] = sent[o]
  <2>1. o[1] # s \/ o[2] # h
    BY <1>1, SlotParts DEF Entry
  <2> QED
    BY <2>1
<1>2. ASSUME NEW u \in Callers, NEW g \in Halves, u # s \/ g # h
      PROVE  sent'[Entry(u, g)] = sent[Entry(u, g)]
  BY <1>2, SlotParts DEF Entry, Legs
<1> QED
  BY <1>1, <1>2 DEF OpenedSet

LEMMA ConfirmEffect ==
    ASSUME IInv, NEW s \in Callers, NEW h \in Halves, NEW r \in Requests \union {NoRequest},
           NEW qty \in Nat, NEW legs \in SUBSET Legs, NEW exempt \in BOOLEAN,
           NEW refused, NEW cleaned,
           PlaceAndConfirm(s, h, r, qty, legs, exempt, refused, cleaned)
    PROVE  /\ PlaceLegs(s, h, r, qty, legs, exempt, refused, cleaned)
           /\ \E label \in {"done", "confirm"} : pc' = [pc EXCEPT ![s] = label]
           /\ peak' = peak
           /\ verdict' \in [Orders -> Verdicts]
           /\ result' \in [Callers -> [Halves -> {"none", "ok", "fail"}]]
<1>1. verdict \in [Orders -> Verdicts] /\ TaskTypeOK
  BY Typed
<1>2. CASE refused \in legs
  BY <1>1, <1>2, ReportType DEF PlaceAndConfirm, Goto, TaskTypeOK
<1>3. CASE refused \notin legs
  BY <1>1, <1>3 DEF PlaceAndConfirm, Goto, Await, Verdicts, TaskTypeOK
<1> QED
  BY <1>2, <1>3

LEMMA ProposalExitStep ==
    ASSUME IInv, NEW s \in Callers, NEW r \in Requests, NEW seen \in Reads,
           NEW refused, NEW cleaned, ProposalExit(s, r, seen, refused, cleaned)
    PROVE  TaskStep(s)
<1>1. /\ TaskTypeOK /\ TaskInv(s) /\ held \in Int /\ sent \in [Orders -> SentType]
  BY Typed
<1> DEFINE p == Split(r.side, seen, r.qty)
           legs == LegsOf(r, IsFlip(p))
           b == IF seen = Unreadable THEN 0 ELSE Size(seen)
<1>2. p \in [reduce : Nat, open : Nat] /\ b \in Nat /\ p.reduce <= b
  <2>1. r.side \in Sides /\ r.qty \in Nat /\ Reduces(r.side, seen)
    BY RequestParts DEF ProposalExit
  <2>2. (seen = Unreadable \/ seen \in Int) /\ b \in Nat
    BY <1>1, ReadsType
  <2>3. b = Size(seen)
    BY <2>1 DEF Reduces
  <2> QED
    BY <2>1, <2>2, <2>3, SplitType
<1>3. legs \in SUBSET Legs
  <2>1. IsFlip(p) \in BOOLEAN
    BY DEF IsFlip
  <2> QED
    BY <2>1, LegsOfType
<1>4. /\ pc[s] = "idle" /\ req' = [req EXCEPT ![s] = r]
      /\ half' = [half EXCEPT ![s] = "first"] /\ plan' = [plan EXCEPT ![s] = p]
      /\ isExit' = [isExit EXCEPT ![s] = TRUE] /\ basis' = [basis EXCEPT ![s] = b]
      /\ UNCHANGED <<allowOpen, opens, held, lied, faults>>
      /\ PlaceAndConfirm(s, "first", r, p.reduce, legs, TRUE, refused, cleaned)
  BY DEF ProposalExit, Begin
<1> HIDE DEF p, legs, b
<1>5. /\ PlaceLegs(s, "first", r, p.reduce, legs, TRUE, refused, cleaned)
      /\ \E label \in {"done", "confirm"} : pc' = [pc EXCEPT ![s] = label]
      /\ peak' = peak /\ verdict' \in [Orders -> Verdicts]
      /\ result' \in [Callers -> [Halves -> {"none", "ok", "fail"}]]
  BY <1>2, <1>3, <1>4, ConfirmEffect DEF Halves
<1>6. /\ sent' \in [Orders -> SentType] /\ StatusStep
      /\ \A o \in Orders : o[1] # s \/ o[2] # "first" => sent'[o] = sent[o]
      /\ \/ sent'[Entry(s, "first")] = sent[Entry(s, "first")]
         \/ sent'[Entry(s, "first")].qty = p.reduce /\ sent'[Entry(s, "first")].exempt = TRUE
  <2>1. Placed(s, "first", p.reduce, TRUE)
    BY <1>1, <1>2, <1>3, <1>5, PlaceEffect DEF Halves
  <2> QED
    BY <2>1, Zenon DEF Placed
<1>7. /\ OpenedSet' \subseteq OpenedSet
      /\ \A u \in Callers, g \in Halves :
            u # s \/ g # "first" => sent'[Entry(u, g)] = sent[Entry(u, g)]
  BY <1>6, PlaceCounts DEF Halves
<1>8. TaskTypeOK'
  BY <1>1, <1>2, <1>4, <1>5 DEF TaskTypeOK, Pcs, Halves
<1>9. OthersStay(s) /\ pc'[s] \in {"done", "confirm"}
  BY <1>1, <1>4, <1>5, <1>7 DEF OthersStay, TaskTypeOK
<1>10. Quiet
  BY <1>5, <1>7, <1>9, Gap DEF Quiet
<1>11. TaskInv(s)'
  <2>1. plan'[s] = p /\ basis'[s] = b /\ half'[s] = "first" /\ isExit'[s]
    BY <1>1, <1>4 DEF TaskTypeOK
  <2>2. \A h \in Halves : sent'[Entry(s, h)].exempt =>
            h = "first" /\ sent'[Entry(s, h)].qty <= b
    BY <1>1, <1>2, <1>4, <1>6, <1>7 DEF TaskInv, Halves
  <2> QED
    BY <1>2, <1>9, <2>1, <2>2 DEF TaskInv
<1> QED
  BY <1>4, <1>5, <1>6, <1>8, <1>9, <1>10, <1>11, Zenon DEF TaskStep, OthersStay

LEMMA PlaceOpenStep ==
    ASSUME IInv, NEW s \in Callers, NEW refused, NEW cleaned, PlaceOpen(s, refused, cleaned)
    PROVE  TaskStep(s)
<1>1. /\ TaskTypeOK /\ TaskInv(s) /\ sent \in [Orders -> SentType]
  BY Typed
<1>2. PICK h \in Halves, qty \in Nat, r \in Requests \union {NoRequest} :
          h = half[s] /\ qty = plan[s].open /\ r = req[s]
  BY <1>1 DEF TaskTypeOK
<1> DEFINE legs == LegsOf(r, FALSE)
<1>a. legs \in SUBSET Legs
  BY LegsOfType
<1>3. /\ pc[s] = "tier" /\ ~isExit[s]
      /\ UNCHANGED <<req, half, plan, isExit, allowOpen, basis, opens, held, lied, faults>>
      /\ PlaceAndConfirm(s, h, r, qty, legs, FALSE, refused, cleaned)
  BY <1>1, <1>2 DEF PlaceOpen, TaskInv
<1> HIDE DEF legs
<1>4. /\ PlaceLegs(s, h, r, qty, legs, FALSE, refused, cleaned)
      /\ \E label \in {"done", "confirm"} : pc' = [pc EXCEPT ![s] = label]
      /\ peak' = peak /\ verdict' \in [Orders -> Verdicts]
      /\ result' \in [Callers -> [Halves -> {"none", "ok", "fail"}]]
  BY <1>2, <1>a, <1>3, ConfirmEffect
<1>5. /\ sent' \in [Orders -> SentType] /\ StatusStep
      /\ \A o \in Orders : o[1] # s \/ o[2] # h => sent'[o] = sent[o]
      /\ \/ sent'[Entry(s, h)] = sent[Entry(s, h)]
         \/ sent'[Entry(s, h)].qty = qty /\ sent'[Entry(s, h)].exempt = FALSE
  <2>1. Placed(s, h, qty, FALSE)
    BY <1>1, <1>2, <1>a, <1>4, PlaceEffect, Zenon
  <2> QED
    BY <2>1, Zenon DEF Placed
<1>6. /\ OpenedSet' \subseteq OpenedSet \union {Entry(s, h)} /\ Entry(s, h) \in Orders
      /\ \A u \in Callers, g \in Halves :
            u # s \/ g # h => sent'[Entry(u, g)] = sent[Entry(u, g)]
  BY <1>2, <1>5, PlaceCounts, SlotParts DEF Entry, Legs
<1>7. TaskTypeOK'
  BY <1>1, <1>3, <1>4 DEF TaskTypeOK, Pcs
<1>8. OthersStay(s) /\ pc'[s] \in {"done", "confirm"}
  BY <1>1, <1>3, <1>4, <1>6 DEF OthersStay, TaskTypeOK
<1>9. Spends(s)
  BY <1>3, <1>4, <1>6, <1>8, Gap DEF Spends, InGap
<1>10. TaskInv(s)'
  <2>1. \A g \in Halves : sent'[Entry(s, g)].exempt =>
            g = "first" /\ sent'[Entry(s, g)].qty <= basis[s]
    BY <1>1, <1>2, <1>5, <1>6 DEF TaskInv
  <2> QED
    BY <1>1, <1>3, <1>8, <2>1 DEF TaskInv
<1> QED
  BY <1>3, <1>4, <1>5, <1>7, <1>8, <1>9, <1>10, Zenon DEF TaskStep, OthersStay

LEMMA StandaloneStep ==
    ASSUME IInv, NEW s \in Callers, NEW r \in Requests, NEW seen \in Reads,
           NEW refused, Standalone(s, r, seen, refused)
    PROVE  TaskStep(s)
<1>1. /\ TaskTypeOK /\ TaskInv(s) /\ held \in Int /\ sent \in [Orders -> SentType]
      /\ verdict \in [Orders -> Verdicts]
  BY Typed
<1> DEFINE b == IF seen = Unreadable THEN 0 ELSE Size(seen)
<1>2. b \in Nat /\ r.qty \in Nat /\ r \in Requests \union {NoRequest}
  BY <1>1, ReadsType, RequestParts
<1>3. /\ pc[s] = "idle" /\ req' = [req EXCEPT ![s] = r] /\ pc' = [pc EXCEPT ![s] = "done"]
      /\ half' = [half EXCEPT ![s] = "first"] /\ basis' = [basis EXCEPT ![s] = b]
      /\ UNCHANGED <<plan, isExit, allowOpen, opens, peak, held, lied, faults>>
  BY DEF Standalone, Begin, Goto
<1>4. /\ \E outcome \in {"ok", "fail"} : Report(s, "first", outcome)
      /\ verdict' = verdict
      /\ \/ UNCHANGED trackerVars /\ sent' = sent
         \/ /\ PlaceLegs(s, "first", r, r.qty, {"entry"}, TRUE, refused, TRUE)
            /\ r.qty <= b
  BY DEF Standalone, Reduces, trackerVars
<1> HIDE DEF b
<1>5. /\ sent' \in [Orders -> SentType] /\ StatusStep
      /\ \A o \in Orders : o[1] # s \/ o[2] # "first" => sent'[o] = sent[o]
      /\ \/ sent'[Entry(s, "first")] = sent[Entry(s, "first")]
         \/ /\ sent'[Entry(s, "first")].qty = r.qty /\ sent'[Entry(s, "first")].exempt = TRUE
            /\ r.qty <= b
  <2>1. CASE UNCHANGED trackerVars /\ sent' = sent
    BY <1>1, <2>1, NoStatusStep
  <2>2. CASE PlaceLegs(s, "first", r, r.qty, {"entry"}, TRUE, refused, TRUE) /\ r.qty <= b
    <3>1. Placed(s, "first", r.qty, TRUE)
      BY <1>1, <1>2, <2>2, PlaceEffect DEF Halves, Legs
    <3> QED
      BY <2>2, <3>1, Zenon DEF Placed
  <2> QED
    BY <1>4, <2>1, <2>2
<1>6. /\ OpenedSet' \subseteq OpenedSet
      /\ \A u \in Callers, g \in Halves :
            u # s \/ g # "first" => sent'[Entry(u, g)] = sent[Entry(u, g)]
  BY <1>5, PlaceCounts DEF Halves
<1>7. TaskTypeOK'
  <2>1. result' \in [Callers -> [Halves -> {"none", "ok", "fail"}]]
    BY <1>4, ReportType DEF Halves
  <2> QED
    BY <1>1, <1>2, <1>3, <2>1 DEF TaskTypeOK, Pcs, Halves
<1>8. OthersStay(s) /\ pc'[s] = "done"
  BY <1>1, <1>3, <1>6 DEF OthersStay, TaskTypeOK
<1>9. Quiet
  BY <1>3, <1>6, <1>8, Gap DEF Quiet
<1>10. TaskInv(s)'
  <2>1. basis'[s] = b /\ half'[s] = "first" /\ ~isExit'[s]
    BY <1>1, <1>3 DEF TaskTypeOK, TaskInv
  <2>2. \A g \in Halves : sent'[Entry(s, g)].exempt =>
            g = "first" /\ sent'[Entry(s, g)].qty <= b
    BY <1>1, <1>2, <1>3, <1>5, <1>6 DEF TaskInv
  <2> QED
    BY <1>8, <2>1, <2>2 DEF TaskInv
<1> QED
  BY <1>1, <1>3, <1>4, <1>5, <1>7, <1>8, <1>9, <1>10, Zenon DEF TaskStep, OthersStay
LEMMA PlaceDirectStep ==
    ASSUME IInv, NEW s \in Callers, NEW refused, PlaceDirect(s, refused)
    PROVE  TaskStep(s)
<1>1. /\ TaskTypeOK /\ TaskInv(s) /\ sent \in [Orders -> SentType]
      /\ verdict \in [Orders -> Verdicts]
  BY Typed
<1>2. PICK h \in Halves, r \in Requests \union {NoRequest}, e \in BOOLEAN, qty \in Nat :
          /\ h = half[s] /\ r = req[s] /\ e = isExit[s]
          /\ qty = IF h = "second" \/ ~e THEN plan[s].open ELSE plan[s].reduce
  BY <1>1 DEF TaskTypeOK
<1>a. h \in Halves /\ r \in Requests \union {NoRequest} /\ e \in BOOLEAN /\ qty \in Nat
  BY <1>2, Zenon
<1>3. /\ pc[s] = "tier" /\ r.path = "direct"
      /\ UNCHANGED <<req, plan, allowOpen, basis, opens, verdict, held, lied, faults>>
      /\ \E cleaned : PlaceLegs(s, h, r, qty, {"entry"}, e, refused, cleaned)
  BY <1>2, Zenon DEF PlaceDirect
<1>4. /\ sent' \in [Orders -> SentType] /\ StatusStep
      /\ \A o \in Orders : o[1] # s \/ o[2] # h => sent'[o] = sent[o]
      /\ \/ sent'[Entry(s, h)] = sent[Entry(s, h)]
         \/ sent'[Entry(s, h)].qty = qty /\ sent'[Entry(s, h)].exempt = e
  <2>1. {"entry"} \in SUBSET Legs
    BY DEF Legs
  <2> QED
    <3>1. Placed(s, h, qty, e)
      BY <1>1, <1>a, <1>3, <2>1, PlaceEffect, Zenon
    <3> QED
      BY <3>1, Zenon DEF Placed
<1>5. /\ OpenedSet' \subseteq OpenedSet \union {Entry(s, h)} /\ Entry(s, h) \in Orders
      /\ e => OpenedSet' \subseteq OpenedSet
      /\ \A u \in Callers, g \in Halves :
            u # s \/ g # h => sent'[Entry(u, g)] = sent[Entry(u, g)]
  <2>1. Entry(s, h) \in Orders
    BY <1>a, SlotParts DEF Entry, Legs
  <2> QED
    BY <1>a, <1>4, <2>1, PlaceCounts
<1>6. \A g \in Halves : sent'[Entry(s, g)].exempt =>
          g = "first" /\ sent'[Entry(s, g)].qty <= basis[s]
  <2>1. CASE e
    BY <1>1, <1>2, <1>4, <1>5, <2>1 DEF TaskInv
  <2>2. CASE ~e
    BY <1>1, <1>2, <1>4, <1>5, <2>2 DEF TaskInv
  <2> QED
    BY <2>1, <2>2
<1>7. PICK outcome \in {"ok", "fail"} :
          \/ /\ h = "first" /\ IsFlip(plan[s])
             /\ half' = [half EXCEPT ![s] = "second"] /\ isExit' = [isExit EXCEPT ![s] = FALSE]
             /\ \/ EnterGap(s) /\ Opened < MaxRate /\ Report(s, h, outcome)
                \/ /\ pc' = [pc EXCEPT ![s] = "done"] /\ peak' = peak
                   /\ result' = [result EXCEPT ![s] = [first |-> outcome, second |-> "fail"]]
          \/ /\ pc' = [pc EXCEPT ![s] = "done"] /\ peak' = peak
             /\ Report(s, h, outcome) /\ UNCHANGED <<half, isExit>>
  <2> DEFINE out == IF refused = "entry" THEN "fail" ELSE "ok"
  <2>1. out \in {"ok", "fail"}
    OBVIOUS
  <2>2. CASE half[s] = "first" /\ IsFlip(plan[s]) /\ allowOpen[s]
    BY <1>2, <2>1, <2>2 DEF PlaceDirect, Goto, GatePasses
  <2>3. CASE ~(half[s] = "first" /\ IsFlip(plan[s]) /\ allowOpen[s])
    BY <1>2, <2>1, <2>3 DEF PlaceDirect, Goto
  <2> QED
    BY <2>2, <2>3
<1>8. /\ pc' \in [Callers -> Pcs] /\ pc'[s] \in {"tier", "done"}
      /\ \A u \in Callers : u # s => pc'[u] = pc[u]
  BY <1>1, <1>7 DEF EnterGap, TaskTypeOK, Pcs
<1>9. /\ half' \in [Callers -> Halves] /\ isExit' \in [Callers -> BOOLEAN]
      /\ \A u \in Callers : u # s => half'[u] = half[u] /\ isExit'[u] = isExit[u]
  BY <1>1, <1>7 DEF TaskTypeOK, Halves
<1>10. peak' \in Nat /\ result' \in [Callers -> [Halves -> {"none", "ok", "fail"}]]
  <2>1. CASE result' = [result EXCEPT ![s] = [first |-> outcome, second |-> "fail"]]
    <3>1. [first |-> outcome, second |-> "fail"] \in [Halves -> {"none", "ok", "fail"}]
      BY DEF Halves
    <3> QED
      BY <1>1, <1>7, <2>1, <3>1, PeakType DEF TaskTypeOK
  <2>2. CASE Report(s, h, outcome)
    BY <1>1, <1>7, <2>2, PeakType, ReportType DEF TaskTypeOK
  <2> QED
    BY <1>7, <2>1, <2>2
<1>11. TaskTypeOK'
  BY <1>1, <1>3, <1>8, <1>9, <1>10 DEF TaskTypeOK
<1>12. OthersStay(s)
  BY <1>3, <1>5, <1>8, <1>9 DEF OthersStay
<1>13. \/ pc'[s] = "tier" /\ half'[s] = "second" /\ ~isExit'[s]
       \/ pc'[s] = "done" /\ half'[s] = "second" /\ ~isExit'[s]
       \/ pc'[s] = "done" /\ half'[s] = half[s] /\ isExit'[s] = isExit[s]
  BY <1>1, <1>7 DEF TaskTypeOK, EnterGap
<1>14. TaskInv(s)'
  BY <1>1, <1>3, <1>6, <1>13 DEF TaskInv
<1>15. Quiet \/ Enters(s) \/ Spends(s)
  <2>1. CASE e /\ pc'[s] = "done"
    <3>1. peak' = peak
      BY <1>7, <1>1, <2>1 DEF EnterGap, TaskTypeOK
    <3> QED
      BY <1>5, <1>12, <2>1, <3>1, Gap DEF Quiet
  <2>2. CASE e /\ pc'[s] = "tier"
    <3>1. EnterGap(s) /\ Opened < MaxRate
      BY <1>7, <1>1, <2>2 DEF TaskTypeOK
    <3>2. Cardinality(InGap \union {s}) <= peak'
      BY <1>1, <3>1, Counts DEF EnterGap, TaskTypeOK
    <3> QED
      BY <1>5, <1>12, <2>2, <3>1, <3>2, Gap DEF Enters
  <2>3. CASE ~e
    <3>1. ~isExit[s]
      BY <1>2, <2>3, Zenon
    <3>2. s \in InGap
      BY <1>3, <3>1 DEF InGap
    <3>3. ~(half[s] = "first" /\ IsFlip(plan[s]))
      BY <1>1, <1>3, <3>1 DEF TaskInv, IsFlip
    <3>4. pc'[s] = "done" /\ peak' = peak
      BY <1>1, <1>2, <1>7, <3>3 DEF TaskTypeOK
    <3> QED
      BY <1>5, <1>12, <3>2, <3>4, Gap DEF Spends
  <2> QED
    BY <1>8, <2>1, <2>2, <2>3
<1> QED
  BY <1>3, <1>4, <1>1, <1>11, <1>12, <1>14, <1>15, Zenon DEF TaskStep, OthersStay
(* Each of the cancels after a rejected entry, whichever go through.       *)
LEMMA CancelStep ==
    ASSUME IInv, NEW S \in SUBSET Orders, Observe(AfterCancel(S))
    PROVE  StatusStep
<1>1. \A o \in S : AfterCancelRequest(o, sent[o].live) \in Statuses
  BY Typed DEF AfterCancelRequest, Statuses, Active
<1>2. AfterCancel(S) \in [S -> Statuses]
  BY <1>1 DEF AfterCancel
<1> QED
  BY <1>2 DEF StatusStep

LEMMA ResumeStep ==
    ASSUME IInv, NEW s \in Callers, Resume(s) PROVE TaskStep(s)
<1>1. /\ TaskTypeOK /\ TaskInv(s) /\ sent \in [Orders -> SentType]
      /\ verdict \in [Orders -> Verdicts]
  BY Typed
<1>2. PICK h \in Halves : h = half[s]
  BY <1>1 DEF TaskTypeOK
<1>3. /\ pc[s] = "confirm" /\ Forget(Entry(s, h))
      /\ UNCHANGED <<req, plan, allowOpen, basis, opens, held, sent, lied, faults>>
  BY <1>2 DEF Resume, brokerVars, Entry
<1>4. \/ /\ \E S \in SUBSET Orders : Observe(AfterCancel(S))
         /\ Report(s, h, "fail") /\ pc' = [pc EXCEPT ![s] = "done"] /\ UNCHANGED <<peak, half, isExit>>
      \/ /\ UNCHANGED <<status, recorded>> /\ Report(s, h, "ok")
         /\ pc' = [pc EXCEPT ![s] = "margin"] /\ peak' = peak
         /\ half' = [half EXCEPT ![s] = "second"] /\ isExit' = [isExit EXCEPT ![s] = FALSE]
      \/ /\ UNCHANGED <<status, recorded>> /\ Report(s, h, "ok")
         /\ pc' = [pc EXCEPT ![s] = "done"] /\ UNCHANGED <<peak, half, isExit>>
  <2>1. CASE verdict[Entry(s, h)] = "rejected"
    <3>1. \A S \in SUBSET OrdersOf(s, h) : S \in SUBSET Orders
      BY DEF OrdersOf
    <3> QED
      BY <1>2, <2>1, <3>1 DEF Resume, Goto, Entry
  <2>2. CASE verdict[Entry(s, h)] # "rejected"
    BY <1>2, <2>2 DEF Resume, Goto, Entry
  <2> QED
    BY <2>1, <2>2
<1>5. StatusStep
  BY <1>4, CancelStep DEF StatusStep
<1>6. verdict' \in [Orders -> Verdicts]
  BY <1>1, <1>3 DEF Forget, Verdicts
<1>7. result' \in [Callers -> [Halves -> {"none", "ok", "fail"}]]
  BY <1>4, ReportType
<1>8. /\ pc' \in [Callers -> Pcs] /\ half' \in [Callers -> Halves]
      /\ isExit' \in [Callers -> BOOLEAN] /\ peak' = peak
      /\ \A u \in Callers : u # s => pc'[u] = pc[u] /\ half'[u] = half[u] /\ isExit'[u] = isExit[u]
      /\ \/ pc'[s] = "margin" /\ half'[s] = "second" /\ ~isExit'[s]
         \/ pc'[s] = "done" /\ half'[s] = half[s] /\ isExit'[s] = isExit[s]
  BY <1>1, <1>4 DEF TaskTypeOK, Pcs, Halves
<1>9. TaskTypeOK'
  BY <1>1, <1>3, <1>7, <1>8 DEF TaskTypeOK
<1>10. OthersStay(s)
  BY <1>3, <1>8 DEF OthersStay
<1>11. TaskInv(s)'
  BY <1>1, <1>3, <1>8 DEF TaskInv
<1> QED
  BY <1>3, <1>5, <1>6, <1>8, <1>9, <1>10, <1>11, OutsideGap

LEMMA WaitTimeoutStep ==
    ASSUME IInv, NEW s \in Callers, WaitTimeout(s) PROVE TaskStep(s)
<1>1. /\ TaskTypeOK /\ TaskInv(s) /\ verdict \in [Orders -> Verdicts]
  BY Typed
<1>2. /\ pc[s] = "confirm" /\ UNCHANGED taskVars
      /\ UNCHANGED <<held, sent, lied, faults, status, recorded>>
  BY DEF WaitTimeout, Expire, brokerVars
<1>3. verdict' \in [Orders -> Verdicts]
  BY <1>1 DEF WaitTimeout, Expire, Verdicts
<1>4. TaskTypeOK' /\ OthersStay(s) /\ pc'[s] = "confirm" /\ StatusStep
  BY <1>1, <1>2 DEF TaskTypeOK, OthersStay, taskVars, StatusStep
<1>5. TaskInv(s)'
  BY <1>1, <1>2 DEF TaskInv, taskVars
<1> QED
  BY <1>2, <1>3, <1>4, <1>5, OutsideGap DEF taskVars
-----------------------------------------------------------------------------
(***************************************************************************)
(* The steps of the broker, the feed and the operator                      *)
(***************************************************************************)
LEMMA SettleType ==
    ASSUME IInv, NEW S \in SUBSET Orders, NEW news \in [S -> Statuses], OnTrade(news)
    PROVE  StatusStep /\ verdict' \in [Orders -> Verdicts]
<1>1. StatusStep
  BY DEF OnTrade, StatusStep
<1>2. verdict \in [Orders -> Verdicts]
  BY Typed
<1>3. \A st : Decisive(st) \in Verdicts
  BY DEF Decisive, Verdicts
<1> QED
  BY <1>1, <1>2, <1>3 DEF OnTrade, Settle

BrokerStep ==
    /\ UNCHANGED <<taskVars, sent>>
    /\ StatusStep /\ verdict' \in [Orders -> Verdicts]
    /\ held' \in Int /\ lied' \subseteq Orders /\ faults' \in 0 .. MaxFaults

LEMMA DisturbType ==
    ASSUME IInv, NEW kind, Disturb(kind) PROVE faults' \in 0 .. MaxFaults
BY LimitsAssumption DEF Disturb, IInv, TypeOK

LEMMA BrokerSteps == ASSUME IInv, Broker PROVE BrokerStep
<1>1. /\ held \in Int /\ lied \subseteq Orders /\ faults \in 0 .. MaxFaults
      /\ sent \in [Orders -> SentType]
  BY Typed DEF IInv, TypeOK
<1>2. ASSUME NEW o \in Orders, NEW st \in Statuses, Update(o, st)
      PROVE  StatusStep /\ verdict' \in [Orders -> Verdicts]
  BY <1>2, SettleType DEF Update
<1>3. {"Working", "Dead", "Filled"} \subseteq Statuses
  BY DEF Statuses
<1>4. ASSUME NEW o \in Orders, Accept(o) \/ Kill(o) PROVE BrokerStep
  BY <1>1, <1>2, <1>3, <1>4 DEF Accept, Kill, BrokerStep, brokerVars
<1>5. ASSUME NEW o \in Orders, Fill(o) PROVE BrokerStep
  <2>1. Signed(sent[o].side, sent[o].qty) \in Int
    BY <1>1 DEF Signed, SentType
  <2> QED
    BY <1>1, <1>2, <1>3, <1>5, <2>1 DEF Fill, BrokerStep
<1>6. ASSUME NEW o \in Orders, Lie(o) PROVE BrokerStep
  BY <1>1, <1>2, <1>3, <1>6, DisturbType DEF Lie, BrokerStep
<1>7. ASSUME NEW o \in Orders, Repeat(o) PROVE BrokerStep
  BY <1>1, <1>2, <1>3, <1>7, DisturbType DEF Repeat, BrokerStep
<1>8. ASSUME NEW S \in SUBSET Orders, Cancel(S) PROVE BrokerStep
  <2> DEFINE C == {o \in S : sent[o].qty > 0}
  <2>1. C \in SUBSET Orders
    OBVIOUS
  <2>2. \A o \in Orders : AfterCancelRequest(o, sent[o].live) \in Statuses
    BY Typed DEF AfterCancelRequest, Statuses, Active
  <2>3. AfterCancel(C) \in [C -> Statuses]
    BY <2>2 DEF AfterCancel
  <2>4. OnTrade(AfterCancel(C)) /\ UNCHANGED <<taskVars, held, sent, lied>> /\ Disturb("operator")
    BY <1>8 DEF Cancel
  <2> HIDE DEF C
  <2> QED
    BY <1>1, <2>1, <2>3, <2>4, SettleType, DisturbType DEF BrokerStep
<1> QED
  BY <1>4, <1>5, <1>6, <1>7, <1>8 DEF Broker, CancelOrder, CancelAll
-----------------------------------------------------------------------------
(***************************************************************************)
(* The invariant holds                                                     *)
(***************************************************************************)
LEMMA InitIInv == Init => IInv
<1> SUFFICES ASSUME Init PROVE IInv
  OBVIOUS
<1>1. TypeOK
  <2>1. TrackerTypeOK
    BY DEF Init, TrackerInit, TrackerTypeOK, Statuses, Verdicts
  <2>2. held \in Int /\ faults \in 0 .. MaxFaults /\ peak \in Nat /\ lied \subseteq Orders
    BY PositionsAssumption, LimitsAssumption DEF Init
  <2>3. sent \in [Orders -> [side : Sides, qty : Nat, exempt : BOOLEAN, live : BOOLEAN]]
    BY DEF Init, NotSent, Sides
  <2> QED
    BY <2>1, <2>2, <2>3 DEF Init, TypeOK, Pcs, Halves, NoPlan
<1>2. FillIsRecorded
  BY DEF Init, TrackerInit, FillIsRecorded, OutcomeLogs, Dead
<1>3. ASSUME NEW s \in Callers PROVE TaskInv(s)
  <2>1. \A h \in Halves : sent[Entry(s, h)].exempt = FALSE
    BY SlotParts DEF Init, NotSent, Entry, Legs
  <2> QED
    BY <2>1 DEF Init, TaskInv
<1> QED
  BY <1>1, <1>2, <1>3 DEF IInv

LEMMA SmallTypes ==
    ASSUME TaskTypeOK', sent' \in [Orders -> SentType], verdict' \in [Orders -> Verdicts],
           status' \in [Orders -> Statuses],
           recorded' \in [Orders -> Seq({"filled", "dead"})],
           held' \in Int, lied' \subseteq Orders, faults' \in 0 .. MaxFaults
    PROVE  TypeOK'
BY DEF TaskTypeOK, SentType, TypeOK, TrackerTypeOK

LEMMA StatusKept ==
    ASSUME IInv, StatusStep
    PROVE  /\ status' \in [Orders -> Statuses]
           /\ recorded' \in [Orders -> Seq({"filled", "dead"})]
           /\ FillIsRecorded'
BY StatusStepType DEF IInv, TypeOK, TrackerTypeOK

LEMMA TaskKeeps == ASSUME IInv, NEW s \in Callers, TaskStep(s) PROVE IInv'
<1>1. TypeOK'
  <2>1. held' \in Int /\ lied' \subseteq Orders /\ faults' \in 0 .. MaxFaults
    BY DEF TaskStep, IInv, TypeOK
  <2> QED
    BY <2>1, StatusKept, SmallTypes DEF TaskStep
<1>2. ASSUME NEW u \in Callers, u # s PROVE TaskInv(u)'
  <2>1. TaskInv(u)
    BY DEF IInv
  <2>2. /\ pc'[u] = pc[u] /\ req'[u] = req[u] /\ half'[u] = half[u]
        /\ plan'[u] = plan[u] /\ isExit'[u] = isExit[u] /\ basis'[u] = basis[u]
        /\ \A h \in Halves : sent'[Entry(u, h)] = sent[Entry(u, h)]
    BY <1>2 DEF TaskStep
  <2> QED
    BY <2>1, <2>2 DEF TaskInv
<1>3. TaskInv(s)' /\ StatusStep
  BY DEF TaskStep
<1> QED
  BY <1>1, <1>2, <1>3, StatusKept DEF IInv

LEMMA BrokerKeeps == ASSUME IInv, BrokerStep PROVE IInv'
<1>1. TaskTypeOK' /\ sent' \in [Orders -> SentType]
  BY Typed DEF BrokerStep, taskVars, TaskTypeOK
<1>2. TypeOK'
  BY <1>1, StatusKept, SmallTypes DEF BrokerStep
<1>3. ASSUME NEW s \in Callers PROVE TaskInv(s)'
  BY Typed DEF BrokerStep, taskVars, TaskInv
<1> QED
  BY <1>2, <1>3, StatusKept DEF BrokerStep, IInv

(* Every step is one of a request's task, or the broker's, or none.        *)
LEMMA Steps ==
    ASSUME IInv, [Next]_vars
    PROVE  (\E s \in Callers : TaskStep(s)) \/ BrokerStep
<1>1. ASSUME NEW s \in Callers, Arrive(s) PROVE TaskStep(s)
  <2>1. PICK r \in Requests, seen \in Reads :
          \/ ProposalOpen(s, r, seen)
          \/ DirectOrder(s, r, seen)
          \/ \E refused \in RefusedAt, cleaned \in BOOLEAN : ProposalExit(s, r, seen, refused, cleaned)
          \/ \E refused \in RefusedAt : Standalone(s, r, seen, refused)
    BY <1>1, Zenon DEF Arrive
  <2> QED
    BY <2>1, ProposalOpenStep, DirectOrderStep, ProposalExitStep, StandaloneStep, Zenon
<1>2. ASSUME NEW s \in Callers, Work(s) PROVE TaskStep(s)
  BY <1>2, GatherInputsStep, EvaluateStep, GiveUpStep, DirectQuoteStep, PlaceOpenStep,
     PlaceDirectStep, Zenon DEF Work
<1>3. ASSUME NEW s \in Callers, Wait(s) PROVE TaskStep(s)
  BY <1>3, ResumeStep, WaitTimeoutStep, Zenon DEF Wait
<1>4. CASE UNCHANGED vars
  BY <1>4, Typed DEF vars, taskVars, brokerVars, trackerVars, BrokerStep, StatusStep, IInv, TypeOK
<1> QED
  BY <1>1, <1>2, <1>3, <1>4, BrokerSteps, Zenon DEF Next

LEMMA StepIInv == IInv /\ [Next]_vars => IInv'
BY Steps, TaskKeeps, BrokerKeeps

(* Type correctness for any requests, limits and faults.                   *)
THEOREM TypeCorrect == Spec => []TypeOK
<1>1. IInv => TypeOK
  BY DEF IInv
<1> QED
  BY <1>1, InitIInv, StepIInv, PTL DEF Spec

(* The order tracker's record of an order ends with its fill if the broker *)
(* ever reported one last, whatever Cancelled came before or after.        *)
THEOREM FillRecorded == Spec => []FillIsRecorded
<1>1. IInv => FillIsRecorded
  BY DEF IInv
<1> QED
  BY <1>1, InitIInv, StepIInv, PTL DEF Spec

(* What split_for_order lets past the gates is a first half no larger than *)
(* the position that order was classified against.                         *)
THEOREM ExemptBounded == Spec => []ExemptWithinPosition
<1>1. IInv => ExemptWithinPosition
  BY DEF IInv, TaskInv, ExemptWithinPosition, Entry
<1> QED
  BY <1>1, InitIInv, StepIInv, PTL DEF Spec
-----------------------------------------------------------------------------
(***************************************************************************)
(* The overshoot of the rate limit                                         *)
(***************************************************************************)
(* An order that opened has left the gap and a request in the gap may open *)
(* one more: together they exceed what the limit allows before its last    *)
(* order by no more than the gap has ever held.                            *)
RateInv ==
    \/ Opened + Cardinality(InGap) <= MaxRate - 1 + peak
    \/ OpenedSet = {} /\ InGap = {}

LEMMA Finite ==
    /\ IsFiniteSet(OpenedSet) /\ IsFiniteSet(InGap)
    /\ Opened = Cardinality(OpenedSet) /\ Opened \in Nat /\ Cardinality(InGap) \in Nat
<1>1. OpenedSet \in SUBSET Orders /\ InGap \in SUBSET Callers
  BY DEF OpenedSet, InGap
<1> QED
  BY <1>1, Counts, CallersAssumption, FS_Subset, FS_CardinalityType DEF Opened, OpenedSet

LEMMA RateStep ==
    ASSUME IInv, RateInv, [Next]_vars PROVE RateInv'
<1> DEFINE A == OpenedSet
           B == InGap
           n == Opened
           N == Opened'
<1>1. /\ IsFiniteSet(A) /\ IsFiniteSet(B) /\ IsFiniteSet(A') /\ IsFiniteSet(B')
      /\ Opened = Cardinality(A) /\ Opened' = Cardinality(A')
      /\ Cardinality(A) \in Nat /\ Cardinality(B) \in Nat
      /\ Cardinality(A') \in Nat /\ Cardinality(B') \in Nat
  BY Finite, FS_CardinalityType, Counts, CallersAssumption, FS_Subset
     DEF OpenedSet, InGap, Opened
<1>2. peak \in Nat /\ MaxRate \in Nat
  BY Typed, LimitsAssumption DEF TaskTypeOK
<1>3. CASE Quiet
  <2>1. Cardinality(A') <= Cardinality(A) /\ Cardinality(B') <= Cardinality(B)
    BY <1>1, <1>3, FS_Subset DEF Quiet
  <2> QED
    BY <1>1, <1>2, <1>3, <2>1 DEF Quiet, RateInv
<1>4. ASSUME NEW s \in Callers, Enters(s) PROVE RateInv'
  <2>1. IsFiniteSet(B \union {s}) /\ Cardinality(B \union {s}) \in Nat
    BY <1>1, FS_AddElement, FS_CardinalityType
  <2>2. Cardinality(A') <= Cardinality(A) /\ Cardinality(B') <= Cardinality(B \union {s})
    BY <1>1, <1>4, <2>1, FS_Subset DEF Enters
  <2>3. peak' \in Nat
    BY StepIInv, <1>2 DEF IInv, TypeOK
  <2> QED
    BY <1>1, <1>2, <1>4, <2>1, <2>2, <2>3 DEF Enters, RateInv
<1>5. ASSUME NEW s \in Callers, Spends(s) PROVE RateInv'
  <2>1. PICK o \in Orders : A' \subseteq A \union {o}
    BY <1>5 DEF Spends
  <2>2. IsFiniteSet(A \union {o}) /\ Cardinality(A \union {o}) <= Cardinality(A) + 1
    BY <1>1, FS_AddElement
  <2>3. IsFiniteSet(B \ {s}) /\ Cardinality(B \ {s}) = Cardinality(B) - 1
    BY <1>1, <1>5, FS_RemoveElement DEF Spends
  <2>4. Cardinality(A \union {o}) \in Nat
    BY <2>2, FS_CardinalityType
  <2>5. Cardinality(A') <= Cardinality(A) + 1 /\ Cardinality(B') <= Cardinality(B) - 1
    <3>1. Cardinality(A') <= Cardinality(A \union {o})
      BY <2>1, <2>2, FS_Subset
    <3>2. Cardinality(B') <= Cardinality(B \ {s})
      BY <1>5, <2>3, FS_Subset DEF Spends
    <3> QED
      BY <1>1, <2>2, <2>3, <2>4, <3>1, <3>2
  <2>6. B # {}
    BY <1>5 DEF Spends
  <2> QED
    BY <1>1, <1>2, <1>5, <2>5, <2>6 DEF Spends, RateInv
<1>6. CASE BrokerStep
  BY <1>3, <1>6 DEF BrokerStep, taskVars, Quiet, OpenedSet, InGap
<1> QED
  BY <1>3, <1>4, <1>5, <1>6, Steps DEF TaskStep

(* However many requests are between gate and placement, the limit on      *)
(* submissions is exceeded by at most their number less one.               *)
THEOREM OvershootBounded == Spec => []RateOvershootBounded
<1>1. Init => RateInv
  BY DEF Init, RateInv, OpenedSet, InGap, NotSent
<1>2. IInv /\ RateInv => RateOvershootBounded
  <2>1. IInv => peak \in Nat /\ MaxRate \in Nat
    BY LimitsAssumption DEF IInv, TypeOK
  <2> QED
    BY <2>1, Finite, FS_EmptySet DEF RateInv, RateOvershootBounded
<1>3. IInv /\ RateInv /\ [Next]_vars => IInv' /\ RateInv'
  BY StepIInv, RateStep
<1> QED
  BY <1>1, <1>2, <1>3, InitIInv, PTL DEF Spec
-----------------------------------------------------------------------------
(***************************************************************************)
(* All legs or none, and failed halves                                     *)
(***************************************************************************)
FilledLogs == {<<"filled">>, <<"dead", "filled">>}
DiedLogs   == {<<"dead">>, <<"dead", "filled">>}

(* An order that filled was transmitted, a child on its parent's fill; an  *)
(* order whose verdict is awaited has no outcome yet, and one whose verdict*)
(* was a rejection is on record as dead.                                   *)
OrderInv(o) ==
    /\ recorded[o] \in FilledLogs => Transmitted(o)
    /\ IsChild(o) => verdict[o] = "none" /\ (recorded[o] \in FilledLogs => recorded[Parent(o)] \in FilledLogs)
    /\ verdict[o] = "pending" => recorded[o] = <<>>
    /\ verdict[o] = "rejected" => recorded[o] \in DiedLogs

(* The half a request will place next, and the remainder of a flip until   *)
(* then, have no orders and no result.                                     *)
Unplaced(s, h) ==
    \/ pc[s] \in {"idle", "quote", "margin", "value", "tier"} /\ h = half[s]
    \/ pc[s] # "done" /\ half[s] = "first" /\ h = "second"

Fresh(s, h) ==
    /\ result[s][h] = "none"
    /\ \A l \in Legs : /\ sent[<<s, h, l>>].qty = 0
                        /\ recorded[<<s, h, l>>] = <<>>
                        /\ verdict[<<s, h, l>>] = "none"

StopDue(s, h) == "stop" \in LegsOf(req[s], h = "first" /\ IsFlip(plan[s]))

(* The legs of a half were transmitted together; a transmitted half has its*)
(* stop, and if it was reported failed its entry had been reported dead.   *)
HalfInv(s, h) ==
    /\ \A l, m \in Legs : sent[<<s, h, l>>].qty > 0 /\ sent[<<s, h, m>>].qty > 0
          => sent[<<s, h, l>>].live = sent[<<s, h, m>>].live
    /\ \A l \in Legs : Transmitted(<<s, h, l>>) =>
          /\ StopDue(s, h) => sent[<<s, h, "stop">>].qty > 0
          /\ result[s][h] = "fail" => recorded[Entry(s, h)] \in DiedLogs
    /\ Unplaced(s, h) => Fresh(s, h)

PartInv(s, h) == HalfInv(s, h) /\ \A l \in Legs : OrderInv(<<s, h, l>>)

HalvesInv == \A s \in Callers, h \in Halves : PartInv(s, h)

LEMMA RecordSteps ==
    ASSUME NEW log \in OutcomeLogs, NEW st \in Statuses
    PROVE  /\ log \in FilledLogs => Record(log, st) \in FilledLogs
           /\ log \in DiedLogs => Record(log, st) \in DiedLogs
           /\ st # "Filled" /\ log \notin FilledLogs => Record(log, st) \notin FilledLogs
           /\ st = "Dead" /\ log = <<>> => Record(log, st) \in DiedLogs
           /\ st \notin {"Filled", "Dead"} => Record(log, st) = log
BY RecordValues DEF OutcomeLogs, FilledLogs, DiedLogs

LEMMA LegOrders ==
    ASSUME NEW s \in Callers, NEW h \in Halves, NEW l \in Legs
    PROVE  /\ <<s, h, l>> \in Orders
           /\ Parent(<<s, h, l>>) = Entry(s, h) /\ IsChild(<<s, h, l>>) = (l # "entry")
           /\ Entry(s, h) \in Orders /\ Entry(s, h) = <<s, h, "entry">>
BY SlotParts DEF Parent, Entry, IsChild, Legs

(* The four logs and what the properties ask of them.                      *)
LEMMA Logs ==
    ASSUME NEW log \in OutcomeLogs
    PROVE  /\ log # <<>> /\ log[Len(log)] = "filled" <=> log \in FilledLogs
           /\ log \in FilledLogs /\ log \in DiedLogs => log = <<"dead", "filled">>
BY DEF OutcomeLogs, FilledLogs, DiedLogs

SameHalf(s, h) ==
    \A l \in Legs : /\ sent'[<<s, h, l>>] = sent[<<s, h, l>>]
                    /\ recorded'[<<s, h, l>>] = recorded[<<s, h, l>>]
                    /\ verdict'[<<s, h, l>>] = verdict[<<s, h, l>>]

(* A step that leaves the orders of a half alone.                          *)
LEMMA PartKept ==
    ASSUME NEW s \in Callers, NEW h \in Halves, PartInv(s, h), SameHalf(s, h),
           result'[s][h] = result[s][h] \/ Fresh(s, h),
           (req'[s] = req[s] /\ plan'[s] = plan[s]) \/ Fresh(s, h),
           Unplaced(s, h)' => Fresh(s, h) /\ result'[s][h] = "none"
    PROVE  PartInv(s, h)'
<1>1. ASSUME NEW l \in Legs PROVE OrderInv(<<s, h, l>>)'
  BY LegOrders DEF PartInv, SameHalf, OrderInv, Transmitted, Legs, IsChild, Parent
<1>2. HalfInv(s, h)'
  <2>1. CASE Fresh(s, h)
    BY <2>1 DEF HalfInv, SameHalf, Fresh, Transmitted
  <2>2. CASE ~Fresh(s, h)
    <3>1. StopDue(s, h)' <=> StopDue(s, h)
      BY <2>2 DEF StopDue
    <3>2. recorded'[Entry(s, h)] = recorded[Entry(s, h)]
      BY DEF SameHalf, Entry, Legs
    <3>3. sent'[<<s, h, "stop">>] = sent[<<s, h, "stop">>]
      BY DEF SameHalf, Legs
    <3> QED
      BY <2>2, <3>1, <3>2, <3>3 DEF PartInv, HalfInv, SameHalf, Transmitted
  <2> QED
    BY <2>1, <2>2
<1> QED
  BY <1>1, <1>2 DEF PartInv

(* A placement of an unplaced half.                                        *)
LEMMA PartPlaced ==
    ASSUME IInv, NEW s \in Callers, NEW h \in Halves, Fresh(s, h),
           NEW r \in Requests \union {NoRequest}, NEW qty \in Nat, NEW legs \in SUBSET Legs,
           NEW exempt \in BOOLEAN, NEW refused, NEW cleaned,
           PlaceLegs(s, h, r, qty, legs, exempt, refused, cleaned),
           \/ verdict' = verdict
           \/ refused \notin legs /\ Await(Entry(s, h)),
           ~Unplaced(s, h)', StopDue(s, h)' => "stop" \in legs,
           result'[s][h] = "fail" => refused \in legs
    PROVE  PartInv(s, h)'
<1> DEFINE kept == IF refused \in legs THEN legs \cap Before(refused) ELSE legs
           placed == {<<s, h, l>> : l \in kept}
           news == [o \in placed |-> IF refused \in legs /\ cleaned THEN "Dead" ELSE "Pending"]
           new(o) == [side |-> IF o[3] = "entry" THEN r.side ELSE Opposite(r.side),
                      qty |-> qty, exempt |-> exempt \/ o[3] # "entry",
                      live |-> Transmits(legs, refused)]
<1>1. /\ sent' = [o \in Orders |-> IF o \in placed THEN new(o) ELSE sent[o]]
      /\ Observe(news)
  BY Zenon DEF PlaceLegs
<1>2. \A l \in Legs : <<s, h, l>> \in placed <=> l \in kept
  BY DEF Legs
<1>3. ASSUME NEW l \in Legs
      PROVE  /\ l \in kept => /\ sent'[<<s, h, l>>].qty = qty
                              /\ sent'[<<s, h, l>>].live = (refused \notin legs)
             /\ l \notin kept => sent'[<<s, h, l>>].qty = 0
             /\ recorded'[<<s, h, l>>] \in {<<>>, <<"dead">>}
             /\ refused \notin legs => recorded'[<<s, h, l>>] = <<>>
  <2>1. <<s, h, l>> \in Orders
    BY LegOrders
  <2>2. sent[<<s, h, l>>].qty = 0 /\ recorded[<<s, h, l>>] = <<>>
    BY DEF Fresh
  <2>3. CASE l \in kept
    <3>1. <<s, h, l>> \in placed /\ sent'[<<s, h, l>>] = new(<<s, h, l>>)
      BY <1>1, <1>2, <2>1, <2>3
    <3>2. sent'[<<s, h, l>>].qty = qty /\ sent'[<<s, h, l>>].live = (refused \notin legs)
      BY <3>1 DEF Transmits
    <3>3. recorded'[<<s, h, l>>] = Record(<<>>, news[<<s, h, l>>])
      BY <1>1, <2>1, <2>2, <3>1 DEF Observe
    <3>4. news[<<s, h, l>>] = IF refused \in legs /\ cleaned THEN "Dead" ELSE "Pending"
      BY <3>1
    <3>5. <<>> \in OutcomeLogs /\ {"Dead", "Pending"} \subseteq Statuses
      BY DEF OutcomeLogs, Statuses
    <3> HIDE DEF news, placed, new
    <3> QED
      BY <2>3, <3>2, <3>3, <3>4, <3>5, RecordValues
  <2>4. CASE l \notin kept
    <3>1. sent'[<<s, h, l>>] = sent[<<s, h, l>>] /\ recorded'[<<s, h, l>>] = recorded[<<s, h, l>>]
      BY <1>1, <1>2, <2>1, <2>4 DEF Observe
    <3> QED
      BY <2>2, <2>4, <3>1
  <2> QED
    BY <2>3, <2>4
<1>4. ASSUME NEW l \in Legs
      PROVE  /\ verdict'[<<s, h, l>>] \in {"none", "pending"}
             /\ l # "entry" => verdict'[<<s, h, l>>] = "none"
             /\ verdict'[<<s, h, l>>] = "pending" => refused \notin legs
  <2>1. verdict \in [Orders -> Verdicts] /\ <<s, h, l>> \in Orders
        /\ verdict[<<s, h, l>>] = "none"
    BY Typed, LegOrders DEF Fresh
  <2>2. <<s, h, l>> = Entry(s, h) => l = "entry"
    BY DEF Entry
  <2> QED
    BY <2>1, <2>2 DEF Await
<1>5. refused \notin legs => kept = legs
  OBVIOUS
<1> HIDE DEF kept, placed, news, new
<1>6. ASSUME NEW l \in Legs PROVE OrderInv(<<s, h, l>>)'
  <2>1. recorded'[<<s, h, l>>] \notin FilledLogs
    <3>1. <<>> \notin FilledLogs /\ <<"dead">> \notin FilledLogs
      BY DEF FilledLogs
    <3> QED
      BY <1>3, <3>1
  <2> QED
    BY <1>3, <1>4, <2>1, LegOrders DEF OrderInv
<1>7. HalfInv(s, h)'
  <2>1. ASSUME NEW l \in Legs, Transmitted(<<s, h, l>>)'
        PROVE  /\ refused \notin legs
               /\ StopDue(s, h)' => sent'[<<s, h, "stop">>].qty > 0
    <3>1. l \in kept /\ refused \notin legs /\ qty > 0
      <4>1. sent'[<<s, h, l>>].qty > 0 /\ sent'[<<s, h, l>>].live
        BY <2>1 DEF Transmitted
      <4>2. l \in kept
        BY <1>3, <4>1
      <4> QED
        BY <1>3, <4>1, <4>2, Zenon
    <3>2. "stop" \in legs => sent'[<<s, h, "stop">>].qty = qty
      BY <1>3, <1>5, <3>1 DEF Legs
    <3> QED
      BY <3>1, <3>2
  <2>2. \A l, m \in Legs : sent'[<<s, h, l>>].qty > 0 /\ sent'[<<s, h, m>>].qty > 0
          => sent'[<<s, h, l>>].live = sent'[<<s, h, m>>].live
    BY <1>3
  <2> QED
    BY <2>1, <2>2 DEF HalfInv
<1> QED
  BY <1>6, <1>7 DEF PartInv

(* A status update of orders that were placed, for a half whose place in   *)
(* the request does not change.                                            *)
LEMMA PartObserved ==
    ASSUME IInv, NEW s \in Callers, NEW h \in Halves, PartInv(s, h), sent' = sent,
           NEW S \in SUBSET Orders, NEW news \in [S -> Statuses], Observe(news),
           \A o \in S : sent[o].qty > 0,
           \A o \in S : news[o] = "Filled" => recorded[o] \in FilledLogs \/ MayFill(o),
           \/ Settle(news)
           \/ verdict' = [verdict EXCEPT ![Entry(s, h)] = "none"],
           req'[s] = req[s] /\ plan'[s] = plan[s],
           result'[s][h] = "fail" => result[s][h] = "fail" \/ recorded[Entry(s, h)] \in DiedLogs,
           Unplaced(s, h)' => Unplaced(s, h) /\ result'[s][h] = result[s][h]
    PROVE  PartInv(s, h)'
<1>1. ASSUME NEW o \in Orders
      PROVE  /\ recorded[o] \in OutcomeLogs
             /\ recorded'[o] = IF o \in S THEN Record(recorded[o], news[o]) ELSE recorded[o]
             /\ o \in S => news[o] \in Statuses
  <2>1. DOMAIN news = S
    OBVIOUS
  <2> QED
    BY <2>1 DEF Observe, IInv, FillIsRecorded
<1>2. ASSUME NEW o \in Orders
      PROVE  /\ recorded[o] \in FilledLogs => recorded'[o] \in FilledLogs
             /\ recorded[o] \in DiedLogs => recorded'[o] \in DiedLogs
             /\ sent[o].qty = 0 => recorded'[o] = recorded[o]
  BY <1>1, RecordSteps
<1>3. ASSUME NEW o \in Orders, recorded'[o] \in FilledLogs, recorded[o] \notin FilledLogs
      PROVE  MayFill(o)
  BY <1>1, <1>3, RecordSteps
<1>4. ASSUME NEW l \in Legs
      PROVE  \/ verdict'[<<s, h, l>>] = "none"
             \/ /\ verdict'[<<s, h, l>>] = verdict[<<s, h, l>>]
                /\ <<s, h, l>> \notin S \/ verdict[<<s, h, l>>] # "pending"
             \/ /\ <<s, h, l>> \in S /\ verdict[<<s, h, l>>] = "pending"
                /\ verdict'[<<s, h, l>>] = Decisive(news[<<s, h, l>>])
  <2>1. verdict \in [Orders -> Verdicts] /\ <<s, h, l>> \in Orders /\ DOMAIN news = S
    BY Typed, LegOrders
  <2>2. CASE Settle(news)
    BY <2>1, <2>2 DEF Settle
  <2>3. CASE verdict' = [verdict EXCEPT ![Entry(s, h)] = "none"]
    <3>1. CASE l = "entry"
      BY <2>1, <2>3, <3>1 DEF Entry
    <3>2. CASE l # "entry"
      <4>1. verdict'[<<s, h, l>>] = verdict[<<s, h, l>>] /\ verdict[<<s, h, l>>] = "none"
        BY <2>1, <2>3, <3>2, LegOrders DEF Entry, PartInv, OrderInv
      <4> QED
        BY <4>1
    <3> QED
      BY <3>1, <3>2
  <2> QED
    BY <2>2, <2>3
<1>5. ASSUME NEW l \in Legs PROVE OrderInv(<<s, h, l>>)'
  <2>1. PICK o \in Orders : o = <<s, h, l>>
    BY LegOrders
  <2>2. OrderInv(o) /\ Parent(o) \in Orders
    BY <2>1, LegOrders DEF PartInv
  <2>3. recorded'[o] \in FilledLogs => Transmitted(o)'
    BY <1>3, <2>2 DEF OrderInv, MayFill, Transmitted
  <2>4. IsChild(o) => verdict'[o] = "none"
    BY <1>4, <2>1, <2>2 DEF OrderInv
  <2>5. ASSUME IsChild(o), recorded'[o] \in FilledLogs PROVE recorded'[Parent(o)] \in FilledLogs
    <3>1. CASE recorded[o] \in FilledLogs
      BY <1>2, <2>2, <2>5, <3>1 DEF OrderInv
    <3>2. CASE recorded[o] \notin FilledLogs
      BY <1>1, <1>2, <1>3, <2>2, <2>5, <3>2, Logs DEF MayFill
    <3> QED
      BY <3>1, <3>2
  <2>6. verdict'[o] = "pending" => recorded'[o] = <<>>
    <3>1. Decisive("Filled") = "filled" /\ Decisive("Dead") = "rejected"
      BY DEF Decisive, Accepted, Dead
    <3> QED
      BY <1>1, <1>4, <2>1, <2>2, <3>1, RecordSteps DEF OrderInv
  <2>7. verdict'[o] = "rejected" => recorded'[o] \in DiedLogs
    <3>1. \A st \in Statuses : Decisive(st) = "rejected" => st = "Dead"
      BY DEF Decisive, Accepted, Dead
    <3> QED
      BY <1>1, <1>2, <1>4, <2>1, <2>2, <3>1, RecordSteps DEF OrderInv
  <2>8. OrderInv(o)'
    BY <2>3, <2>4, <2>5, <2>6, <2>7 DEF OrderInv
  <2> QED
    BY <2>1, <2>8
<1>6. HalfInv(s, h)'
  <2>1. StopDue(s, h)' <=> StopDue(s, h)
    BY DEF StopDue
  <2>2. \A l \in Legs : Transmitted(<<s, h, l>>)' <=> Transmitted(<<s, h, l>>)
    BY DEF Transmitted
  <2>3. recorded[Entry(s, h)] \in DiedLogs => recorded'[Entry(s, h)] \in DiedLogs
    BY <1>2, LegOrders DEF Legs
  <2>4. ASSUME Unplaced(s, h)' PROVE Fresh(s, h)'
    <3>1. Fresh(s, h) /\ result'[s][h] = "none"
      BY <2>4 DEF PartInv, HalfInv, Fresh
    <3>2. ASSUME NEW l \in Legs
          PROVE  recorded'[<<s, h, l>>] = <<>> /\ verdict'[<<s, h, l>>] = "none"
      BY <1>2, <1>4, <3>1, LegOrders DEF Fresh
    <3> QED
      BY <3>1, <3>2 DEF Fresh
  <2> QED
    BY <2>1, <2>2, <2>3, <2>4 DEF PartInv, HalfInv
<1> QED
  BY <1>5, <1>6 DEF PartInv

(* The steps of one request leave the others alone.                        *)
Frame(s) ==
    \A u \in Callers : u # s =>
        /\ pc'[u] = pc[u] /\ req'[u] = req[u] /\ half'[u] = half[u]
        /\ plan'[u] = plan[u] /\ result'[u] = result[u]
        /\ \A h \in Halves : SameHalf(u, h)

LEMMA OneRequest ==
    ASSUME HalvesInv, NEW s \in Callers, Frame(s), \A h \in Halves : PartInv(s, h)'
    PROVE  HalvesInv'
<1>1. ASSUME NEW u \in Callers, u # s, NEW h \in Halves PROVE PartInv(u, h)'
  <2>1. PartInv(u, h)
    BY DEF HalvesInv
  <2>2. /\ pc'[u] = pc[u] /\ req'[u] = req[u] /\ half'[u] = half[u]
        /\ plan'[u] = plan[u] /\ result'[u] = result[u] /\ SameHalf(u, h)
    BY <1>1 DEF Frame
  <2>3. Unplaced(u, h)' => Fresh(u, h) /\ result'[u][h] = "none"
    BY <2>1, <2>2 DEF Unplaced, PartInv, HalfInv, Fresh
  <2> QED
    BY <2>1, <2>2, <2>3, PartKept
<1> QED
  BY <1>1 DEF HalvesInv

(* Before a request has classified its first half it has placed nothing;   *)
(* what it works on before a placement is fresh, and so is the remainder.  *)
LEMMA FreshHalves ==
    ASSUME IInv, HalvesInv, NEW s \in Callers
    PROVE  /\ half[s] \in Halves
           /\ pc[s] \in {"idle", "quote"} => \A h \in Halves : Fresh(s, h)
           /\ pc[s] \in {"margin", "value", "tier"} => Fresh(s, half[s])
           /\ pc[s] # "done" /\ half[s] = "first" => Fresh(s, "second")
<1>1. half[s] \in Halves /\ TaskInv(s)
  BY Typed DEF TaskTypeOK
<1>2. \A h \in Halves : Unplaced(s, h) => Fresh(s, h)
  BY DEF HalvesInv, PartInv, HalfInv
<1> QED
  BY <1>1, <1>2 DEF Unplaced, TaskInv, Halves

LEMMA ReportValue ==
    ASSUME IInv, NEW s \in Callers, NEW h \in Halves, NEW outcome, Report(s, h, outcome)
    PROVE  /\ \A u \in Callers : u # s => result'[u] = result[u]
           /\ result'[s][h] = outcome
           /\ \A g \in Halves : g # h => result'[s][g] = result[s][g]
<1>1. result \in [Callers -> [Halves -> {"none", "ok", "fail"}]]
  BY Typed DEF TaskTypeOK
<1>2. result' = [result EXCEPT ![s] = [result[s] EXCEPT ![h] = outcome]]
  BY DEF Report
<1>3. result[s] \in [Halves -> {"none", "ok", "fail"}]
  BY <1>1
<1>4. result'[s] = [result[s] EXCEPT ![h] = outcome]
  BY <1>1, <1>2
<1> QED
  BY <1>1, <1>2, <1>3, <1>4

(* The steps that place nothing and observe nothing.                       *)
LEMMA NoOrders ==
    ASSUME IInv, HalvesInv, NEW s \in Callers, UNCHANGED <<sent, trackerVars>>,
           \A u \in Callers : u # s =>
               /\ pc'[u] = pc[u] /\ req'[u] = req[u] /\ half'[u] = half[u]
               /\ plan'[u] = plan[u] /\ result'[u] = result[u],
           \A h \in Halves :
               /\ result'[s][h] = result[s][h] \/ Fresh(s, h)
               /\ (req'[s] = req[s] /\ plan'[s] = plan[s]) \/ Fresh(s, h)
               /\ Unplaced(s, h)' => Fresh(s, h) /\ result'[s][h] = "none"
    PROVE  HalvesInv'
<1>1. \A u \in Callers, h \in Halves : SameHalf(u, h)
  BY DEF SameHalf, trackerVars
<1>2. Frame(s)
  BY <1>1 DEF Frame
<1>3. \A h \in Halves : PartInv(s, h)'
  BY <1>1, PartKept DEF HalvesInv
<1> QED
  BY <1>2, <1>3, OneRequest

LEMMA StartHalves ==
    ASSUME IInv, HalvesInv, NEW s \in Callers, pc[s] \in {"idle", "quote"},
           UNCHANGED <<sent, trackerVars>>,
           \A u \in Callers : u # s =>
               /\ pc'[u] = pc[u] /\ req'[u] = req[u] /\ half'[u] = half[u] /\ plan'[u] = plan[u],
           \/ result' = result
           \/ pc'[s] = "done" /\ \E h \in Halves, outcome \in {"ok", "fail"} : Report(s, h, outcome)
    PROVE  HalvesInv'
<1>1. \A h \in Halves : Fresh(s, h)
  BY FreshHalves
<1>2. \A u \in Callers : u # s => result'[u] = result[u]
  BY ReportValue
<1>3. \A h \in Halves : Unplaced(s, h)' => result'[s][h] = "none"
  BY <1>1 DEF Unplaced, Fresh
<1> QED
  BY <1>1, <1>2, <1>3, NoOrders

LEMMA OpenHalves ==
    ASSUME IInv, HalvesInv, NEW s \in Callers, NEW r \in Requests, NEW seen \in Reads,
           ProposalOpen(s, r, seen) \/ DirectOrder(s, r, seen)
    PROVE  HalvesInv'
<1>1. TaskTypeOK
  BY Typed
<1>2. CASE ProposalOpen(s, r, seen)
  BY <1>1, <1>2, StartHalves DEF ProposalOpen, Begin, Goto, TaskTypeOK, brokerVars
<1>3. CASE DirectOrder(s, r, seen)
  <2>1. /\ pc[s] = "idle" /\ UNCHANGED <<half, plan, sent, trackerVars>>
        /\ req' = [req EXCEPT ![s] = r]
        /\ \/ Goto(s, "done") /\ Report(s, "first", "fail")
           \/ Goto(s, "quote") /\ UNCHANGED result
    BY <1>3 DEF DirectOrder, brokerVars
  <2> QED
    BY <1>1, <2>1, StartHalves DEF Goto, TaskTypeOK, Halves
<1> QED
  BY <1>2, <1>3

LEMMA QuoteHalves ==
    ASSUME IInv, HalvesInv, NEW s \in Callers, NEW seen \in Reads, DirectQuote(s, seen)
    PROVE  HalvesInv'
<1>1. TaskTypeOK
  BY Typed
<1>2. /\ pc[s] = "quote" /\ UNCHANGED <<req, half, sent, trackerVars>>
      /\ \E p : plan' = [plan EXCEPT ![s] = p]
      /\ \/ Goto(s, "tier") /\ UNCHANGED result
         \/ EnterGap(s) /\ UNCHANGED result
         \/ Goto(s, "done") /\ Report(s, "first", "fail")
  BY DEF DirectQuote, GateDirect, brokerVars
<1> QED
  BY <1>1, <1>2, StartHalves DEF Goto, EnterGap, TaskTypeOK, Halves

LEMMA GateHalves ==
    ASSUME IInv, HalvesInv, NEW s \in Callers,
           GatherInputs(s) \/ Evaluate(s) \/ RefuseOpen(s) \/ QuoteFails(s)
    PROVE  HalvesInv'
<1>1. TaskTypeOK
  BY Typed
<1>2. /\ pc[s] \in {"margin", "value", "tier", "quote"} /\ UNCHANGED <<req, half, plan, sent, trackerVars>>
      /\ \/ pc'[s] \in {"value", "tier"} /\ UNCHANGED result
         \/ pc'[s] = "done" /\ Report(s, half[s], "fail")
      /\ \A u \in Callers : u # s => pc'[u] = pc[u]
  BY <1>1 DEF GatherInputs, Evaluate, RefuseOpen, QuoteFails, Goto, EnterGap, TaskTypeOK, brokerVars
<1>3. half[s] \in Halves /\ Fresh(s, half[s])
  BY <1>2, FreshHalves
<1>4. CASE UNCHANGED result /\ pc'[s] \in {"value", "tier"}
  <2>1. \A h \in Halves : Unplaced(s, h)' => Fresh(s, h) /\ result'[s][h] = "none"
    BY <1>2, <1>3, <1>4, FreshHalves DEF Unplaced, Fresh
  <2> QED
    BY <1>2, <1>4, <2>1, NoOrders
<1>5. CASE pc'[s] = "done" /\ Report(s, half[s], "fail")
  <2>1. \A u \in Callers : u # s => result'[u] = result[u]
    BY <1>3, <1>5, ReportValue
  <2>2. \A h \in Halves : result'[s][h] = result[s][h] \/ Fresh(s, h)
    BY <1>3, <1>5, ReportValue
  <2>3. \A h \in Halves : ~Unplaced(s, h)'
    BY <1>2, <1>5 DEF Unplaced
  <2> QED
    BY <1>2, <2>1, <2>2, <2>3, NoOrders
<1> QED
  BY <1>2, <1>4, <1>5

(* A placement touches the orders of its own half.                         *)
LEMMA PlaceElsewhere ==
    ASSUME IInv, NEW s \in Callers, NEW h \in Halves, NEW r, NEW qty, NEW legs \in SUBSET Legs,
           NEW exempt, NEW refused, NEW cleaned,
           PlaceLegs(s, h, r, qty, legs, exempt, refused, cleaned),
           verdict' = verdict \/ Await(Entry(s, h)),
           NEW u \in Callers, NEW g \in Halves, u # s \/ g # h
    PROVE  SameHalf(u, g)
<1> DEFINE placed == {<<s, h, l>> : l \in IF refused \in legs THEN legs \cap Before(refused) ELSE legs}
           new(o) == [side |-> IF o[3] = "entry" THEN r.side ELSE Opposite(r.side),
                      qty |-> qty, exempt |-> exempt \/ o[3] # "entry",
                      live |-> Transmits(legs, refused)]
           news == [o \in placed |-> IF refused \in legs /\ cleaned THEN "Dead" ELSE "Pending"]
<1>1. /\ sent' = [o \in Orders |-> IF o \in placed THEN new(o) ELSE sent[o]]
      /\ Observe(news) /\ DOMAIN news = placed
  BY Zenon DEF PlaceLegs
<1>2. ASSUME NEW l \in Legs
      PROVE  <<u, g, l>> \in Orders /\ <<u, g, l>> \notin placed /\ <<u, g, l>> # Entry(s, h)
  BY SlotParts DEF Entry
<1>3. verdict \in [Orders -> Verdicts]
  BY Typed
<1> HIDE DEF placed, new, news
<1> QED
  BY <1>1, <1>2, <1>3 DEF SameHalf, Observe, Await

LEMMA PlacingStep ==
    ASSUME IInv, HalvesInv, NEW s \in Callers, NEW h \in Halves, Fresh(s, h),
           NEW r \in Requests \union {NoRequest}, NEW qty \in Nat, NEW legs \in SUBSET Legs,
           NEW exempt \in BOOLEAN, NEW refused, NEW cleaned,
           PlaceLegs(s, h, r, qty, legs, exempt, refused, cleaned),
           \/ verdict' = verdict
           \/ refused \notin legs /\ Await(Entry(s, h)),
           ~Unplaced(s, h)', StopDue(s, h)' => "stop" \in legs,
           result'[s][h] = "fail" => refused \in legs,
           \A u \in Callers : u # s =>
               /\ pc'[u] = pc[u] /\ req'[u] = req[u] /\ half'[u] = half[u]
               /\ plan'[u] = plan[u] /\ result'[u] = result[u],
           \A g \in Halves : g # h =>
               /\ result'[s][g] = result[s][g] \/ Fresh(s, g)
               /\ (req'[s] = req[s] /\ plan'[s] = plan[s]) \/ Fresh(s, g)
               /\ Unplaced(s, g)' => Fresh(s, g) /\ result'[s][g] = "none"
    PROVE  HalvesInv'
<1>1. PartInv(s, h)'
  BY PartPlaced
<1>2. \A u \in Callers, g \in Halves : u # s \/ g # h => SameHalf(u, g)
  BY PlaceElsewhere
<1>3. Frame(s)
  BY <1>2 DEF Frame
<1>4. ASSUME NEW g \in Halves, g # h PROVE PartInv(s, g)'
  BY <1>2, <1>4, PartKept DEF HalvesInv
<1> QED
  BY <1>1, <1>3, <1>4, OneRequest

LEMMA ConfirmCases ==
    ASSUME IInv, NEW s \in Callers, NEW h \in Halves, NEW r, NEW qty, NEW legs, NEW exempt,
           NEW refused, NEW cleaned, result[s][h] = "none",
           PlaceAndConfirm(s, h, r, qty, legs, exempt, refused, cleaned)
    PROVE  /\ PlaceLegs(s, h, r, qty, legs, exempt, refused, cleaned)
           /\ verdict' = verdict \/ (refused \notin legs /\ Await(Entry(s, h)))
           /\ pc'[s] \in {"done", "confirm"} /\ \A u \in Callers : u # s => pc'[u] = pc[u]
           /\ result'[s][h] = "fail" => refused \in legs
           /\ \A u \in Callers : u # s => result'[u] = result[u]
           /\ \A g \in Halves : g # h => result'[s][g] = result[s][g]
<1>1. TaskTypeOK
  BY Typed
<1>2. CASE refused \in legs
  BY <1>1, <1>2, ReportValue DEF PlaceAndConfirm, Goto, TaskTypeOK
<1>3. CASE refused \notin legs
  BY <1>1, <1>3 DEF PlaceAndConfirm, Goto, TaskTypeOK, Entry
<1> QED
  BY <1>2, <1>3

LEMMA ExitHalves ==
    ASSUME IInv, HalvesInv, NEW s \in Callers, NEW r \in Requests, NEW seen \in Reads,
           NEW refused, NEW cleaned, ProposalExit(s, r, seen, refused, cleaned)
    PROVE  HalvesInv'
<1>1. TaskTypeOK /\ held \in Int
  BY Typed
<1>2. PICK p : p = Split(r.side, seen, r.qty)
  OBVIOUS
<1>3. PICK flip \in BOOLEAN : flip = IsFlip(p)
  BY DEF IsFlip
<1>4. PICK legs : legs = LegsOf(r, flip)
  OBVIOUS
<1>5. /\ r.side \in Sides /\ r.qty \in Nat /\ legs \in SUBSET Legs /\ p \in [reduce : Nat, open : Nat]
  BY <1>1, <1>2, <1>4, RequestParts, ReadsType, SplitType, LegsOfType
<1>6. /\ pc[s] = "idle" /\ req' = [req EXCEPT ![s] = r]
      /\ half' = [half EXCEPT ![s] = "first"] /\ plan' = [plan EXCEPT ![s] = p]
      /\ PlaceAndConfirm(s, "first", r, p.reduce, legs, TRUE, refused, cleaned)
  BY <1>2, <1>3, <1>4 DEF ProposalExit, Begin
<1>7. \A h \in Halves : Fresh(s, h)
  BY <1>6, FreshHalves
<1>8. result[s]["first"] = "none" /\ result[s]["second"] = "none"
  BY <1>7 DEF Fresh, Halves
<1>9. /\ PlaceLegs(s, "first", r, p.reduce, legs, TRUE, refused, cleaned)
      /\ verdict' = verdict \/ (refused \notin legs /\ Await(Entry(s, "first")))
      /\ pc'[s] \in {"done", "confirm"} /\ \A u \in Callers : u # s => pc'[u] = pc[u]
      /\ result'[s]["first"] = "fail" => refused \in legs
      /\ \A u \in Callers : u # s => result'[u] = result[u]
      /\ \A g \in Halves : g # "first" => result'[s][g] = result[s][g]
  BY <1>6, <1>8, ConfirmCases DEF Halves
<1>10. StopDue(s, "first")' => "stop" \in legs
  <2>1. req'[s] = r /\ plan'[s] = p
    BY <1>1, <1>6 DEF TaskTypeOK
  <2>2. ("first" = "first" /\ IsFlip(plan[s]))' = flip
    BY <1>3, <2>1 DEF IsFlip
  <2> QED
    BY <1>4, <2>1, <2>2 DEF StopDue
<1>11. ~Unplaced(s, "first")'
  BY <1>9 DEF Unplaced
<1>12. \A u \in Callers : u # s =>
          req'[u] = req[u] /\ half'[u] = half[u] /\ plan'[u] = plan[u]
  BY <1>1, <1>6 DEF TaskTypeOK
<1>13. \A g \in Halves : g # "first" => result'[s][g] = "none"
  BY <1>8, <1>9 DEF Halves
<1>14. p.reduce \in Nat /\ "first" \in Halves /\ TRUE \in BOOLEAN /\ r \in Requests \union {NoRequest}
  BY <1>5 DEF Halves
<1> QED
  BY <1>5, <1>7, <1>9, <1>10, <1>11, <1>12, <1>13, <1>14, PlacingStep

LEMMA PlaceOpenHalves ==
    ASSUME IInv, HalvesInv, NEW s \in Callers, NEW refused, NEW cleaned,
           PlaceOpen(s, refused, cleaned)
    PROVE  HalvesInv'
<1>1. TaskTypeOK /\ TaskInv(s)
  BY Typed
<1>2. PICK h \in Halves, qty \in Nat, r \in Requests \union {NoRequest} :
          h = half[s] /\ qty = plan[s].open /\ r = req[s]
  BY <1>1 DEF TaskTypeOK
<1>3. PICK legs : legs = LegsOf(r, FALSE)
  OBVIOUS
<1>4. legs \in SUBSET Legs
  BY <1>3, LegsOfType
<1>5. /\ pc[s] = "tier" /\ req[s].path = "proposal" /\ UNCHANGED <<req, half, plan>>
      /\ PlaceAndConfirm(s, h, r, qty, legs, FALSE, refused, cleaned)
  BY <1>2, <1>3 DEF PlaceOpen
<1>6. Fresh(s, h) /\ (h = "first" => Fresh(s, "second"))
  BY <1>2, <1>5, FreshHalves
<1>7. /\ PlaceLegs(s, h, r, qty, legs, FALSE, refused, cleaned)
      /\ verdict' = verdict \/ (refused \notin legs /\ Await(Entry(s, h)))
      /\ pc'[s] \in {"done", "confirm"} /\ \A u \in Callers : u # s => pc'[u] = pc[u]
      /\ result'[s][h] = "fail" => refused \in legs
      /\ \A u \in Callers : u # s => result'[u] = result[u]
      /\ \A g \in Halves : g # h => result'[s][g] = result[s][g]
  BY <1>5, <1>6, ConfirmCases DEF Fresh
<1>8. StopDue(s, h)' => "stop" \in legs
  <2>1. h = "first" => ~IsFlip(plan[s])
    BY <1>1, <1>2, <1>5 DEF TaskInv, IsFlip, TaskTypeOK
  <2>2. (h = "first" /\ IsFlip(plan[s])) = FALSE
    BY <2>1
  <2> QED
    BY <1>2, <1>3, <1>5, <2>2 DEF StopDue, IsFlip
<1>9. ~Unplaced(s, h)'
  BY <1>2, <1>5, <1>7 DEF Unplaced
<1>10. \A g \in Halves : g # h /\ Unplaced(s, g)' => Fresh(s, g) /\ result'[s][g] = "none"
  BY <1>2, <1>5, <1>6, <1>7 DEF Unplaced, Fresh
<1> QED
  BY <1>4, <1>5, <1>6, <1>7, <1>8, <1>9, <1>10, PlacingStep

(* Neither of the other two paths has legs but the entry.                  *)
LEMMA PlainPath ==
    ASSUME NEW r, r.path # "proposal", NEW plain \in BOOLEAN PROVE "stop" \notin LegsOf(r, plain)
BY DEF LegsOf

LEMMA StandaloneHalves ==
    ASSUME IInv, HalvesInv, NEW s \in Callers, NEW r \in Requests, NEW seen \in Reads,
           NEW refused, Standalone(s, r, seen, refused)
    PROVE  HalvesInv'
<1>1. TaskTypeOK
  BY Typed
<1>2. /\ pc[s] = "idle" /\ req' = [req EXCEPT ![s] = r] /\ pc' = [pc EXCEPT ![s] = "done"]
      /\ half' = [half EXCEPT ![s] = "first"] /\ plan' = plan /\ r.path # "proposal"
      /\ r.qty \in Nat
  BY RequestParts DEF Standalone, Begin, Goto
<1>3. \A h \in Halves : Fresh(s, h)
  BY <1>2, FreshHalves
<1>4. \A u \in Callers : u # s =>
          pc'[u] = pc[u] /\ req'[u] = req[u] /\ half'[u] = half[u] /\ plan'[u] = plan[u]
  BY <1>1, <1>2 DEF TaskTypeOK
<1>5. pc'[s] = "done" /\ req'[s] = r
  BY <1>1, <1>2 DEF TaskTypeOK
<1>6. CASE UNCHANGED <<trackerVars, sent>> /\ Report(s, "first", "fail")
  BY <1>2, <1>4, <1>5, <1>6, StartHalves DEF Halves
<1>7. CASE /\ PlaceLegs(s, "first", r, r.qty, {"entry"}, TRUE, refused, TRUE)
           /\ Report(s, "first", IF refused = "entry" THEN "fail" ELSE "ok")
           /\ verdict' = verdict
  <2>1. /\ \A u \in Callers : u # s => result'[u] = result[u]
        /\ result'[s]["first"] = "fail" => refused \in {"entry"}
    BY <1>7, ReportValue DEF Halves
  <2>2. ~StopDue(s, "first")'
    BY <1>2, <1>5, PlainPath DEF StopDue
  <2>3. \A h \in Halves : ~Unplaced(s, h)'
    BY <1>5 DEF Unplaced
  <2>4. "first" \in Halves /\ {"entry"} \in SUBSET Legs /\ r \in Requests \union {NoRequest}
    BY DEF Halves, Legs
  <2> QED
    BY <1>2, <1>3, <1>4, <1>7, <2>1, <2>2, <2>3, <2>4, PlacingStep
<1> QED
  BY <1>6, <1>7 DEF Standalone

LEMMA DirectHalves ==
    ASSUME IInv, HalvesInv, NEW s \in Callers, NEW refused, PlaceDirect(s, refused)
    PROVE  HalvesInv'
<1>1. TaskTypeOK
  BY Typed
<1>2. PICK h \in Halves, r \in Requests \union {NoRequest}, e \in BOOLEAN, qty \in Nat,
           outcome \in {"ok", "fail"} :
          /\ h = half[s] /\ r = req[s] /\ e = isExit[s]
          /\ qty = IF h = "second" \/ ~e THEN plan[s].open ELSE plan[s].reduce
          /\ outcome = IF refused = "entry" THEN "fail" ELSE "ok"
  BY <1>1 DEF TaskTypeOK
<1>3. /\ pc[s] = "tier" /\ req[s].path # "proposal" /\ UNCHANGED <<req, plan, verdict>>
      /\ PlaceLegs(s, h, r, qty, {"entry"}, e, refused, TRUE)
      /\ \/ /\ h = "first" /\ half' = [half EXCEPT ![s] = "second"]
            /\ \/ EnterGap(s) /\ Report(s, h, outcome)
               \/ /\ Goto(s, "done")
                  /\ result' = [result EXCEPT ![s] = [first |-> outcome, second |-> "fail"]]
         \/ Goto(s, "done") /\ Report(s, h, outcome) /\ half' = half
  <2> DEFINE out == IF refused = "entry" THEN "fail" ELSE "ok"
             quantity == IF half[s] = "second" \/ ~isExit[s] THEN plan[s].open ELSE plan[s].reduce
  <2>1. /\ pc[s] = "tier" /\ req[s].path # "proposal" /\ UNCHANGED <<req, plan, verdict>>
        /\ PlaceLegs(s, half[s], req[s], quantity, {"entry"}, isExit[s], refused, TRUE)
        /\ \/ /\ half[s] = "first" /\ half' = [half EXCEPT ![s] = "second"]
              /\ \/ EnterGap(s) /\ Report(s, half[s], out)
                 \/ /\ Goto(s, "done")
                    /\ result' = [result EXCEPT ![s] = [first |-> out, second |-> "fail"]]
           \/ Goto(s, "done") /\ Report(s, half[s], out) /\ half' = half
    BY Zenon DEF PlaceDirect
  <2>2. h = half[s] /\ r = req[s] /\ e = isExit[s] /\ qty = quantity /\ outcome = out
    BY <1>2, Zenon
  <2> HIDE DEF out, quantity
  <2> QED
    BY <2>1, <2>2, Zenon
<1>4. Fresh(s, h) /\ (h = "first" => Fresh(s, "second"))
  BY <1>2, <1>3, FreshHalves
<1>5. /\ \A u \in Callers : u # s =>
             pc'[u] = pc[u] /\ half'[u] = half[u] /\ result'[u] = result[u]
      /\ result'[s][h] = outcome
  <2>1. CASE /\ h = "first"
             /\ result' = [result EXCEPT ![s] = [first |-> outcome, second |-> "fail"]]
    BY <1>1, <1>3, <2>1 DEF Goto, EnterGap, TaskTypeOK
  <2>2. CASE Report(s, h, outcome)
    BY <1>1, <1>3, <2>2, ReportValue DEF Goto, EnterGap, TaskTypeOK
  <2> QED
    BY <1>3, <2>1, <2>2
<1>6. outcome = "fail" => refused \in {"entry"}
  BY <1>2
<1>7. /\ pc'[s] \in {"tier", "done"} /\ half'[s] \in {h, "second"}
      /\ pc'[s] = "tier" => h = "first" /\ half'[s] = "second"
  BY <1>1, <1>2, <1>3 DEF Goto, EnterGap, TaskTypeOK
<1>8. ~Unplaced(s, h)' /\ ~StopDue(s, h)'
  BY <1>3, <1>7, PlainPath DEF Unplaced, StopDue
<1>9. ASSUME NEW g \in Halves, g # h
      PROVE  /\ result'[s][g] = result[s][g] \/ Fresh(s, g)
             /\ Unplaced(s, g)' => Fresh(s, g) /\ result'[s][g] = "none"
  <2>1. CASE h = "first"
    <3>1. g = "second" /\ Fresh(s, g)
      BY <1>4, <1>9, <2>1 DEF Halves
    <3>2. pc'[s] = "tier" => result'[s][g] = result[s][g]
      <4>1. pc'[s] = "tier" => Report(s, h, outcome)
        BY <1>1, <1>3 DEF Goto, TaskTypeOK
      <4> QED
        BY <1>9, <4>1, ReportValue
    <3> QED
      BY <1>7, <3>1, <3>2 DEF Unplaced, Fresh
  <2>2. CASE h # "first"
    BY <1>3, <1>7, <1>9, <2>2, ReportValue DEF Unplaced
  <2> QED
    BY <2>1, <2>2
<1>10. /\ {"entry"} \in SUBSET Legs /\ TRUE \in BOOLEAN
       /\ e \in BOOLEAN /\ qty \in Nat /\ r \in Requests \union {NoRequest}
  BY <1>2 DEF Legs
<1>11. /\ PlaceLegs(s, h, r, qty, {"entry"}, e, refused, TRUE)
       /\ verdict' = verdict /\ UNCHANGED <<req, plan>>
  BY <1>3
<1>12. \A u \in Callers : u # s =>
           /\ pc'[u] = pc[u] /\ req'[u] = req[u] /\ half'[u] = half[u]
           /\ plan'[u] = plan[u] /\ result'[u] = result[u]
  BY <1>5, <1>11
<1>13. \A g \in Halves : g # h =>
           /\ result'[s][g] = result[s][g] \/ Fresh(s, g)
           /\ (req'[s] = req[s] /\ plan'[s] = plan[s]) \/ Fresh(s, g)
           /\ Unplaced(s, g)' => Fresh(s, g) /\ result'[s][g] = "none"
  BY <1>9, <1>11
<1>14. result'[s][h] = "fail" => refused \in {"entry"}
  BY <1>5, <1>6
<1> QED
  BY <1>4, <1>8, <1>10, <1>11, <1>12, <1>13, <1>14, PlacingStep

(* Updates of orders that were placed, for all halves at once.             *)
LEMMA ObservedHalves ==
    ASSUME IInv, HalvesInv, sent' = sent, UNCHANGED taskVars,
           NEW S \in SUBSET Orders, NEW news \in [S -> Statuses], OnTrade(news),
           \A o \in S : sent[o].qty > 0,
           \A o \in S : news[o] = "Filled" => recorded[o] \in FilledLogs \/ MayFill(o)
    PROVE  HalvesInv'
<1>1. ASSUME NEW s \in Callers, NEW h \in Halves PROVE PartInv(s, h)'
  <2>1. Unplaced(s, h)' => Unplaced(s, h)
    BY DEF Unplaced, taskVars
  <2> QED
    BY <2>1, PartObserved DEF HalvesInv, OnTrade, taskVars
<1> QED
  BY <1>1 DEF HalvesInv

LEMMA BrokerHalves == ASSUME IInv, HalvesInv, Broker PROVE HalvesInv'
<1>1. ASSUME NEW o \in Orders, NEW st \in {"Working", "Dead", "Filled"}, Update(o, st),
             sent[o].qty > 0, sent' = sent, UNCHANGED taskVars, st = "Filled" => MayFill(o)
      PROVE  HalvesInv'
  <2> DEFINE news == [x \in {o} |-> st]
  <2>1. news \in [{o} -> Statuses] /\ OnTrade(news) /\ news[o] = st
    BY <1>1 DEF Update, Statuses
  <2> HIDE DEF news
  <2> QED
    BY <1>1, <2>1, ObservedHalves
<1>2. ASSUME NEW o \in Orders, Accept(o) \/ Kill(o) \/ Fill(o) \/ Lie(o) PROVE HalvesInv'
  BY <1>1, <1>2 DEF Accept, Kill, Fill, Lie, MayFill, Transmitted, brokerVars
<1>3. ASSUME NEW o \in Orders, Repeat(o) PROVE HalvesInv'
  <2>1. recorded[o] \in FilledLogs
    BY <1>3, Logs DEF Repeat, IInv, FillIsRecorded
  <2>2. sent[o].qty > 0
    <3>1. PICK s \in Callers, h \in Halves, l \in Legs : o = <<s, h, l>>
      BY SlotParts
    <3> QED
      BY <2>1, <3>1 DEF HalvesInv, PartInv, OrderInv, Transmitted
  <2> QED
    BY <1>1, <1>3, <2>2 DEF Repeat
<1>4. ASSUME NEW T \in SUBSET Orders, Cancel(T) PROVE HalvesInv'
  <2>1. PICK S \in SUBSET Orders : S = {o \in T : sent[o].qty > 0}
    OBVIOUS
  <2>2. PICK news : news = AfterCancel(S)
    OBVIOUS
  <2>3. \A o \in S : AfterCancelRequest(o, sent[o].live) \in Statuses
    BY Typed DEF AfterCancelRequest, Statuses, Active
  <2>4. news \in [S -> Statuses] /\ OnTrade(news) /\ UNCHANGED <<taskVars, sent>>
    BY <1>4, <2>1, <2>2, <2>3 DEF AfterCancel, Cancel
  <2>5. ASSUME NEW o \in S, news[o] = "Filled" PROVE recorded[o] \in FilledLogs
    <3>1. status[o] = "Filled"
      BY <2>2, <2>5 DEF AfterCancel, AfterCancelRequest
    <3> QED
      BY <3>1, Logs DEF IInv, FillIsRecorded
  <2> QED
    BY <2>1, <2>4, <2>5, ObservedHalves
<1> QED
  BY <1>2, <1>3, <1>4 DEF Broker, CancelOrder, CancelAll

LEMMA TimeoutHalves ==
    ASSUME IInv, HalvesInv, NEW s \in Callers, WaitTimeout(s) PROVE HalvesInv'
<1>1. TaskTypeOK /\ verdict \in [Orders -> Verdicts]
  BY Typed
<1>2. PICK h \in Halves : h = half[s]
  BY <1>1 DEF TaskTypeOK
<1>3. /\ UNCHANGED <<taskVars, sent, status, recorded>>
      /\ verdict' = [verdict EXCEPT ![Entry(s, h)] = "timeout"]
      /\ verdict[Entry(s, h)] = "pending"
  BY <1>2 DEF WaitTimeout, Expire, brokerVars, Entry
<1>4. ASSUME NEW u \in Callers, NEW g \in Halves PROVE PartInv(u, g)'
  <2>1. PartInv(u, g)
    BY DEF HalvesInv
  <2>2. CASE u = s /\ g = h
    <3>1. ~Fresh(s, h)
      BY <1>3 DEF Fresh, Entry, Legs
    <3>2. ~Unplaced(s, h)' /\ (StopDue(s, h)' <=> StopDue(s, h))
      BY <1>3, <2>1, <2>2, <3>1 DEF PartInv, HalfInv, Unplaced, StopDue, taskVars
    <3>3. HalfInv(s, h)'
      BY <1>3, <2>1, <2>2, <3>2 DEF PartInv, HalfInv, Transmitted, taskVars
    <3>4. ASSUME NEW l \in Legs PROVE OrderInv(<<s, h, l>>)'
      <4>1. l # "entry" => verdict'[<<s, h, l>>] = verdict[<<s, h, l>>]
        BY <1>1, <1>3, LegOrders DEF Entry
      <4>2. l = "entry" => verdict'[<<s, h, l>>] = "timeout"
        BY <1>1, <1>3, LegOrders DEF Entry
      <4> QED
        BY <1>3, <2>1, <2>2, <4>1, <4>2, LegOrders DEF PartInv, OrderInv, Transmitted
    <3> QED
      BY <2>2, <3>3, <3>4 DEF PartInv
  <2>3. CASE ~(u = s /\ g = h)
    <3>1. \A l \in Legs : <<u, g, l>> \in Orders /\ <<u, g, l>> # Entry(s, h)
      BY <2>3, LegOrders DEF Entry
    <3>2. SameHalf(u, g)
      BY <1>1, <1>3, <3>1 DEF SameHalf
    <3>3. Unplaced(u, g)' => Fresh(u, g) /\ result'[u][g] = "none"
      BY <1>3, <2>1 DEF PartInv, HalfInv, Unplaced, Fresh, taskVars
    <3> QED
      BY <1>3, <2>1, <3>2, <3>3, PartKept DEF taskVars
  <2> QED
    BY <2>2, <2>3
<1> QED
  BY <1>4 DEF HalvesInv

LEMMA ResumeHalves ==
    ASSUME IInv, HalvesInv, NEW s \in Callers, Resume(s) PROVE HalvesInv'
<1>1. /\ TaskTypeOK /\ verdict \in [Orders -> Verdicts] /\ status \in [Orders -> Statuses]
      /\ recorded \in [Orders -> Seq({"filled", "dead"})]
  BY Typed DEF IInv, TypeOK, TrackerTypeOK
<1>2. PICK h \in Halves : h = half[s]
  BY <1>1 DEF TaskTypeOK
<1>3. /\ pc[s] = "confirm" /\ UNCHANGED <<req, plan, sent>>
      /\ verdict' = [verdict EXCEPT ![Entry(s, h)] = "none"]
  BY <1>2 DEF Resume, Forget, Entry, brokerVars
<1>4. PICK S \in SUBSET OrdersOf(s, h) :
          /\ Observe(AfterCancel(S))
          /\ \/ /\ verdict[Entry(s, h)] = "rejected" /\ Report(s, h, "fail")
                /\ Goto(s, "done") /\ half' = half
             \/ /\ Report(s, h, "ok")
                /\ \/ h = "first" /\ half' = [half EXCEPT ![s] = "second"] /\ Goto(s, "margin")
                   \/ Goto(s, "done") /\ half' = half
  <2>1. CASE verdict[Entry(s, h)] = "rejected"
    BY <1>2, <2>1 DEF Resume, Entry
  <2>2. CASE verdict[Entry(s, h)] # "rejected"
    <3>1. UNCHANGED <<status, recorded>>
      BY <1>2, <2>2 DEF Resume, Entry
    <3>2. Observe(AfterCancel({}))
      BY <1>1, <3>1 DEF Observe, AfterCancel
    <3>3. {} \in SUBSET OrdersOf(s, h)
      OBVIOUS
    <3> QED
      BY <1>2, <2>2, <3>2, <3>3 DEF Resume, Entry
  <2> QED
    BY <2>1, <2>2
<1>5. PICK news : news = AfterCancel(S)
  OBVIOUS
<1>6. S \in SUBSET Orders /\ \A o \in S : o[1] = s /\ o[2] = h /\ sent[o].qty > 0
  BY DEF OrdersOf
<1>7. \A o \in S : AfterCancelRequest(o, sent[o].live) \in Statuses
  BY <1>1, <1>6 DEF AfterCancelRequest, Statuses
<1>8. news \in [S -> Statuses] /\ Observe(news)
  BY <1>4, <1>5, <1>7 DEF AfterCancel
<1>9. ASSUME NEW o \in S, news[o] = "Filled" PROVE recorded[o] \in FilledLogs
  <2>1. status[o] = "Filled" /\ o \in Orders
    BY <1>5, <1>6, <1>9 DEF AfterCancel, AfterCancelRequest
  <2> QED
    BY <2>1, Logs DEF IInv, FillIsRecorded
<1>10. PartInv(s, h) /\ (verdict[Entry(s, h)] = "rejected" => recorded[Entry(s, h)] \in DiedLogs)
  <2>1. PartInv(s, h)
    BY DEF HalvesInv
  <2> QED
    BY <2>1 DEF PartInv, OrderInv, Entry, Legs
<1>11. /\ \A u \in Callers : u # s =>
              pc'[u] = pc[u] /\ half'[u] = half[u] /\ result'[u] = result[u]
       /\ result'[s][h] = "fail" => recorded[Entry(s, h)] \in DiedLogs
       /\ \A g \in Halves : g # h => result'[s][g] = result[s][g]
       /\ \/ pc'[s] = "done"
          \/ pc'[s] = "margin" /\ h = "first" /\ half'[s] = "second"
  BY <1>1, <1>4, <1>10, ReportValue DEF Goto, TaskTypeOK
<1>12. PartInv(s, h)'
  <2>1. ~Unplaced(s, h)'
    BY <1>11 DEF Unplaced
  <2> QED
    BY <1>3, <1>6, <1>8, <1>9, <1>10, <1>11, <2>1, PartObserved
<1>13. ASSUME NEW u \in Callers, NEW g \in Halves, u # s \/ g # h PROVE SameHalf(u, g)
  <2>1. \A l \in Legs : <<u, g, l>> \in Orders /\ <<u, g, l>> # Entry(s, h) /\ <<u, g, l>> \notin S
    BY <1>6, <1>13, LegOrders DEF Entry
  <2>2. DOMAIN news = S
    BY <1>8
  <2> QED
    BY <1>1, <1>3, <1>8, <2>1, <2>2 DEF SameHalf, Observe
<1>14. ASSUME NEW g \in Halves, g # h PROVE PartInv(s, g)'
  <2>1. PartInv(s, g) /\ SameHalf(s, g)
    BY <1>13, <1>14 DEF HalvesInv
  <2>2. Unplaced(s, g)' => Fresh(s, g) /\ result'[s][g] = "none"
    <3>1. Unplaced(s, g)' => h = "first" /\ g = "second"
      BY <1>11 DEF Unplaced, Halves
    <3>2. h = "first" => Fresh(s, "second")
      BY <1>2, <1>3, FreshHalves
    <3> QED
      BY <1>11, <1>14, <3>1, <3>2 DEF Fresh
  <2> QED
    BY <1>3, <1>11, <1>14, <2>1, <2>2, PartKept
<1>15. Frame(s)
  BY <1>3, <1>11, <1>13 DEF Frame
<1> QED
  BY <1>12, <1>14, <1>15, OneRequest

LEMMA InitHalves == Init => HalvesInv
<1> SUFFICES ASSUME Init, NEW s \in Callers, NEW h \in Halves PROVE PartInv(s, h)
  BY DEF HalvesInv
<1>1. ASSUME NEW l \in Legs
      PROVE  /\ sent[<<s, h, l>>] = NotSent /\ recorded[<<s, h, l>>] = <<>>
             /\ verdict[<<s, h, l>>] = "none"
  BY LegOrders DEF Init, TrackerInit
<1>2. Fresh(s, h)
  <2>1. result[s][h] = "none"
    BY DEF Init
  <2>2. NotSent.qty = 0
    BY DEF NotSent
  <2> QED
    BY <1>1, <2>1, <2>2 DEF Fresh
<1>3. ASSUME NEW l \in Legs PROVE OrderInv(<<s, h, l>>)
  <2>1. <<>> \notin FilledLogs
    BY DEF FilledLogs
  <2> QED
    BY <1>1, <2>1 DEF OrderInv
<1>4. HalfInv(s, h)
  BY <1>1, <1>2 DEF HalfInv, Fresh, Transmitted
<1> QED
  BY <1>3, <1>4 DEF PartInv

LEMMA StepHalves == IInv /\ HalvesInv /\ [Next]_vars => HalvesInv'
<1> SUFFICES ASSUME IInv, HalvesInv, [Next]_vars PROVE HalvesInv'
  OBVIOUS
<1>1. ASSUME NEW s \in Callers, Arrive(s) PROVE HalvesInv'
  <2>1. PICK r \in Requests, seen \in Reads :
          \/ ProposalOpen(s, r, seen)
          \/ DirectOrder(s, r, seen)
          \/ \E refused \in RefusedAt, cleaned \in BOOLEAN : ProposalExit(s, r, seen, refused, cleaned)
          \/ \E refused \in RefusedAt : Standalone(s, r, seen, refused)
    BY <1>1, Zenon DEF Arrive
  <2> QED
    BY <2>1, OpenHalves, ExitHalves, StandaloneHalves, Zenon
<1>2. ASSUME NEW s \in Callers, Work(s) PROVE HalvesInv'
  BY <1>2, GateHalves, QuoteHalves, PlaceOpenHalves, DirectHalves, Zenon DEF Work
<1>3. ASSUME NEW s \in Callers, Wait(s) PROVE HalvesInv'
  BY <1>3, ResumeHalves, TimeoutHalves, Zenon DEF Wait
<1>4. CASE UNCHANGED vars
  BY <1>4 DEF vars, taskVars, brokerVars, trackerVars, HalvesInv, PartInv, HalfInv, OrderInv,
              Unplaced, Fresh, StopDue, Transmitted
<1> QED
  BY <1>1, <1>2, <1>3, <1>4, BrokerHalves, Zenon DEF Next

(* A half reaches the market with all its legs or with none, whatever the  *)
(* requests, refusals, faults and interleavings: an order that filled was  *)
(* transmitted with the last leg, and its half has the stop it asked for.  *)
THEOREM LegsTogether == Spec => []AllOrNothing
<1>1. IInv /\ HalvesInv => AllOrNothing
  <2> SUFFICES ASSUME IInv, HalvesInv, NEW s \in Callers, NEW h \in Halves
               PROVE  /\ \A o, p \in OrdersOf(s, h) : sent[o].live = sent[p].live
                      /\ \A o \in OrdersOf(s, h) :
                            recorded[o] # <<>> /\ recorded[o][Len(recorded[o])] = "filled"
                              => /\ sent[o].live
                                 /\ StopDue(s, h) => <<s, h, "stop">> \in OrdersOf(s, h)
    BY DEF AllOrNothing, StopDue
  <2>1. PartInv(s, h)
    BY DEF HalvesInv
  <2>2. ASSUME NEW o \in OrdersOf(s, h)
        PROVE  o \in Orders /\ sent[o].qty > 0 /\ \E l \in Legs : o = <<s, h, l>>
    BY SlotParts DEF OrdersOf
  <2>3. \A o, p \in OrdersOf(s, h) : sent[o].live = sent[p].live
    BY <2>1, <2>2 DEF PartInv, HalfInv
  <2>4. ASSUME NEW o \in OrdersOf(s, h), recorded[o] # <<>>,
               recorded[o][Len(recorded[o])] = "filled"
        PROVE  sent[o].live /\ (StopDue(s, h) => <<s, h, "stop">> \in OrdersOf(s, h))
    <3>1. recorded[o] \in FilledLogs
      BY <2>2, <2>4, Logs DEF IInv, FillIsRecorded
    <3>2. Transmitted(o)
      BY <2>1, <2>2, <3>1 DEF PartInv, OrderInv
    <3>3. StopDue(s, h) => sent[<<s, h, "stop">>].qty > 0
      BY <2>1, <2>2, <3>2 DEF PartInv, HalfInv
    <3>4. <<s, h, "stop">> \in Orders
      BY SlotParts DEF Legs
    <3> QED
      BY <3>2, <3>3, <3>4 DEF Transmitted, OrdersOf
  <2> QED
    BY <2>3, <2>4
<1> QED
  BY <1>1, InitIInv, StepIInv, InitHalves, StepHalves, PTL DEF Spec

(* A half reported failed has an order that fills only after the broker    *)
(* had reported its entry dead and the fill contradicted that report.      *)
THEOREM FailedIsDead == Spec => []FailedHalfIsDead
<1>1. IInv /\ HalvesInv => FailedHalfIsDead
  <2> SUFFICES ASSUME IInv, HalvesInv, NEW s \in Callers, NEW h \in Halves, result[s][h] = "fail",
                      NEW o \in OrdersOf(s, h), status[o] = "Filled"
               PROVE  recorded[Parent(o)] = <<"dead", "filled">>
    BY DEF FailedHalfIsDead
  <2>1. PartInv(s, h)
    BY DEF HalvesInv
  <2>2. PICK l \in Legs : o \in Orders /\ o = <<s, h, l>>
    BY SlotParts DEF OrdersOf
  <2>3. recorded[o] \in FilledLogs
    BY <2>2, Logs DEF IInv, FillIsRecorded
  <2>4. Transmitted(o) /\ recorded[Parent(o)] \in FilledLogs
    <3>1. OrderInv(o) /\ (l = "entry" => Parent(o) = o) /\ (l # "entry" => IsChild(o))
      BY <2>1, <2>2, LegOrders DEF PartInv, Entry
    <3> QED
      BY <2>3, <3>1 DEF OrderInv
  <2>5. recorded[Parent(o)] \in DiedLogs /\ Parent(o) \in Orders
    BY <2>1, <2>2, <2>4, LegOrders DEF PartInv, HalfInv
  <2> QED
    BY <2>4, <2>5, Logs DEF IInv, FillIsRecorded
<1> QED
  BY <1>1, InitIInv, StepIInv, InitHalves, StepHalves, PTL DEF Spec

=============================================================================
