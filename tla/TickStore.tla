------------------------------- MODULE TickStore -------------------------------
(***************************************************************************)
(* The bars of one symbol in tick_data (data/duckdb_store.py) and the      *)
(* processes that fill it: `mmr data download` and `data refresh` ("cli"), *)
(* which merge what they fetch into what is stored, and data_service       *)
(* ("service") and strategy_service ("runtime"), which write it directly.  *)
(* All ask TickData.missing which days to fetch; nothing stands between    *)
(* two of them but the lock DuckDB holds for one statement or transaction. *)
(*                                                                         *)
(* A day has Per intraday bars, at positions 1..Per; its position 0 is     *)
(* midnight, where the daily bar and an empty day's marker are keyed.      *)
(***************************************************************************)
EXTENDS Integers, FiniteSets

CONSTANTS Writers,
          Kind,      (* [Writers -> {"cli", "service", "runtime"}]            *)
          Source,    (* [Writers -> {"massive", "twelvedata", "ib"}]          *)
          SizeOf,    (* [Writers -> Sizes]: the bar size a writer fetches     *)
          Sizes,
          Intraday,  (* the bar sizes below a day                             *)
          LastDay,   (* bound: sessions; the last is never over               *)
          Per,
          MaxRev,    (* bound: revisions of a bar                             *)
          MaxRevised,(* bound: bars the source corrects                       *)
          Advances,  (* by how many intraday bars the clock may advance       *)
          Faults,    (* [Writers -> SUBSET AllFaults]: what may happen to it  *)
          MaxFaults  (* bound: how often                                      *)

AllFaults == {"gap", "bad", "failed", "locked", "crash", "whole", "force"}

Days == 1 .. LastDay
Pos  == 0 .. LastDay * (Per + 1) - 1

DayOf(p) == p \div (Per + 1) + 1
At(p)    == p % (Per + 1)

ASSUME WritersAssumption ==
    /\ Kind \in [Writers -> {"cli", "service", "runtime"}]
    /\ Source \in [Writers -> {"massive", "twelvedata", "ib"}]
    /\ SizeOf \in [Writers -> Sizes]
    /\ \A w \in Writers : /\ Kind[w] = "cli" => Source[w] # "ib"
                          /\ Kind[w] = "runtime" => Source[w] = "ib"
    /\ Faults \in [Writers -> SUBSET AllFaults]
    /\ \A w \in Writers : "force" \in Faults[w] => Kind[w] = "cli"
ASSUME BoundsAssumption ==
    /\ Intraday \subseteq Sizes
    /\ {LastDay, Per, MaxRev} \subseteq Nat \ {0}
    /\ Advances \subseteq Nat \ {0}
    /\ {MaxRevised, MaxFaults} \subseteq Nat

Empty      == 0                     (* a row without a close                 *)
Impossible == -1                    (* a bar impossible_mask selects         *)
Values     == {Impossible, Empty} \cup 1 .. MaxRev
Rows       == [p : Pos, v : Values]

Real(x) == x.v > 0

(* The rows a symbol has of a bar size.                                    *)
Slots(s) == {p \in Pos : IF s \in Intraday THEN At(p) # 0 ELSE At(p) = 0}

VARIABLES
    now,        (* intraday bars completed so far                             *)
    revision,   (* [Sizes -> [Pos -> 1..MaxRev]]: what the source would send  *)
    store,      (* [Sizes -> SUBSET Rows]: tick_data                          *)
    pc, todo,   (* per writer: where it is, the ranges it has left to fetch   *)
    frame,      (* per writer: the frame it fetched                           *)
    basis,      (* per writer: what write_resolve_overlap read                *)
    landed,     (* the real bars of the frames that were written              *)
    faults

marketVars == <<now, revision>>
writerVars == <<pc, todo, frame, basis>>
vars == <<marketVars, store, writerVars, landed, faults>>

Today == now \div Per + 1

(* The daily bar is published after the close.                             *)
Published(s, p) ==
    IF s \in Intraday THEN (DayOf(p) - 1) * Per + At(p) <= now
                      ELSE DayOf(p) * Per <= now

Init ==
    /\ now = 0
    /\ revision = [s \in Sizes |-> [p \in Pos |-> 1]]
    /\ store = [s \in Sizes |-> {}]
    /\ pc = [w \in Writers |-> "idle"]
    /\ todo = [w \in Writers |-> {}]
    /\ frame = [w \in Writers |-> {}]
    /\ basis = [w \in Writers |-> {}]
    /\ landed = [s \in Sizes |-> {}]
    /\ faults = 0

--------------------------------------------------------------------------------
(* What to fetch: the caller's window and TickData.missing                 *)

(* data_service asks for the days up to yesterday, the others for today    *)
(* as well.                                                                *)
Window(w) == {d \in Days : d <= IF Kind[w] = "service" THEN Today - 1 ELSE Today}

(* Mutant: resample('D'): every day between two stored ones is present.   *)
MissingDaysResampled(s, window) ==
    {d \in window : ~ \E x, y \in store[s] : DayOf(x.p) <= d /\ d <= DayOf(y.p)}

(* Mutant: what is stored is not looked at.                                *)
MissingDaysAll(s, window) == window

(* A day counts as present when it has a row with a close.                 *)
MissingDays(s, window) ==
    {d \in window : ~ \E x \in store[s] : Real(x) /\ DayOf(x.p) = d}

(* Mutant: start_date is not reset at a day that is present.              *)
RangesNoReset(missing) ==
    {r \in [from : Days, to : Days, dates : {TRUE}] :
        /\ {r.from, r.to} \subseteq missing
        /\ \A d \in missing : r.from <= d /\ d <= r.to}

(* The longest runs of missing days.                                       *)
Ranges(missing) ==
    {r \in [from : Days, to : Days, dates : {TRUE}] :
        /\ r.from <= r.to
        /\ r.from .. r.to \subseteq missing
        /\ r.from - 1 \notin missing
        /\ r.to + 1 \notin missing}

(* The window as one range, in datetimes and not in bare dates.            *)
Whole(w) == {[from |-> 1, to |-> Cardinality(Window(w)), dates |-> FALSE]}

(* A job starts. "whole": missing() raises, or the security has no         *)
(* calendar. "force": data download --force.                               *)
Start(w) ==
    /\ pc[w] = "idle"
    /\ Window(w) # {}
    /\ \/ todo' = [todo EXCEPT ![w] = Ranges(MissingDays(SizeOf[w], Window(w)))]
       \/ /\ {"whole", "force"} \cap Faults[w] # {}
          /\ todo' = [todo EXCEPT ![w] = Whole(w)]
    /\ todo'[w] # {}
    /\ pc' = [pc EXCEPT ![w] = "fetch"]
    /\ UNCHANGED <<marketVars, store, frame, basis, landed, faults>>

--------------------------------------------------------------------------------
(* Fetching a range                                                        *)

(* Ranges are taken in order; those of data_service are tasks, in any.     *)
NextRanges(w) ==
    {r \in todo[w] : Kind[w] = "service" \/ \A q \in todo[w] : r.from <= q.from}

(* The days a request for a range covers. missing() returns bare dates and *)
(* the command line passes them on: TwelveData's intraday requests end at  *)
(* midnight of the last day. The services extend it to the end of the day. *)
Covered(w, r) ==
    IF /\ Kind[w] = "cli" /\ Source[w] = "twelvedata" /\ SizeOf[w] \in Intraday
       /\ r.dates
    THEN r.from .. r.to - 1
    ELSE r.from .. r.to

(* The bars the source has for days ds, those at bad garbled.              *)
Bars(s, ds, bad) ==
    {[p |-> q, v |-> IF q \in bad THEN Impossible ELSE revision[s][q]] :
        q \in {q \in Slots(s) : DayOf(q) \in ds /\ Published(s, q)}}

(* IBHistoryWorker marks the days without a bar: at the time of day of the *)
(* chunk's first bar, at midnight when there is none.                      *)
NullRows(s, ds, bars) ==
    {[p |-> q, v |-> Empty] :
        q \in {q \in Pos :
                 /\ DayOf(q) \in ds
                 /\ At(q) = IF s \in Intraday /\ bars # {} THEN 1 ELSE 0
                 /\ ~ \E x \in bars : DayOf(x.p) = DayOf(q)}}

Answer(w, r, gap, bad) ==
    LET s    == SizeOf[w]
        bars == Bars(s, Covered(w, r) \ gap, bad)
    IN  IF Source[w] = "ib" THEN bars \cup NullRows(s, Covered(w, r), bars) ELSE bars

(* Mutant: the next range starts with the last one's frame still there.   *)
ContinueDirty(w, left) ==
    /\ pc' = [pc EXCEPT ![w] = IF left = {} THEN "idle" ELSE "fetch"]
    /\ UNCHANGED <<frame, basis>>

(* On to the next range, or done.                                          *)
Continue(w, left) ==
    /\ pc' = [pc EXCEPT ![w] = IF left = {} THEN "idle" ELSE "fetch"]
    /\ frame' = [frame EXCEPT ![w] = {}]
    /\ basis' = [basis EXCEPT ![w] = {}]

Fault(w, f) == f \in Faults[w] /\ faults < MaxFaults /\ faults' = faults + 1

(* A range is fetched. A chunk that fails leaves a gap of days, or the     *)
(* source sends an impossible bar. An empty frame is not written.          *)
Fetch(w) ==
    \E r \in NextRanges(w), gap \in SUBSET Days, bad \in SUBSET Slots(SizeOf[w]) :
        LET got == Answer(w, r, gap, bad)
        IN  /\ pc[w] = "fetch"
            /\ \/ gap = {} /\ bad = {} /\ UNCHANGED faults
               \/ gap # {} /\ gap \subseteq r.from .. r.to /\ bad = {} /\ Fault(w, "gap")
               \/ gap = {} /\ Cardinality(bad) = 1 /\ Fault(w, "bad")
            /\ todo' = [todo EXCEPT ![w] = @ \ {r}]
            /\ IF got = {}
               THEN Continue(w, todo[w] \ {r})
               ELSE /\ pc' = [pc EXCEPT ![w] = IF Kind[w] = "cli" THEN "read" ELSE "write"]
                    /\ frame' = [frame EXCEPT ![w] = got]
                    /\ UNCHANGED basis
            /\ UNCHANGED <<marketVars, store, landed>>

(* The request raises (no data, an error of the vendor): the range is      *)
(* given up.                                                               *)
FetchFails(w) ==
    /\ Fault(w, "failed")
    /\ pc[w] = "fetch"
    /\ \E r \in NextRanges(w) :
          /\ todo' = [todo EXCEPT ![w] = @ \ {r}]
          /\ Continue(w, todo[w] \ {r})
    /\ UNCHANGED <<marketVars, store, landed>>

--------------------------------------------------------------------------------
(* Writing                                                                 *)

(* write_resolve_overlap reads all the bars of its size.                   *)
MergeRead(w) ==
    /\ pc[w] = "read"
    /\ basis' = [basis EXCEPT ![w] = store[SizeOf[w]]]
    /\ pc' = [pc EXCEPT ![w] = "write"]
    /\ UNCHANGED <<marketVars, store, todo, frame, landed, faults>>

Closed(rows) == {x \in rows : x.v # Empty}

(* Mutant: keep='first'.                                                  *)
MergedKeepFirst(old, new) == old \cup {y \in new : ~ \E x \in old : x.p = y.p}

(* keep='last': the fetched bar wins.                                      *)
Merged(old, new) == {x \in old : ~ \E y \in new : y.p = x.p} \cup new

ToWrite(w) ==
    IF Kind[w] # "cli" THEN frame[w]
    ELSE IF Closed(frame[w]) = {} THEN {}
    ELSE Merged(basis[w], Closed(frame[w]))

(* Data.write drops the bars impossible_mask selects.                      *)
Sound(rows) == {x \in rows : x.v # Impossible}

(* Mutant: the DELETE stops short of the last date.                       *)
SpannedShort(rows, p) == \E a, b \in rows : a.p <= p /\ p < b.p

(* The DELETE takes every row of the bar size from the first date written  *)
(* to the last, whether or not the frame has a row for it.                 *)
Spanned(rows, p) == \E a, b \in rows : a.p <= p /\ p <= b.p

Replaced(old, rows) == {x \in old : ~ Spanned(rows, x.p)} \cup rows

(* Mutant: the DELETE is not restricted to the bar size.                  *)
StoreWriteAnySize(s, rows) ==
    store' = [t \in Sizes |-> {x \in store[t] : ~ Spanned(rows, x.p)}
                                \cup IF t = s THEN rows ELSE {}]

(* One transaction: DELETE and INSERT.                                     *)
StoreWrite(s, rows) == store' = [store EXCEPT ![s] = Replaced(@, rows)]

Write(w) ==
    /\ pc[w] = "write"
    /\ StoreWrite(SizeOf[w], Sound(ToWrite(w)))
    /\ landed' = [landed EXCEPT ![SizeOf[w]] = @ \cup {x \in frame[w] : Real(x)}]
    /\ Continue(w, todo[w])
    /\ UNCHANGED <<marketVars, todo, faults>>

(* The lock on the database file outlasts the 32 attempts of a read or a   *)
(* write: the exception is caught per range.                               *)
LockedOut(w) ==
    /\ Fault(w, "locked")
    /\ pc[w] \in {"read", "write"}
    /\ Continue(w, todo[w])
    /\ UNCHANGED <<marketVars, store, todo, landed>>

(* The process ends, or IB's connection is lost in the middle of the job.  *)
Crash(w) ==
    /\ Fault(w, "crash")
    /\ pc[w] # "idle"
    /\ Continue(w, {})
    /\ todo' = [todo EXCEPT ![w] = {}]
    /\ UNCHANGED <<marketVars, store, landed>>

--------------------------------------------------------------------------------
(* The market                                                              *)

Advance ==
    /\ \E n \in Advances : now' = now + n
    /\ now' < LastDay * Per
    /\ UNCHANGED <<revision, store, writerVars, landed, faults>>

Revised == {b \in Sizes \X Pos : revision[b[1]][b[2]] > 1}

(* The source corrects a bar it has published.                             *)
Revise ==
    /\ \E s \in Sizes : \E p \in Slots(s) :
          /\ Published(s, p)
          /\ revision[s][p] < MaxRev
          /\ revision[s][p] > 1 \/ Cardinality(Revised) < MaxRevised
          /\ revision' = [revision EXCEPT ![s][p] = @ + 1]
    /\ UNCHANGED <<now, store, writerVars, landed, faults>>

Job(w) == Start(w) \/ Fetch(w) \/ MergeRead(w) \/ Write(w)

Next ==
    \/ \E w \in Writers : Job(w) \/ FetchFails(w) \/ LockedOut(w) \/ Crash(w)
    \/ Advance
    \/ Revise

Spec == Init /\ [][Next]_vars

(* Refreshes run again and again; faults are bounded.                      *)
Fairness == \A w \in Writers : WF_vars(Job(w))

FairSpec == Spec /\ Fairness

--------------------------------------------------------------------------------
(* Every variable keeps its type: what is stored, fetched and read back    *)
(* are rows, and a writer has a frame only between its fetch and its write. *)
TypeOK ==
    /\ now \in 0 .. LastDay * Per - 1
    /\ revision \in [Sizes -> [Pos -> 1 .. MaxRev]]
    /\ store \in [Sizes -> SUBSET Rows]
    /\ landed \in [Sizes -> SUBSET Rows]
    /\ faults \in 0 .. MaxFaults
    /\ pc \in [Writers -> {"idle", "fetch", "read", "write"}]
    /\ todo \in [Writers -> SUBSET [from : Days, to : Days, dates : BOOLEAN]]
    /\ frame \in [Writers -> SUBSET Rows]
    /\ basis \in [Writers -> SUBSET Rows]
    /\ \A w \in Writers : frame[w] # {} <=> pc[w] \in {"read", "write"}

OneEach(rows) == \A x, y \in rows : x.p = y.p => x = y

(* tick_data has no key, so nothing but the range DELETE keeps a bar from  *)
(* being stored twice; and no bar in it is impossible. A reader gets a     *)
(* series with one row per timestamp whatever the writers do.              *)
Series ==
    \A s \in Sizes :
        /\ OneEach(store[s])
        /\ \A x \in store[s] : x.v # Impossible

(* A bar that a job wrote is there for good, in that revision or a later   *)
(* one: no range a later job writes takes it along, no crash loses it, a   *)
(* correction that was fetched stays, and the bars of another size in the  *)
(* same range are left alone.                                              *)
NothingLost ==
    \A s \in Sizes : \A x \in landed[s] :
        \E y \in store[s] : y.p = x.p /\ y.v >= x.v

(* A row without a close never takes the place of a bar, as the comment in *)
(* write_resolve_overlap has it.                                           *)
NoBarEmptied ==
    [][\A s \in Sizes : \A x \in store[s] :
          Real(x) => [p |-> x.p, v |-> Empty] \notin store'[s]]_vars

(* The published bars of a writer's window that are not stored.            *)
Holes(w) ==
    {p \in Slots(SizeOf[w]) :
        /\ Published(SizeOf[w], p) /\ DayOf(p) \in Window(w)
        /\ ~ \E x \in store[SizeOf[w]] : x.p = p /\ Real(x)}

(* The refreshes catch up, again and again: whatever chunks were left out, *)
(* no hole is passed over by every later one.                              *)
HolesFilled == []<>(\A w \in Writers : Holes(w) = {})

================================================================================
