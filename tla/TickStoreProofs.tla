----------------------------- MODULE TickStoreProofs -----------------------------
(***************************************************************************)
(* Proofs about TickStore, for any writers, sources, bar sizes and faults: *)
(* types, and that tick_data is a series, although it has no key and any   *)
(* number of processes write it; and, for writers that do not share a bar  *)
(* size and overwrite stored days only by merging sound bars, that nothing *)
(* written is lost and no bar is emptied.                                  *)
(***************************************************************************)
EXTENDS TickStore, FiniteSetTheorems, TLAPS

USE WritersAssumption, BoundsAssumption

RangeRecords == [from : Days, to : Days, dates : BOOLEAN]

(* What the caller asks of missing(), and the whole window, are ranges of  *)
(* days.                                                                   *)
LEMMA RangesType ==
    ASSUME NEW missing PROVE Ranges(missing) \subseteq RangeRecords
BY DEF Ranges, RangeRecords

LEMMA WholeType ==
    ASSUME NEW w \in Writers, Window(w) # {} PROVE Whole(w) \subseteq RangeRecords
<1>1. IsFiniteSet(Days) /\ Cardinality(Days) = LastDay
  BY FS_Interval DEF Days
<1>2. Window(w) \subseteq Days
  BY DEF Window
<1>3. IsFiniteSet(Window(w)) /\ Cardinality(Window(w)) <= LastDay
  BY <1>1, <1>2, FS_Subset
<1>4. Cardinality(Window(w)) \in Nat /\ Cardinality(Window(w)) # 0
  BY <1>3, FS_CardinalityType, FS_EmptySet
<1> QED
  BY <1>3, <1>4 DEF Whole, RangeRecords, Days

(* A value is Impossible, Empty or a revision.                             *)
LEMMA AnswerType ==
    ASSUME TypeOK, NEW w \in Writers, NEW r, NEW gap, NEW bad
    PROVE  Answer(w, r, gap, bad) \subseteq Rows
<1> SizeOf[w] \in Sizes
  OBVIOUS
<1>1. ASSUME NEW ds PROVE Bars(SizeOf[w], ds, bad) \subseteq Rows
  BY DEF TypeOK, Bars, Rows, Values, Slots, Impossible
<1>2. ASSUME NEW ds, NEW bars PROVE NullRows(SizeOf[w], ds, bars) \subseteq Rows
  BY DEF NullRows, Rows, Values, Empty
<1> QED
  BY <1>1, <1>2 DEF Answer

LEMMA ToWriteType ==
    ASSUME TypeOK, NEW w \in Writers PROVE ToWrite(w) \subseteq Rows
BY DEF TypeOK, ToWrite, Merged, Closed

LEMMA InitType == Init => TypeOK
<1> SUFFICES ASSUME Init PROVE TypeOK
  OBVIOUS
<1>1. LastDay * Per >= 1
  OBVIOUS
<1> QED
  BY <1>1 DEF Init, TypeOK

(* Going on to the next range leaves no frame behind.                      *)
LEMMA ContinueType ==
    ASSUME TypeOK, NEW w \in Writers, NEW left, Continue(w, left)
    PROVE  /\ pc' \in [Writers -> {"idle", "fetch", "read", "write"}]
           /\ frame' \in [Writers -> SUBSET Rows]
           /\ basis' \in [Writers -> SUBSET Rows]
           /\ \A v \in Writers : frame'[v] # {} <=> pc'[v] \in {"read", "write"}
BY DEF TypeOK, Continue

LEMMA StepType == TypeOK /\ [Next]_vars => TypeOK'
<1> SUFFICES ASSUME TypeOK, [Next]_vars PROVE TypeOK'
  OBVIOUS
<1>1. ASSUME NEW w \in Writers, Start(w) PROVE TypeOK'
  <2>1. todo' \in [Writers -> SUBSET RangeRecords]
    <3>1. CASE todo' = [todo EXCEPT ![w] = Ranges(MissingDays(SizeOf[w], Window(w)))]
      BY <3>1, RangesType DEF TypeOK, RangeRecords
    <3>2. CASE todo' = [todo EXCEPT ![w] = Whole(w)]
      BY <1>1, <3>2, WholeType DEF TypeOK, RangeRecords, Start
    <3> QED
      BY <1>1, <3>1, <3>2 DEF Start
  <2> QED
    BY <1>1, <2>1 DEF Start, TypeOK, RangeRecords, marketVars
<1>2. ASSUME NEW w \in Writers, Fetch(w) PROVE TypeOK'
  <2> PICK r \in NextRanges(w), gap \in SUBSET Days, bad \in SUBSET Slots(SizeOf[w]) :
        /\ pc[w] = "fetch"
        /\ UNCHANGED faults \/ Fault(w, "gap") \/ Fault(w, "bad")
        /\ todo' = [todo EXCEPT ![w] = @ \ {r}]
        /\ IF Answer(w, r, gap, bad) = {}
           THEN Continue(w, todo[w] \ {r})
           ELSE /\ pc' = [pc EXCEPT ![w] = IF Kind[w] = "cli" THEN "read" ELSE "write"]
                /\ frame' = [frame EXCEPT ![w] = Answer(w, r, gap, bad)]
                /\ UNCHANGED basis
        /\ UNCHANGED <<marketVars, store, landed>>
    BY <1>2 DEF Fetch
  <2>1. faults' \in 0 .. MaxFaults
    BY DEF Fault, TypeOK
  <2>2. todo' \in [Writers -> SUBSET [from : Days, to : Days, dates : BOOLEAN]]
    BY DEF TypeOK
  <2>3. CASE Answer(w, r, gap, bad) = {}
    BY <2>1, <2>2, <2>3, ContinueType DEF TypeOK, marketVars
  <2>4. CASE Answer(w, r, gap, bad) # {}
    <3>1. frame' \in [Writers -> SUBSET Rows]
      <4>1. Answer(w, r, gap, bad) \subseteq Rows
        BY AnswerType
      <4> QED
        BY <2>4, <4>1 DEF TypeOK
    <3>2. pc \in [Writers -> {"idle", "fetch", "read", "write"}]
          /\ frame \in [Writers -> SUBSET Rows]
          /\ \A v \in Writers : frame[v] # {} <=> pc[v] \in {"read", "write"}
      BY DEF TypeOK
    <3>3. \A v \in Writers \ {w} : frame'[v] = frame[v] /\ pc'[v] = pc[v]
      BY <2>4, <3>2
    <3>4. frame'[w] # {} /\ pc'[w] \in {"read", "write"}
      BY <2>4, <3>2
    <3>5. \A v \in Writers : frame'[v] # {} <=> pc'[v] \in {"read", "write"}
      BY <3>2, <3>3, <3>4
    <3> QED
      BY <2>1, <2>2, <2>4, <3>1, <3>5 DEF TypeOK, marketVars
  <2> QED
    BY <2>3, <2>4
<1>3. ASSUME NEW w \in Writers, FetchFails(w) PROVE TypeOK'
  BY <1>3, ContinueType DEF FetchFails, Fault, TypeOK, marketVars
<1>4. ASSUME NEW w \in Writers, MergeRead(w) PROVE TypeOK'
  BY <1>4 DEF MergeRead, TypeOK, marketVars
<1>5. ASSUME NEW w \in Writers, Write(w) PROVE TypeOK'
  <2>1. store' \in [Sizes -> SUBSET Rows]
    BY <1>5, ToWriteType DEF Write, StoreWrite, Replaced, Sound, TypeOK
  <2>2. landed' \in [Sizes -> SUBSET Rows]
    BY <1>5 DEF Write, TypeOK
  <2> QED
    BY <1>5, <2>1, <2>2, ContinueType DEF Write, TypeOK, marketVars
<1>6. ASSUME NEW w \in Writers, LockedOut(w) PROVE TypeOK'
  BY <1>6, ContinueType DEF LockedOut, Fault, TypeOK, marketVars
<1>7. ASSUME NEW w \in Writers, Crash(w) PROVE TypeOK'
  BY <1>7, ContinueType DEF Crash, Fault, TypeOK, marketVars
<1>8. CASE Advance
  <2>1. now' \in 0 .. LastDay * Per - 1
    BY <1>8 DEF Advance, TypeOK
  <2> QED
    BY <1>8, <2>1 DEF Advance, TypeOK, writerVars
<1>9. CASE Revise
  <2>1. revision' \in [Sizes -> [Pos -> 1 .. MaxRev]]
    BY <1>9 DEF Revise, TypeOK, Slots
  <2> QED
    BY <1>9, <2>1 DEF Revise, TypeOK, writerVars
<1>10. CASE UNCHANGED vars
  BY <1>10 DEF vars, TypeOK, marketVars, writerVars
<1> QED
  BY <1>1, <1>2, <1>3, <1>4, <1>5, <1>6, <1>7, <1>8, <1>9, <1>10 DEF Next, Job

(* Every variable keeps its type: a job has a frame only between its fetch *)
(* and its write (IBHistoryWorker, TickData.write).                        *)
THEOREM TypeCorrect == Spec => []TypeOK
BY InitType, StepType, PTL DEF Spec
-----------------------------------------------------------------------------
(* What is stored, fetched and read has one row per timestamp.             *)
SeriesInv ==
    /\ Series
    /\ \A w \in Writers : OneEach(frame[w]) /\ OneEach(basis[w])

(* A null row is never marked where the answer has a bar.                  *)
LEMMA AnswerOneEach ==
    ASSUME TypeOK, NEW w \in Writers, NEW r, NEW gap, NEW bad
    PROVE  OneEach(Answer(w, r, gap, bad))
<1> DEFINE s    == SizeOf[w]
           bars == Bars(s, Covered(w, r) \ gap, bad)
           null == NullRows(s, Covered(w, r), bars)
<1>1. OneEach(bars)
  BY DEF OneEach, Bars
<1>2. OneEach(null)
  <2>1. \A x \in null : x = [p |-> x.p, v |-> Empty]
    BY DEF NullRows
  <2> HIDE DEF null
  <2> QED
    BY <2>1 DEF OneEach
<1>3. \A x \in bars, y \in null : x.p # y.p
  <2> HIDE DEF bars
  <2>1. \A y \in null : ~ \E x \in bars : DayOf(x.p) = DayOf(y.p)
    BY DEF NullRows
  <2> HIDE DEF null
  <2> QED
    BY <2>1
<1>4. OneEach(bars \cup null)
  BY <1>1, <1>2, <1>3 DEF OneEach
<1> QED
  BY <1>1, <1>4 DEF Answer

(* The fetched bar takes the place of the stored one.                      *)
LEMMA MergedOneEach ==
    ASSUME NEW old, NEW new, OneEach(old), OneEach(new)
    PROVE  OneEach(Merged(old, new))
BY DEF OneEach, Merged

(* The range DELETE takes every row the INSERT brings back.                *)
LEMMA ReplacedOneEach ==
    ASSUME NEW old, NEW rows \in SUBSET Rows, OneEach(old), OneEach(rows)
    PROVE  OneEach(Replaced(old, rows))
<1>1. \A y \in rows : y.p <= y.p
  BY DEF Rows, Pos
<1>2. \A x \in old, y \in rows : x.p = y.p => Spanned(rows, x.p)
  BY <1>1 DEF Spanned
<1> QED
  BY <1>2 DEF Replaced, OneEach

LEMMA ToWriteOneEach ==
    ASSUME SeriesInv, NEW w \in Writers PROVE OneEach(Sound(ToWrite(w)))
<1>1. OneEach(frame[w]) /\ OneEach(basis[w])
  BY DEF SeriesInv
<1>2. OneEach(Closed(frame[w]))
  BY <1>1 DEF OneEach, Closed
<1>3. OneEach(Merged(basis[w], Closed(frame[w])))
  BY <1>1, <1>2, MergedOneEach
<1>4. OneEach(ToWrite(w))
  BY <1>1, <1>3 DEF ToWrite, OneEach
<1> QED
  BY <1>4 DEF OneEach, Sound

LEMMA InitSeries == Init => SeriesInv
BY DEF Init, SeriesInv, Series, OneEach

LEMMA ContinueSeries ==
    ASSUME TypeOK, SeriesInv, NEW w \in Writers, NEW left, Continue(w, left)
    PROVE  \A v \in Writers : OneEach(frame'[v]) /\ OneEach(basis'[v])
<1>1. OneEach({})
  BY DEF OneEach
<1> QED
  BY <1>1 DEF TypeOK, SeriesInv, Continue

LEMMA StepSeries == TypeOK /\ SeriesInv /\ [Next]_vars => SeriesInv'
<1> SUFFICES ASSUME TypeOK, SeriesInv, [Next]_vars PROVE SeriesInv'
  OBVIOUS
<1>0. ASSUME UNCHANGED store, \A v \in Writers : OneEach(frame'[v]) /\ OneEach(basis'[v])
      PROVE  SeriesInv'
  BY <1>0 DEF SeriesInv, Series, OneEach
<1>1. ASSUME NEW w \in Writers, Start(w) PROVE SeriesInv'
  BY <1>0, <1>1 DEF Start, SeriesInv
<1>2. ASSUME NEW w \in Writers, Fetch(w) PROVE SeriesInv'
  <2> PICK r \in NextRanges(w), gap \in SUBSET Days, bad \in SUBSET Slots(SizeOf[w]) :
        /\ IF Answer(w, r, gap, bad) = {}
           THEN Continue(w, todo[w] \ {r})
           ELSE /\ frame' = [frame EXCEPT ![w] = Answer(w, r, gap, bad)]
                /\ UNCHANGED basis
        /\ UNCHANGED store
    BY <1>2 DEF Fetch
  <2>1. CASE Answer(w, r, gap, bad) = {}
    BY <1>0, <2>1, ContinueSeries
  <2>2. CASE Answer(w, r, gap, bad) # {}
    <3>1. OneEach(Answer(w, r, gap, bad))
      BY AnswerOneEach
    <3>2. \A v \in Writers : OneEach(frame'[v]) /\ OneEach(basis'[v])
      BY <2>2, <3>1 DEF SeriesInv, TypeOK
    <3> QED
      BY <1>0, <3>2
  <2> QED
    BY <2>1, <2>2
<1>3. ASSUME NEW w \in Writers, FetchFails(w) PROVE SeriesInv'
  BY <1>0, <1>3, ContinueSeries DEF FetchFails
<1>4. ASSUME NEW w \in Writers, MergeRead(w) PROVE SeriesInv'
  <2>1. OneEach(store[SizeOf[w]])
    BY DEF SeriesInv, Series
  <2>2. \A v \in Writers : OneEach(frame'[v]) /\ OneEach(basis'[v])
    BY <1>4, <2>1 DEF MergeRead, SeriesInv, TypeOK
  <2> QED
    BY <1>0, <1>4, <2>2 DEF MergeRead
<1>5. ASSUME NEW w \in Writers, Write(w) PROVE SeriesInv'
  <2> DEFINE rows == Sound(ToWrite(w))
             s    == SizeOf[w]
  <2>1. rows \in SUBSET Rows /\ OneEach(rows)
    BY ToWriteType, ToWriteOneEach DEF Sound
  <2>2. store' = [store EXCEPT ![s] = Replaced(store[s], rows)]
    BY <1>5 DEF Write, StoreWrite
  <2>3. OneEach(store[s]) /\ \A x \in store[s] : x.v # Impossible
    BY DEF SeriesInv, Series
  <2>4. OneEach(Replaced(store[s], rows))
    BY <2>1, <2>3, ReplacedOneEach
  <2>5. \A x \in Replaced(store[s], rows) : x.v # Impossible
    BY <2>3 DEF Replaced, Sound
  <2>6. Series'
    <3> SUFFICES ASSUME NEW t \in Sizes
                 PROVE  OneEach(store'[t]) /\ \A x \in store'[t] : x.v # Impossible
      BY DEF Series, OneEach
    <3>1. CASE t = s
      <4>1. store'[t] = Replaced(store[s], rows)
        BY <2>2, <3>1 DEF TypeOK
      <4> QED
        BY <2>4, <2>5, <4>1
    <3>2. CASE t # s
      <4>1. store'[t] = store[t]
        BY <2>2, <3>2 DEF TypeOK
      <4> QED
        BY <4>1 DEF SeriesInv, Series
    <3> QED
      BY <3>1, <3>2
  <2>7. \A v \in Writers : OneEach(frame'[v]) /\ OneEach(basis'[v])
    BY <1>5, ContinueSeries DEF Write
  <2> QED
    BY <2>6, <2>7 DEF SeriesInv, OneEach
<1>6. ASSUME NEW w \in Writers, LockedOut(w) PROVE SeriesInv'
  BY <1>0, <1>6, ContinueSeries DEF LockedOut
<1>7. ASSUME NEW w \in Writers, Crash(w) PROVE SeriesInv'
  BY <1>0, <1>7, ContinueSeries DEF Crash
<1>8. CASE Advance \/ Revise \/ UNCHANGED vars
  <2>1. UNCHANGED <<store, frame, basis>>
    BY <1>8 DEF Advance, Revise, vars, writerVars
  <2> QED
    BY <1>0, <2>1 DEF SeriesInv
<1> QED
  BY <1>1, <1>2, <1>3, <1>4, <1>5, <1>6, <1>7, <1>8 DEF Next, Job

(* No bar is stored twice and none is impossible, whichever processes merge *)
(* and write directly, on the same bar size too (DuckDBDataStore.write).   *)
THEOREM OneSeries == Spec => []Series
<1>1. Init => TypeOK /\ SeriesInv
  BY InitType, InitSeries
<1>2. TypeOK /\ SeriesInv /\ [Next]_vars => (TypeOK /\ SeriesInv)'
  BY StepType, StepSeries
<1>3. SeriesInv => Series
  BY DEF SeriesInv
<1> QED
  BY <1>1, <1>2, <1>3, PTL DEF Spec
-----------------------------------------------------------------------------
(***************************************************************************)
(* What was written stays                                                  *)
(***************************************************************************)
(* The two conditions: one writer per bar size, since write_resolve_overlap*)
(* reads in one transaction and writes in another; and a writer that takes *)
(* a range with stored days in it merges, and gets no impossible bar.      *)
Overwrites(w) == {"whole", "force"} \cap Faults[w] # {}

OwnSizes == \A v, w \in Writers : SizeOf[v] = SizeOf[w] => v = w

SoundOverwrites == \A w \in Writers : Overwrites(w) => Kind[w] = "cli" /\ "bad" \notin Faults[w]

SpanOf(r) == r.from .. r.to

(* The ranges to fetch are apart and hold no stored bar.                   *)
RangesInv(w) ==
    /\ \A r \in todo[w] :
          \/ Overwrites(w)
          \/ \A x \in store[SizeOf[w]] : Real(x) => DayOf(x.p) \notin SpanOf(r)
    /\ \A q, r \in todo[w] : q # r => SpanOf(q) \cap SpanOf(r) = {}

(* No stored bar lies between the days of a frame, none of its days is to  *)
(* be fetched again, its bars are no older than those that landed, and what*)
(* a merge is based on is still what is stored.                            *)
FrameInv(w) ==
    /\ \/ Overwrites(w)
       \/ \A a, b \in frame[w], x \in store[SizeOf[w]] :
             Real(x) => ~ (DayOf(a.p) <= DayOf(x.p) /\ DayOf(x.p) <= DayOf(b.p))
    /\ \A a \in frame[w], r \in todo[w] : DayOf(a.p) \notin SpanOf(r)
    /\ \A y \in frame[w] :
          /\ Overwrites(w) => Real(y) \/ y.v = Empty
          /\ Real(y) => y.v <= revision[SizeOf[w]][y.p]
          /\ Real(y) => \A x \in landed[SizeOf[w]] : x.p = y.p => x.v <= y.v
    /\ pc[w] = "write" /\ Kind[w] = "cli" => basis[w] = store[SizeOf[w]]

LandedInv == \A s \in Sizes : \A x \in landed[s] : Real(x) /\ x.v <= revision[s][x.p]

KeptInv ==
    /\ LandedInv
    /\ \A w \in Writers : RangesInv(w) /\ FrameInv(w)
    /\ NothingLost

(* A DELETE from one date to another stays within their days.              *)
LEMMA DayMonotone ==
    ASSUME NEW n \in Nat \ {0}, NEW p \in Nat, NEW q \in Nat, p <= q
    PROVE  p \div n <= q \div n
OBVIOUS

LEMMA SpannedDays ==
    ASSUME NEW rows \in SUBSET Rows, NEW p \in Pos, Spanned(rows, p)
    PROVE  /\ DayOf(p) \in Int
           /\ \E a, b \in rows : DayOf(a.p) <= DayOf(p) /\ DayOf(p) <= DayOf(b.p)
<1>1. PICK a \in rows, b \in rows : a.p <= p /\ p <= b.p
  BY DEF Spanned
<1>2. a.p \in Nat /\ b.p \in Nat /\ p \in Nat /\ Per + 1 \in Nat \ {0}
  BY DEF Rows, Pos
<1>3. a.p \div (Per + 1) <= p \div (Per + 1) /\ p \div (Per + 1) <= b.p \div (Per + 1)
  BY <1>1, <1>2, DayMonotone
<1>4. /\ a.p \div (Per + 1) \in Int /\ p \div (Per + 1) \in Int /\ b.p \div (Per + 1) \in Int
  BY <1>2
<1> QED
  BY <1>3, <1>4 DEF DayOf

LEMMA DayType ==
    ASSUME NEW x \in Rows PROVE x.p \in Pos /\ DayOf(x.p) \in Int /\ x.v \in Int
<1>1. x.p \in Nat /\ Per + 1 \in Nat \ {0} /\ x.p \in Pos /\ x.v \in Int
  BY DEF Rows, Pos, Values, Impossible, Empty
<1> QED
  BY <1>1 DEF DayOf

(* missing() asks for no day that has a bar, and for no day twice.         *)
LEMMA RangesClean ==
    ASSUME NEW s, NEW window, NEW r \in Ranges(MissingDays(s, window)),
           NEW x \in store[s], Real(x)
    PROVE  DayOf(x.p) \notin SpanOf(r)
<1>1. SpanOf(r) \subseteq MissingDays(s, window)
  BY DEF Ranges, SpanOf
<1> QED
  BY <1>1 DEF MissingDays

LEMMA RangeParts ==
    ASSUME NEW missing, NEW r \in Ranges(missing)
    PROVE  /\ r = [from |-> r.from, to |-> r.to, dates |-> TRUE]
           /\ r.from \in Int /\ r.to \in Int
           /\ \A d \in Int : r.from <= d /\ d <= r.to => d \in missing
           /\ r.from - 1 \notin missing /\ r.to + 1 \notin missing
<1>1. /\ r \in [from : Days, to : Days, dates : {TRUE}]
      /\ r.from .. r.to \subseteq missing
      /\ r.from - 1 \notin missing /\ r.to + 1 \notin missing
  BY DEF Ranges
<1>2. Days \subseteq Int
  BY DEF Days
<1>3. r.from \in Int /\ r.to \in Int /\ r = [from |-> r.from, to |-> r.to, dates |-> TRUE]
  BY <1>1, <1>2
<1> QED
  BY <1>1, <1>3

LEMMA RangesApart ==
    ASSUME NEW missing, NEW q \in Ranges(missing), NEW r \in Ranges(missing), q # r
    PROVE  SpanOf(q) \cap SpanOf(r) = {}
<1>1. /\ q = [from |-> q.from, to |-> q.to, dates |-> TRUE]
      /\ q.from \in Int /\ q.to \in Int
      /\ \A d \in Int : q.from <= d /\ d <= q.to => d \in missing
      /\ q.from - 1 \notin missing /\ q.to + 1 \notin missing
  BY RangeParts
<1>2. /\ r = [from |-> r.from, to |-> r.to, dates |-> TRUE]
      /\ r.from \in Int /\ r.to \in Int
      /\ \A d \in Int : r.from <= d /\ d <= r.to => d \in missing
      /\ r.from - 1 \notin missing /\ r.to + 1 \notin missing
  BY RangeParts
<1>3. SUFFICES ASSUME NEW d \in Int, q.from <= d, d <= q.to, r.from <= d, d <= r.to PROVE FALSE
  BY <1>1, <1>2 DEF SpanOf
<1>4. q.from = r.from
  <2>1. CASE q.from < r.from
    BY <1>1, <1>2, <1>3, <2>1
  <2>2. CASE r.from < q.from
    BY <1>1, <1>2, <1>3, <2>2
  <2> QED
    BY <1>1, <1>2, <2>1, <2>2
<1>5. q.to = r.to
  <2>1. CASE q.to < r.to
    BY <1>1, <1>2, <1>3, <2>1
  <2>2. CASE r.to < q.to
    BY <1>1, <1>2, <1>3, <2>2
  <2> QED
    BY <1>1, <1>2, <2>1, <2>2
<1> QED
  BY <1>1, <1>2, <1>4, <1>5

(* An answer is about the days that were asked for, and its bars are the   *)
(* source's as they are now.                                               *)
LEMMA AnswerParts ==
    ASSUME TypeOK, NEW w \in Writers, NEW r \in RangeRecords, NEW gap,
           NEW bad \in SUBSET Slots(SizeOf[w]), NEW y \in Answer(w, r, gap, bad)
    PROVE  /\ DayOf(y.p) \in SpanOf(r)
           /\ Real(y) => y.v = revision[SizeOf[w]][y.p]
           /\ bad = {} => Real(y) \/ y.v = Empty
<1> DEFINE s    == SizeOf[w]
           bars == Bars(s, Covered(w, r) \ gap, bad)
<1>1. Covered(w, r) \subseteq SpanOf(r)
  BY DEF Covered, SpanOf, RangeRecords, Days
<1>2. s \in Sizes
  OBVIOUS
<1>3. ASSUME y \in bars
      PROVE  /\ DayOf(y.p) \in Covered(w, r)
             /\ Real(y) => y.v = revision[s][y.p]
             /\ bad = {} => Real(y)
  <2>1. PICK q \in Slots(s) :
            /\ DayOf(q) \in Covered(w, r)
            /\ y = [p |-> q, v |-> IF q \in bad THEN Impossible ELSE revision[s][q]]
    BY <1>3 DEF Bars
  <2>2. revision[s][q] \in 1 .. MaxRev
    BY <1>2 DEF TypeOK, Slots
  <2> QED
    BY <2>1, <2>2 DEF Real, Impossible
<1>4. ASSUME y \in NullRows(s, Covered(w, r), bars)
      PROVE  DayOf(y.p) \in Covered(w, r) /\ y.v = Empty
  BY <1>4 DEF NullRows
<1>5. y \in bars \/ y \in NullRows(s, Covered(w, r), bars)
  BY DEF Answer
<1> HIDE DEF s, bars
<1> QED
  BY <1>1, <1>3, <1>4, <1>5 DEF Real, Empty, s

(* The source only ever revises upwards.                                   *)
Newer == \A s \in Sizes : \A p \in Pos : revision[s][p] <= revision'[s][p]

LEMMA SameIsNewer == TypeOK /\ revision' = revision => Newer
<1> SUFFICES ASSUME TypeOK, revision' = revision, NEW s \in Sizes, NEW p \in Pos
             PROVE  revision[s][p] <= revision'[s][p]
  BY DEF Newer
<1>1. revision[s][p] \in 1 .. MaxRev
  BY DEF TypeOK
<1> QED
  BY <1>1

(* A writer whose bar size and whose own variables a step leaves alone.    *)
LEMMA WriterKept ==
    ASSUME TypeOK, TypeOK', KeptInv, Newer, NEW v \in Writers,
           store'[SizeOf[v]] = store[SizeOf[v]], landed'[SizeOf[v]] = landed[SizeOf[v]],
           todo'[v] = todo[v], frame'[v] = frame[v], basis'[v] = basis[v], pc'[v] = pc[v]
    PROVE  RangesInv(v)' /\ FrameInv(v)'
<1>1. RangesInv(v) /\ FrameInv(v) /\ SizeOf[v] \in Sizes
  BY DEF KeptInv
<1>2. RangesInv(v)'
  BY <1>1 DEF RangesInv
<1>3. ASSUME NEW y \in frame[v], Real(y) PROVE y.v <= revision'[SizeOf[v]][y.p]
  <2>1. y \in Rows /\ y.p \in Pos /\ y.v \in Int
    BY DayType DEF TypeOK
  <2>2. revision[SizeOf[v]][y.p] \in Int /\ revision'[SizeOf[v]][y.p] \in Int
    BY <1>1, <2>1 DEF TypeOK
  <2>3. revision[SizeOf[v]][y.p] <= revision'[SizeOf[v]][y.p]
    BY <1>1, <2>1 DEF Newer
  <2>4. y.v <= revision[SizeOf[v]][y.p]
    BY <1>1, <1>3 DEF FrameInv
  <2> QED
    BY <2>1, <2>2, <2>3, <2>4
<1>4. FrameInv(v)'
  BY <1>1, <1>3 DEF FrameInv
<1> QED
  BY <1>2, <1>4

(* A step that writes nothing: its writers' invariants are all it owes.    *)
LEMMA NoWrite ==
    ASSUME TypeOK, TypeOK', KeptInv, Newer, UNCHANGED <<store, landed>>,
           \A v \in Writers : RangesInv(v)' /\ FrameInv(v)'
    PROVE  KeptInv'
<1>1. LandedInv'
  <2> SUFFICES ASSUME NEW s \in Sizes, NEW x \in landed[s]
               PROVE  Real(x) /\ x.v <= revision'[s][x.p]
    BY DEF LandedInv
  <2>1. x \in Rows /\ x.p \in Pos /\ x.v \in Int
    BY DayType DEF TypeOK
  <2>2. revision[s][x.p] \in Int /\ revision'[s][x.p] \in Int
    BY <2>1 DEF TypeOK
  <2>3. Real(x) /\ x.v <= revision[s][x.p] /\ revision[s][x.p] <= revision'[s][x.p]
    BY <2>1 DEF KeptInv, LandedInv, Newer
  <2> QED
    BY <2>1, <2>2, <2>3
<1>2. NothingLost'
  BY DEF KeptInv, NothingLost
<1> QED
  BY <1>1, <1>2 DEF KeptInv

(* A range is done with, whatever came of it, and nothing was written.     *)
LEMMA LeaveRange ==
    ASSUME TypeOK, TypeOK', KeptInv, NEW w \in Writers, NEW left, Continue(w, left),
           UNCHANGED <<marketVars, store, landed>>,
           todo'[w] \subseteq todo[w],
           \A v \in Writers : v # w => todo'[v] = todo[v]
    PROVE  KeptInv'
<1>1. Newer
  BY SameIsNewer DEF marketVars
<1>2. ASSUME NEW v \in Writers, v # w PROVE RangesInv(v)' /\ FrameInv(v)'
  BY <1>1, <1>2, WriterKept DEF Continue, TypeOK
<1>3. RangesInv(w)'
  BY DEF KeptInv, RangesInv
<1>4. FrameInv(w)'
  <2>1. frame'[w] = {} /\ pc'[w] \in {"idle", "fetch"}
    BY DEF Continue, TypeOK
  <2> QED
    BY <2>1 DEF FrameInv
<1> QED
  BY <1>1, <1>2, <1>3, <1>4, NoWrite

LEMMA StartKept ==
    ASSUME TypeOK, TypeOK', KeptInv, NEW w \in Writers, Start(w) PROVE KeptInv'
<1>1. Newer
  BY SameIsNewer DEF Start, marketVars
<1>2. /\ pc[w] = "idle" /\ pc' = [pc EXCEPT ![w] = "fetch"]
      /\ UNCHANGED <<store, landed, frame, basis>>
      /\ \/ todo' = [todo EXCEPT ![w] = Ranges(MissingDays(SizeOf[w], Window(w)))]
         \/ Overwrites(w) /\ todo' = [todo EXCEPT ![w] = Whole(w)]
  BY DEF Start, Overwrites
<1>3. ASSUME NEW v \in Writers, v # w PROVE RangesInv(v)' /\ FrameInv(v)'
  BY <1>1, <1>2, <1>3, WriterKept DEF TypeOK
<1>4. RangesInv(w)'
  <2>1. CASE todo' = [todo EXCEPT ![w] = Ranges(MissingDays(SizeOf[w], Window(w)))]
    <3>1. todo'[w] = Ranges(MissingDays(SizeOf[w], Window(w)))
      BY <2>1 DEF TypeOK
    <3> QED
      BY <1>2, <3>1, RangesClean, RangesApart DEF RangesInv
  <2>2. CASE Overwrites(w) /\ todo' = [todo EXCEPT ![w] = Whole(w)]
    <3>1. todo'[w] = Whole(w)
      BY <2>2 DEF TypeOK
    <3> QED
      BY <2>2, <3>1 DEF RangesInv, Whole
  <2> QED
    BY <1>2, <2>1, <2>2
<1>5. FrameInv(w)'
  <2>1. frame'[w] = {} /\ pc'[w] = "fetch"
    BY <1>2 DEF TypeOK
  <2> QED
    BY <2>1 DEF FrameInv
<1> QED
  BY <1>1, <1>2, <1>3, <1>4, <1>5, NoWrite

LEMMA FetchKept ==
    ASSUME OwnSizes, SoundOverwrites, TypeOK, TypeOK', KeptInv, NEW w \in Writers, Fetch(w)
    PROVE  KeptInv'
<1> PICK r \in NextRanges(w), gap \in SUBSET Days, bad \in SUBSET Slots(SizeOf[w]) :
        /\ bad # {} => "bad" \in Faults[w]
        /\ todo' = [todo EXCEPT ![w] = @ \ {r}]
        /\ IF Answer(w, r, gap, bad) = {}
           THEN Continue(w, todo[w] \ {r})
           ELSE /\ pc' = [pc EXCEPT ![w] = IF Kind[w] = "cli" THEN "read" ELSE "write"]
                /\ frame' = [frame EXCEPT ![w] = Answer(w, r, gap, bad)]
                /\ UNCHANGED basis
        /\ UNCHANGED <<marketVars, store, landed>>
  BY DEF Fetch, Fault
<1>1. /\ r \in RangeRecords /\ r \in todo[w] /\ todo'[w] = todo[w] \ {r}
      /\ \A v \in Writers : v # w => todo'[v] = todo[v]
  BY DEF NextRanges, TypeOK, RangeRecords
<1>2. CASE Answer(w, r, gap, bad) = {}
  BY <1>1, <1>2, LeaveRange
<1>3. CASE Answer(w, r, gap, bad) # {}
  <2>1. Newer
    BY SameIsNewer DEF marketVars
  <2>2. /\ frame'[w] = Answer(w, r, gap, bad) /\ basis' = basis
        /\ pc'[w] = IF Kind[w] = "cli" THEN "read" ELSE "write"
        /\ \A v \in Writers : v # w => frame'[v] = frame[v] /\ pc'[v] = pc[v]
    BY <1>3 DEF TypeOK
  <2>3. ASSUME NEW v \in Writers, v # w PROVE RangesInv(v)' /\ FrameInv(v)'
    BY <1>1, <2>1, <2>2, <2>3, WriterKept
  <2>4. RangesInv(w) /\ FrameInv(w) /\ SizeOf[w] \in Sizes
    BY DEF KeptInv
  <2>5. RangesInv(w)'
    BY <1>1, <2>4 DEF RangesInv
  <2>6. ASSUME NEW y \in frame'[w]
        PROVE  /\ y \in Rows /\ DayOf(y.p) \in SpanOf(r)
               /\ Real(y) => y.v = revision[SizeOf[w]][y.p]
               /\ Overwrites(w) => Real(y) \/ y.v = Empty
    <3>1. y \in Answer(w, r, gap, bad)
      BY <2>2
    <3>2. DayOf(y.p) \in SpanOf(r)
      BY <1>1, <3>1, AnswerParts
    <3>3. Real(y) => y.v = revision[SizeOf[w]][y.p]
      BY <1>1, <3>1, AnswerParts
    <3>4. Overwrites(w) => Real(y) \/ y.v = Empty
      BY <1>1, <3>1, AnswerParts DEF SoundOverwrites
    <3>5. y \in Rows
      BY DEF TypeOK
    <3> QED
      BY <3>2, <3>3, <3>4, <3>5
  <2>7. \/ Overwrites(w)
        \/ \A a, b \in frame'[w], x \in store[SizeOf[w]] :
              Real(x) => ~ (DayOf(a.p) <= DayOf(x.p) /\ DayOf(x.p) <= DayOf(b.p))
    <3> SUFFICES ASSUME ~Overwrites(w), NEW a \in frame'[w], NEW b \in frame'[w],
                        NEW x \in store[SizeOf[w]], Real(x),
                        DayOf(a.p) <= DayOf(x.p), DayOf(x.p) <= DayOf(b.p)
                 PROVE  FALSE
      OBVIOUS
    <3>1. DayOf(x.p) \notin SpanOf(r)
      BY <1>1, <2>4 DEF RangesInv
    <3>2. x \in Rows
      BY <2>4 DEF TypeOK
    <3>3. DayOf(x.p) \in Int /\ DayOf(a.p) \in Int /\ DayOf(b.p) \in Int
      BY <2>6, <3>2, DayType
    <3>4. r.from \in Int /\ r.to \in Int
      BY <1>1 DEF RangeRecords, Days
    <3>5. DayOf(a.p) \in SpanOf(r) /\ DayOf(b.p) \in SpanOf(r)
      BY <2>6
    <3> QED
      BY <3>1, <3>3, <3>4, <3>5 DEF SpanOf
  <2>8. \A a \in frame'[w], q \in todo'[w] : DayOf(a.p) \notin SpanOf(q)
    BY <1>1, <2>4, <2>6 DEF RangesInv
  <2>9. ASSUME NEW y \in frame'[w]
        PROVE  /\ Overwrites(w) => Real(y) \/ y.v = Empty
               /\ Real(y) => y.v <= revision'[SizeOf[w]][y.p]
               /\ Real(y) => \A x \in landed'[SizeOf[w]] : x.p = y.p => x.v <= y.v
    <3>1. y.v \in Int
      BY <2>6, DayType
    <3>2. \A x \in landed[SizeOf[w]] : x.v <= revision[SizeOf[w]][x.p]
      BY <2>4 DEF KeptInv, LandedInv
    <3> QED
      BY <2>6, <3>1, <3>2 DEF marketVars
  <2>10. FrameInv(w)'
    <3>1. pc'[w] = "write" => Kind[w] # "cli"
      BY <2>2
    <3>2. store' = store
      OBVIOUS
    <3> QED
      BY <2>7, <2>8, <2>9, <3>1, <3>2 DEF FrameInv
  <2> QED
    BY <2>1, <2>3, <2>5, <2>10, NoWrite
<1> QED
  BY <1>2, <1>3

LEMMA MergeReadKept ==
    ASSUME TypeOK, TypeOK', KeptInv, NEW w \in Writers, MergeRead(w) PROVE KeptInv'
<1>1. Newer
  BY SameIsNewer DEF MergeRead, marketVars
<1>2. /\ pc' = [pc EXCEPT ![w] = "write"] /\ basis' = [basis EXCEPT ![w] = store[SizeOf[w]]]
      /\ UNCHANGED <<marketVars, store, todo, frame, landed>>
  BY DEF MergeRead
<1>3. ASSUME NEW v \in Writers, v # w PROVE RangesInv(v)' /\ FrameInv(v)'
  BY <1>1, <1>2, <1>3, WriterKept DEF TypeOK
<1>4. basis'[w] = store'[SizeOf[w]]
  BY <1>2 DEF TypeOK
<1>5. RangesInv(w)' /\ FrameInv(w)'
  BY <1>2, <1>4 DEF KeptInv, RangesInv, FrameInv, marketVars
<1> QED
  BY <1>1, <1>2, <1>3, <1>5, NoWrite

(* What one write does to the bars of its size.                            *)
LEMMA WriteParts ==
    ASSUME TypeOK, KeptInv, NEW w \in Writers, Write(w)
    PROVE  /\ store' = [store EXCEPT ![SizeOf[w]] = Replaced(@, Sound(ToWrite(w)))]
           /\ landed' = [landed EXCEPT ![SizeOf[w]] = @ \cup {x \in frame[w] : Real(x)}]
           /\ Sound(ToWrite(w)) \in SUBSET Rows
           /\ Kind[w] = "cli" => Sound(ToWrite(w)) \subseteq store[SizeOf[w]] \cup Closed(frame[w])
           /\ Kind[w] # "cli" => Sound(ToWrite(w)) \subseteq frame[w]
           /\ \A x \in frame[w] : Real(x) => x \in Sound(ToWrite(w))
           /\ \A x \in store[SizeOf[w]] \cup frame[w] : x \in Rows
<1>1. /\ store' = [store EXCEPT ![SizeOf[w]] = Replaced(@, Sound(ToWrite(w)))]
      /\ landed' = [landed EXCEPT ![SizeOf[w]] = @ \cup {x \in frame[w] : Real(x)}]
  BY DEF Write, StoreWrite
<1>2. Sound(ToWrite(w)) \in SUBSET Rows
  BY ToWriteType DEF Sound
<1>3. Kind[w] = "cli" => basis[w] = store[SizeOf[w]]
  BY DEF Write, KeptInv, FrameInv
<1>4. /\ Kind[w] = "cli" => Sound(ToWrite(w)) \subseteq store[SizeOf[w]] \cup Closed(frame[w])
      /\ Kind[w] # "cli" => Sound(ToWrite(w)) \subseteq frame[w]
  BY <1>3 DEF Sound, ToWrite, Merged
<1>5. ASSUME NEW x \in frame[w], Real(x) PROVE x \in Sound(ToWrite(w))
  <2>1. x \in Closed(frame[w]) /\ x.v # Impossible
    BY <1>5 DEF Closed, Real, Empty, Impossible
  <2> QED
    BY <2>1 DEF Sound, ToWrite, Merged
<1>6. \A x \in store[SizeOf[w]] \cup frame[w] : x \in Rows
  BY DEF TypeOK
<1> QED
  BY <1>1, <1>2, <1>4, <1>5, <1>6

(* A stored bar is in no place a direct write deletes or fills.            *)
LEMMA DirectApart ==
    ASSUME SoundOverwrites, TypeOK, KeptInv, NEW w \in Writers, Write(w), Kind[w] # "cli",
           NEW y \in store[SizeOf[w]], Real(y)
    PROVE  /\ ~Spanned(Sound(ToWrite(w)), y.p)
           /\ \A e \in frame[w] : e.p # y.p
<1> DEFINE rows == Sound(ToWrite(w))
<1>1. rows \in SUBSET Rows /\ rows \subseteq frame[w] /\ y \in Rows /\ frame[w] \subseteq Rows
  BY WriteParts
<1>2. \A a, b \in frame[w] : ~ (DayOf(a.p) <= DayOf(y.p) /\ DayOf(y.p) <= DayOf(b.p))
  BY DEF SoundOverwrites, KeptInv, FrameInv
<1>3. y.p \in Pos /\ DayOf(y.p) \in Int
  BY <1>1, DayType
<1> HIDE DEF rows
<1>4. ~Spanned(rows, y.p)
  BY <1>1, <1>2, <1>3, SpannedDays
<1>5. \A e \in frame[w] : e.p # y.p
  BY <1>2, <1>3
<1> QED
  BY <1>4, <1>5 DEF rows

(* A bar that landed survives the write of its own size.                   *)
LEMMA WriteKeepsBar ==
    ASSUME SoundOverwrites, TypeOK, SeriesInv, KeptInv, NEW w \in Writers, Write(w),
           NEW x \in landed[SizeOf[w]]
    PROVE  \E z \in Replaced(store[SizeOf[w]], Sound(ToWrite(w))) : z.p = x.p /\ z.v >= x.v
<1> DEFINE s    == SizeOf[w]
           rows == Sound(ToWrite(w))
<1>1. s \in Sizes /\ LandedInv /\ NothingLost /\ FrameInv(w)
  BY DEF KeptInv
<1>2. PICK y \in store[s] : y.p = x.p /\ y.v >= x.v
  BY <1>1 DEF NothingLost
<1>3. Real(x) /\ x \in Rows /\ y \in Rows
  BY <1>1 DEF LandedInv, TypeOK
<1>4. Real(y) /\ y.v \in Int /\ x.v \in Int
  BY <1>2, <1>3, DayType DEF Real
<1>5. y \in rows => y \in Replaced(store[s], rows)
  BY DEF Replaced
<1>6. CASE Kind[w] # "cli"
  BY <1>2, <1>4, <1>6, DirectApart DEF Replaced
<1>7. CASE Kind[w] = "cli" /\ Closed(frame[w]) = {}
  <2>1. rows = {}
    BY <1>7 DEF ToWrite, Sound
  <2> QED
    BY <1>2, <2>1 DEF Replaced, Spanned
<1>8. CASE Kind[w] = "cli" /\ Closed(frame[w]) # {}
  <2>1. basis[w] = store[s]
    BY <1>1, <1>8 DEF Write, FrameInv
  <2>2. rows = Sound(Merged(store[s], Closed(frame[w])))
    BY <1>8, <2>1 DEF ToWrite
  <2>3. CASE \E z \in Closed(frame[w]) : z.p = y.p
    <3>1. PICK z \in frame[w] : z.p = y.p /\ z.v # Empty
      BY <2>3 DEF Closed
    <3>2. Overwrites(w)
      <4>1. DayOf(z.p) = DayOf(y.p) /\ DayOf(y.p) \in Int
        BY <1>3, <3>1, DayType
      <4> QED
        BY <1>1, <1>4, <4>1 DEF FrameInv
    <3>3. Real(z) /\ x.v <= z.v
      BY <1>1, <1>2, <3>1, <3>2 DEF FrameInv
    <3>4. z \in rows /\ z \in Rows
      BY <3>3, WriteParts
    <3> QED
      BY <1>2, <1>4, <3>1, <3>3, <3>4, DayType DEF Replaced
  <2>4. CASE ~ \E z \in Closed(frame[w]) : z.p = y.p
    <3>1. y \in Merged(store[s], Closed(frame[w]))
      BY <2>4 DEF Merged
    <3>2. y.v # Impossible
      BY <1>4 DEF Real, Impossible
    <3> QED
      BY <1>2, <1>5, <2>2, <3>1, <3>2 DEF Sound
  <2> QED
    BY <2>3, <2>4
<1> QED
  BY <1>6, <1>7, <1>8

LEMMA WriteKept ==
    ASSUME OwnSizes, SoundOverwrites, TypeOK, TypeOK', SeriesInv, KeptInv,
           NEW w \in Writers, Write(w)
    PROVE  KeptInv'
<1> DEFINE s    == SizeOf[w]
           rows == Sound(ToWrite(w))
<1>1. s \in Sizes /\ LandedInv /\ NothingLost /\ RangesInv(w) /\ FrameInv(w)
  BY DEF KeptInv
<1>2. /\ store'[s] = Replaced(store[s], rows)
      /\ landed'[s] = landed[s] \cup {x \in frame[w] : Real(x)}
      /\ \A t \in Sizes : t # s => store'[t] = store[t] /\ landed'[t] = landed[t]
  BY <1>1, WriteParts DEF TypeOK
<1>3. /\ rows \subseteq store[s] \cup frame[w]
      /\ \A x \in frame[w] : Real(x) => x \in rows
  BY WriteParts DEF Closed
<1>4. /\ frame'[w] = {} /\ pc'[w] \in {"idle", "fetch"} /\ UNCHANGED <<revision, todo>>
      /\ \A v \in Writers : v # w => frame'[v] = frame[v] /\ basis'[v] = basis[v] /\ pc'[v] = pc[v]
  BY DEF Write, Continue, TypeOK, marketVars
<1>5. Newer
  BY <1>4, SameIsNewer
<1>6. ASSUME NEW v \in Writers, v # w PROVE RangesInv(v)' /\ FrameInv(v)'
  <2>1. SizeOf[v] # s /\ SizeOf[v] \in Sizes
    BY <1>6 DEF OwnSizes
  <2> QED
    BY <1>2, <1>4, <1>5, <1>6, <2>1, WriterKept
<1>7. FrameInv(w)'
  BY <1>4 DEF FrameInv
<1>8. RangesInv(w)'
  <2>1. ASSUME ~Overwrites(w), NEW r \in todo[w], NEW x \in store'[s], Real(x)
        PROVE  DayOf(x.p) \notin SpanOf(r)
    <3>1. x \in store[s] \/ x \in frame[w]
      BY <1>2, <1>3 DEF Replaced
    <3> QED
      BY <1>1, <2>1, <3>1 DEF RangesInv, FrameInv
  <2> QED
    BY <1>1, <1>4, <2>1 DEF RangesInv
<1>9. LandedInv'
  <2> SUFFICES ASSUME NEW t \in Sizes, NEW x \in landed'[t]
               PROVE  Real(x) /\ x.v <= revision[t][x.p]
    BY <1>4 DEF LandedInv
  <2>1. CASE x \in landed[t]
    BY <1>1, <2>1 DEF LandedInv
  <2>2. CASE x \notin landed[t]
    <3>1. t = s /\ x \in frame[w] /\ Real(x)
      BY <1>2, <2>2
    <3> QED
      BY <1>1, <3>1 DEF FrameInv
  <2> QED
    BY <2>1, <2>2
<1>10. NothingLost'
  <2> SUFFICES ASSUME NEW t \in Sizes, NEW x \in landed'[t]
               PROVE  \E z \in store'[t] : z.p = x.p /\ z.v >= x.v
    BY DEF NothingLost
  <2>1. CASE t # s
    <3>1. x \in landed[t] /\ store'[t] = store[t]
      BY <1>2, <2>1
    <3> QED
      BY <1>1, <3>1 DEF NothingLost
  <2>2. CASE t = s /\ x \in landed[s]
    BY <1>2, <2>2, WriteKeepsBar
  <2>3. CASE t = s /\ x \notin landed[s]
    <3>1. x \in frame[w] /\ Real(x) /\ x \in Rows
      BY <1>2, <2>3 DEF TypeOK
    <3>2. x \in store'[s] /\ x.v \in Int
      BY <1>2, <1>3, <3>1, DayType DEF Replaced
    <3> QED
      BY <2>3, <3>2
  <2> QED
    BY <2>1, <2>2, <2>3
<1> HIDE DEF s, rows
<1> QED
  BY <1>6, <1>7, <1>8, <1>9, <1>10 DEF KeptInv

LEMMA ReviseIsNewer == ASSUME TypeOK, Revise PROVE Newer
<1>1. PICK s \in Sizes : \E p \in Slots(s) : revision' = [revision EXCEPT ![s][p] = @ + 1]
  BY DEF Revise
<1>2. PICK p \in Slots(s) : revision' = [revision EXCEPT ![s][p] = @ + 1]
  BY <1>1
<1> SUFFICES ASSUME NEW t \in Sizes, NEW q \in Pos PROVE revision[t][q] <= revision'[t][q]
  BY DEF Newer
<1>3. revision[t][q] \in 1 .. MaxRev /\ revision[s][p] \in 1 .. MaxRev
  BY DEF TypeOK, Slots
<1>4. revision'[t][q] = revision[t][q] \/ revision'[t][q] = revision[t][q] + 1
  BY <1>2 DEF TypeOK
<1> QED
  BY <1>3, <1>4

LEMMA InitKept == Init => KeptInv
BY DEF Init, KeptInv, LandedInv, RangesInv, FrameInv, NothingLost

LEMMA StepKept ==
    ASSUME OwnSizes, SoundOverwrites, TypeOK, SeriesInv, KeptInv, [Next]_vars
    PROVE  KeptInv'
<1>0. TypeOK'
  BY StepType
<1>1. ASSUME NEW w \in Writers, Job(w) PROVE KeptInv'
  BY <1>0, <1>1, StartKept, FetchKept, MergeReadKept, WriteKept DEF Job
<1>2. ASSUME NEW w \in Writers, FetchFails(w) \/ LockedOut(w) \/ Crash(w) PROVE KeptInv'
  <2>1. /\ \E left : Continue(w, left)
        /\ UNCHANGED <<marketVars, store, landed>>
        /\ \/ \E r : todo' = [todo EXCEPT ![w] = @ \ {r}]
           \/ todo' = todo
           \/ todo' = [todo EXCEPT ![w] = {}]
    BY <1>2 DEF FetchFails, LockedOut, Crash
  <2>2. todo'[w] \subseteq todo[w] /\ \A v \in Writers : v # w => todo'[v] = todo[v]
    BY <2>1 DEF TypeOK
  <2> QED
    BY <1>0, <2>1, <2>2, LeaveRange
<1>3. CASE Advance \/ Revise \/ UNCHANGED vars
  <2>1. UNCHANGED <<store, landed, todo, frame, basis, pc>>
    BY <1>3 DEF Advance, Revise, vars, writerVars
  <2>2. Newer
    BY <1>3, ReviseIsNewer, SameIsNewer DEF Advance, vars, marketVars
  <2>3. \A v \in Writers : RangesInv(v)' /\ FrameInv(v)'
    BY <1>0, <2>1, <2>2, WriterKept
  <2> QED
    BY <1>0, <2>1, <2>2, <2>3, NoWrite
<1> QED
  BY <1>1, <1>2, <1>3 DEF Next

(* With a bar size to each writer and only sound merges over stored days,  *)
(* a bar that a job wrote is there for good, through failed chunks, locks, *)
(* crashes and corrections (DuckDBDataStore.write, write_resolve_overlap). *)
THEOREM Kept ==
    ASSUME OwnSizes, SoundOverwrites
    PROVE  Spec => []NothingLost
<1>1. Init => TypeOK /\ SeriesInv /\ KeptInv
  BY InitType, InitSeries, InitKept
<1>2. TypeOK /\ SeriesInv /\ KeptInv /\ [Next]_vars => (TypeOK /\ SeriesInv /\ KeptInv)'
  BY StepType, StepSeries, StepKept
<1>3. KeptInv => NothingLost
  BY DEF KeptInv
<1> QED
  BY <1>1, <1>2, <1>3, PTL DEF Spec

(* A null row takes the place of no bar: not the marker of an empty day in *)
(* a direct write, nor one that a merge read back.                         *)
LEMMA NoneEmptied ==
    ASSUME OwnSizes, SoundOverwrites, TypeOK, SeriesInv, KeptInv, [Next]_vars,
           NEW s \in Sizes, NEW x \in store[s], Real(x)
    PROVE  [p |-> x.p, v |-> Empty] \notin store'[s]
<1> DEFINE e == [p |-> x.p, v |-> Empty]
<1>1. e \notin store[s]
  <2>1. e.p = x.p /\ e # x
    BY DEF Real, Empty
  <2>2. OneEach(store[s])
    BY DEF SeriesInv, Series
  <2> HIDE DEF e
  <2> QED
    BY <2>1, <2>2 DEF OneEach
<1>2. CASE store'[s] = store[s]
  BY <1>1, <1>2
<1>3. ASSUME NEW w \in Writers, Write(w), s = SizeOf[w] PROVE e \notin store'[s]
  <2>1. store'[s] = Replaced(store[s], Sound(ToWrite(w)))
    BY <1>3, WriteParts DEF TypeOK
  <2>2. e \notin Sound(ToWrite(w))
    <3>1. CASE Kind[w] = "cli"
      <4>1. e \notin Closed(frame[w])
        BY DEF Closed
      <4> QED
        BY <1>1, <1>3, <3>1, <4>1, WriteParts
    <3>2. CASE Kind[w] # "cli"
      <4>1. e \notin frame[w]
        BY <1>3, <3>2, DirectApart
      <4> QED
        BY <1>3, <3>2, <4>1, WriteParts
    <3> QED
      BY <3>1, <3>2
  <2> QED
    BY <1>1, <2>1, <2>2 DEF Replaced
<1>4. ASSUME NEW w \in Writers, Write(w), s # SizeOf[w] PROVE store'[s] = store[s]
  BY <1>4, WriteParts DEF TypeOK
<1>5. ASSUME NEW w \in Writers,
             Start(w) \/ Fetch(w) \/ MergeRead(w) \/ FetchFails(w) \/ LockedOut(w) \/ Crash(w)
      PROVE  store'[s] = store[s]
  BY <1>5 DEF Start, Fetch, MergeRead, FetchFails, LockedOut, Crash
<1>6. CASE Advance \/ Revise \/ UNCHANGED vars
  BY <1>2, <1>6 DEF Advance, Revise, vars
<1>7. ASSUME NEW w \in Writers, Job(w) \/ FetchFails(w) \/ LockedOut(w) \/ Crash(w)
      PROVE  e \notin store'[s]
  <2>1. CASE Write(w)
    BY <1>2, <1>3, <1>4, <2>1
  <2>2. CASE ~Write(w)
    <3>1. store'[s] = store[s]
      BY <1>5, <1>7, <2>2 DEF Job
    <3> QED
      BY <1>2, <3>1
  <2> QED
    BY <2>1, <2>2
<1>8. CASE Next
  BY <1>6, <1>7, <1>8 DEF Next
<1>9. e \notin store'[s]
  BY <1>6, <1>8
<1> QED
  BY <1>9

(* Under the same conditions no step empties a stored bar.                 *)
THEOREM NeverEmptied ==
    ASSUME OwnSizes, SoundOverwrites
    PROVE  Spec => NoBarEmptied
<1>1. Init => TypeOK /\ SeriesInv /\ KeptInv
  BY InitType, InitSeries, InitKept
<1>2. TypeOK /\ SeriesInv /\ KeptInv /\ [Next]_vars => (TypeOK /\ SeriesInv /\ KeptInv)'
  BY StepType, StepSeries, StepKept
<1>3. TypeOK /\ SeriesInv /\ KeptInv /\ [Next]_vars =>
          [\A s \in Sizes : \A x \in store[s] :
              Real(x) => [p |-> x.p, v |-> Empty] \notin store'[s]]_vars
  BY NoneEmptied
<1> QED
  BY <1>1, <1>2, <1>3, PTL DEF Spec, NoBarEmptied

=================================================================================
