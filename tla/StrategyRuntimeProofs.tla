-------------------------- MODULE StrategyRuntimeProofs --------------------------
(***************************************************************************)
(* Proofs about StrategyRuntime, for any strategies, threads, bars and     *)
(* sessions: one process hands every strategy each bar at most once, in    *)
(* order; a tick reaches all that run and its signals reach the executor;  *)
(* a disable lasts.                                                        *)
(***************************************************************************)
EXTENDS StrategyRuntime, FiniteSetTheorems, SequenceTheorems, WellFoundedInduction, TLAPS

(* What a name was handed ends with its last dispatched bar, which is no   *)
(* newer than the last completed one.                                      *)
HandedInOrder(n) ==
    /\ calls[n] \in Seq(Nat)
    /\ last[n] \in Nat /\ last[n] <= bar
    /\ \A i \in DOMAIN calls[n] : calls[n][i] <= last[n]
    /\ \A i, j \in DOMAIN calls[n] : i < j => calls[n][i] < calls[n][j]

CallInv ==
    /\ bar \in Nat
    /\ last = [n \in Names |-> last[n]] /\ calls = [n \in Names |-> calls[n]]
    /\ \A n \in Names : HandedInOrder(n)

(* At first nothing was handed to anybody.                                 *)
LEMMA InitCalls == Init => CallInv
BY DEF Init, CallInv, HandedInOrder

(* A strictly increasing sequence extended by something larger.            *)
LEMMA Extended ==
    ASSUME NEW s \in Seq(Nat), NEW b \in Nat,
           \A i \in DOMAIN s : s[i] < b,
           \A i, j \in DOMAIN s : i < j => s[i] < s[j]
    PROVE  /\ Append(s, b) \in Seq(Nat)
           /\ \A i \in DOMAIN Append(s, b) : Append(s, b)[i] <= b
           /\ \A i, j \in DOMAIN Append(s, b) :
                 i < j => Append(s, b)[i] < Append(s, b)[j]
<1> DEFINE t == Append(s, b)
<1>1. t \in Seq(Nat) /\ DOMAIN t = 1 .. Len(s) + 1 /\ DOMAIN s = 1 .. Len(s) /\ Len(s) \in Nat
  OBVIOUS
<1>2. t[Len(s) + 1] = b /\ \A i \in 1 .. Len(s) : t[i] = s[i] /\ t[i] \in Nat
  OBVIOUS
<1>3. \A i \in DOMAIN t : i = Len(s) + 1 \/ i \in 1 .. Len(s)
  BY <1>1
<1> HIDE DEF t
<1>4. \A i \in DOMAIN t : t[i] <= b
  BY <1>1, <1>2, <1>3
<1>5. ASSUME NEW i \in DOMAIN t, NEW j \in DOMAIN t, i < j PROVE t[i] < t[j]
  <2>1. i \in 1 .. Len(s)
    BY <1>1, <1>5
  <2>2. CASE j = Len(s) + 1
    BY <1>1, <1>2, <2>1, <2>2
  <2>3. CASE j \in 1 .. Len(s)
    BY <1>1, <1>2, <1>5, <2>1, <2>3
  <2> QED
    BY <1>3, <2>2, <2>3
<1> QED
  BY <1>1, <1>4, <1>5 DEF t

(* A bar that was not skipped is newer than all that were handed over.     *)
LEMMA HandOverInOrder ==
    ASSUME CallInv, HandOver, bar' = bar PROVE CallInv'
<1>1. bar # 0 /\ last[Current] # bar
  BY DEF HandOver, Skipped
<1>2. /\ last' = [last EXCEPT ![Current] = bar]
      /\ calls' = [calls EXCEPT ![Current] = Append(@, bar)]
  BY DEF HandOver
<1> DEFINE k == Current
<1> HIDE DEF k
<1>3. last' = [n \in Names |-> last'[n]] /\ calls' = [n \in Names |-> calls'[n]]
  BY <1>2 DEF CallInv, k
<1>4. ASSUME NEW n \in Names PROVE HandedInOrder(n)'
  <2>1. CASE n # k
    BY <1>2, <2>1 DEF CallInv, HandedInOrder, k
  <2>2. CASE n = k
    <3>1. calls'[n] = Append(calls[n], bar) /\ last'[n] = bar
      BY <1>2, <2>2 DEF CallInv, k
    <3>2. \A i \in DOMAIN calls[n] : calls[n][i] < bar
      BY <1>1, <2>2 DEF CallInv, HandedInOrder, k
    <3>3. calls[n] \in Seq(Nat) /\ bar \in Nat
      BY DEF CallInv, HandedInOrder
    <3> QED
      BY <3>1, <3>2, <3>3, Extended DEF CallInv, HandedInOrder
  <2> QED
    BY <2>1, <2>2
<1> QED
  BY <1>3, <1>4 DEF CallInv

(* No step hands a name a bar it was handed before, or an older one.       *)
LEMMA StepKeepsCalls == ASSUME CallInv, [Next]_vars PROVE CallInv'
<1> USE DEF fileVars, loaderVars
<1>0. ASSUME UNCHANGED <<bar, last, calls>> PROVE CallInv'
  BY <1>0 DEF CallInv, HandedInOrder
<1>1. CASE UNCHANGED vars
  BY <1>0, <1>1 DEF vars, dispatchVars
<1>2. CASE Start \/ EnterLoop \/ Edit
  BY <1>0, <1>2 DEF Start, EnterLoop, Edit, dispatchVars
<1>3. CASE Die
  <2>1. bar' = bar /\ last' = [n \in Names |-> 0] /\ calls' = [n \in Names |-> <<>>]
    BY <1>3 DEF Die
  <2> QED
    BY <2>1 DEF CallInv, HandedInOrder
<1>4. ASSUME NEW t \in Threads, Loader(t) PROVE CallInv'
  <2>1. UNCHANGED dispatchVars
    BY <1>4 DEF Loader, Reconcile, Install, EndLoad, Route, Load
  <2> QED
    BY <1>0, <2>1 DEF dispatchVars
<1>5. ASSUME NEW n \in Names, Enable(n) \/ Disable(n) PROVE CallInv'
  <2>1. UNCHANGED dispatchVars
    BY <1>5 DEF Enable, Disable, Switch
  <2> QED
    BY <1>0, <2>1 DEF dispatchVars
<1>6. CASE Tick
  <2>1. bar' \in bar .. MaxBar /\ UNCHANGED <<last, calls>>
    BY <1>6 DEF Tick
  <2>2. bar' \in Nat /\ bar <= bar'
    BY <2>1, BarsAssumption DEF CallInv
  <2> QED
    BY <2>1, <2>2 DEF CallInv, HandedInOrder
<1>7. CASE Skip \/ Record \/ Submit
  BY <1>0, <1>7 DEF Skip, Record, Submit
<1>8. CASE NoSignal \/ Raise \/ Signal
  BY <1>8, HandOverInOrder DEF NoSignal, Raise, Signal
<1> QED
  BY <1>1, <1>2, <1>3, <1>4, <1>5, <1>6, <1>7, <1>8 DEF Next, Dispatch

(* on_ticker_next hands a strategy each bar at most once, in order, also   *)
(* when it raised on one and was enabled again, and when two threads have  *)
(* loaded it twice.                                                        *)
THEOREM Ordered == Spec => []BarsInOrder
<1>1. CallInv => BarsInOrder
  BY DEF CallInv, HandedInOrder, BarsInOrder
<1> QED
  BY <1>1, InitCalls, StepKeepsCalls, PTL DEF Spec
-----------------------------------------------------------------------------
(* Facts about the operators of the model.                                 *)

(* The natural numbers are well ordered.                                   *)
LEMMA LeastNatural ==
    ASSUME NEW S \in SUBSET Nat, S # {}
    PROVE  Min(S) \in S /\ \A m \in S : Min(S) <= m
<1> DEFINE R == OpToRel(<, Nat)
<1>1. IsWellFoundedOn(R, Nat)
  BY NatLessThanWellFounded
<1>2. \A x, y \in Nat : <<y, x>> \in R <=> y < x
  BY DEF OpToRel
<1> HIDE DEF R
<1>3. PICK n \in S : \A m \in S : ~(<<m, n>> \in R)
  BY <1>1, WFMin
<1>4. \A m \in S : ~(m < n)
  BY <1>2, <1>3
<1>5. \A m \in S : n <= m
  BY <1>4
<1> QED
  BY <1>5 DEF Min

(* Induction, over a set instead of a predicate.                           *)
LEMMA SetInduction ==
    ASSUME NEW S, 0 \in S, \A n \in Nat : n \in S => n + 1 \in S
    PROVE  Nat \subseteq S
<1> SUFFICES ASSUME Nat \ S # {} PROVE FALSE
  OBVIOUS
<1>1. PICK n \in Nat \ S : \A m \in Nat \ S : n <= m
  BY LeastNatural
<1>2. n # 0 /\ n - 1 \in Nat
  BY <1>1
<1>3. n - 1 \in S
  BY <1>1, <1>2
<1> QED
  BY <1>1, <1>2, <1>3

(* The strategies to call are subscribers, and run when the tick comes.    *)
LEMMA EnabledOfType ==
    ASSUME NEW s \in Seq(Nat)
    PROVE  EnabledOf(s) \in Seq({i \in Range(s) : Enabled(i)})
<1> DEFINE Kept == Seq({i \in Range(s) : Enabled(i)})
           Nth(f, i) == IF i = 0 THEN <<>>
                        ELSE IF Enabled(s[i]) THEN Append(f[i - 1], s[i]) ELSE f[i - 1]
           Upto == {k \in Nat : k <= Len(s) =>
                       \E f \in [0 .. k -> Kept] : \A i \in 0 .. k : f[i] = Nth(f, i)}
           kept == CHOOSE f : f = [i \in 0 .. Len(s) |-> Nth(f, i)]
           Fine == {k \in Nat : k <= Len(s) => kept[k] \in Kept}
<1>1. Len(s) \in Nat /\ \A i \in 1 .. Len(s) : s[i] \in Range(s)
  BY DEF Range
<1>2. \A i \in 1 .. Len(s), q \in Kept : Enabled(s[i]) => Append(q, s[i]) \in Kept
  BY <1>1
<1>3. <<>> \in Kept
  OBVIOUS
<1> HIDE DEF Kept
<1>4. 0 \in Upto
  <2> DEFINE f == [i \in 0 .. 0 |-> <<>>]
  <2>1. f \in [0 .. 0 -> Kept] /\ \A i \in 0 .. 0 : f[i] = Nth(f, i)
    BY <1>3
  <2> QED
    BY <2>1
<1>5. ASSUME NEW k \in Nat, k \in Upto PROVE k + 1 \in Upto
  <2> SUFFICES ASSUME k + 1 <= Len(s)
               PROVE  \E f \in [0 .. k + 1 -> Kept] : \A i \in 0 .. k + 1 : f[i] = Nth(f, i)
    OBVIOUS
  <2>1. PICK f \in [0 .. k -> Kept] : \A i \in 0 .. k : f[i] = Nth(f, i)
    <3> HIDE DEF Nth
    <3> QED
      BY <1>1, <1>5
  <2> DEFINE g == [i \in 0 .. k + 1 |-> IF i = k + 1 THEN Nth(f, i) ELSE f[i]]
  <2>2. Nth(f, k + 1) \in Kept
    BY <1>1, <1>2
  <2>3. g \in [0 .. k + 1 -> Kept]
    BY <2>2
  <2>4. ASSUME NEW i \in 0 .. k + 1 PROVE g[i] = Nth(g, i)
    <3>1. CASE i = 0
      BY <2>1, <3>1
    <3>2. CASE i # 0
      <4>1. g[i - 1] = f[i - 1]
        BY <3>2
      <4>2. Nth(g, i) = Nth(f, i)
        BY <3>2, <4>1
      <4>3. g[i] = Nth(f, i)
        <5>1. i \in 0 .. k \/ i = k + 1
          OBVIOUS
        <5> HIDE DEF Nth
        <5> QED
          BY <2>1, <5>1
      <4> QED
        BY <4>2, <4>3
    <3> QED
      BY <3>1, <3>2
  <2> QED
    BY <2>3, <2>4
<1>6. Len(s) \in Upto
  <2> HIDE DEF Upto
  <2> QED
    BY <1>1, <1>4, <1>5, SetInduction
<1>7. kept = [i \in 0 .. Len(s) |-> Nth(kept, i)]
  <2>1. PICK f \in [0 .. Len(s) -> Kept] : \A i \in 0 .. Len(s) : f[i] = Nth(f, i)
    BY <1>1, <1>6
  <2>2. f = [i \in 0 .. Len(s) |-> Nth(f, i)]
    BY <2>1
  <2> HIDE DEF Nth
  <2> QED
    BY <2>2
<1>8. EnabledOf(s) = kept[Len(s)]
  BY DEF EnabledOf
<1> HIDE DEF kept
<1>9. 0 \in Fine
  BY <1>1, <1>3, <1>7
<1>10. ASSUME NEW k \in Nat, k \in Fine PROVE k + 1 \in Fine
  <2> SUFFICES ASSUME k + 1 <= Len(s) PROVE kept[k + 1] \in Kept
    OBVIOUS
  <2>1. kept[k] \in Kept /\ k + 1 \in 1 .. Len(s)
    BY <1>1, <1>10
  <2>2. kept[k + 1] = Nth(kept, k + 1)
    <3>1. k + 1 \in 0 .. Len(s)
      BY <1>1
    <3> HIDE DEF Nth
    <3>2. \A i \in 0 .. Len(s) : kept[i] = Nth(kept, i)
      BY <1>7
    <3> QED
      BY <3>1, <3>2
  <2> QED
    BY <1>2, <2>1, <2>2
<1>11. Len(s) \in Fine
  <2> HIDE DEF Fine
  <2> QED
    BY <1>1, <1>9, <1>10, SetInduction
<1> QED
  BY <1>1, <1>8, <1>11 DEF Kept
-----------------------------------------------------------------------------
(* The dispatch of a tick and the persisted switch.                        *)

States == {"INSTALLED", "RUNNING", "DISABLED", "ERROR"}

Implementation == [name : Names, state : States]

Named(i, n) == implementations[i].name = n

(* A strategy that is being served has been handed the bar, and its signal *)
(* is the only one the executor does not have.  Whoever was running when   *)
(* the tick came has been handed the bar or is still to be served.         *)
DispatchInv ==
    /\ stage = "evaluate" => signalled = submitted
    /\ stage # "evaluate" =>
          /\ serving # <<>>
          /\ last[Current] = bar /\ <<Current, bar>> \in signalled
          /\ signalled = submitted \union {<<Current, bar>>}
    /\ bar \in Session =>
          \A n \in due : last[n] = bar \/ \E i \in Range(serving) : Named(i, n)

Once(n) == \A i, j \in DOMAIN implementations : Named(i, n) /\ Named(j, n) => i = j

(* The row of a disabled strategy says so, and the only implementation of  *)
(* that name neither runs nor is served.                                   *)
SwitchInv ==
    \A n \in Names :
        told[n] = "disabled" =>
            /\ row[n] = "off"
            /\ Once(n) => \A i \in DOMAIN implementations :
                             Named(i, n) => /\ implementations[i].state # "RUNNING"
                                            /\ i \notin Range(serving)

RuntimeInv == TypeOK /\ DispatchInv /\ SwitchInv

(* Before the first run nothing is loaded, served or disabled.             *)
LEMMA InitRuntime == Init => RuntimeInv
<1> SUFFICES ASSUME Init PROVE RuntimeInv
  OBVIOUS
<1>1. TypeOK
  BY BarsAssumption DEF Init, TypeOK, Fresh
<1>2. DispatchInv
  BY DEF Init, DispatchInv
<1>3. SwitchInv
  BY DEF Init, SwitchInv
<1> QED
  BY <1>1, <1>2, <1>3 DEF RuntimeInv

(* Implementations keep their names and their places; new ones are added   *)
(* at the end.                                                             *)
Extends ==
    /\ implementations' \in Seq(Implementation)
    /\ DOMAIN implementations \subseteq DOMAIN implementations'
    /\ \A i \in DOMAIN implementations : implementations'[i].name = implementations[i].name

LEMMA AppendExtends ==
    ASSUME TypeOK, NEW x \in Implementation, implementations' = Append(implementations, x)
    PROVE  /\ Extends
           /\ \A i \in DOMAIN implementations : implementations'[i] = implementations[i]
           /\ \A i \in DOMAIN implementations' \ DOMAIN implementations : implementations'[i] = x
<1> implementations \in Seq(Implementation)
  BY DEF TypeOK, Implementation, States
<1> QED
  BY DEF Extends

LEMMA StateExtends ==
    ASSUME TypeOK, NEW k, NEW st \in States,
           implementations' = [implementations EXCEPT ![k].state = st]
    PROVE  /\ Extends
           /\ DOMAIN implementations' = DOMAIN implementations
           /\ \A i \in DOMAIN implementations :
                 IF i = k THEN implementations'[i].state = st
                          ELSE implementations'[i] = implementations[i]
<1>1. implementations \in Seq(Implementation)
  BY DEF TypeOK, Implementation, States
<1>2. implementations' = [i \in DOMAIN implementations |->
                             IF i = k THEN [implementations[k] EXCEPT !.state = st]
                             ELSE implementations[i]]
  OBVIOUS
<1>3. ASSUME NEW i \in DOMAIN implementations
      PROVE  /\ implementations'[i] \in Implementation
             /\ implementations'[i].name = implementations[i].name
             /\ IF i = k THEN implementations'[i].state = st
                         ELSE implementations'[i] = implementations[i]
  <2>1. implementations[i] \in Implementation
    BY <1>1
  <2> QED
    BY <1>2, <2>1 DEF Implementation
<1>4. implementations' \in Seq(Implementation)
  <2>1. Len(implementations) \in Nat /\ DOMAIN implementations = 1 .. Len(implementations)
    BY <1>1
  <2>2. implementations' \in [1 .. Len(implementations) -> Implementation]
    BY <1>2, <1>3, <2>1
  <2> QED
    BY <2>1, <2>2, SeqDef
<1> QED
  BY <1>2, <1>3, <1>4 DEF Extends

(* What is routed or served stays so while implementations are added.      *)
LEMMA SeqGrows ==
    ASSUME NEW S, NEW T, S \subseteq T, NEW s \in Seq(S)
    PROVE  s \in Seq(T)
OBVIOUS

(* The first of the implementations of a loaded name.                      *)
LEMMA FirstNamedIs ==
    ASSUME TypeOK, NEW n, Loaded(n)
    PROVE  FirstNamed(n) \in DOMAIN implementations /\ Named(FirstNamed(n), n)
<1> DEFINE S == {i \in DOMAIN implementations : implementations[i].name = n}
<1>1. S \in SUBSET Nat /\ S # {}
  BY DEF TypeOK, Loaded
<1>2. Min(S) \in S
  BY <1>1, LeastNatural
<1> QED
  BY <1>2 DEF FirstNamed, Named

LEMMA HeadInRange ==
    ASSUME NEW S, NEW s \in Seq(S), s # <<>>
    PROVE  /\ Head(s) \in S /\ Head(s) \in Range(s)
           /\ Tail(s) \in Seq(S)
           /\ Range(Tail(s)) \subseteq Range(s)
           /\ \A x \in Range(s) : x = Head(s) \/ x \in Range(Tail(s))
<1>1. Len(s) \in Nat \ {0} /\ Head(s) = s[1] /\ DOMAIN s = 1 .. Len(s)
  OBVIOUS
<1>2. Tail(s) \in Seq(S) /\ Len(Tail(s)) = Len(s) - 1 /\ DOMAIN Tail(s) = 1 .. Len(s) - 1
  BY <1>1
<1>3. \A i \in 1 .. Len(s) - 1 : Tail(s)[i] = s[i + 1]
  BY <1>1
<1>4. Range(Tail(s)) \subseteq Range(s)
  BY <1>1, <1>2, <1>3 DEF Range
<1>5. ASSUME NEW i \in 1 .. Len(s), i # 1 PROVE s[i] \in Range(Tail(s))
  <2>1. i - 1 \in 1 .. Len(s) - 1 /\ s[i] = Tail(s)[i - 1]
    BY <1>1, <1>3, <1>5
  <2> QED
    BY <1>2, <2>1 DEF Range
<1> QED
  BY <1>1, <1>2, <1>4, <1>5 DEF Range

(* Who is served is loaded, and so are those who come after.               *)
LEMMA ServingType ==
    ASSUME TypeOK, serving # <<>>
    PROVE  /\ Head(serving) \in DOMAIN implementations /\ Head(serving) \in Range(serving)
           /\ Current \in Names
           /\ Tail(serving) \in Seq(DOMAIN implementations)
<1>1. Head(serving) \in DOMAIN implementations /\ Head(serving) \in Range(serving)
      /\ Tail(serving) \in Seq(DOMAIN implementations)
  BY HeadInRange DEF TypeOK
<1>2. implementations \in Seq(Implementation)
  BY DEF TypeOK, Implementation, States
<1>3. implementations[Head(serving)] \in Implementation
  BY <1>1, <1>2
<1> QED
  BY <1>1, <1>3 DEF Current, Implementation

(* A bar that is handed over is inside the session.                        *)
LEMMA HandOverType ==
    ASSUME TypeOK, HandOver
    PROVE  /\ bar \in Session
           /\ last' \in [Names -> 0 .. MaxBar] /\ calls' \in [Names -> Seq(Session)]
<1>1. serving # <<>> /\ bar \in Session
  BY DEF HandOver, Skipped
<1>2. Current \in Names
  BY <1>1, ServingType
<1>3. last' = [last EXCEPT ![Current] = bar] /\ bar \in 0 .. MaxBar
  BY DEF HandOver, TypeOK
<1>4. calls' = [calls EXCEPT ![Current] = Append(calls[Current], bar)]
  BY DEF HandOver
<1>5. Append(calls[Current], bar) \in Seq(Session)
  BY <1>1, <1>2 DEF TypeOK
<1> HIDE DEF Current
<1>6. last' \in [Names -> 0 .. MaxBar]
  BY <1>3 DEF TypeOK
<1>7. calls' \in [Names -> Seq(Session)]
  BY <1>4, <1>5 DEF TypeOK
<1> QED
  BY <1>1, <1>6, <1>7

(* What an action leaves alone keeps its type.                             *)
LoaderTypeOK ==
    /\ implementations \in Seq(Implementation)
    /\ routed \in Seq(DOMAIN implementations)
    /\ serving \in Seq(DOMAIN implementations)
    /\ pc \in [Threads -> {"idle", "load", "route"} \union Names]
    /\ queue \in [Threads -> SUBSET Names]
    /\ version \in [Threads -> {"none", "old", "new"}]

StateTypeOK ==
    /\ phase \in {"off", "starting", "fetching", "looping"}
    /\ file \in {"old", "new"} /\ recorded \in {"none", "old", "new"}
    /\ row \in [Names -> {"unset", "on", "off"}]
    /\ told \in [Names -> {"nothing", "enabled", "disabled"}]
    /\ faults \in 0 .. MaxFaults

DispatchTypeOK ==
    /\ bar \in 0 .. MaxBar
    /\ last \in [Names -> 0 .. MaxBar]
    /\ stage \in {"evaluate", "record", "submit"}
    /\ calls \in [Names -> Seq(Session)]
    /\ signalled \subseteq Names \X Session /\ submitted \subseteq Names \X Session
    /\ due \subseteq Names

(* The three parts are the type invariant.                                 *)
LEMMA TypeParts == TypeOK <=> LoaderTypeOK /\ StateTypeOK /\ DispatchTypeOK
BY DEF TypeOK, LoaderTypeOK, StateTypeOK, DispatchTypeOK, Implementation, States

(* What is routed and served is loaded, through reloads and restarts.      *)
LEMMA LoaderTypeStep == ASSUME TypeOK, DispatchInv, [Next]_vars PROVE LoaderTypeOK'
<1> LoaderTypeOK /\ StateTypeOK
  BY TypeParts
<1> USE DEF fileVars
<1>0. ASSUME UNCHANGED <<loaderVars, serving>> PROVE LoaderTypeOK'
  BY <1>0 DEF LoaderTypeOK, loaderVars
<1>1. ASSUME Extends, UNCHANGED <<routed, serving>>,
             pc' \in [Threads -> {"idle", "load", "route"} \union Names],
             queue' \in [Threads -> SUBSET Names], version' = version
      PROVE  LoaderTypeOK'
  BY <1>1, SeqGrows DEF LoaderTypeOK, Extends
<1>2. CASE Start
  BY <1>2, NamesAssumption DEF Start, LoaderTypeOK, dispatchVars, Contents
<1>3. CASE Die
  BY <1>3 DEF Die, LoaderTypeOK, Fresh
<1>4. CASE EnterLoop \/ Edit \/ UNCHANGED vars
  BY <1>0, <1>4 DEF EnterLoop, Edit, vars, dispatchVars
<1>5. ASSUME NEW t \in Threads, Reconcile(t) PROVE LoaderTypeOK'
  BY <1>5, NamesAssumption DEF Reconcile, LoaderTypeOK, StateTypeOK, dispatchVars, Contents
<1>6. ASSUME NEW t \in Threads, NEW n \in Names, Load(t, n) PROVE LoaderTypeOK'
  BY <1>6 DEF Load, LoaderTypeOK, dispatchVars
<1>7. ASSUME NEW t \in Threads, Install(t) PROVE LoaderTypeOK'
  <2>1. /\ pc' \in [Threads -> {"idle", "load", "route"} \union Names]
        /\ queue' \in [Threads -> SUBSET Names]
        /\ UNCHANGED <<routed, serving, version>>
    BY <1>7 DEF Install, LoaderTypeOK, dispatchVars
  <2>2. CASE UNCHANGED implementations
    BY <2>1, <2>2 DEF LoaderTypeOK
  <2>3. ASSUME NEW st \in States,
               implementations' = Append(implementations, [name |-> pc[t], state |-> st])
        PROVE  LoaderTypeOK'
    <3>1. [name |-> pc[t], state |-> st] \in Implementation
      BY <1>7 DEF Install, Implementation
    <3> QED
      BY <1>1, <2>1, <2>3, <3>1, AppendExtends
  <2>4. Restored(row[pc[t]]) \in States /\ Restored("unset") \in States
    BY <1>7 DEF Install, Restored, States, StateTypeOK
  <2> QED
    BY <1>7, <2>2, <2>3, <2>4 DEF Install
<1>8. ASSUME NEW t \in Threads, EndLoad(t) PROVE LoaderTypeOK'
  BY <1>8 DEF EndLoad, LoaderTypeOK, dispatchVars
<1>9. ASSUME NEW t \in Threads, Route(t) PROVE LoaderTypeOK'
  <2>1. UNCHANGED <<implementations, queue, version, serving>>
        /\ pc' \in [Threads -> {"idle", "load", "route"} \union Names]
    BY <1>9 DEF Route, LoaderTypeOK, dispatchVars
  <2>2. routed' \in Seq(DOMAIN implementations)
    <3>1. CASE UNCHANGED routed
      BY <3>1 DEF LoaderTypeOK
    <3>2. CASE Unrouted # {} /\ routed' = Append(routed, Min(Unrouted))
      <4>1. Unrouted \in SUBSET Nat /\ Unrouted \subseteq DOMAIN implementations
        BY DEF Unrouted, LoaderTypeOK
      <4>2. Min(Unrouted) \in DOMAIN implementations
        BY <3>2, <4>1, LeastNatural
      <4> QED
        BY <3>2, <4>2 DEF LoaderTypeOK
    <3> QED
      BY <1>9, <3>1, <3>2 DEF Route
  <2> QED
    BY <2>1, <2>2 DEF LoaderTypeOK
<1>10. ASSUME NEW n \in Names, Enable(n) \/ Disable(n) PROVE LoaderTypeOK'
  <2>1. Extends /\ UNCHANGED <<routed, serving, pc, queue, version>>
    BY <1>10, StateExtends DEF Enable, Disable, Switch, States, dispatchVars
  <2> QED
    BY <1>1, <2>1 DEF LoaderTypeOK
<1>11. CASE Tick
  <2>1. UNCHANGED loaderVars /\ serving' = EnabledOf(routed)
    BY <1>11 DEF Tick
  <2>2. routed \in Seq(Nat) /\ Range(routed) \subseteq DOMAIN implementations
    BY DEF LoaderTypeOK, Range
  <2>3. EnabledOf(routed) \in Seq({i \in Range(routed) : Enabled(i)})
    BY <2>2, EnabledOfType
  <2>4. EnabledOf(routed) \in Seq(DOMAIN implementations)
    BY <2>2, <2>3, SeqGrows
  <2> QED
    BY <2>1, <2>4 DEF LoaderTypeOK, loaderVars
<1>12. CASE Skip \/ NoSignal \/ Submit
  <2>1. UNCHANGED loaderVars /\ serving' = Tail(serving)
    BY <1>12 DEF Skip, NoSignal, Submit, Served
  <2>2. serving # <<>>
    BY <1>12 DEF Skip, NoSignal, Submit, HandOver, DispatchInv
  <2>3. Tail(serving) \in Seq(DOMAIN implementations)
    BY <2>2, ServingType
  <2> QED
    BY <2>1, <2>3 DEF LoaderTypeOK, loaderVars
<1>13. CASE Raise
  <2>1. Extends
    BY <1>13, StateExtends DEF Raise, States
  <2>2. UNCHANGED <<routed, pc, queue, version>> /\ serving' = Tail(serving) /\ serving # <<>>
    BY <1>13 DEF Raise, NextServed, Served, HandOver
  <2>3. Tail(serving) \in Seq(DOMAIN implementations)
    BY <2>2, ServingType
  <2> QED
    BY <2>1, <2>2, <2>3, SeqGrows DEF LoaderTypeOK, Extends
<1>14. CASE Signal \/ Record
  BY <1>0, <1>14 DEF Signal, Record, Unrecorded, Served
<1> QED
  BY <1>2, <1>3, <1>4, <1>5, <1>6, <1>7, <1>8, <1>9, <1>10, <1>11, <1>12, <1>13, <1>14
     DEF Next, Loader, Dispatch

(* The service, the file, the rows and the answers.                        *)
LEMMA StateTypeStep == ASSUME TypeOK, [Next]_vars PROVE StateTypeOK'
<1> LoaderTypeOK /\ StateTypeOK
  BY TypeParts
<1> USE BarsAssumption DEF StateTypeOK, fileVars, Fault
<1>1. CASE Start
  BY <1>1 DEF Start
<1>2. CASE Die
  BY <1>2 DEF Die
<1>3. CASE EnterLoop \/ Edit
  BY <1>3 DEF EnterLoop, Edit
<1>4. CASE UNCHANGED vars
  BY <1>4 DEF vars
<1>5. ASSUME NEW t \in Threads, Reconcile(t) \/ \E n \in Names : Load(t, n) PROVE StateTypeOK'
  BY <1>5 DEF Reconcile, Load
<1>6. ASSUME NEW t \in Threads, Install(t) PROVE StateTypeOK'
  BY <1>6 DEF Install
<1>7. ASSUME NEW t \in Threads, EndLoad(t) PROVE StateTypeOK'
  <2>1. version[t] \in {"none", "old", "new"}
    BY DEF LoaderTypeOK
  <2> QED
    BY <1>7, <2>1 DEF EndLoad
<1>8. ASSUME NEW t \in Threads, Route(t) PROVE StateTypeOK'
  BY <1>8 DEF Route
<1>9. ASSUME NEW n \in Names, Enable(n) PROVE StateTypeOK'
  BY <1>9 DEF Enable, Switch
<1>10. ASSUME NEW n \in Names, Disable(n) PROVE StateTypeOK'
  BY <1>10 DEF Disable, Switch
<1>11. CASE Tick \/ Skip \/ NoSignal \/ Raise \/ Signal \/ Submit
  BY <1>11 DEF Tick, Skip, NoSignal, Raise, Signal, Submit
<1>12. CASE Record
  BY <1>12 DEF Record
<1> QED
  BY <1>1, <1>2, <1>3, <1>4, <1>5, <1>6, <1>7, <1>8, <1>9, <1>10, <1>11, <1>12
     DEF Next, Loader, Dispatch

(* Bars, calls and signals.                                                *)
LEMMA DispatchTypeStep == ASSUME TypeOK, DispatchInv, [Next]_vars PROVE DispatchTypeOK'
<1> LoaderTypeOK /\ DispatchTypeOK
  BY TypeParts
<1>0. ASSUME UNCHANGED dispatchVars PROVE DispatchTypeOK'
  BY <1>0 DEF DispatchTypeOK, dispatchVars
<1>1. CASE Start \/ EnterLoop \/ Edit \/ UNCHANGED vars
  BY <1>0, <1>1 DEF Start, EnterLoop, Edit, vars
<1>2. CASE Die
  BY <1>2, BarsAssumption DEF Die, DispatchTypeOK
<1>3. ASSUME NEW t \in Threads, Loader(t) PROVE DispatchTypeOK'
  BY <1>0, <1>3 DEF Loader, Reconcile, Load, Install, EndLoad, Route
<1>4. ASSUME NEW n \in Names, Enable(n) \/ Disable(n) PROVE DispatchTypeOK'
  BY <1>0, <1>4 DEF Enable, Disable, Switch
<1>5. CASE Tick
  <2>1. UNCHANGED <<last, stage, calls, signalled, submitted>> /\ bar' \in bar .. MaxBar
    BY <1>5 DEF Tick
  <2>2. due' = {implementations[i].name : i \in Range(serving')} /\ serving' \in Seq(DOMAIN implementations)
    BY <1>5, LoaderTypeStep DEF Tick, LoaderTypeOK, loaderVars
  <2>3. due' \subseteq Names
    <3>1. \A i \in DOMAIN implementations : implementations[i].name \in Names
      <4>1. \A i \in DOMAIN implementations : implementations[i] \in Implementation
        BY DEF LoaderTypeOK
      <4> QED
        BY <4>1 DEF Implementation
    <3>2. Range(serving') \subseteq DOMAIN implementations
      BY <2>2 DEF Range
    <3> QED
      BY <2>2, <3>1, <3>2
  <2>4. bar' \in 0 .. MaxBar
    BY <2>1, BarsAssumption DEF DispatchTypeOK
  <2> QED
    BY <2>1, <2>3, <2>4 DEF DispatchTypeOK
<1>6. CASE Skip
  BY <1>6 DEF Skip, DispatchTypeOK
<1>7. CASE NoSignal \/ Raise
  BY <1>7, HandOverType DEF NoSignal, Raise, DispatchTypeOK
<1>8. CASE Signal
  <2>1. Current \in Names /\ bar \in Session
    BY <1>8, HandOverType, ServingType DEF Signal, HandOver
  <2>2. signalled' \subseteq Names \X Session
    BY <1>8, <2>1 DEF Signal, DispatchTypeOK
  <2> QED
    BY <1>8, <2>2, HandOverType DEF Signal, DispatchTypeOK
<1>9. CASE Record
  BY <1>9 DEF Record, Unrecorded, DispatchTypeOK
<1>10. CASE Submit
  <2>1. submitted' \subseteq Names \X Session
    BY <1>10 DEF Submit, DispatchInv, DispatchTypeOK
  <2> QED
    BY <1>10, <2>1 DEF Submit, DispatchTypeOK
<1> QED
  BY <1>1, <1>2, <1>3, <1>4, <1>5, <1>6, <1>7, <1>8, <1>9, <1>10 DEF Next, Dispatch

(* The type invariant is preserved while dispatches are in order.          *)
LEMMA TypeStep == ASSUME TypeOK, DispatchInv, [Next]_vars PROVE TypeOK'
<1>1. LoaderTypeOK' /\ StateTypeOK' /\ DispatchTypeOK'
  BY LoaderTypeStep, StateTypeStep, DispatchTypeStep
<1> QED
  BY <1>1, TypeParts DEF TypeOK, LoaderTypeOK, StateTypeOK, DispatchTypeOK, Implementation, States

(* What the loader or an operator does beside a dispatch does not disturb  *)
(* it: the implementations that are served keep their names.               *)
LEMMA DispatchUndisturbed ==
    ASSUME TypeOK, DispatchInv, UNCHANGED dispatchVars,
           UNCHANGED implementations \/ Extends
    PROVE  DispatchInv'
<1>1. \A i \in DOMAIN implementations, n \in Names : Named(i, n)' <=> Named(i, n)
  BY DEF Named, Extends
<1>2. Range(serving) \subseteq DOMAIN implementations
  BY DEF TypeOK, Range
<1>3. serving # <<>> => Current' = Current
  BY ServingType DEF Current, Extends, dispatchVars
<1>4. due \subseteq Names
  BY DEF TypeOK
<1>5. UNCHANGED <<bar, last, serving, stage, signalled, submitted, due>>
  BY DEF dispatchVars
<1>6. /\ stage' = "evaluate" => signalled' = submitted'
      /\ stage' # "evaluate" =>
            /\ serving' # <<>>
            /\ last'[Current'] = bar' /\ <<Current', bar'>> \in signalled'
            /\ signalled' = submitted' \union {<<Current', bar'>>}
  BY <1>3, <1>5 DEF DispatchInv
<1>7. bar' \in Session =>
          \A n \in due' : last'[n] = bar' \/ \E i \in Range(serving') : Named(i, n)'
  BY <1>1, <1>2, <1>4, <1>5 DEF DispatchInv
<1> QED
  BY <1>6, <1>7 DEF DispatchInv

(* When the strategy at the head has been handed the bar, or it is outside *)
(* the session, the tick is done with it.                                  *)
LEMMA HeadServed ==
    ASSUME TypeOK, DispatchInv, serving # <<>>, serving' = Tail(serving),
           bar' = bar, due' = due,
           \A n \in Names : last'[n] = last[n] \/ last'[n] = bar,
           bar \in Session => last'[Current] = bar,
           \A i \in DOMAIN implementations, n \in Names : Named(i, n)' <=> Named(i, n)
    PROVE  bar' \in Session =>
              \A n \in due' : last'[n] = bar' \/ \E i \in Range(serving') : Named(i, n)'
<1> SUFFICES ASSUME bar \in Session, NEW n \in due, last'[n] # bar
             PROVE  \E i \in Range(serving') : Named(i, n)'
  OBVIOUS
<1>1. n \in Names
  BY DEF TypeOK
<1>2. PICK i \in Range(serving) : Named(i, n)
  BY <1>1 DEF DispatchInv
<1>3. i # Head(serving)
  BY <1>2 DEF Named, Current
<1>4. serving \in Seq(DOMAIN implementations)
  BY DEF TypeOK
<1>5. i \in Range(serving')
  BY <1>2, <1>3, <1>4, HeadInRange
<1>6. i \in DOMAIN implementations
  BY <1>2, <1>4 DEF Range
<1> QED
  BY <1>1, <1>2, <1>5, <1>6

(* The dispatch of a tick stays in order.                                  *)
LEMMA DispatchStep == ASSUME TypeOK, DispatchInv, [Next]_vars PROVE DispatchInv'
<1> USE DEF fileVars
<1>1. CASE Start \/ EnterLoop \/ Edit \/ UNCHANGED vars
  BY <1>1, DispatchUndisturbed DEF Start, EnterLoop, Edit, vars, loaderVars
<1>2. CASE Die
  BY <1>2 DEF Die, DispatchInv
<1>3. ASSUME NEW t \in Threads, Loader(t) PROVE DispatchInv'
  <2>1. UNCHANGED dispatchVars
    BY <1>3 DEF Loader, Reconcile, Load, Install, EndLoad, Route
  <2>2. CASE UNCHANGED implementations
    BY <2>1, <2>2, DispatchUndisturbed
  <2>3. CASE Install(t)
    <3>1. Restored(row[pc[t]]) \in States /\ Restored("unset") \in States
      BY <2>3 DEF Install, Restored, States, TypeOK
    <3>2. \A st \in States : [name |-> pc[t], state |-> st] \in Implementation
      BY <2>3 DEF Install, Implementation
    <3>3. UNCHANGED implementations \/ Extends
      BY <2>3, <3>1, <3>2, AppendExtends DEF Install
    <3> QED
      BY <2>1, <3>3, DispatchUndisturbed
  <2> QED
    BY <1>3, <2>2, <2>3 DEF Loader, Reconcile, Load, EndLoad, Route
<1>4. ASSUME NEW n \in Names, Enable(n) \/ Disable(n) PROVE DispatchInv'
  <2>1. UNCHANGED dispatchVars /\ Extends
    BY <1>4, StateExtends DEF Enable, Disable, Switch, States
  <2> QED
    BY <2>1, DispatchUndisturbed
<1>5. CASE Tick
  <2>1. stage = "evaluate"
    BY <1>5 DEF Tick, EventLoopFree, DispatchInv
  <2>2. UNCHANGED <<implementations, stage, signalled, submitted>>
        /\ due' = {implementations[i].name : i \in Range(serving')}
    BY <1>5 DEF Tick, loaderVars
  <2> QED
    BY <2>1, <2>2 DEF DispatchInv, Named
<1>6. CASE Skip
  <2>1. serving # <<>> /\ stage = "evaluate" /\ Skipped /\ serving' = Tail(serving)
        /\ UNCHANGED <<implementations, bar, last, stage, due, signalled, submitted>>
    BY <1>6 DEF Skip, Served, loaderVars
  <2>2. bar \in Session => last[Current] = bar
    BY <2>1, BarsAssumption DEF Skipped
  <2>3. \A i \in DOMAIN implementations, n \in Names : Named(i, n)' <=> Named(i, n)
    BY <2>1 DEF Named
  <2>4. bar' \in Session =>
            \A n \in due' : last'[n] = bar' \/ \E i \in Range(serving') : Named(i, n)'
    BY <2>1, <2>2, <2>3, HeadServed
  <2> QED
    BY <2>1, <2>4 DEF DispatchInv
<1>7. CASE NoSignal \/ Raise
  <2>1. serving # <<>> /\ stage = "evaluate" /\ serving' = Tail(serving)
        /\ UNCHANGED <<bar, stage, due, signalled, submitted>>
        /\ last' = [last EXCEPT ![Current] = bar]
    BY <1>7 DEF NoSignal, Raise, Served, NextServed, HandOver
  <2>2. Current \in Names /\ last \in [Names -> 0 .. MaxBar]
    BY <2>1, ServingType DEF TypeOK
  <2>3. last'[Current] = bar /\ \A n \in Names : last'[n] = last[n] \/ last'[n] = bar
    <3> HIDE DEF Current
    <3> QED
      BY <2>1, <2>2
  <2>4. \A i \in DOMAIN implementations, n \in Names : Named(i, n)' <=> Named(i, n)
    <3>1. CASE NoSignal
      BY <3>1 DEF NoSignal, loaderVars, Named
    <3>2. CASE Raise
      <4>1. Extends
        BY <3>2, StateExtends DEF Raise, States
      <4> QED
        BY <4>1 DEF Extends, Named
    <3> QED
      BY <1>7, <3>1, <3>2
  <2>5. bar' \in Session =>
            \A n \in due' : last'[n] = bar' \/ \E i \in Range(serving') : Named(i, n)'
    BY <2>1, <2>3, <2>4, HeadServed
  <2> QED
    BY <2>1, <2>5 DEF DispatchInv
<1>8. CASE Signal
  <2>1. serving # <<>> /\ stage = "evaluate" /\ stage' = "record"
        /\ UNCHANGED <<implementations, serving, bar, due, submitted>>
        /\ last' = [last EXCEPT ![Current] = bar]
        /\ signalled' = signalled \union {<<Current, bar>>}
    BY <1>8 DEF Signal, HandOver, loaderVars
  <2>2. Current \in Names /\ last \in [Names -> 0 .. MaxBar] /\ Current' = Current
    BY <2>1, ServingType DEF TypeOK, Current
  <2>3. last'[Current] = bar /\ \A n \in Names : last'[n] = last[n] \/ last'[n] = bar
    <3> HIDE DEF Current
    <3> QED
      BY <2>1, <2>2
  <2>4. signalled = submitted
    BY <2>1 DEF DispatchInv
  <2>5. bar' \in Session =>
            \A n \in due' : last'[n] = bar' \/ \E i \in Range(serving') : Named(i, n)'
    BY <2>1, <2>3 DEF DispatchInv, TypeOK, Named
  <2> QED
    BY <2>1, <2>2, <2>3, <2>4, <2>5 DEF DispatchInv
<1>9. CASE Record
  <2>1. stage # "evaluate" /\ stage' # "evaluate"
        /\ UNCHANGED <<implementations, serving, bar, last, due, signalled, submitted>>
    BY <1>9 DEF Record, Unrecorded, loaderVars
  <2> QED
    BY <2>1 DEF DispatchInv, Named, Current
<1>10. CASE Submit
  <2>1. stage = "submit" /\ stage' = "evaluate" /\ serving' = Tail(serving)
        /\ UNCHANGED <<implementations, bar, last, due, signalled>>
        /\ submitted' = submitted \union {<<Current, bar>>}
    BY <1>10 DEF Submit, Served, loaderVars
  <2>2. serving # <<>> /\ last[Current] = bar /\ signalled = submitted \union {<<Current, bar>>}
    BY <2>1 DEF DispatchInv
  <2>3. \A i \in DOMAIN implementations, n \in Names : Named(i, n)' <=> Named(i, n)
    BY <2>1 DEF Named
  <2>4. bar' \in Session =>
            \A n \in due' : last'[n] = bar' \/ \E i \in Range(serving') : Named(i, n)'
    BY <2>1, <2>2, <2>3, HeadServed
  <2> QED
    BY <2>1, <2>2, <2>4 DEF DispatchInv
<1> QED
  BY <1>1, <1>2, <1>3, <1>4, <1>5, <1>6, <1>7, <1>8, <1>9, <1>10 DEF Next, Dispatch

SwitchOf(n) ==
    told[n] = "disabled" =>
        /\ row[n] = "off"
        /\ Once(n) => \A i \in DOMAIN implementations :
                         Named(i, n) => /\ implementations[i].state # "RUNNING"
                                        /\ i \notin Range(serving)

(* Nothing of n changes, or it is only done with.                          *)
LEMMA SwitchUndisturbed ==
    ASSUME NEW n, SwitchOf(n), UNCHANGED implementations, row'[n] = row[n],
           told'[n] = told[n] \/ told'[n] # "disabled", Range(serving') \subseteq Range(serving)
    PROVE  SwitchOf(n)'
BY DEF SwitchOf, Once, Named

(* A new state of an implementation that is not n's, or not "RUNNING".     *)
LEMMA SwitchState ==
    ASSUME TypeOK, NEW n, SwitchOf(n), NEW k, NEW st \in States,
           implementations' = [implementations EXCEPT ![k].state = st],
           Named(k, n) => st # "RUNNING",
           row'[n] = row[n], told'[n] = told[n] \/ told'[n] # "disabled",
           Range(serving') \subseteq Range(serving)
    PROVE  SwitchOf(n)'
<1>1. /\ Extends /\ DOMAIN implementations' = DOMAIN implementations
      /\ \A i \in DOMAIN implementations :
            IF i = k THEN implementations'[i].state = st
                     ELSE implementations'[i] = implementations[i]
  BY StateExtends
<1>2. \A i \in DOMAIN implementations : Named(i, n)' <=> Named(i, n)
  BY <1>1 DEF Named, Extends
<1>3. Once(n)' => Once(n)
  BY <1>1, <1>2 DEF Once
<1> QED
  BY <1>1, <1>2, <1>3 DEF SwitchOf

(* A strategy loaded from an "off" row does not run, and nobody serves it. *)
LEMMA SwitchAppend ==
    ASSUME TypeOK, NEW n, SwitchOf(n), NEW x \in Implementation,
           implementations' = Append(implementations, x),
           x.name = n /\ row[n] = "off" => x.state # "RUNNING",
           UNCHANGED <<row, told, serving>>
    PROVE  SwitchOf(n)'
<1>1. /\ Extends
      /\ \A i \in DOMAIN implementations : implementations'[i] = implementations[i]
      /\ \A i \in DOMAIN implementations' \ DOMAIN implementations : implementations'[i] = x
  BY AppendExtends
<1>2. Once(n)' => Once(n)
  BY <1>1 DEF Once, Named, Extends
<1>3. Range(serving) \subseteq DOMAIN implementations
  BY DEF TypeOK, Range
<1>4. ASSUME told[n] = "disabled", Once(n)', NEW i \in DOMAIN implementations', Named(i, n)'
      PROVE  implementations'[i].state # "RUNNING" /\ i \notin Range(serving)
  <2>1. CASE i \in DOMAIN implementations
    BY <1>1, <1>2, <1>4, <2>1 DEF SwitchOf, Named
  <2>2. CASE i \notin DOMAIN implementations
    BY <1>1, <1>3, <1>4, <2>2 DEF SwitchOf, Named
  <2> QED
    BY <2>1, <2>2
<1> QED
  BY <1>4 DEF SwitchOf

(* The persisted switch is preserved by every step.                        *)
LEMMA SwitchStep == ASSUME TypeOK, DispatchInv, SwitchInv, [Next]_vars PROVE SwitchInv'
<1> SUFFICES ASSUME NEW n \in Names PROVE SwitchOf(n)'
  BY DEF SwitchInv, SwitchOf
<1> SwitchOf(n)
  BY DEF SwitchInv, SwitchOf
<1> USE DEF fileVars
<1>0. ASSUME UNCHANGED <<implementations, row, told>>, Range(serving') \subseteq Range(serving)
      PROVE  SwitchOf(n)'
  BY <1>0, SwitchUndisturbed
<1>1. CASE Start \/ EnterLoop \/ Edit \/ UNCHANGED vars
  BY <1>0, <1>1 DEF Start, EnterLoop, Edit, vars, loaderVars, dispatchVars
<1>2. CASE Die
  BY <1>2 DEF Die, SwitchOf
<1>3. ASSUME NEW t \in Threads, Loader(t) PROVE SwitchOf(n)'
  <2>1. UNCHANGED <<row, told, serving>>
    BY <1>3 DEF Loader, Reconcile, Load, Install, EndLoad, Route, dispatchVars
  <2>2. CASE UNCHANGED implementations
    BY <1>0, <2>1, <2>2
  <2>3. CASE Install(t)
    <3>1. ASSUME NEW st \in {Restored(row[pc[t]]), Restored("unset")},
                 implementations' = Append(implementations, [name |-> pc[t], state |-> st])
          PROVE  SwitchOf(n)'
      <4>1. pc[t] \in Names
        BY <2>3 DEF Install
      <4>2. st \in States /\ (row[pc[t]] = "off" => st # "RUNNING")
        BY <4>1 DEF Restored, States, TypeOK
      <4>3. [name |-> pc[t], state |-> st] \in Implementation
        BY <4>1, <4>2 DEF Implementation
      <4> QED
        BY <2>1, <3>1, <4>2, <4>3, SwitchAppend
    <3> QED
      BY <2>2, <2>3, <3>1 DEF Install
  <2> QED
    BY <1>3, <2>2, <2>3 DEF Loader, Reconcile, Load, EndLoad, Route
<1>4. ASSUME NEW m \in Names, m # n, Enable(m) \/ Disable(m) PROVE SwitchOf(n)'
  <2>1. PICK st \in {"RUNNING", "DISABLED"} :
          implementations' = [implementations EXCEPT ![FirstNamed(m)].state = st]
    BY <1>4 DEF Enable, Disable, Switch
  <2>2. row'[n] = row[n] /\ told'[n] = told[n] /\ UNCHANGED serving /\ Loaded(m)
    BY <1>4 DEF Enable, Disable, Switch, dispatchVars, TypeOK
  <2>3. ~Named(FirstNamed(m), n)
    BY <1>4, <2>2, FirstNamedIs DEF Named
  <2> QED
    BY <2>1, <2>2, <2>3, SwitchState DEF States
<1>5. CASE Enable(n)
  BY <1>5 DEF Enable, Switch, SwitchOf, TypeOK
<1>6. CASE Disable(n)
  <2>1. /\ implementations' = [implementations EXCEPT ![FirstNamed(n)].state = "DISABLED"]
        /\ serving = <<>> /\ serving' = <<>> /\ Loaded(n)
    BY <1>6 DEF Disable, Switch, EventLoopFree, dispatchVars
  <2>2. told'[n] = "disabled" => row'[n] = "off"
    BY <1>6 DEF Disable, Switch, TypeOK
  <2>3. FirstNamed(n) \in DOMAIN implementations /\ Named(FirstNamed(n), n)
    BY <2>1, FirstNamedIs
  <2>4. PICK k \in DOMAIN implementations :
          /\ Named(k, n)
          /\ implementations' = [implementations EXCEPT ![k].state = "DISABLED"]
    BY <2>1, <2>3
  <2>5. /\ Extends /\ DOMAIN implementations' = DOMAIN implementations
        /\ implementations'[k].state = "DISABLED"
    BY <2>4, StateExtends DEF States
  <2>6. Named(k, n)'
    BY <2>4, <2>5 DEF Named, Extends
  <2>7. ASSUME Once(n)', NEW i \in DOMAIN implementations', Named(i, n)'
        PROVE  implementations'[i].state # "RUNNING" /\ i \notin Range(serving')
    <3>1. i = k
      BY <2>5, <2>6, <2>7 DEF Once
    <3>2. Range(serving') = {}
      BY <2>1 DEF Range
    <3> QED
      BY <2>5, <3>1, <3>2
  <2> QED
    BY <2>2, <2>7 DEF SwitchOf
<1>7. CASE Tick
  <2>1. UNCHANGED <<implementations, row, told>> /\ serving' = EnabledOf(routed)
    BY <1>7 DEF Tick, loaderVars
  <2>2. routed \in Seq(Nat)
    BY DEF TypeOK
  <2>3. serving' \in Seq({i \in Range(routed) : Enabled(i)})
    BY <2>1, <2>2, EnabledOfType
  <2>4. \A i \in Range(serving') : Enabled(i)
    BY <2>3 DEF Range
  <2> QED
    BY <2>1, <2>4 DEF SwitchOf, Enabled, Once, Named
<1>8. CASE Skip \/ NoSignal \/ Submit
  <2>1. UNCHANGED <<implementations, row, told>> /\ serving' = Tail(serving)
    BY <1>8 DEF Skip, NoSignal, Submit, Served, loaderVars
  <2>2. serving # <<>>
    BY <1>8 DEF Skip, NoSignal, Submit, HandOver, DispatchInv
  <2>3. Range(serving') \subseteq Range(serving)
    BY <2>1, <2>2, HeadInRange DEF TypeOK
  <2> QED
    BY <1>0, <2>1, <2>3
<1>9. CASE Raise
  <2>1. /\ implementations' = [implementations EXCEPT ![Head(serving)].state = "ERROR"]
        /\ serving # <<>> /\ serving' = Tail(serving) /\ UNCHANGED <<row, told>>
    BY <1>9 DEF Raise, NextServed, Served, HandOver
  <2>2. Range(serving') \subseteq Range(serving)
    BY <2>1, HeadInRange DEF TypeOK
  <2> QED
    BY <2>1, <2>2, SwitchState DEF States
<1>10. CASE Signal \/ Record
  BY <1>0, <1>10 DEF Signal, Record, Unrecorded, loaderVars
<1> QED
  BY <1>1, <1>2, <1>3, <1>4, <1>5, <1>6, <1>7, <1>8, <1>9, <1>10 DEF Next, Dispatch
-----------------------------------------------------------------------------
(* The three parts of the invariant, together.                             *)
LEMMA RuntimeStep == RuntimeInv /\ [Next]_vars => RuntimeInv'
BY TypeStep, DispatchStep, SwitchStep DEF RuntimeInv

(* The invariant holds of every reachable state.                           *)
LEMMA Invariance == Spec => []RuntimeInv
BY InitRuntime, RuntimeStep, PTL DEF Spec

(* Every variable keeps its type: what is routed and served is loaded, and *)
(* a bar outside the exchange session is neither handed to a strategy nor  *)
(* the occasion of a signal.                                               *)
THEOREM TypeCorrect == Spec => []TypeOK
<1>1. RuntimeInv => TypeOK
  BY DEF RuntimeInv
<1> QED
  BY <1>1, Invariance, PTL

(* When on_ticker_next has served everybody, every signal of the tick has  *)
(* gone to the executor, recorded and published or not.                    *)
THEOREM AllSubmitted == Spec => []SignalsSubmitted
<1>1. RuntimeInv => SignalsSubmitted
  BY DEF RuntimeInv, DispatchInv, SignalsSubmitted
<1> QED
  BY <1>1, Invariance, PTL

(* When on_ticker_next has served everybody, every strategy that was       *)
(* running when it began was handed the bar, whichever others raised.      *)
THEOREM AllServed == Spec => []TickServesAll
<1>1. RuntimeInv => TickServesAll
  BY DEF RuntimeInv, DispatchInv, TickServesAll, Range
<1> QED
  BY <1>1, Invariance, PTL

(* Two implementations of one name are two elements.                       *)
LEMMA NotTwiceIsOnce == ASSUME TypeOK, NEW n, ~LoadedTwice(n) PROVE Once(n)
<1> DEFINE S == {i \in DOMAIN implementations : implementations[i].name = n}
<1> SUFFICES ASSUME NEW i \in S, NEW j \in S, i # j PROVE FALSE
  BY DEF Once, Named
<1>1. IsFiniteSet(S) /\ Cardinality(S) \in Nat
  <2>1. DOMAIN implementations = 1 .. Len(implementations) /\ Len(implementations) \in Nat
    BY DEF TypeOK
  <2>2. IsFiniteSet(DOMAIN implementations)
    BY <2>1, FS_Interval
  <2> QED
    BY <2>2, FS_Subset, FS_CardinalityType
<1>2. Cardinality({i}) = 1 /\ IsFiniteSet({i})
  BY FS_Singleton
<1>3. Cardinality({i} \union {j}) = 2
  <2>1. Cardinality({i} \union {j}) = Cardinality({i}) + 1
    BY <1>2, FS_AddElement, j \notin {i}
  <2> QED
    BY <1>2, <2>1
<1>4. Cardinality({i} \union {j}) <= Cardinality(S)
  BY <1>1, FS_Subset
<1> QED
  BY <1>1, <1>3, <1>4 DEF LoadedTwice

(* A strategy whose disable was answered and persisted, and that no two    *)
(* threads loaded twice, is handed no bar: it is neither running nor left  *)
(* to be served, and its row says so to the next process.                  *)
THEOREM Disabled == Spec => DisabledStays
<1>1. ASSUME RuntimeInv, CallInv, [Next]_vars, NEW n \in Names,
             told[n] = "disabled", ~LoadedTwice(n)
      PROVE  Len(calls'[n]) <= Len(calls[n])
  <2>1. Len(calls[n]) \in Nat
    BY <1>1 DEF CallInv, HandedInOrder
  <2>2. CASE UNCHANGED calls
    BY <2>1, <2>2
  <2>3. CASE Die
    BY <1>1, <2>1, <2>3 DEF Die
  <2>4. CASE HandOver
    <3>1. calls' = [calls EXCEPT ![Current] = Append(calls[Current], bar)] /\ serving # <<>>
      BY <2>4 DEF HandOver
    <3>2. TypeOK /\ Head(serving) \in DOMAIN implementations /\ Head(serving) \in Range(serving)
      BY <1>1, <3>1, ServingType DEF RuntimeInv
    <3>3. Current # n
      BY <1>1, <3>2, NotTwiceIsOnce DEF RuntimeInv, SwitchInv, Current, Named
    <3> HIDE DEF Current
    <3>4. calls'[n] = calls[n]
      BY <1>1, <3>1, <3>3 DEF CallInv
    <3> QED
      BY <2>1, <3>4
  <2> QED
    BY <1>1, <2>2, <2>3, <2>4
       DEF Next, vars, dispatchVars, Start, EnterLoop, Edit, Loader, Reconcile, Load, Install,
           EndLoad, Route, Enable, Disable, Switch, Tick, Dispatch, Skip, NoSignal, Raise, Signal,
           Record, Submit
<1>2. RuntimeInv /\ CallInv /\ [Next]_vars =>
          [\A n \in Names :
              told[n] = "disabled" /\ ~LoadedTwice(n) => Len(calls'[n]) <= Len(calls[n])]_vars
  BY <1>1
<1>3. Spec => []CallInv
  BY InitCalls, StepKeepsCalls, PTL DEF Spec
<1> QED
  BY <1>2, <1>3, Invariance, PTL DEF Spec, DisabledStays
=============================================================================
