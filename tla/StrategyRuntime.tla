----------------------------- MODULE StrategyRuntime -----------------------------
(***************************************************************************)
(* How strategy_runtime.py hosts strategies on one instrument: the config  *)
(* is loaded by the reconcile body, which runs in a thread of its own for  *)
(* the 30 s loop and for every reload_strategies call, while the event     *)
(* loop dispatches bars and serves enable_strategy and disable_strategy.   *)
(* Whether ticks arrive at all is TickFeed; what becomes of a signal is    *)
(* AutoExecutor.                                                           *)
(***************************************************************************)
EXTENDS Naturals, Sequences, SequencesExt, FiniteSets

CONSTANTS Names,     (* strategies the configuration names after its edit   *)
          First,     (* those it names before                               *)
          Threads,   (* "loop" and the threads of reload_strategies         *)
          Session,   (* bars inside the exchange session                    *)
          MaxBar,    (* bound: bars completed                                *)
          MaxFaults  (* bound: crashes, failed writes, reads and loads      *)

ASSUME NamesAssumption == First \subseteq Names
ASSUME ThreadsAssumption == "loop" \in Threads
ASSUME BarsAssumption == MaxBar \in Nat /\ Session \subseteq 1 .. MaxBar /\ MaxFaults \in Nat

VARIABLES
    phase,          (* the service: off, starting, fetching history, looping  *)
    file,           (* the configuration file: old or new                     *)
    recorded,       (* the version whose mtime is in _config_mtime            *)
    implementations,(* strategy_implementations: name and state of each       *)
    routed,         (* strategies[conId]: indexes of implementations          *)
    row,            (* the persisted strategy_state rows                      *)
    pc, queue,      (* per thread: where it is, names it has left to load     *)
    version,        (* per thread: the version whose mtime it read            *)
    bar,            (* the last completed bar of the instrument, 0 for none   *)
    last,           (* _last_dispatched_bar, per name                         *)
    serving, stage, (* the dispatch of a tick: whom it has left, and where    *)
    told,           (* what the operator was last told of a name              *)
    calls,          (* bars handed to on_prices, per name                     *)
    signalled,      (* bars on which it returned a signal                     *)
    submitted,      (* those handed to the executor                           *)
    due,            (* names that were running when the last tick came        *)
    faults

fileVars     == <<file, recorded>>
loaderVars   == <<implementations, routed, pc, queue, version>>
dispatchVars == <<bar, last, serving, stage, calls, signalled, submitted, due>>
vars == <<phase, fileVars, loaderVars, row, dispatchVars, told, faults>>

Contents(v) == IF v = "new" THEN Names ELSE First

Fault == faults < MaxFaults /\ faults' = faults + 1

Loaded(n) == \E i \in DOMAIN implementations : implementations[i].name = n

Enabled(i) == implementations[i].state = "RUNNING"

Fresh ==
    [implementations |-> <<>>, routed |-> <<>>,
     pc |-> [t \in Threads |-> "idle"], queue |-> [t \in Threads |-> {}],
     version |-> [t \in Threads |-> "none"]]

Init ==
    /\ phase = "off"
    /\ file = "old" /\ recorded = "none"
    /\ implementations = <<>> /\ routed = <<>>
    /\ row = [n \in Names |-> "unset"]
    /\ pc = Fresh.pc /\ queue = Fresh.queue /\ version = Fresh.version
    /\ bar = 0
    /\ last = [n \in Names |-> 0]
    /\ serving = <<>> /\ stage = "evaluate"
    /\ told = [n \in Names |-> "nothing"]
    /\ calls = [n \in Names |-> <<>>]
    /\ signalled = {} /\ submitted = {} /\ due = {}
    /\ faults = 0
-----------------------------------------------------------------------------
(* The process                                                             *)

(* run(): the configuration is loaded by the event loop itself.            *)
Start ==
    /\ phase = "off"
    /\ phase' = "starting"
    /\ pc' = [pc EXCEPT !["loop"] = "load"]
    /\ queue' = [queue EXCEPT !["loop"] = Contents(file)]
    /\ UNCHANGED <<fileVars, implementations, routed, version, row, dispatchVars, told, faults>>

(* Everything but the rows and the file is memory.                         *)
Die ==
    /\ phase # "off" /\ Fault
    /\ phase' = "off"
    /\ recorded' = "none"
    /\ implementations' = <<>> /\ routed' = <<>>
    /\ pc' = Fresh.pc /\ queue' = Fresh.queue /\ version' = Fresh.version
    /\ last' = [n \in Names |-> 0]
    /\ serving' = <<>> /\ stage' = "evaluate"
    /\ calls' = [n \in Names |-> <<>>]
    /\ signalled' = {} /\ submitted' = {} /\ due' = {}
    /\ UNCHANGED <<file, row, bar, told>>

(* The history is fetched; only then the mtime of the file is taken.       *)
EnterLoop ==
    /\ phase = "fetching"
    /\ phase' = "looping"
    /\ recorded' = file
    /\ UNCHANGED <<file, loaderVars, row, dispatchVars, told, faults>>

Edit ==
    /\ file = "old" /\ file' = "new"
    /\ UNCHANGED <<phase, recorded, loaderVars, row, dispatchVars, told, faults>>
-----------------------------------------------------------------------------
(* _reconcile_sync(), on thread t                                          *)

(* The periodic call comes once the loop is entered, the operator's as     *)
(* soon as the event loop is free again.                                   *)
Reconcile(t) ==
    /\ phase = "looping" \/ (phase = "fetching" /\ t # "loop")
    /\ pc[t] = "idle"
    /\ version' = [version EXCEPT ![t] = file]
    /\ IF file = recorded
       THEN pc' = [pc EXCEPT ![t] = "route"] /\ UNCHANGED queue
       ELSE /\ pc' = [pc EXCEPT ![t] = "load"]
            /\ queue' = [queue EXCEPT ![t] = Contents(file)]
    /\ UNCHANGED <<phase, fileVars, implementations, routed, row, dispatchVars, told, faults>>

(* load_strategy(), as far as "already loaded".  From there to the append  *)
(* the module is executed and several tables are read.                     *)
Load(t, n) ==
    /\ pc[t] = "load" /\ n \in queue[t]
    /\ IF Loaded(n)
       THEN queue' = [queue EXCEPT ![t] = @ \ {n}] /\ UNCHANGED pc
       ELSE pc' = [pc EXCEPT ![t] = n] /\ UNCHANGED queue
    /\ UNCHANGED <<phase, fileVars, implementations, routed, version, row, dispatchVars,
                   told, faults>>

(* Mutant: a disabled strategy is left as install() leaves a running one.  *)
RestoredUnlessRunning(value) == IF value = "unset" THEN "INSTALLED" ELSE "RUNNING"

Restored(value) ==
    CASE value = "on"    -> "RUNNING"
      [] value = "off"   -> "DISABLED"
      [] value = "unset" -> "INSTALLED"

(* The persisted flag decides its first state; a flag that cannot be read  *)
(* counts as never set.  A load that raises drops the name.                *)
Install(t) ==
    /\ pc[t] \in Names
    /\ LET n == pc[t] IN
       /\ \/ /\ implementations' =
                    Append(implementations, [name |-> n, state |-> Restored(row[n])])
             /\ UNCHANGED faults
          \/ /\ Fault /\ row[n] # "unset"
             /\ implementations' =
                    Append(implementations, [name |-> n, state |-> Restored("unset")])
          \/ Fault /\ UNCHANGED implementations
       /\ queue' = [queue EXCEPT ![t] = @ \ {n}]
    /\ pc' = [pc EXCEPT ![t] = "load"]
    /\ UNCHANGED <<phase, fileVars, routed, version, row, dispatchVars, told>>

(* The mtime read before the file was is recorded after it.                *)
EndLoad(t) ==
    /\ pc[t] = "load" /\ queue[t] = {}
    /\ pc' = [pc EXCEPT ![t] = "route"]
    /\ recorded' = IF phase = "starting" THEN recorded ELSE version[t]
    /\ UNCHANGED <<phase, file, implementations, routed, queue, version, row, dispatchVars,
                   told, faults>>

Unrouted == DOMAIN implementations \ Range(routed)

(* subscribe(), for the first strategy that is not a subscriber yet; a     *)
(* failing call to trader_service ends a cycle early, and ends run().      *)
Route(t) ==
    /\ pc[t] = "route"
    /\ \/ /\ Unrouted # {}
          /\ routed' = Append(routed, Min(Unrouted))
          /\ UNCHANGED <<pc, phase, faults>>
       \/ /\ IF Unrouted = {} THEN UNCHANGED faults ELSE phase # "starting" /\ Fault
          /\ pc' = [pc EXCEPT ![t] = "idle"]
          /\ phase' = IF phase = "starting" THEN "fetching" ELSE phase
          /\ UNCHANGED routed
    /\ UNCHANGED <<fileVars, implementations, queue, version, row, dispatchVars, told>>
-----------------------------------------------------------------------------
(* The event loop: one thing at a time                                     *)

EventLoopFree == phase \in {"fetching", "looping"} /\ serving = <<>>

FirstNamed(n) == Min({i \in DOMAIN implementations : implementations[i].name = n})

(* enable_strategy and disable_strategy reach the first strategy of that   *)
(* name; the row is written best effort.                                   *)
Switch(n, state, value, answer) ==
    /\ EventLoopFree /\ Loaded(n)
    /\ implementations' = [implementations EXCEPT ![FirstNamed(n)].state = state]
    /\ \/ /\ row' = [row EXCEPT ![n] = value]
          /\ told' = [told EXCEPT ![n] = answer]
          /\ UNCHANGED faults
       \/ /\ Fault
          /\ told' = [told EXCEPT ![n] = "nothing"]
          /\ UNCHANGED row
    /\ UNCHANGED <<phase, fileVars, routed, pc, queue, version, dispatchVars>>

Enable(n) == Switch(n, "RUNNING", "on", "enabled")
Disable(n) == Switch(n, "DISABLED", "off", "disabled")

(* __get_enabled_strategies(): those of the subscribers that are running.  *)
EnabledOf(subscribers) ==
    LET kept[i \in 0 .. Len(subscribers)] ==
            IF i = 0 THEN <<>>
            ELSE IF Enabled(subscribers[i]) THEN Append(kept[i - 1], subscribers[i])
            ELSE kept[i - 1]
    IN kept[Len(subscribers)]

(* on_ticker_next(), as far as the strategies to call; since the last tick  *)
(* bars may have been completed.                                           *)
Tick ==
    /\ EventLoopFree
    /\ bar' \in bar .. MaxBar
    /\ serving' = EnabledOf(routed)
    /\ serving' # <<>> \/ bar' # bar
    /\ due' = {implementations[i].name : i \in Range(serving')}
    /\ UNCHANGED <<phase, fileVars, loaderVars, row, last, stage, calls, signalled, submitted,
                   told, faults>>

Current == implementations[Head(serving)].name

(* Mutant: no session gate.                                                *)
SkippedUngated == bar = 0 \/ last[Current] = bar

(* No frame yet, the same bar as before, or a bar outside the session,     *)
(* which is not noted as the last one either.                              *)
Skipped == bar = 0 \/ last[Current] = bar \/ bar \notin Session

Served == serving' = Tail(serving)

Skip ==
    /\ serving # <<>> /\ stage = "evaluate" /\ Skipped
    /\ Served
    /\ UNCHANGED <<phase, fileVars, loaderVars, row, bar, last, stage, calls, signalled,
                   submitted, due, told, faults>>

(* Mutant: the bar is not noted.                                           *)
HandOverUnnoted ==
    /\ serving # <<>> /\ stage = "evaluate" /\ ~Skipped
    /\ UNCHANGED last
    /\ calls' = [calls EXCEPT ![Current] = Append(@, bar)]

(* A new bar is noted before the strategy sees it.                         *)
HandOver ==
    /\ serving # <<>> /\ stage = "evaluate" /\ ~Skipped
    /\ last' = [last EXCEPT ![Current] = bar]
    /\ calls' = [calls EXCEPT ![Current] = Append(@, bar)]

NoSignal ==
    /\ HandOver
    /\ Served
    /\ UNCHANGED <<phase, fileVars, loaderVars, row, bar, stage, signalled, submitted,
                   due, told, faults>>

(* Mutant: the exception ends the dispatch of the tick.                    *)
AbandonTick == serving' = <<>>

(* After a strategy raised, the next one is served.                        *)
NextServed == Served

Raise ==
    /\ HandOver
    /\ implementations' = [implementations EXCEPT ![Head(serving)].state = "ERROR"]
    /\ NextServed
    /\ UNCHANGED <<phase, fileVars, routed, pc, queue, version, row, bar, stage, signalled,
                   submitted, due, told, faults>>

Signal ==
    /\ HandOver
    /\ signalled' = signalled \union {<<Current, bar>>}
    /\ stage' = "record"
    /\ UNCHANGED <<phase, fileVars, loaderVars, row, bar, serving, submitted, due, told, faults>>

(* Mutant: a signal that cannot be recorded is dropped.                    *)
DropSignal == Served /\ stage' = "evaluate"

(* A signal that cannot be recorded or published goes to the executor.     *)
Unrecorded == stage' = "submit" /\ UNCHANGED serving

Record ==
    /\ stage = "record"
    /\ \/ stage' = "submit" /\ UNCHANGED <<serving, faults>>
       \/ Fault /\ Unrecorded
    /\ UNCHANGED <<phase, fileVars, loaderVars, row, bar, last, calls, signalled, submitted, due,
                   told>>

Submit ==
    /\ stage = "submit"
    /\ submitted' = submitted \union {<<Current, bar>>}
    /\ stage' = "evaluate"
    /\ Served
    /\ UNCHANGED <<phase, fileVars, loaderVars, row, bar, last, calls, signalled, due, told,
                   faults>>

Dispatch == Skip \/ NoSignal \/ Raise \/ Signal \/ Record \/ Submit

Loader(t) == Reconcile(t) \/ Install(t) \/ EndLoad(t) \/ Route(t) \/ \E n \in Names : Load(t, n)

Next ==
    \/ Start \/ Die \/ EnterLoop \/ Edit
    \/ \E t \in Threads : Loader(t)
    \/ \E n \in Names : Enable(n) \/ Disable(n)
    \/ Tick
    \/ Dispatch

Spec == Init /\ [][Next]_vars

-----------------------------------------------------------------------------
TypeOK ==
    /\ phase \in {"off", "starting", "fetching", "looping"}
    /\ file \in {"old", "new"} /\ recorded \in {"none", "old", "new"}
    /\ implementations \in
           Seq([name : Names, state : {"INSTALLED", "RUNNING", "DISABLED", "ERROR"}])
    /\ routed \in Seq(DOMAIN implementations)
    /\ row \in [Names -> {"unset", "on", "off"}]
    /\ pc \in [Threads -> {"idle", "load", "route"} \union Names]
    /\ queue \in [Threads -> SUBSET Names]
    /\ version \in [Threads -> {"none", "old", "new"}]
    /\ bar \in 0 .. MaxBar
    /\ last \in [Names -> 0 .. MaxBar]
    /\ serving \in Seq(DOMAIN implementations)
    /\ stage \in {"evaluate", "record", "submit"}
    /\ told \in [Names -> {"nothing", "enabled", "disabled"}]
    /\ calls \in [Names -> Seq(Session)]
    /\ signalled \subseteq Names \X Session /\ submitted \subseteq Names \X Session
    /\ due \subseteq Names
    /\ faults \in 0 .. MaxFaults

(* Two reconciles at once may load a name twice: the check and the append  *)
(* are not one step.                                                       *)
LoadedTwice(n) == Cardinality({i \in DOMAIN implementations : implementations[i].name = n}) > 1

(* A strategy whose disable was answered and persisted is handed no bar    *)
(* until it is enabled again, neither after a restart nor after the        *)
(* configuration was reloaded, provided that it was not loaded twice.      *)
DisabledStays ==
    [][\A n \in Names :
          told[n] = "disabled" /\ ~LoadedTwice(n) => Len(calls'[n]) <= Len(calls[n])]_vars

(* The same without the proviso: what a disable promises the operator.     *)
DisabledForGood ==
    [][\A n \in Names : told[n] = "disabled" => Len(calls'[n]) <= Len(calls[n])]_vars

(* One process hands a name each bar at most once, in order, also when a   *)
(* strategy raised on a bar and was enabled again before the next.         *)
BarsInOrder ==
    \A n \in Names : \A i, j \in DOMAIN calls[n] : i < j => calls[n][i] < calls[n][j]

(* Every signal of a tick has gone to the executor when the tick is done,  *)
(* whether or not it could be recorded and published.                      *)
SignalsSubmitted == serving = <<>> => signalled = submitted

(* When the dispatch of a tick is over, every strategy that was running    *)
(* when it began was handed the bar, no matter which other one raised.     *)
TickServesAll == serving = <<>> /\ bar \in Session => \A n \in due : last[n] = bar
=============================================================================
