----------------------------- MODULE ServiceProofs -----------------------------
(***************************************************************************)
(* Proofs about how the services come back.  TickFeed, for any instruments *)
(* and any bounds: what the strategy runtime believes published was asked  *)
(* of the trader_service that is running.  PyCron, for any jobs, processes *)
(* and faults: a job never has two processes, its process is the one that  *)
(* pycron holds, and it comes after the jobs it depends on.                *)
(***************************************************************************)
EXTENDS TickFeed, PyCron, FiniteSetTheorems, TLAPS

(* The parts of TypeOK, proved apart: flags, sets, numbers and labels.  A  *)
(* session begins without requests: without one there may be no lines.     *)
FlagsOK == link \in BOOLEAN /\ rival \in BOOLEAN /\ up \in BOOLEAN

SetsOK ==
    /\ tickers \subseteq Conids /\ lines \subseteq tickers
    /\ link \/ lines = {}
    /\ filters \subseteq Conids /\ remembered \subseteq Conids
    /\ todo \subseteq Conids /\ published \subseteq Conids /\ wanted \subseteq Conids

NumbersOK ==
    /\ boot \in 1 .. MaxBoot /\ knownBoot \in 0 .. MaxBoot
    /\ observers \in 0 .. 2
    /\ faults \in 0 .. MaxFaults

LabelsOK ==
    /\ loss \in {"none", "lost", "ticked"}
    /\ loop \in {"none", "retry", "setup"} /\ event \in {"none", "queued", "setup"}
    /\ pc \in {"off", "startup", "failed", "sleep", "boot check", "feed"}
    /\ file \in {"old", "bad", "new"} /\ recorded \in {"none", "old", "bad", "new"}

TypeParts == FlagsOK /\ SetsOK /\ NumbersOK /\ LabelsOK

(* The first state has every part.                                         *)
LEMMA InitParts == Init => TypeParts
<1> SUFFICES ASSUME Init PROVE TypeParts
  OBVIOUS
<1>1. FlagsOK
  BY DEF Init, FlagsOK
<1>2. SetsOK
  BY DEF Init, SetsOK
<1>3. NumbersOK
  BY BoundsAssumption DEF Init, NumbersOK
<1>4. LabelsOK
  BY DEF Init, LabelsOK
<1> QED
  BY <1>1, <1>2, <1>3, <1>4 DEF TypeParts

(* A session, a rival or a process is there or it is not.                  *)
LEMMA FlagsStep == FlagsOK /\ [Next]_vars => FlagsOK'
<1> SUFFICES ASSUME FlagsOK, [Next]_vars PROVE FlagsOK'
  OBVIOUS
<1> USE DEF FlagsOK, ibVars, traderVars, runtimeVars
<1>1. CASE Connect
  BY <1>1 DEF Connect
<1>2. CASE HandleConnected
  BY <1>2 DEF HandleConnected
<1>3. CASE Boot
  BY <1>3 DEF Boot
<1>4. CASE RetryMarketData
  BY <1>4 DEF RetryMarketData
<1>5. ASSUME NEW who \in {"loop", "event"}, FinishSetup(who) PROVE FlagsOK'
  BY <1>5 DEF FinishSetup
<1>6. ASSUME NEW who \in {"loop", "event"}, FailSetup(who) PROVE FlagsOK'
  BY <1>6 DEF FailSetup
<1>7. CASE Drop
  BY <1>7 DEF Drop
<1>8. CASE Die
  BY <1>8 DEF Die
<1>9. CASE Revoke
  BY <1>9 DEF Revoke
<1>10. CASE Release
  BY <1>10 DEF Release
<1>11. CASE Tick
  BY <1>11 DEF Tick
<1>12. CASE Edit
  BY <1>12 DEF Edit
<1>13. CASE StartRuntime
  BY <1>13 DEF StartRuntime
<1>14. CASE GiveUp
  BY <1>14 DEF GiveUp, ForgetRuntime
<1>15. CASE EnterLoop
  BY <1>15 DEF EnterLoop
<1>16. CASE Reconcile
  BY <1>16 DEF Reconcile
<1>17. CASE NoteTraderBoot
  BY <1>17 DEF NoteTraderBoot
<1>18. CASE Sleep
  BY <1>18 DEF Sleep
<1>19. CASE CrashRuntime
  BY <1>19 DEF CrashRuntime, ForgetRuntime
<1>20. ASSUME NEW c \in Conids, Subscribe(c) PROVE FlagsOK'
  BY <1>20 DEF Subscribe
<1>21. ASSUME NEW c \in Conids, SubscribeFails(c) PROVE FlagsOK'
  BY <1>21 DEF SubscribeFails
<1>22. CASE UNCHANGED vars
  BY <1>22 DEF vars
<1> QED
  BY <1>1, <1>2, <1>3, <1>4, <1>5, <1>6, <1>7, <1>8, <1>9, <1>10, <1>11, <1>12, <1>13,
     <1>14, <1>15, <1>16, <1>17, <1>18, <1>19, <1>20, <1>21, <1>22
     DEF Next, Trader, Runtime

(* Only known instruments are requested, and only requested ones flow.     *)
LEMMA SetsStep == SetsOK /\ [Next]_vars => SetsOK'
<1> SUFFICES ASSUME SetsOK, [Next]_vars PROVE SetsOK'
  OBVIOUS
<1> USE FirstAssumption DEF SetsOK, ibVars, traderVars, runtimeVars
<1>1. CASE Connect
  BY <1>1 DEF Connect
<1>2. CASE HandleConnected
  BY <1>2 DEF HandleConnected
<1>3. CASE Boot
  BY <1>3 DEF Boot
<1>4. CASE RetryMarketData
  BY <1>4 DEF RetryMarketData, Request
<1>5. ASSUME NEW who \in {"loop", "event"}, FinishSetup(who) PROVE SetsOK'
  BY <1>5 DEF FinishSetup, Republish, Request
<1>6. ASSUME NEW who \in {"loop", "event"}, FailSetup(who) PROVE SetsOK'
  BY <1>6 DEF FailSetup
<1>7. CASE Drop
  BY <1>7 DEF Drop
<1>8. CASE Die
  BY <1>8 DEF Die
<1>9. CASE Revoke
  BY <1>9 DEF Revoke
<1>10. CASE Release
  BY <1>10 DEF Release
<1>11. CASE Tick
  BY <1>11 DEF Tick
<1>12. CASE Edit
  BY <1>12 DEF Edit
<1>13. CASE StartRuntime
  BY <1>13 DEF StartRuntime, Contents
<1>14. CASE GiveUp
  BY <1>14 DEF GiveUp, ForgetRuntime
<1>15. CASE EnterLoop
  BY <1>15 DEF EnterLoop
<1>16. CASE Reconcile
  BY <1>16 DEF Reconcile, Contents
<1>17. CASE NoteTraderBoot
  BY <1>17 DEF NoteTraderBoot
<1>18. CASE Sleep
  BY <1>18 DEF Sleep
<1>19. CASE CrashRuntime
  BY <1>19 DEF CrashRuntime, ForgetRuntime
<1>20. ASSUME NEW c \in Conids, Subscribe(c) PROVE SetsOK'
  <2>1. /\ todo' \subseteq Conids /\ published' \subseteq Conids /\ wanted' \subseteq Conids
        /\ remembered' \subseteq Conids /\ filters' \subseteq Conids
    BY <1>20 DEF Subscribe, PublishContract, Abandon
  <2>2. CASE c \in published
    BY <1>20, <2>1, <2>2 DEF Subscribe
  <2>3. CASE c \notin published
    <3>1. link' = link
      BY <1>20, <2>3 DEF Subscribe
    <3>2. CASE UNCHANGED <<tickers, lines>>
      BY <2>1, <3>1, <3>2
    <3>3. CASE link /\ Request({c})
      BY <2>1, <3>1, <3>3 DEF Request
    <3> QED
      BY <1>20, <2>3, <3>2, <3>3 DEF Subscribe, PublishContract
  <2> QED
    BY <2>2, <2>3
<1>21. ASSUME NEW c \in Conids, SubscribeFails(c) PROVE SetsOK'
  BY <1>21 DEF SubscribeFails, PublishContract, Request, Abandon
<1>22. CASE UNCHANGED vars
  BY <1>22 DEF vars
<1> QED
  BY <1>1, <1>2, <1>3, <1>4, <1>5, <1>6, <1>7, <1>8, <1>9, <1>10, <1>11, <1>12, <1>13,
     <1>14, <1>15, <1>16, <1>17, <1>18, <1>19, <1>20, <1>21, <1>22
     DEF Next, Trader, Runtime

(* Boots, observers and faults stay within their bounds.                   *)
LEMMA NumbersStep == NumbersOK /\ [Next]_vars => NumbersOK'
<1> SUFFICES ASSUME NumbersOK, [Next]_vars PROVE NumbersOK'
  OBVIOUS
<1> USE BoundsAssumption DEF NumbersOK, Fault, ibVars, traderVars, runtimeVars
<1>1. CASE Connect
  BY <1>1 DEF Connect
<1>2. CASE HandleConnected
  BY <1>2 DEF HandleConnected
<1>3. CASE Boot
  BY <1>3 DEF Boot
<1>4. CASE RetryMarketData
  BY <1>4 DEF RetryMarketData, Request
<1>5. ASSUME NEW who \in {"loop", "event"}, FinishSetup(who) PROVE NumbersOK'
  BY <1>5 DEF FinishSetup, Republish, Request
<1>6. ASSUME NEW who \in {"loop", "event"}, FailSetup(who) PROVE NumbersOK'
  BY <1>6 DEF FailSetup
<1>7. CASE Drop
  BY <1>7 DEF Drop
<1>8. CASE Die
  BY <1>8 DEF Die
<1>9. CASE Revoke
  BY <1>9 DEF Revoke
<1>10. CASE Release
  BY <1>10 DEF Release
<1>11. CASE Tick
  BY <1>11 DEF Tick
<1>12. CASE Edit
  BY <1>12 DEF Edit
<1>13. CASE StartRuntime
  BY <1>13 DEF StartRuntime, Goto
<1>14. CASE GiveUp
  BY <1>14 DEF GiveUp, ForgetRuntime, Goto
<1>15. CASE EnterLoop
  BY <1>15 DEF EnterLoop, Goto
<1>16. CASE Reconcile
  BY <1>16 DEF Reconcile, Goto
<1>17. CASE NoteTraderBoot
  <2>1. knownBoot' \in {knownBoot, boot} /\ UNCHANGED <<boot, observers>>
    BY <1>17 DEF NoteTraderBoot
  <2>2. UNCHANGED faults \/ Fault
    BY <1>17 DEF NoteTraderBoot
  <2> QED
    BY <2>1, <2>2
<1>18. CASE Sleep
  BY <1>18 DEF Sleep, Goto
<1>19. CASE CrashRuntime
  BY <1>19 DEF CrashRuntime, ForgetRuntime, Goto
<1>20. ASSUME NEW c \in Conids, Subscribe(c) PROVE NumbersOK'
  <2>1. UNCHANGED <<boot, knownBoot, faults>>
    BY <1>20 DEF Subscribe, Abandon
  <2>2. observers' = observers \/ PublishContract(c)
    BY <1>20 DEF Subscribe
  <2>3. CASE observers' = observers
    BY <2>1, <2>3
  <2>4. CASE PublishContract(c)
    <3>1. CASE observers' = observers
      BY <2>1, <3>1
    <3>2. CASE observers < 2 /\ observers' = observers + 1
      BY <2>1, <3>2
    <3> QED
      BY <2>4, <3>1, <3>2 DEF PublishContract
  <2> QED
    BY <2>2, <2>3, <2>4
<1>21. ASSUME NEW c \in Conids, SubscribeFails(c) PROVE NumbersOK'
  BY <1>21 DEF SubscribeFails, PublishContract, Request, Abandon, Goto
<1>22. CASE UNCHANGED vars
  BY <1>22 DEF vars
<1> QED
  BY <1>1, <1>2, <1>3, <1>4, <1>5, <1>6, <1>7, <1>8, <1>9, <1>10, <1>11, <1>12, <1>13,
     <1>14, <1>15, <1>16, <1>17, <1>18, <1>19, <1>20, <1>21, <1>22
     DEF Next, Trader, Runtime

(* Loops, handlers and files are in one of their phases.                   *)
LEMMA LabelsStep == LabelsOK /\ [Next]_vars => LabelsOK'
<1> SUFFICES ASSUME LabelsOK, [Next]_vars PROVE LabelsOK'
  OBVIOUS
<1> USE DEF LabelsOK, ibVars, traderVars, runtimeVars
<1>1. CASE Connect
  BY <1>1 DEF Connect
<1>2. CASE HandleConnected
  BY <1>2 DEF HandleConnected
<1>3. CASE Boot
  BY <1>3 DEF Boot
<1>4. CASE RetryMarketData
  BY <1>4 DEF RetryMarketData, Request
<1>5. ASSUME NEW who \in {"loop", "event"}, FinishSetup(who) PROVE LabelsOK'
  BY <1>5 DEF FinishSetup, Republish, Request
<1>6. ASSUME NEW who \in {"loop", "event"}, FailSetup(who) PROVE LabelsOK'
  BY <1>6 DEF FailSetup
<1>7. CASE Drop
  BY <1>7 DEF Drop
<1>8. CASE Die
  BY <1>8 DEF Die
<1>9. CASE Revoke
  BY <1>9 DEF Revoke
<1>10. CASE Release
  BY <1>10 DEF Release
<1>11. CASE Tick
  BY <1>11 DEF Tick
<1>12. CASE Edit
  BY <1>12 DEF Edit
<1>13. CASE StartRuntime
  BY <1>13 DEF StartRuntime, Goto
<1>14. CASE GiveUp
  BY <1>14 DEF GiveUp, ForgetRuntime, Goto
<1>15. CASE EnterLoop
  BY <1>15 DEF EnterLoop, Goto
<1>16. CASE Reconcile
  BY <1>16 DEF Reconcile, Goto
<1>17. CASE NoteTraderBoot
  BY <1>17 DEF NoteTraderBoot, Goto
<1>18. CASE Sleep
  BY <1>18 DEF Sleep, Goto
<1>19. CASE CrashRuntime
  BY <1>19 DEF CrashRuntime, ForgetRuntime, Goto
<1>20. ASSUME NEW c \in Conids, Subscribe(c) PROVE LabelsOK'
  BY <1>20 DEF Subscribe, PublishContract, Request, Abandon, Goto
<1>21. ASSUME NEW c \in Conids, SubscribeFails(c) PROVE LabelsOK'
  BY <1>21 DEF SubscribeFails, PublishContract, Request, Abandon, Goto
<1>22. CASE UNCHANGED vars
  BY <1>22 DEF vars
<1> QED
  BY <1>1, <1>2, <1>3, <1>4, <1>5, <1>6, <1>7, <1>8, <1>9, <1>10, <1>11, <1>12, <1>13,
     <1>14, <1>15, <1>16, <1>17, <1>18, <1>19, <1>20, <1>21, <1>22
     DEF Next, Trader, Runtime

(* Every variable of the session, of trader_service and of the strategy    *)
(* runtime keeps its type, and only requested instruments have lines.      *)
THEOREM TypeCorrect == Spec => []TypeOK
<1>1. TypeParts /\ [Next]_vars => TypeParts'
  BY FlagsStep, SetsStep, NumbersStep, LabelsStep DEF TypeParts
<1>2. TypeParts => TypeOK
  BY DEF TypeParts, FlagsOK, SetsOK, NumbersOK, LabelsOK, TypeOK
<1> QED
  BY <1>1, <1>2, InitParts, PTL DEF Spec
-----------------------------------------------------------------------------
(* A boot id that is known belongs to this process or to an earlier one.   *)
BootsInOrder == boot \in Nat /\ knownBoot \in Nat /\ knownBoot <= boot

BackedInv == BootsInOrder /\ PublishedBacked

LEMMA InitBacked == Init => BackedInv
BY DEF Init, BackedInv, BootsInOrder, PublishedBacked

(* The steps of the session and of the market-data recovery remember every *)
(* contract they remembered, or end with the process.                      *)
LEMMA TraderKeepsBacked ==
    ASSUME BackedInv,
           \/ Trader \/ Drop \/ Die \/ Revoke \/ Release \/ Tick \/ Edit
    PROVE  BackedInv'
<1> USE DEF BackedInv, BootsInOrder, PublishedBacked, runtimeVars, traderVars, ibVars
<1>1. CASE Drop \/ Revoke \/ Release \/ Tick \/ Edit
  BY <1>1 DEF Drop, Revoke, Release, Tick, Edit
<1>2. CASE Die
  BY <1>2 DEF Die
<1>3. CASE Boot
  BY <1>3 DEF Boot
<1>4. CASE Connect \/ HandleConnected \/ RetryMarketData
  BY <1>4 DEF Connect, HandleConnected, RetryMarketData
<1>5. ASSUME NEW who \in {"loop", "event"}, FinishSetup(who) \/ FailSetup(who) PROVE BackedInv'
  BY <1>5 DEF FinishSetup, FailSetup
<1> QED
  BY <1>1, <1>2, <1>3, <1>4, <1>5 DEF Trader

LEMMA RuntimeKeepsBacked ==
    ASSUME BackedInv, Runtime \/ CrashRuntime PROVE BackedInv'
<1> USE DEF BackedInv, BootsInOrder, PublishedBacked, runtimeVars, traderVars, ibVars
<1>1. CASE StartRuntime \/ EnterLoop \/ Reconcile \/ Sleep
  <2>1. CASE StartRuntime
    BY <2>1 DEF StartRuntime
  <2>2. CASE EnterLoop
    BY <2>2 DEF EnterLoop
  <2>3. CASE Reconcile
    BY <2>3 DEF Reconcile
  <2>4. CASE Sleep
    BY <2>4 DEF Sleep
  <2> QED
    BY <1>1, <2>1, <2>2, <2>3, <2>4
<1>2. CASE GiveUp \/ CrashRuntime
  BY <1>2 DEF GiveUp, CrashRuntime, ForgetRuntime
<1>3. CASE NoteTraderBoot
  <2>1. UNCHANGED <<up, boot, remembered>>
    BY <1>3 DEF NoteTraderBoot
  <2>2. CASE knownBoot' = boot /\ published' = IF Stale THEN {} ELSE published
    BY <2>1, <2>2 DEF Stale
  <2>3. CASE UNCHANGED <<knownBoot, published>>
    BY <2>1, <2>3
  <2> QED
    BY <1>3, <2>2, <2>3 DEF NoteTraderBoot
<1>4. ASSUME NEW c \in Conids, Subscribe(c) PROVE BackedInv'
  BY <1>4 DEF Subscribe, PublishContract, Abandon
<1>5. ASSUME NEW c \in Conids, SubscribeFails(c) PROVE BackedInv'
  BY <1>5 DEF SubscribeFails, PublishContract, Abandon
<1> QED
  BY <1>1, <1>2, <1>3, <1>4, <1>5 DEF Runtime

(* No conid is left alone on the word of a trader_service that died:       *)
(* _note_trader_boot discards it before subscribe() looks at it.           *)
THEOREM Backed == Spec => []PublishedBacked
<1>1. BackedInv /\ [Next]_vars => BackedInv'
  <2>1. ASSUME BackedInv, UNCHANGED vars PROVE BackedInv'
    BY <2>1 DEF vars, ibVars, traderVars, runtimeVars, BackedInv, BootsInOrder, PublishedBacked
  <2> QED
    BY <2>1, TraderKeepsBacked, RuntimeKeepsBacked DEF Next
<1>2. BackedInv => PublishedBacked
  BY DEF BackedInv
<1> QED
  BY <1>1, <1>2, InitBacked, PTL DEF Spec

-----------------------------------------------------------------------------
(***************************************************************************)
(* The supervisor                                                          *)
(***************************************************************************)
(* The jobs that wait a moment before their process is created.            *)
Delayed == {j \in Jobs : Conf[j].delayed}

(* What a process is to its job: nobody else's, and the one it holds.      *)
OwnersInv ==
    /\ \A p \in alive \union watched : owner[p] # NoJob
    /\ \A j \in Jobs : process[j] # NoPid /\ owner[process[j]] # NoJob => owner[process[j]] = j

(* A job that counts as running ran; so did all a start has waited for.    *)
LaunchInv ==
    /\ \A j \in Jobs : running[j] => j \in launched
    /\ \A j \in Jobs : phase[j] \in {"delay", "spawn"} => Conf[j].depends \subseteq launched

(* A job no start_job of which raised: while one of its starts is under    *)
(* way it has no process; otherwise it has at most one, which it holds, or *)
(* which an earlier pycron left and the first poll will find.              *)
Untracked(j) == first /\ ~running[j] /\ ~finished[j] /\ process[j] = NoPid

JobInv(j) ==
    /\ j \notin retrying /\ phase[j] # "stuck"
    /\ running[j] => ~finished[j]
    /\ j \in queued \/ phase[j] # "idle" => Live(j) = {}
    /\ phase[j] = "spawn" => \A p \in watched : owner[p] # j
    /\ \A p, q \in Live(j) : p = q
    /\ Live(j) # {} => \A p \in watched : owner[p] = j => p \in alive
    /\ \A p \in Live(j) : \/ process[j] = p /\ IsRunning(j)
                          \/ Untracked(j) /\ p \notin watched

CronInv ==
    /\ CronTypeOK /\ OwnersInv /\ LaunchInv
    /\ \A j \in Delayed \ broken : JobInv(j)

(***************************************************************************)
(* Types                                                                   *)
(***************************************************************************)
LEMMA MishapTyped ==
    ASSUME mishaps \in 0..MaxMishaps, NEW kind, Mishap(kind) PROVE mishaps' \in 0..MaxMishaps
BY BoundAssumption DEF Mishap

LEMMA CappedTyped == ASSUME NEW n \in 0..MaxCount PROVE Capped(n + 1) \in 0..MaxCount
BY BoundAssumption DEF Capped

LEMMA KillTyped ==
    ASSUME CronTypeOK, NEW victims, Kill(victims)
    PROVE  /\ alive' \subseteq Pids /\ watched' \subseteq Pids
           /\ owner' \in [Pids -> Jobs \union {NoJob}]
           /\ code' \in [Pids -> {"ok", "error", "killed"}]
BY DEF CronTypeOK, Kill

LEMMA Owning == ASSUME CronTypeOK, OwnersInv, NEW p \in alive \union watched
                PROVE  p \in Pids /\ owner[p] \in Jobs
BY DEF CronTypeOK, OwnersInv

LEMMA TypeStep == ASSUME CronTypeOK, OwnersInv, [CronNext]_cronVars PROVE CronTypeOK'
<1> USE DEF CronTypeOK, jobVars, osVars
<1>1. CASE PollSome
  <2>1. PICK stopDue \in SUBSET Stoppers : PollAt(stopDue)
    BY <1>1 DEF PollSome
  <2>2. PICK startDue \in SUBSET Jobs, beforeStop \in SUBSET Stoppers,
             pick \in [Jobs -> Pids \union {NoPid}] :
           Poll(startDue, stopDue, beforeStop, pick)
    BY <2>1 DEF PollAt
  <2>3. /\ alive' \subseteq Pids /\ watched' \subseteq Pids
        /\ owner' \in [Pids -> Jobs \union {NoJob}]
        /\ code' \in [Pids -> {"ok", "error", "killed"}]
    BY <2>2, KillTyped DEF Poll
  <2>4. age' \in [Jobs -> 0..MaxCount]
    BY <2>2, CappedTyped DEF Poll
  <2>5. running' \in [Jobs -> BOOLEAN] /\ finished' \in [Jobs -> BOOLEAN]
    BY <2>2 DEF Poll
  <2>6. process' \in [Jobs -> Pids \union {NoPid}]
    BY <2>2 DEF Poll
  <2>7. /\ queued' \subseteq Jobs /\ launched' \subseteq Jobs /\ first' = FALSE
        /\ UNCHANGED <<retrying, phase, failed, count, mishaps, broken>>
    BY <2>2 DEF Poll
  <2> QED
    BY <2>3, <2>4, <2>5, <2>6, <2>7
<1>2. ASSUME NEW j \in Jobs, RestartJob(j) PROVE CronTypeOK'
  <2>1. PICK p, stopped : StopFields(stopped) /\ Kill({p} \intersect alive)
    BY <1>2 DEF RestartJob
  <2>2. /\ running' \in [Jobs -> BOOLEAN] /\ finished' \in [Jobs -> BOOLEAN]
        /\ process' \in [Jobs -> Pids \union {NoPid}]
    BY <2>1 DEF StopFields
  <2> QED
    BY <1>2, <2>1, <2>2, KillTyped, MishapTyped DEF RestartJob
<1>3. ASSUME NEW j \in Jobs, BeginStart(j) \/ DependsMet(j) \/ Delay(j) PROVE CronTypeOK'
  BY <1>3 DEF BeginStart, DependsMet, Delay
<1>4. ASSUME NEW j \in Jobs, SpawnRaises(j) PROVE CronTypeOK'
  BY <1>4, MishapTyped DEF SpawnRaises
<1>5. ASSUME NEW j \in Jobs, NEW p \in Pids, Spawn(j, p) PROVE CronTypeOK'
  BY <1>5, BoundAssumption DEF Spawn
<1>6. ASSUME NEW p \in Pids, Finish(p) PROVE CronTypeOK'
  <2>1. PICK j \in Jobs : j = owner[p]
    BY <1>6, Owning DEF Finish
  <2>2. count' \in [Jobs -> 0..MaxCount]
    BY <1>6, <2>1, CappedTyped DEF Finish
  <2>3. failed' \in [Jobs -> BOOLEAN]
    BY <1>6, <2>1 DEF Finish
  <2> QED
    BY <1>6, <2>1, <2>2, <2>3 DEF Finish
<1>7. ASSUME NEW p \in Pids, FinishGarbled(p) PROVE CronTypeOK'
  BY <1>7, Owning, MishapTyped DEF FinishGarbled
<1>8. ASSUME NEW p \in Pids, NEW how \in {"ok", "error"}, Exit(p, how) PROVE CronTypeOK'
  BY <1>8, MishapTyped DEF Exit
<1>9. CASE Reboot
  BY <1>9, MishapTyped, BoundAssumption DEF Reboot
<1>10. CASE UNCHANGED cronVars
  BY <1>10 DEF cronVars
<1> QED
  BY <1>1, <1>2, <1>3, <1>4, <1>5, <1>6, <1>7, <1>8, <1>9, <1>10 DEF CronNext
-----------------------------------------------------------------------------
(***************************************************************************)
(* Processes and their owners                                              *)
(***************************************************************************)
(* A kill takes processes away and changes the owner of no other.          *)
LEMMA KillOwners ==
    ASSUME CronTypeOK, OwnersInv, NEW victims, Kill(victims)
    PROVE  /\ alive' = alive \ victims /\ watched' = watched
           /\ \A p \in alive' \union watched' : owner'[p] = owner[p]
           /\ \A p \in Pids : owner'[p] \in {owner[p], NoJob}
           /\ \A j \in Jobs : Live(j)' = Live(j) \ victims
<1>1. /\ alive' = alive \ victims /\ watched' = watched
      /\ owner' = [p \in Pids |-> IF p \in victims \ watched THEN NoJob ELSE owner[p]]
      /\ alive \subseteq Pids /\ watched \subseteq Pids
  BY DEF Kill, CronTypeOK
<1>2. \A p \in alive' \union watched' : owner'[p] = owner[p]
  BY <1>1
<1> QED
  BY <1>1, <1>2 DEF Live

(* The process that a stop would kill belongs to the job.                  *)
LEMMA TargetOwned ==
    ASSUME CronTypeOK, OwnersInv, NEW j \in Jobs, NEW p \in Target(j)
    PROVE  /\ p # NoPid => p \in Live(j)
           /\ p = NoPid => Live(j) = {}
<1>1. NoPid \notin alive
  BY PidAssumption DEF CronTypeOK
<1>2. CASE process[j] \in alive
  BY <1>1, <1>2 DEF Target, OwnersInv, Live
<1>3. CASE process[j] \notin alive
  BY <1>1, <1>3 DEF Target, Live
<1> QED
  BY <1>2, <1>3

(* A job nothing happened to.                                              *)
LEMMA Bystander ==
    ASSUME NEW k \in Jobs, JobInv(k), k \in queued' => k \in queued, k \notin retrying',
           phase'[k] = phase[k], running'[k] = running[k], finished'[k] = finished[k],
           process'[k] = process[k], first' = first, Live(k)' = Live(k),
           \A p \in watched' : owner'[p] = k => p \in watched /\ owner[p] = k
    PROVE  JobInv(k)'
<1>1. \A p \in Live(k)' : p \in alive' /\ owner'[p] = k
  BY DEF Live
<1>2. Live(k) # {} => \A p \in watched' : owner'[p] = k => p \in alive'
  <2>1. SUFFICES ASSUME Live(k) # {}, NEW p \in watched', owner'[p] = k PROVE p \in alive'
    OBVIOUS
  <2>2. p \in Live(k)
    BY <2>1 DEF JobInv, Live
  <2> QED
    BY <1>1, <2>2
<1>3. ASSUME NEW p \in Live(k)'
      PROVE  \/ process'[k] = p /\ IsRunning(k)'
             \/ Untracked(k)' /\ p \notin watched'
  <2>1. (process[k] = p /\ IsRunning(k)) \/ (Untracked(k) /\ p \notin watched)
    BY <1>3 DEF JobInv
  <2> QED
    BY <1>1, <1>3, <2>1 DEF IsRunning, Untracked
<1> QED
  BY <1>2, <1>3 DEF JobInv

(* A job without a process, and with no start that is about to make one.   *)
LEMMA Empty ==
    ASSUME NEW k \in Jobs, Live(k)' = {}, k \notin retrying', phase'[k] \notin {"stuck", "spawn"},
           running'[k] => ~finished'[k]
    PROVE  JobInv(k)'
BY DEF JobInv
-----------------------------------------------------------------------------
(***************************************************************************)
(* The steps                                                               *)
(***************************************************************************)
Parts == OwnersInv /\ LaunchInv /\ \A j \in Delayed \ broken : JobInv(j)

(* One poll, for one job: what it held, what is stopped and what is found. *)
LEMMA PollStep ==
    ASSUME CronTypeOK, Parts, NEW startDue, NEW stopDue, NEW beforeStop,
           NEW pick \in [Jobs -> Pids \union {NoPid}], \A j \in Jobs : pick[j] \in Target(j),
           Poll(startDue, stopDue, beforeStop, pick)
    PROVE  Parts' /\ \A p \in alive' : owner'[p] \notin (stopDue \intersect Delayed) \ broken
<1> USE DEF Delayed
<1> DEFINE hooked  == {j \in Jobs : Hooks(j)}
           purged  == {j \in hooked : Conf[j].ifFound}
           adopted == hooked \ purged
           on      == {j \in Jobs : IsRunning(j)} \union {j \in adopted : ~finished[j]}
           stopped == {j \in on \intersect stopDue : pick[j] # NoPid}
           gone    == stopped \union purged
           victims == {pick[j] : j \in stopped} \union UNION {Live(j) : j \in purged}
<1>1. /\ first' = FALSE
      /\ queued' = {j \in Jobs \ on :
                      StartsNow(j, finished[j] \/ j \in purged, startDue, beforeStop)}
      /\ running' = [j \in Jobs |-> (running[j] \/ j \in adopted) /\ j \notin gone]
      /\ finished' = [j \in Jobs |-> finished[j] \/ j \in gone]
      /\ process' = [j \in Jobs |-> IF j \in gone THEN NoPid
                                    ELSE IF j \in adopted THEN pick[j] ELSE process[j]]
      /\ Kill(victims)
      /\ launched' = launched \union adopted
      /\ UNCHANGED <<retrying, phase, broken>>
  BY DEF Poll
<1>2. /\ alive' = alive \ victims /\ watched' = watched
      /\ \A p \in alive' \union watched' : owner'[p] = owner[p]
      /\ \A p \in Pids : owner'[p] \in {owner[p], NoJob}
      /\ \A j \in Jobs : Live(j)' = Live(j) \ victims
  BY <1>1, KillOwners DEF Parts
<1>3. \A j \in Jobs : /\ pick[j] # NoPid => pick[j] \in Live(j)
                      /\ pick[j] = NoPid => Live(j) = {}
  BY TargetOwned DEF Parts
<1>4. \A j \in Jobs : j \in hooked => /\ first /\ ~running[j] /\ process[j] = NoPid
                                      /\ Live(j) # {} /\ pick[j] # NoPid
  BY <1>3 DEF Hooks
<1>5. /\ \A j \in purged : Live(j) \subseteq victims
      /\ \A j \in stopped : pick[j] \in victims
  OBVIOUS
<1>6. /\ hooked \subseteq Jobs /\ purged \subseteq hooked /\ adopted = hooked \ purged
      /\ stopped \subseteq on /\ on \subseteq Jobs /\ gone = stopped \union purged
      /\ \A j \in Jobs : j \in on <=> IsRunning(j) \/ (j \in adopted /\ ~finished[j])
      /\ \A j \in on : j \in stopDue /\ pick[j] # NoPid => j \in stopped
      /\ \A j \in Jobs : j \in hooked <=> Hooks(j)
  OBVIOUS
<1> HIDE DEF hooked, purged, adopted, on, stopped, gone, victims
<1>7. OwnersInv'
  <2>1. ASSUME NEW j \in Jobs, process'[j] # NoPid, owner'[process'[j]] # NoJob
        PROVE  owner'[process'[j]] = j
    <3>1. process' \in [Jobs -> Pids \union {NoPid}]
      BY <1>1, <1>3 DEF CronTypeOK
    <3>2. PICK p \in Pids : p = process'[j]
      BY <2>1, <3>1
    <3>3. owner'[p] = owner[p] /\ owner[p] # NoJob
      BY <1>2, <2>1, <3>2
    <3>4. p = process[j] \/ p \in Live(j)
      BY <1>1, <1>3, <2>1, <3>2
    <3> QED
      BY <2>1, <3>2, <3>3, <3>4 DEF Parts, OwnersInv, Live
  <2> QED
    BY <1>2, <2>1 DEF Parts, OwnersInv
<1>8. LaunchInv'
  BY <1>1 DEF Parts, LaunchInv
<1>9. ASSUME NEW j \in Delayed \ broken, NEW p \in Live(j) \ victims
      PROVE  /\ process'[j] = p /\ running'[j] /\ ~finished'[j]
             /\ j \notin stopDue /\ j \in on /\ Live(j) \ victims = Live(j)
  <2>1. \A q \in Live(j) : q = p
    BY <1>9 DEF Parts, JobInv
  <2>2. j \notin purged
    BY <1>5, <1>9
  <2>3. CASE process[j] = p /\ IsRunning(j)
    <3>1. pick[j] = p /\ p # NoPid
      BY <1>3, <1>9, <2>1, PidAssumption DEF Live, CronTypeOK
    <3>2. j \in on /\ j \notin stopped /\ j \notin stopDue /\ j \notin adopted
      BY <1>4, <1>5, <1>6, <1>9, <2>3, <3>1 DEF IsRunning
    <3> QED
      BY <1>1, <1>6, <1>9, <2>1, <2>2, <2>3, <3>2 DEF IsRunning
  <2>4. CASE Untracked(j)
    <3>1. Hooks(j)
      BY <1>9, <2>4 DEF Hooks, Untracked
    <3>2. j \in adopted /\ j \in on /\ pick[j] = p /\ pick[j] # NoPid
      BY <1>3, <1>4, <1>6, <1>9, <2>1, <2>2, <2>4, <3>1 DEF Untracked
    <3>3. j \notin stopped /\ j \notin stopDue
      BY <1>5, <1>6, <1>9, <3>2
    <3> QED
      BY <1>1, <1>6, <1>9, <2>1, <2>2, <2>4, <3>2, <3>3 DEF Untracked
  <2> QED
    BY <1>9, <2>3, <2>4 DEF Parts, JobInv
<1>10. ASSUME NEW j \in Delayed \ broken PROVE JobInv(j)'
  <2>1. JobInv(j) /\ Live(j)' = Live(j) \ victims
    BY <1>2 DEF Parts
  <2>2. j \notin retrying' /\ phase'[j] = phase[j]
    BY <1>1, <2>1 DEF JobInv
  <2>3. running'[j] => ~finished'[j]
    <3>1. CASE running[j]
      BY <1>1, <2>1, <3>1 DEF JobInv
    <3>2. CASE j \in adopted /\ j \notin gone
      <4>1. Live(j) # {} /\ ~running[j]
        BY <1>4, <1>6, <3>2
      <4>2. ~finished[j]
        BY <2>1, <4>1 DEF JobInv, IsRunning, Untracked
      <4> QED
        BY <1>1, <3>2, <4>2
    <3> QED
      BY <1>1, <3>1, <3>2
  <2>4. ASSUME j \in queued' \/ phase'[j] # "idle", Live(j)' # {} PROVE FALSE
    <3>1. PICK p \in Live(j) \ victims : TRUE
      BY <2>1, <2>4
    <3>2. j \in on
      BY <1>9, <3>1
    <3> QED
      BY <1>1, <2>1, <2>2, <2>4, <3>1, <3>2 DEF JobInv
  <2>5. phase'[j] = "spawn" => \A p \in watched' : owner'[p] # j
    BY <1>2, <2>1, <2>2 DEF JobInv
  <2>6. Live(j)' # {} => \A p \in watched' : owner'[p] = j => p \in alive'
    <3>1. SUFFICES ASSUME Live(j)' # {}, NEW p \in watched', owner'[p] = j PROVE p \in alive'
      OBVIOUS
    <3>2. PICK q \in Live(j) \ victims : TRUE
      BY <2>1, <3>1
    <3>3. p \in Live(j)
      BY <1>2, <2>1, <3>1, <3>2 DEF JobInv, Live
    <3>4. p = q
      BY <2>1, <3>2, <3>3 DEF JobInv
    <3> QED
      BY <1>2, <3>2, <3>4 DEF Live
  <2>7. \A p \in Live(j)' : process'[j] = p /\ IsRunning(j)'
    BY <1>9, <2>1 DEF IsRunning
  <2> QED
    BY <2>1, <2>2, <2>3, <2>4, <2>5, <2>6, <2>7 DEF JobInv
<1>11. ASSUME NEW p \in alive', owner'[p] \in (stopDue \intersect Delayed) \ broken PROVE FALSE
  <2>1. PICK j \in Jobs : j = owner[p]
    BY <1>2, <1>11, Owning DEF Parts
  <2>2. j \in Delayed \ broken /\ j \in stopDue /\ p \in Live(j) \ victims
    BY <1>2, <1>11, <2>1 DEF Live
  <2> QED
    BY <1>9, <2>2
<1> QED
  BY <1>1, <1>7, <1>8, <1>10, <1>11 DEF Parts

(* A restart kills what the job has, and queues the job.                   *)
LEMMA RestartStep ==
    ASSUME CronTypeOK, Parts, NEW j \in Jobs, RestartJob(j) PROVE Parts'
<1> USE DEF Delayed
<1>1. PICK p \in Target(j) :
        LET stopped == {j} \ IF p = NoPid THEN {j} ELSE {}
        IN  StopFields(stopped) /\ Kill({p} \intersect alive)
  BY DEF RestartJob
<1> DEFINE stopped == IF p = NoPid THEN {} ELSE {j}
           victims == {p} \intersect alive
<1>2. /\ queued' = queued \union {j}
      /\ UNCHANGED <<first, retrying, phase, launched, broken>>
      /\ StopFields(stopped) /\ Kill(victims)
  <2>1. {j} \ (IF p = NoPid THEN {j} ELSE {}) = stopped
    OBVIOUS
  <2> QED
    BY <1>1, <2>1 DEF RestartJob
<1>3. /\ alive' = alive \ victims /\ watched' = watched
      /\ \A q \in alive' \union watched' : owner'[q] = owner[q]
      /\ \A q \in Pids : owner'[q] \in {owner[q], NoJob}
      /\ \A k \in Jobs : Live(k)' = Live(k) \ victims
  BY <1>2, KillOwners DEF Parts
<1>4. (p # NoPid => p \in Live(j)) /\ (p = NoPid => Live(j) = {})
  BY TargetOwned DEF Parts
<1>5. \A k \in Jobs : k # j => /\ running'[k] = running[k] /\ finished'[k] = finished[k]
                               /\ process'[k] = process[k]
  BY <1>2 DEF StopFields, CronTypeOK
<1>6. OwnersInv'
  <2>1. ASSUME NEW k \in Jobs, process'[k] # NoPid, owner'[process'[k]] # NoJob
        PROVE  owner'[process'[k]] = k
    <3>1. process'[k] = process[k]
      BY <1>2, <2>1 DEF StopFields, CronTypeOK
    <3> QED
      BY <1>3, <2>1, <3>1 DEF Parts, OwnersInv, CronTypeOK
  <2> QED
    BY <1>3, <2>1 DEF Parts, OwnersInv
<1>7. LaunchInv'
  BY <1>2 DEF Parts, LaunchInv, StopFields
<1>8. ASSUME NEW k \in Delayed \ broken, k # j PROVE JobInv(k)'
  <2>1. Live(k)' = Live(k)
    BY <1>3, <1>4, <1>8, PidAssumption DEF Live, CronTypeOK
  <2>2. \A q \in watched' : owner'[q] = k => q \in watched /\ owner[q] = k
    BY <1>3
  <2> QED
    BY <1>2, <1>5, <1>8, <2>1, <2>2, Bystander DEF Parts, JobInv
<1>9. ASSUME j \in Delayed \ broken PROVE JobInv(j)'
  <2>1. Live(j)' = {}
    BY <1>3, <1>4, <1>9 DEF Parts, JobInv, Live
  <2>2. running'[j] => ~finished'[j]
    BY <1>2, <1>9 DEF StopFields, Parts, JobInv
  <2>3. phase'[j] = "spawn" => \A q \in watched' : owner'[q] # j
    BY <1>2, <1>3, <1>9 DEF Parts, JobInv
  <2> QED
    BY <1>2, <1>9, <2>1, <2>2, <2>3 DEF Parts, JobInv
<1> QED
  BY <1>2, <1>6, <1>7, <1>8, <1>9 DEF Parts

(* Of a start, only its wait for what was killed needs an argument.        *)
LEMMA StartStep ==
    ASSUME CronTypeOK, Parts, NEW j \in Jobs, BeginStart(j) \/ DependsMet(j) \/ Delay(j)
    PROVE  Parts'
<1> USE DEF Delayed
<1>1. /\ UNCHANGED <<first, jobVars, osVars, launched, broken>>
      /\ queued' \subseteq queued /\ retrying' \subseteq retrying
      /\ \A k \in Jobs : k # j => phase'[k] = phase[k]
      /\ phase'[j] # phase[j] => phase'[j] \in {"depends", "delay", "spawn"}
  BY DEF BeginStart, DependsMet, Delay, CronTypeOK
<1>2. OwnersInv'
  BY <1>1 DEF Parts, OwnersInv, jobVars, osVars
<1>3. LaunchInv'
  <2>1. \A d \in Jobs : running[d] => d \in launched
    BY DEF Parts, LaunchInv
  <2>2. phase'[j] \in {"delay", "spawn"} => Conf[j].depends \subseteq launched
    <3>1. CASE BeginStart(j)
      BY <3>1 DEF BeginStart, Parts, LaunchInv, CronTypeOK
    <3>2. CASE DependsMet(j)
      <4>1. Conf[j].depends \subseteq Jobs
        BY ConfAssumption DEF JobConf
      <4> QED
        BY <2>1, <3>2, <4>1 DEF DependsMet, IsRunning
    <3>3. CASE Delay(j)
      BY <3>3 DEF Delay, Parts, LaunchInv
    <3> QED
      BY <3>1, <3>2, <3>3
  <2> QED
    BY <1>1, <2>1, <2>2 DEF Parts, LaunchInv, jobVars
<1>4. ASSUME NEW k \in Jobs PROVE Live(k)' = Live(k)
  BY <1>1 DEF Live, osVars
<1>5. ASSUME NEW k \in Delayed \ broken, k # j PROVE JobInv(k)'
  BY <1>1, <1>4, <1>5, Bystander DEF Parts, JobInv, jobVars, osVars
<1>6. ASSUME j \in Delayed \ broken PROVE JobInv(j)'
  <2>1. JobInv(j)
    BY <1>6 DEF Parts
  <2>2. j \in queued' \/ phase'[j] # "idle" => Live(j)' = {}
    BY <1>4, <2>1 DEF JobInv, BeginStart, DependsMet, Delay
  <2>3. phase'[j] = "spawn" => \A p \in watched : owner[p] # j
    <3>1. CASE Delay(j)
      <4>1. Reaped /\ Live(j) = {}
        BY <1>6, <2>1, <3>1 DEF Delay, JobInv
      <4> QED
        BY <4>1 DEF Reaped, Live
    <3>2. CASE phase'[j] = phase[j] \/ phase'[j] # "spawn"
      BY <2>1, <3>2 DEF JobInv
    <3>3. CASE DependsMet(j)
      BY <3>3 DEF DependsMet, CronTypeOK
    <3>4. CASE BeginStart(j)
      BY <3>2, <3>4 DEF BeginStart, CronTypeOK
    <3> QED
      BY <3>1, <3>3, <3>4
  <2>4. j \notin retrying' /\ phase'[j] # "stuck"
    BY <1>1, <2>1 DEF JobInv
  <2>5. \A p \in Live(j)' : (process'[j] = p /\ IsRunning(j)') \/ (Untracked(j)' /\ p \notin watched')
    <3>1. /\ process' = process /\ running' = running /\ finished' = finished
          /\ first' = first /\ watched' = watched
      BY <1>1 DEF jobVars, osVars
    <3> QED
      BY <1>4, <2>1, <3>1 DEF JobInv, IsRunning, Untracked
  <2> QED
    BY <1>1, <1>4, <2>1, <2>2, <2>3, <2>4, <2>5 DEF JobInv, jobVars, osVars
<1> QED
  BY <1>1, <1>2, <1>3, <1>5, <1>6 DEF Parts

(* A new process is the only one of its job, and held by it.               *)
LEMMA SpawnStep ==
    ASSUME CronTypeOK, Parts, NEW j \in Jobs, NEW p \in Pids, Spawn(j, p) PROVE Parts'
<1> USE DEF Delayed
<1>1. /\ alive' = alive \union {p} /\ watched' = watched \union {p}
      /\ owner[p] = NoJob /\ owner' = [owner EXCEPT ![p] = j]
      /\ p \notin alive \union watched
      /\ \A q \in alive \union watched : q \in Pids /\ q # p /\ owner'[q] = owner[q]
  BY DEF Spawn, Parts, OwnersInv, CronTypeOK
<1>2. owner'[p] = j /\ j # NoJob
  BY <1>1, JobAssumption DEF CronTypeOK
<1>3. /\ process' = [process EXCEPT ![j] = p] /\ running' = [running EXCEPT ![j] = TRUE]
      /\ finished' = [finished EXCEPT ![j] = FALSE] /\ phase' = [phase EXCEPT ![j] = "idle"]
      /\ launched' = launched \union {j} /\ queued = {} /\ phase[j] = "spawn"
      /\ \A k \in Jobs : process[k] # p
      /\ UNCHANGED <<first, queued, retrying, broken>>
  BY DEF Spawn
<1>4. OwnersInv'
  <2>1. \A q \in alive' \union watched' : owner'[q] # NoJob
    BY <1>1, <1>2 DEF Parts, OwnersInv
  <2>2. ASSUME NEW k \in Jobs, k # j, process'[k] # NoPid, owner'[process'[k]] # NoJob
        PROVE  owner'[process'[k]] = k
    BY <1>1, <1>3, <2>2 DEF Parts, OwnersInv, CronTypeOK
  <2>3. process'[j] = p
    BY <1>3 DEF CronTypeOK
  <2> QED
    BY <1>2, <2>1, <2>2, <2>3 DEF OwnersInv
<1>5. LaunchInv'
  BY <1>3 DEF Parts, LaunchInv, CronTypeOK
<1>6. \A k \in Jobs : k # j => Live(k)' = Live(k)
  BY <1>1, <1>2 DEF Live
<1>7. ASSUME NEW k \in Delayed \ broken, k # j PROVE JobInv(k)'
  <2>1. \A q \in watched' : owner'[q] = k => q \in watched /\ owner[q] = k
    BY <1>1, <1>2, <1>7
  <2>2. /\ JobInv(k) /\ k \notin retrying' /\ k \notin queued'
        /\ phase'[k] = phase[k] /\ running'[k] = running[k]
        /\ finished'[k] = finished[k] /\ process'[k] = process[k]
    BY <1>3, <1>7 DEF Parts, JobInv, CronTypeOK
  <2> QED
    BY <1>3, <1>6, <1>7, <2>1, <2>2, Bystander
<1>8. ASSUME j \in Delayed \ broken PROVE JobInv(j)'
  <2>1. JobInv(j)
    BY <1>8 DEF Parts
  <2>2. Live(j)' = {p}
    BY <1>1, <1>2, <1>3, <2>1 DEF Live, JobInv
  <2>3. \A q \in watched' : owner'[q] = j => q = p
    BY <1>1, <1>3, <2>1 DEF JobInv
  <2>4. /\ process'[j] = p /\ running'[j] /\ ~finished'[j] /\ phase'[j] = "idle"
        /\ j \notin queued' /\ j \notin retrying'
    BY <1>3, <2>1 DEF CronTypeOK, JobInv
  <2> QED
    BY <1>1, <2>2, <2>3, <2>4 DEF JobInv, IsRunning
<1> QED
  BY <1>3, <1>4, <1>5, <1>7, <1>8 DEF Parts

LEMMA RaiseStep == ASSUME CronTypeOK, Parts, NEW j \in Jobs, SpawnRaises(j) PROVE Parts'
<1> USE DEF Delayed
<1>1. /\ retrying' = retrying \union {j} /\ phase' = [phase EXCEPT ![j] = "stuck"]
      /\ broken' = broken \union {j}
      /\ UNCHANGED <<first, queued, jobVars, osVars, launched>>
  BY DEF SpawnRaises
<1>2. OwnersInv' /\ LaunchInv'
  BY <1>1 DEF Parts, OwnersInv, LaunchInv, jobVars, osVars, CronTypeOK
<1>3. ASSUME NEW k \in Delayed \ broken' PROVE JobInv(k)'
  <2>1. Live(k)' = Live(k)
    BY <1>1 DEF Live, osVars
  <2> QED
    BY <1>1, <1>3, <2>1, Bystander DEF Parts, JobInv, jobVars, osVars, CronTypeOK
<1> QED
  BY <1>2, <1>3 DEF Parts

(* The end of a process leaves every job with less.                        *)
LEMMA ExitStep ==
    ASSUME CronTypeOK, Parts, NEW p \in Pids, NEW how, Exit(p, how) PROVE Parts'
<1> USE DEF Delayed
<1>1. /\ alive' = alive \ {p} /\ watched' = watched
      /\ owner' \in {owner, [owner EXCEPT ![p] = NoJob]} /\ (p \in watched => owner' = owner)
      /\ UNCHANGED <<first, queued, retrying, phase, jobVars, launched, broken>>
  BY DEF Exit
<1>2. /\ \A q \in alive' \union watched' : owner'[q] = owner[q]
      /\ \A q \in Pids : owner'[q] \in {owner[q], NoJob}
      /\ \A q : owner'[q] = owner[q] \/ owner'[q] = NoJob \/ q \notin Pids
  BY <1>1 DEF CronTypeOK
<1>3. OwnersInv'
  <2>1. ASSUME NEW k \in Jobs, process'[k] # NoPid, owner'[process'[k]] # NoJob
        PROVE  owner'[process'[k]] = k
    BY <1>1, <1>2, <2>1 DEF Parts, OwnersInv, jobVars, CronTypeOK
  <2> QED
    BY <1>1, <1>2, <2>1 DEF Parts, OwnersInv
<1>4. LaunchInv'
  BY <1>1 DEF Parts, LaunchInv, jobVars
<1>5. \A k \in Jobs : Live(k)' = Live(k) \ {p}
  BY <1>1, <1>2 DEF Live
<1>6. ASSUME NEW k \in Delayed \ broken PROVE JobInv(k)'
  <2>1. JobInv(k)
    BY <1>6 DEF Parts
  <2>2. CASE p \notin Live(k)
    <3>1. Live(k)' = Live(k)
      BY <1>5, <2>2
    <3>2. \A q \in watched' : owner'[q] = k => q \in watched /\ owner[q] = k
      BY <1>1, <1>2
    <3> QED
      BY <1>1, <2>1, <3>1, <3>2, Bystander DEF JobInv, jobVars
  <2>3. CASE p \in Live(k)
    <3>1. Live(k)' = {}
      BY <1>5, <2>1, <2>3 DEF JobInv
    <3> QED
      BY <1>1, <2>1, <2>3, <3>1 DEF JobInv, jobVars
  <2> QED
    BY <2>2, <2>3
<1> QED
  BY <1>1, <1>3, <1>4, <1>6 DEF Parts

(* A coroutine that clears its job clears nothing that is in use: a job    *)
(* with a process has only that one watched.                               *)
LEMMA FinishStep == ASSUME CronTypeOK, Parts, NEW p \in Pids, Finish(p) PROVE Parts'
<1> USE DEF Delayed
<1>1. PICK j \in Jobs : j = owner[p]
  BY Owning DEF Finish, Parts
<1>2. /\ p \in watched /\ p \notin alive /\ watched' = watched \ {p} /\ alive' = alive
      /\ owner' = [owner EXCEPT ![p] = NoJob]
      /\ running' = [running EXCEPT ![j] = FALSE] /\ finished' = [finished EXCEPT ![j] = TRUE]
      /\ process' = [process EXCEPT ![j] = NoPid]
      /\ UNCHANGED <<first, queued, retrying, phase, launched, broken>>
  BY <1>1 DEF Finish
<1>3. /\ \A q \in alive' \union watched' : owner'[q] = owner[q]
      /\ \A q \in Pids : owner'[q] \in {owner[q], NoJob}
      /\ \A k \in Jobs : Live(k)' = Live(k)
  BY <1>2 DEF CronTypeOK, Live
<1>4. OwnersInv'
  <2>1. ASSUME NEW k \in Jobs, process'[k] # NoPid, owner'[process'[k]] # NoJob
        PROVE  owner'[process'[k]] = k
    BY <1>2, <1>3, <2>1 DEF Parts, OwnersInv, CronTypeOK
  <2> QED
    BY <1>2, <1>3, <2>1 DEF Parts, OwnersInv
<1>5. LaunchInv'
  BY <1>2 DEF Parts, LaunchInv, CronTypeOK
<1>6. ASSUME NEW k \in Delayed \ broken PROVE JobInv(k)'
  <2>1. JobInv(k)
    BY <1>6 DEF Parts
  <2>2. CASE k # j
    <3>1. \A q \in watched' : owner'[q] = k => q \in watched /\ owner[q] = k
      BY <1>2, <1>3
    <3>2. /\ k \notin retrying' /\ queued' = queued
          /\ phase'[k] = phase[k] /\ running'[k] = running[k]
          /\ finished'[k] = finished[k] /\ process'[k] = process[k]
      BY <1>2, <2>1, <2>2 DEF JobInv, CronTypeOK
    <3> QED
      BY <1>2, <1>3, <2>1, <3>1, <3>2, Bystander
  <2>3. CASE k = j
    <3>1. Live(j)' = {}
      BY <1>1, <1>2, <1>3, <2>1, <2>3 DEF JobInv
    <3>2. phase'[j] # "spawn" /\ ~running'[j]
      BY <1>1, <1>2, <2>1, <2>3 DEF JobInv, CronTypeOK
    <3> QED
      BY <1>2, <2>1, <2>3, <3>1, <3>2 DEF JobInv
  <2> QED
    BY <2>2, <2>3
<1> QED
  BY <1>2, <1>4, <1>5, <1>6 DEF Parts

LEMMA GarbledStep == ASSUME CronTypeOK, Parts, NEW p \in Pids, FinishGarbled(p) PROVE Parts'
<1> USE DEF Delayed
<1>1. PICK j \in Jobs : j = owner[p]
  BY Owning DEF FinishGarbled, Parts
<1>2. /\ p \in watched /\ p \notin alive /\ watched' = watched \ {p} /\ alive' = alive
      /\ owner' = [owner EXCEPT ![p] = NoJob] /\ broken' = broken \union {j}
      /\ retrying' \subseteq retrying \union {j}
      /\ UNCHANGED <<first, queued, phase, jobVars, launched>>
  BY <1>1 DEF FinishGarbled
<1>3. /\ \A q \in alive' \union watched' : owner'[q] = owner[q]
      /\ \A q \in Pids : owner'[q] \in {owner[q], NoJob}
      /\ \A k \in Jobs : Live(k)' = Live(k)
  BY <1>2 DEF CronTypeOK, Live
<1>4. OwnersInv'
  <2>1. ASSUME NEW k \in Jobs, process'[k] # NoPid, owner'[process'[k]] # NoJob
        PROVE  owner'[process'[k]] = k
    BY <1>2, <1>3, <2>1 DEF Parts, OwnersInv, CronTypeOK, jobVars
  <2> QED
    BY <1>2, <1>3, <2>1 DEF Parts, OwnersInv
<1>5. LaunchInv'
  BY <1>2 DEF Parts, LaunchInv, jobVars
<1>6. ASSUME NEW k \in Delayed \ broken' PROVE JobInv(k)'
  <2>1. JobInv(k) /\ k # j
    BY <1>2, <1>6 DEF Parts
  <2>2. \A q \in watched' : owner'[q] = k => q \in watched /\ owner[q] = k
    BY <1>2, <1>3
  <2> QED
    BY <1>2, <1>3, <2>1, <2>2, Bystander DEF JobInv, jobVars
<1> QED
  BY <1>4, <1>5, <1>6 DEF Parts

(* A supervisor that comes back takes nothing for running; a job with one  *)
(* process left over is one it will find.                                  *)
LEMMA RebootStep == ASSUME CronTypeOK, Parts, Reboot PROVE Parts'
<1> USE DEF Delayed
<1>1. /\ first' = TRUE /\ queued' = {} /\ retrying' = {} /\ watched' = {} /\ alive' = alive
      /\ phase' = [j \in Jobs |-> "idle"] /\ running' = [j \in Jobs |-> FALSE]
      /\ finished' = [j \in Jobs |-> FALSE] /\ process' = [j \in Jobs |-> NoPid]
      /\ owner' = [p \in Pids |-> IF p \in alive THEN owner[p] ELSE NoJob]
      /\ launched' = {} /\ broken' = {j \in broken : Cardinality(Live(j)) > 1}
  BY DEF Reboot
<1>2. \A p \in alive : owner'[p] = owner[p]
  BY <1>1 DEF CronTypeOK
<1>3. OwnersInv' /\ LaunchInv'
  BY <1>1, <1>2 DEF Parts, OwnersInv, LaunchInv
<1>4. \A j \in Jobs : Live(j)' = Live(j)
  BY <1>1, <1>2 DEF Live
<1>5. ASSUME NEW j \in Delayed \ broken', NEW p \in Live(j), NEW q \in Live(j), p # q PROVE FALSE
  <2>1. CASE j \notin broken
    BY <1>5, <2>1 DEF Parts, JobInv
  <2>2. CASE j \in broken
    <3>1. IsFiniteSet(Live(j)) /\ Live(j) \subseteq Pids
      BY PidAssumption, FS_Subset DEF Live, CronTypeOK
    <3>2. {p, q} \subseteq Live(j)
      BY <1>5
    <3>3. Cardinality({p, q}) <= Cardinality(Live(j)) /\ Cardinality(Live(j)) \in Nat
      BY <3>1, <3>2, FS_Subset, FS_CardinalityType
    <3>4. Cardinality({p, q}) = 2
      <4>1. IsFiniteSet({p}) /\ Cardinality({p}) = 1
        BY FS_Singleton
      <4>2. Cardinality({p} \union {q}) = Cardinality({p}) + 1
        BY <1>5, <4>1, FS_AddElement
      <4>3. {p} \union {q} = {p, q}
        OBVIOUS
      <4> QED
        BY <4>1, <4>2, <4>3
    <3>5. Cardinality(Live(j)) > 1
      BY <3>3, <3>4
    <3> QED
      BY <1>1, <1>5, <2>2, <3>5
  <2> QED
    BY <2>1, <2>2
<1>6. ASSUME NEW j \in Delayed \ broken' PROVE JobInv(j)'
  <2>1. \A p, q \in Live(j)' : p = q
    BY <1>4, <1>5, <1>6
  <2> QED
    BY <1>1, <1>6, <2>1 DEF JobInv, Untracked
<1> QED
  BY <1>3, <1>6 DEF Parts
-----------------------------------------------------------------------------
(***************************************************************************)
(* The supervisor, step by step                                            *)
(***************************************************************************)
LEMMA CronFirst == CronInit => CronTypeOK /\ Parts
<1> SUFFICES ASSUME CronInit PROVE CronTypeOK /\ Parts
  OBVIOUS
<1>2. CronTypeOK
  BY BoundAssumption DEF CronInit, CronTypeOK
<1>3. OwnersInv /\ LaunchInv
  BY DEF CronInit, OwnersInv, LaunchInv
<1>4. \A j \in Jobs : JobInv(j)
  BY DEF CronInit, JobInv, Live
<1> QED
  BY <1>2, <1>3, <1>4 DEF Parts, Delayed

LEMMA CronStep ==
    ASSUME CronTypeOK, Parts, [CronNext]_cronVars PROVE CronTypeOK' /\ Parts'
<1>1. CronTypeOK'
  BY TypeStep DEF Parts
<1>2. CASE PollSome
  <2>1. PICK stopDue \in SUBSET Stoppers : PollAt(stopDue)
    BY <1>2 DEF PollSome
  <2>2. PICK startDue \in SUBSET Jobs, beforeStop \in SUBSET Stoppers,
             pick \in [Jobs -> Pids \union {NoPid}] :
           (\A j \in Jobs : pick[j] \in Target(j)) /\ Poll(startDue, stopDue, beforeStop, pick)
    BY <2>1 DEF PollAt
  <2> QED
    BY <1>1, <2>2, PollStep
<1>3. ASSUME NEW j \in Jobs, RestartJob(j) PROVE Parts'
  BY <1>3, RestartStep
<1>4. ASSUME NEW j \in Jobs, BeginStart(j) \/ DependsMet(j) \/ Delay(j) PROVE Parts'
  BY <1>4, StartStep
<1>5. ASSUME NEW j \in Jobs, SpawnRaises(j) PROVE Parts'
  BY <1>5, RaiseStep
<1>6. ASSUME NEW j \in Jobs, NEW p \in Pids, Spawn(j, p) PROVE Parts'
  BY <1>6, SpawnStep
<1>7. ASSUME NEW p \in Pids, Finish(p) PROVE Parts'
  BY <1>7, FinishStep
<1>8. ASSUME NEW p \in Pids, FinishGarbled(p) PROVE Parts'
  BY <1>8, GarbledStep
<1>9. ASSUME NEW p \in Pids, NEW how \in {"ok", "error"}, Exit(p, how) PROVE Parts'
  BY <1>9, ExitStep
<1>10. CASE Reboot
  BY <1>1, <1>10, RebootStep
<1>11. CASE UNCHANGED cronVars
  BY <1>1, <1>11 DEF cronVars, jobVars, osVars, Parts, OwnersInv, LaunchInv, JobInv, Live, IsRunning, Untracked, Delayed
<1> QED
  BY <1>1, <1>2, <1>3, <1>4, <1>5, <1>6, <1>7, <1>8, <1>9, <1>10, <1>11 DEF CronNext

LEMMA CronAlways == CronSpec => [](CronTypeOK /\ Parts)
<1>1. CronInit => CronTypeOK /\ Parts
  BY CronFirst
<1>2. CronTypeOK /\ Parts /\ [CronNext]_cronVars => (CronTypeOK /\ Parts)'
  BY CronStep
<1> QED
  BY <1>1, <1>2, PTL DEF CronSpec

(* A job with a delay, whatever the others are, has one process at most    *)
(* over restarts of the job and of pycron, whatever ends, raises or is     *)
(* killed in between; and once pycron has polled the job holds it.         *)
Alone(j) ==
    /\ \A p, q \in Live(j) : p = q
    /\ ~first => \A p \in Live(j) : process[j] = p /\ IsRunning(j)

THEOREM HeldAlone == CronSpec => [](\A j \in Delayed \ broken : Alone(j))
<1>1. Parts => \A j \in Delayed \ broken : Alone(j)
  BY DEF Parts, JobInv, Untracked, Alone
<1> QED
  BY <1>1, CronAlways, PTL

(* No job has two processes, where every job has a delay.                  *)
THEOREM OneProcess == ASSUME Delayed = Jobs PROVE CronSpec => []OneCopy
<1>1. CronTypeOK /\ Parts /\ (\A j \in Delayed \ broken : Alone(j)) => OneCopy
  BY Owning DEF Parts, OneCopy, Alone, Live
<1> QED
  BY <1>1, CronAlways, HeldAlone, PTL

(* Once pycron has polled, the process that runs is the one its job holds, *)
(* and the job counts as running.                                          *)
THEOREM TracksAll == ASSUME Delayed = Jobs PROVE CronSpec => []Tracked
<1>1. CronTypeOK /\ Parts /\ (\A j \in Delayed \ broken : Alone(j)) => Tracked
  <2>1. SUFFICES ASSUME CronTypeOK, Parts, \A j \in Delayed \ broken : Alone(j),
                        ~first, NEW p \in alive, owner[p] \notin broken
                 PROVE  process[owner[p]] = p /\ IsRunning(owner[p])
    BY DEF Tracked
  <2>2. PICK j \in Delayed \ broken : j = owner[p]
    BY <2>1, Owning DEF Parts
  <2> QED
    BY <2>1, <2>2 DEF Alone, Live
<1> QED
  BY <1>1, CronAlways, HeldAlone, PTL

(* A poll stops every job that is due, known to run or not.                *)
THEOREM StopsReach == ASSUME Delayed = Jobs PROVE CronSpec => StopsWhenDue
<1>1. CronTypeOK /\ Parts /\ [CronNext]_cronVars =>
        [\A stopDue \in SUBSET Stoppers :
           PollAt(stopDue) => \A p \in alive' : owner'[p] \notin stopDue \ broken]_cronVars
  <2>1. SUFFICES ASSUME CronTypeOK, Parts, NEW stopDue \in SUBSET Stoppers, PollAt(stopDue)
                 PROVE  \A p \in alive' : owner'[p] \notin stopDue \ broken
    OBVIOUS
  <2>2. PICK startDue \in SUBSET Jobs, beforeStop \in SUBSET Stoppers,
             pick \in [Jobs -> Pids \union {NoPid}] :
           (\A j \in Jobs : pick[j] \in Target(j)) /\ Poll(startDue, stopDue, beforeStop, pick)
    BY <2>1 DEF PollAt
  <2>3. stopDue \intersect Delayed = stopDue
    BY DEF Stoppers
  <2> QED
    BY <2>1, <2>2, <2>3, PollStep
<1> QED
  BY <1>1, CronAlways, PTL DEF CronSpec, StopsWhenDue

(* Every variable keeps its type.                                          *)
THEOREM CronTypes == CronSpec => []CronTypeOK
BY CronAlways, PTL

(* The jobs a job depends on ran before it has a process of its own, over  *)
(* restarts of the job and of pycron, for any configuration.               *)
THEOREM InOrder == CronSpec => []DependencyOrder
<1>1. CronInit => DependencyOrder
  BY DEF CronInit, DependencyOrder
<1>2. CronTypeOK /\ Parts /\ DependencyOrder /\ [CronNext]_cronVars => DependencyOrder'
  <2> SUFFICES ASSUME CronTypeOK, Parts, DependencyOrder, [CronNext]_cronVars PROVE DependencyOrder'
    OBVIOUS
  <2>1. ASSUME launched \subseteq launched', watched' \intersect alive' \subseteq watched \intersect alive,
               \A p \in watched' \intersect alive' : owner'[p] = owner[p]
        PROVE  DependencyOrder'
    BY <2>1 DEF DependencyOrder
  <2>2. CASE PollSome
    <3>1. PICK stopDue \in SUBSET Stoppers : PollAt(stopDue)
      BY <2>2 DEF PollSome
    <3>2. PICK startDue \in SUBSET Jobs, beforeStop \in SUBSET Stoppers,
               pick \in [Jobs -> Pids \union {NoPid}] :
             Poll(startDue, stopDue, beforeStop, pick)
      BY <3>1 DEF PollAt
    <3>3. launched \subseteq launched' /\ \E victims : Kill(victims)
      BY <3>2 DEF Poll
    <3> QED
      BY <2>1, <3>3, KillOwners DEF Parts
  <2>3. ASSUME NEW j \in Jobs, RestartJob(j) PROVE DependencyOrder'
    <3>1. launched' = launched /\ \E victims : Kill(victims)
      BY <2>3 DEF RestartJob
    <3> QED
      BY <2>1, <3>1, KillOwners DEF Parts
  <2>4. ASSUME NEW j \in Jobs, BeginStart(j) \/ DependsMet(j) \/ Delay(j) \/ SpawnRaises(j)
        PROVE  DependencyOrder'
    BY <2>1, <2>4 DEF BeginStart, DependsMet, Delay, SpawnRaises, osVars
  <2>5. ASSUME NEW j \in Jobs, NEW p \in Pids, Spawn(j, p) PROVE DependencyOrder'
    <3>1. /\ Conf[j].depends \subseteq launched /\ launched \subseteq launched'
          /\ alive' = alive \union {p} /\ watched' = watched \union {p}
          /\ owner' = [owner EXCEPT ![p] = j]
      BY <2>5 DEF Spawn, Parts, LaunchInv
    <3>2. owner'[p] = j /\ \A q \in alive \union watched : q # p => owner'[q] = owner[q]
      BY <3>1 DEF CronTypeOK
    <3>3. p \notin alive \union watched
      BY <2>5 DEF Spawn, Parts, OwnersInv
    <3> QED
      BY <3>1, <3>2, <3>3 DEF DependencyOrder
  <2>6. ASSUME NEW p \in Pids, NEW how, Finish(p) \/ FinishGarbled(p) \/ Exit(p, how)
        PROVE  DependencyOrder'
    <3>1. launched' = launched /\ watched' \subseteq watched /\ alive' \subseteq alive
      BY <2>6 DEF Finish, FinishGarbled, Exit
    <3>2. \A q \in watched' \intersect alive' : owner'[q] = owner[q]
      BY <2>6 DEF Finish, FinishGarbled, Exit, CronTypeOK
    <3> QED
      BY <2>1, <3>1, <3>2
  <2>7. CASE Reboot
    BY <2>7 DEF Reboot, DependencyOrder
  <2>8. CASE UNCHANGED cronVars
    BY <2>1, <2>8 DEF cronVars, osVars
  <2> QED
    BY <2>2, <2>3, <2>4, <2>5, <2>6, <2>7, <2>8 DEF CronNext
<1> QED
  BY <1>1, <1>2, CronAlways, PTL DEF CronSpec
=============================================================================
