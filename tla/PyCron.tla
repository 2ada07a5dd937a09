--------------------------------- MODULE PyCron ---------------------------------
(***************************************************************************)
(* The process supervisor, pycron.py: a polling loop decides once a minute *)
(* which jobs to start and stop, a coroutine per start waits for the jobs  *)
(* it depends on, for the job's delay, for the spawn and then for the end  *)
(* of the process, and the web page can restart a job at any time.  A Job  *)
(* is written by all three.  Everything runs on one event loop; a step     *)
(* runs to the next await.  Processes outlive pycron itself.               *)
(***************************************************************************)
EXTENDS Naturals, FiniteSets

CONSTANTS Jobs,      (* the jobs of this instance                          *)
          Conf,      (* their configuration                                *)
          Pids,      (* processes that can exist at one time               *)
          NoPid,     (* no process                                         *)
          Faults,    (* what may happen: see FaultKinds                    *)
          MaxMishaps,(* bound: how often, all together                     *)
          MaxCount   (* bound: start_count and the polls since a start     *)

FaultKinds == {"exit", "restart", "reboot", "spawn", "garbled"}

(* depends_on, a delay above 0, the four flags, a crontab_stop, and        *)
(* whether crontab_start is "* * * * *", which is due in every poll.       *)
JobConf == [depends : SUBSET Jobs, delayed : BOOLEAN, onStart : BOOLEAN,
            ifFound : BOOLEAN, ifFinished : BOOLEAN, stops : BOOLEAN, always : BOOLEAN]

ASSUME ConfAssumption  == Conf \in [Jobs -> JobConf]
ASSUME PidAssumption   == NoPid \notin Pids /\ IsFiniteSet(Pids)
ASSUME FaultAssumption == Faults \subseteq FaultKinds
ASSUME BoundAssumption == MaxMishaps \in Nat /\ MaxCount \in Nat \ {0}

VARIABLES
    first,     (* first_start                                              *)
    queued,    (* jobs with a start_job task that has not begun            *)
    retrying,  (* jobs whose start_job the backoff decorator calls again   *)
    phase,     (* start_job before the process exists; trying_to_start     *)
    running, finished, process,   (* Job.running, finished, process        *)
    failed,    (* return_code > 0                                          *)
    count,     (* start_count                                              *)
    age,       (* polling periods since last_started                       *)
    alive,     (* processes that run                                       *)
    owner,     (* the job whose command line a process has                 *)
    watched,   (* processes a coroutine waits for in communicate()         *)
    code,      (* how a process ended: ok, error or killed                 *)
    mishaps,
    launched,  (* history: jobs that ran under this pycron                 *)
    broken     (* history: jobs a start_job of which raised, under this    *)
               (* pycron or with two processes left over from the last     *)

jobVars == <<running, finished, process, failed, count, age>>
osVars  == <<alive, owner, watched, code>>
cronVars == <<first, queued, retrying, phase, jobVars, osVars, mishaps, launched, broken>>

Mishap(kind) == kind \in Faults /\ mishaps < MaxMishaps /\ mishaps' = mishaps + 1

NoJob == "nobody"
ASSUME JobAssumption == NoJob \notin Jobs

Live(j) == {p \in alive : owner[p] = j}

(* is_running(); eval_running is not configured.                           *)
IsRunning(j) == running[j] /\ ~finished[j]

(* communicate() has returned for every process that ended.                *)
Reaped == watched \subseteq alive

Stoppers == {j \in Jobs : Conf[j].stops}

(* Mutant: start_count counts down.                                        *)
Down(n) == IF n < MaxCount THEN n - 2 ELSE MaxCount

(* start_count and the minutes since last_started, up to the bound.        *)
Capped(n) == IF n < MaxCount THEN n ELSE MaxCount

CronInit ==
    /\ first = TRUE
    /\ queued = {} /\ retrying = {}
    /\ phase = [j \in Jobs |-> "idle"]
    /\ running = [j \in Jobs |-> FALSE]
    /\ finished = [j \in Jobs |-> FALSE]
    /\ process = [j \in Jobs |-> NoPid]
    /\ failed = [j \in Jobs |-> FALSE]
    /\ count = [j \in Jobs |-> 0]
    /\ age = [j \in Jobs |-> 0]
    /\ alive = {} /\ watched = {}
    /\ owner = [p \in Pids |-> NoJob]
    /\ code = [p \in Pids |-> "ok"]
    /\ mishaps = 0
    /\ launched = {} /\ broken = {}
-----------------------------------------------------------------------------
(* Decisions of the polling loop about one job                             *)

(* What stop_job would kill: the process of the job, or else the first one *)
(* that has its command line.                                              *)
Target(j) ==
    IF process[j] \in alive THEN {process[j]}
    ELSE IF Live(j) = {} THEN {NoPid} ELSE Live(j)

(* Mutant: an existing process is not looked for.                          *)
NoHook(j) == FALSE

(* The first poll hooks up what runs already, or kills it.                 *)
Hooks(j) == first /\ ~running[j] /\ process[j] = NoPid /\ Live(j) # {}

(* recently_started_with_error                                             *)
RecentError(j) == failed[j] /\ age[j] < count[j] + 1

(* The branches of the loop that start the job, which is not running.      *)
StartsNow(j, done, startDue, beforeStop) ==
    \/ first /\ Conf[j].onStart
    \/ /\ Conf[j].ifFinished /\ done /\ ~RecentError(j)
       /\ Conf[j].stops => j \in beforeStop
    \/ j \in startDue

(* Mutant: what is killed is forgotten, not killed.                        *)
Forget(victims) == UNCHANGED osVars

(* SIGKILL to a process and its children.  What nobody waits for is gone.  *)
Kill(victims) ==
    /\ alive' = alive \ victims
    /\ code' = [p \in Pids |-> IF p \in victims \intersect watched THEN "killed" ELSE code[p]]
    /\ owner' = [p \in Pids |-> IF p \in victims \ watched THEN NoJob ELSE owner[p]]
    /\ UNCHANGED watched

(* stop_job for one job, outside the loop: fields change only when some    *)
(* process was killed.                                                     *)
StopFields(stopped) ==
    /\ running' = [j \in Jobs |-> running[j] /\ j \notin stopped]
    /\ finished' = [j \in Jobs |-> finished[j] \/ j \in stopped]
    /\ process' = [j \in Jobs |-> IF j \in stopped THEN NoPid ELSE process[j]]

(* Polls are a minute apart: what takes moments, the start of a task, the  *)
(* retry of the decorator, a spawn and a reap, is over by the next one.    *)
Settled == queued = {} /\ retrying = {} /\ Reaped /\ \A j \in Jobs : phase[j] # "spawn"

(* One run of polling_loop.  pick names the process a job hooks up or      *)
(* stops.                                                                  *)
Poll(startDue, stopDue, beforeStop, pick) ==
    LET hooked  == {j \in Jobs : Hooks(j)}
        purged  == {j \in hooked : Conf[j].ifFound}
        adopted == hooked \ purged
        on      == {j \in Jobs : IsRunning(j)} \union {j \in adopted : ~finished[j]}
        stopped == {j \in on \intersect stopDue : pick[j] # NoPid}
        gone    == stopped \union purged
    IN  /\ Settled
        /\ first' = FALSE
        /\ queued' = {j \in Jobs \ on :
                        StartsNow(j, finished[j] \/ j \in purged, startDue, beforeStop)}
        /\ running' = [j \in Jobs |-> (running[j] \/ j \in adopted) /\ j \notin gone]
        /\ finished' = [j \in Jobs |-> finished[j] \/ j \in gone]
        /\ process' = [j \in Jobs |-> IF j \in gone THEN NoPid
                                      ELSE IF j \in adopted THEN pick[j] ELSE process[j]]
        /\ Kill({pick[j] : j \in stopped} \union UNION {Live(j) : j \in purged})
        /\ age' = [j \in Jobs |-> Capped(age[j] + 1)]
        /\ launched' = launched \union adopted
        /\ UNCHANGED <<retrying, phase, failed, count, mishaps, broken>>

(* Which cron expressions are due is up to the clock, except for a job     *)
(* that is due every minute.                                               *)
PollAt(stopDue) ==
    \E startDue \in {d \in SUBSET Jobs : \A j \in Jobs : Conf[j].always => j \in d} :
    \E beforeStop \in SUBSET Stoppers :
    \E pick \in {f \in [Jobs -> Pids \union {NoPid}] : \A j \in Jobs : f[j] \in Target(j)} :
        Poll(startDue, stopDue, beforeStop, pick)

PollSome == \E stopDue \in SUBSET Stoppers : PollAt(stopDue)

(* restart_job, from the web page.                                         *)
RestartJob(j) ==
    /\ Mishap("restart")
    /\ \E p \in Target(j) :
        LET stopped == {j} \ IF p = NoPid THEN {j} ELSE {}
        IN  StopFields(stopped) /\ Kill({p} \intersect alive)
    /\ queued' = queued \union {j}
    /\ UNCHANGED <<first, retrying, phase, failed, count, age, launched, broken>>
-----------------------------------------------------------------------------
(* start_job                                                               *)

(* Its first step: at once out again when the job is being started, and    *)
(* when pycron was told to leave out a job it depends on.                  *)
BeginStart(j) ==
    /\ \/ j \in queued /\ queued' = queued \ {j} /\ UNCHANGED retrying
       \/ j \in retrying /\ retrying' = retrying \ {j} /\ UNCHANGED queued
    /\ phase' = IF phase[j] = "idle" /\ Conf[j].depends \subseteq Jobs
                THEN [phase EXCEPT ![j] = "depends"] ELSE phase
    /\ UNCHANGED <<first, jobVars, osVars, mishaps, launched, broken>>

(* Mutant: a job does not wait for those it depends on.                    *)
DependsIgnored(j) ==
    /\ phase[j] = "depends"
    /\ phase' = [phase EXCEPT ![j] = "delay"]
    /\ UNCHANGED <<first, queued, retrying, jobVars, osVars, mishaps, launched, broken>>

(* It looks every five seconds whether the jobs it depends on run.         *)
DependsMet(j) ==
    /\ phase[j] = "depends"
    /\ \A d \in Conf[j].depends : IsRunning(d)
    /\ phase' = [phase EXCEPT ![j] = "delay"]
    /\ UNCHANGED <<first, queued, retrying, jobVars, osVars, mishaps, launched, broken>>

(* Mutant: the delay is not waited for.                                    *)
NoDelay(j) ==
    /\ phase[j] = "delay"
    /\ phase' = [phase EXCEPT ![j] = "spawn"]
    /\ UNCHANGED <<first, queued, retrying, jobVars, osVars, mishaps, launched, broken>>

(* The delay is over; a second is enough to reap what was killed before.   *)
Delay(j) ==
    /\ phase[j] = "delay"
    /\ Conf[j].delayed => Reaped
    /\ phase' = [phase EXCEPT ![j] = "spawn"]
    /\ UNCHANGED <<first, queued, retrying, jobVars, osVars, mishaps, launched, broken>>

(* Mutant: trying_to_start is not reset once the process exists.           *)
SpawnStuck(j, p) ==
    /\ phase[j] = "spawn" /\ queued = {}
    /\ owner[p] = NoJob /\ \A k \in Jobs : process[k] # p
    /\ phase' = [phase EXCEPT ![j] = "stuck"]
    /\ running' = [running EXCEPT ![j] = TRUE]
    /\ finished' = [finished EXCEPT ![j] = FALSE]
    /\ process' = [process EXCEPT ![j] = p]
    /\ age' = [age EXCEPT ![j] = 0]
    /\ alive' = alive \union {p}
    /\ owner' = [owner EXCEPT ![p] = j]
    /\ watched' = watched \union {p}
    /\ code' = [code EXCEPT ![p] = "ok"]
    /\ launched' = launched \union {j}
    /\ UNCHANGED <<first, queued, retrying, failed, count, mishaps, broken>>

(* The process exists and is written into the job, whatever it held.       *)
(* Tasks created before this step begin first.                             *)
Spawn(j, p) ==
    /\ phase[j] = "spawn" /\ queued = {}
    /\ owner[p] = NoJob /\ \A k \in Jobs : process[k] # p
    /\ phase' = [phase EXCEPT ![j] = "idle"]
    /\ running' = [running EXCEPT ![j] = TRUE]
    /\ finished' = [finished EXCEPT ![j] = FALSE]
    /\ process' = [process EXCEPT ![j] = p]
    /\ age' = [age EXCEPT ![j] = 0]
    /\ alive' = alive \union {p}
    /\ owner' = [owner EXCEPT ![p] = j]
    /\ watched' = watched \union {p}
    /\ code' = [code EXCEPT ![p] = "ok"]
    /\ launched' = launched \union {j}
    /\ UNCHANGED <<first, queued, retrying, failed, count, mishaps, broken>>

(* The spawn raises: trying_to_start stays, and the call the decorator     *)
(* makes next returns because of it.                                       *)
SpawnRaises(j) ==
    /\ phase[j] = "spawn" /\ Mishap("spawn")
    /\ phase' = [phase EXCEPT ![j] = "stuck"]
    /\ retrying' = retrying \union {j}
    /\ broken' = broken \union {j}
    /\ UNCHANGED <<first, queued, jobVars, osVars, launched>>

(* A process ends by itself.                                               *)
Exit(p, how) ==
    /\ p \in alive /\ Mishap("exit")
    /\ alive' = alive \ {p}
    /\ code' = IF p \in watched THEN [code EXCEPT ![p] = how] ELSE code
    /\ owner' = IF p \in watched THEN owner ELSE [owner EXCEPT ![p] = NoJob]
    /\ UNCHANGED <<first, queued, retrying, phase, jobVars, watched, launched, broken>>

(* communicate() returns: the job is cleared, whichever process it has by  *)
(* now.  A kill gives a negative return code, which is no error.           *)
Finish(p) ==
    LET j == owner[p]
    IN  /\ p \in watched \ alive
        /\ running' = [running EXCEPT ![j] = FALSE]
        /\ finished' = [finished EXCEPT ![j] = TRUE]
        /\ process' = [process EXCEPT ![j] = NoPid]
        /\ failed' = [failed EXCEPT ![j] = code[p] = "error"]
        /\ count' = [count EXCEPT ![j] = Capped(count[j] + 1)]
        /\ watched' = watched \ {p}
        /\ owner' = [owner EXCEPT ![p] = NoJob]
        /\ UNCHANGED <<first, queued, retrying, phase, age, alive, code, mishaps, launched, broken>>

(* The output cannot be decoded: start_job raises before it clears the job,*)
(* and is called again up to its third try.                                *)
FinishGarbled(p) ==
    /\ p \in watched \ alive /\ Mishap("garbled")
    /\ watched' = watched \ {p}
    /\ broken' = broken \union {owner[p]}
    /\ owner' = [owner EXCEPT ![p] = NoJob]
    /\ retrying' \in {retrying, retrying \union {owner[p]}}
    /\ UNCHANGED <<first, queued, phase, jobVars, alive, code, launched>>

(* pycron dies and is started again; the processes go on without it.       *)
Reboot ==
    /\ Mishap("reboot")
    /\ first' = TRUE
    /\ queued' = {} /\ retrying' = {}
    /\ phase' = [j \in Jobs |-> "idle"]
    /\ running' = [j \in Jobs |-> FALSE]
    /\ finished' = [j \in Jobs |-> FALSE]
    /\ process' = [j \in Jobs |-> NoPid]
    /\ failed' = [j \in Jobs |-> FALSE]
    /\ count' = [j \in Jobs |-> 0]
    /\ age' = [j \in Jobs |-> 0]
    /\ watched' = {}
    /\ owner' = [p \in Pids |-> IF p \in alive THEN owner[p] ELSE NoJob]
    /\ launched' = {} /\ broken' = {j \in broken : Cardinality(Live(j)) > 1}
    /\ UNCHANGED <<alive, code>>

CronNext ==
    \/ PollSome
    \/ \E j \in Jobs : RestartJob(j) \/ BeginStart(j) \/ DependsMet(j) \/ Delay(j) \/ SpawnRaises(j)
    \/ \E j \in Jobs, p \in Pids : Spawn(j, p)
    \/ \E p \in Pids : Finish(p) \/ FinishGarbled(p) \/ \E how \in {"ok", "error"} : Exit(p, how)
    \/ Reboot

CronSpec == CronInit /\ [][CronNext]_cronVars

(* The loop polls, its tasks run, and an ended process is reaped.          *)
CronFairSpec ==
    /\ CronSpec
    /\ WF_cronVars(PollSome)
    /\ \A j \in Jobs : /\ WF_cronVars(BeginStart(j)) /\ WF_cronVars(DependsMet(j))
                      /\ WF_cronVars(Delay(j)) /\ WF_cronVars(\E p \in Pids : Spawn(j, p))
    /\ \A p \in Pids : WF_cronVars(Finish(p))
-----------------------------------------------------------------------------
(* Every variable keeps its type.                                          *)
CronTypeOK ==
    /\ first \in BOOLEAN
    /\ queued \subseteq Jobs /\ retrying \subseteq Jobs
    /\ launched \subseteq Jobs /\ broken \subseteq Jobs
    /\ phase \in [Jobs -> {"idle", "depends", "delay", "spawn", "stuck"}]
    /\ running \in [Jobs -> BOOLEAN] /\ finished \in [Jobs -> BOOLEAN]
    /\ process \in [Jobs -> Pids \union {NoPid}]
    /\ failed \in [Jobs -> BOOLEAN]
    /\ count \in [Jobs -> 0..MaxCount] /\ age \in [Jobs -> 0..MaxCount]
    /\ alive \subseteq Pids /\ watched \subseteq Pids
    /\ owner \in [Pids -> Jobs \union {NoJob}]
    /\ code \in [Pids -> {"ok", "error", "killed"}]
    /\ mishaps \in 0..MaxMishaps

(* A job never has two processes, over restarts of the job, of pycron and  *)
(* of both: what a killed or an earlier supervisor left is found or gone.  *)
(* The retry of a start_job that raised is not held to it.                 *)
OneCopy == \A p, q \in alive : owner[p] = owner[q] /\ owner[p] \notin broken => p = q

(* The same whatever failed.                                               *)
OneCopyAlways == \A p, q \in alive : owner[p] = owner[q] => p = q

(* Every start_job of the job and of those it depends on came to its end.  *)
Sound(j) == ({j} \union Conf[j].depends) \intersect broken = {}

(* Once pycron has polled, a process that runs is the process of its job,  *)
(* which counts as running: the next stop reaches it, and no branch starts *)
(* a second one. A start_job that raised left its job in disorder.         *)
Tracked ==
    ~first => \A p \in alive :
        owner[p] \notin broken => process[owner[p]] = p /\ IsRunning(owner[p])

(* A job has a process of its own only after every job it depends on ran   *)
(* under this pycron.                                                      *)
DependencyOrder ==
    \A p \in watched \intersect alive : Conf[owner[p]].depends \subseteq launched

(* No process of a job that is due to stop outlives the poll, whether or   *)
(* not pycron knew that it was started (the comment on the stop branch).   *)
StopsWhenDue ==
    [][\A stopDue \in SUBSET Stoppers :
        PollAt(stopDue) => \A p \in alive' : owner'[p] \notin stopDue \ broken]_cronVars

(* After an error a job is left alone for a window that grows with its     *)
(* start_count: the audit says pycron "refuses to restart it" meanwhile.   *)
LeftAlone == [][\A j \in Jobs : RecentError(j) /\ j \notin queued => j \notin queued']_cronVars

(* A process that was found and hooked up: nobody waits for its end.       *)
Adopted(j) == process[j] # NoPid /\ process[j] \notin watched

(* A job due every minute that has no process gets one again, as long as   *)
(* no spawn or reap of it or of a job it depends on has failed, and unless *)
(* the process that ended was one that pycron had hooked up.               *)
KeptRunning ==
    \A j \in Jobs : Conf[j].always /\ Live(j) = {} ~> Live(j) # {} \/ ~Sound(j) \/ Adopted(j)

(* The same whatever failed, as "auto-restart" promises.                   *)
RestartsAnyway == \A j \in Jobs : Conf[j].always /\ Live(j) = {} ~> Live(j) # {}
=============================================================================
