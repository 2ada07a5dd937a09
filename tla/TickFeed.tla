-------------------------------- MODULE TickFeed --------------------------------
(***************************************************************************)
(* How a tick stream stays alive: trader_service subscribes instruments at *)
(* Interactive Brokers and publishes their ticks (publish_contract,        *)
(* connected_event, disconnected_event of trading_runtime.py; the recovery *)
(* from a competing session of ibreactive.py), and the reconcile loop of   *)
(* strategy_runtime.py asks it to.  What each side believes lives in its   *)
(* own memory and dies with its own process.  Trader code runs on one      *)
(* event loop, the reconcile loop is one thread; a step runs to the next   *)
(* await or remote call.                                                   *)
(***************************************************************************)
EXTENDS Naturals, FiniteSets

CONSTANTS Conids,     (* instruments                                       *)
          First,      (* those of the configuration before it is edited    *)
          MaxBoot,    (* bound: incarnations of trader_service              *)
          MaxFaults,  (* bound: crashes, lost connections, lost calls       *)
          EarlyTicks  (* a request may come between release and retry       *)

ASSUME FirstAssumption == First \subseteq Conids
ASSUME BoundsAssumption == MaxBoot \in Nat \ {0} /\ MaxFaults \in Nat /\ EarlyTicks \in BOOLEAN

VARIABLES
    link,       (* trader_service has a session with the gateway            *)
    lines,      (* instruments whose ticks flow in this session             *)
    tickers,    (* instruments requested in this session: ib.tickers()      *)
    rival,      (* another session of this login holds the entitlement      *)
    loss,       (* _md_lost_at: none, lost, or ticked since                 *)
    up, boot,   (* trader_service runs, and its boot_id                     *)
    filters,    (* zmq_pubsub_contract_filters                              *)
    remembered, (* zmq_pubsub_published_contracts                           *)
    observers,  (* observers on the shared ticker subject; 2 is "several"   *)
    loop,       (* disconnected_event: none, retry, or in connected_event   *)
    event,      (* the connected_event of connectedEvent                    *)
    pc, todo,   (* where the strategy runtime is, conids it has left        *)
    published,  (* _published_conids                                        *)
    knownBoot,  (* _trader_boot_id, 0 for None                              *)
    wanted,     (* conids of the strategies it loaded                       *)
    file,       (* the configuration file: old, bad or new                  *)
    recorded,   (* the version whose mtime is in _config_mtime              *)
    faults

ibVars      == <<link, lines, tickers, rival, loss>>
traderVars  == <<up, boot, filters, remembered, observers, loop, event>>
runtimeVars == <<pc, todo, published, knownBoot, wanted, recorded>>
vars        == <<ibVars, traderVars, runtimeVars, file, faults>>

Fault == faults < MaxFaults /\ faults' = faults + 1

Init ==
    /\ link = TRUE
    /\ lines = {} /\ tickers = {} /\ filters = {} /\ remembered = {}
    /\ rival = FALSE
    /\ loss = "none"
    /\ up = TRUE /\ boot = 1
    /\ observers = 0
    /\ loop = "none" /\ event = "queued"
    /\ pc = "off" /\ todo = {}
    /\ published = {} /\ knownBoot = 0
    /\ wanted = {}
    /\ file = "old" /\ recorded = "none"
    /\ faults = 0
-----------------------------------------------------------------------------
(* trader_service: the session                                             *)

(* The session ends.  disconnected_event starts its retry loop unless it   *)
(* is running.                                                             *)
Drop ==
    /\ link /\ Fault
    /\ link' = FALSE
    /\ lines' = {}
    /\ loop' = IF loop = "none" THEN "retry" ELSE loop
    /\ UNCHANGED <<tickers, rival, loss, up, boot, filters, remembered, observers, event,
                   runtimeVars, file>>

(* An attempt of the retry loop succeeds: unless the old session is still  *)
(* there a new one starts without any lines and fires connectedEvent; then *)
(* the loop itself runs connected_event, up to its first await.  A request *)
(* of the old session has failed long before the backoff is over.          *)
Connect ==
    /\ up /\ loop = "retry" /\ event = "none"
    /\ IF link
       THEN UNCHANGED <<link, tickers, event>>
       ELSE link' = TRUE /\ tickers' = {} /\ event' = "queued"
    /\ loop' = "setup"
    /\ UNCHANGED <<lines, rival, loss, up, boot, filters, remembered, observers,
                   runtimeVars, file, faults>>

(* connected_event as the handler of connectedEvent: skipped while the     *)
(* loop's own is running.                                                  *)
HandleConnected ==
    /\ event = "queued"
    /\ event' = IF loop = "setup" THEN "none" ELSE "setup"
    /\ UNCHANGED <<ibVars, up, boot, filters, remembered, observers, loop,
                   runtimeVars, file, faults>>

(* Mutant: a request the recovery cannot see, made by another wrapper.     *)
RequestUnseen(conids) ==
    /\ UNCHANGED tickers
    /\ lines' = IF rival THEN lines ELSE lines \union conids
    /\ loss' = IF rival /\ conids # {} THEN "lost" ELSE loss

(* Requested lines flow unless the entitlement is elsewhere, in which case *)
(* the request is answered by error 10197.                                 *)
Request(conids) ==
    /\ tickers' = tickers \union conids
    /\ lines' = IF rival THEN lines ELSE lines \union conids
    /\ loss' = IF rival /\ conids # {} THEN "lost" ELSE loss

(* Mutant: a reconnect rebuilds everything but the ticker subscriptions.   *)
RepublishNothing == UNCHANGED <<lines, tickers, loss, filters, observers>>

(* _republish_ticker_subscriptions(): the last shared observer is disposed *)
(* and replaced, every remembered contract is requested again.             *)
Republish ==
    IF remembered = {}
    THEN UNCHANGED <<lines, tickers, loss, filters, observers>>
    ELSE /\ filters' = remembered
         /\ observers' = IF observers = 0 THEN 1 ELSE observers
         /\ Request(remembered)

(* The setup of a connected_event is over: the feed is republished.        *)
FinishSetup(who) ==
    /\ link
    /\ \/ who = "loop" /\ loop = "setup" /\ loop' = "none" /\ UNCHANGED event
       \/ who = "event" /\ event = "setup" /\ event' = "none" /\ UNCHANGED loop
    /\ Republish
    /\ UNCHANGED <<link, rival, up, boot, remembered, runtimeVars, file, faults>>

(* setup_subscriptions() raises, as it does when the session is gone.  The *)
(* loop tries again, the handler gives up.                                 *)
FailSetup(who) ==
    /\ IF link THEN Fault ELSE UNCHANGED faults
    /\ \/ who = "loop" /\ loop = "setup" /\ loop' = "retry" /\ UNCHANGED event
       \/ who = "event" /\ event = "setup" /\ event' = "none" /\ UNCHANGED loop
    /\ UNCHANGED <<ibVars, up, boot, filters, remembered, observers, runtimeVars, file>>

Die ==
    /\ up /\ Fault
    /\ up' = FALSE
    /\ link' = FALSE
    /\ lines' = {} /\ tickers' = {} /\ filters' = {} /\ remembered' = {}
    /\ observers' = 0
    /\ loss' = "none"
    /\ loop' = "none" /\ event' = "none"
    /\ UNCHANGED <<rival, boot, runtimeVars, file>>

(* A new process connects before it serves.                                *)
Boot ==
    /\ ~up /\ boot < MaxBoot
    /\ up' = TRUE /\ boot' = boot + 1
    /\ link' = TRUE
    /\ event' = "queued"
    /\ UNCHANGED <<lines, tickers, rival, loss, filters, remembered, observers, loop,
                   runtimeVars, file, faults>>
-----------------------------------------------------------------------------
(* ibreactive: a competing session (error 10197)                           *)

(* The lines go silent; every one of them reports the error.               *)
Revoke ==
    /\ ~rival /\ Fault
    /\ rival' = TRUE
    /\ lines' = {}
    /\ loss' = IF lines = {} THEN loss ELSE "lost"
    /\ UNCHANGED <<link, tickers, traderVars, runtimeVars, file>>

Release ==
    /\ rival
    /\ rival' = FALSE
    /\ UNCHANGED <<link, lines, tickers, loss, traderVars, runtimeVars, file, faults>>

(* _note_market_data(): a tick of any line counts.  A request made after   *)
(* the release and before the retry ticks while the old lines are silent.  *)
Tick ==
    /\ lines # {}
    /\ ~EarlyTicks => lines = tickers
    /\ loss = "lost"
    /\ loss' = "ticked"
    /\ UNCHANGED <<link, lines, tickers, rival, traderVars, runtimeVars, file, faults>>

(* _market_data_retry_loop(): with ticks since the loss it is over, else   *)
(* everything requested in this session is requested again.                *)
RetryMarketData ==
    /\ loss # "none" /\ link
    /\ IF loss = "ticked"
       THEN loss' = "none" /\ UNCHANGED <<lines, tickers>>
       ELSE Request(tickers)
    /\ UNCHANGED <<link, rival, traderVars, runtimeVars, file, faults>>
-----------------------------------------------------------------------------
(* publish_contract(), as the remote call that runs it                     *)

(* Remembered first; without a filter yet the shared observer is           *)
(* subscribed; without a session the request raises, after that.           *)
PublishContract(c) ==
    /\ remembered' = remembered \union {c}
    /\ IF c \in filters
       THEN UNCHANGED <<filters, observers, tickers, lines, loss>>
       ELSE /\ observers' = IF filters = {} /\ observers < 2 THEN observers + 1 ELSE observers
            /\ IF link
               THEN filters' = filters \union {c} /\ Request({c})
               ELSE UNCHANGED <<filters, tickers, lines, loss>>

Raises(c) == c \notin filters /\ ~link
-----------------------------------------------------------------------------
(* The strategy runtime                                                    *)

Contents(version) == IF version = "new" THEN Conids ELSE First

Goto(label) == pc' = label

(* run(): the configuration is loaded, then everything is subscribed.  A   *)
(* configuration that does not parse ends the process, to be started again.*)
StartRuntime ==
    /\ pc = "off" /\ file # "bad"
    /\ wanted' = Contents(file)
    /\ todo' = Contents(file)
    /\ Goto("startup")
    /\ UNCHANGED <<published, knownBoot, recorded, ibVars, traderVars, file, faults>>

(* The memory of the process is gone.                                      *)
ForgetRuntime ==
    /\ Goto("off")
    /\ published' = {} /\ knownBoot' = 0 /\ wanted' = {} /\ todo' = {}
    /\ recorded' = "none"

CrashRuntime ==
    /\ pc # "off" /\ Fault
    /\ ForgetRuntime
    /\ UNCHANGED <<ibVars, traderVars, file>>

(* A remote call failed.  In the reconcile loop that ends the cycle; at    *)
(* startup it ends run().                                                  *)
Abandon ==
    /\ Goto(IF pc = "startup" THEN "failed" ELSE "sleep")
    /\ todo' = {}
    /\ UNCHANGED <<published, knownBoot, wanted, recorded>>

(* The service runs run() again in the same process, which cannot bind the *)
(* port of its remote calls: the first run still holds it.  After the last *)
(* such restart the process ends.                                          *)
GiveUp ==
    /\ pc = "failed"
    /\ ForgetRuntime
    /\ UNCHANGED <<ibVars, traderVars, file, faults>>

(* subscribe(): a conid believed to be published is left alone.            *)
Subscribe(c) ==
    /\ pc \in {"startup", "feed"} /\ c \in todo
    /\ up
    /\ IF c \in published
       THEN /\ todo' = todo \ {c}
            /\ UNCHANGED <<pc, published, knownBoot, wanted, recorded, ibVars, traderVars>>
       ELSE /\ PublishContract(c)
            /\ IF Raises(c)
               THEN Abandon
               ELSE /\ published' = published \union {c}
                    /\ todo' = todo \ {c}
                    /\ UNCHANGED <<pc, knownBoot, wanted, recorded>>
            /\ UNCHANGED <<link, rival, up, boot, loop, event>>
    /\ UNCHANGED <<file, faults>>

(* trader_service is down, or the call timed out on this side only.        *)
SubscribeFails(c) ==
    /\ pc \in {"startup", "feed"} /\ c \in todo
    /\ Abandon
    /\ \/ ~up /\ UNCHANGED <<faults, ibVars, traderVars>>
       \/ up /\ Fault /\ UNCHANGED <<ibVars, traderVars>>
       \/ /\ up /\ Fault
          /\ c \notin published
          /\ PublishContract(c)
          /\ UNCHANGED <<link, rival, up, boot, loop, event>>
    /\ UNCHANGED file

(* The history is fetched, minutes perhaps; then the file's mtime is taken.*)
EnterLoop ==
    /\ pc = "startup" /\ todo = {}
    /\ recorded' = file
    /\ Goto("sleep")
    /\ UNCHANGED <<todo, published, knownBoot, wanted, ibVars, traderVars, file, faults>>

(* _reconcile_sync(), up to its first remote call.  A file that does not   *)
(* parse ends the cycle.                                                   *)
Reconcile ==
    /\ pc = "sleep"
    /\ file # recorded => file # "bad"
    /\ wanted' = IF file = recorded THEN wanted ELSE wanted \union Contents(file)
    /\ recorded' = file
    /\ Goto("boot check")
    /\ UNCHANGED <<todo, published, knownBoot, ibVars, traderVars, file, faults>>

(* Mutant: the first boot id ever read is nothing to compare against.      *)
StaleUnlessFirst == knownBoot # 0 /\ knownBoot # boot

(* A boot id other than the one known, or the first one, discards what was *)
(* published: it may have been published to another process.               *)
Stale == knownBoot # boot

(* _note_trader_boot(); a status that cannot be read changes nothing.      *)
NoteTraderBoot ==
    /\ pc = "boot check"
    /\ todo' = wanted
    /\ Goto("feed")
    /\ \/ /\ up
          /\ knownBoot' = boot
          /\ published' = IF Stale THEN {} ELSE published
          /\ UNCHANGED faults
       \/ /\ IF up THEN Fault ELSE UNCHANGED faults
          /\ UNCHANGED <<knownBoot, published>>
    /\ UNCHANGED <<wanted, recorded, ibVars, traderVars, file>>

Sleep ==
    /\ pc = "feed" /\ todo = {}
    /\ Goto("sleep")
    /\ UNCHANGED <<todo, published, knownBoot, wanted, recorded, ibVars, traderVars, file, faults>>

(* The operator edits the configuration, perhaps through a version that    *)
(* does not parse.                                                         *)
Edit ==
    /\ \/ file = "old" /\ file' \in {"bad", "new"}
       \/ file = "bad" /\ file' = "new"
    /\ UNCHANGED <<ibVars, traderVars, runtimeVars, faults>>

Trader ==
    \/ Connect \/ HandleConnected \/ Boot \/ RetryMarketData
    \/ \E who \in {"loop", "event"} : FinishSetup(who) \/ FailSetup(who)

Runtime ==
    \/ StartRuntime \/ GiveUp \/ EnterLoop \/ Reconcile \/ NoteTraderBoot \/ Sleep
    \/ \E c \in Conids : Subscribe(c) \/ SubscribeFails(c)

Next ==
    \/ Trader \/ Runtime
    \/ Drop \/ Die \/ Revoke \/ Release \/ Tick \/ CrashRuntime \/ Edit

Spec == Init /\ [][Next]_vars

(* Both services are restarted, their loops go on, and the gateway accepts *)
(* a connection sooner or later.  Ticks, releases and edits may never come.*)
FairSpec ==
    /\ Spec
    /\ WF_vars(Connect) /\ WF_vars(HandleConnected) /\ WF_vars(Boot) /\ WF_vars(RetryMarketData)
    /\ \A who \in {"loop", "event"} : WF_vars(FinishSetup(who) \/ FailSetup(who))
    /\ WF_vars(Runtime)
-----------------------------------------------------------------------------
TypeOK ==
    /\ link \in BOOLEAN /\ rival \in BOOLEAN /\ up \in BOOLEAN
    /\ boot \in 1 .. MaxBoot /\ knownBoot \in 0 .. MaxBoot
    /\ tickers \subseteq Conids /\ lines \subseteq tickers
    /\ filters \subseteq Conids /\ remembered \subseteq Conids
    /\ loss \in {"none", "lost", "ticked"}
    /\ observers \in 0 .. 2
    /\ loop \in {"none", "retry", "setup"} /\ event \in {"none", "queued", "setup"}
    /\ pc \in {"off", "startup", "failed", "sleep", "boot check", "feed"}
    /\ todo \subseteq Conids /\ published \subseteq Conids /\ wanted \subseteq Conids
    /\ file \in {"old", "bad", "new"} /\ recorded \in {"none", "old", "bad", "new"}
    /\ faults \in 0 .. MaxFaults

(* While the runtime knows the boot of the running trader, everything it   *)
(* believes published was asked of that very process: no conid is left     *)
(* alone on the word of a process that died.                               *)
PublishedBacked == up /\ knownBoot = boot => published \subseteq remembered

(* An instrument is fed if its line is live and somebody listens.          *)
Fed == IF observers > 0 THEN lines \intersect filters ELSE {}

(* Once the entitlement is back and the configuration parses, every conid  *)
(* of a loaded strategy is fed again and stays so, whatever crashed,       *)
(* disconnected or timed out before.                                       *)
FeedReturns ==
    (<>[](file # "bad" /\ ~rival)) => \A c \in Conids : (<>[](c \in wanted)) => <>[](c \in Fed)
=============================================================================
