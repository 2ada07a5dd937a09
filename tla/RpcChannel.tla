------------------------------ MODULE RpcChannel ------------------------------
(***************************************************************************)
(* src/trader/messaging/clientserver.py: an RPCClient, whose threads share *)
(* one DEALER socket under a lock, and an RPCServer, which handles every   *)
(* request in a task of its own and may die and come back.  ZeroMQ is      *)
(* external: a frame waits in the socket (queued), travels (wire) and is   *)
(* dropped when the socket is closed or the server gone.                   *)
(***************************************************************************)
EXTENDS Naturals, FiniteSets

CONSTANTS Threads,     (* threads of the client process                     *)
          Calls,       (* request ids (uuid4), each used once               *)
          Polls,       (* polls of 250 ms until the deadline                *)
          MaxBoot,     (* bound: incarnations of the server                 *)
          HasTimeout,  (* the client was constructed with a timeout         *)
          NoCall       (* no call                                           *)

ASSUME CallsAssumption == NoCall \notin Calls
ASSUME PollsAssumption == Polls \in Nat \ {0}
ASSUME BootAssumption == MaxBoot \in Nat \ {0}

VARIABLES pc,        (* per thread: idle, send, poll                        *)
          cur,       (* per thread: the call it makes                       *)
          owner,     (* the threads holding the client's lock               *)
          elapsed,   (* polls spent by the call under the lock              *)
          identity,  (* the current socket's ZeroMQ identity                *)
          queued,    (* frames in the client's socket                       *)
          wire,      (* frames on a connection of a running server          *)
          up,        (* a server is running                                 *)
          boot,      (* its incarnation                                     *)
          tasks,     (* requests being handled, with the identity to answer *)
          replies,   (* answers on their way to an identity                 *)
          told,      (* per call, what its caller was told                  *)
          answeredBy,(* per call, whose answer its caller was given         *)
          runs,      (* per call, how often its method was invoked          *)
          diedWith,  (* per call, the incarnation in which it timed out     *)
          ranIn      (* per call, the incarnation that executed it          *)

clientVars == <<pc, cur, owner, elapsed, identity, told, answeredBy, diedWith>>
serverVars == <<up, boot, tasks, runs, ranIn>>
netVars    == <<queued, wire, replies>>
vars       == <<clientVars, serverVars, netVars>>

Frames  == [from : Nat, call : Calls]
Outcomes == {"unissued", "pending", "result", "error", "timeout", "unreachable", "interrupted"}
Answers == [to : Nat, call : Calls, kind : {"result", "error"}]

Init ==
    /\ pc = [t \in Threads |-> "idle"]
    /\ cur = [t \in Threads |-> NoCall]
    /\ owner = {}
    /\ elapsed = 0
    /\ identity = 0
    /\ queued = {} /\ wire = {} /\ replies = {} /\ tasks = {}
    /\ up = TRUE
    /\ boot = 1
    /\ told = [c \in Calls |-> "unissued"]
    /\ answeredBy = [c \in Calls |-> NoCall]
    /\ runs = [c \in Calls |-> 0]
    /\ diedWith = [c \in Calls |-> 0]
    /\ ranIn = [c \in Calls |-> 0]
-----------------------------------------------------------------------------
(* _SyncMethodCall.__call__                                                *)

(* Mutant: a call does not take the lock.                                  *)
LockIgnored == TRUE
LockFree == owner = {}

Call(t, c) ==
    /\ pc[t] = "idle"
    /\ told[c] = "unissued"
    /\ LockFree
    /\ owner' = owner \union {t}
    /\ pc' = [pc EXCEPT ![t] = "send"]
    /\ cur' = [cur EXCEPT ![t] = c]
    /\ told' = [told EXCEPT ![c] = "pending"]
    /\ elapsed' = 0
    /\ UNCHANGED <<identity, answeredBy, diedWith, serverVars, netVars>>

(* The call returns or raises and the lock is released.                    *)
Leave(t, outcome) ==
    /\ pc' = [pc EXCEPT ![t] = "idle"]
    /\ cur' = [cur EXCEPT ![t] = NoCall]
    /\ owner' = owner \ {t}
    /\ told' = [told EXCEPT ![cur[t]] = outcome]
    /\ UNCHANGED elapsed

(* Mutant: the socket survives a timeout.                                  *)
SocketKept == UNCHANGED <<identity, queued, replies>>

(* _reset_socket(): closed with linger=0, what it still held is discarded, *)
(* and answers to its identity have no address any more.                   *)
ResetSocket ==
    /\ identity' = identity + 1
    /\ queued' = {f \in queued : f.from # identity}
    /\ replies' = {a \in replies : a.to # identity}

(* A connection is there, or was a moment ago: the socket takes the frame. *)
Send(t) ==
    /\ pc[t] = "send"
    /\ queued' = queued \union {[from |-> identity, call |-> cur[t]]}
    /\ pc' = [pc EXCEPT ![t] = "poll"]
    /\ UNCHANGED <<cur, owner, elapsed, identity, told, answeredBy, diedWith, wire, replies, serverVars>>

(* IMMEDIATE: without a connection the socket does not queue, and send     *)
(* gives up after SNDTIMEO, which is set only if the client has a timeout. *)
SendFails(t) ==
    /\ pc[t] = "send"
    /\ HasTimeout
    /\ Leave(t, "unreachable")
    /\ ResetSocket
    /\ UNCHANGED <<answeredBy, diedWith, wire, serverVars>>

(* Mutant: the next answer is taken, whatever its req_id.                  *)
AnyAnswer(t, a) == a.to = identity

(* A reply counts if its req_id is the one that was sent.                  *)
Matches(t, a) == a.to = identity /\ a.call = cur[t]

Receive(t) ==
    \E a \in replies :
        /\ pc[t] = "poll"
        /\ elapsed < Polls
        /\ Matches(t, a)
        /\ replies' = replies \ {a}
        /\ answeredBy' = [answeredBy EXCEPT ![cur[t]] = a.call]
        /\ Leave(t, a.kind)
        /\ UNCHANGED <<identity, diedWith, queued, wire, serverVars>>

(* A stale reply is thrown away and costs a poll.                          *)
Discard(t) ==
    \E a \in replies :
        /\ pc[t] = "poll"
        /\ elapsed < Polls
        /\ a.to = identity /\ a.call # cur[t]
        /\ replies' = replies \ {a}
        /\ elapsed' = elapsed + 1
        /\ UNCHANGED <<pc, cur, owner, identity, told, answeredBy, diedWith, queued, wire, serverVars>>

(* Mutant: the loop does not look at its deadline.                         *)
PollForEver(t) ==
    /\ pc[t] = "poll"
    /\ elapsed' = elapsed + 1
    /\ UNCHANGED <<pc, cur, owner, identity, told, answeredBy, diedWith, netVars, serverVars>>

(* Nothing came within a poll interval.                                    *)
Poll(t) ==
    /\ pc[t] = "poll"
    /\ elapsed < Polls
    /\ elapsed' = elapsed + 1
    /\ UNCHANGED <<pc, cur, owner, identity, told, answeredBy, diedWith, netVars, serverVars>>

(* Mutant: an off-by-one that never comes true.                            *)
OverdueLate == elapsed > Polls
Overdue == elapsed >= Polls

(* The deadline: the socket is dropped with whatever it holds.             *)
GiveUp(t) ==
    /\ pc[t] = "poll"
    /\ Overdue
    /\ Leave(t, "timeout")
    /\ diedWith' = [diedWith EXCEPT ![cur[t]] = boot]
    /\ ResetSocket
    /\ UNCHANGED <<answeredBy, wire, serverVars>>

(* Ctrl-C in an interactive client: the lock is released, the socket kept. *)
Interrupt(t) ==
    /\ pc[t] = "poll"
    /\ Leave(t, "interrupted")
    /\ UNCHANGED <<identity, answeredBy, diedWith, netVars, serverVars>>
-----------------------------------------------------------------------------
(* The network and RPCServer                                               *)

(* A frame leaves the socket for a server that runs.                       *)
Transmit(f) ==
    /\ up
    /\ f \in queued
    /\ queued' = queued \ {f}
    /\ wire' = wire \union {f}
    /\ UNCHANGED <<clientVars, serverVars, replies>>

(* _serve_loop(): a task of its own for every request.                     *)
Serve(f) ==
    /\ up
    /\ f \in wire
    /\ wire' = wire \ {f}
    /\ tasks' = tasks \union {f}
    /\ UNCHANGED <<clientVars, up, boot, runs, ranIn, queued, replies>>

(* An answer reaches the ROUTER; one to an identity that is gone is        *)
(* dropped.                                                                *)
Answer(f, kind) ==
    /\ tasks' = tasks \ {f}
    /\ replies' = IF f.from = identity
                  THEN replies \union {[to |-> f.from, call |-> f.call, kind |-> kind]}
                  ELSE replies

(* A payload that cannot be decoded or a name that is no rpcmethod: an     *)
(* error is the answer, nothing is executed.                               *)
Reject(f) ==
    /\ f \in tasks /\ runs[f.call] = 0
    /\ Answer(f, "error")
    /\ UNCHANGED <<clientVars, up, boot, runs, ranIn, queued, wire>>

(* Mutant: the server retries a method that raised.                        *)
InvokeAgain(f) == TRUE
NotInvoked(f) == runs[f.call] = 0

Invoke(f) ==
    /\ f \in tasks
    /\ NotInvoked(f)
    /\ runs' = [runs EXCEPT ![f.call] = @ + 1]
    /\ ranIn' = [ranIn EXCEPT ![f.call] = boot]
    /\ UNCHANGED <<clientVars, up, boot, tasks, netVars>>

(* The method returned or raised, its result packs or not: an answer goes  *)
(* out in every case.                                                      *)
Finish(f, kind) ==
    /\ f \in tasks /\ runs[f.call] > 0
    /\ Answer(f, kind)
    /\ UNCHANGED <<clientVars, up, boot, runs, ranIn, queued, wire>>

(* The server dies with its tasks, its connections and its answers.        *)
Die ==
    /\ up
    /\ up' = FALSE
    /\ tasks' = {} /\ wire' = {}
    /\ replies' \in SUBSET replies
    /\ UNCHANGED <<clientVars, boot, runs, ranIn, queued>>

(* serve(): the bind is retried until the old process is gone.             *)
Restart ==
    /\ ~up /\ boot < MaxBoot
    /\ up' = TRUE
    /\ boot' = boot + 1
    /\ UNCHANGED <<clientVars, tasks, runs, ranIn, netVars>>

Client(t) == Send(t) \/ SendFails(t) \/ Receive(t) \/ Discard(t) \/ Poll(t) \/ GiveUp(t)

Next ==
    \/ \E t \in Threads : Client(t) \/ Interrupt(t) \/ \E c \in Calls : Call(t, c)
    \/ \E f \in queued : Transmit(f)
    \/ \E f \in wire : Serve(f)
    \/ \E f \in tasks : Reject(f) \/ Invoke(f) \/ \E kind \in {"result", "error"} : Finish(f, kind)
    \/ Die
    \/ Restart

Spec == Init /\ [][Next]_vars

(* The thread that holds the lock runs on its own clock; a connection that *)
(* exists takes the frame.                                                 *)
FairSpec ==
    /\ Spec
    /\ \A t \in Threads :
          /\ WF_vars((up /\ Send(t)) \/ SendFails(t))
          /\ WF_vars(Receive(t) \/ Discard(t) \/ Poll(t) \/ GiveUp(t))
-----------------------------------------------------------------------------
TypeOK ==
    /\ pc \in [Threads -> {"idle", "send", "poll"}]
    /\ cur \in [Threads -> Calls \union {NoCall}]
    /\ owner \subseteq Threads
    /\ elapsed \in 0 .. Polls
    /\ identity \in Nat
    /\ queued \subseteq Frames /\ wire \subseteq Frames /\ tasks \subseteq Frames
    /\ replies \subseteq Answers
    /\ up \in BOOLEAN /\ boot \in 1 .. MaxBoot
    /\ told \in [Calls -> Outcomes]
    /\ answeredBy \in [Calls -> Calls \union {NoCall}]
    /\ runs \in [Calls -> Nat]
    /\ diedWith \in [Calls -> Nat] /\ ranIn \in [Calls -> Nat]

(* A call returns the answer to itself and to nothing else: an abandoned   *)
(* call's late answer is not taken for the next call's.                    *)
AnswersMatch == \A c \in Calls : told[c] \in {"result", "error"} => answeredBy[c] = c

(* A call that timed out is not executed by a server that came up later:   *)
(* an order the caller gave up does not fire when trader_service is back.  *)
NoGhostRequest == \A c \in Calls : diedWith[c] # 0 => ranIn[c] <= diedWith[c]

(* The channel implements RpcCalls: executed at most once, never after the *)
(* caller was told it could not be sent, and a result is of an execution.  *)
Promise == INSTANCE RpcCalls WITH told <- told, runs <- runs

CallsSpec == Promise!CallsSpec

(* Whoever has the lock gives it back, so a call never blocks the others   *)
(* for good, whether the server answers, dies or hangs.                    *)
HolderReturns == \A t \in Threads : pc[t] # "idle" ~> pc[t] = "idle"
=============================================================================
