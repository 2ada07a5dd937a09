---------------------------- MODULE RpcChannelProofs ----------------------------
(***************************************************************************)
(* Proofs about RpcChannel, for any threads, calls, deadlines and numbers  *)
(* of restarts: type correctness, that answers are the call's own, that an *)
(* abandoned call reaches no later server, and that the channel implements *)
(* RpcCalls.                                                               *)
(***************************************************************************)
EXTENDS RpcChannel, TLAPS

(* The lock: whoever is in a call holds it, alone, and its caller has been *)
(* told nothing yet.                                                       *)
LockInv ==
    /\ \A t \in Threads : pc[t] # "idle" <=> t \in owner
    /\ \A t, u \in owner : t = u
    /\ \A t \in owner : cur[t] \in Calls /\ told[cur[t]] = "pending"

TypeInv == TypeOK /\ LockInv

LEMMA InitType == Init => TypeInv
BY PollsAssumption, BootAssumption
   DEF Init, TypeInv, LockInv, TypeOK, Outcomes

(* The end of a call, however it ends.                                     *)
LEMMA LeaveType ==
    ASSUME TypeInv, NEW t \in Threads, pc[t] # "idle", NEW outcome \in Outcomes,
           Leave(t, outcome)
    PROVE  /\ pc' \in [Threads -> {"idle", "send", "poll"}]
           /\ cur' \in [Threads -> Calls \union {NoCall}]
           /\ owner' \subseteq Threads /\ elapsed' \in 0 .. Polls
           /\ told' \in [Calls -> Outcomes]
           /\ LockInv'
<1>1. t \in owner /\ cur[t] \in Calls /\ \A u \in owner : u = t
  BY DEF TypeInv, LockInv, TypeOK
<1>2. owner' = {} /\ \A u \in Threads : pc'[u] = "idle"
  BY <1>1 DEF Leave, TypeInv, TypeOK, LockInv
<1> QED
  BY <1>1, <1>2 DEF Leave, TypeInv, TypeOK, LockInv

LEMMA ClientType ==
    ASSUME TypeInv, NEW t \in Threads, Client(t) \/ Interrupt(t) PROVE TypeInv'
<1> USE DEF serverVars, netVars
<1>1. TypeOK /\ LockInv
  BY DEF TypeInv
<1>2. pc[t] # "idle" /\ cur[t] \in Calls /\ t \in owner
  BY <1>1 DEF Client, Interrupt, Send, SendFails, Receive, Discard, Poll, GiveUp, LockInv, TypeOK
<1>3. CASE Send(t)
  <2>1. queued' \subseteq Frames
    BY <1>1, <1>2, <1>3 DEF Send, TypeOK, Frames
  <2> QED
    BY <1>1, <1>2, <1>3, <2>1 DEF Send, TypeInv, TypeOK, LockInv
<1>4. CASE SendFails(t)
  <2>1. Leave(t, "unreachable") /\ "unreachable" \in Outcomes
    BY <1>4 DEF SendFails, Outcomes
  <2> QED
    BY <1>1, <1>2, <1>4, <2>1, LeaveType DEF SendFails, ResetSocket, TypeInv, TypeOK
<1>5. CASE Receive(t)
  <2>1. PICK a \in replies :
            /\ Matches(t, a) /\ replies' = replies \ {a}
            /\ answeredBy' = [answeredBy EXCEPT ![cur[t]] = a.call]
            /\ Leave(t, a.kind)
            /\ UNCHANGED <<identity, diedWith, queued, wire, serverVars>>
    BY <1>5 DEF Receive
  <2>2. a.kind \in Outcomes /\ a.call \in Calls
    BY <1>1, <2>1 DEF TypeOK, Answers, Outcomes
  <2> QED
    BY <1>1, <1>2, <2>1, <2>2, LeaveType DEF TypeInv, TypeOK
<1>6. CASE Discard(t) \/ Poll(t)
  <2>1. elapsed' \in 0 .. Polls
    BY <1>1, <1>6, PollsAssumption DEF Discard, Poll, TypeOK
  <2> QED
    BY <1>1, <1>6, <2>1 DEF Discard, Poll, TypeInv, TypeOK, LockInv
<1>7. CASE GiveUp(t)
  <2>1. Leave(t, "timeout") /\ "timeout" \in Outcomes
    BY <1>7 DEF GiveUp, Outcomes
  <2> QED
    BY <1>1, <1>2, <1>7, <2>1, LeaveType, BootAssumption DEF GiveUp, ResetSocket, TypeInv, TypeOK
<1>8. CASE Interrupt(t)
  <2>1. Leave(t, "interrupted") /\ "interrupted" \in Outcomes
    BY <1>8 DEF Interrupt, Outcomes
  <2> QED
    BY <1>1, <1>2, <1>8, <2>1, LeaveType DEF Interrupt, TypeInv, TypeOK
<1> QED
  BY <1>3, <1>4, <1>5, <1>6, <1>7, <1>8 DEF Client

(* The steps of the network and the server.                                *)
ServerStep ==
    \/ \E f \in queued : Transmit(f)
    \/ \E f \in wire : Serve(f)
    \/ \E f \in tasks : Reject(f) \/ Invoke(f) \/ \E kind \in {"result", "error"} : Finish(f, kind)
    \/ Die
    \/ Restart

LEMMA ServerType == ASSUME TypeInv, ServerStep PROVE TypeInv'
<1> USE DEF clientVars, serverVars, netVars
<1>1. TypeOK /\ LockInv
  BY DEF TypeInv
<1>2. LockInv'
  BY <1>1 DEF ServerStep, LockInv, Transmit, Serve, Reject, Invoke, Finish, Die, Restart
<1>3. ASSUME NEW f \in tasks, NEW kind \in {"result", "error"}, Answer(f, kind)
      PROVE  tasks' \subseteq Frames /\ replies' \subseteq Answers
  BY <1>1, <1>3 DEF Answer, TypeOK, Frames, Answers
<1>4. ASSUME NEW f \in queued, Transmit(f) PROVE TypeInv'
  BY <1>1, <1>2, <1>4 DEF Transmit, TypeInv, TypeOK
<1>5. ASSUME NEW f \in wire, Serve(f) PROVE TypeInv'
  BY <1>1, <1>2, <1>5 DEF Serve, TypeInv, TypeOK
<1>6. ASSUME NEW f \in tasks, Reject(f) PROVE TypeInv'
  BY <1>1, <1>2, <1>3, <1>6 DEF Reject, TypeInv, TypeOK
<1>7. ASSUME NEW f \in tasks, NEW kind \in {"result", "error"}, Finish(f, kind) PROVE TypeInv'
  BY <1>1, <1>2, <1>3, <1>7 DEF Finish, TypeInv, TypeOK
<1>8. ASSUME NEW f \in tasks, Invoke(f) PROVE TypeInv'
  <2>1. f.call \in Calls
    BY <1>1, <1>8 DEF TypeOK, Frames
  <2>2. runs' \in [Calls -> Nat] /\ ranIn' \in [Calls -> Nat]
    BY <1>1, <1>8, <2>1, BootAssumption DEF Invoke, TypeOK
  <2> QED
    BY <1>1, <1>2, <1>8, <2>2 DEF Invoke, TypeInv, TypeOK
<1>9. CASE Die
  BY <1>1, <1>2, <1>9 DEF Die, TypeInv, TypeOK
<1>10. CASE Restart
  BY <1>1, <1>2, <1>10, BootAssumption DEF Restart, TypeInv, TypeOK
<1> QED
  BY <1>4, <1>5, <1>6, <1>7, <1>8, <1>9, <1>10 DEF ServerStep

LEMMA CallType ==
    ASSUME TypeInv, NEW t \in Threads, NEW c \in Calls, Call(t, c) PROVE TypeInv'
<1>1. TypeOK /\ LockInv
  BY DEF TypeInv
<1>2. owner = {} /\ owner' = {t}
  BY DEF Call, LockFree
<1>3. LockInv'
  BY <1>1, <1>2 DEF Call, LockInv, TypeOK
<1> QED
  BY <1>1, <1>2, <1>3, PollsAssumption DEF Call, TypeInv, TypeOK, Outcomes, serverVars, netVars

LEMMA StepType == TypeInv /\ [Next]_vars => TypeInv'
<1>1. ASSUME TypeInv, UNCHANGED vars PROVE TypeInv'
  BY <1>1 DEF vars, clientVars, serverVars, netVars, TypeInv, TypeOK, LockInv
<1> QED
  BY <1>1, ClientType, CallType, ServerType DEF Next, ServerStep

(* Every call that waits holds the client's lock, alone.                   *)
THEOREM TypeCorrect == Spec => []TypeOK
<1>1. TypeInv => TypeOK
  BY DEF TypeInv
<1> QED
  BY <1>1, InitType, StepType, PTL DEF Spec
-----------------------------------------------------------------------------
(* What the caller was given as an answer is the answer of its call.       *)
LEMMA StepMatches == ASSUME TypeInv, AnswersMatch, [Next]_vars PROVE AnswersMatch'
<1> USE DEF clientVars, serverVars, netVars
<1>1. TypeOK /\ LockInv
  BY DEF TypeInv
<1>2. CASE UNCHANGED <<told, answeredBy>>
  BY <1>2 DEF AnswersMatch
<1>3. CASE UNCHANGED vars \/ ServerStep
  BY <1>2, <1>3 DEF vars, ServerStep, Transmit, Serve, Reject, Invoke, Finish, Die, Restart
<1>4. ASSUME NEW t \in Threads, NEW c \in Calls, Call(t, c) PROVE AnswersMatch'
  BY <1>1, <1>4 DEF Call, AnswersMatch, TypeOK
<1>5. ASSUME NEW t \in Threads, Receive(t) PROVE AnswersMatch'
  <2>1. cur[t] \in Calls
    BY <1>1, <1>5 DEF Receive, LockInv
  <2>2. answeredBy' = [answeredBy EXCEPT ![cur[t]] = cur[t]]
    BY <1>5 DEF Receive, Matches
  <2>3. \A c \in Calls : c # cur[t] => told'[c] = told[c]
    BY <1>1, <1>5 DEF Receive, Leave, TypeOK
  <2> QED
    BY <1>1, <2>1, <2>2, <2>3 DEF AnswersMatch, TypeOK
<1>6. ASSUME NEW t \in Threads, SendFails(t) \/ GiveUp(t) \/ Interrupt(t) PROVE AnswersMatch'
  BY <1>1, <1>6 DEF SendFails, GiveUp, Interrupt, Leave, AnswersMatch, TypeOK
<1>7. ASSUME NEW t \in Threads, Send(t) \/ Discard(t) \/ Poll(t) PROVE AnswersMatch'
  BY <1>2, <1>7 DEF Send, Discard, Poll
<1> QED
  BY <1>3, <1>4, <1>5, <1>6, <1>7 DEF Next, Client, ServerStep

(* _SyncMethodCall returns the answer to its own req_id or none: a late    *)
(* answer to an abandoned call is not taken for the next one's.            *)
THEOREM OwnAnswers == Spec => []AnswersMatch
<1>1. Init => AnswersMatch
  BY DEF Init, AnswersMatch
<1>2. TypeInv /\ AnswersMatch /\ [Next]_vars => (TypeInv /\ AnswersMatch)'
  BY StepType, StepMatches
<1> QED
  BY <1>1, <1>2, InitType, PTL DEF Spec
-----------------------------------------------------------------------------
(***************************************************************************)
(* Where the one frame of a call can be                                    *)
(***************************************************************************)
Travelling == queued \union wire \union tasks

NoFrame(c) == \A f \in Travelling : f.call # c

Fresh(c) == runs[c] = 0 /\ NoFrame(c) /\ \A a \in replies : a.call # c

(* A call has one frame, in one place, and either the frame or the answer. *)
FramesInv ==
    /\ queued \intersect wire = {} /\ queued \intersect tasks = {} /\ wire \intersect tasks = {}
    /\ \A f, g \in Travelling : f.call = g.call => f = g
    /\ \A f \in Travelling, a \in replies : f.call # a.call
    /\ \A c \in Calls : told[c] \in {"unissued", "unreachable"} => Fresh(c)
    /\ \A t \in Threads : pc[t] = "send" => Fresh(cur[t])
    /\ \A c \in Calls : told[c] \in {"result", "error"} => NoFrame(c)
    /\ \A c \in Calls : runs[c] <= 1
    /\ \A a \in replies : a.kind = "result" => runs[a.call] = 1

ChannelInv == TypeInv /\ FramesInv

LEMMA InitFrames == Init => FramesInv
BY DEF Init, FramesInv, Travelling, Fresh, NoFrame

(* What the client does with its own call.                                 *)
LEMMA ClientFrames ==
    ASSUME ChannelInv, NEW t \in Threads, Client(t) \/ Interrupt(t) PROVE FramesInv'
<1> USE DEF clientVars, serverVars, netVars
<1>1. TypeOK /\ LockInv /\ FramesInv
  BY DEF ChannelInv, TypeInv
<1>2. /\ pc[t] # "idle" /\ cur[t] \in Calls /\ t \in owner /\ told[cur[t]] = "pending"
      /\ \A u \in Threads : u # t => pc[u] = "idle"
  BY <1>1 DEF Client, Interrupt, Send, SendFails, Receive, Discard, Poll, GiveUp, LockInv, TypeOK
<1>3. CASE Send(t)
  <2> DEFINE new == [from |-> identity, call |-> cur[t]]
  <2>1. /\ Travelling' = Travelling \union {new} /\ queued' = queued \union {new}
        /\ UNCHANGED <<wire, tasks, replies, runs, told>>
    BY <1>3 DEF Send, Travelling
  <2>2. new.call = cur[t] /\ Fresh(cur[t]) /\ \A f \in Travelling : f.call # cur[t]
    BY <1>1, <1>3 DEF Send, FramesInv, Fresh, NoFrame
  <2>3. new \notin Travelling
    BY <2>2
  <2> HIDE DEF new
  <2>4. \A u \in Threads : pc'[u] # "send"
    BY <1>1, <1>2, <1>3 DEF Send, TypeOK
  <2>5. \A c \in Calls : c # cur[t] /\ NoFrame(c) => NoFrame(c)'
    BY <2>1, <2>2 DEF NoFrame
  <2>6. /\ queued' \intersect wire' = {} /\ queued' \intersect tasks' = {} /\ wire' \intersect tasks' = {}
        /\ \A f, g \in Travelling' : f.call = g.call => f = g
        /\ \A f \in Travelling', a \in replies' : f.call # a.call
    BY <1>1, <2>1, <2>2, <2>3 DEF FramesInv, Travelling, Fresh
  <2>7. /\ \A c \in Calls : told'[c] \in {"unissued", "unreachable"} => Fresh(c)'
        /\ \A c \in Calls : told'[c] \in {"result", "error"} => NoFrame(c)'
    BY <1>1, <1>2, <2>1, <2>5 DEF FramesInv, Fresh
  <2> QED
    BY <1>1, <2>1, <2>4, <2>6, <2>7 DEF FramesInv
<1>4. ASSUME Travelling' \subseteq Travelling, queued' \subseteq queued,
             replies' \subseteq replies, UNCHANGED <<wire, tasks, runs>>,
             \A u \in Threads : pc'[u] = "send" => pc[u] = "send" /\ cur'[u] = cur[u],
             \A c \in Calls : /\ told'[c] \in {"unissued", "unreachable"} => Fresh(c)
                              /\ told'[c] \in {"result", "error"} => NoFrame(c)
      PROVE  FramesInv'
  <2>1. \A c : NoFrame(c) => NoFrame(c)'
    BY <1>4 DEF NoFrame
  <2>2. \A c : Fresh(c) => Fresh(c)'
    BY <1>4, <2>1 DEF Fresh
  <2> QED
    BY <1>1, <1>4, <2>1, <2>2 DEF FramesInv
<1>5. ASSUME NEW outcome \in {"unreachable", "timeout", "interrupted", "result", "error"},
             Leave(t, outcome)
      PROVE  /\ \A u \in Threads : pc'[u] = "idle"
             /\ \A c \in Calls : told'[c] = IF c = cur[t] THEN outcome ELSE told[c]
  BY <1>1, <1>2, <1>5 DEF Leave, TypeOK
<1>6. CASE SendFails(t)
  <2>1. Leave(t, "unreachable") /\ Fresh(cur[t])
    BY <1>1, <1>6 DEF SendFails, FramesInv
  <2>2. queued' \subseteq queued /\ replies' \subseteq replies /\ UNCHANGED <<wire, tasks, runs>>
    BY <1>6 DEF SendFails, ResetSocket
  <2> QED
    BY <1>1, <1>4, <1>5, <2>1, <2>2 DEF FramesInv, Travelling
<1>7. CASE Receive(t)
  <2>1. PICK a \in replies :
            /\ a.call = cur[t] /\ replies' = replies \ {a} /\ Leave(t, a.kind)
            /\ UNCHANGED <<queued, wire, tasks, runs>>
    BY <1>7 DEF Receive, Matches
  <2>2. a.kind \in {"result", "error"}
    BY <1>1, <2>1 DEF TypeOK, Answers
  <2>3. NoFrame(cur[t])
    BY <1>1, <2>1 DEF FramesInv, NoFrame
  <2> QED
    BY <1>1, <1>4, <1>5, <2>1, <2>2, <2>3 DEF FramesInv, Travelling
<1>8. CASE Discard(t) \/ Poll(t)
  <2>1. replies' \subseteq replies /\ UNCHANGED <<queued, wire, tasks, runs, told, pc, cur>>
    BY <1>8 DEF Discard, Poll
  <2> QED
    BY <1>1, <1>4, <2>1 DEF FramesInv, Travelling
<1>9. CASE GiveUp(t)
  <2>1. Leave(t, "timeout")
    BY <1>9 DEF GiveUp
  <2>2. queued' \subseteq queued /\ replies' \subseteq replies /\ UNCHANGED <<wire, tasks, runs>>
    BY <1>9 DEF GiveUp, ResetSocket
  <2> QED
    BY <1>1, <1>4, <1>5, <2>1, <2>2 DEF FramesInv, Travelling
<1>10. CASE Interrupt(t)
  <2>1. Leave(t, "interrupted") /\ UNCHANGED <<queued, replies, wire, tasks, runs>>
    BY <1>10 DEF Interrupt
  <2> QED
    BY <1>1, <1>4, <1>5, <2>1 DEF FramesInv, Travelling
<1> QED
  BY <1>3, <1>6, <1>7, <1>8, <1>9, <1>10 DEF Client

LEMMA CallFrames ==
    ASSUME ChannelInv, NEW t \in Threads, NEW c \in Calls, Call(t, c) PROVE FramesInv'
<1> USE DEF serverVars, netVars
<1>1. TypeOK /\ LockInv /\ FramesInv
  BY DEF ChannelInv, TypeInv
<1>2. Fresh(c) /\ UNCHANGED <<queued, wire, tasks, replies, runs>>
  BY <1>1 DEF Call, FramesInv
<1>3. \A d \in Calls : told'[d] # told[d] => d = c /\ told'[d] = "pending"
  BY <1>1 DEF Call, TypeOK
<1>4. ASSUME NEW u \in Threads, pc'[u] = "send"
      PROVE  (u = t /\ cur'[u] = c) \/ (u # t /\ pc[u] = "send" /\ cur'[u] = cur[u])
  BY <1>1, <1>4 DEF Call, TypeOK
<1>5. \A d : (NoFrame(d) <=> NoFrame(d)') /\ (Fresh(d) <=> Fresh(d)')
  BY <1>2 DEF NoFrame, Fresh, Travelling
<1> QED
  BY <1>1, <1>2, <1>3, <1>4, <1>5 DEF FramesInv, Travelling

LEMMA ServerFrames == ASSUME ChannelInv, ServerStep PROVE FramesInv'
<1> USE DEF clientVars, serverVars, netVars
<1>1. TypeOK /\ LockInv /\ FramesInv
  BY DEF ChannelInv, TypeInv
<1>2. UNCHANGED <<pc, cur, told>>
  BY DEF ServerStep, Transmit, Serve, Reject, Invoke, Finish, Die, Restart
<1>3. ASSUME NEW f \in queued, Transmit(f) PROVE FramesInv'
  <2>1. Travelling' = Travelling /\ UNCHANGED <<replies, runs, tasks>>
    BY <1>3 DEF Transmit, Travelling
  <2>2. \A d : (NoFrame(d) <=> NoFrame(d)') /\ (Fresh(d) <=> Fresh(d)')
    BY <2>1 DEF NoFrame, Fresh
  <2>3. /\ queued' \intersect wire' = {} /\ queued' \intersect tasks' = {} /\ wire' \intersect tasks' = {}
    BY <1>1, <1>3, <2>1 DEF Transmit, FramesInv
  <2> QED
    BY <1>1, <1>2, <2>1, <2>2, <2>3 DEF FramesInv
<1>4. ASSUME NEW f \in wire, Serve(f) PROVE FramesInv'
  <2>1. Travelling' = Travelling /\ UNCHANGED <<replies, runs, queued>>
    BY <1>4 DEF Serve, Travelling
  <2>2. \A d : (NoFrame(d) <=> NoFrame(d)') /\ (Fresh(d) <=> Fresh(d)')
    BY <2>1 DEF NoFrame, Fresh
  <2>3. /\ queued' \intersect wire' = {} /\ queued' \intersect tasks' = {} /\ wire' \intersect tasks' = {}
    BY <1>1, <1>4, <2>1 DEF Serve, FramesInv
  <2> QED
    BY <1>1, <1>2, <2>1, <2>2, <2>3 DEF FramesInv
<1>5. ASSUME NEW f \in tasks, NEW kind \in {"result", "error"}, Answer(f, kind),
             UNCHANGED <<queued, wire, runs>>, kind = "result" => runs[f.call] > 0
      PROVE  FramesInv'
  <2>1. f \notin queued /\ f \notin wire /\ f \in Travelling /\ f.call \in Calls
    BY <1>1 DEF FramesInv, Travelling, TypeOK, Frames
  <2>2. Travelling' = Travelling \ {f} /\ tasks' = tasks \ {f}
    BY <1>5, <2>1 DEF Answer, Travelling
  <2>3. \A g \in Travelling' : g \in Travelling /\ g.call # f.call
    BY <1>1, <2>1, <2>2 DEF FramesInv
  <2>4. \A a \in replies' : a \in replies \/ (a.call = f.call /\ a.kind = kind)
    BY <1>5 DEF Answer
  <2>5. \A d : NoFrame(d) => NoFrame(d)'
    BY <2>2 DEF NoFrame
  <2>6. ~NoFrame(f.call)
    BY <2>1 DEF NoFrame
  <2>7. \A d : Fresh(d) => Fresh(d)'
    BY <1>5, <2>4, <2>5, <2>6 DEF Fresh
  <2>8. \A a \in replies' : a.kind = "result" => runs[a.call] = 1
    <3>1. kind = "result" => runs[f.call] = 1
      BY <1>1, <1>5, <2>1 DEF FramesInv, TypeOK
    <3> QED
      BY <1>1, <2>4, <3>1 DEF FramesInv
  <2>9. \A g \in Travelling', a \in replies' : g.call # a.call
    BY <1>1, <2>3, <2>4 DEF FramesInv
  <2>10. /\ queued' \intersect wire' = {} /\ queued' \intersect tasks' = {} /\ wire' \intersect tasks' = {}
         /\ \A g, h \in Travelling' : g.call = h.call => g = h
    BY <1>1, <1>5, <2>2, <2>3 DEF FramesInv
  <2> QED
    BY <1>1, <1>2, <1>5, <2>5, <2>7, <2>8, <2>9, <2>10 DEF FramesInv
<1>6. ASSUME NEW f \in tasks, Reject(f) PROVE FramesInv'
  <2>1. Answer(f, "error") /\ UNCHANGED <<queued, wire, runs>>
    BY <1>6 DEF Reject
  <2> QED
    BY <1>5, <2>1
<1>7. ASSUME NEW f \in tasks, NEW kind \in {"result", "error"}, Finish(f, kind) PROVE FramesInv'
  <2>1. Answer(f, kind) /\ runs[f.call] > 0 /\ UNCHANGED <<queued, wire, runs>>
    BY <1>7 DEF Finish
  <2> QED
    BY <1>5, <2>1
<1>8. ASSUME NEW f \in tasks, Invoke(f) PROVE FramesInv'
  <2>1. f \in Travelling /\ f.call \in Calls /\ ~NoFrame(f.call)
    BY <1>1 DEF Travelling, TypeOK, Frames, NoFrame
  <2>2. /\ UNCHANGED <<queued, wire, tasks, replies>> /\ Travelling' = Travelling
        /\ runs'[f.call] = 1 /\ \A c \in Calls : c # f.call => runs'[c] = runs[c]
    BY <1>1, <1>8, <2>1 DEF Invoke, NotInvoked, TypeOK, Travelling
  <2>3. \A d : NoFrame(d) <=> NoFrame(d)'
    BY <2>2 DEF NoFrame
  <2>4. \A d \in Calls : Fresh(d) => Fresh(d)'
    BY <2>1, <2>2, <2>3 DEF Fresh
  <2>5. \A t \in Threads : pc[t] = "send" => cur[t] \in Calls
    BY <1>1 DEF LockInv, TypeOK
  <2>6. \A a \in replies : a.call \in Calls
    BY <1>1 DEF TypeOK, Answers
  <2>7. \A c \in Calls : runs'[c] <= 1
    BY <1>1, <2>2 DEF FramesInv
  <2> QED
    BY <1>1, <1>2, <2>2, <2>3, <2>4, <2>5, <2>6, <2>7 DEF FramesInv
<1>9. CASE Die
  <2>1. Travelling' \subseteq Travelling /\ queued' = queued /\ wire' = {} /\ tasks' = {}
        /\ replies' \subseteq replies /\ runs' = runs
    BY <1>9 DEF Die, Travelling
  <2>2. \A d : (NoFrame(d) => NoFrame(d)') /\ (Fresh(d) => Fresh(d)')
    BY <2>1 DEF NoFrame, Fresh
  <2> QED
    BY <1>1, <1>2, <2>1, <2>2 DEF FramesInv
<1>10. CASE Restart
  <2>1. UNCHANGED <<queued, wire, tasks, replies, runs>>
    BY <1>10 DEF Restart
  <2> QED
    BY <1>1, <1>2, <2>1 DEF FramesInv, Travelling, NoFrame, Fresh
<1> QED
  BY <1>3, <1>4, <1>6, <1>7, <1>8, <1>9, <1>10 DEF ServerStep

LEMMA StepChannel == ChannelInv /\ [Next]_vars => ChannelInv'
<1>1. ASSUME ChannelInv, UNCHANGED vars PROVE FramesInv'
  BY <1>1 DEF vars, clientVars, serverVars, netVars, ChannelInv, FramesInv, Travelling, NoFrame, Fresh
<1>2. ASSUME ChannelInv, Next PROVE FramesInv'
  BY <1>2, ClientFrames, CallFrames, ServerFrames DEF Next, ServerStep
<1> QED
  BY <1>1, <1>2, StepType DEF ChannelInv

LEMMA ChannelInvariance == Spec => []ChannelInv
BY InitType, InitFrames, StepChannel, PTL DEF Spec, ChannelInv
-----------------------------------------------------------------------------
(***************************************************************************)
(* The channel implements RpcCalls                                         *)
(***************************************************************************)
LEMMA LeaveTells ==
    ASSUME ChannelInv, NEW t \in Threads, pc[t] # "idle",
           NEW outcome \in Outcomes \ {"unissued", "pending"},
           Leave(t, outcome), UNCHANGED runs,
           outcome = "result" => runs[cur[t]] = 1,
           outcome = "unreachable" => runs[cur[t]] = 0
    PROVE  Promise!CallsNext
<1>1. cur[t] \in Calls /\ told[cur[t]] = "pending"
  BY DEF ChannelInv, TypeInv, LockInv
<1>2. Promise!Tell(cur[t], outcome)
  BY <1>1 DEF Promise!Tell, Leave
<1> QED
  BY <1>1, <1>2 DEF Promise!CallsNext, Promise!Outcomes, Outcomes

LEMMA StepImplements ==
    ASSUME ChannelInv, [Next]_vars
    PROVE  Promise!CallsNext \/ UNCHANGED <<told, runs>>
<1> USE DEF clientVars, serverVars, netVars
<1>1. TypeOK /\ LockInv /\ FramesInv
  BY DEF ChannelInv, TypeInv
<1>2. ASSUME NEW t \in Threads, NEW c \in Calls, Call(t, c) PROVE Promise!CallsNext
  <2>1. Promise!Issue(c)
    BY <1>2 DEF Call, Promise!Issue
  <2> QED
    BY <2>1 DEF Promise!CallsNext
<1>3. ASSUME NEW t \in Threads, SendFails(t) PROVE Promise!CallsNext
  <2>1. Leave(t, "unreachable") /\ pc[t] = "send" /\ UNCHANGED runs
    BY <1>3 DEF SendFails
  <2>2. runs[cur[t]] = 0
    BY <1>1, <2>1 DEF FramesInv, Fresh
  <2> QED
    BY <2>1, <2>2, LeaveTells DEF Outcomes
<1>4. ASSUME NEW t \in Threads, Receive(t) PROVE Promise!CallsNext
  <2>1. PICK a \in replies : /\ pc[t] = "poll" /\ a.call = cur[t]
                             /\ Leave(t, a.kind) /\ UNCHANGED runs
    BY <1>4 DEF Receive, Matches
  <2>2. a.kind \in {"result", "error"} /\ (a.kind = "result" => runs[cur[t]] = 1)
    BY <1>1, <2>1 DEF FramesInv, TypeOK, Answers
  <2> QED
    BY <2>1, <2>2, LeaveTells DEF Outcomes
<1>5. ASSUME NEW t \in Threads, GiveUp(t) PROVE Promise!CallsNext
  <2>1. Leave(t, "timeout") /\ pc[t] = "poll" /\ UNCHANGED runs
    BY <1>5 DEF GiveUp
  <2> QED
    BY <2>1, LeaveTells DEF Outcomes
<1>6. ASSUME NEW t \in Threads, Interrupt(t) PROVE Promise!CallsNext
  <2>1. Leave(t, "interrupted") /\ pc[t] = "poll" /\ UNCHANGED runs
    BY <1>6 DEF Interrupt
  <2> QED
    BY <2>1, LeaveTells DEF Outcomes
<1>7. ASSUME NEW t \in Threads, Send(t) \/ Discard(t) \/ Poll(t)
      PROVE  UNCHANGED <<told, runs>>
  BY <1>7 DEF Send, Discard, Poll
<1>8. ASSUME NEW f \in tasks, Invoke(f) PROVE Promise!CallsNext
  <2>1. f.call \in Calls /\ ~NoFrame(f.call)
    BY <1>1 DEF TypeOK, Frames, NoFrame, Travelling
  <2>2. told[f.call] \notin {"unissued", "unreachable", "result", "error"}
    BY <1>1, <2>1 DEF FramesInv, Fresh
  <2>3. runs[f.call] = 0 /\ runs' = [runs EXCEPT ![f.call] = 1] /\ UNCHANGED told
    BY <1>1, <1>8, <2>1 DEF Invoke, NotInvoked, TypeOK
  <2>4. Promise!Execute(f.call)
    BY <2>2, <2>3 DEF Promise!Execute
  <2> QED
    BY <2>1, <2>4 DEF Promise!CallsNext
<1>9. ASSUME NEW f, Transmit(f) \/ Serve(f) \/ Reject(f) PROVE UNCHANGED <<told, runs>>
  BY <1>9 DEF Transmit, Serve, Reject
<1>10. ASSUME NEW f, NEW kind, Finish(f, kind) PROVE UNCHANGED <<told, runs>>
  BY <1>10 DEF Finish
<1>11. CASE Die \/ Restart \/ UNCHANGED vars
  BY <1>11 DEF Die, Restart, vars
<1> QED
  BY <1>2, <1>3, <1>4, <1>5, <1>6, <1>7, <1>8, <1>9, <1>10, <1>11 DEF Next, Client

(* Whatever the network, the deadlines and the server's deaths do, every   *)
(* behaviour of the channel is one of RpcCalls: a method is executed at    *)
(* most once, never after its caller was told it could not be sent.        *)
THEOREM ImplementsCalls == Spec => CallsSpec
<1>1. Init => Promise!CallsInit
  BY DEF Init, Promise!CallsInit
<1>2. ChannelInv /\ [Next]_vars => [Promise!CallsNext]_<<told, runs>>
  BY StepImplements
<1> QED
  BY <1>1, <1>2, ChannelInvariance, PTL DEF Spec, CallsSpec, Promise!CallsSpec
-----------------------------------------------------------------------------
(***************************************************************************)
(* A call that was given up reaches no server that comes up later          *)
(***************************************************************************)
(* A frame waits only in the current socket; when its call's caller times  *)
(* out that socket goes, and what the server then running has of the call  *)
(* goes with that server.                                                  *)
Abandoned(c) ==
    /\ told[c] = "timeout"
    /\ diedWith[c] <= boot /\ ranIn[c] <= diedWith[c]
    /\ \A f \in queued : f.call # c
    /\ boot > diedWith[c] => NoFrame(c)

GhostInv ==
    /\ ~up => wire = {} /\ tasks = {}
    /\ \A f \in queued : f.from = identity
    /\ \A c \in Calls : ranIn[c] <= boot
    /\ \A c \in Calls : diedWith[c] # 0 => Abandoned(c)

LEMMA InitGhost == Init => GhostInv
BY DEF Init, GhostInv

LEMMA ClientGhost ==
    ASSUME ChannelInv, GhostInv, NEW t \in Threads, Client(t) \/ Interrupt(t)
    PROVE  GhostInv'
<1> USE DEF clientVars, serverVars, netVars
<1>1. TypeOK /\ LockInv /\ FramesInv
  BY DEF ChannelInv, TypeInv
<1>2. pc[t] # "idle" /\ cur[t] \in Calls /\ told[cur[t]] = "pending"
  BY <1>1 DEF Client, Interrupt, Send, SendFails, Receive, Discard, Poll, GiveUp, LockInv, TypeOK
<1>3. UNCHANGED <<up, boot, ranIn, wire, tasks>>
  BY DEF Client, Interrupt, Send, SendFails, Receive, Discard, Poll, GiveUp
<1>4. diedWith[cur[t]] = 0
  BY <1>2 DEF GhostInv, Abandoned
<1>5. ASSUME NEW c \in Calls, Abandoned(c), told'[c] = told[c], diedWith'[c] = diedWith[c],
             \A f \in queued' : f \in queued \/ f.call # c
      PROVE  Abandoned(c)'
  BY <1>3, <1>5 DEF Abandoned, NoFrame, Travelling
<1>6. CASE Send(t)
  <2>1. queued' = queued \union {[from |-> identity, call |-> cur[t]]}
        /\ UNCHANGED <<told, diedWith, identity>>
    BY <1>6 DEF Send
  <2>2. \A f \in queued' : f \in queued \/ f.call = cur[t]
    BY <2>1
  <2>3. \A f \in queued' : f.from = identity'
    BY <2>1 DEF GhostInv
  <2>4. ASSUME NEW c \in Calls, diedWith'[c] # 0 PROVE Abandoned(c)'
    BY <1>2, <1>4, <1>5, <2>1, <2>2, <2>4 DEF GhostInv
  <2> QED
    BY <1>3, <2>3, <2>4 DEF GhostInv
<1>7. CASE Discard(t) \/ Poll(t)
  BY <1>3, <1>5, <1>7 DEF Discard, Poll, GhostInv
<1>8. ASSUME NEW outcome, Leave(t, outcome)
      PROVE  \A c \in Calls : c # cur[t] => told'[c] = told[c]
  BY <1>1, <1>8 DEF Leave, TypeOK
<1>9. ASSUME NEW outcome, Leave(t, outcome), UNCHANGED <<queued, identity, diedWith>>
      PROVE  GhostInv'
  BY <1>3, <1>4, <1>5, <1>8, <1>9 DEF GhostInv
<1>10. CASE Receive(t)
  BY <1>9, <1>10 DEF Receive
<1>11. CASE Interrupt(t)
  BY <1>9, <1>11 DEF Interrupt
<1>12. ASSUME ResetSocket PROVE queued' = {}
  BY <1>12 DEF ResetSocket, GhostInv
<1>13. CASE SendFails(t)
  <2>1. queued' = {} /\ diedWith' = diedWith /\ Leave(t, "unreachable")
    BY <1>12, <1>13 DEF SendFails
  <2> QED
    BY <1>3, <1>4, <1>5, <1>8, <2>1 DEF GhostInv
<1>14. CASE GiveUp(t)
  <2>1. queued' = {} /\ diedWith' = [diedWith EXCEPT ![cur[t]] = boot] /\ Leave(t, "timeout")
    BY <1>12, <1>14 DEF GiveUp
  <2>2. told'[cur[t]] = "timeout" /\ diedWith'[cur[t]] = boot
    BY <1>1, <1>2, <2>1 DEF Leave, TypeOK
  <2>3. ASSUME NEW c \in Calls, c = cur[t] PROVE Abandoned(c)'
    BY <1>1, <1>2, <1>3, <2>1, <2>2, <2>3, BootAssumption DEF Abandoned, GhostInv, TypeOK
  <2>4. ASSUME NEW c \in Calls, c # cur[t], diedWith'[c] # 0 PROVE Abandoned(c)'
    <3>1. diedWith'[c] = diedWith[c]
      BY <1>1, <2>1, <2>4 DEF TypeOK
    <3> QED
      BY <1>5, <1>8, <2>1, <2>4, <3>1 DEF GhostInv
  <2> QED
    BY <1>3, <2>1, <2>3, <2>4 DEF GhostInv
<1> QED
  BY <1>6, <1>7, <1>10, <1>11, <1>13, <1>14 DEF Client

LEMMA CallGhost ==
    ASSUME ChannelInv, GhostInv, NEW t \in Threads, NEW c \in Calls, Call(t, c)
    PROVE  GhostInv'
<1> USE DEF serverVars, netVars
<1>1. UNCHANGED <<identity, diedWith, up, boot, ranIn, tasks, queued, wire>> /\ told[c] = "unissued"
  BY DEF Call
<1>2. \A d \in Calls : told[d] = "timeout" => told'[d] = "timeout"
  BY <1>1 DEF Call, ChannelInv, TypeInv, TypeOK
<1> QED
  BY <1>1, <1>2 DEF GhostInv, Abandoned, NoFrame, Travelling

LEMMA ServerGhost == ASSUME ChannelInv, GhostInv, ServerStep PROVE GhostInv'
<1> USE DEF clientVars, serverVars, netVars
<1>1. TypeOK /\ FramesInv
  BY DEF ChannelInv, TypeInv
<1>2. UNCHANGED <<told, diedWith, identity>>
  BY DEF ServerStep, Transmit, Serve, Reject, Invoke, Finish, Die, Restart
<1>3. ASSUME UNCHANGED <<boot, ranIn>>, queued' \subseteq queued, Travelling' \subseteq Travelling,
             ~up' => wire' = {} /\ tasks' = {}
      PROVE  GhostInv'
  <2>1. \A c \in Calls : NoFrame(c) => NoFrame(c)'
    BY <1>3 DEF NoFrame
  <2> QED
    BY <1>2, <1>3, <2>1 DEF GhostInv, Abandoned
<1>4. ASSUME NEW f \in queued, Transmit(f) PROVE GhostInv'
  BY <1>3, <1>4 DEF Transmit, Travelling, GhostInv
<1>5. ASSUME NEW f \in wire, Serve(f) PROVE GhostInv'
  BY <1>3, <1>5 DEF Serve, Travelling, GhostInv
<1>6. ASSUME NEW f \in tasks, NEW kind, Answer(f, kind),
             UNCHANGED <<up, boot, ranIn, queued, wire>>
      PROVE  GhostInv'
  BY <1>3, <1>6 DEF Answer, Travelling, GhostInv
<1>7. ASSUME NEW f \in tasks, Reject(f) PROVE GhostInv'
  BY <1>6, <1>7 DEF Reject
<1>8. ASSUME NEW f \in tasks, NEW kind, Finish(f, kind) PROVE GhostInv'
  BY <1>6, <1>8 DEF Finish
<1>9. ASSUME NEW f \in tasks, Invoke(f) PROVE GhostInv'
  <2>1. f.call \in Calls /\ ~NoFrame(f.call)
    BY <1>1 DEF TypeOK, Frames, NoFrame, Travelling
  <2>2. /\ UNCHANGED <<boot, up, queued, wire, tasks>> /\ ranIn'[f.call] = boot
        /\ \A c \in Calls : c # f.call => ranIn'[c] = ranIn[c]
    BY <1>1, <1>9, <2>1 DEF Invoke, TypeOK
  <2>3. boot \in Nat /\ \A c \in Calls : diedWith[c] \in Nat
    BY <1>1, BootAssumption DEF TypeOK
  <2>4. diedWith[f.call] # 0 => boot <= diedWith[f.call]
    BY <2>1, <2>3 DEF GhostInv, Abandoned
  <2>5. ASSUME NEW c \in Calls, diedWith[c] # 0 PROVE Abandoned(c)'
    BY <1>2, <2>2, <2>4, <2>5 DEF GhostInv, Abandoned, NoFrame, Travelling
  <2> QED
    BY <1>2, <2>2, <2>3, <2>5 DEF GhostInv
<1>10. CASE Die
  BY <1>3, <1>10 DEF Die, Travelling
<1>11. CASE Restart
  <2>1. /\ wire = {} /\ tasks = {} /\ up' /\ boot' = boot + 1
        /\ UNCHANGED <<queued, wire, tasks, ranIn>>
    BY <1>11 DEF Restart, GhostInv
  <2>2. boot \in Nat /\ \A c \in Calls : diedWith[c] \in Nat /\ ranIn[c] \in Nat
    BY <1>1, BootAssumption DEF TypeOK
  <2>3. ASSUME NEW c \in Calls, diedWith[c] # 0 PROVE Abandoned(c)'
    BY <1>2, <2>1, <2>2, <2>3 DEF GhostInv, Abandoned, NoFrame, Travelling
  <2> QED
    BY <1>2, <2>1, <2>2, <2>3 DEF GhostInv
<1> QED
  BY <1>4, <1>5, <1>7, <1>8, <1>9, <1>10, <1>11 DEF ServerStep

LEMMA StepGhost == ChannelInv /\ GhostInv /\ [Next]_vars => GhostInv'
<1>1. ASSUME GhostInv, UNCHANGED vars PROVE GhostInv'
  BY <1>1 DEF vars, clientVars, serverVars, netVars, GhostInv, Abandoned, NoFrame, Travelling
<1> QED
  BY <1>1, ClientGhost, CallGhost, ServerGhost DEF Next, ServerStep

(* A request whose caller gave up is executed by the server it was sent to *)
(* or by none: none that trader_service starts later finds it.             *)
THEOREM NoGhost == Spec => []NoGhostRequest
<1>1. GhostInv => NoGhostRequest
  BY DEF GhostInv, Abandoned, NoGhostRequest
<1> QED
  BY <1>1, InitGhost, StepGhost, ChannelInvariance, PTL DEF Spec
=============================================================================
