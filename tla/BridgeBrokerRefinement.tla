----------------------- MODULE BridgeBrokerRefinement -----------------------
(***************************************************************************)
(* BridgeBroker implements BridgeCalls, for every value of the constants:  *)
(* whatever the primary broker does with sockets, timers and its listener, *)
(* a caller of request() sees a single browser session.                    *)
(***************************************************************************)
EXTENDS BridgeBrokerProofs

-----------------------------------------------------------------------------
(* What the mapping needs beyond IInv.                                     *)

\* A call that waits for a lifecycle operation waits for nothing else, and for
\* one operation only.
CallersInv ==
    \A i \in 1..Len(queue) :
        queue[i].by # None =>
            /\ pc[queue[i].by] = "starting"
            /\ \A j \in 1..Len(queue) : queue[j].by = queue[i].by => j = i

\* A call has no result before it is settled.
ResultInv == \A c \in Calls : ~Finished(c) => result[c] = "none"

\* Peers never become the bridge.
SessionInv == bridge \in Bridges \cup {None}

RInv == CallersInv /\ ResultInv /\ SessionInv

-----------------------------------------------------------------------------
(* The invariant.                                                          *)

\* Operations leave the queue at its head: the caller of a served one goes on,
\* the others still wait.
LEMMA ServeHead ==
    ASSUME TypeOK, CallersInv, queue # <<>>, queue' = Tail(queue),
           \/ UNCHANGED pc
           \/ \E next \in CallState : pc' = Resumed(Head(queue).by, next)
    PROVE  CallersInv'
<1> SUFFICES ASSUME NEW i \in 1..Len(queue'), queue'[i].by # None
             PROVE  /\ pc'[queue'[i].by] = "starting"
                    /\ \A j \in 1..Len(queue') : queue'[j].by = queue'[i].by => j = i
  BY DEF CallersInv
<1>1. /\ queue \in Seq(Operations) /\ Len(queue) \in Nat /\ Len(queue) > 0
      /\ pc \in [Calls -> CallState]
  BY DEF TypeOK
<1>2. Len(queue') = Len(queue) - 1 /\ \A j \in 1..Len(queue') : queue'[j] = queue[j + 1]
  BY <1>1
<1>3. i + 1 \in 1..Len(queue) /\ 1 \in 1..Len(queue) /\ Head(queue) = queue[1]
  BY <1>1, <1>2
<1>4. /\ pc[queue[i + 1].by] = "starting"
      /\ \A j \in 1..Len(queue) : queue[j].by = queue[i + 1].by => j = i + 1
  BY <1>2, <1>3 DEF CallersInv
<1>5. queue[i + 1].by # Head(queue).by /\ queue[i + 1].by \in Calls
  <2>1. queue[i + 1] \in Operations /\ queue[i + 1].by # None
    BY <1>1, <1>2, <1>3
  <2>2. 1 # i + 1
    BY <1>1, <1>2
  <2> QED
    BY <1>3, <1>4, <2>1, <2>2 DEF Operations
<1>6. pc'[queue[i + 1].by] = "starting"
  BY <1>1, <1>4, <1>5 DEF Resumed
<1>7. ASSUME NEW j \in 1..Len(queue'), queue'[j].by = queue'[i].by PROVE j = i
  <2>1. j + 1 \in 1..Len(queue) /\ queue[j + 1].by = queue[i + 1].by
    BY <1>1, <1>2, <1>7
  <2> QED
    BY <1>4, <2>1
<1> QED
  BY <1>2, <1>6, <1>7

\* A step that leaves the queue alone disturbs no waiting caller unless it moves
\* a call that is starting.
LEMMA CallersKept ==
    ASSUME TypeOK, CallersInv, UNCHANGED queue,
           \A c \in Calls : pc[c] = "starting" => pc'[c] = "starting"
    PROVE  CallersInv'
<1> SUFFICES ASSUME NEW i \in 1..Len(queue), queue[i].by # None
             PROVE  pc'[queue[i].by] = "starting"
  BY DEF CallersInv
<1>1. queue[i] \in Operations
  BY DEF TypeOK
<1> QED
  BY <1>1 DEF CallersInv, Operations

\* A new operation joins at the end, for a caller that was waiting for none.
LEMMA JoinQueue ==
    ASSUME TypeOK, CallersInv, NEW o \in Operations, queue' = Append(queue, o),
           \/ o.by = None /\ UNCHANGED pc
           \/ pc[o.by] = "idle" /\ pc' = [pc EXCEPT ![o.by] = "starting"]
    PROVE  CallersInv'
<1> SUFFICES ASSUME NEW i \in 1..Len(queue'), queue'[i].by # None
             PROVE  /\ pc'[queue'[i].by] = "starting"
                    /\ \A j \in 1..Len(queue') : queue'[j].by = queue'[i].by => j = i
  BY DEF CallersInv
<1>1. queue \in Seq(Operations) /\ Len(queue) \in Nat /\ pc \in [Calls -> CallState]
  BY DEF TypeOK
<1>2. /\ Len(queue') = Len(queue) + 1 /\ queue'[Len(queue) + 1] = o
      /\ \A j \in 1..Len(queue) : queue'[j] = queue[j] /\ queue[j] \in Operations
  BY <1>1
<1>3. \A j \in 1..Len(queue') : j = Len(queue) + 1 \/ j \in 1..Len(queue)
  BY <1>1, <1>2
<1>4. \A j \in 1..Len(queue) : queue[j].by # None =>
          queue[j].by # o.by /\ pc'[queue[j].by] = "starting"
  BY <1>1, <1>2 DEF CallersInv, Operations
<1>5. CASE i = Len(queue) + 1
  BY <1>1, <1>2, <1>3, <1>4, <1>5 DEF Operations
<1>6. CASE i \in 1..Len(queue)
  BY <1>1, <1>2, <1>3, <1>4, <1>6 DEF CallersInv
<1> QED
  BY <1>3, <1>5, <1>6

LEMMA CallersStep ==
    ASSUME TypeOK, QueueInv, CallersInv, [Next]_vars
    PROVE  CallersInv'
<1>1. TypeOK => pc \in [Calls -> CallState]
  BY DEF TypeOK
<1> USE <1>1 DEF lifecycleVars, socketVars, callVars
<1>2. ASSUME NEW s \in Sockets, Accept(s) PROVE CallersInv'
  BY <1>2, CallersKept DEF Accept
<1>3. ASSUME NEW s \in Sockets, SocketError(s) PROVE CallersInv'
  BY <1>3, CallersKept DEF SocketError, FailBridge, RejectPending
<1>4. ASSUME NEW s \in Sockets, SocketClosed(s) PROVE CallersInv'
  BY <1>4, CallersKept DEF SocketClosed, FailBridge, RejectPending
<1>5. ASSUME NEW s \in Bridges, Hello(s) PROVE CallersInv'
  BY <1>5, CallersKept DEF Hello, RejectPending
<1>6. ASSUME NEW s \in Bridges, Pong(s) PROVE CallersInv'
  BY <1>6, CallersKept DEF Pong
<1>7. ASSUME NEW s \in Bridges, GoSilent(s) PROVE CallersInv'
  BY <1>7, CallersKept DEF GoSilent
<1>8. ASSUME NEW p \in Peers, Probe(p) PROVE CallersInv'
  BY <1>8, CallersKept DEF Probe
<1>9. ASSUME NEW p \in Peers, NEW c \in Calls, PeerRequest(p, c) PROVE
       CallersInv'
  BY <1>9, CallersKept DEF PeerRequest, OpenRequest, Settle
<1>10. ASSUME HeartbeatTick PROVE CallersInv'
  BY <1>10, CallersKept DEF HeartbeatTick, FailBridge, RejectPending
<1>11. ASSUME NEW c \in Calls, EnsureListening(c) PROVE CallersInv'
  BY <1>11, JoinQueue DEF EnsureListening, Operations
<1>12. ASSUME NEW c \in Calls, AwaitBridge(c) PROVE CallersInv'
  BY <1>12, CallersKept DEF AwaitBridge
<1>13. ASSUME NEW c \in Calls, WaitExpired(c) PROVE CallersInv'
  BY <1>13, CallersKept DEF WaitExpired
<1>14. ASSUME NEW c \in Calls, CheckProbe(c) PROVE CallersInv'
  BY <1>14, CallersKept DEF CheckProbe, Settle
<1>15. ASSUME NEW c \in Calls, SendRequest(c) PROVE CallersInv'
  BY <1>15, CallersKept DEF SendRequest, OpenRequest, Settle
<1>16. ASSUME NEW c \in Calls, Response(c) PROVE CallersInv'
  BY <1>16, CallersKept DEF Response, Settle
<1>17. ASSUME NEW c \in Calls, Timeout(c) PROVE CallersInv'
  BY <1>17, CallersKept DEF Timeout, Settle
<1>18. ASSUME NEW c \in Calls, Abort(c) PROVE CallersInv'
  BY <1>18, CallersKept DEF Abort, Settle
<1>19. ASSUME NEW c \in Calls, AnswerPeer(c) PROVE CallersInv'
  BY <1>19, CallersKept DEF AnswerPeer
<1>20. ASSUME NEW k \in {"start", "stop"}, RequestOp(k) PROVE CallersInv'
  BY <1>20, JoinQueue DEF RequestOp, Operations
<1>21. ASSUME StartIsNoop PROVE CallersInv'
  BY <1>21, ServeHead DEF StartIsNoop, Turn, CallState
<1>22. ASSUME StartBegin PROVE CallersInv'
  BY <1>22, CallersKept DEF StartBegin
<1>23. ASSUME BindOk PROVE CallersInv'
  BY <1>23, ServeHead DEF BindOk, QueueInv, CallState
<1>24. ASSUME BindFail PROVE CallersInv'
  BY <1>24, ServeHead DEF BindFail, QueueInv, CallState
<1>25. ASSUME StopBegin PROVE CallersInv'
  BY <1>25, CallersKept DEF StopBegin, RejectPending
<1>26. ASSUME StopRetire PROVE CallersInv'
  BY <1>26, ServeHead, CallersKept DEF StopRetire, StopFinished, QueueInv
<1>27. ASSUME StopDone PROVE CallersInv'
  BY <1>27, ServeHead DEF StopDone, StopFinished, QueueInv
<1>28. ASSUME ListenerDies PROVE CallersInv'
  BY <1>28, CallersKept DEF ListenerDies
<1>29. CASE UNCHANGED vars
  BY <1>29, CallersKept DEF vars
<1> QED
  BY <1>2, <1>3, <1>4, <1>5, <1>6, <1>7, <1>8, <1>9, <1>10, <1>11, <1>12,
     <1>13, <1>14, <1>15, <1>16, <1>17, <1>18, <1>19, <1>20, <1>21, <1>22,
     <1>23, <1>24, <1>25, <1>26, <1>27, <1>28, <1>29
     DEF Next, SocketStep, CallStep, LifecycleStep

LEMMA HeadWaits ==
    ASSUME TypeOK, CallersInv, queue # <<>>, Head(queue).by \in Calls
    PROVE  pc[Head(queue).by] = "starting"
<1>1. 1 \in 1..Len(queue) /\ Head(queue) = queue[1]
  BY DEF TypeOK
<1>2. queue[1].by # None
  BY <1>1, SocketsAssumption
<1> QED
  BY <1>1, <1>2 DEF CallersInv

LEMMA ResultStep ==
    ASSUME TypeOK, QueueInv, CallersInv, ResultInv, [Next]_vars
    PROVE  ResultInv'
<1>1. pc \in [Calls -> CallState] /\ result \in [Calls -> Results]
  BY DEF TypeOK
<1>2. queue # <<>> /\ Head(queue).by \in Calls => pc[Head(queue).by] = "starting"
  BY HeadWaits
<1> USE <1>1 DEF ResultInv, Finished, lifecycleVars, socketVars, callVars
<1>3. ASSUME NEW s \in Sockets, Accept(s) PROVE ResultInv'
  BY <1>3 DEF Accept
<1>4. ASSUME NEW s \in Sockets, SocketError(s) PROVE ResultInv'
  BY <1>4 DEF SocketError, FailBridge, RejectPending
<1>5. ASSUME NEW s \in Sockets, SocketClosed(s) PROVE ResultInv'
  BY <1>5 DEF SocketClosed, FailBridge, RejectPending
<1>6. ASSUME NEW s \in Bridges, Hello(s) PROVE ResultInv'
  BY <1>6 DEF Hello, RejectPending
<1>7. ASSUME NEW s \in Bridges, Pong(s) PROVE ResultInv'
  BY <1>7 DEF Pong
<1>8. ASSUME NEW s \in Bridges, GoSilent(s) PROVE ResultInv'
  BY <1>8 DEF GoSilent
<1>9. ASSUME NEW p \in Peers, Probe(p) PROVE ResultInv'
  BY <1>9 DEF Probe
<1>10. ASSUME NEW p \in Peers, NEW c \in Calls, PeerRequest(p, c) PROVE
       ResultInv'
  BY <1>10 DEF PeerRequest, OpenRequest, Settle
<1>11. ASSUME HeartbeatTick PROVE ResultInv'
  BY <1>11 DEF HeartbeatTick, FailBridge, RejectPending
<1>12. ASSUME NEW c \in Calls, EnsureListening(c) PROVE ResultInv'
  BY <1>12 DEF EnsureListening
<1>13. ASSUME NEW c \in Calls, AwaitBridge(c) PROVE ResultInv'
  BY <1>13 DEF AwaitBridge
<1>14. ASSUME NEW c \in Calls, WaitExpired(c) PROVE ResultInv'
  BY <1>14 DEF WaitExpired
<1>15. ASSUME NEW c \in Calls, CheckProbe(c) PROVE ResultInv'
  BY <1>15 DEF CheckProbe, Settle
<1>16. ASSUME NEW c \in Calls, SendRequest(c) PROVE ResultInv'
  BY <1>16 DEF SendRequest, OpenRequest, Settle
<1>17. ASSUME NEW c \in Calls, Response(c) PROVE ResultInv'
  BY <1>17 DEF Response, Settle
<1>18. ASSUME NEW c \in Calls, Timeout(c) PROVE ResultInv'
  BY <1>18 DEF Timeout, Settle
<1>19. ASSUME NEW c \in Calls, Abort(c) PROVE ResultInv'
  BY <1>19 DEF Abort, Settle
<1>20. ASSUME NEW c \in Calls, AnswerPeer(c) PROVE ResultInv'
  BY <1>20 DEF AnswerPeer
<1>21. ASSUME NEW k \in {"start", "stop"}, RequestOp(k) PROVE ResultInv'
  BY <1>21 DEF RequestOp
<1>22. ASSUME StartIsNoop PROVE ResultInv'
  BY <1>22, <1>2 DEF StartIsNoop, Resumed, QueueInv, Turn
<1>23. ASSUME StartBegin PROVE ResultInv'
  BY <1>23 DEF StartBegin
<1>24. ASSUME BindOk PROVE ResultInv'
  BY <1>24, <1>2 DEF BindOk, Resumed, QueueInv
<1>25. ASSUME BindFail PROVE ResultInv'
  BY <1>25, <1>2 DEF BindFail, Resumed, QueueInv
<1>26. ASSUME StopBegin PROVE ResultInv'
  BY <1>26 DEF StopBegin, RejectPending
<1>27. ASSUME StopRetire PROVE ResultInv'
  BY <1>27 DEF StopRetire
<1>28. ASSUME StopDone PROVE ResultInv'
  BY <1>28 DEF StopDone
<1>29. ASSUME ListenerDies PROVE ResultInv'
  BY <1>29 DEF ListenerDies
<1>30. CASE UNCHANGED vars
  BY <1>30 DEF vars
<1> QED
  BY <1>3, <1>4, <1>5, <1>6, <1>7, <1>8, <1>9, <1>10, <1>11, <1>12, <1>13,
     <1>14, <1>15, <1>16, <1>17, <1>18, <1>19, <1>20, <1>21, <1>22, <1>23,
     <1>24, <1>25, <1>26, <1>27, <1>28, <1>29, <1>30
     DEF Next, SocketStep, CallStep, LifecycleStep

LEMMA SessionStep ==
    ASSUME SessionInv, [Next]_vars
    PROVE  SessionInv'
  BY DEF SessionInv, Next, SocketStep, CallStep, LifecycleStep, vars,
     lifecycleVars, socketVars, callVars, Accept, SocketError, SocketClosed,
     FailBridge, Hello, Pong, GoSilent, Probe, PeerRequest, HeartbeatTick,
     EnsureListening, AwaitBridge, WaitExpired, CheckProbe, SendRequest,
       Response,
     Timeout, Abort, AnswerPeer, RequestOp, StartIsNoop, StartBegin, BindOk,
     BindFail, StopBegin, StopRetire, StopDone, ListenerDies

\* A call gets its result once, and a finished lifecycle operation resumes the
\* call that waits for it and no other.
THEOREM MappingInvariance == Spec => [](IInv /\ RInv)
<1>1. Init => RInv
  BY DEF Init, RInv, CallersInv, ResultInv, SessionInv
<1>2. IInv /\ RInv /\ [Next]_vars => RInv'
  BY CallersStep, ResultStep, SessionStep DEF IInv, RInv
<1> QED
  BY <1>1, <1>2, Inductive, PTL DEF Spec

-----------------------------------------------------------------------------
(* The mapping.                                                            *)

\* Only these two facts of a step matter to an abstract step: what becomes of
\* the session, and of each call.
LEMMA MappedStutter ==
    ASSUME UNCHANGED <<bridge, result>>,
           \A c \in Calls : pc'[c] = "pending" <=> pc[c] = "pending"
    PROVE  UNCHANGED Promise!promiseVars
  BY DEF Promise!promiseVars, Outcome

\* RejectPending is what the abstract specification calls AllFail.
LEMMA MappedReject ==
    ASSUME TypeOK, NEW release \in BOOLEAN, RejectPending(release)
    PROVE  Outcome' = Promise!AllFail
<1>1. pc \in [Calls -> CallState] /\ result \in [Calls -> Results]
  BY DEF TypeOK
<1>2. Outcome' = [c \in Calls |-> IF Outcome[c] = "outstanding" THEN "failed" ELSE Outcome[c]]
  BY <1>1 DEF RejectPending, Outcome
<1> QED
  BY <1>2 DEF Promise!AllFail

\* With no request outstanding the abstract AllFail changes nothing.
LEMMA NothingToFail ==
    ASSUME \A c \in Calls : pc[c] # "pending"
    PROVE  Promise!AllFail = Outcome
  BY DEF Promise!AllFail, Outcome

LEMMA SocketIsSomebody == None \notin Sockets
  BY SocketsAssumption DEF Sockets

\* A loss of the bridge is the abstract loss of the session.
LEMMA MappedLoss ==
    ASSUME TypeOK, NEW s, FailBridge(s), s # None
    PROVE  [Promise!Next]_(Promise!promiseVars)
<1>1. CASE bridge = s
  <2>1. bridge # None /\ bridge' = None /\ Outcome' = Promise!AllFail
    BY <1>1, MappedReject DEF FailBridge
  <2> QED
    BY <2>1 DEF Promise!Next, Promise!Replace
<1>2. CASE bridge # s
  BY <1>2, MappedStutter DEF FailBridge
<1> QED
  BY <1>1, <1>2

\* A call that had no result yet is settled.
LEMMA MappedSettle ==
    ASSUME TypeOK, NEW c \in Calls, NEW outcome, UNCHANGED bridge,
           result[c] = "none" \/ pc[c] = "pending", Settle(c, outcome),
           \/ outcome \in {"disconnected", "timeout", "cancelled"}
           \/ outcome = "ok" /\ pc[c] = "pending" /\ bridge # None
    PROVE  Promise!Next
<1>1. pc \in [Calls -> CallState] /\ result \in [Calls -> Results]
  BY DEF TypeOK
<1>2. CASE outcome = "ok"
  <2>1. /\ Outcome[c] = "outstanding"
        /\ Outcome' = [Outcome EXCEPT ![c] = "answered"]
    BY <1>1, <1>2 DEF Settle, Outcome
  <2> QED
    BY <1>2, <2>1 DEF Promise!Next, Promise!Answer
<1>3. CASE outcome # "ok"
  <2>1. /\ Outcome[c] \in {"none", "outstanding"}
        /\ Outcome' = [Outcome EXCEPT ![c] = "failed"]
    BY <1>1, <1>3 DEF Settle, Outcome
  <2> QED
    BY <2>1 DEF Promise!Next, Promise!Fail
<1> QED
  BY <1>2, <1>3

\* A request is registered, or refused for want of a bridge.
LEMMA MappedOpen ==
    ASSUME TypeOK, NEW c \in Calls, UNCHANGED bridge, pc[c] # "pending",
           result[c] = "none", OpenRequest(c)
    PROVE  Promise!Next
<1>1. CASE Connected
  <2>1. Outcome[c] = "none" /\ Outcome' = [Outcome EXCEPT ![c] = "outstanding"]
    BY <1>1 DEF OpenRequest, Outcome, TypeOK
  <2> QED
    BY <1>1, <2>1 DEF Promise!Next, Promise!Open, Connected
<1>2. CASE ~Connected
  BY <1>2, MappedSettle DEF OpenRequest
<1> QED
  BY <1>1, <1>2

-----------------------------------------------------------------------------
(* Every step of the broker is a step of the promise, or none.             *)

LEMMA MappedStep ==
    ASSUME IInv, RInv, [Next]_vars
    PROVE  [Promise!Next]_(Promise!promiseVars)
<1>1. TypeOK /\ QueueInv /\ PendingOnBridge /\ bridge \in Bridges \cup {None}
  BY DEF IInv, RInv, SessionInv
<1>2. pc \in [Calls -> CallState] /\ result \in [Calls -> Results]
  BY <1>1 DEF TypeOK
<1>3. \A c \in Calls : pc[c] = "pending" => Connected
  BY <1>1 DEF PendingOnBridge, Pending
<1>4. \A c \in Calls : ~Finished(c) => result[c] = "none"
  BY DEF RInv, ResultInv
<1>5. queue # <<>> /\ Head(queue).by \in Calls => pc[Head(queue).by] = "starting"
  BY HeadWaits DEF IInv, RInv
<1> USE <1>2 DEF lifecycleVars, socketVars, callVars
<1>6. ASSUME NEW s \in Sockets, Accept(s)
      PROVE  [Promise!Next]_(Promise!promiseVars)
  BY <1>6, MappedStutter DEF Accept
<1>7. ASSUME NEW s \in Sockets, SocketError(s)
      PROVE  [Promise!Next]_(Promise!promiseVars)
  BY <1>7, <1>1, MappedLoss, SocketIsSomebody DEF SocketError
<1>8. ASSUME NEW s \in Sockets, SocketClosed(s)
      PROVE  [Promise!Next]_(Promise!promiseVars)
  BY <1>8, <1>1, MappedLoss, SocketIsSomebody DEF SocketClosed
<1>9. ASSUME NEW s \in Bridges, Hello(s)
      PROVE  [Promise!Next]_(Promise!promiseVars)
  <2>1. s # None
    BY SocketsAssumption
  <2>2. CASE bridge = s
    BY <1>9, <2>1, <2>2, MappedStutter DEF Hello, Connected
  <2>3. CASE bridge # s /\ Connected
    <3>1. bridge' = s /\ Outcome' = Promise!AllFail
      BY <1>9, <1>1, <2>3, MappedReject DEF Hello
    <3> QED
      BY <2>3, <3>1 DEF Promise!Next, Promise!Replace
  <2>4. CASE ~Connected
    <3>1. Promise!AllFail = Outcome
      BY <1>3, <2>4, NothingToFail
    <3>2. bridge' = s /\ bridge # s /\ Outcome' = Outcome
      BY <1>9, <2>1, <2>4 DEF Hello, Connected, Outcome
    <3> QED
      BY <3>1, <3>2 DEF Promise!Next, Promise!Replace
  <2> QED
    BY <2>2, <2>3, <2>4
<1>10. ASSUME NEW s \in Bridges, Pong(s)
      PROVE  [Promise!Next]_(Promise!promiseVars)
  BY <1>10, MappedStutter DEF Pong
<1>11. ASSUME NEW s \in Bridges, GoSilent(s)
      PROVE  [Promise!Next]_(Promise!promiseVars)
  BY <1>11, MappedStutter DEF GoSilent
<1>12. ASSUME NEW p \in Peers, Probe(p)
      PROVE  [Promise!Next]_(Promise!promiseVars)
  BY <1>12, MappedStutter DEF Probe
<1>13. ASSUME NEW p \in Peers, NEW c \in Calls, PeerRequest(p, c)
      PROVE  [Promise!Next]_(Promise!promiseVars)
  BY <1>13, <1>1, <1>4, MappedOpen DEF PeerRequest, Finished
<1>14. ASSUME HeartbeatTick
      PROVE  [Promise!Next]_(Promise!promiseVars)
  <2>1. CASE alive[bridge]
    BY <1>14, <2>1, MappedStutter DEF HeartbeatTick
  <2>2. CASE ~alive[bridge]
    BY <1>14, <1>1, <2>2, MappedLoss DEF HeartbeatTick, Connected
  <2> QED
    BY <2>1, <2>2
<1>15. ASSUME NEW c \in Calls, EnsureListening(c)
      PROVE  [Promise!Next]_(Promise!promiseVars)
  BY <1>15, MappedStutter DEF EnsureListening
<1>16. ASSUME NEW c \in Calls, AwaitBridge(c)
      PROVE  [Promise!Next]_(Promise!promiseVars)
  BY <1>16, MappedStutter DEF AwaitBridge
<1>17. ASSUME NEW c \in Calls, WaitExpired(c)
      PROVE  [Promise!Next]_(Promise!promiseVars)
  BY <1>17, MappedStutter DEF WaitExpired
<1>18. ASSUME NEW c \in Calls, CheckProbe(c)
      PROVE  [Promise!Next]_(Promise!promiseVars)
  <2>1. CASE aborted[c] \/ ~(server /\ listening /\ Connected)
    BY <1>18, <1>1, <1>4, <2>1, MappedSettle DEF CheckProbe, Finished
  <2>2. CASE ~aborted[c] /\ server /\ listening /\ Connected
    BY <1>18, <2>2, MappedStutter DEF CheckProbe
  <2> QED
    BY <2>1, <2>2
<1>19. ASSUME NEW c \in Calls, SendRequest(c)
      PROVE  [Promise!Next]_(Promise!promiseVars)
  <2>1. CASE aborted[c]
    BY <1>19, <1>1, <1>4, <2>1, MappedSettle DEF SendRequest, Finished
  <2>2. CASE ~aborted[c]
    BY <1>19, <1>1, <1>4, <2>2, MappedOpen DEF SendRequest, Finished
  <2> QED
    BY <2>1, <2>2
<1>20. ASSUME NEW c \in Calls, Response(c)
      PROVE  [Promise!Next]_(Promise!promiseVars)
  BY <1>20, <1>1, <1>3, MappedSettle DEF Response, Connected
<1>21. ASSUME NEW c \in Calls, Timeout(c)
      PROVE  [Promise!Next]_(Promise!promiseVars)
  BY <1>21, <1>1, MappedSettle DEF Timeout
<1>22. ASSUME NEW c \in Calls, Abort(c)
      PROVE  [Promise!Next]_(Promise!promiseVars)
  <2>1. CASE pc[c] = "pending"
    BY <1>22, <1>1, <2>1, MappedSettle DEF Abort
  <2>2. CASE pc[c] # "pending"
    BY <1>22, <2>2, MappedStutter DEF Abort
  <2> QED
    BY <2>1, <2>2
<1>23. ASSUME NEW c \in Calls, AnswerPeer(c)
      PROVE  [Promise!Next]_(Promise!promiseVars)
  BY <1>23, MappedStutter DEF AnswerPeer
<1>24. ASSUME NEW k \in {"start", "stop"}, RequestOp(k)
      PROVE  [Promise!Next]_(Promise!promiseVars)
  BY <1>24, MappedStutter DEF RequestOp
<1>25. ASSUME StartIsNoop
      PROVE  [Promise!Next]_(Promise!promiseVars)
  BY <1>25, <1>5, MappedStutter DEF StartIsNoop, Turn, Resumed
<1>26. ASSUME StartBegin
      PROVE  [Promise!Next]_(Promise!promiseVars)
  BY <1>26, MappedStutter DEF StartBegin
<1>27. ASSUME BindOk
      PROVE  [Promise!Next]_(Promise!promiseVars)
  BY <1>27, <1>1, <1>5, MappedStutter DEF BindOk, Resumed, QueueInv
<1>28. ASSUME BindFail
      PROVE  [Promise!Next]_(Promise!promiseVars)
  BY <1>28, <1>1, <1>5, MappedStutter DEF BindFail, Resumed, QueueInv
<1>29. ASSUME StopBegin
      PROVE  [Promise!Next]_(Promise!promiseVars)
  <2>1. bridge' = None /\ Outcome' = Promise!AllFail
    BY <1>29, <1>1, MappedReject DEF StopBegin
  <2>2. CASE Connected
    BY <2>1, <2>2 DEF Promise!Next, Promise!Replace, Connected
  <2>3. CASE ~Connected
    BY <1>3, <2>1, <2>3, NothingToFail DEF Promise!promiseVars, Connected
  <2> QED
    BY <2>2, <2>3
<1>30. ASSUME StopRetire
      PROVE  [Promise!Next]_(Promise!promiseVars)
  BY <1>30, MappedStutter DEF StopRetire
<1>31. ASSUME StopDone
      PROVE  [Promise!Next]_(Promise!promiseVars)
  BY <1>31, MappedStutter DEF StopDone
<1>32. ASSUME ListenerDies
      PROVE  [Promise!Next]_(Promise!promiseVars)
  BY <1>32, MappedStutter DEF ListenerDies
<1>33. CASE UNCHANGED vars
  BY <1>33, MappedStutter DEF vars
<1> QED
  BY <1>6, <1>7, <1>8, <1>9, <1>10, <1>11, <1>12, <1>13, <1>14, <1>15,
     <1>16, <1>17, <1>18, <1>19, <1>20, <1>21, <1>22, <1>23, <1>24, <1>25,
     <1>26, <1>27, <1>28, <1>29, <1>30, <1>31, <1>32, <1>33
     DEF Next, SocketStep, CallStep, LifecycleStep

\* Whatever the primary broker does, a caller of request() sees the promise of
\* BridgeCalls kept: one browser session, whose loss or replacement fails at once
\* every request outstanding on it, and each call ends once.
THEOREM PromiseIsKept == Spec => PromiseKept
<1>1. Init => Promise!Init
  BY DEF Init, Promise!Init, Outcome
<1>2. IInv /\ RInv /\ [Next]_vars => [Promise!Next]_(Promise!promiseVars)
  BY MappedStep
<1> QED
  BY <1>1, <1>2, MappingInvariance, PTL DEF Spec, PromiseKept, Promise!Spec
=============================================================================
