------------------------ MODULE BridgeBrokerProofs ------------------------
(***************************************************************************)
(* Theorems about BridgeBroker, for every value of its constants.          *)
(***************************************************************************)
EXTENDS BridgeBroker, TLAPS

-----------------------------------------------------------------------------
(* The inductive invariant.                                                *)

\* A suspended operation is the head of the queue.
QueueInv == op # "idle" => queue # <<>>

\* The listener and its heartbeat live and die with this.server.
ListenerInv ==
    /\ listening => server
    /\ pingTimer => server
    /\ op = "binding" => ~server /\ ~stopped
    /\ op \in {"closing", "draining"} => ~pingTimer

\* What stop() has left to retire, where it is suspended.
StopInv ==
    /\ op = "closing" /\ ~listening => retiring = Tracked
    /\ op = "draining" => ~server

\* An aborted call has begun, and it does not block.
AbortInv == \A c \in Calls : aborted[c] => pc[c] \notin {"idle", "parked", "pending"}

IInv ==
    /\ TypeOK
    /\ QueueInv
    /\ ListenerInv
    /\ StopInv
    /\ PendingOnBridge
    /\ BridgeIsTracked
    /\ StopIsFinal
    /\ PeersKnowBridge
    /\ AbortInv

USE SocketsAssumption

-----------------------------------------------------------------------------
(* Type correctness.                                                       *)

LEMMA TypeInit == Init => TypeOK /\ QueueInv
<1> SUFFICES ASSUME Init PROVE TypeOK /\ QueueInv
  OBVIOUS
<1> USE DEF Init, Sockets
<1>1. queue \in Seq(Operations)
  OBVIOUS
<1>2. retiring \in SUBSET Tracked
  BY DEF Tracked
<1>3. /\ sock \in [Sockets -> SockState]
      /\ silent \in [Sockets -> BOOLEAN]
      /\ alive \in [Sockets -> BOOLEAN]
  BY DEF SockState
<1>4. pc \in [Calls -> CallState] /\ result \in [Calls -> Results]
  BY DEF CallState, Results
<1>5. QueueInv
  BY DEF QueueInv
<1> QED
  BY <1>1, <1>2, <1>3, <1>4, <1>5 DEF TypeOK

LEMMA TypeStep ==
    ASSUME TypeOK, QueueInv, [Next]_vars
    PROVE  TypeOK' /\ QueueInv'
<1> USE DEF TypeOK, QueueInv, SockState, CallState, Results, Operations,
     Tracked, Sockets, lifecycleVars, socketVars, callVars
<1>1. ASSUME NEW s \in Sockets, Accept(s) PROVE TypeOK' /\ QueueInv'
  BY <1>1 DEF Accept
<1>2. ASSUME NEW s \in Sockets, SocketError(s) PROVE TypeOK' /\ QueueInv'
  BY <1>2 DEF SocketError, FailBridge, RejectPending, PushToPeers
<1>3. ASSUME NEW s \in Sockets, SocketClosed(s) PROVE TypeOK' /\ QueueInv'
  BY <1>3 DEF SocketClosed, FailBridge, RejectPending, PushToPeers
<1>4. ASSUME NEW s \in Bridges, Hello(s) PROVE TypeOK' /\ QueueInv'
  BY <1>4 DEF Hello, RejectPending, PushToPeers, Connected, Readable
<1>5. ASSUME NEW s \in Bridges, Pong(s) PROVE TypeOK' /\ QueueInv'
  BY <1>5 DEF Pong
<1>6. ASSUME NEW s \in Bridges, GoSilent(s) PROVE TypeOK' /\ QueueInv'
  BY <1>6 DEF GoSilent
<1>7. ASSUME NEW p \in Peers, Probe(p) PROVE TypeOK' /\ QueueInv'
  BY <1>7 DEF Probe, BridgeState, Connected
<1>8. ASSUME NEW p \in Peers, NEW c \in Calls, PeerRequest(p, c) PROVE TypeOK' /\ QueueInv'
  BY <1>8 DEF PeerRequest, OpenRequest, Settle, Connected
<1>9. ASSUME HeartbeatTick PROVE TypeOK' /\ QueueInv'
  <2>1. CASE alive[bridge]
    BY <1>9, <2>1 DEF HeartbeatTick, Connected
  <2>2. CASE ~alive[bridge]
    <3>1. bridge' = None /\ RejectPending(FALSE) /\ PushToPeers("down")
      BY <1>9, <2>2 DEF HeartbeatTick, FailBridge
    <3> QED
      BY <1>9, <2>2, <3>1 DEF HeartbeatTick, Connected, RejectPending, PushToPeers
  <2> QED
    BY <2>1, <2>2
<1>10. ASSUME NEW c \in Calls, EnsureListening(c) PROVE TypeOK' /\ QueueInv'
  <2>1. [op |-> "start", by |-> c] \in Operations
    OBVIOUS
  <2>2. queue' = Append(queue, [op |-> "start", by |-> c]) /\ queue \in Seq(Operations)
    BY <1>10 DEF EnsureListening
  <2>3. queue' \in Seq(Operations) /\ queue' # <<>>
    BY <2>1, <2>2
  <2> QED
    BY <1>10, <2>3 DEF EnsureListening
<1>11. ASSUME NEW c \in Calls, AwaitBridge(c) PROVE TypeOK' /\ QueueInv'
  BY <1>11 DEF AwaitBridge, Connected
<1>12. ASSUME NEW c \in Calls, WaitExpired(c) PROVE TypeOK' /\ QueueInv'
  BY <1>12 DEF WaitExpired
<1>13. ASSUME NEW c \in Calls, CheckProbe(c) PROVE TypeOK' /\ QueueInv'
  BY <1>13 DEF CheckProbe, Settle, Connected
<1>14. ASSUME NEW c \in Calls, SendRequest(c) PROVE TypeOK' /\ QueueInv'
  BY <1>14 DEF SendRequest, OpenRequest, Settle, Connected
<1>15. ASSUME NEW c \in Calls, Response(c) PROVE TypeOK' /\ QueueInv'
  BY <1>15 DEF Response, Settle, Readable
<1>16. ASSUME NEW c \in Calls, Timeout(c) PROVE TypeOK' /\ QueueInv'
  BY <1>16 DEF Timeout, Settle
<1>17. ASSUME NEW c \in Calls, Abort(c) PROVE TypeOK' /\ QueueInv'
  BY <1>17 DEF Abort, Settle, Finished
<1>18. ASSUME NEW c \in Calls, AnswerPeer(c) PROVE TypeOK' /\ QueueInv'
  BY <1>18 DEF AnswerPeer
<1>19. ASSUME NEW k \in {"start", "stop"}, RequestOp(k) PROVE TypeOK' /\ QueueInv'
  BY <1>19 DEF RequestOp
<1>20. ASSUME StartIsNoop PROVE TypeOK' /\ QueueInv'
  BY <1>20 DEF StartIsNoop, Turn, Resumed
<1>21. ASSUME StartBegin PROVE TypeOK' /\ QueueInv'
  BY <1>21 DEF StartBegin, Turn
<1>22. ASSUME BindOk PROVE TypeOK' /\ QueueInv'
  BY <1>22 DEF BindOk, Resumed
<1>23. ASSUME BindFail PROVE TypeOK' /\ QueueInv'
  BY <1>23 DEF BindFail, Resumed
<1>24. ASSUME StopBegin PROVE TypeOK' /\ QueueInv'
  BY <1>24 DEF StopBegin, Turn, RejectPending
<1>25. ASSUME StopRetire PROVE TypeOK' /\ QueueInv'
  <2>1. sock' \in [Sockets -> SockState]
    BY <1>25 DEF StopRetire
  <2>2. /\ queue' \in Seq(Operations) /\ (op' # "idle" => queue' # <<>>)
        /\ op' \in {"idle", "draining"} /\ stopped' \in BOOLEAN
    <3>1. CASE server
      BY <1>25, <3>1 DEF StopRetire
    <3>2. CASE ~server
      <4>1. queue # <<>>
        BY <1>25 DEF StopRetire
      <4>2. op' = "idle" /\ queue' = Tail(queue) /\ stopped' = TRUE
        BY <1>25, <3>2 DEF StopRetire, StopFinished
      <4> QED
        BY <4>1, <4>2
    <3> QED
      BY <3>1, <3>2
  <2> QED
    BY <1>25, <2>1, <2>2 DEF StopRetire
<1>26. ASSUME StopDone PROVE TypeOK' /\ QueueInv'
  BY <1>26 DEF StopDone, StopFinished
<1>27. ASSUME ListenerDies PROVE TypeOK' /\ QueueInv'
  BY <1>27 DEF ListenerDies
<1>28. CASE UNCHANGED vars
  BY <1>28 DEF vars
<1> QED
  BY <1>1, <1>2, <1>3, <1>4, <1>5, <1>6, <1>7, <1>8, <1>9, <1>10, <1>11,
       <1>12, <1>13, <1>14, <1>15, <1>16, <1>17, <1>18, <1>19, <1>20, <1>21,
       <1>22, <1>23, <1>24, <1>25, <1>26, <1>27, <1>28 DEF Next, SocketStep,
       CallStep, LifecycleStep

-----------------------------------------------------------------------------
(* The parts of the invariant, one lemma for each.                         *)

LEMMA ListenerStep ==
    ASSUME TypeOK, QueueInv, ListenerInv, StopInv, [Next]_vars
    PROVE  ListenerInv' /\ StopInv'
<1> USE DEF TypeOK, ListenerInv, StopInv, Tracked, Sockets, lifecycleVars,
     socketVars, callVars
<1>1. ASSUME NEW s \in Sockets, Accept(s) PROVE ListenerInv' /\ StopInv'
  BY <1>1 DEF Accept
<1>2. ASSUME NEW s \in Sockets, SocketError(s) PROVE ListenerInv' /\ StopInv'
  <2>1. UNCHANGED lifecycleVars /\ Tracked' = Tracked
    BY <1>2 DEF SocketError, Readable
  <2> QED
    BY <2>1
<1>3. ASSUME NEW s \in Sockets, SocketClosed(s) PROVE ListenerInv' /\ StopInv'
  BY <1>3 DEF SocketClosed, FailBridge, RejectPending, PushToPeers
<1>4. ASSUME NEW s \in Bridges, Hello(s) PROVE ListenerInv' /\ StopInv'
  BY <1>4 DEF Hello, RejectPending, PushToPeers, Connected, Readable
<1>5. ASSUME NEW s \in Bridges, Pong(s) PROVE ListenerInv' /\ StopInv'
  BY <1>5 DEF Pong
<1>6. ASSUME NEW s \in Bridges, GoSilent(s) PROVE ListenerInv' /\ StopInv'
  BY <1>6 DEF GoSilent
<1>7. ASSUME NEW p \in Peers, Probe(p) PROVE ListenerInv' /\ StopInv'
  BY <1>7 DEF Probe, BridgeState, Connected
<1>8. ASSUME NEW p \in Peers, NEW c \in Calls, PeerRequest(p, c) PROVE ListenerInv' /\ StopInv'
  BY <1>8 DEF PeerRequest, OpenRequest, Settle, Connected
<1>9. ASSUME HeartbeatTick PROVE ListenerInv' /\ StopInv'
  BY <1>9 DEF HeartbeatTick, FailBridge, RejectPending, PushToPeers, Connected
<1>10. ASSUME NEW c \in Calls, EnsureListening(c) PROVE ListenerInv' /\ StopInv'
  BY <1>10 DEF EnsureListening
<1>11. ASSUME NEW c \in Calls, AwaitBridge(c) PROVE ListenerInv' /\ StopInv'
  BY <1>11 DEF AwaitBridge, Connected
<1>12. ASSUME NEW c \in Calls, WaitExpired(c) PROVE ListenerInv' /\ StopInv'
  BY <1>12 DEF WaitExpired
<1>13. ASSUME NEW c \in Calls, CheckProbe(c) PROVE ListenerInv' /\ StopInv'
  BY <1>13 DEF CheckProbe, Settle, Connected
<1>14. ASSUME NEW c \in Calls, SendRequest(c) PROVE ListenerInv' /\ StopInv'
  BY <1>14 DEF SendRequest, OpenRequest, Settle, Connected
<1>15. ASSUME NEW c \in Calls, Response(c) PROVE ListenerInv' /\ StopInv'
  BY <1>15 DEF Response, Settle, Readable
<1>16. ASSUME NEW c \in Calls, Timeout(c) PROVE ListenerInv' /\ StopInv'
  BY <1>16 DEF Timeout, Settle
<1>17. ASSUME NEW c \in Calls, Abort(c) PROVE ListenerInv' /\ StopInv'
  BY <1>17 DEF Abort, Settle, Finished
<1>18. ASSUME NEW c \in Calls, AnswerPeer(c) PROVE ListenerInv' /\ StopInv'
  BY <1>18 DEF AnswerPeer
<1>19. ASSUME NEW k \in {"start", "stop"}, RequestOp(k) PROVE ListenerInv' /\ StopInv'
  BY <1>19 DEF RequestOp
<1>20. ASSUME StartIsNoop PROVE ListenerInv' /\ StopInv'
  BY <1>20 DEF StartIsNoop, Turn, Resumed
<1>21. ASSUME StartBegin PROVE ListenerInv' /\ StopInv'
  BY <1>21 DEF StartBegin, Turn
<1>22. ASSUME BindOk PROVE ListenerInv' /\ StopInv'
  BY <1>22 DEF BindOk, Resumed
<1>23. ASSUME BindFail PROVE ListenerInv' /\ StopInv'
  BY <1>23 DEF BindFail, Resumed
<1>24. ASSUME StopBegin PROVE ListenerInv' /\ StopInv'
  BY <1>24 DEF StopBegin, Turn, RejectPending
<1>25. ASSUME StopRetire PROVE ListenerInv' /\ StopInv'
  BY <1>25 DEF StopRetire, StopFinished
<1>26. ASSUME StopDone PROVE ListenerInv' /\ StopInv'
  BY <1>26 DEF StopDone, StopFinished
<1>27. ASSUME ListenerDies PROVE ListenerInv' /\ StopInv'
  BY <1>27 DEF ListenerDies
<1>28. CASE UNCHANGED vars
  BY <1>28 DEF vars
<1> QED
  BY <1>1, <1>2, <1>3, <1>4, <1>5, <1>6, <1>7, <1>8, <1>9, <1>10, <1>11,
       <1>12, <1>13, <1>14, <1>15, <1>16, <1>17, <1>18, <1>19, <1>20, <1>21,
       <1>22, <1>23, <1>24, <1>25, <1>26, <1>27, <1>28 DEF Next, SocketStep,
       CallStep, LifecycleStep

LEMMA PendingStep ==
    ASSUME TypeOK, PendingOnBridge, BridgeIsTracked, [Next]_vars
    PROVE  PendingOnBridge' /\ BridgeIsTracked'
<1> USE DEF TypeOK, PendingOnBridge, BridgeIsTracked, Tracked, Sockets,
     Pending, Connected, lifecycleVars, socketVars, callVars
<1>1. ASSUME NEW s \in Sockets, Accept(s) PROVE PendingOnBridge' /\ BridgeIsTracked'
  BY <1>1 DEF Accept
<1>2. ASSUME NEW s \in Sockets, SocketError(s) PROVE PendingOnBridge' /\ BridgeIsTracked'
  BY <1>2 DEF SocketError, FailBridge, RejectPending, PushToPeers
<1>3. ASSUME NEW s \in Sockets, SocketClosed(s) PROVE PendingOnBridge' /\ BridgeIsTracked'
  BY <1>3 DEF SocketClosed, FailBridge, RejectPending, PushToPeers
<1>4. ASSUME NEW s \in Bridges, Hello(s) PROVE PendingOnBridge' /\ BridgeIsTracked'
  BY <1>4 DEF Hello, RejectPending, PushToPeers, Readable
<1>5. ASSUME NEW s \in Bridges, Pong(s) PROVE PendingOnBridge' /\ BridgeIsTracked'
  BY <1>5 DEF Pong
<1>6. ASSUME NEW s \in Bridges, GoSilent(s) PROVE PendingOnBridge' /\ BridgeIsTracked'
  BY <1>6 DEF GoSilent
<1>7. ASSUME NEW p \in Peers, Probe(p) PROVE PendingOnBridge' /\ BridgeIsTracked'
  BY <1>7 DEF Probe, BridgeState
<1>8. ASSUME NEW p \in Peers, NEW c \in Calls, PeerRequest(p, c) PROVE PendingOnBridge' /\ BridgeIsTracked'
  BY <1>8 DEF PeerRequest, OpenRequest, Settle
<1>9. ASSUME HeartbeatTick PROVE PendingOnBridge' /\ BridgeIsTracked'
  BY <1>9 DEF HeartbeatTick, FailBridge, RejectPending, PushToPeers
<1>10. ASSUME NEW c \in Calls, EnsureListening(c) PROVE PendingOnBridge' /\ BridgeIsTracked'
  BY <1>10 DEF EnsureListening
<1>11. ASSUME NEW c \in Calls, AwaitBridge(c) PROVE PendingOnBridge' /\ BridgeIsTracked'
  BY <1>11 DEF AwaitBridge
<1>12. ASSUME NEW c \in Calls, WaitExpired(c) PROVE PendingOnBridge' /\ BridgeIsTracked'
  BY <1>12 DEF WaitExpired
<1>13. ASSUME NEW c \in Calls, CheckProbe(c) PROVE PendingOnBridge' /\ BridgeIsTracked'
  BY <1>13 DEF CheckProbe, Settle
<1>14. ASSUME NEW c \in Calls, SendRequest(c) PROVE PendingOnBridge' /\ BridgeIsTracked'
  BY <1>14 DEF SendRequest, OpenRequest, Settle
<1>15. ASSUME NEW c \in Calls, Response(c) PROVE PendingOnBridge' /\ BridgeIsTracked'
  BY <1>15 DEF Response, Settle, Readable
<1>16. ASSUME NEW c \in Calls, Timeout(c) PROVE PendingOnBridge' /\ BridgeIsTracked'
  BY <1>16 DEF Timeout, Settle
<1>17. ASSUME NEW c \in Calls, Abort(c) PROVE PendingOnBridge' /\ BridgeIsTracked'
  BY <1>17 DEF Abort, Settle, Finished
<1>18. ASSUME NEW c \in Calls, AnswerPeer(c) PROVE PendingOnBridge' /\ BridgeIsTracked'
  BY <1>18 DEF AnswerPeer
<1>19. ASSUME NEW k \in {"start", "stop"}, RequestOp(k) PROVE PendingOnBridge' /\ BridgeIsTracked'
  BY <1>19 DEF RequestOp
<1>20. ASSUME StartIsNoop PROVE PendingOnBridge' /\ BridgeIsTracked'
  BY <1>20 DEF StartIsNoop, Turn, Resumed
<1>21. ASSUME StartBegin PROVE PendingOnBridge' /\ BridgeIsTracked'
  BY <1>21 DEF StartBegin, Turn
<1>22. ASSUME BindOk PROVE PendingOnBridge' /\ BridgeIsTracked'
  BY <1>22 DEF BindOk, Resumed
<1>23. ASSUME BindFail PROVE PendingOnBridge' /\ BridgeIsTracked'
  BY <1>23 DEF BindFail, Resumed
<1>24. ASSUME StopBegin PROVE PendingOnBridge' /\ BridgeIsTracked'
  BY <1>24 DEF StopBegin, Turn, RejectPending
<1>25. ASSUME StopRetire PROVE PendingOnBridge' /\ BridgeIsTracked'
  BY <1>25 DEF StopRetire, StopFinished
<1>26. ASSUME StopDone PROVE PendingOnBridge' /\ BridgeIsTracked'
  BY <1>26 DEF StopDone, StopFinished
<1>27. ASSUME ListenerDies PROVE PendingOnBridge' /\ BridgeIsTracked'
  BY <1>27 DEF ListenerDies
<1>28. CASE UNCHANGED vars
  BY <1>28 DEF vars
<1> QED
  BY <1>1, <1>2, <1>3, <1>4, <1>5, <1>6, <1>7, <1>8, <1>9, <1>10, <1>11,
       <1>12, <1>13, <1>14, <1>15, <1>16, <1>17, <1>18, <1>19, <1>20, <1>21,
       <1>22, <1>23, <1>24, <1>25, <1>26, <1>27, <1>28 DEF Next, SocketStep,
       CallStep, LifecycleStep

LEMMA StopStep ==
    ASSUME IInv, [Next]_vars
    PROVE  StopIsFinal'
<1> USE DEF IInv, TypeOK, ListenerInv, StopInv, StopIsFinal, PendingOnBridge,
     BridgeIsTracked, Tracked, Sockets, Pending, Connected, Readable,
     lifecycleVars, socketVars, callVars
<1>1. ASSUME NEW s \in Sockets, Accept(s) PROVE StopIsFinal'
  BY <1>1 DEF Accept
<1>2. ASSUME NEW s \in Sockets, SocketError(s) PROVE StopIsFinal'
  BY <1>2 DEF SocketError, FailBridge, RejectPending, PushToPeers
<1>3. ASSUME NEW s \in Sockets, SocketClosed(s) PROVE StopIsFinal'
  BY <1>3 DEF SocketClosed, FailBridge, RejectPending, PushToPeers
<1>4. ASSUME NEW s \in Bridges, Hello(s) PROVE StopIsFinal'
  BY <1>4 DEF Hello, RejectPending, PushToPeers
<1>5. ASSUME NEW s \in Bridges, Pong(s) PROVE StopIsFinal'
  BY <1>5 DEF Pong
<1>6. ASSUME NEW s \in Bridges, GoSilent(s) PROVE StopIsFinal'
  BY <1>6 DEF GoSilent
<1>7. ASSUME NEW p \in Peers, Probe(p) PROVE StopIsFinal'
  BY <1>7 DEF Probe, BridgeState
<1>8. ASSUME NEW p \in Peers, NEW c \in Calls, PeerRequest(p, c) PROVE StopIsFinal'
  BY <1>8 DEF PeerRequest, OpenRequest, Settle
<1>9. ASSUME HeartbeatTick PROVE StopIsFinal'
  BY <1>9 DEF HeartbeatTick, FailBridge, RejectPending, PushToPeers
<1>10. ASSUME NEW c \in Calls, EnsureListening(c) PROVE StopIsFinal'
  BY <1>10 DEF EnsureListening
<1>11. ASSUME NEW c \in Calls, AwaitBridge(c) PROVE StopIsFinal'
  BY <1>11 DEF AwaitBridge
<1>12. ASSUME NEW c \in Calls, WaitExpired(c) PROVE StopIsFinal'
  BY <1>12 DEF WaitExpired
<1>13. ASSUME NEW c \in Calls, CheckProbe(c) PROVE StopIsFinal'
  BY <1>13 DEF CheckProbe, Settle
<1>14. ASSUME NEW c \in Calls, SendRequest(c) PROVE StopIsFinal'
  BY <1>14 DEF SendRequest, OpenRequest, Settle
<1>15. ASSUME NEW c \in Calls, Response(c) PROVE StopIsFinal'
  BY <1>15 DEF Response, Settle
<1>16. ASSUME NEW c \in Calls, Timeout(c) PROVE StopIsFinal'
  BY <1>16 DEF Timeout, Settle
<1>17. ASSUME NEW c \in Calls, Abort(c) PROVE StopIsFinal'
  BY <1>17 DEF Abort, Settle, Finished
<1>18. ASSUME NEW c \in Calls, AnswerPeer(c) PROVE StopIsFinal'
  BY <1>18 DEF AnswerPeer
<1>19. ASSUME NEW k \in {"start", "stop"}, RequestOp(k) PROVE StopIsFinal'
  BY <1>19 DEF RequestOp
<1>20. ASSUME StartIsNoop PROVE StopIsFinal'
  BY <1>20 DEF StartIsNoop, Turn, Resumed
<1>21. ASSUME StartBegin PROVE StopIsFinal'
  BY <1>21 DEF StartBegin, Turn
<1>22. ASSUME BindOk PROVE StopIsFinal'
  BY <1>22 DEF BindOk, Resumed
<1>23. ASSUME BindFail PROVE StopIsFinal'
  BY <1>23 DEF BindFail, Resumed
<1>24. ASSUME StopBegin PROVE StopIsFinal'
  BY <1>24 DEF StopBegin, Turn, RejectPending
<1>25. ASSUME StopRetire PROVE StopIsFinal'
  BY <1>25 DEF StopRetire, StopFinished
<1>26. ASSUME StopDone PROVE StopIsFinal'
  BY <1>26 DEF StopDone, StopFinished
<1>27. ASSUME ListenerDies PROVE StopIsFinal'
  BY <1>27 DEF ListenerDies
<1>28. CASE UNCHANGED vars
  BY <1>28 DEF vars
<1> QED
  BY <1>1, <1>2, <1>3, <1>4, <1>5, <1>6, <1>7, <1>8, <1>9, <1>10, <1>11,
       <1>12, <1>13, <1>14, <1>15, <1>16, <1>17, <1>18, <1>19, <1>20, <1>21,
       <1>22, <1>23, <1>24, <1>25, <1>26, <1>27, <1>28 DEF Next, SocketStep,
       CallStep, LifecycleStep

LEMMA PeersStep ==
    ASSUME TypeOK, PeersKnowBridge, [Next]_vars
    PROVE  PeersKnowBridge'
<1> USE DEF TypeOK, PeersKnowBridge, BridgeState, Connected, Sockets,
     lifecycleVars, socketVars, callVars
<1>1. ASSUME NEW s \in Sockets, Accept(s) PROVE PeersKnowBridge'
  BY <1>1 DEF Accept
<1>2. ASSUME NEW s \in Sockets, SocketError(s) PROVE PeersKnowBridge'
  BY <1>2 DEF SocketError, FailBridge, RejectPending, PushToPeers
<1>3. ASSUME NEW s \in Sockets, SocketClosed(s) PROVE PeersKnowBridge'
  BY <1>3 DEF SocketClosed, FailBridge, RejectPending, PushToPeers
<1>4. ASSUME NEW s \in Bridges, Hello(s) PROVE PeersKnowBridge'
  BY <1>4 DEF Hello, RejectPending, PushToPeers, Readable
<1>5. ASSUME NEW s \in Bridges, Pong(s) PROVE PeersKnowBridge'
  BY <1>5 DEF Pong
<1>6. ASSUME NEW s \in Bridges, GoSilent(s) PROVE PeersKnowBridge'
  BY <1>6 DEF GoSilent
<1>7. ASSUME NEW p \in Peers, Probe(p) PROVE PeersKnowBridge'
  BY <1>7 DEF Probe
<1>8. ASSUME NEW p \in Peers, NEW c \in Calls, PeerRequest(p, c) PROVE PeersKnowBridge'
  BY <1>8 DEF PeerRequest, OpenRequest, Settle
<1>9. ASSUME HeartbeatTick PROVE PeersKnowBridge'
  BY <1>9 DEF HeartbeatTick, FailBridge, RejectPending, PushToPeers
<1>10. ASSUME NEW c \in Calls, EnsureListening(c) PROVE PeersKnowBridge'
  BY <1>10 DEF EnsureListening
<1>11. ASSUME NEW c \in Calls, AwaitBridge(c) PROVE PeersKnowBridge'
  BY <1>11 DEF AwaitBridge
<1>12. ASSUME NEW c \in Calls, WaitExpired(c) PROVE PeersKnowBridge'
  BY <1>12 DEF WaitExpired
<1>13. ASSUME NEW c \in Calls, CheckProbe(c) PROVE PeersKnowBridge'
  BY <1>13 DEF CheckProbe, Settle
<1>14. ASSUME NEW c \in Calls, SendRequest(c) PROVE PeersKnowBridge'
  BY <1>14 DEF SendRequest, OpenRequest, Settle
<1>15. ASSUME NEW c \in Calls, Response(c) PROVE PeersKnowBridge'
  BY <1>15 DEF Response, Settle, Readable
<1>16. ASSUME NEW c \in Calls, Timeout(c) PROVE PeersKnowBridge'
  BY <1>16 DEF Timeout, Settle
<1>17. ASSUME NEW c \in Calls, Abort(c) PROVE PeersKnowBridge'
  BY <1>17 DEF Abort, Settle, Finished
<1>18. ASSUME NEW c \in Calls, AnswerPeer(c) PROVE PeersKnowBridge'
  BY <1>18 DEF AnswerPeer
<1>19. ASSUME NEW k \in {"start", "stop"}, RequestOp(k) PROVE PeersKnowBridge'
  BY <1>19 DEF RequestOp
<1>20. ASSUME StartIsNoop PROVE PeersKnowBridge'
  BY <1>20 DEF StartIsNoop, Turn, Resumed
<1>21. ASSUME StartBegin PROVE PeersKnowBridge'
  BY <1>21 DEF StartBegin, Turn
<1>22. ASSUME BindOk PROVE PeersKnowBridge'
  BY <1>22 DEF BindOk, Resumed
<1>23. ASSUME BindFail PROVE PeersKnowBridge'
  BY <1>23 DEF BindFail, Resumed
<1>24. ASSUME StopBegin PROVE PeersKnowBridge'
  BY <1>24 DEF StopBegin, Turn, RejectPending
<1>25. ASSUME StopRetire PROVE PeersKnowBridge'
  BY <1>25 DEF StopRetire, StopFinished
<1>26. ASSUME StopDone PROVE PeersKnowBridge'
  BY <1>26 DEF StopDone, StopFinished
<1>27. ASSUME ListenerDies PROVE PeersKnowBridge'
  BY <1>27 DEF ListenerDies
<1>28. CASE UNCHANGED vars
  BY <1>28 DEF vars
<1> QED
  BY <1>1, <1>2, <1>3, <1>4, <1>5, <1>6, <1>7, <1>8, <1>9, <1>10, <1>11,
       <1>12, <1>13, <1>14, <1>15, <1>16, <1>17, <1>18, <1>19, <1>20, <1>21,
       <1>22, <1>23, <1>24, <1>25, <1>26, <1>27, <1>28 DEF Next, SocketStep,
       CallStep, LifecycleStep

LEMMA AbortStep ==
    ASSUME TypeOK, AbortInv, [Next]_vars
    PROVE  AbortInv'
<1> USE DEF TypeOK, AbortInv, Finished, lifecycleVars, socketVars, callVars
<1>1. ASSUME NEW s \in Sockets, Accept(s) PROVE AbortInv'
  BY <1>1 DEF Accept
<1>2. ASSUME NEW s \in Sockets, SocketError(s) PROVE AbortInv'
  BY <1>2 DEF SocketError, FailBridge, RejectPending, PushToPeers
<1>3. ASSUME NEW s \in Sockets, SocketClosed(s) PROVE AbortInv'
  BY <1>3 DEF SocketClosed, FailBridge, RejectPending, PushToPeers
<1>4. ASSUME NEW s \in Bridges, Hello(s) PROVE AbortInv'
  BY <1>4 DEF Hello, RejectPending, PushToPeers, Connected, Readable
<1>5. ASSUME NEW s \in Bridges, Pong(s) PROVE AbortInv'
  BY <1>5 DEF Pong
<1>6. ASSUME NEW s \in Bridges, GoSilent(s) PROVE AbortInv'
  BY <1>6 DEF GoSilent
<1>7. ASSUME NEW p \in Peers, Probe(p) PROVE AbortInv'
  BY <1>7 DEF Probe, BridgeState, Connected
<1>8. ASSUME NEW p \in Peers, NEW c \in Calls, PeerRequest(p, c) PROVE AbortInv'
  BY <1>8 DEF PeerRequest, OpenRequest, Settle, Connected
<1>9. ASSUME HeartbeatTick PROVE AbortInv'
  BY <1>9 DEF HeartbeatTick, FailBridge, RejectPending, PushToPeers, Connected
<1>10. ASSUME NEW c \in Calls, EnsureListening(c) PROVE AbortInv'
  BY <1>10 DEF EnsureListening
<1>11. ASSUME NEW c \in Calls, AwaitBridge(c) PROVE AbortInv'
  BY <1>11 DEF AwaitBridge, Connected
<1>12. ASSUME NEW c \in Calls, WaitExpired(c) PROVE AbortInv'
  BY <1>12 DEF WaitExpired
<1>13. ASSUME NEW c \in Calls, CheckProbe(c) PROVE AbortInv'
  BY <1>13 DEF CheckProbe, Settle, Connected
<1>14. ASSUME NEW c \in Calls, SendRequest(c) PROVE AbortInv'
  BY <1>14 DEF SendRequest, OpenRequest, Settle, Connected
<1>15. ASSUME NEW c \in Calls, Response(c) PROVE AbortInv'
  BY <1>15 DEF Response, Settle, Readable
<1>16. ASSUME NEW c \in Calls, Timeout(c) PROVE AbortInv'
  BY <1>16 DEF Timeout, Settle
<1>17. ASSUME NEW c \in Calls, Abort(c) PROVE AbortInv'
  BY <1>17 DEF Abort, Settle
<1>18. ASSUME NEW c \in Calls, AnswerPeer(c) PROVE AbortInv'
  BY <1>18 DEF AnswerPeer
<1>19. ASSUME NEW k \in {"start", "stop"}, RequestOp(k) PROVE AbortInv'
  BY <1>19 DEF RequestOp
<1>20. ASSUME StartIsNoop PROVE AbortInv'
  BY <1>20 DEF StartIsNoop, Turn, Resumed
<1>21. ASSUME StartBegin PROVE AbortInv'
  BY <1>21 DEF StartBegin, Turn
<1>22. ASSUME BindOk PROVE AbortInv'
  BY <1>22 DEF BindOk, Resumed
<1>23. ASSUME BindFail PROVE AbortInv'
  BY <1>23 DEF BindFail, Resumed
<1>24. ASSUME StopBegin PROVE AbortInv'
  BY <1>24 DEF StopBegin, Turn, RejectPending
<1>25. ASSUME StopRetire PROVE AbortInv'
  BY <1>25 DEF StopRetire, StopFinished
<1>26. ASSUME StopDone PROVE AbortInv'
  BY <1>26 DEF StopDone, StopFinished
<1>27. ASSUME ListenerDies PROVE AbortInv'
  BY <1>27 DEF ListenerDies
<1>28. CASE UNCHANGED vars
  BY <1>28 DEF vars
<1> QED
  BY <1>1, <1>2, <1>3, <1>4, <1>5, <1>6, <1>7, <1>8, <1>9, <1>10, <1>11,
       <1>12, <1>13, <1>14, <1>15, <1>16, <1>17, <1>18, <1>19, <1>20, <1>21,
       <1>22, <1>23, <1>24, <1>25, <1>26, <1>27, <1>28 DEF Next, SocketStep,
       CallStep, LifecycleStep

-----------------------------------------------------------------------------
(* The theorems.                                                           *)

LEMMA Inductive ==
    /\ Init => IInv
    /\ IInv /\ [Next]_vars => IInv'
<1>1. Init => IInv
  BY TypeInit DEF Init, IInv, ListenerInv, StopInv, PendingOnBridge,
     BridgeIsTracked, StopIsFinal, PeersKnowBridge, AbortInv, Pending, Connected,
     Tracked, Sockets
<1>2. ASSUME IInv, [Next]_vars PROVE IInv'
  BY <1>2, TypeStep, ListenerStep, PendingStep, StopStep, PeersStep, AbortStep
     DEF IInv
<1> QED
  BY <1>1, <1>2

\* The broker of server.ts keeps its invariant whatever connections, callers,
\* timers and lifecycle requests do.
THEOREM Invariance == Spec => []IInv
  BY Inductive, PTL DEF Spec

\* Every variable keeps its type; stop() waits for tracked connections only.
THEOREM TypeCorrect == Spec => []TypeOK
<1>1. IInv => TypeOK
  BY DEF IInv
<1> QED
  BY <1>1, Invariance, PTL

\* No caller of request() is left waiting on a bridge that was lost,
\* superseded or stopped.
THEOREM NoOrphanedRequest == Spec => []PendingOnBridge
<1>1. IInv => PendingOnBridge
  BY DEF IInv
<1> QED
  BY <1>1, Invariance, PTL

\* bridgeSocket is always a connection whose loss will still be reported.
THEOREM BridgeLossIsSeen == Spec => []BridgeIsTracked
<1>1. IInv => BridgeIsTracked
  BY DEF IInv
<1> QED
  BY <1>1, Invariance, PTL

\* When stop() has returned, no listener, timer, connection, bridge or request
\* remains, whatever raced it.
THEOREM StopLeavesNothing == Spec => []StopIsFinal
<1>1. IInv => StopIsFinal
  BY DEF IInv
<1> QED
  BY <1>1, Invariance, PTL

\* A peer broker is never left with a stale bridge state.
THEOREM PeersAreTold == Spec => []PeersKnowBridge
<1>1. IInv => PeersKnowBridge
  BY DEF IInv
<1> QED
  BY <1>1, Invariance, PTL

\* A call whose signal has fired is never parked and never outstanding.
THEOREM AbortReleases == Spec => []CancelledNeverBlocks
<1>1. IInv => CancelledNeverBlocks
  BY DEF IInv, AbortInv, CancelledNeverBlocks
<1> QED
  BY <1>1, Invariance, PTL
=============================================================================
