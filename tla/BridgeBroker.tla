---------------------------- MODULE BridgeBroker ----------------------------
(***************************************************************************)
(* BrowserAgentBroker (src/src/broker/server.ts): the primary broker of a  *)
(* pi process.  It listens on one port, owns at most one Chrome extension  *)
(* bridge, forwards tool calls to it, and relays the requests of peer      *)
(* brokers.  JavaScript runs each callback to completion, so an action is  *)
(* one callback or the part of an async function between two awaits.       *)
(*                                                                         *)
(* Time is not modelled here: a timer is an action that may fire at any    *)
(* moment.  Probe fields that only diagnostics read (session serial, time  *)
(* stamps, disconnect reason) and the cold-bridge memo are left out.       *)
(***************************************************************************)
EXTENDS Naturals, Sequences

CONSTANTS
    Bridges,   \* connections opened by the Chrome extension
    Peers,     \* connections opened by secondary pi processes
    Calls,     \* calls of request(): the tools' own, and the relayed ones
    None,      \* "null": no socket, no caller
    MaxQueue   \* bound: lifecycle operations requested and not yet finished

ASSUME SocketsAssumption ==
    /\ Bridges \cap Peers = {}
    /\ None \notin Bridges \cup Peers \cup Calls

ASSUME QueueAssumption == MaxQueue \in Nat

VARIABLES
    server,     \* this.server # null
    listening,  \* server.address() # null: connections are accepted
    pingTimer,  \* the heartbeat interval runs
    queue,      \* lifecycleTail: the operations chained on it, running one first
    op,         \* where the running operation is suspended
    retiring,   \* closingSockets: the connections stop() still waits for
    stopped,    \* history: the last operation to finish or begin was a stop()
    sock,       \* state of each connection
    silent,     \* the far end vanished without closing (sleep, half-open TCP)
    alive,      \* BridgeSocket.isAlive
    bridge,     \* this.bridgeSocket (bridgeHello is set and cleared with it)
    view,       \* the last bridge state sent to each peer
    pc,         \* where each call is
    origin,     \* the peer a relayed call came from, None for a local call
    sentOn,     \* the socket a pending request was sent on
    aborted,    \* the caller's AbortSignal has fired
    result      \* how a settled call ended

lifecycleVars == <<server, listening, pingTimer, queue, op, retiring, stopped>>
socketVars    == <<sock, silent, alive, bridge, view>>
callVars      == <<pc, origin, sentOn, aborted, result>>
vars          == <<lifecycleVars, socketVars, callVars>>

-----------------------------------------------------------------------------
Sockets   == Bridges \cup Peers
SockState == {"closed",   \* not connected, or its 'close' event was delivered
              "open",
              "closing",  \* close() was called here: frames still arrive
              "doomed"}   \* terminated, destroyed or failed: only 'close' follows
CallState == {"idle", "starting", "started", "parked", "ready", "checked",
              "pending", "settled", "answered"}
Results   == {"none", "ok", "disconnected", "timeout", "cancelled"}

Operations == [op : {"start", "stop"}, by : Calls \cup {None}]

Tracked   == {s \in Sockets : sock[s] # "closed"}        \* this.sockets
Readable  == {s \in Sockets : sock[s] \in {"open", "closing"} /\ ~silent[s]}
Parked    == {c \in Calls : pc[c] = "parked"}            \* this.bridgeWaiters
Pending   == {c \in Calls : pc[c] = "pending"}           \* this.pendingRequests
Finished(c) == pc[c] \in {"settled", "answered"}
Connected == bridge # None
BridgeState == IF Connected THEN "up" ELSE "down"

TypeOK ==
    /\ server \in BOOLEAN /\ listening \in BOOLEAN /\ pingTimer \in BOOLEAN
    /\ queue \in Seq(Operations)
    /\ op \in {"idle", "binding", "closing", "draining"}
    /\ retiring \in SUBSET Tracked
    /\ stopped \in BOOLEAN
    /\ sock \in [Sockets -> SockState]
    /\ silent \in [Sockets -> BOOLEAN]
    /\ alive \in [Sockets -> BOOLEAN]
    /\ bridge \in Sockets \cup {None}
    /\ view \in [Peers -> {"unknown", "up", "down"}]
    /\ pc \in [Calls -> CallState]
    /\ origin \in [Calls -> Peers \cup {None}]
    /\ sentOn \in [Calls -> Sockets \cup {None}]
    /\ aborted \in [Calls -> BOOLEAN]
    /\ result \in [Calls -> Results]

Init ==
    /\ server = FALSE /\ listening = FALSE /\ pingTimer = FALSE
    /\ queue = <<>> /\ op = "idle" /\ retiring = {} /\ stopped = TRUE
    /\ sock = [s \in Sockets |-> "closed"]
    /\ silent = [s \in Sockets |-> FALSE]
    /\ alive = [s \in Sockets |-> FALSE]
    /\ bridge = None
    /\ view = [p \in Peers |-> "unknown"]
    /\ pc = [c \in Calls |-> "idle"]
    /\ origin = [c \in Calls |-> None]
    /\ sentOn = [c \in Calls |-> None]
    /\ aborted = [c \in Calls |-> FALSE]
    /\ result = [c \in Calls |-> "none"]

-----------------------------------------------------------------------------
(* Shared steps of the handlers.                                           *)

\* rejectPendingRequests(E_BRIDGE_DISCONNECTED), with notifyBridgeWaiters when
\* release holds: every parked waiter goes on.
RejectPending(release) ==
    /\ pc' = [c \in Calls |-> IF pc[c] = "pending" THEN "settled"
                              ELSE IF release /\ pc[c] = "parked" THEN "ready"
                              ELSE pc[c]]
    /\ result' = [c \in Calls |-> IF pc[c] = "pending" THEN "disconnected"
                                  ELSE result[c]]
    /\ sentOn' = [c \in Calls |-> None]

\* emitBridgeStateChange: the frame reaches the peers whose socket is open.
PushToPeers(state) ==
    view' = [p \in Peers |-> IF sock[p] = "open" THEN state ELSE view[p]]

\* Mutant: the loss is not pushed to the peers.
FailBridgeQuietly(s) ==
    IF bridge = s
    THEN bridge' = None /\ RejectPending(FALSE) /\ UNCHANGED view
    ELSE UNCHANGED <<bridge, pc, result, sentOn, view>>

\* failBridge(s): a no-op unless s is the active bridge.
FailBridge(s) ==
    IF bridge = s
    THEN /\ bridge' = None
         /\ RejectPending(FALSE)
         /\ PushToPeers("down")
    ELSE UNCHANGED <<bridge, pc, result, sentOn, view>>

Settle(c, outcome) ==
    /\ pc' = [pc EXCEPT ![c] = "settled"]
    /\ result' = [result EXCEPT ![c] = outcome]
    /\ sentOn' = [sentOn EXCEPT ![c] = None]

\* Mutant: no look at bridgeSocket before the entry is registered.
OpenRequestUnchecked(c) ==
    /\ pc' = [pc EXCEPT ![c] = "pending"]
    /\ sentOn' = [sentOn EXCEPT ![c] = bridge]
    /\ UNCHANGED result

\* request(), from its check of the bridge to socket.send().
OpenRequest(c) ==
    IF Connected
    THEN /\ pc' = [pc EXCEPT ![c] = "pending"]
         /\ sentOn' = [sentOn EXCEPT ![c] = bridge]
         /\ UNCHANGED result
    ELSE Settle(c, "disconnected")

\* The caller that awaits the lifecycle operation now finishing goes on.
Resumed(caller, next) ==
    [c \in Calls |-> IF c = caller THEN next ELSE pc[c]]

-----------------------------------------------------------------------------
(* Connections and their frames (handleConnection, handleRawMessage).      *)

Accept(s) ==
    /\ listening
    /\ sock[s] = "closed"
    /\ \A c \in Calls : origin[c] = s => pc[c] = "answered"  \* a new object
    /\ sock' = [sock EXCEPT ![s] = "open"]
    /\ alive' = [alive EXCEPT ![s] = TRUE]
    /\ view' = [p \in Peers |-> IF p = s THEN "unknown" ELSE view[p]]
    /\ UNCHANGED <<lifecycleVars, silent, bridge, callVars>>

\* Mutant: a handoff leaves the requests of the superseded bridge waiting.
HelloKeepsRequests(s) ==
    /\ s \in Readable
    /\ bridge' = s
    /\ PushToPeers("up")
    /\ pc' = [c \in Calls |-> IF pc[c] = "parked" THEN "ready" ELSE pc[c]]
    /\ sock' = [t \in Sockets |-> IF t = bridge /\ t # s /\ sock[t] = "open"
                                  THEN "closing" ELSE sock[t]]
    /\ UNCHANGED <<lifecycleVars, silent, alive, origin, sentOn, aborted, result>>

\* A hello frame makes its sender the bridge.  Requests sent to the one it
\* supersedes are rejected, and that socket is closed.
Hello(s) ==
    LET handoff == Connected /\ bridge # s IN
    /\ s \in Readable
    /\ bridge' = s
    /\ PushToPeers("up")
    /\ IF handoff
       THEN /\ RejectPending(TRUE)
            /\ sock' = [sock EXCEPT ![bridge] = IF @ = "open" THEN "closing" ELSE @]
       ELSE /\ pc' = [c \in Calls |-> IF pc[c] = "parked" THEN "ready" ELSE pc[c]]
            /\ UNCHANGED <<result, sentOn, sock>>
    /\ UNCHANGED <<lifecycleVars, silent, alive, origin, aborted>>

\* A response frame settles its request; a late one finds no entry and is dropped.
Response(c) ==
    /\ sentOn[c] \in Readable
    /\ pc[c] = "pending"
    /\ Settle(c, "ok")
    /\ UNCHANGED <<lifecycleVars, socketVars, origin, aborted>>

Probe(p) ==
    /\ sock[p] = "open"
    /\ view' = [view EXCEPT ![p] = BridgeState]
    /\ UNCHANGED <<lifecycleVars, sock, silent, alive, bridge, callVars>>

\* A peer's request frame is forwarded at once, without waiting for a bridge.
PeerRequest(p, c) ==
    /\ p \in Readable
    /\ pc[c] = "idle"
    /\ origin' = [origin EXCEPT ![c] = p]
    /\ OpenRequest(c)
    /\ UNCHANGED <<lifecycleVars, socketVars, aborted>>

\* The relayed call's outcome is sent back; on a closed socket it is dropped.
AnswerPeer(c) ==
    /\ pc[c] = "settled"
    /\ origin[c] # None
    /\ pc' = [pc EXCEPT ![c] = "answered"]
    /\ UNCHANGED <<lifecycleVars, socketVars, origin, sentOn, aborted, result>>

Pong(s) ==
    /\ s \in Readable
    /\ ~alive[s]
    /\ alive' = [alive EXCEPT ![s] = TRUE]
    /\ UNCHANGED <<lifecycleVars, sock, silent, bridge, view, callVars>>

\* The far end disappears without a close event.
GoSilent(s) ==
    /\ sock[s] = "open"
    /\ ~silent[s]
    /\ silent' = [silent EXCEPT ![s] = TRUE]
    /\ UNCHANGED <<lifecycleVars, sock, alive, bridge, view, callVars>>

SocketError(s) ==
    /\ s \in Readable
    /\ sock' = [sock EXCEPT ![s] = "doomed"]
    /\ FailBridge(s)
    /\ UNCHANGED <<lifecycleVars, silent, alive, origin, aborted>>

\* Mutant: the close handler only removes the socket from the set.
SocketForgotten(s) ==
    /\ sock[s] # "closed"
    /\ sock[s] = "open" => ~silent[s]
    /\ sock' = [sock EXCEPT ![s] = "closed"]
    /\ silent' = [silent EXCEPT ![s] = FALSE]
    /\ alive' = [alive EXCEPT ![s] = FALSE]
    /\ retiring' = retiring \ {s}
    /\ UNCHANGED <<server, listening, pingTimer, queue, op, stopped, bridge, view,
                   callVars>>

\* Mutant: stop()'s own listener for the close event is missing.
SocketClosedUnseen(s) ==
    /\ sock[s] # "closed"
    /\ sock[s] = "open" => ~silent[s]
    /\ sock' = [sock EXCEPT ![s] = "closed"]
    /\ silent' = [silent EXCEPT ![s] = FALSE]
    /\ alive' = [alive EXCEPT ![s] = FALSE]
    /\ FailBridge(s)
    /\ UNCHANGED <<lifecycleVars, origin, aborted>>

\* The 'close' event; the object is gone with its flags.  A silent connection
\* only closes from this side.
SocketClosed(s) ==
    /\ sock[s] # "closed"
    /\ sock[s] = "open" => ~silent[s]
    /\ sock' = [sock EXCEPT ![s] = "closed"]
    /\ silent' = [silent EXCEPT ![s] = FALSE]
    /\ alive' = [alive EXCEPT ![s] = FALSE]
    /\ retiring' = retiring \ {s}
    /\ FailBridge(s)
    /\ UNCHANGED <<server, listening, pingTimer, queue, op, stopped, origin,
                   aborted>>

\* Mutant: isAlive is never reset before a ping.
HeartbeatTickTrusting ==
    /\ pingTimer
    /\ Connected
    /\ ~alive[bridge]
    /\ FailBridge(bridge)
    /\ sock' = [sock EXCEPT ![bridge] = "doomed"]
    /\ UNCHANGED <<lifecycleVars, silent, alive, origin, aborted>>

\* The heartbeat interval: drop a bridge that did not answer the last ping.
HeartbeatTick ==
    /\ pingTimer
    /\ Connected
    /\ IF alive[bridge]
       THEN /\ alive' = [alive EXCEPT ![bridge] = FALSE]
            /\ UNCHANGED <<sock, bridge, pc, result, sentOn, view>>
       ELSE /\ FailBridge(bridge)
            /\ sock' = [sock EXCEPT ![bridge] = "doomed"]
            /\ UNCHANGED alive
    /\ UNCHANGED <<lifecycleVars, silent, origin, aborted>>

-----------------------------------------------------------------------------
(* A local tool call: ensureReady(), the tool's probe check, request().    *)

\* ensureReady() without a live listener: drop a dead one and start() again.
EnsureListening(c) ==
    /\ pc[c] = "idle"
    /\ ~(server /\ listening)
    /\ Len(queue) < MaxQueue
    /\ server' = FALSE
    /\ pingTimer' = (pingTimer /\ ~server)
    /\ queue' = Append(queue, [op |-> "start", by |-> c])
    /\ pc' = [pc EXCEPT ![c] = "starting"]
    /\ UNCHANGED <<listening, op, retiring, stopped, socketVars, origin,
                   sentOn, aborted, result>>

\* Mutant: parks without looking at the signal, which has already fired.
AwaitBridgeDeaf(c) ==
    /\ \/ pc[c] = "idle" /\ server /\ listening
       \/ pc[c] = "started"
    /\ \E budget \in BOOLEAN :
          pc' = [pc EXCEPT ![c] =
                   IF ~Connected /\ server /\ budget THEN "parked" ELSE "ready"]
    /\ UNCHANGED <<lifecycleVars, socketVars, origin, sentOn, aborted, result>>

\* waitForBridge(): park until a bridge appears, unless there is no budget.
AwaitBridge(c) ==
    /\ \/ pc[c] = "idle" /\ server /\ listening
       \/ pc[c] = "started"
    /\ \E budget \in BOOLEAN :
          pc' = [pc EXCEPT ![c] =
                   IF ~Connected /\ ~aborted[c] /\ server /\ budget
                   THEN "parked" ELSE "ready"]
    /\ UNCHANGED <<lifecycleVars, socketVars, origin, sentOn, aborted, result>>

WaitExpired(c) ==
    /\ pc[c] = "parked"
    /\ pc' = [pc EXCEPT ![c] = "ready"]
    /\ UNCHANGED <<lifecycleVars, socketVars, origin, sentOn, aborted, result>>

\* The tool's own look at probeConnectivity() once ensureReady() returned.
CheckProbe(c) ==
    /\ pc[c] = "ready"
    /\ IF aborted[c] THEN Settle(c, "cancelled")
       ELSE IF server /\ listening /\ Connected
       THEN pc' = [pc EXCEPT ![c] = "checked"] /\ UNCHANGED <<result, sentOn>>
       ELSE Settle(c, "disconnected")
    /\ UNCHANGED <<lifecycleVars, socketVars, origin, aborted>>

\* request(), an await later (history append, lazy handle): look again.
SendRequest(c) ==
    /\ pc[c] = "checked"
    /\ IF aborted[c]
       THEN Settle(c, "cancelled")
       ELSE OpenRequest(c)
    /\ UNCHANGED <<lifecycleVars, socketVars, origin, aborted>>

Timeout(c) ==
    /\ pc[c] = "pending"
    /\ Settle(c, "timeout")
    /\ UNCHANGED <<lifecycleVars, socketVars, origin, aborted>>

\* Escape.  The listeners registered by waitForBridge() and request() run now.
Abort(c) ==
    /\ origin[c] = None
    /\ pc[c] # "idle" /\ ~Finished(c)
    /\ ~aborted[c]
    /\ aborted' = [aborted EXCEPT ![c] = TRUE]
    /\ IF pc[c] = "pending" THEN Settle(c, "cancelled")
       ELSE /\ pc' = [pc EXCEPT ![c] = IF @ = "parked" THEN "ready" ELSE @]
            /\ UNCHANGED <<result, sentOn>>
    /\ UNCHANGED <<lifecycleVars, socketVars, origin>>

-----------------------------------------------------------------------------
(* The listener's lifecycle: start() and stop(), serialized on             *)
(* lifecycleTail.  Head(queue) is the running operation.                   *)

RequestOp(kind) ==
    /\ Len(queue) < MaxQueue
    /\ queue' = Append(queue, [op |-> kind, by |-> None])
    /\ UNCHANGED <<server, listening, pingTimer, op, retiring, stopped,
                   socketVars, callVars>>

Turn(kind) == op = "idle" /\ queue # <<>> /\ Head(queue).op = kind

\* start() while this.server is set returns at once.
StartIsNoop ==
    /\ Turn("start") /\ server
    /\ queue' = Tail(queue)
    /\ pc' = Resumed(Head(queue).by, "started")
    /\ UNCHANGED <<server, listening, pingTimer, op, retiring, stopped,
                   socketVars, origin, sentOn, aborted, result>>

StartBegin ==
    /\ Turn("start") /\ ~server
    /\ op' = "binding"
    /\ pingTimer' = FALSE
    /\ stopped' = FALSE
    /\ UNCHANGED <<server, listening, queue, retiring, socketVars, callVars>>

BindOk ==
    /\ op = "binding"
    /\ server' = TRUE /\ listening' = TRUE /\ pingTimer' = TRUE
    /\ op' = "idle"
    /\ queue' = Tail(queue)
    /\ pc' = Resumed(Head(queue).by, "started")
    /\ UNCHANGED <<retiring, stopped, socketVars, origin, sentOn, aborted, result>>

\* Mutant: the queue swallows the failure instead of handing it to the caller.
BindFailSwallowed ==
    /\ op = "binding"
    /\ op' = "idle"
    /\ queue' = Tail(queue)
    /\ UNCHANGED <<server, listening, pingTimer, retiring, stopped, socketVars,
                   callVars>>

\* The port is busy, or the task store cannot be prepared.
BindFail ==
    /\ op = "binding"
    /\ op' = "idle"
    /\ queue' = Tail(queue)
    /\ pc' = Resumed(Head(queue).by, "ready")
    /\ UNCHANGED <<server, listening, pingTimer, retiring, stopped, socketVars,
                   origin, sentOn, aborted, result>>

\* stop() up to its first await: everyone waiting is released, every tracked
\* connection is closed.  The listener still accepts.
StopBegin ==
    /\ Turn("stop")
    /\ op' = "closing"
    /\ pingTimer' = FALSE
    /\ RejectPending(TRUE)
    /\ retiring' = Tracked
    /\ sock' = [s \in Sockets |-> IF sock[s] = "open" THEN "closing" ELSE sock[s]]
    /\ bridge' = None
    /\ UNCHANGED <<server, listening, queue, stopped, silent, alive, view,
                   origin, aborted>>

StopFinished ==
    /\ op' = "idle"
    /\ queue' = Tail(queue)
    /\ stopped' = TRUE

\* Mutant: server.close() is not awaited.
StopRetireUnawaited ==
    /\ op = "closing"
    /\ retiring = {}
    /\ sock' = [s \in Sockets |-> IF s \in Tracked THEN "doomed" ELSE sock[s]]
    /\ server' = FALSE /\ listening' = FALSE
    /\ StopFinished
    /\ UNCHANGED <<pingTimer, retiring, silent, alive, bridge, view, callVars>>

\* Mutant: the connections accepted while stop() waited are not destroyed.
StopRetireLeavesLate ==
    /\ op = "closing"
    /\ retiring = {}
    /\ server' = FALSE /\ listening' = FALSE
    /\ IF server THEN op' = "draining" /\ UNCHANGED <<queue, stopped>>
       ELSE StopFinished
    /\ UNCHANGED <<pingTimer, retiring, socketVars, callVars>>

\* Those connections are closed: destroy the ones accepted meanwhile, and give
\* up the listener, which closes once no connection is left.
StopRetire ==
    /\ op = "closing"
    /\ retiring = {}
    /\ sock' = [s \in Sockets |-> IF s \in Tracked THEN "doomed" ELSE sock[s]]
    /\ server' = FALSE /\ listening' = FALSE
    /\ IF server THEN op' = "draining" /\ UNCHANGED <<queue, stopped>>
       ELSE StopFinished
    /\ UNCHANGED <<pingTimer, retiring, silent, alive, bridge, view, callVars>>

StopDone ==
    /\ op = "draining"
    /\ Tracked = {}
    /\ StopFinished
    /\ UNCHANGED <<server, listening, pingTimer, retiring, socketVars, callVars>>

\* The WebSocketServer is closed underneath the broker.
ListenerDies ==
    /\ op = "idle"
    /\ server /\ listening
    /\ listening' = FALSE
    /\ UNCHANGED <<server, pingTimer, queue, op, retiring, stopped, socketVars,
                   callVars>>

-----------------------------------------------------------------------------
SocketStep ==
    \/ \E s \in Sockets : Accept(s) \/ SocketError(s) \/ SocketClosed(s)
    \/ \E s \in Bridges : Hello(s) \/ Pong(s) \/ GoSilent(s)
    \/ \E p \in Peers : Probe(p) \/ \E c \in Calls : PeerRequest(p, c)
    \/ HeartbeatTick

CallStep(c) ==
    \/ EnsureListening(c) \/ AwaitBridge(c) \/ WaitExpired(c)
    \/ CheckProbe(c) \/ SendRequest(c) \/ Response(c) \/ Timeout(c)
    \/ Abort(c) \/ AnswerPeer(c)

LifecycleStep ==
    \/ RequestOp("start") \/ RequestOp("stop")
    \/ StartIsNoop \/ StartBegin \/ BindOk \/ BindFail
    \/ StopBegin \/ StopRetire \/ StopDone
    \/ ListenerDies

Next == SocketStep \/ LifecycleStep \/ \E c \in Calls : CallStep(c)

Spec == Init /\ [][Next]_vars

\* What the JavaScript runtime guarantees: timers fire, awaited continuations
\* run, a bind ends one way or the other, and a socket that was closed or
\* terminated here delivers its close event.
Fairness ==
    /\ \A c \in Calls :
          /\ WF_vars(AwaitBridge(c) /\ pc[c] = "started")
          /\ WF_vars(WaitExpired(c) \/ CheckProbe(c) \/ SendRequest(c))
          /\ WF_vars(Timeout(c)) /\ WF_vars(AnswerPeer(c))
    /\ \A s \in Sockets : WF_vars(SocketClosed(s) /\ sock[s] # "open")
    /\ WF_vars(StartIsNoop \/ StartBegin \/ BindOk \/ BindFail)
    /\ WF_vars(StopBegin \/ StopRetire \/ StopDone)
    /\ WF_vars(HeartbeatTick)

FairSpec == Spec /\ Fairness

-----------------------------------------------------------------------------
(* Safety.                                                                 *)

\* Every request still waiting was sent on the bridge that is active now: a
\* lost, superseded or stopped bridge leaves no caller waiting for its timeout.
PendingOnBridge ==
    \A c \in Pending : Connected /\ sentOn[c] = bridge

\* The bridge is a connection whose close event is still to come, so that its
\* loss will be noticed (failBridge compares identities).
BridgeIsTracked == Connected => bridge \in Tracked

\* Once stop() has finished, and until the next start() runs, nothing of the
\* broker is left: no listener, no timer, no bridge, no connection, no request.
StopIsFinal ==
    stopped /\ op = "idle" =>
        /\ ~server /\ ~listening /\ ~pingTimer
        /\ ~Connected /\ Tracked = {} /\ Pending = {}

\* What an open peer connection was last told about the bridge is still true.
PeersKnowBridge ==
    \A p \in Peers :
        sock[p] = "open" /\ view[p] # "unknown" => view[p] = BridgeState

\* After Escape a call neither waits for a bridge nor for an answer.
CancelledNeverBlocks ==
    \A c \in Calls : aborted[c] => pc[c] \notin {"parked", "pending"}

\* The comment at server.ts:484: whoever is parked in waitForBridge() is
\* released by stop() and does not sit out its whole budget.
WaitersReleased == stopped /\ op = "idle" => Parked = {}

-----------------------------------------------------------------------------
(* Liveness, under FairSpec.                                               *)

\* Every call ends, whatever start() and stop() do around it, and a relayed
\* one is answered.
EveryCallSettles ==
    \A c \in Calls :
        /\ pc[c] # "idle" ~> Finished(c)
        /\ origin[c] # None ~> pc[c] = "answered"

\* The heartbeat gets rid of a bridge that vanished without closing.
SilentBridgeDropped ==
    \A s \in Bridges : (bridge = s /\ silent[s]) ~> (bridge # s \/ ~pingTimer)

\* The lifecycle queue never gets stuck: each operation in it is served.
OperationsFinish == queue # <<>> /\ Head(queue).op = "stop" ~> stopped

-----------------------------------------------------------------------------
(* The promise to the callers of request(): module BridgeCalls.            *)

Outcome ==
    [c \in Calls |->
        IF pc[c] = "pending"      THEN "outstanding"
        ELSE IF result[c] = "none" THEN "none"
        ELSE IF result[c] = "ok"   THEN "answered"
        ELSE "failed"]

Promise == INSTANCE BridgeCalls WITH session <- bridge, outcome <- Outcome,
                                     Sessions <- Bridges
PromiseKept == Promise!Spec
=============================================================================
