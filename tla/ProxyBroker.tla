---------------------------- MODULE ProxyBroker ----------------------------
(***************************************************************************)
(* RemoteBrowserAgentBroker (src/src/broker/remote.ts) in several pi       *)
(* processes that share one port: each proxies its tool calls through the  *)
(* process that owns the port, and competes for the port when the owner    *)
(* goes away.                                                              *)
(*                                                                         *)
(* The owner is seen from its clients: it answers probes and requests,     *)
(* pushes its bridge state, and leaves (module BridgeBroker has its        *)
(* inside).  Every promise that several async functions await at once      *)
(* (connectPromise, promotionPromise) is one piece of state, and each      *)
(* function waiting for it is moved on by its own later step.              *)
(***************************************************************************)
EXTENDS Naturals, Sequences, FiniteSets, SequencesExt

CONSTANTS
    Procs,      \* the secondary pi processes
    Calls,      \* tool calls
    Polls,      \* of these, those that come again and again: a session's recovery
                \* timer, which only wants ensureReady(), and its next tool call
    Home,       \* the process of each call
    Primary,    \* a pi process that bound the port when it started
    Foreign,    \* a program that is not a broker
    Takers,     \* who of these two may take a free port
    None,
    Coalesce,   \* one read of a socket may bring several frames
    MaxExits,   \* bound: how often an owner that is not a proxy leaves
    MaxStops,   \* bound: how often a proxy is stopped
    MaxFrames   \* bound: frames on their way to a proxy when a notification is sent

ASSUME ProxyAssumption ==
    /\ Home \in [Calls -> Procs] /\ Polls \subseteq Calls
    /\ Calls \cap {"promotion", "start"} = {}
    /\ Cardinality({Primary, Foreign, None}) = 3
    /\ {Primary, Foreign, None} \cap Procs = {} /\ Takers \subseteq {Primary, Foreign}
    /\ Coalesce \in BOOLEAN
    /\ MaxExits \in Nat /\ MaxStops \in Nat /\ MaxFrames \in Nat

VARIABLES
    owner,       \* who listens on the port
    bridge,      \* the owner has a Chrome extension bridge
    exits, stops,
    sock,        \* this.socket: null, or its readyState
    valid,       \* this.validatedSocket is this.socket
    inbox,       \* frames on their way to this.socket
    asked,       \* whose frames the owner has still to answer on this.socket
    connecting,  \* this.connectPromise: a handshake is under way
    snap,        \* bridgeConnected of this.remoteProbe
    err,         \* this.startupError # null
    promoted,    \* this.promotedBroker # null
    promo,       \* this.promotionPromise: where the promotion is
    healing,     \* healInBackground() awaits that promotion
    timer,       \* this.healTimer # null
    stopped,     \* this.stopped
    stopAt,      \* where stop() is suspended
    startAt,     \* where start() is suspended
    pc           \* where each call is, in ensureReady() or request()

envVars  == <<owner, bridge, exits, stops>>
linkVars == <<sock, valid, inbox, asked, connecting>>
viewVars == <<snap, err>>
leadVars == <<promoted, promo, healing, timer>>
runVars  == <<stopped, stopAt, startAt>>
vars     == <<envVars, linkVars, viewVars, leadVars, runVars, pc>>

-----------------------------------------------------------------------------
CallState == {"idle",
    "connecting", "probing", "catching", "promoting", "waiting",   \* ensureReady
    "ready", "checked",                                            \* the tool
    "linking", "unlinked", "electing", "unelected", "relinking",   \* request
    "pending", "settled"}
Threads == Calls \cup {"promotion", "start"}
Frames  == [kind : {"reply"}, to : Threads, up : BOOLEAN]
           \cup [kind : {"notify", "close"}, to : {None}, up : BOOLEAN]
Closed  == [kind |-> "close", to |-> None, up |-> FALSE]

Brokers     == Procs \cup {Primary}
\* Mutant: any open socket counts, whoever answered on it.
Connected(p) == sock[p] = "open" /\ ~err[p]
Validated(p) == sock[p] = "open" /\ valid[p] /\ ~err[p]    \* hasValidatedConnection
\* probeConnectivity().bridgeConnected of a proxy that is not promoted.
Claims(p)   == ~promoted[p] /\ Validated(p) /\ snap[p] = "up"
Reached(p)  == sock[p] = "open" /\ \A i \in DOMAIN inbox[p] : inbox[p][i] # Closed

TypeOK ==
    /\ owner \in Brokers \cup {Foreign, None} /\ bridge \in BOOLEAN
    /\ bridge => owner \in Brokers
    /\ exits \in 0..MaxExits /\ stops \in 0..MaxStops
    /\ sock \in [Procs -> {"none", "open", "closing"}]
    /\ inbox \in [Procs -> Seq(Frames)]
    /\ asked \in [Procs -> SUBSET Threads]
    /\ snap \in [Procs -> {"none", "up", "down"}]
    /\ promo \in [Procs -> {"none", "binding", "retreating", "connecting",
                            "probing", "rejected"}]
    /\ stopAt \in [Procs -> {"none", "connect", "promotion", "closing", "broker"}]
    /\ startAt \in [Procs -> {"none", "preparing", "connecting", "probing", "rejected"}]
    /\ valid \in [Procs -> BOOLEAN] /\ connecting \in [Procs -> BOOLEAN]
    /\ err \in [Procs -> BOOLEAN] /\ promoted \in [Procs -> BOOLEAN]
    /\ healing \in [Procs -> BOOLEAN] /\ timer \in [Procs -> BOOLEAN]
    /\ stopped \in [Procs -> BOOLEAN]
    /\ pc \in [Calls -> CallState]
    \* A client of the promise is suspended only while the promise is pending.
    /\ \A p \in Procs : promo[p] = "connecting" \/ startAt[p] = "connecting"
                        => connecting[p]

\* Every process has started as a proxy of Primary.
Init ==
    /\ owner = Primary /\ bridge \in BOOLEAN /\ exits = 0 /\ stops = 0
    /\ sock = [p \in Procs |-> "open"]
    /\ valid = [p \in Procs |-> TRUE]
    /\ inbox = [p \in Procs |-> <<>>]
    /\ asked = [p \in Procs |-> {}]
    /\ connecting = [p \in Procs |-> FALSE]
    /\ snap = [p \in Procs |-> IF bridge THEN "up" ELSE "down"]
    /\ err = [p \in Procs |-> FALSE]
    /\ promoted = [p \in Procs |-> FALSE]
    /\ promo = [p \in Procs |-> "none"]
    /\ healing = [p \in Procs |-> FALSE]
    /\ timer = [p \in Procs |-> FALSE]
    /\ stopped = [p \in Procs |-> FALSE]
    /\ stopAt = [p \in Procs |-> "none"]
    /\ startAt = [p \in Procs |-> "none"]
    /\ pc = [c \in Calls |-> "idle"]
-----------------------------------------------------------------------------
(* Shared steps.                                                           *)

\* A call that is over; the next one of the same session.
Over(c, point) == IF point = "settled" /\ c \in Polls THEN "idle" ELSE point

\* The functions of process p that were suspended at a point go on elsewhere:
\* moves maps points to points.
Resume(p, moves) ==
    pc' = [c \in Calls |->
              IF Home[c] = p /\ pc[c] \in DOMAIN moves
              THEN Over(c, moves[pc[c]]) ELSE pc[c]]

Goto(c, point) == pc' = [pc EXCEPT ![c] = Over(c, point)]

\* Mutant: the socket is lost to its probes only.
RejectedProbes == [probing |-> "catching"]

\* rejectPendingRequests(): probes and requests alike.
RejectedCalls   == [probing |-> "catching", pending |-> "settled"]
Rejected(point) == IF point = "probing" THEN "rejected" ELSE point

\* closeSocket(): this.socket is null, and what was on its way is not read.
DropSocket(p) ==
    /\ sock' = [sock EXCEPT ![p] = "none"]
    /\ valid' = [valid EXCEPT ![p] = FALSE]
    /\ inbox' = [inbox EXCEPT ![p] = <<>>]
    /\ asked' = [asked EXCEPT ![p] = {}]

\* What every await of promoteOrReconnect() does next.
WonCalls  == [promoting |-> "ready", electing |-> "settled"]
\* Mutant: a lost promotion wakes ensureReady() only.
LostCallsPolling == [promoting |-> "waiting"]
LostCalls == [promoting |-> "waiting", electing |-> "unelected"]

\* The awaits that end when a reconnection fails: the probes and requests on
\* the socket it closes, and those for the promotion.
FailedCalls == [point \in DOMAIN RejectedCalls \cup DOMAIN LostCalls |->
                   IF point \in DOMAIN LostCalls THEN LostCalls[point]
                   ELSE RejectedCalls[point]]

\* Mutant: healInBackground() plans no further round.
HealAgainNever(p) ==
    /\ healing' = [healing EXCEPT ![p] = FALSE]
    /\ timer' = timer

\* promoteOrReconnect() resolves to null: healInBackground(), when it awaits
\* it, cancels its timer or sets it.
HealAgain(p) ==
    /\ healing' = [healing EXCEPT ![p] = FALSE]
    /\ timer' = [timer EXCEPT ![p] =
                    IF healing[p] THEN ~Validated(p) /\ ~stopped[p] ELSE @]

\* healInBackground() up to its await, at being the promotionPromise by then.
Heal(p, at) ==
    LET joins == ~stopped[p] /\ ~promoted[p] IN
    /\ healing' = [healing EXCEPT ![p] = @ \/ joins]
    /\ promo' = [promo EXCEPT ![p] = IF joins /\ at = "none" THEN "binding" ELSE at]
    /\ timer' = [timer EXCEPT ![p] = FALSE]

\* Mutant: stop() does not wait for a promotion.
AfterConnectHasty(p) == "closing"

\* stop() awaits first the handshake, then the promotion it finds.
AfterConnect(p)  == IF promo[p] # "none" THEN "promotion" ELSE "closing"
StopGoesOn(p, from, to) ==
    stopAt' = [stopAt EXCEPT ![p] = IF @ = from THEN to ELSE @]

\* The owner releases the port and its connections break.
OwnerLeaves ==
    /\ owner' = None
    /\ bridge' = FALSE
    /\ inbox' = [p \in Procs |-> IF Reached(p) THEN Append(inbox[p], Closed)
                                 ELSE inbox[p]]
    /\ asked' = [p \in Procs |-> {}]

-----------------------------------------------------------------------------
(* The owner of the port, and the network.                                 *)

OwnerExits ==
    /\ owner \in {Primary, Foreign}
    /\ exits < MaxExits
    /\ exits' = exits + 1
    /\ OwnerLeaves
    /\ UNCHANGED <<stops, sock, valid, connecting, viewVars, leadVars, runVars, pc>>

\* Another program, or a new pi process, takes the free port.
PortTaken ==
    /\ owner = None
    /\ owner' \in Takers
    /\ UNCHANGED <<bridge, exits, stops, linkVars, viewVars, leadVars, runVars, pc>>

\* The owner gains or loses its bridge and tells every connected peer.
BridgeFlips ==
    /\ owner \in Brokers
    /\ \A p \in Procs : Reached(p) => Len(inbox[p]) < MaxFrames
    /\ bridge' = ~bridge
    /\ inbox' = [p \in Procs |->
          IF Reached(p)
          THEN Append(inbox[p], [kind |-> "notify", to |-> None, up |-> ~bridge])
          ELSE inbox[p]]
    /\ UNCHANGED <<owner, exits, stops, sock, valid, asked, connecting, viewVars,
                   leadVars, runVars, pc>>

Probing(p) == {c \in Calls : Home[c] = p /\ pc[c] = "probing"}
              \cup {t \in {"promotion"} : promo[p] = "probing"}
              \cup {t \in {"start"} : startAt[p] = "probing"}

OwnerReplies(p, t) ==
    /\ t \in asked[p] \cap Probing(p)
    /\ owner \in Brokers /\ Reached(p)
    /\ inbox' = [inbox EXCEPT ![p] =
                    Append(@, [kind |-> "reply", to |-> t, up |-> bridge])]
    /\ asked' = [asked EXCEPT ![p] = @ \ {t}]
    /\ UNCHANGED <<envVars, sock, valid, connecting, viewVars, leadVars, runVars, pc>>

Answer(c) ==
    LET p == Home[c] IN
    /\ pc[c] = "pending" /\ c \in asked[p]
    /\ owner \in Brokers /\ Reached(p)
    /\ asked' = [asked EXCEPT ![p] = @ \ {c}]
    /\ Goto(c, "settled")
    /\ UNCHANGED <<envVars, sock, valid, inbox, connecting, viewVars, leadVars, runVars>>

-----------------------------------------------------------------------------
(* Frames read by a proxy (handleRawMessage, probePrimary).                *)

Next1(p) == Head(inbox[p])

ReadNotify(p) ==
    /\ inbox[p] # <<>> /\ Next1(p).kind = "notify"
    /\ snap' = [snap EXCEPT ![p] = IF Next1(p).up THEN "up" ELSE "down"]
    /\ inbox' = [inbox EXCEPT ![p] = Tail(@)]
    /\ UNCHANGED <<envVars, sock, valid, asked, connecting, err, leadVars, runVars, pc>>

\* A probe's reply.  The function awaiting it continues after every frame of
\* the same read was handled, so a notification read along with the reply is
\* overwritten by it.  The promotion that reconnected is over.
ReadReply(p) ==
    LET t == Next1(p).to
        up == Next1(p).up
        overtaken == Coalesce /\ Len(inbox[p]) > 1 /\ inbox[p][2].kind = "notify"
    IN
    /\ inbox[p] # <<>> /\ Next1(p).kind = "reply"
    /\ \/ inbox' = [inbox EXCEPT ![p] = Tail(@)]
       \/ overtaken /\ inbox' = [inbox EXCEPT ![p] = Tail(Tail(@))]
    /\ valid' = [valid EXCEPT ![p] = TRUE]
    /\ snap' = [snap EXCEPT ![p] = IF up THEN "up" ELSE "down"]
    /\ err' = [err EXCEPT ![p] = @ /\ t = "start"]
    /\ CASE t = "promotion" ->
              /\ promo' = [promo EXCEPT ![p] = "none"]
              /\ healing' = [healing EXCEPT ![p] = FALSE]
              /\ timer' = [timer EXCEPT ![p] = @ /\ ~healing[p]]
              /\ Resume(p, LostCalls)
              /\ StopGoesOn(p, "promotion", "closing")
              /\ UNCHANGED startAt
         [] t = "start" ->
              /\ startAt' = [startAt EXCEPT ![p] = "none"]
              /\ UNCHANGED <<promo, healing, timer, stopAt, pc>>
         [] OTHER ->
              /\ Goto(t, IF up THEN "ready" ELSE "waiting")
              /\ UNCHANGED <<promo, healing, timer, stopAt, startAt>>
    /\ UNCHANGED <<envVars, sock, asked, connecting, promoted, stopped>>

\* No answer within 1.5 s; a later one finds no entry.
ProbeTimeout(p, t) ==
    LET answer == {i \in DOMAIN inbox[p] : inbox[p][i].kind = "reply" /\ inbox[p][i].to = t}
    IN
    /\ t \in Probing(p)
    /\ asked' = [asked EXCEPT ![p] = @ \ {t}]
    /\ IF answer = {}
       THEN UNCHANGED inbox
       ELSE \E i \in answer : inbox' = [inbox EXCEPT ![p] = RemoveAt(@, i)]
    /\ promo' = [promo EXCEPT ![p] = IF t = "promotion" THEN "rejected" ELSE @]
    /\ startAt' = [startAt EXCEPT ![p] = IF t = "start" THEN "rejected" ELSE @]
    /\ pc' = [c \in Calls |-> IF c = t THEN "catching" ELSE pc[c]]
    /\ UNCHANGED <<envVars, sock, valid, connecting, viewVars, promoted, healing,
                   timer, stopped, stopAt>>

\* The close frame of the owner: readyState is CLOSING, and 'close' will follow.
ReadClose(p) ==
    /\ sock[p] = "open"
    /\ inbox[p] # <<>> /\ Next1(p) = Closed
    /\ sock' = [sock EXCEPT ![p] = "closing"]
    /\ inbox' = [inbox EXCEPT ![p] = <<>>]
    /\ UNCHANGED <<envVars, valid, asked, connecting, viewVars, leadVars, runVars, pc>>

\* Mutant: a lost owner is looked for by the next tool call only.
SocketGoneUnhealed(p) ==
    /\ \/ sock[p] = "closing"
       \/ sock[p] = "open" /\ inbox[p] # <<>> /\ Next1(p) = Closed
    /\ DropSocket(p)
    /\ Resume(p, RejectedCalls)
    /\ startAt' = [startAt EXCEPT ![p] = Rejected(@)]
    /\ promo' = [promo EXCEPT ![p] = Rejected(@)]
    /\ UNCHANGED <<envVars, connecting, viewVars, promoted, healing, timer, stopped, stopAt>>

\* The 'close' or 'error' event of this.socket.
SocketGone(p) ==
    /\ \/ sock[p] = "closing"
       \/ sock[p] = "open" /\ inbox[p] # <<>> /\ Next1(p) = Closed
    /\ DropSocket(p)
    /\ Resume(p, RejectedCalls)
    /\ startAt' = [startAt EXCEPT ![p] = Rejected(@)]
    /\ Heal(p, Rejected(promo[p]))
    /\ UNCHANGED <<envVars, connecting, viewVars, promoted, stopped, stopAt>>

HealTimerFires(p) ==
    /\ timer[p]
    /\ Heal(p, promo[p])
    /\ UNCHANGED <<envVars, linkVars, viewVars, promoted, runVars, pc>>

-----------------------------------------------------------------------------
(* The handshake (ensureConnected).                                        *)

ConnectOk(p) ==
    LET probing == {c \in Calls : Home[c] = p /\ pc[c] = "connecting"}
        sent    == {c \in Calls : Home[c] = p /\ pc[c] \in {"linking", "relinking"}}
    IN
    /\ connecting[p] /\ owner # None /\ ~stopped[p]
    /\ connecting' = [connecting EXCEPT ![p] = FALSE]
    /\ sock' = [sock EXCEPT ![p] = "open"]
    /\ valid' = [valid EXCEPT ![p] = FALSE]
    /\ inbox' = [inbox EXCEPT ![p] = <<>>]
    /\ asked' = [asked EXCEPT ![p] = probing \cup sent
                    \cup {t \in {"promotion"} : promo[p] = "connecting"}
                    \cup {t \in {"start"} : startAt[p] = "connecting"}]
    /\ promo' = [promo EXCEPT ![p] = IF @ = "connecting" THEN "probing" ELSE @]
    /\ startAt' = [startAt EXCEPT ![p] = IF @ = "connecting" THEN "probing" ELSE @]
    /\ pc' = [c \in Calls |-> CASE c \in probing -> "probing"
                                [] c \in sent    -> "pending"
                                [] OTHER         -> pc[c]]
    /\ StopGoesOn(p, "connect", AfterConnect(p))
    /\ UNCHANGED <<envVars, viewVars, promoted, healing, timer, stopped>>

\* Mutant: the handshake of a stopped proxy is dropped without fail().
ConnectFailSilent(p) ==
    /\ connecting[p] /\ ~stopped[p]
    /\ connecting' = [connecting EXCEPT ![p] = FALSE]
    /\ promo' = [promo EXCEPT ![p] = IF @ = "connecting" THEN "rejected" ELSE @]
    /\ startAt' = [startAt EXCEPT ![p] = IF @ = "connecting" THEN "rejected" ELSE @]
    /\ Resume(p, [connecting |-> "catching", linking |-> "unlinked",
                  relinking |-> "settled"])
    /\ StopGoesOn(p, "connect", AfterConnect(p))
    /\ UNCHANGED <<envVars, sock, valid, inbox, asked, viewVars, promoted, healing,
                   timer, stopped>>

\* Refused, no answer within 1.5 s, or stopped meanwhile.
ConnectFail(p) ==
    /\ connecting[p]
    /\ connecting' = [connecting EXCEPT ![p] = FALSE]
    /\ promo' = [promo EXCEPT ![p] = IF @ = "connecting" THEN "rejected" ELSE @]
    /\ startAt' = [startAt EXCEPT ![p] = IF @ = "connecting" THEN "rejected" ELSE @]
    /\ Resume(p, [connecting |-> "catching", linking |-> "unlinked",
                  relinking |-> "settled"])
    /\ StopGoesOn(p, "connect", AfterConnect(p))
    /\ UNCHANGED <<envVars, sock, valid, inbox, asked, viewVars, promoted, healing,
                   timer, stopped>>

-----------------------------------------------------------------------------
(* A call: ensureReady(), the tool's probe check, request().               *)

\* ensureConnected() and then a frame, or the wait for the handshake.
Send(c, sent, waiting) ==
    LET p == Home[c] IN
    IF sock[p] = "open"
    THEN /\ asked' = [asked EXCEPT ![p] = @ \cup {c}]
         /\ Goto(c, sent)
         /\ UNCHANGED connecting
    ELSE /\ connecting' = [connecting EXCEPT ![p] = TRUE]
         /\ Goto(c, waiting)
         /\ UNCHANGED asked

EnsureReady(c) ==
    LET p == Home[c] IN
    /\ pc[c] = "idle"
    /\ IF stopped[p] \/ promoted[p]
       THEN Goto(c, "ready") /\ UNCHANGED <<asked, connecting>>
       ELSE Send(c, "probing", "connecting")
    /\ UNCHANGED <<envVars, sock, valid, inbox, viewVars, leadVars, runVars>>

\* waitForRemoteBridge(): another round, or the budget is spent.
PollAgain(c) ==
    /\ pc[c] = "waiting" /\ ~stopped[Home[c]]
    /\ Send(c, "probing", "connecting")
    /\ UNCHANGED <<envVars, sock, valid, inbox, viewVars, leadVars, runVars>>

WaitOver(c) ==
    /\ pc[c] = "waiting"
    /\ Goto(c, "ready")
    /\ UNCHANGED <<envVars, linkVars, viewVars, leadVars, runVars>>

\* A catch block calls promoteOrReconnect(): joins the promotion under way or
\* starts one, unless it returns at once.
Elect(c, refused, won, joined) ==
    LET p == Home[c] IN
    /\ promo' = [promo EXCEPT ![p] =
                    IF @ = "none" /\ ~stopped[p] /\ ~promoted[p] THEN "binding" ELSE @]
    /\ Goto(c, IF stopped[p] THEN refused ELSE IF promoted[p] THEN won ELSE joined)
    /\ UNCHANGED <<envVars, linkVars, viewVars, promoted, healing, timer, runVars>>

\* Mutant: a failed probe is only repeated.
CatchNotReadyPolls(c) ==
    /\ pc[c] = "catching"
    /\ Goto(c, "waiting")
    /\ UNCHANGED <<envVars, linkVars, viewVars, leadVars, runVars>>

CatchNotReady(c) == pc[c] = "catching" /\ Elect(c, "waiting", "ready", "promoting")
CatchUnlinked(c) == pc[c] = "unlinked" /\ Elect(c, "settled", "settled", "electing")

\* The tool looks at probeConnectivity().  The recovery timer does not.
CheckProbe(c) ==
    LET p == Home[c] IN
    /\ pc[c] = "ready"
    /\ \/ Goto(c, IF Claims(p) THEN "checked" ELSE "settled")
       \/ c \in Polls /\ Goto(c, "settled")
    /\ UNCHANGED <<envVars, linkVars, viewVars, leadVars, runVars>>

\* request(), an await later, and again after a promotion that was not won.
\* Once promoted the call is BridgeBroker's.
Request(c) ==
    LET p == Home[c] IN
    /\ pc[c] \in {"checked", "unelected"}
    /\ IF stopped[p] \/ (promoted[p] /\ pc[c] = "checked")
       THEN Goto(c, "settled") /\ UNCHANGED <<asked, connecting>>
       ELSE Send(c, "pending", IF pc[c] = "checked" THEN "linking" ELSE "relinking")
    /\ UNCHANGED <<envVars, sock, valid, inbox, viewVars, leadVars, runVars>>

\* The tool's own timeout, or Escape.
Timeout(c) ==
    LET p == Home[c] IN
    /\ pc[c] = "pending"
    /\ asked' = [asked EXCEPT ![p] = @ \ {c}]
    /\ Goto(c, "settled")
    /\ UNCHANGED <<envVars, sock, valid, inbox, connecting, viewVars, leadVars, runVars>>

-----------------------------------------------------------------------------
(* promoteOrReconnect().                                                   *)

\* The port is free: the candidate binds it.  After a stop() it is retired.
PromoteWins(p) ==
    /\ promo[p] = "binding" /\ owner = None
    /\ owner' = p
    /\ IF stopped[p]
       THEN /\ promo' = [promo EXCEPT ![p] = "retreating"]
            /\ UNCHANGED <<promoted, healing, timer, viewVars, stopAt, pc>>
       ELSE /\ promo' = [promo EXCEPT ![p] = "none"]
            /\ promoted' = [promoted EXCEPT ![p] = TRUE]
            /\ healing' = [healing EXCEPT ![p] = FALSE]
            /\ timer' = [timer EXCEPT ![p] = FALSE]
            /\ snap' = [snap EXCEPT ![p] = "down"]
            /\ err' = [err EXCEPT ![p] = FALSE]
            /\ Resume(p, WonCalls)
            /\ StopGoesOn(p, "promotion", "closing")
    /\ UNCHANGED <<bridge, exits, stops, linkVars, stopped, startAt>>

Retreat(p) ==
    /\ promo[p] = "retreating"
    /\ OwnerLeaves
    /\ promo' = [promo EXCEPT ![p] = "none"]
    /\ HealAgain(p)
    /\ Resume(p, LostCalls)
    /\ StopGoesOn(p, "promotion", "closing")
    /\ UNCHANGED <<exits, stops, sock, valid, connecting, viewVars, promoted, stopped,
                   startAt>>

\* EADDRINUSE: someone else won, so reconnect to the new owner.
PromoteLoses(p) ==
    /\ promo[p] = "binding" /\ owner # None /\ ~stopped[p]
    /\ IF sock[p] = "open"
       THEN /\ promo' = [promo EXCEPT ![p] = "probing"]
            /\ asked' = [asked EXCEPT ![p] = @ \cup {"promotion"}]
            /\ UNCHANGED connecting
       ELSE /\ promo' = [promo EXCEPT ![p] = "connecting"]
            /\ connecting' = [connecting EXCEPT ![p] = TRUE]
            /\ UNCHANGED asked
    /\ UNCHANGED <<envVars, sock, valid, inbox, viewVars, promoted, healing, timer,
                   runVars, pc>>

\* EADDRINUSE after a stop(), or another error of the candidate's start().
PromoteGivesUp(p) ==
    /\ promo[p] = "binding"
    /\ promo' = [promo EXCEPT ![p] = "none"]
    /\ HealAgain(p)
    /\ Resume(p, LostCalls)
    /\ StopGoesOn(p, "promotion", "closing")
    /\ UNCHANGED <<envVars, linkVars, viewVars, promoted, stopped, startAt>>

\* The reconnection failed: the socket is terminated and another round planned.
ReconnectFailed(p) ==
    /\ promo[p] = "rejected"
    /\ promo' = [promo EXCEPT ![p] = "none"]
    /\ err' = [err EXCEPT ![p] = TRUE]
    /\ DropSocket(p)
    /\ timer' = [timer EXCEPT ![p] = ~stopped[p]]
    /\ healing' = [healing EXCEPT ![p] = FALSE]
    /\ Resume(p, FailedCalls)
    /\ startAt' = [startAt EXCEPT ![p] = Rejected(@)]
    /\ StopGoesOn(p, "promotion", "closing")
    /\ UNCHANGED <<envVars, connecting, snap, promoted, stopped>>

-----------------------------------------------------------------------------
(* start() after a stop(), and stop().                                     *)

Start(p) ==
    /\ stopped[p] /\ startAt[p] = "none"
    /\ stopped' = [stopped EXCEPT ![p] = FALSE]
    /\ err' = [err EXCEPT ![p] = FALSE]
    /\ startAt' = [startAt EXCEPT ![p] = "preparing"]
    /\ UNCHANGED <<envVars, linkVars, snap, leadVars, stopAt, pc>>

\* The task store is ready: ensureConnected(), probePrimary().
StartConnects(p) ==
    /\ startAt[p] = "preparing"
    /\ IF stopped[p]
       THEN /\ startAt' = [startAt EXCEPT ![p] = "rejected"]
            /\ UNCHANGED <<asked, connecting>>
       ELSE IF sock[p] = "open"
       THEN /\ startAt' = [startAt EXCEPT ![p] = "probing"]
            /\ asked' = [asked EXCEPT ![p] = @ \cup {"start"}]
            /\ UNCHANGED connecting
       ELSE /\ startAt' = [startAt EXCEPT ![p] = "connecting"]
            /\ connecting' = [connecting EXCEPT ![p] = TRUE]
            /\ UNCHANGED asked
    /\ UNCHANGED <<envVars, sock, valid, inbox, viewVars, leadVars, stopped, stopAt, pc>>

\* The connection or the probe failed, or the task store did, before the try.
StartFails(p) ==
    /\ \/ startAt[p] = "rejected" /\ err' = [err EXCEPT ![p] = TRUE]
       \/ startAt[p] = "preparing" /\ err' = err
    /\ startAt' = [startAt EXCEPT ![p] = "none"]
    /\ UNCHANGED <<envVars, linkVars, snap, leadVars, stopped, stopAt, pc>>

\* Mutant: stop() forgets the handshake instead of awaiting it.
StopUnconnects(p) ==
    /\ ~stopped[p] /\ stopAt[p] = "none"
    /\ stops < MaxStops
    /\ stops' = stops + 1
    /\ stopped' = [stopped EXCEPT ![p] = TRUE]
    /\ timer' = [timer EXCEPT ![p] = FALSE]
    /\ connecting' = [connecting EXCEPT ![p] = FALSE]
    /\ DropSocket(p)
    /\ Resume(p, RejectedCalls)
    /\ promo' = [promo EXCEPT ![p] = Rejected(@)]
    /\ startAt' = [startAt EXCEPT ![p] = Rejected(@)]
    /\ stopAt' = [stopAt EXCEPT ![p] = AfterConnect(p)]
    /\ UNCHANGED <<owner, bridge, exits, viewVars, promoted, healing>>

\* stop() up to its first await.
Stop(p) ==
    /\ ~stopped[p] /\ stopAt[p] = "none"
    /\ stops < MaxStops
    /\ stops' = stops + 1
    /\ stopped' = [stopped EXCEPT ![p] = TRUE]
    /\ timer' = [timer EXCEPT ![p] = FALSE]
    /\ DropSocket(p)
    /\ Resume(p, RejectedCalls)
    /\ promo' = [promo EXCEPT ![p] = Rejected(@)]
    /\ startAt' = [startAt EXCEPT ![p] = Rejected(@)]
    /\ stopAt' = [stopAt EXCEPT ![p] = IF connecting[p] THEN "connect" ELSE AfterConnect(p)]
    /\ UNCHANGED <<owner, bridge, exits, connecting, viewVars, promoted, healing>>

\* Mutant: the promoted broker is dropped, not stopped.
StopForgetsBroker(p) ==
    /\ stopAt[p] = "closing"
    /\ DropSocket(p)
    /\ promoted' = [promoted EXCEPT ![p] = FALSE]
    /\ stopAt' = [stopAt EXCEPT ![p] = "none"]
    /\ UNCHANGED <<envVars, connecting, viewVars, promo, healing, timer, stopped,
                   startAt, pc>>

\* The handshake and the promotion it found are over: close what they left.
StopCloses(p) ==
    /\ stopAt[p] = "closing"
    /\ DropSocket(p)
    /\ promoted' = [promoted EXCEPT ![p] = FALSE]
    /\ stopAt' = [stopAt EXCEPT ![p] = IF promoted[p] THEN "broker" ELSE "none"]
    /\ UNCHANGED <<envVars, connecting, viewVars, promo, healing, timer, stopped,
                   startAt, pc>>

\* The promoted broker's own stop() has released the port.
StopReleases(p) ==
    /\ stopAt[p] = "broker"
    /\ OwnerLeaves
    /\ stopAt' = [stopAt EXCEPT ![p] = "none"]
    /\ UNCHANGED <<exits, stops, sock, valid, connecting, viewVars, leadVars,
                   stopped, startAt, pc>>

-----------------------------------------------------------------------------
OwnerStep == OwnerExits \/ PortTaken \/ BridgeFlips

ProxyStep(p) ==
    \/ \E t \in Threads : OwnerReplies(p, t) \/ ProbeTimeout(p, t)
    \/ ReadNotify(p) \/ ReadReply(p) \/ ReadClose(p) \/ SocketGone(p)
    \/ HealTimerFires(p) \/ ConnectOk(p) \/ ConnectFail(p)
    \/ PromoteWins(p) \/ Retreat(p) \/ PromoteLoses(p) \/ PromoteGivesUp(p)
    \/ ReconnectFailed(p)
    \/ Start(p) \/ StartConnects(p) \/ StartFails(p)
    \/ Stop(p) \/ StopCloses(p) \/ StopReleases(p)

CallStep(c) ==
    \/ EnsureReady(c) \/ PollAgain(c) \/ WaitOver(c) \/ CatchNotReady(c)
    \/ CheckProbe(c) \/ Request(c) \/ CatchUnlinked(c) \/ Answer(c) \/ Timeout(c)

Next == OwnerStep \/ (\E p \in Procs : ProxyStep(p)) \/ (\E c \in Calls : CallStep(c))

Spec == Init /\ [][Next]_vars

\* A proxy that never ceases to probe a broker is answered in time now and then.
ProbesHeard(p) == <>[](Probing(p) = {} \/ owner \notin Brokers)
                  \/ []<><<ReadReply(p)>>_vars

\* Sockets deliver, timers fire, suspended functions go on.  An attempt that is
\* repeated for ever does not fail for ever: a handshake or a probe is answered
\* in time by a broker that is there, and a free port is bound.
Fairness ==
    /\ \A p \in Procs :
          /\ WF_vars(ReadNotify(p) \/ ReadReply(p) \/ ReadClose(p) \/ SocketGone(p))
          /\ \A t \in Threads : WF_vars(ProbeTimeout(p, t))
          /\ WF_vars(ConnectOk(p) \/ ConnectFail(p)) /\ SF_vars(ConnectOk(p))
          /\ ProbesHeard(p)
          /\ WF_vars(HealTimerFires(p))
          /\ WF_vars(PromoteLoses(p) \/ PromoteGivesUp(p) \/ ReconnectFailed(p) \/ Retreat(p))
          /\ SF_vars(PromoteWins(p) \/ PromoteLoses(p))
          /\ WF_vars(StartConnects(p) \/ StartFails(p) \/ StopCloses(p) \/ StopReleases(p))
    /\ \A c \in Calls :
          /\ WF_vars(CatchNotReady(c) \/ CheckProbe(c) \/ Request(c)
                     \/ CatchUnlinked(c) \/ Timeout(c))
          /\ SF_vars(WaitOver(c))        \* the budget of waitForRemoteBridge()
          /\ c \in Polls => WF_vars(EnsureReady(c))

FairSpec == Spec /\ Fairness

-----------------------------------------------------------------------------
(* Safety.                                                                 *)

\* A proxy that has read everything sent to it claims a bridge only if the
\* owner of the port has one: no stale snapshot survives a reconnection, a
\* failed probe or a foreign listener.  The comment at server.ts:382 promises
\* as much: nobody is left with a stale "connected" until the next poll.
ProxyHonest ==
    \A p \in Procs : Claims(p) /\ inbox[p] = <<>> => bridge

\* Every listener has someone who will close it: a published broker, a
\* candidate about to be retired, or a stop() that waits for it.
NoLeakedListener ==
    \A p \in Procs :
        owner = p <=> promoted[p] \/ promo[p] = "retreating" \/ stopAt[p] = "broker"

\* A stop() that has returned stays final until the next start(): no socket, no
\* timer, no promotion, no port, no request waiting.
StoppedIsQuiet ==
    \A p \in Procs : stopped[p] /\ stopAt[p] = "none" =>
        /\ sock[p] = "none" /\ ~connecting[p] /\ ~timer[p]
        /\ promo[p] = "none" /\ ~promoted[p] /\ owner # p
        /\ \A c \in Calls : Home[c] = p => pc[c] # "pending"

\* An unfinished recovery is in somebody's hands: a process that lost its owner
\* has a promotion under way, a timer set, or a handshake to wait for.
HealingContinues ==
    \A p \in Procs : ~stopped[p] /\ stops = 0 =>
        \/ promoted[p] \/ sock[p] # "none"
        \/ timer[p] \/ promo[p] # "none"

\* Whatever takes a socket away rejects the requests that were sent on it, but
\* for two things: a socket that is closing already may be replaced by a new one
\* before its 'close' event, which then finds another (remote.ts:471), and a
\* stop() that a start() has overtaken closes a socket without rejecting again.
RequestsEndWithSocket ==
    [][\A c \in Calls :
          LET p == Home[c]
              replaced == connecting[p] /\ ~connecting'[p] /\ sock'[p] = "open"
          IN  pc[c] = "pending" /\ pc'[c] = "pending" /\ sock[p] # "none" =>
                 \/ sock'[p] # "none" /\ (replaced => sock[p] = "closing")
                 \/ stopAt[p] = "closing" /\ ~stopped[p]]_vars

-----------------------------------------------------------------------------
(* Liveness, under FairSpec.                                               *)

\* A process that lost the owner of the port finds the next one or becomes it.
Recovers ==
    \A p \in Procs :
        ~stopped[p] ~> stopped[p] \/ promoted[p] \/ Validated(p) \/ owner = Foreign

\* Every call ends, however often its proxy changes owner or is stopped.
CallsEnd == \A c \in Calls : pc[c] # "idle" ~> pc[c] \in {"idle", "settled"}

\* Every stop() returns: nothing it awaits depends on what it has closed.
StopsEnd == \A p \in Procs : stopAt[p] # "none" ~> stopAt[p] = "none"
=============================================================================
