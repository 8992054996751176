-------------------------- MODULE SessionLifecycle --------------------------
(***************************************************************************)
(* How one pi process acquires, shares and gives up its broker: the        *)
(* session events and signal handlers of src/src/index.ts, and the handle  *)
(* through which the tools reach the broker (LazyBrokerHandle, lazy.ts).   *)
(*                                                                         *)
(* A broker is seen from outside: it is a primary or a proxy, it listens   *)
(* or not, its start() and stop() take time.  What happens inside is the   *)
(* business of BridgeBroker and ProxyBroker.  JavaScript runs what a       *)
(* resolved promise resumes before any other event: see Drained.           *)
(***************************************************************************)
EXTENDS Naturals, Sequences, FiniteSets, SequencesExt

CONSTANTS
    Brokers,     \* broker objects; one that nobody refers to is used again
    Sessions,    \* sessions; each has a handle and a recovery timer
    Calls,       \* tool calls
    CallOf,      \* the session whose handle a call captured
    Closures,    \* bound: runs of onSuspend's closure under way at once
    Other,       \* a pi process with a broker
    Foreign,     \* a program that is not a broker
    None,
    MaxOps,      \* bound: start() and stop() calls under way at a signal
    MaxMoves     \* bound: how often other processes take or leave the port

ASSUME LifecycleAssumption ==
    /\ CallOf \in [Calls -> Sessions]
    /\ Calls \cap Sessions = {}
    /\ Closures \cap (Calls \cup Sessions) = {}
    /\ (Calls \cup Sessions \cup Closures) \cap {"startup", "shutdown", "resume"} = {}
    /\ Cardinality({Other, Foreign, None}) = 3
    /\ {Other, Foreign, None} \cap (Brokers \cup Sessions) = {}
    /\ MaxMoves \in Nat /\ MaxOps \in Nat

VARIABLES
    owner, moves,   \* who listens on the port; how often that was not us
    kind, up,       \* of a broker: its class, and brokerListening
    stopped,        \* of a proxy: this.stopped (module ProxyBroker)
    ops,            \* of a broker: start() and stop() calls not finished
    singleton,      \* brokerSingleton
    startup,        \* brokerStartup: where it is suspended
    shuttingDown,   \* brokerShuttingDown
    suspending,     \* suspending
    handlers,       \* removeSignalHandlers # null
    session,        \* the session whose number is sessionLifecycleGeneration
    shutdownAt,     \* where session_shutdown is suspended
    suspendAt,      \* of a closure of onSuspend: where it is suspended
    suspended,      \* of a closure of onSuspend: the broker it found
    frozen,         \* SIGSTOP
    stage,          \* where registerSessionTool() is in a session
    disposed,       \* of a handle: disposed
    current,        \* of a handle: current
    resolving,      \* of a handle: resolve() awaits the broker
    pc, brk         \* of a call or timer: where it is, the broker it uses

portVars    == <<owner, moves>>
brokerVars  == <<kind, up, stopped, ops>>
acquireVars == <<singleton, startup>>
processVars == <<shuttingDown, suspending, handlers, session, shutdownAt, suspendAt,
                 suspended, frozen>>
handleVars  == <<stage, disposed, current, resolving>>
threadVars  == <<pc, brk>>
vars == <<portVars, brokerVars, acquireVars, processVars, handleVars, threadVars>>

-----------------------------------------------------------------------------
Threads == Calls \cup Sessions       \* a session stands for its recovery timer
Of(t)   == IF t \in Calls THEN CallOf[t] ELSE t
Clients == {"startup", "shutdown", "resume"} \cup Closures \cup Threads
Idle    == [at |-> "none", broker |-> None, outdated |-> FALSE]

TypeOK ==
    /\ owner \in Brokers \cup {Other, Foreign, None} /\ moves \in 0..MaxMoves
    /\ kind \in [Brokers -> {"none", "primary", "proxy"}]
    /\ up \in [Brokers -> BOOLEAN] /\ stopped \in [Brokers -> BOOLEAN]
    /\ ops \in [Brokers -> Seq([op : {"start", "stop"}, by : Clients])]
    /\ singleton \in Brokers \cup {None}
    /\ startup = Idle \/ startup \in
          [at : {"retiring", "starting", "publishing", "proxying", "cleaning", "cancelling"},
           broker : Brokers, outdated : BOOLEAN]
    /\ \A flag \in {shuttingDown, suspending, handlers, frozen} : flag \in BOOLEAN
    /\ session \in Sessions \cup {None}
    /\ shutdownAt \in {"none", "startup", "stop", "unpublish"}
    /\ suspendAt \in [Closures -> {"none", "startup", "stop", "freeze"}]
    /\ suspended \in [Closures -> Brokers \cup {None}]
    /\ stage \in [Sessions -> {"none", "preparing", "acquiring", "live", "over"}]
    /\ disposed \in [Sessions -> BOOLEAN] /\ resolving \in [Sessions -> BOOLEAN]
    /\ current \in [Sessions -> Brokers \cup {None}]
    /\ pc \in [Threads -> {"idle", "resolving", "ensuring", "rebinding", "bridging"}]
    /\ brk \in [Threads -> Brokers \cup {None}]
    \* Nobody waits for a startup that is over.
    /\ \A s \in Sessions : stage[s] = "acquiring" => startup # Idle
    /\ \A t \in Threads : pc[t] = "resolving" => startup # Idle

Init ==
    /\ owner \in {None, Other, Foreign} /\ moves = 0
    /\ kind = [b \in Brokers |-> "none"]
    /\ up = [b \in Brokers |-> FALSE]
    /\ stopped = [b \in Brokers |-> FALSE]
    /\ ops = [b \in Brokers |-> <<>>]
    /\ singleton = None /\ startup = Idle
    /\ shuttingDown = FALSE /\ suspending = FALSE /\ handlers = FALSE
    /\ session = None
    /\ shutdownAt = "none"
    /\ suspendAt = [g \in Closures |-> "none"]
    /\ suspended = [g \in Closures |-> None]
    /\ frozen = FALSE
    /\ stage = [s \in Sessions |-> "none"]
    /\ disposed = [s \in Sessions |-> FALSE]
    /\ current = [s \in Sessions |-> None]
    /\ resolving = [s \in Sessions |-> FALSE]
    /\ pc = [t \in Threads |-> "idle"]
    /\ brk = [t \in Threads |-> None]

-----------------------------------------------------------------------------
(* A broker from outside.                                                  *)

\* A proxy heals, and so may bind the port, until its stop() is called.
Heals(b) == kind[b] = "proxy" /\ ~stopped[b]

Referred(b) ==
    \/ singleton = b \/ startup.broker = b \/ owner = b \/ Heals(b)
    \/ ops[b] # <<>>
    \/ \E g \in Closures : suspended[g] = b
    \/ \E s \in Sessions : ~disposed[s] /\ current[s] = b
    \/ \E t \in Threads : brk[t] = b

Call(b, op, client) == ops' = [ops EXCEPT ![b] = Append(@, [op |-> op, by |-> client])]

\* A proxy takes note of stop() at once, a primary when its turn comes.
CallStop(b, client) ==
    /\ Call(b, "stop", client)
    /\ stopped' = [stopped EXCEPT ![b] = kind[b] = "proxy"]
    /\ up' = [up EXCEPT ![b] = @ /\ kind[b] = "primary"]
    /\ UNCHANGED kind

CallStart(b, client) ==
    /\ Call(b, "start", client)
    /\ stopped' = [stopped EXCEPT ![b] = FALSE]
    /\ UNCHANGED <<kind, up>>

\* new BrowserAgentBroker or new RemoteBrowserAgentBroker, and start().
Make(b, class) ==
    /\ ~Referred(b)
    /\ Call(b, "start", "startup")
    /\ kind' = [kind EXCEPT ![b] = class]
    /\ up' = [up EXCEPT ![b] = FALSE]
    /\ stopped' = [stopped EXCEPT ![b] = FALSE]

\* serializeLifecycle() runs a primary's calls in turn; a proxy's overlap.
Ends(b, i, op, client) ==
    /\ kind[b] = "primary" => i = 1
    /\ ops[b][i] = [op |-> op, by |-> client]
Ended(b, i) == ops' = [ops EXCEPT ![b] = RemoveAt(@, i)]
Linked      == {b \in Brokers : kind[b] = "proxy" /\ up[b] /\ owner # b}

\* What the end of a stop() and of a start() that worked do to the port.
Released(b) ==
    /\ owner' = IF owner = b THEN None ELSE owner
    /\ up' = [c \in Brokers |-> up[c] /\ c # b /\ ~(owner = b /\ c \in Linked)]

StartWorks(b) == IF kind[b] = "primary" THEN up[b] \/ owner = None
                 ELSE ~stopped[b] /\ owner \notin {None, Foreign}
Started(b) ==
    /\ owner' = IF kind[b] = "primary" THEN b ELSE owner
    /\ up' = [up EXCEPT ![b] = TRUE]

-----------------------------------------------------------------------------
(* getOrCreateBroker().                                                    *)

\* What the caller finds: an error, a broker, a startup to wait for, or none.
Acquisition ==
    IF shuttingDown THEN "refused"
    ELSE IF singleton # None /\ up[singleton] THEN "reuse"
    ELSE IF startup # Idle THEN "join"
    ELSE "begin"
Healthy == ~shuttingDown /\ singleton # None /\ up[singleton]

\* Mutant: the stale broker is forgotten, not stopped.
BeginAbandons ==
    /\ Acquisition = "begin"
    /\ \E b \in Brokers :
          /\ Make(b, "primary")
          /\ startup' = [at |-> "starting", broker |-> b, outdated |-> FALSE]
    /\ singleton' = None

\* A singleton that does not listen is stopped before its successor is made.
Begin ==
    /\ Acquisition = "begin"
    /\ IF singleton # None
       THEN /\ CallStop(singleton, "startup")
            /\ singleton' = None
            /\ startup' = [at |-> "retiring", broker |-> singleton, outdated |-> FALSE]
       ELSE \E b \in Brokers :
            /\ Make(b, "primary")
            /\ startup' = [at |-> "starting", broker |-> b, outdated |-> FALSE]
            /\ UNCHANGED singleton

\* What a caller does about it: only the one who finds nothing begins.
Acquire ==
    \/ Begin
    \/ Acquisition # "begin" /\ UNCHANGED <<brokerVars, acquireVars>>

\* The promise settles and everyone who awaits it goes on: resolve() of the
\* handles with its callers, and the sessions that acquire eagerly.
Settle(b) ==
    LET eager(s) == stage[s] = "acquiring" IN
    /\ startup' = Idle
    /\ singleton' = IF b = None THEN singleton ELSE b
    /\ current' = [s \in Sessions |->
          IF b # None /\ (resolving[s] \/ (eager(s) /\ ~disposed[s])) THEN b
          ELSE current[s]]
    /\ resolving' = [s \in Sessions |-> FALSE]
    /\ stage' = [s \in Sessions |->
          IF eager(s) THEN IF disposed[s] THEN "over" ELSE "live" ELSE stage[s]]
    /\ pc' = [t \in Threads |-> IF pc[t] # "resolving" THEN pc[t]
                                ELSE IF b = None THEN "idle" ELSE "ensuring"]
    /\ brk' = [t \in Threads |-> IF pc[t] = "resolving" THEN b ELSE brk[t]]
    /\ UNCHANGED disposed

Cancelled   == shuttingDown \/ startup.outdated
GoesOn(at)  == startup' = [startup EXCEPT !.at = at]
Waits       == UNCHANGED <<singleton, handleVars, threadVars>>

\* The next broker of this startup, when the call i of broker b is over.
Successor(b, i, class, at) ==
    \E c \in Brokers :
        /\ c # b /\ ~Referred(c)
        /\ ops' = [ops EXCEPT ![b] = RemoveAt(@, i),
                              ![c] = <<[op |-> "start", by |-> "startup"]>>]
        /\ kind' = [kind EXCEPT ![c] = class]
        /\ stopped' = [stopped EXCEPT ![c] = FALSE]
        /\ startup' = [startup EXCEPT !.at = at, !.broker = c]
        /\ Waits

\* Broker b is not wanted: stop it, and wait for that.
Retire(b, rest, at) ==
    /\ ops' = [ops EXCEPT ![b] = Append(rest, [op |-> "stop", by |-> "startup"])]
    /\ stopped' = [stopped EXCEPT ![b] = kind[b] = "proxy"]
    /\ GoesOn(at)
    /\ Waits
    /\ UNCHANGED kind

\* The stale broker is gone: make its successor, unless cancelled meanwhile.
StaleStopped(b, i) ==
    /\ startup.at = "retiring" /\ Ends(b, i, "stop", "startup")
    /\ Released(b)
    /\ IF Cancelled THEN Ended(b, i) /\ Settle(None) /\ UNCHANGED <<kind, stopped>>
                    ELSE Successor(b, i, "primary", "starting")
    /\ UNCHANGED <<moves, processVars>>

\* The primary is bound, and its instance file is being written.
PrimaryStarted(b, i) ==
    /\ startup.at = "starting" /\ Ends(b, i, "start", "startup")
    /\ StartWorks(b) /\ Started(b) /\ Ended(b, i)
    /\ GoesOn("publishing")
    /\ Waits /\ UNCHANGED <<moves, kind, stopped, processVars>>

\* Mutant: no second check, the late broker is published.
PublishedUnchecked ==
    /\ startup.at = "publishing"
    /\ Settle(startup.broker)
    /\ UNCHANGED <<portVars, brokerVars, processVars>>

\* The second check: a shutdown or suspend since then must not find it later.
Published ==
    LET b == startup.broker IN
    /\ startup.at = "publishing"
    /\ IF Cancelled THEN Retire(b, ops[b], "cancelling")
                    ELSE Settle(b) /\ UNCHANGED <<kind, stopped, ops>>
    /\ UNCHANGED <<portVars, up, processVars>>

\* EADDRINUSE: proxy through whoever listens.  Another error is final.
PrimaryFailed(b, i) ==
    /\ startup.at = "starting" /\ Ends(b, i, "start", "startup")
    /\ IF owner # None THEN Successor(b, i, "proxy", "proxying")
                       ELSE Ended(b, i) /\ Settle(None) /\ UNCHANGED <<kind, stopped>>
    /\ UNCHANGED <<portVars, up, processVars>>

ProxyStarted(b, i) ==
    /\ startup.at = "proxying" /\ Ends(b, i, "start", "startup")
    /\ StartWorks(b)
    /\ IF Cancelled
       THEN Retire(b, RemoveAt(ops[b], i), "cancelling") /\ UNCHANGED <<owner, up>>
       ELSE Started(b) /\ Ended(b, i) /\ Settle(b) /\ UNCHANGED <<kind, stopped>>
    /\ UNCHANGED <<moves, processVars>>

\* Mutant: the candidate whose start() failed is left to itself.
ProxyFailedAbandons(b, i) ==
    /\ startup.at = "proxying" /\ Ends(b, i, "start", "startup")
    /\ Ended(b, i) /\ Settle(None)
    /\ UNCHANGED <<portVars, kind, up, stopped, processVars>>

ProxyFailed(b, i) ==
    /\ startup.at = "proxying" /\ Ends(b, i, "start", "startup")
    /\ Retire(b, RemoveAt(ops[b], i), "cleaning")
    /\ up' = [up EXCEPT ![b] = FALSE]
    /\ UNCHANGED <<portVars, processVars>>

CandidateStopped(b, i) ==
    /\ startup.at \in {"cleaning", "cancelling"} /\ Ends(b, i, "stop", "startup")
    /\ Released(b) /\ Ended(b, i) /\ Settle(None)
    /\ UNCHANGED <<moves, kind, stopped, processVars>>

-----------------------------------------------------------------------------
(* ensureReady() of the handle, called by a tool or by the recovery timer. *)

Reaches(t, b) == pc' = [pc EXCEPT ![t] = "ensuring"] /\ brk' = [brk EXCEPT ![t] = b]

EnsureReady(t) ==
    LET s == Of(t) IN
    /\ pc[t] = "idle" /\ stage[s] \in {"acquiring", "live", "over"}
    /\ t \in Sessions => ~suspending /\ ~shuttingDown
    /\ ~disposed[s]
    /\ IF current[s] # None
       THEN /\ Reaches(t, current[s])
            /\ UNCHANGED <<brokerVars, acquireVars, current, resolving>>
       ELSE IF ~resolving[s] /\ Healthy
       THEN /\ Reaches(t, singleton)
            /\ current' = [current EXCEPT ![s] = singleton]
            /\ UNCHANGED <<brokerVars, acquireVars, resolving>>
       ELSE /\ resolving[s] \/ ~shuttingDown
            /\ pc' = [pc EXCEPT ![t] = "resolving"]
            /\ resolving' = [resolving EXCEPT ![s] = TRUE]
            /\ IF resolving[s] THEN UNCHANGED <<brokerVars, acquireVars>> ELSE Acquire
            /\ UNCHANGED <<current, brk>>
    /\ UNCHANGED <<portVars, processVars, stage, disposed>>

\* broker.ensureReady(): a primary that does not listen starts again, whoever
\* stopped it; a proxy that was stopped returns.
BrokerReady(t) ==
    LET b == brk[t] IN
    /\ pc[t] = "ensuring"
    /\ IF kind[b] = "primary" /\ ~up[b]
       THEN /\ CallStart(b, t)
            /\ pc' = [pc EXCEPT ![t] = "rebinding"]
       ELSE /\ pc' = [pc EXCEPT ![t] = "bridging"]
            /\ UNCHANGED brokerVars
    /\ UNCHANGED <<portVars, acquireVars, processVars, handleVars, brk>>

Rebound(t, b, i) ==
    /\ Ends(b, i, "start", t)
    /\ StartWorks(b) /\ Started(b) /\ Ended(b, i)
    /\ pc' = [pc EXCEPT ![t] = "bridging"]
    /\ UNCHANGED <<moves, kind, stopped, acquireVars, processVars, handleVars, brk>>

\* Mutant: a primary without a port is kept.
ReturnsKeeping(t) ==
    /\ pc' = [pc EXCEPT ![t] = "idle"]
    /\ brk' = [brk EXCEPT ![t] = None]
    /\ UNCHANGED current

\* The rest of ensureReady(): a primary without a port is dropped.
Returns(t) ==
    /\ pc' = [pc EXCEPT ![t] = "idle"]
    /\ brk' = [brk EXCEPT ![t] = None]
    /\ current' = [current EXCEPT ![Of(t)] =
                      IF kind[brk[t]] = "primary" /\ ~up[brk[t]] THEN None ELSE @]

ReboundFailed(t, b, i) ==
    /\ Ends(b, i, "start", t) /\ ~up[b]
    /\ Ended(b, i)
    /\ Returns(t)
    /\ UNCHANGED <<portVars, kind, up, stopped, acquireVars, processVars, stage,
                   disposed, resolving>>

BridgeWaited(t) ==
    /\ pc[t] = "bridging"
    /\ Returns(t)
    /\ UNCHANGED <<portVars, brokerVars, acquireVars, processVars, stage, disposed,
                   resolving>>

-----------------------------------------------------------------------------
(* Sessions.                                                               *)

\* Mutant: the handles let go of their broker, and may get another.
DisposeForgets(others) ==
    /\ disposed' = disposed
    /\ current' = [s \in Sessions |-> IF s \in others THEN None ELSE current[s]]

Dispose(others) ==
    /\ disposed' = [s \in Sessions |-> disposed[s] \/ s \in others]
    /\ current' = [s \in Sessions |-> IF s \in others THEN None ELSE current[s]]

InUse(s) == stage[s] \in {"preparing", "acquiring"} \/ \E t \in Threads : Of(t) = s /\ pc[t] # "idle"

\* session_start.  Every earlier session is over.
SessionStart(s) ==
    /\ shutdownAt = "none" /\ s # session /\ ~InUse(s)
    /\ handlers' = TRUE
    /\ session' = s
    /\ Dispose(Sessions)
    /\ stage' = [r \in Sessions |-> IF r = s THEN "preparing"
                                    ELSE IF stage[r] = "live" THEN "over" ELSE stage[r]]
    /\ resolving' = [resolving EXCEPT ![s] = FALSE]
    /\ UNCHANGED <<portVars, brokerVars, acquireVars, shuttingDown, suspending,
                   shutdownAt, suspendAt, suspended, frozen, threadVars>>

\* The session's task store is ready.  A session that is not the latest any
\* more ends here; the others get a handle, a timer and, at best, a broker.
SessionPrepared(s) ==
    /\ stage[s] = "preparing"
    /\ IF session # s
       THEN /\ stage' = [stage EXCEPT ![s] = "over"]
            /\ UNCHANGED <<brokerVars, acquireVars, disposed, current>>
       ELSE /\ disposed' = [disposed EXCEPT ![s] = FALSE]
            /\ current' = [current EXCEPT ![s] = IF Healthy THEN singleton ELSE None]
            /\ stage' = [stage EXCEPT ![s] =
                            IF Healthy \/ shuttingDown THEN "live" ELSE "acquiring"]
            /\ Acquire
    /\ UNCHANGED <<portVars, processVars, resolving, threadVars>>

Outdate == startup' = [startup EXCEPT !.outdated = startup # Idle]

\* session_shutdown up to its first await.
SessionShutdown ==
    /\ shutdownAt = "none" /\ session # None
    /\ handlers' = FALSE /\ suspending' = FALSE
    /\ shuttingDown' = TRUE
    /\ session' = None
    /\ Dispose(Sessions)
    /\ stage' = [s \in Sessions |-> IF stage[s] = "live" THEN "over" ELSE stage[s]]
    /\ shutdownAt' = "startup"
    /\ Outdate
    /\ UNCHANGED <<portVars, brokerVars, singleton, suspendAt, suspended, frozen, resolving,
                   threadVars>>

\* The startup under way is over: take the broker and stop it.
ShutdownStops ==
    /\ shutdownAt = "startup" /\ startup = Idle
    /\ singleton' = None
    /\ IF singleton = None
       THEN shutdownAt' = "unpublish" /\ UNCHANGED brokerVars
       ELSE shutdownAt' = "stop" /\ CallStop(singleton, "shutdown")
    /\ UNCHANGED <<portVars, startup, shuttingDown, suspending, handlers, session,
                   suspendAt, suspended, frozen, handleVars, threadVars>>

ShutdownStopped(b, i) ==
    /\ Ends(b, i, "stop", "shutdown")
    /\ Released(b) /\ Ended(b, i)
    /\ shutdownAt' = "unpublish"
    /\ UNCHANGED <<moves, kind, stopped, acquireVars, shuttingDown, suspending, handlers,
                   session, suspendAt, suspended, frozen, handleVars, threadVars>>

\* The instance file is removed.
ShutdownDone ==
    /\ shutdownAt = "unpublish"
    /\ shutdownAt' = "none"
    /\ shuttingDown' = FALSE
    /\ UNCHANGED <<portVars, brokerVars, acquireVars, suspending, handlers, session,
                   suspendAt, suspended, frozen, handleVars, threadVars>>

-----------------------------------------------------------------------------
(* SIGTSTP and SIGCONT.                                                    *)

\* A suspension runs in a closure of its own.  SIGCONT ends a suspension, not its
\* closure, so that the closures of several suspensions may overlap.
Suspend(g) ==
    /\ handlers /\ ~suspending /\ suspendAt[g] = "none"
    /\ \A b \in Brokers : Len(ops[b]) < MaxOps
    /\ suspending' = TRUE /\ shuttingDown' = TRUE
    /\ Outdate
    /\ suspendAt' = [suspendAt EXCEPT ![g] = "startup"]
    /\ suspended' = [suspended EXCEPT ![g] = singleton]
    /\ UNCHANGED <<portVars, brokerVars, singleton, handlers, session, shutdownAt,
                   frozen, handleVars, threadVars>>

\* The startup that was under way is over: stop the broker seen at the signal.
\* Without one the process stops itself at once.
SuspendStops(g) ==
    /\ suspendAt[g] = "startup" /\ startup = Idle
    /\ IF suspended[g] = None
       THEN /\ suspendAt' = [suspendAt EXCEPT ![g] = "none"]
            /\ frozen' = TRUE
            /\ UNCHANGED brokerVars
       ELSE /\ suspendAt' = [suspendAt EXCEPT ![g] = "stop"]
            /\ CallStop(suspended[g], g)
            /\ UNCHANGED frozen
    /\ suspended' = [suspended EXCEPT ![g] = None]
    /\ UNCHANGED <<portVars, acquireVars, shuttingDown, suspending, handlers, session,
                   shutdownAt, handleVars, threadVars>>

SuspendStopped(b, i, g) ==
    /\ Ends(b, i, "stop", g)
    /\ Released(b) /\ Ended(b, i)
    /\ suspendAt' = [suspendAt EXCEPT ![g] = "freeze"]
    /\ UNCHANGED <<moves, kind, stopped, acquireVars, shuttingDown, suspending, handlers,
                   session, suspended, shutdownAt, frozen, handleVars, threadVars>>

\* The instance file is removed, and the process stops itself, whether or not it
\* was continued in the meantime.
Freeze(g) ==
    /\ suspendAt[g] = "freeze"
    /\ suspendAt' = [suspendAt EXCEPT ![g] = "none"]
    /\ frozen' = TRUE
    /\ UNCHANGED <<portVars, brokerVars, acquireVars, shuttingDown, suspending, handlers,
                   session, suspended, shutdownAt, handleVars, threadVars>>

\* SIGCONT, which may come before the process has stopped itself: the broker is
\* started again, nobody waits for that, and the suspension goes on.
Resume ==
    /\ frozen \/ suspending
    /\ frozen' = FALSE
    /\ IF handlers /\ suspending
       THEN /\ suspending' = FALSE /\ shuttingDown' = FALSE
            /\ IF singleton = None THEN UNCHANGED brokerVars
                                   ELSE CallStart(singleton, "resume")
       ELSE UNCHANGED <<suspending, shuttingDown, brokerVars>>
    /\ UNCHANGED <<portVars, acquireVars, handlers, session, suspended, shutdownAt,
                   suspendAt, handleVars, threadVars>>

ResumeStarted(b, i) ==
    /\ Ends(b, i, "start", "resume") /\ Ended(b, i)
    /\ IF StartWorks(b) THEN Started(b) ELSE UNCHANGED <<owner, up>>
    /\ UNCHANGED <<moves, kind, stopped, acquireVars, processVars, handleVars, threadVars>>

ResumeFailed(b, i) ==
    /\ Ends(b, i, "start", "resume") /\ ~up[b] /\ Ended(b, i)
    /\ UNCHANGED <<portVars, kind, up, stopped, acquireVars, processVars, handleVars,
                   threadVars>>

-----------------------------------------------------------------------------
(* The port, and what a broker does by itself.                             *)

\* Another process takes or leaves the port; our proxies lose their owner.
PortMoves ==
    /\ owner \notin Brokers /\ moves < MaxMoves
    /\ moves' = moves + 1
    /\ owner' \in {Other, Foreign, None} \ {owner}
    /\ up' = [b \in Brokers |-> up[b] /\ b \notin Linked]
    /\ UNCHANGED <<kind, stopped, ops, acquireVars, processVars, handleVars, threadVars>>

\* A proxy binds the free port or reconnects to its new owner, in the background
\* or for a call.
ProxyHeals(b) ==
    /\ Heals(b) /\ ~up[b] /\ owner # Foreign
    /\ owner' = IF owner = None THEN b ELSE owner
    /\ up' = [up EXCEPT ![b] = TRUE]
    /\ UNCHANGED <<moves, kind, stopped, ops, acquireVars, processVars, handleVars,
                   threadVars>>

\* A proxy's connection breaks, or a listener is closed underneath its broker.
LinkBreaks(b) ==
    /\ up[b]
    /\ moves < MaxMoves /\ moves' = moves + 1
    /\ IF owner = b THEN Released(b)
                    ELSE up' = [up EXCEPT ![b] = FALSE] /\ UNCHANGED owner
    /\ UNCHANGED <<kind, stopped, ops, acquireVars, processVars, handleVars, threadVars>>

-----------------------------------------------------------------------------
Lifecycle ==
    \/ \E b \in Brokers : \E i \in DOMAIN ops[b] :
          \/ StaleStopped(b, i) \/ PrimaryStarted(b, i) \/ PrimaryFailed(b, i)
          \/ ProxyStarted(b, i) \/ ProxyFailed(b, i) \/ CandidateStopped(b, i)
          \/ ShutdownStopped(b, i)
          \/ \E g \in Closures : SuspendStopped(b, i, g)
          \/ ResumeStarted(b, i) \/ ResumeFailed(b, i)
          \/ \E t \in Threads : Rebound(t, b, i) \/ ReboundFailed(t, b, i)
    \/ Published \/ ShutdownDone
    \/ \E g \in Closures : Freeze(g)

Events ==
    \/ SessionShutdown
    \/ \E g \in Closures : Suspend(g)
    \/ \E s \in Sessions : SessionStart(s) \/ SessionPrepared(s)
    \/ \E t \in Threads : EnsureReady(t) \/ BridgeWaited(t)
    \/ \E b \in Brokers : ProxyHeals(b) \/ LinkBreaks(b)

\* Nothing else runs before everyone a promise resumed has gone on, and nothing
\* of a stopped process runs.  What is left of a resumption when one of its steps
\* stops the process is taken before SIGCONT and not after it: it only adds calls
\* to the brokers' queues, and those stand still until then.
Resumed ==
    \/ ShutdownStops
    \/ \E g \in Closures : SuspendStops(g)
    \/ \E t \in Threads : BrokerReady(t)
Drained ==
    /\ \A t \in Threads : pc[t] # "ensuring"
    /\ startup = Idle => /\ shutdownAt # "startup"
                         /\ \A g \in Closures : suspendAt[g] # "startup"

Next ==
    \/ Resumed
    \/ Drained /\ ~frozen /\ (Lifecycle \/ Events)
    \/ Drained /\ (PortMoves \/ Resume)

Spec == Init /\ [][Next]_vars

\* Calls under way end, the timer fires, a task store gets ready.  A start that
\* is tried for ever works once the port allows it, and so does a proxy's attempt.
Fairness ==
    /\ WF_vars(Resumed)
    /\ WF_vars(Drained /\ ~frozen /\ Lifecycle)
    /\ \A b \in Brokers :
          /\ SF_vars(\E i \in DOMAIN ops[b] : PrimaryStarted(b, i) \/ ProxyStarted(b, i)
                        \/ \E t \in Threads : Rebound(t, b, i))
          /\ SF_vars((\E t \in Threads : pc[t] = "bridging" /\ brk[t] = b) /\ ProxyHeals(b))
    /\ \A s \in Sessions :
          /\ WF_vars(Drained /\ ~frozen /\ SessionPrepared(s))
          /\ WF_vars(Drained /\ ~frozen /\ EnsureReady(s))
          /\ WF_vars(Drained /\ ~frozen /\ BridgeWaited(s))

FairSpec == Spec /\ Fairness

-----------------------------------------------------------------------------
(* Safety.                                                                 *)

\* A broker that holds the port, or may take it without being asked.
Competes(b) == owner = b \/ Heals(b)

\* Two brokers of one process never compete for the port: what the comments at
\* index.ts:260 and lazy.ts:98 are afraid of.
OneBroker == Cardinality({b \in Brokers : Competes(b)}) <= 1

\* A broker that competes is known to someone who will stop it: it is the
\* singleton, the startup's candidate, or being stopped.
NoOrphanBroker ==
    \A b \in Brokers : Competes(b) =>
        \/ singleton = b \/ startup.broker = b
        \/ \E i \in DOMAIN ops[b] : ops[b][i].op = "stop"

\* After a session_shutdown and until the next session_start nothing of this
\* process competes for the port or is about to, whatever calls are still out.
ShutdownIsFinal ==
    session = None /\ shutdownAt = "none" =>
        /\ singleton = None /\ startup = Idle
        /\ \A b \in Brokers : ~Competes(b)
        /\ \A b \in Brokers : kind[b] = "primary" =>
              \A i \in DOMAIN ops[b] : ops[b][i].op # "start"

\* A process that is stopped by Ctrl+Z, and that was not continued since, does
\* not hold the port: the promise of the comment at index.ts:150.
FrozenWithoutPort == frozen /\ suspending => owner \notin Brokers

\* What holds of that promise when no tool is called: a process that is stopped
\* when no closure of onSuspend is left to run does not hold the port.  While an
\* older closure overlaps with the last one, the SIGSTOP of the older one may
\* come before the stop() of the last one, and after a start() of onResume.
SuspendedWithoutPort ==
    frozen /\ suspending /\ (\A g \in Closures : suspendAt[g] = "none") =>
        owner \notin Brokers

-----------------------------------------------------------------------------
(* Liveness, under FairSpec.                                               *)

\* While it is the latest session, a session is served again and again: its
\* handle reaches a broker that listens, however often links and owners went,
\* unless Ctrl+Z or a foreign program is in the way.
Served(s) == current[s] # None /\ up[current[s]]
SessionRecovers ==
    \A s \in Sessions :
        session = s ~> session # s \/ Served(s) \/ suspending \/ frozen \/ owner = Foreign
=============================================================================
