--------------------------- MODULE HealthReporter ---------------------------
(***************************************************************************)
(* BrowserHealthReporter (src/src/broker/health-reporter.ts) and the       *)
(* session's recovery timer that feeds it (src/src/index.ts): what the     *)
(* user is told of a lost browser, across suspensions of the process.      *)
(*                                                                         *)
(* Whether handle.probeConnectivity() reports a bridge is not of this      *)
(* module: it changes at any time.  The clock runs on while the process is *)
(* frozen, and its timers do not.                                          *)
(***************************************************************************)
EXTENDS Naturals

CONSTANTS
    Unknown,
    Grace,         \* RECOVERY_GRACE_MS
    Period,        \* of the recovery timer
    MaxMoment,     \* bound: the clock
    MaxSuspends    \* bound: suspensions

ASSUME GraceAssumption ==
    /\ Grace \in Nat \ {0} /\ Period \in Nat \ {0} /\ Period < Grace
    /\ MaxMoment \in Nat /\ MaxSuspends \in Nat
    /\ Unknown \notin Nat

VARIABLES
    moment,
    bridged,     \* what handle.probeConnectivity() reports
    suspending,  \* the module's flag
    stopping,    \* suspend handlers that have still to send SIGSTOP
    frozen,      \* by SIGSTOP
    suspends,
    stale,       \* observedResumeGeneration # resumeGeneration
    due,         \* when the recovery timer fires next
    recovering,  \* its ensureReady() is under way
    disposed,    \* the session was cleaned up
    since,       \* disconnectedSince
    warned, status,
    downFor,     \* ghost: ticks awake since a bridge was last seen or resumed
    lostFor,     \* ghost: ticks awake without a bridge, observed or not
    caught,      \* ghost: frozen, the flag not set, since that moment
    warnings     \* ghost: since a bridge was last seen

reporterVars == <<since, warned, status, caught, warnings>>
loopVars     == <<due, recovering, disposed>>
suspendVars  == <<suspending, stopping, frozen, suspends>>
healthVars   == <<moment, bridged, suspendVars, stale, loopVars, reporterVars,
                  downFor, lostFor>>

HealthTypeOK ==
    /\ moment \in 0..MaxMoment /\ due \in 0..(MaxMoment + Period)
    /\ since \in 0..moment \cup {Unknown}
    /\ suspends \in 0..MaxSuspends /\ stopping \in 0..suspends
    /\ status \in {"none", "connected", "recovering", "disconnected"}
    /\ bridged \in BOOLEAN /\ suspending \in BOOLEAN /\ frozen \in BOOLEAN
    /\ stale \in BOOLEAN /\ recovering \in BOOLEAN /\ disposed \in BOOLEAN
    /\ warned \in BOOLEAN /\ caught \in BOOLEAN
    /\ downFor \in 0..MaxMoment /\ lostFor \in 0..MaxMoment
    /\ warnings \in 0..2

HealthInit ==
    /\ moment = 0 /\ bridged \in BOOLEAN
    /\ suspending = FALSE /\ stopping = 0 /\ frozen = FALSE /\ suspends = 0
    /\ stale = FALSE
    /\ due = Period /\ recovering = FALSE /\ disposed = FALSE
    /\ since = IF bridged THEN Unknown ELSE 0
    /\ warned = FALSE
    /\ status = IF bridged THEN "connected" ELSE "recovering"
    /\ downFor = 0 /\ lostFor = 0 /\ caught = FALSE /\ warnings = 0

-----------------------------------------------------------------------------
\* Mutant: a resumed process may warn once more.
ResumedRearmed ==
    [since |-> IF stale THEN Unknown ELSE since, warned |-> warned /\ ~stale]

\* Mutant: the time of the suspension counts.
ResumedCounting == [since |-> since, warned |-> warned]

\* health.resume(), when the process was resumed since the last observation.
Resumed == [since |-> IF stale THEN Unknown ELSE since, warned |-> warned]

\* Mutant: every observation without a bridge starts the grace period.
FirstLossLast(known) == moment

\* this.disconnectedSince ??= now
FirstLoss(known) == IF known = Unknown THEN moment ELSE known

\* observeHealth(): a report, unless the session is over or being suspended.
ObserveHealth ==
    LET from    == FirstLoss(Resumed.since)
        expired == moment - from >= Grace
        warns   == expired /\ ~Resumed.warned
    IN
    IF disposed \/ suspending THEN UNCHANGED <<reporterVars, downFor, stale>>
    ELSE /\ stale' = FALSE
         /\ IF bridged
            THEN /\ since' = Unknown /\ warned' = FALSE /\ status' = "connected"
                 /\ downFor' = 0 /\ caught' = FALSE /\ warnings' = 0
            ELSE /\ since' = from
                 /\ warned' = (Resumed.warned \/ expired)
                 /\ status' = IF expired THEN "disconnected" ELSE "recovering"
                 /\ warnings' = IF warns /\ warnings < 2 THEN warnings + 1 ELSE warnings
                 /\ caught' = (caught /\ ~stale)
                 /\ UNCHANGED downFor

\* The recovery timer; it does nothing in a process that is being suspended.
RecoveryTimer ==
    /\ moment >= due /\ ~frozen /\ ~disposed
    /\ due' = moment + Period
    /\ recovering' = (recovering \/ ~suspending)
    /\ ObserveHealth
    /\ UNCHANGED <<moment, bridged, suspendVars, disposed, lostFor>>

\* ensureReady() of the recovery timer returns.
RecoveryEnds ==
    /\ recovering /\ ~frozen
    /\ recovering' = FALSE
    /\ ObserveHealth
    /\ UNCHANGED <<moment, bridged, suspendVars, due, disposed, lostFor>>

\* SIGTSTP.
SuspendBegins ==
    /\ ~suspending /\ ~frozen /\ suspends < MaxSuspends /\ ~disposed
    /\ suspending' = TRUE /\ stopping' = stopping + 1 /\ suspends' = suspends + 1
    /\ UNCHANGED <<moment, bridged, frozen, stale, loopVars, reporterVars, downFor,
                   lostFor>>

\* The broker is stopped: SIGSTOP, although a SIGCONT may have come meanwhile.
Freeze ==
    /\ stopping > 0 /\ ~frozen
    /\ stopping' = stopping - 1 /\ frozen' = TRUE
    /\ caught' = (caught \/ ~suspending)
    /\ UNCHANGED <<moment, bridged, suspending, suspends, stale, loopVars, since,
                   warned, status, warnings, downFor, lostFor>>

\* SIGCONT.  The handler returns at once unless the flag is set.
Continue ==
    /\ suspending \/ frozen
    /\ frozen' = FALSE /\ suspending' = FALSE
    /\ IF suspending
       THEN stale' = TRUE /\ downFor' = 0 /\ lostFor' = 0
       ELSE UNCHANGED <<stale, downFor, lostFor>>
    /\ UNCHANGED <<moment, bridged, stopping, suspends, loopVars, reporterVars>>

\* The session's cleanup.
Dispose ==
    /\ ~disposed /\ ~frozen
    /\ disposed' = TRUE /\ status' = "none"
    /\ UNCHANGED <<moment, bridged, suspendVars, stale, due, recovering, since,
                   warned, caught, warnings, downFor, lostFor>>

BridgeTurns ==
    /\ bridged' = ~bridged
    /\ lostFor' = 0
    /\ UNCHANGED <<moment, suspendVars, stale, loopVars, reporterVars, downFor>>

\* Time passes when the timer is not due, or cannot fire.
MomentPasses ==
    LET awake == ~suspending /\ ~frozen IN
    /\ moment < MaxMoment
    /\ moment < due \/ frozen \/ disposed
    /\ moment' = moment + 1
    /\ downFor' = IF awake THEN downFor + 1 ELSE downFor
    /\ lostFor' = IF awake /\ ~bridged THEN lostFor + 1 ELSE lostFor
    /\ UNCHANGED <<bridged, suspendVars, stale, loopVars, reporterVars>>

HealthNext ==
    \/ RecoveryTimer \/ RecoveryEnds \/ SuspendBegins \/ Freeze \/ Continue
    \/ Dispose \/ BridgeTurns \/ MomentPasses

HealthSpec == HealthInit /\ [][HealthNext]_healthVars

-----------------------------------------------------------------------------
(* Safety.                                                                 *)

\* One outage, one warning: until a bridge is seen again the user is not told a
\* second time, in however many suspensions the outage is cut.
OneWarning == warnings <= 1

\* The user is warned only after a whole grace period, awake all the time, in
\* which no observation found a bridge: time spent suspended is not a failed
\* recovery (health-reporter.ts:43).  Unless a SIGCONT overtook the SIGSTOP: the
\* process freezes with its flag cleared, and nobody notices the next SIGCONT.
WarningEarned ==
    [][warnings' > warnings => downFor >= Grace \/ caught]_healthVars

\* A session that has been awake without a bridge for the grace period and two
\* rounds of the timer has warned: no observation or resume puts it off for ever.
WarningComes == lostFor >= Grace + 2 * Period /\ ~disposed => warned
=============================================================================
