------------------------ MODULE HealthReporterProofs ------------------------
(***************************************************************************)
(* Theorems about HealthReporter: what the user is told of a lost browser, *)
(* for every grace period, timer period and number of suspensions.         *)
(***************************************************************************)
EXTENDS HealthReporter, TLAPS

-----------------------------------------------------------------------------
(* The inductive invariant.                                                *)

\* The reporter's flag is the number of warnings given.
WarnedInv == (warned => warnings = 1) /\ (~warned => warnings = 0)

\* Grace periods are measured against the clock: the ghosts never outrun it.
ClockInv ==
    /\ downFor <= moment /\ lostFor <= moment
    /\ due <= moment + Period

\* A process frozen without its flag is one that a SIGCONT overtook.
FrozenInv == frozen => suspending \/ caught

\* The time that the reporter has measured was spent awake, unless the next
\* observation starts it again or a SIGCONT was overlooked.
EarnedInv ==
    since # Unknown /\ ~stale /\ ~suspending /\ ~caught => moment - since <= downFor

\* While the loss has not been observed, the timer is about to do so ...
Unobserved ==
    /\ lostFor <= Period
    /\ lostFor + due <= moment + Period

\* ... and afterwards the reporter counts, at most one round late: it had not
\* reached the grace period when the timer fired last, or it has warned.
Observed ==
    /\ since # Unknown /\ ~stale
    /\ lostFor + since <= moment + Period
    /\ lostFor + since <= due + Period
    /\ warned \/ due < since + Grace + Period

ObservedInv ==
    /\ bridged => lostFor = 0
    /\ ~suspending /\ ~disposed => Unobserved \/ Observed

HInv ==
    /\ HealthTypeOK
    /\ WarnedInv
    /\ ClockInv
    /\ FrozenInv
    /\ EarnedInv
    /\ ObservedInv
    /\ WarningComes

-----------------------------------------------------------------------------
(* What an observation does, by its three outcomes.                        *)

SeesNothing == UNCHANGED <<since, warned, status, caught, warnings, downFor, stale>>

SeesBridge ==
    /\ ~suspending /\ ~disposed /\ bridged
    /\ ~stale' /\ ~warned' /\ ~caught'
    /\ since' = Unknown /\ status' = "connected" /\ downFor' = 0 /\ warnings' = 0

SeesLoss ==
    /\ ~suspending /\ ~disposed /\ ~bridged
    /\ ~stale'
    /\ warned' <=> warned \/ moment - since' >= Grace
    /\ caught' <=> caught /\ ~stale
    /\ since' = IF stale \/ since = Unknown THEN moment ELSE since
    /\ status' \in {"disconnected", "recovering"}
    /\ warnings' = IF moment - since' >= Grace /\ ~warned /\ warnings < 2
                   THEN warnings + 1 ELSE warnings
    /\ downFor' = downFor

LEMMA Observations ==
    ASSUME HealthTypeOK, ObserveHealth
    PROVE  /\ \/ SeesNothing /\ (suspending \/ disposed)
              \/ SeesBridge
              \/ SeesLoss
           /\ warned' \in BOOLEAN /\ caught' \in BOOLEAN /\ stale' \in BOOLEAN
<1>1. warned \in BOOLEAN /\ caught \in BOOLEAN /\ stale \in BOOLEAN
  BY DEF HealthTypeOK
<1>2. CASE disposed \/ suspending
  BY <1>1, <1>2 DEF ObserveHealth, SeesNothing, reporterVars
<1>3. CASE ~disposed /\ ~suspending /\ bridged
  BY <1>3, Zenon DEF ObserveHealth, SeesBridge
<1>4. CASE ~disposed /\ ~suspending /\ ~bridged
  <2>1. ~stale' /\ stale' \in BOOLEAN
    BY <1>4, Zenon DEF ObserveHealth
  <2>2. since' = IF stale \/ since = Unknown THEN moment ELSE since
    BY <1>4 DEF ObserveHealth, Resumed, FirstLoss
  <2>3. /\ warned' = (warned \/ moment - since' >= Grace)
        /\ caught' = (caught /\ ~stale)
    BY <1>4, Zenon DEF ObserveHealth, Resumed
  <2>4. /\ warned' <=> warned \/ moment - since' >= Grace
        /\ caught' <=> caught /\ ~stale
        /\ warned' \in BOOLEAN /\ caught' \in BOOLEAN
    BY <2>3, Zenon
  <2>5. warnings' = IF moment - since' >= Grace /\ ~warned /\ warnings < 2
                    THEN warnings + 1 ELSE warnings
    BY <1>4 DEF ObserveHealth, Resumed, FirstLoss
  <2>6. status' \in {"disconnected", "recovering"} /\ downFor' = downFor
    BY <1>4 DEF ObserveHealth
  <2> QED
    BY <1>4, <2>1, <2>2, <2>4, <2>5, <2>6 DEF SeesLoss
<1> QED
  BY <1>2, <1>3, <1>4

-----------------------------------------------------------------------------
(* Each part is kept by every step.                                        *)

LEMMA ObservationTypes ==
    ASSUME HealthTypeOK, WarnedInv, ClockInv, ObserveHealth
    PROVE  /\ since' \in 0..moment \cup {Unknown}
           /\ warned' \in BOOLEAN /\ caught' \in BOOLEAN /\ stale' \in BOOLEAN
           /\ status' \in {"none", "connected", "recovering", "disconnected"}
           /\ warnings' \in 0..2 /\ WarnedInv'
           /\ downFor' \in 0..MaxMoment /\ downFor' <= moment
<1> USE GraceAssumption DEF HealthTypeOK, WarnedInv, ClockInv
<1>1. CASE SeesNothing
  BY <1>1 DEF SeesNothing
<1>2. CASE SeesBridge
  BY <1>2, Observations DEF SeesBridge
<1>3. CASE SeesLoss
  BY <1>3, Observations DEF SeesLoss
<1> QED
  BY <1>1, <1>2, <1>3, Observations

LEMMA TypeStep ==
    ASSUME HealthTypeOK, WarnedInv, ClockInv, [HealthNext]_healthVars
    PROVE  HealthTypeOK' /\ WarnedInv' /\ ClockInv'
<1> USE GraceAssumption DEF HealthTypeOK, WarnedInv, ClockInv, reporterVars,
     loopVars, suspendVars
<1>1. ASSUME RecoveryTimer PROVE HealthTypeOK' /\ WarnedInv' /\ ClockInv'
  <2>1. ObserveHealth /\ due' = moment + Period /\ recovering' \in BOOLEAN
    BY <1>1, Zenon DEF RecoveryTimer
  <2> QED
    BY <1>1, <2>1, ObservationTypes DEF RecoveryTimer
<1>2. ASSUME RecoveryEnds PROVE HealthTypeOK' /\ WarnedInv' /\ ClockInv'
  <2>1. ObserveHealth /\ recovering' \in BOOLEAN
    BY <1>2, Zenon DEF RecoveryEnds
  <2> QED
    BY <1>2, <2>1, ObservationTypes DEF RecoveryEnds
<1>3. ASSUME SuspendBegins PROVE HealthTypeOK' /\ WarnedInv' /\ ClockInv'
  BY <1>3 DEF SuspendBegins
<1>4. ASSUME Freeze PROVE HealthTypeOK' /\ WarnedInv' /\ ClockInv'
  <2>1. caught' \in BOOLEAN
    BY <1>4, Zenon DEF Freeze
  <2> QED
    BY <1>4, <2>1 DEF Freeze
<1>5. ASSUME Continue PROVE HealthTypeOK' /\ WarnedInv' /\ ClockInv'
  <2>1. frozen' \in BOOLEAN /\ suspending' \in BOOLEAN /\ stale' \in BOOLEAN
    BY <1>5 DEF Continue
  <2> QED
    BY <1>5, <2>1 DEF Continue
<1>6. ASSUME Dispose PROVE HealthTypeOK' /\ WarnedInv' /\ ClockInv'
  BY <1>6 DEF Dispose
<1>7. ASSUME BridgeTurns PROVE HealthTypeOK' /\ WarnedInv' /\ ClockInv'
  BY <1>7 DEF BridgeTurns
<1>8. ASSUME MomentPasses PROVE HealthTypeOK' /\ WarnedInv' /\ ClockInv'
  BY <1>8 DEF MomentPasses
<1>9. CASE UNCHANGED healthVars
  BY <1>9 DEF healthVars
<1> QED
  BY <1>1, <1>2, <1>3, <1>4, <1>5, <1>6, <1>7, <1>8, <1>9 DEF HealthNext

LEMMA FrozenStep ==
    ASSUME FrozenInv, [HealthNext]_healthVars
    PROVE  FrozenInv'
<1> USE DEF FrozenInv, reporterVars, loopVars, suspendVars
<1>1. ASSUME RecoveryTimer \/ RecoveryEnds PROVE FrozenInv'
  BY <1>1 DEF RecoveryTimer, RecoveryEnds
<1>2. ASSUME SuspendBegins \/ Freeze \/ Continue PROVE FrozenInv'
  BY <1>2 DEF SuspendBegins, Freeze, Continue
<1>3. ASSUME Dispose \/ BridgeTurns \/ MomentPasses PROVE FrozenInv'
  BY <1>3 DEF Dispose, BridgeTurns, MomentPasses
<1>4. CASE UNCHANGED healthVars
  BY <1>4 DEF healthVars
<1> QED
  BY <1>1, <1>2, <1>3, <1>4 DEF HealthNext

LEMMA EarnedStep ==
    ASSUME HealthTypeOK, ClockInv, FrozenInv, EarnedInv, [HealthNext]_healthVars
    PROVE  EarnedInv'
<1> USE GraceAssumption DEF HealthTypeOK, ClockInv, EarnedInv, reporterVars,
     loopVars, suspendVars
<1>1. ASSUME ObserveHealth, UNCHANGED <<moment, suspending>> PROVE EarnedInv'
  BY <1>1, Observations DEF SeesNothing, SeesBridge, SeesLoss
<1>2. ASSUME RecoveryTimer \/ RecoveryEnds PROVE EarnedInv'
  BY <1>1, <1>2 DEF RecoveryTimer, RecoveryEnds
<1>3. ASSUME SuspendBegins PROVE EarnedInv'
  BY <1>3 DEF SuspendBegins
<1>4. ASSUME Freeze PROVE EarnedInv'
  BY <1>4 DEF Freeze
<1>5. ASSUME Continue PROVE EarnedInv'
  BY <1>5 DEF Continue, FrozenInv
<1>6. ASSUME Dispose \/ BridgeTurns PROVE EarnedInv'
  BY <1>6 DEF Dispose, BridgeTurns
<1>7. ASSUME MomentPasses PROVE EarnedInv'
  BY <1>7 DEF MomentPasses, FrozenInv
<1>8. CASE UNCHANGED healthVars
  BY <1>8 DEF healthVars
<1> QED
  BY <1>2, <1>3, <1>4, <1>5, <1>6, <1>7, <1>8 DEF HealthNext

LEMMA ObservedStep ==
    ASSUME HealthTypeOK, ClockInv, ObservedInv, [HealthNext]_healthVars
    PROVE  ObservedInv'
<1> USE GraceAssumption DEF HealthTypeOK, ClockInv, ObservedInv, Unobserved,
     Observed, reporterVars, loopVars, suspendVars
<1>1. ASSUME RecoveryTimer PROVE ObservedInv'
  <2>1. due' = moment + Period /\ UNCHANGED <<moment, bridged, suspending, disposed, lostFor>>
    BY <1>1 DEF RecoveryTimer
  <2>2. CASE suspending \/ disposed
    BY <2>1, <2>2
  <2>3. CASE SeesBridge
    BY <2>1, <2>3 DEF SeesBridge
  <2>4. CASE SeesLoss
    BY <2>1, <2>4 DEF SeesLoss
  <2> QED
    BY <1>1, <2>2, <2>3, <2>4, Observations DEF RecoveryTimer
<1>2. ASSUME RecoveryEnds PROVE ObservedInv'
  <2>1. UNCHANGED <<moment, due, bridged, suspending, disposed, lostFor>>
    BY <1>2 DEF RecoveryEnds
  <2>2. CASE suspending \/ disposed
    BY <2>1, <2>2
  <2>3. CASE SeesBridge
    BY <2>1, <2>3 DEF SeesBridge
  <2>4. CASE SeesLoss
    BY <2>1, <2>4 DEF SeesLoss
  <2> QED
    BY <1>2, <2>2, <2>3, <2>4, Observations DEF RecoveryEnds
<1>3. ASSUME SuspendBegins \/ Freeze PROVE ObservedInv'
  BY <1>3 DEF SuspendBegins, Freeze
<1>4. ASSUME Continue PROVE ObservedInv'
  BY <1>4 DEF Continue
<1>5. ASSUME Dispose \/ BridgeTurns PROVE ObservedInv'
  BY <1>5 DEF Dispose, BridgeTurns
<1>6. ASSUME MomentPasses PROVE ObservedInv'
  BY <1>6 DEF MomentPasses
<1>7. CASE UNCHANGED healthVars
  BY <1>7 DEF healthVars
<1> QED
  BY <1>1, <1>2, <1>3, <1>4, <1>5, <1>6, <1>7 DEF HealthNext

\* A timer that is at most one round late twice.
LEMMA TwoRounds ==
    ASSUME NEW lost \in Nat, NEW from \in Nat, NEW next \in Nat,
           lost + from <= next + Period, next < from + Grace + Period
    PROVE  ~(lost >= Grace + 2 * Period)
<1>1. Grace \in Nat /\ Period \in Nat
  BY GraceAssumption
<1>2. lost < Grace + Period + Period
  BY <1>1
<1> QED
  BY <1>1, <1>2

LEMMA ComesStep ==
    ASSUME HealthTypeOK, HealthTypeOK', ObservedInv', WarningComes,
           [HealthNext]_healthVars
    PROVE  WarningComes'
<1>1. CASE ~suspending' /\ ~disposed'
  <2>1. CASE Unobserved'
    BY <2>1, GraceAssumption DEF Unobserved, HealthTypeOK, WarningComes
  <2>2. CASE Observed'
    <3>1. /\ lostFor' \in Nat /\ since' \in Nat /\ due' \in Nat
          /\ Grace \in Nat /\ Period \in Nat
      BY <2>2, GraceAssumption DEF Observed, HealthTypeOK
    <3>2. lostFor' + since' <= due' + Period
      BY <2>2 DEF Observed
    <3>3. warned' \/ due' < since' + Grace + Period
      BY <2>2 DEF Observed
    <3>4. due' < since' + Grace + Period => ~(lostFor' >= Grace + 2 * Period)
      BY <3>1, <3>2, TwoRounds
    <3> QED
      BY <3>3, <3>4, Zenon DEF WarningComes
  <2> QED
    BY <1>1, <2>1, <2>2 DEF ObservedInv
<1>2. ASSUME suspending', ~disposed'
      PROVE  lostFor' = 0 \/ (lostFor' = lostFor /\ warned' = warned /\ ~disposed)
  <2>1. ASSUME ObserveHealth, UNCHANGED suspending PROVE warned' = warned
    BY <1>2, <2>1, Observations DEF SeesNothing, SeesBridge, SeesLoss
  <2>2. ASSUME RecoveryTimer \/ RecoveryEnds
        PROVE  lostFor' = lostFor /\ warned' = warned /\ ~disposed
    <3>1. ObserveHealth /\ UNCHANGED <<suspending, disposed, lostFor>>
      BY <2>2 DEF RecoveryTimer, RecoveryEnds, suspendVars
    <3> QED
      BY <1>2, <2>1, <3>1, Zenon
  <2>3. ASSUME SuspendBegins \/ Freeze
        PROVE  lostFor' = lostFor /\ warned' = warned /\ ~disposed
    <3>1. UNCHANGED <<warned, disposed, lostFor>>
      BY <2>3 DEF SuspendBegins, Freeze, reporterVars, loopVars
    <3> QED
      BY <1>2, <3>1, Zenon
  <2>4. ~Continue /\ ~Dispose
    BY <1>2 DEF Continue, Dispose
  <2>5. ASSUME MomentPasses
        PROVE  lostFor' = lostFor /\ warned' = warned /\ ~disposed
    BY <1>2, <2>5 DEF MomentPasses, suspendVars, loopVars, reporterVars
  <2>6. ASSUME BridgeTurns PROVE lostFor' = 0
    BY <2>6 DEF BridgeTurns
  <2> QED
    BY <1>2, <2>2, <2>3, <2>4, <2>5, <2>6 DEF HealthNext, healthVars, loopVars, reporterVars
<1>3. Grace \in Nat \ {0} /\ Period \in Nat \ {0}
  BY GraceAssumption
<1> QED
  BY <1>1, <1>2, <1>3 DEF WarningComes

-----------------------------------------------------------------------------
(* The theorems.                                                           *)

\* The reporter, its timer and the two signals keep the invariant in whatever
\* order they run, and however often the process is suspended.
THEOREM HealthInvariance == HealthSpec => []HInv
<1>1. HealthInit => HInv
  <2> SUFFICES ASSUME HealthInit PROVE HInv
    OBVIOUS
  <2> USE GraceAssumption DEF HealthInit
  <2>1. ~frozen /\ ~warned /\ since \in 0..MaxMoment \cup {Unknown}
    OBVIOUS
  <2>2. HealthTypeOK
    <3>1. /\ suspending \in BOOLEAN /\ frozen \in BOOLEAN /\ stale \in BOOLEAN
          /\ recovering \in BOOLEAN /\ disposed \in BOOLEAN /\ warned \in BOOLEAN
          /\ caught \in BOOLEAN
      BY Zenon
    <3> QED
      BY <2>1, <3>1 DEF HealthTypeOK
  <2>3. WarnedInv /\ ClockInv /\ FrozenInv /\ EarnedInv
    BY <2>1 DEF WarnedInv, ClockInv, FrozenInv, EarnedInv
  <2>4. ObservedInv /\ WarningComes
    BY DEF ObservedInv, Unobserved, WarningComes
  <2> QED
    BY <2>2, <2>3, <2>4 DEF HInv
<1>2. HInv /\ [HealthNext]_healthVars => HInv'
  BY TypeStep, FrozenStep, EarnedStep, ObservedStep, ComesStep DEF HInv
<1> QED
  BY <1>1, <1>2, PTL DEF HealthSpec

\* Every variable of the reporter and its loop keeps its type, clocks included.
THEOREM HealthTypes == HealthSpec => []HealthTypeOK
<1>1. HInv => HealthTypeOK
  BY DEF HInv
<1> QED
  BY <1>1, HealthInvariance, PTL

\* One outage, one warning, however many suspensions cut it.
THEOREM WarnsOnce == HealthSpec => []OneWarning
<1>1. HInv => OneWarning
  BY DEF HInv, WarnedInv, OneWarning
<1> QED
  BY <1>1, HealthInvariance, PTL

\* A session awake without a bridge for the grace period and two rounds of the
\* timer has warned.
THEOREM WarnsInTime == HealthSpec => []WarningComes
<1>1. HInv => WarningComes
  BY DEF HInv
<1> QED
  BY <1>1, HealthInvariance, PTL

\* No warning before a whole grace period awake in which no observation found a
\* bridge, unless a SIGCONT overtook the SIGSTOP.
THEOREM WarnsNotTooSoon == HealthSpec => WarningEarned
<1>1. HInv /\ [HealthNext]_healthVars =>
          [warnings' > warnings => downFor >= Grace \/ caught]_healthVars
  <2> SUFFICES ASSUME HInv, HealthNext, warnings' > warnings
               PROVE  downFor >= Grace \/ caught
    OBVIOUS
  <2> USE GraceAssumption DEF HInv, HealthTypeOK, reporterVars
  <2>1. ObserveHealth
    BY DEF HealthNext, RecoveryTimer, RecoveryEnds, SuspendBegins, Freeze,
       Continue, Dispose, BridgeTurns, MomentPasses
  <2>2. SeesLoss
    BY <2>1, Observations DEF SeesNothing, SeesBridge
  <2>3. ~suspending /\ ~stale /\ since # Unknown /\ moment - since >= Grace
    BY <2>2 DEF SeesLoss
  <2> QED
    BY <2>3 DEF EarnedInv
<1> QED
  BY <1>1, HealthInvariance, PTL DEF HealthSpec, WarningEarned
=============================================================================
