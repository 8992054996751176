----------------------- MODULE InstanceDiscoveryProofs -----------------------
(***************************************************************************)
(* Theorems about InstanceDiscovery, for any number of pi processes that   *)
(* share the directory and any bounds.                                     *)
(***************************************************************************)
EXTENDS InstanceDiscovery, TLAPS

-----------------------------------------------------------------------------
(* The inductive invariant.                                                *)

AwayPoints == {"suspendStopped", "frozen", "endStopped", "ended", "dead"}

\* Who has the port: a process in its startup, which has no broker yet, or one
\* with a broker that can own it, and never one that was stopped.
PortInv ==
    \A p \in Pis :
        /\ startup[p] # "none" => port = p /\ broker[p] = "none"
        /\ published[p] => port = p
        /\ port = p /\ startup[p] = "none" => broker[p] \in {"primary", "promoted"}
        /\ session[p] \in AwayPoints => port # p

\* The startup waits for its own write, and nobody removes the file meanwhile.
StartupWriteInv ==
    \A p \in Pis :
        /\ write[p]["startup"] \in {"called", "open"} <=> startup[p] = "publishing"
        /\ write[p]["startup"] # "lost"

\* The file of a published owner is whole, or about to be made whole.
ListedInv ==
    \A p \in Pis :
        published[p] /\ startup[p] \in {"none", "published"} =>
            record[p] = "whole" \/ \E w \in Writers : write[p][w] = "open"

\* An owner that took the port with a write has published its file, or the write
\* is under way.
AnnouncedInv ==
    \A p \in Pis :
        /\ startup[p] = "published" => published[p]
        /\ silent[p] => port = p /\ startup[p] = "none"
        /\ port = p /\ startup[p] = "none" /\ ~silent[p] =>
              published[p] \/ \E w \in Writers : write[p][w] \in {"called", "open"}

\* What a shutdown leaves: no file, and no write that would make one.
EndInv ==
    \A p \in Pis :
        session[p] = "ended" /\ ~late[p] =>
            record[p] = "none" /\ \A w \in Writers : write[p][w] \in {"none", "lost"}

DInv ==
    /\ DiscoveryTypeOK
    /\ PortInv
    /\ StartupWriteInv
    /\ ListedInv
    /\ AnnouncedInv
    /\ EndInv

USE DiscoveryAssumption

-----------------------------------------------------------------------------
(* What the file operations do.                                            *)

WriteType == [Pis -> [Writers -> {"none", "called", "open", "lost"}]]

LEMMA UnlinkedFiles ==
    ASSUME DiscoveryTypeOK, NEW q \in Pis, Unlinked(q)
    PROVE  /\ record' = [record EXCEPT ![q] = "none"]
           /\ record' \in [Pis -> {"none", "half", "whole"}] /\ write' \in WriteType
           /\ \A p \in Pis, w \in Writers :
                 write'[p][w] = IF p = q /\ write[p][w] = "open" THEN "lost"
                                ELSE write[p][w]
<1>1. record \in [Pis -> {"none", "half", "whole"}] /\ write \in WriteType
  BY DEF DiscoveryTypeOK, WriteType
<1>2. record' = [record EXCEPT ![q] = "none"]
  BY DEF Unlinked
<1>3. write' = [write EXCEPT ![q] =
                   [w \in Writers |-> IF write[q][w] = "open" THEN "lost" ELSE write[q][w]]]
  BY DEF Unlinked
<1>4. write' \in WriteType
  BY <1>1, <1>3 DEF WriteType
<1>5. \A p \in Pis, w \in Writers :
          write'[p][w] = IF p = q /\ write[p][w] = "open" THEN "lost" ELSE write[p][w]
  BY <1>1, <1>3 DEF WriteType
<1> QED
  BY <1>1, <1>2, <1>4, <1>5

LEMMA CalledWrite ==
    ASSUME DiscoveryTypeOK, NEW q \in Pis, NEW v \in Writers, CallWrite(q, v)
    PROVE  /\ write' \in WriteType
           /\ \A p \in Pis, w \in Writers :
                 write'[p][w] = IF p = q /\ w = v THEN "called" ELSE write[p][w]
  BY DEF DiscoveryTypeOK, WriteType, CallWrite

LEMMA PromotionWrite ==
    ASSUME DiscoveryTypeOK, NEW q \in Pis, Promote(q)
    PROVE  /\ write' \in WriteType
           /\ \A p \in Pis, w \in Writers :
                 write'[p][w] = IF p = q /\ w = "promotion" /\ attached[q] THEN "called"
                                ELSE write[p][w]
<1>1. CASE attached[q]
  <2>1. CallWrite(q, "promotion") /\ "promotion" \in Writers
    BY <1>1 DEF Promote, Writers
  <2> QED
    BY <1>1, <2>1, CalledWrite
<1>2. CASE ~attached[q]
  BY <1>2 DEF Promote, DiscoveryTypeOK, WriteType
<1> QED
  BY <1>1, <1>2

\* Two processes cannot be listing and published: both have the port.
LEMMA ListerIsOwner ==
    ASSUME PortInv, NEW p \in Pis, NEW q \in Pis, startup[p] = "listing", published[q]
    PROVE  q = p
  BY DEF PortInv

-----------------------------------------------------------------------------
(* Each part is kept by every step.                                        *)

\* A broker is "promoted" only while its process has the port: PortInv says so
\* of every step that gives the port up.
LEMMA TypeStep ==
    ASSUME DiscoveryTypeOK, PortInv, [DiscoveryNext]_discoveryVars
    PROVE  DiscoveryTypeOK'
<1> USE DEF DiscoveryTypeOK, SessionPoints, Writers, processVars,
     boundVars, fileVars, ghostVars
<1>1. ASSUME NEW p \in Pis, NEW w \in Writers, WriteOpens(p, w)
      PROVE  DiscoveryTypeOK'
  BY <1>1 DEF WriteOpens
<1>2. ASSUME NEW p \in Pis, NEW w \in Writers, WriteEnds(p, w)
      PROVE  DiscoveryTypeOK'
  BY <1>2 DEF WriteEnds
<1>3. ASSUME NEW p \in Pis, Acquire(p)
      PROVE  DiscoveryTypeOK'
  <2>1. \/ broker' = [broker EXCEPT ![p] = "none"]
        \/ broker' = [broker EXCEPT ![p] = "proxy"]
    BY <1>3 DEF Acquire
  <2>2. broker' \in [Pis -> {"none", "primary", "proxy", "promoted"}]
    BY <2>1
  <2>3. startup' = startup \/ startup' = [startup EXCEPT ![p] = "bound"]
    BY <1>3 DEF Acquire
  <2>4. startup' \in [Pis -> {"none", "bound", "listing", "publishing", "published"}]
    BY <2>3
  <2>5. port' \in Pis \cup {Nobody} /\ cancelled' \in [Pis -> BOOLEAN]
    BY <1>3 DEF Acquire
  <2>6. ASSUME NEW x \in Pis, broker'[x] = "promoted" PROVE port' = x
    <3>1. broker[x] = "promoted"
      BY <2>1, <2>6
    <3>2. port = x /\ port # Nobody
      BY <3>1
    <3> QED
      BY <1>3, <3>2 DEF Acquire
  <2>7. attached' \in [Pis -> BOOLEAN]
    BY <1>3 DEF Acquire
  <2> QED
    BY <1>3, <2>2, <2>4, <2>5, <2>6, <2>7 DEF Acquire
<1>4. ASSUME NEW p \in Pis, ReadDirectory(p)
      PROVE  DiscoveryTypeOK'
  BY <1>4 DEF ReadDirectory
<1>5. ASSUME NEW p \in Pis, ListEnds(p)
      PROVE  DiscoveryTypeOK'
  BY <1>5 DEF ListEnds, CallWrite
<1>6. ASSUME NEW p \in Pis, StartupEnds(p)
      PROVE  DiscoveryTypeOK'
  <2>1. broker' \in [Pis -> {"none", "primary", "proxy", "promoted"}]
    BY <1>6 DEF StartupEnds
  <2>2. ASSUME NEW x \in Pis, broker'[x] = "promoted" PROVE port' = x
    <3>1. port = p /\ broker[p] = "none"
      BY <1>6 DEF StartupEnds, PortInv
    <3>2. broker[x] # "promoted"
      BY <3>1
    <3> QED
      BY <1>6, <2>2, <3>2 DEF StartupEnds
  <2>3. port' \in Pis \cup {Nobody} /\ published' \in [Pis -> BOOLEAN]
    BY <1>6 DEF StartupEnds
  <2>4. startup' \in [Pis -> {"none", "bound", "listing", "publishing", "published"}]
    BY <1>6 DEF StartupEnds
  <2> QED
    BY <1>6, <2>1, <2>2, <2>3, <2>4 DEF StartupEnds
<1>7. ASSUME NEW p \in Pis, Promote(p)
      PROVE  DiscoveryTypeOK'
  BY <1>7, PromotionWrite DEF Promote, WriteType
<1>8. ASSUME NEW p \in Pis, NEW q \in Pis, ReadRecord(p, q)
      PROVE  DiscoveryTypeOK'
  BY <1>8 DEF ReadRecord
<1>9. ASSUME NEW p \in Pis, NEW q \in Pis, RemoveStale(p, q)
      PROVE  DiscoveryTypeOK'
  BY <1>9 DEF RemoveStale, Unlinked
<1>10. ASSUME NEW p \in Pis, SuspendStarts(p)
      PROVE  DiscoveryTypeOK'
  BY <1>10 DEF SuspendStarts
<1>11. ASSUME NEW p \in Pis, SuspendStops(p)
      PROVE  DiscoveryTypeOK'
  BY <1>11 DEF SuspendStops, Stopped, Demoted
<1>12. ASSUME NEW p \in Pis, SuspendFreezes(p)
      PROVE  DiscoveryTypeOK'
  <2>1. CASE captured[p]
    BY <1>12, <2>1, UnlinkedFiles DEF SuspendFreezes, WriteType
  <2>2. CASE ~captured[p]
    BY <1>12, <2>2 DEF SuspendFreezes
  <2> QED
    BY <2>1, <2>2
<1>13. ASSUME NEW p \in Pis, Thaw(p)
      PROVE  DiscoveryTypeOK'
  <2>1. CASE broker[p] = "primary" /\ port = Nobody
    <3>1. write' \in WriteType
      BY <1>13, <2>1, CalledWrite DEF Thaw
    <3> QED
      BY <1>13, <2>1, <3>1 DEF Thaw, WriteType
  <2>2. CASE ~(broker[p] = "primary" /\ port = Nobody)
    BY <1>13, <2>2 DEF Thaw
  <2> QED
    BY <2>1, <2>2
<1>14. ASSUME NEW p \in Pis, Rebind(p)
      PROVE  DiscoveryTypeOK'
  BY <1>14 DEF Rebind
<1>15. ASSUME NEW p \in Pis, EndStarts(p)
      PROVE  DiscoveryTypeOK'
  BY <1>15 DEF EndStarts
<1>16. ASSUME NEW p \in Pis, EndStops(p)
      PROVE  DiscoveryTypeOK'
  BY <1>16 DEF EndStops, Stopped
<1>17. ASSUME NEW p \in Pis, EndRemoves(p)
      PROVE  DiscoveryTypeOK'
  BY <1>17 DEF EndRemoves, Unlinked
<1>18. ASSUME NEW p \in Pis, SessionStarts(p)
      PROVE  DiscoveryTypeOK'
  BY <1>18 DEF SessionStarts
<1>19. ASSUME NEW p \in Pis, Dies(p)
      PROVE  DiscoveryTypeOK'
  BY <1>19 DEF Dies, NoWrites
<1>20. CASE UNCHANGED discoveryVars
  BY <1>20 DEF discoveryVars
<1>21. ASSUME NEW p \in Pis, Reattach(p)
      PROVE  DiscoveryTypeOK'
  BY <1>21 DEF Reattach
<1> QED
  BY <1>1, <1>2, <1>3, <1>4, <1>5, <1>6, <1>7, <1>8, <1>9, <1>10, <1>11,
     <1>12, <1>13, <1>14, <1>15, <1>16, <1>17, <1>18, <1>19, <1>20,
     <1>21 DEF DiscoveryNext

\* The port changes hands only at a startup, a promotion or a rebind, and is
\* given up by whoever is stopped.
LEMMA PortStep ==
    ASSUME DiscoveryTypeOK, PortInv, StartupWriteInv, [DiscoveryNext]_discoveryVars
    PROVE  PortInv'
<1> USE DEF DiscoveryTypeOK, PortInv, AwayPoints, SessionPoints, Writers,
     processVars, boundVars, fileVars, ghostVars
<1>1. ASSUME NEW p \in Pis, NEW w \in Writers, WriteOpens(p, w)
      PROVE  PortInv'
  BY <1>1 DEF WriteOpens
<1>2. ASSUME NEW p \in Pis, NEW w \in Writers, WriteEnds(p, w)
      PROVE  PortInv'
  <2>1. w = "startup" => startup[p] = "publishing"
    BY <1>2 DEF WriteEnds, StartupWriteInv
  <2>2. /\ UNCHANGED <<port, broker, session>>
        /\ \A x \in Pis : published'[x] => published[x] \/ port = x
        /\ \A x \in Pis : startup'[x] # startup[x] => startup[x] # "none" /\ startup'[x] # "none"
    BY <1>2, <2>1 DEF WriteEnds
  <2> QED
    BY <2>2
<1>3. ASSUME NEW p \in Pis, Acquire(p)
      PROVE  PortInv'
  BY <1>3 DEF Acquire
<1>4. ASSUME NEW p \in Pis, ReadDirectory(p)
      PROVE  PortInv'
  BY <1>4 DEF ReadDirectory
<1>5. ASSUME NEW p \in Pis, ListEnds(p)
      PROVE  PortInv'
  BY <1>5 DEF ListEnds, CallWrite
<1>6. ASSUME NEW p \in Pis, StartupEnds(p)
      PROVE  PortInv'
  BY <1>6 DEF StartupEnds
<1>7. ASSUME NEW p \in Pis, Promote(p)
      PROVE  PortInv'
  BY <1>7 DEF Promote, CallWrite
<1>8. ASSUME NEW p \in Pis, NEW q \in Pis, ReadRecord(p, q)
      PROVE  PortInv'
  BY <1>8 DEF ReadRecord
<1>9. ASSUME NEW p \in Pis, NEW q \in Pis, RemoveStale(p, q)
      PROVE  PortInv'
  BY <1>9 DEF RemoveStale, Unlinked
<1>10. ASSUME NEW p \in Pis, SuspendStarts(p)
      PROVE  PortInv'
  BY <1>10 DEF SuspendStarts
<1>11. ASSUME NEW p \in Pis, SuspendStops(p)
      PROVE  PortInv'
  BY <1>11 DEF SuspendStops, Stopped, Demoted
<1>12. ASSUME NEW p \in Pis, SuspendFreezes(p)
      PROVE  PortInv'
  BY <1>12 DEF SuspendFreezes, Unlinked
<1>13. ASSUME NEW p \in Pis, Thaw(p)
      PROVE  PortInv'
  BY <1>13 DEF Thaw, CallWrite
<1>14. ASSUME NEW p \in Pis, Rebind(p)
      PROVE  PortInv'
  BY <1>14 DEF Rebind
<1>15. ASSUME NEW p \in Pis, EndStarts(p)
      PROVE  PortInv'
  BY <1>15 DEF EndStarts
<1>16. ASSUME NEW p \in Pis, EndStops(p)
      PROVE  PortInv'
  BY <1>16 DEF EndStops, Stopped
<1>17. ASSUME NEW p \in Pis, EndRemoves(p)
      PROVE  PortInv'
  BY <1>17 DEF EndRemoves, Unlinked
<1>18. ASSUME NEW p \in Pis, SessionStarts(p)
      PROVE  PortInv'
  BY <1>18 DEF SessionStarts
<1>19. ASSUME NEW p \in Pis, Dies(p)
      PROVE  PortInv'
  BY <1>19 DEF Dies, NoWrites
<1>20. CASE UNCHANGED discoveryVars
  BY <1>20 DEF discoveryVars
<1>21. ASSUME NEW p \in Pis, Reattach(p)
      PROVE  PortInv'
  BY <1>21 DEF Reattach
<1> QED
  BY <1>1, <1>2, <1>3, <1>4, <1>5, <1>6, <1>7, <1>8, <1>9, <1>10, <1>11,
     <1>12, <1>13, <1>14, <1>15, <1>16, <1>17, <1>18, <1>19, <1>20,
     <1>21 DEF DiscoveryNext

\* The only file another process removes is that of a process without the port.
LEMMA StartupWriteStep ==
    ASSUME DiscoveryTypeOK, PortInv, StartupWriteInv, [DiscoveryNext]_discoveryVars
    PROVE  StartupWriteInv'
<1> USE DEF DiscoveryTypeOK, PortInv, StartupWriteInv, AwayPoints, Writers,
     processVars, boundVars, fileVars, ghostVars
<1>1. ASSUME NEW p \in Pis, NEW w \in Writers, WriteOpens(p, w)
      PROVE  StartupWriteInv'
  BY <1>1 DEF WriteOpens
<1>2. ASSUME NEW p \in Pis, NEW w \in Writers, WriteEnds(p, w)
      PROVE  StartupWriteInv'
  BY <1>2 DEF WriteEnds
<1>3. ASSUME NEW p \in Pis, Acquire(p)
      PROVE  StartupWriteInv'
  BY <1>3 DEF Acquire
<1>4. ASSUME NEW p \in Pis, ReadDirectory(p)
      PROVE  StartupWriteInv'
  BY <1>4 DEF ReadDirectory
<1>5. ASSUME NEW p \in Pis, ListEnds(p)
      PROVE  StartupWriteInv'
  BY <1>5 DEF ListEnds, CallWrite
<1>6. ASSUME NEW p \in Pis, StartupEnds(p)
      PROVE  StartupWriteInv'
  BY <1>6 DEF StartupEnds
<1>7. ASSUME NEW p \in Pis, Promote(p)
      PROVE  StartupWriteInv'
  BY <1>7, PromotionWrite DEF Promote
<1>8. ASSUME NEW p \in Pis, NEW q \in Pis, ReadRecord(p, q)
      PROVE  StartupWriteInv'
  BY <1>8 DEF ReadRecord
<1>9. ASSUME NEW p \in Pis, NEW q \in Pis, RemoveStale(p, q)
      PROVE  StartupWriteInv'
  <2>1. /\ startup[p] = "listing" /\ UNCHANGED startup
        /\ \A x \in Pis, w \in Writers :
              write'[x][w] = IF x = q /\ write[x][w] = "open" THEN "lost" ELSE write[x][w]
    BY <1>9, UnlinkedFiles DEF RemoveStale
  <2>2. write[q]["startup"] # "open"
    BY <2>1
  <2> QED
    BY <2>1, <2>2
<1>10. ASSUME NEW p \in Pis, SuspendStarts(p)
      PROVE  StartupWriteInv'
  BY <1>10 DEF SuspendStarts
<1>11. ASSUME NEW p \in Pis, SuspendStops(p)
      PROVE  StartupWriteInv'
  BY <1>11 DEF SuspendStops, Stopped, Demoted
<1>12. ASSUME NEW p \in Pis, SuspendFreezes(p)
      PROVE  StartupWriteInv'
  <2>1. startup[p] = "none" /\ UNCHANGED startup
    BY <1>12 DEF SuspendFreezes
  <2>2. CASE captured[p]
    <3>1. \A x \in Pis, w \in Writers :
             write'[x][w] = IF x = p /\ write[x][w] = "open" THEN "lost" ELSE write[x][w]
      BY <1>12, <2>2, UnlinkedFiles DEF SuspendFreezes
    <3> QED
      BY <2>1, <3>1
  <2>3. CASE ~captured[p]
    BY <1>12, <2>3 DEF SuspendFreezes
  <2> QED
    BY <2>2, <2>3
<1>13. ASSUME NEW p \in Pis, Thaw(p)
      PROVE  StartupWriteInv'
  <2>1. UNCHANGED startup
    BY <1>13 DEF Thaw
  <2>2. CASE broker[p] = "primary" /\ port = Nobody
    <3>1. \A x \in Pis, w \in Writers :
             write'[x][w] = IF x = p /\ w = "resume" THEN "called" ELSE write[x][w]
      BY <1>13, <2>2, CalledWrite DEF Thaw
    <3> QED
      BY <2>1, <3>1
  <2>3. CASE ~(broker[p] = "primary" /\ port = Nobody)
    BY <1>13, <2>3 DEF Thaw
  <2> QED
    BY <2>2, <2>3
<1>14. ASSUME NEW p \in Pis, Rebind(p)
      PROVE  StartupWriteInv'
  BY <1>14 DEF Rebind
<1>15. ASSUME NEW p \in Pis, EndStarts(p)
      PROVE  StartupWriteInv'
  BY <1>15 DEF EndStarts
<1>16. ASSUME NEW p \in Pis, EndStops(p)
      PROVE  StartupWriteInv'
  BY <1>16 DEF EndStops, Stopped
<1>17. ASSUME NEW p \in Pis, EndRemoves(p)
      PROVE  StartupWriteInv'
  BY <1>17 DEF EndRemoves, Unlinked
<1>18. ASSUME NEW p \in Pis, SessionStarts(p)
      PROVE  StartupWriteInv'
  BY <1>18 DEF SessionStarts
<1>19. ASSUME NEW p \in Pis, Dies(p)
      PROVE  StartupWriteInv'
  BY <1>19 DEF Dies, NoWrites
<1>20. CASE UNCHANGED discoveryVars
  BY <1>20 DEF discoveryVars
<1>21. ASSUME NEW p \in Pis, Reattach(p)
      PROVE  StartupWriteInv'
  BY <1>21 DEF Reattach
<1> QED
  BY <1>1, <1>2, <1>3, <1>4, <1>5, <1>6, <1>7, <1>8, <1>9, <1>10, <1>11,
     <1>12, <1>13, <1>14, <1>15, <1>16, <1>17, <1>18, <1>19, <1>20,
     <1>21 DEF DiscoveryNext

\* Whoever removes files has the port, or removes its own after it gave the
\* port up.
LEMMA ListedStep ==
    ASSUME DiscoveryTypeOK, PortInv, StartupWriteInv, ListedInv, [DiscoveryNext]_discoveryVars
    PROVE  ListedInv'
<1> USE DEF DiscoveryTypeOK, PortInv, StartupWriteInv, ListedInv, AwayPoints,
     Writers, processVars, boundVars, fileVars, ghostVars
<1>1. ASSUME NEW p \in Pis, NEW w \in Writers, WriteOpens(p, w)
      PROVE  ListedInv'
  BY <1>1 DEF WriteOpens
<1>2. ASSUME NEW p \in Pis, NEW w \in Writers, WriteEnds(p, w)
      PROVE  ListedInv'
  BY <1>2 DEF WriteEnds
<1>3. ASSUME NEW p \in Pis, Acquire(p)
      PROVE  ListedInv'
  BY <1>3 DEF Acquire
<1>4. ASSUME NEW p \in Pis, ReadDirectory(p)
      PROVE  ListedInv'
  BY <1>4 DEF ReadDirectory
<1>5. ASSUME NEW p \in Pis, ListEnds(p)
      PROVE  ListedInv'
  BY <1>5 DEF ListEnds, CallWrite
<1>6. ASSUME NEW p \in Pis, StartupEnds(p)
      PROVE  ListedInv'
  BY <1>6 DEF StartupEnds
<1>7. ASSUME NEW p \in Pis, Promote(p)
      PROVE  ListedInv'
  BY <1>7 DEF Promote, CallWrite
<1>8. ASSUME NEW p \in Pis, NEW q \in Pis, ReadRecord(p, q)
      PROVE  ListedInv'
  BY <1>8 DEF ReadRecord
<1>9. ASSUME NEW p \in Pis, NEW q \in Pis, RemoveStale(p, q)
      PROVE  ListedInv'
  <2>1. /\ record' = [record EXCEPT ![q] = "none"]
        /\ \A x \in Pis, w \in Writers :
              write'[x][w] = IF x = q /\ write[x][w] = "open" THEN "lost" ELSE write[x][w]
        /\ startup[p] = "listing" /\ UNCHANGED <<startup, published>>
    BY <1>9, UnlinkedFiles DEF RemoveStale
  <2>2. ~(published[q] /\ startup[q] \in {"none", "published"})
    BY <2>1, ListerIsOwner
  <2> QED
    BY <2>1, <2>2
<1>10. ASSUME NEW p \in Pis, SuspendStarts(p)
      PROVE  ListedInv'
  BY <1>10 DEF SuspendStarts
<1>11. ASSUME NEW p \in Pis, SuspendStops(p)
      PROVE  ListedInv'
  BY <1>11 DEF SuspendStops, Stopped, Demoted
<1>12. ASSUME NEW p \in Pis, SuspendFreezes(p)
      PROVE  ListedInv'
  BY <1>12 DEF SuspendFreezes, Unlinked
<1>13. ASSUME NEW p \in Pis, Thaw(p)
      PROVE  ListedInv'
  BY <1>13 DEF Thaw, CallWrite
<1>14. ASSUME NEW p \in Pis, Rebind(p)
      PROVE  ListedInv'
  BY <1>14 DEF Rebind
<1>15. ASSUME NEW p \in Pis, EndStarts(p)
      PROVE  ListedInv'
  BY <1>15 DEF EndStarts
<1>16. ASSUME NEW p \in Pis, EndStops(p)
      PROVE  ListedInv'
  BY <1>16 DEF EndStops, Stopped
<1>17. ASSUME NEW p \in Pis, EndRemoves(p)
      PROVE  ListedInv'
  BY <1>17 DEF EndRemoves, Unlinked
<1>18. ASSUME NEW p \in Pis, SessionStarts(p)
      PROVE  ListedInv'
  BY <1>18 DEF SessionStarts
<1>19. ASSUME NEW p \in Pis, Dies(p)
      PROVE  ListedInv'
  BY <1>19 DEF Dies, NoWrites
<1>20. CASE UNCHANGED discoveryVars
  BY <1>20 DEF discoveryVars
<1>21. ASSUME NEW p \in Pis, Reattach(p)
      PROVE  ListedInv'
  BY <1>21 DEF Reattach
<1> QED
  BY <1>1, <1>2, <1>3, <1>4, <1>5, <1>6, <1>7, <1>8, <1>9, <1>10, <1>11,
     <1>12, <1>13, <1>14, <1>15, <1>16, <1>17, <1>18, <1>19, <1>20,
     <1>21 DEF DiscoveryNext

\* A write that the owner of the port has called is not lost: who would remove
\* the file does not have the port.
LEMMA AnnouncedStep ==
    ASSUME DiscoveryTypeOK, PortInv, StartupWriteInv, AnnouncedInv,
           [DiscoveryNext]_discoveryVars
    PROVE  AnnouncedInv'
<1> USE DEF DiscoveryTypeOK, PortInv, StartupWriteInv, AnnouncedInv, AwayPoints,
     Writers, processVars, boundVars, fileVars, ghostVars
<1>1. ASSUME NEW p \in Pis, NEW w \in Writers, WriteOpens(p, w)
      PROVE  AnnouncedInv'
  BY <1>1 DEF WriteOpens
<1>2. ASSUME NEW p \in Pis, NEW w \in Writers, WriteEnds(p, w)
      PROVE  AnnouncedInv'
  <2>1. /\ write[p][w] \in {"open", "lost"} /\ UNCHANGED <<port, silent>>
        /\ \A x \in Pis, v \in Writers :
              write'[x][v] = IF x = p /\ v = w THEN "none" ELSE write[x][v]
        /\ \A x \in Pis : published'[x] <=>
              published[x] \/ (x = p /\ port = p /\ write[p][w] = "open")
        /\ \A x \in Pis :
              startup'[x] = IF x = p /\ w = "startup" THEN "published" ELSE startup[x]
    <3>1. write[p][w] \in {"open", "lost"} /\ UNCHANGED <<port, silent>>
      BY <1>2 DEF WriteEnds
    <3>2. \A x \in Pis, v \in Writers :
              write'[x][v] = IF x = p /\ v = w THEN "none" ELSE write[x][v]
      BY <1>2 DEF WriteEnds
    <3>3. \A x \in Pis : published'[x] <=>
              published[x] \/ (x = p /\ port = p /\ write[p][w] = "open")
      <4>1. published' = [published EXCEPT ![p] = @ \/ (port = p /\ write[p][w] = "open")]
        BY <1>2 DEF WriteEnds
      <4>2. published \in [Pis -> BOOLEAN]
        OBVIOUS
      <4>3. published'[p] = (published[p] \/ (port = p /\ write[p][w] = "open"))
        BY <4>1, <4>2, Zenon
      <4>4. \A x \in Pis : x # p => published'[x] = published[x]
        BY <4>1, <4>2, Zenon
      <4>5. ASSUME NEW x \in Pis
            PROVE  published'[x] <=>
                       published[x] \/ (x = p /\ port = p /\ write[p][w] = "open")
        <5>1. CASE x = p
          BY <4>3, <5>1, Zenon
        <5>2. CASE x # p
          BY <4>4, <5>2, Zenon
        <5> QED
          BY <5>1, <5>2
      <4> QED
        BY <4>5
    <3>4. \A x \in Pis :
              startup'[x] = IF x = p /\ w = "startup" THEN "published" ELSE startup[x]
      BY <1>2 DEF WriteEnds
    <3> QED
      BY <3>1, <3>2, <3>3, <3>4
  <2>2. w = "startup" => startup[p] = "publishing" /\ port = p /\ write[p][w] = "open"
    BY <2>1
  <2>3. ASSUME NEW x \in Pis, startup'[x] = "published" PROVE published'[x]
    BY <2>1, <2>2, <2>3
  <2>4. ASSUME NEW x \in Pis, silent'[x] PROVE port' = x /\ startup'[x] = "none"
    BY <2>1, <2>2, <2>4
  <2>5. ASSUME NEW x \in Pis, port' = x, startup'[x] = "none", ~silent'[x], ~published'[x]
        PROVE  \E v \in Writers : write'[x][v] \in {"called", "open"}
    <3>1. startup[x] = "none" /\ ~published[x] /\ (x = p => write[p][w] # "open")
      BY <2>1, <2>5
    <3>2. PICK v \in Writers : write[x][v] \in {"called", "open"}
      BY <2>1, <2>5, <3>1
    <3>3. ~(x = p /\ v = w)
      BY <2>1, <3>1, <3>2
    <3> QED
      BY <2>1, <3>2, <3>3
  <2> QED
    BY <2>3, <2>4, <2>5
<1>3. ASSUME NEW p \in Pis, Acquire(p)
      PROVE  AnnouncedInv'
  BY <1>3 DEF Acquire
<1>4. ASSUME NEW p \in Pis, ReadDirectory(p)
      PROVE  AnnouncedInv'
  BY <1>4 DEF ReadDirectory
<1>5. ASSUME NEW p \in Pis, ListEnds(p)
      PROVE  AnnouncedInv'
  BY <1>5 DEF ListEnds, CallWrite
<1>6. ASSUME NEW p \in Pis, StartupEnds(p)
      PROVE  AnnouncedInv'
  BY <1>6 DEF StartupEnds
<1>7. ASSUME NEW p \in Pis, Promote(p)
      PROVE  AnnouncedInv'
  <2>1. /\ port = Nobody /\ port' = p /\ UNCHANGED <<startup, published>>
        /\ \A x \in Pis : silent'[x] = IF x = p THEN ~attached[p] ELSE silent[x]
    BY <1>7 DEF Promote
  <2>2. attached[p] => write'[p]["promotion"] = "called"
    BY <1>7, PromotionWrite
  <2>3. startup[p] = "none" /\ \A x \in Pis : x # port
    BY <2>1
  <2> QED
    BY <2>1, <2>2, <2>3
<1>8. ASSUME NEW p \in Pis, NEW q \in Pis, ReadRecord(p, q)
      PROVE  AnnouncedInv'
  BY <1>8 DEF ReadRecord
<1>9. ASSUME NEW p \in Pis, NEW q \in Pis, RemoveStale(p, q)
      PROVE  AnnouncedInv'
  <2>1. /\ \A x \in Pis, w \in Writers :
              write'[x][w] = IF x = q /\ write[x][w] = "open" THEN "lost" ELSE write[x][w]
        /\ startup[p] = "listing" /\ UNCHANGED <<port, startup, published, silent>>
    BY <1>9, UnlinkedFiles DEF RemoveStale
  <2>2. ~(port = q /\ startup[q] = "none")
    BY <2>1
  <2> QED
    BY <2>1, <2>2
<1>10. ASSUME NEW p \in Pis, SuspendStarts(p)
      PROVE  AnnouncedInv'
  BY <1>10 DEF SuspendStarts
<1>11. ASSUME NEW p \in Pis, SuspendStops(p)
      PROVE  AnnouncedInv'
  BY <1>11 DEF SuspendStops, Stopped, Demoted
<1>12. ASSUME NEW p \in Pis, SuspendFreezes(p)
      PROVE  AnnouncedInv'
  BY <1>12 DEF SuspendFreezes, Unlinked
<1>13. ASSUME NEW p \in Pis, Thaw(p)
      PROVE  AnnouncedInv'
  <2>1. UNCHANGED <<startup, published, silent>>
    BY <1>13 DEF Thaw
  <2>2. CASE broker[p] = "primary" /\ port = Nobody
    <3>1. /\ port' = p
          /\ \A x \in Pis, w \in Writers :
                write'[x][w] = IF x = p /\ w = "resume" THEN "called" ELSE write[x][w]
      BY <1>13, <2>2, CalledWrite DEF Thaw
    <3> QED
      BY <2>1, <2>2, <3>1
  <2>3. CASE ~(broker[p] = "primary" /\ port = Nobody)
    BY <1>13, <2>1, <2>3 DEF Thaw
  <2> QED
    BY <2>2, <2>3
<1>14. ASSUME NEW p \in Pis, Rebind(p)
      PROVE  AnnouncedInv'
  BY <1>14 DEF Rebind
<1>15. ASSUME NEW p \in Pis, EndStarts(p)
      PROVE  AnnouncedInv'
  BY <1>15 DEF EndStarts
<1>16. ASSUME NEW p \in Pis, EndStops(p)
      PROVE  AnnouncedInv'
  <2>1. /\ \A x \in Pis : x # p => published'[x] = published[x] /\ silent'[x] = silent[x]
        /\ port' # p /\ ~silent'[p] /\ startup[p] = "none"
        /\ port' = port \/ port' = Nobody
        /\ UNCHANGED <<startup, write>>
    BY <1>16 DEF EndStops, Stopped
  <2>2. ASSUME NEW x \in Pis, x # p, silent[x] PROVE port' = x
    <3>1. port = x
      BY <2>2
    <3> QED
      BY <1>16, <2>2, <3>1 DEF EndStops, Stopped
  <2> QED
    BY <2>1, <2>2
<1>17. ASSUME NEW p \in Pis, EndRemoves(p)
      PROVE  AnnouncedInv'
  BY <1>17 DEF EndRemoves, Unlinked
<1>18. ASSUME NEW p \in Pis, SessionStarts(p)
      PROVE  AnnouncedInv'
  BY <1>18 DEF SessionStarts
<1>19. ASSUME NEW p \in Pis, Dies(p)
      PROVE  AnnouncedInv'
  BY <1>19 DEF Dies, NoWrites
<1>20. CASE UNCHANGED discoveryVars
  BY <1>20 DEF discoveryVars
<1>21. ASSUME NEW p \in Pis, Reattach(p)
      PROVE  AnnouncedInv'
  BY <1>21 DEF Reattach
<1> QED
  BY <1>1, <1>2, <1>3, <1>4, <1>5, <1>6, <1>7, <1>8, <1>9, <1>10, <1>11,
     <1>12, <1>13, <1>14, <1>15, <1>16, <1>17, <1>18, <1>19, <1>20,
     <1>21 DEF DiscoveryNext

\* A session that has ended calls no write, and the only ones under way are of
\* the ghost's kind.
LEMMA EndStep ==
    ASSUME DiscoveryTypeOK, PortInv, StartupWriteInv, EndInv, [DiscoveryNext]_discoveryVars
    PROVE  EndInv'
<1> USE DEF DiscoveryTypeOK, PortInv, StartupWriteInv, EndInv, AwayPoints,
     Writers, processVars, boundVars, fileVars, ghostVars
<1>1. ASSUME NEW p \in Pis, NEW w \in Writers, WriteOpens(p, w)
      PROVE  EndInv'
  BY <1>1 DEF WriteOpens
<1>2. ASSUME NEW p \in Pis, NEW w \in Writers, WriteEnds(p, w)
      PROVE  EndInv'
  BY <1>2 DEF WriteEnds
<1>3. ASSUME NEW p \in Pis, Acquire(p)
      PROVE  EndInv'
  BY <1>3 DEF Acquire
<1>4. ASSUME NEW p \in Pis, ReadDirectory(p)
      PROVE  EndInv'
  BY <1>4 DEF ReadDirectory
<1>5. ASSUME NEW p \in Pis, ListEnds(p)
      PROVE  EndInv'
  BY <1>5 DEF ListEnds, CallWrite
<1>6. ASSUME NEW p \in Pis, StartupEnds(p)
      PROVE  EndInv'
  BY <1>6 DEF StartupEnds
<1>7. ASSUME NEW p \in Pis, Promote(p)
      PROVE  EndInv'
  <2>1. session[p] = "running" /\ UNCHANGED <<session, late, record>>
    BY <1>7 DEF Promote
  <2>2. \A x \in Pis, w \in Writers : x # p => write'[x][w] = write[x][w]
    BY <1>7, PromotionWrite
  <2>3. ASSUME NEW x \in Pis, session[x] = "ended", ~late[x]
        PROVE  record'[x] = "none" /\ \A w \in Writers : write'[x][w] \in {"none", "lost"}
    <3>1. x # p /\ record[x] = "none" /\ \A w \in Writers : write[x][w] \in {"none", "lost"}
      BY <2>1, <2>3
    <3>2. \A w \in Writers : write'[x][w] = write[x][w]
      BY <2>2, <3>1
    <3> QED
      BY <2>1, <3>1, <3>2
  <2> QED
    BY <2>1, <2>3
<1>8. ASSUME NEW p \in Pis, NEW q \in Pis, ReadRecord(p, q)
      PROVE  EndInv'
  BY <1>8 DEF ReadRecord
<1>9. ASSUME NEW p \in Pis, NEW q \in Pis, RemoveStale(p, q)
      PROVE  EndInv'
  BY <1>9 DEF RemoveStale, Unlinked
<1>10. ASSUME NEW p \in Pis, SuspendStarts(p)
      PROVE  EndInv'
  BY <1>10 DEF SuspendStarts
<1>11. ASSUME NEW p \in Pis, SuspendStops(p)
      PROVE  EndInv'
  BY <1>11 DEF SuspendStops, Stopped, Demoted
<1>12. ASSUME NEW p \in Pis, SuspendFreezes(p)
      PROVE  EndInv'
  BY <1>12 DEF SuspendFreezes, Unlinked
<1>13. ASSUME NEW p \in Pis, Thaw(p)
      PROVE  EndInv'
  BY <1>13 DEF Thaw, CallWrite
<1>14. ASSUME NEW p \in Pis, Rebind(p)
      PROVE  EndInv'
  BY <1>14 DEF Rebind
<1>15. ASSUME NEW p \in Pis, EndStarts(p)
      PROVE  EndInv'
  BY <1>15 DEF EndStarts
<1>16. ASSUME NEW p \in Pis, EndStops(p)
      PROVE  EndInv'
  BY <1>16 DEF EndStops, Stopped
<1>17. ASSUME NEW p \in Pis, EndRemoves(p)
      PROVE  EndInv'
  BY <1>17 DEF EndRemoves, Unlinked
<1>18. ASSUME NEW p \in Pis, SessionStarts(p)
      PROVE  EndInv'
  BY <1>18 DEF SessionStarts
<1>19. ASSUME NEW p \in Pis, Dies(p)
      PROVE  EndInv'
  BY <1>19 DEF Dies, NoWrites
<1>20. CASE UNCHANGED discoveryVars
  BY <1>20 DEF discoveryVars
<1>21. ASSUME NEW p \in Pis, Reattach(p)
      PROVE  EndInv'
  BY <1>21 DEF Reattach
<1> QED
  BY <1>1, <1>2, <1>3, <1>4, <1>5, <1>6, <1>7, <1>8, <1>9, <1>10, <1>11,
     <1>12, <1>13, <1>14, <1>15, <1>16, <1>17, <1>18, <1>19, <1>20,
     <1>21 DEF DiscoveryNext

-----------------------------------------------------------------------------
(* The theorems.                                                           *)

\* The files and the port stay in step whatever the processes of the directory
\* do: start, suspend, resume, promote, shut down or die between two file calls.
THEOREM DiscoveryInvariance == DiscoverySpec => []DInv
<1>1. DiscoveryInit => DInv
  <2> SUFFICES ASSUME DiscoveryInit PROVE DInv
    OBVIOUS
  <2> USE DEF DiscoveryInit, Writers, NoWrites
  <2>1. DiscoveryTypeOK
    <3>1. /\ session \in [Pis -> SessionPoints]
          /\ write \in [Pis -> [Writers -> {"none", "called", "open", "lost"}]]
          /\ look \in [Pis -> [Pis -> {"no", "read", "unlink"}]]
      BY DEF SessionPoints
    <3>2. starts \in [Pis -> 0..MaxStarts] /\ suspensions \in [Pis -> 0..MaxSuspensions]
      OBVIOUS
    <3> QED
      BY <3>1, <3>2 DEF DiscoveryTypeOK
  <2>2. PortInv /\ StartupWriteInv /\ ListedInv /\ AnnouncedInv /\ EndInv
    BY DEF PortInv, StartupWriteInv, ListedInv, AnnouncedInv, EndInv, AwayPoints
  <2> QED
    BY <2>1, <2>2 DEF DInv
<1>2. DInv /\ [DiscoveryNext]_discoveryVars => DInv'
  BY TypeStep, PortStep, StartupWriteStep, ListedStep, AnnouncedStep, EndStep DEF DInv
<1> QED
  BY <1>1, <1>2, PTL DEF DiscoverySpec

\* Every variable keeps its type, and only the owner of the port is promoted.
THEOREM DiscoveryTypes == DiscoverySpec => []DiscoveryTypeOK
<1>1. DInv => DiscoveryTypeOK
  BY DEF DInv
<1> QED
  BY <1>1, DiscoveryInvariance, PTL

\* The published file of the owner of the port is there and whole: no listing
\* of another process removes it.
THEOREM OwnerStaysListed == DiscoverySpec => []OwnerIsListed
<1>1. DInv => OwnerIsListed
  BY DEF DInv, ListedInv, OwnerIsListed, Writers
<1> QED
  BY <1>1, DiscoveryInvariance, PTL

\* Whoever owns the port has its file published or being written, but for the
\* primary bound again by ensureReady() and the proxy promoted without its
\* listener.
THEOREM OwnersAreAnnounced == DiscoverySpec => []OwnerIsAnnounced
<1>1. DInv => OwnerIsAnnounced
  BY DEF DInv, AnnouncedInv, OwnerIsAnnounced
<1> QED
  BY <1>1, DiscoveryInvariance, PTL

\* A shutdown leaves no file, but for a write that nobody awaits.
THEOREM ShutdownLeavesNoRecord == DiscoverySpec => []RecordsEnd
<1>1. DInv => RecordsEnd
  BY DEF DInv, EndInv, RecordsEnd
<1> QED
  BY <1>1, DiscoveryInvariance, PTL
=============================================================================
