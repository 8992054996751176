-------------------------- MODULE InstanceDiscovery --------------------------
(***************************************************************************)
(* Instance discovery (src/src/util/instances.ts): the file in which the   *)
(* owner of the port says who it is, and when src/src/index.ts writes,     *)
(* lists and removes such files.  Each pi process has a file of its own    *)
(* name; a process that binds the port reads all of them and removes those *)
(* it cannot read and those of dead processes.                             *)
(*                                                                         *)
(* Sockets and brokers are reduced to who owns the port and what kind of   *)
(* broker a process has.  Writes succeed; a SIGCONT finds the process      *)
(* frozen, and a shutdown finds it running (module SessionLifecycle has    *)
(* those that do not).                                                     *)
(***************************************************************************)
EXTENDS Naturals, FiniteSets

CONSTANTS
    Pis,        \* pi processes, which share the directory
    Nobody,
    MaxStarts,  \* bound: sessions started in one process
    MaxSuspensions,  \* bound: of one process
    MaxDeaths   \* bound: processes that die without a shutdown

ASSUME DiscoveryAssumption ==
    /\ Nobody \notin Pis
    /\ MaxStarts \in Nat \ {0} /\ MaxSuspensions \in Nat /\ MaxDeaths \in Nat

VARIABLES
    port,       \* who listens
    broker,     \* of a process: brokerSingleton
    session,    \* of a process: where its session is, see SessionPoints
    startup,    \* of a process: where createAndStartBroker() is
    cancelled,  \* of a process: the generation of that startup is over
    captured,   \* of a process: onSuspend() found a brokerSingleton
    attached,   \* of a process: its proxy has the promotion listener
    starts, suspensions, deaths,
    record,     \* of a process: its file
    write,      \* of a process and a caller: its writeInstanceFile()
    look,       \* of a process: what listInstances() has still to do with a file
    published,  \* ghost: the owner of the port has written its file
    late,       \* ghost: a shutdown removed the file, a write being under way
    silent      \* ghost: the process took the port without a write of its file

boundVars   == <<starts, suspensions, deaths>>
processVars == <<broker, session, startup, cancelled, captured, attached>>
fileVars    == <<record, write, look>>
ghostVars   == <<published, late, silent>>
discoveryVars == <<port, processVars, boundVars, fileVars, ghostVars>>

SessionPoints == {"running", "suspending", "suspendStopped", "frozen",
                  "ending", "endStopped", "ended", "dead"}
Writers  == {"startup", "resume", "promotion"}    \* only the first is awaited
NoWrites == [w \in Writers |-> "none"]
Alive(p) == session[p] # "dead"
Awake(p) == session[p] \notin {"dead", "frozen"}

DiscoveryTypeOK ==
    /\ port \in Pis \cup {Nobody}
    /\ broker \in [Pis -> {"none", "primary", "proxy", "promoted"}]
    /\ session \in [Pis -> SessionPoints]
    /\ startup \in [Pis -> {"none", "bound", "listing", "publishing", "published"}]
    /\ cancelled \in [Pis -> BOOLEAN] /\ captured \in [Pis -> BOOLEAN]
    /\ attached \in [Pis -> BOOLEAN] /\ silent \in [Pis -> BOOLEAN]
    /\ published \in [Pis -> BOOLEAN] /\ late \in [Pis -> BOOLEAN]
    /\ starts \in [Pis -> 0..MaxStarts] /\ suspensions \in [Pis -> 0..MaxSuspensions]
    /\ deaths \in 0..MaxDeaths
    /\ record \in [Pis -> {"none", "half", "whole"}]
    \* "lost": the file was unlinked after it was opened.
    /\ write \in [Pis -> [Writers -> {"none", "called", "open", "lost"}]]
    /\ look \in [Pis -> [Pis -> {"no", "read", "unlink"}]]
    /\ \A p \in Pis : broker[p] = "promoted" => port = p

DiscoveryInit ==
    /\ port = Nobody
    /\ broker = [p \in Pis |-> "none"]
    /\ session = [p \in Pis |-> "running"]
    /\ startup = [p \in Pis |-> "none"]
    /\ cancelled = [p \in Pis |-> FALSE] /\ captured = [p \in Pis |-> FALSE]
    /\ starts = [p \in Pis |-> 1] /\ suspensions = [p \in Pis |-> 0] /\ deaths = 0
    /\ record = [p \in Pis |-> "none"]
    /\ write = [p \in Pis |-> NoWrites]
    /\ look = [p \in Pis |-> [q \in Pis |-> "no"]]
    /\ attached = [p \in Pis |-> FALSE] /\ silent = [p \in Pis |-> FALSE]
    /\ published = [p \in Pis |-> FALSE] /\ late = [p \in Pis |-> FALSE]

-----------------------------------------------------------------------------
(* The files.                                                              *)

\* removeInstanceFile(), and the unlink() of listInstances(): whoever has the
\* file open goes on writing to it unseen.
Unlinked(q) ==
    /\ record' = [record EXCEPT ![q] = "none"]
    /\ write' = [write EXCEPT ![q] = [w \in Writers |-> IF @[w] = "open" THEN "lost" ELSE @[w]]]

\* Mutant: only the startup writes the file.
CallOnlyFirst(p, w) ==
    write' = IF w = "startup" THEN [write EXCEPT ![p][w] = "called"] ELSE write

CallWrite(p, w) == write' = [write EXCEPT ![p][w] = "called"]

WriteOpens(p, w) ==
    /\ Awake(p) /\ write[p][w] = "called"
    /\ write' = [write EXCEPT ![p][w] = "open"]
    /\ record' = [record EXCEPT ![p] = "half"]
    /\ UNCHANGED <<port, processVars, boundVars, look, ghostVars>>

WriteEnds(p, w) ==
    /\ Awake(p) /\ write[p][w] \in {"open", "lost"}
    /\ write' = [write EXCEPT ![p][w] = "none"]
    /\ record' = [record EXCEPT ![p] = IF write[p][w] = "open" THEN "whole" ELSE @]
    /\ startup' = [startup EXCEPT ![p] = IF w = "startup" THEN "published" ELSE @]
    /\ published' = [published EXCEPT ![p] = @ \/ (port = p /\ write[p][w] = "open")]
    /\ UNCHANGED <<port, broker, session, cancelled, captured, attached, boundVars, look,
                   late, silent>>

-----------------------------------------------------------------------------
(* createAndStartBroker().                                                 *)

\* A broker that is not there any more is stopped first: a primary that is not
\* listening, a proxy without a connection.  A proxy gets its listener.
Acquire(p) ==
    /\ session[p] = "running" /\ startup[p] = "none"
    /\ broker[p] = "none" \/ (broker[p] \in {"primary", "proxy"} /\ port # p)
    /\ IF port = Nobody
       THEN /\ port' = p
            /\ broker' = [broker EXCEPT ![p] = "none"]
            /\ startup' = [startup EXCEPT ![p] = "bound"]
            /\ cancelled' = [cancelled EXCEPT ![p] = FALSE]
            /\ attached' = [attached EXCEPT ![p] = FALSE]
       ELSE /\ broker' = [broker EXCEPT ![p] = "proxy"]
            /\ attached' = [attached EXCEPT ![p] = TRUE]
            /\ UNCHANGED <<port, startup, cancelled>>
    /\ UNCHANGED <<session, captured, boundVars, fileVars, ghostVars>>

\* readdir()
ReadDirectory(p) ==
    /\ startup[p] = "bound" /\ Awake(p)
    /\ startup' = [startup EXCEPT ![p] = "listing"]
    /\ look' = [look EXCEPT ![p] = [q \in Pis |-> IF record[q] = "none" THEN "no" ELSE "read"]]
    /\ UNCHANGED <<port, broker, session, cancelled, captured, attached, boundVars,
                   record, write, ghostVars>>

\* One file after the other: read it and ask whether its process lives.
ReadRecord(p, q) ==
    /\ startup[p] = "listing" /\ Awake(p)
    /\ look[p][q] = "read" /\ \A r \in Pis : look[p][r] # "unlink"
    /\ look' = [look EXCEPT ![p][q] =
                   IF record[q] = "whole" /\ Alive(q) THEN "no" ELSE "unlink"]
    /\ UNCHANGED <<port, processVars, boundVars, record, write, ghostVars>>

RemoveStale(p, q) ==
    /\ startup[p] = "listing" /\ Awake(p) /\ look[p][q] = "unlink"
    /\ Unlinked(q)
    /\ look' = [look EXCEPT ![p][q] = "no"]
    /\ UNCHANGED <<port, processVars, boundVars, ghostVars>>

ListEnds(p) ==
    /\ startup[p] = "listing" /\ Awake(p) /\ \A q \in Pis : look[p][q] = "no"
    /\ startup' = [startup EXCEPT ![p] = "publishing"]
    /\ CallWrite(p, "startup")
    /\ UNCHANGED <<port, broker, session, cancelled, captured, attached, boundVars,
                   record, look, ghostVars>>

\* The broker is published, or, its generation being over, stopped again: the
\* file stays.
StartupEnds(p) ==
    /\ startup[p] = "published" /\ Awake(p)
    /\ startup' = [startup EXCEPT ![p] = "none"]
    /\ IF cancelled[p]
       THEN /\ port' = IF port = p THEN Nobody ELSE port
            /\ published' = [published EXCEPT ![p] = FALSE]
            /\ UNCHANGED broker
       ELSE /\ broker' = [broker EXCEPT ![p] = "primary"]
            /\ UNCHANGED <<port, published>>
    /\ UNCHANGED <<session, cancelled, captured, attached, boundVars, fileVars, late, silent>>

\* A proxy wins the free port; nobody awaits the write of its promotion
\* listener, if it has the listener.  Bound: one such write at a time.
Promote(p) ==
    /\ broker[p] = "proxy" /\ port = Nobody
    /\ session[p] = "running"
    /\ port' = p
    /\ broker' = [broker EXCEPT ![p] = "promoted"]
    /\ IF attached[p] THEN write[p]["promotion"] = "none" /\ CallWrite(p, "promotion")
       ELSE UNCHANGED write
    /\ silent' = [silent EXCEPT ![p] = ~attached[p]]
    /\ UNCHANGED <<session, startup, cancelled, captured, attached, boundVars, record,
                   look, published, late>>

\* observeHealth() after a resume: the listener that stop() cleared.  A broker
\* that is promoted calls it no more.
Reattach(p) ==
    /\ session[p] = "running" /\ broker[p] = "proxy" /\ ~attached[p]
    /\ attached' = [attached EXCEPT ![p] = TRUE]
    /\ UNCHANGED <<port, broker, session, startup, cancelled, captured, boundVars,
                   fileVars, ghostVars>>

-----------------------------------------------------------------------------
(* Suspension, shutdown, death.                                            *)

\* stop() of the broker of p, if it has one.
Stopped(p) ==
    /\ port' = IF port = p /\ broker[p] # "none" THEN Nobody ELSE port
    /\ published' = [published EXCEPT ![p] = FALSE]
    /\ silent' = [silent EXCEPT ![p] = FALSE]
    /\ attached' = [attached EXCEPT ![p] = FALSE]

\* What is left of a broker that is stopped: the proxy without promotedBroker.
Demoted(kind) == IF kind = "promoted" THEN "proxy" ELSE kind

SuspendStarts(p) ==
    /\ session[p] = "running" /\ suspensions[p] < MaxSuspensions
    /\ session' = [session EXCEPT ![p] = "suspending"]
    /\ suspensions' = [suspensions EXCEPT ![p] = @ + 1]
    /\ cancelled' = [cancelled EXCEPT ![p] = TRUE]
    /\ captured' = [captured EXCEPT ![p] = broker[p] # "none"]
    /\ UNCHANGED <<port, broker, startup, attached, starts, deaths, fileVars, ghostVars>>

\* The startup that was found has ended: stop() the broker that was found.
SuspendStops(p) ==
    /\ session[p] = "suspending" /\ startup[p] = "none"
    /\ session' = [session EXCEPT ![p] = "suspendStopped"]
    /\ Stopped(p)
    /\ broker' = [broker EXCEPT ![p] = Demoted(@)]
    /\ UNCHANGED <<startup, cancelled, captured, boundVars, fileVars, late>>

\* The file is removed if there was a broker; SIGSTOP.
SuspendFreezes(p) ==
    /\ session[p] = "suspendStopped"
    /\ session' = [session EXCEPT ![p] = "frozen"]
    /\ IF captured[p] THEN Unlinked(p) ELSE UNCHANGED <<record, write>>
    /\ UNCHANGED <<port, broker, startup, cancelled, captured, attached, boundVars, look,
                   ghostVars>>

\* SIGCONT: a primary binds the port again and writes its file, unless somebody
\* has the port.  Bound: one such write at a time.
Thaw(p) ==
    /\ session[p] = "frozen"
    /\ session' = [session EXCEPT ![p] = "running"]
    /\ IF broker[p] = "primary" /\ port = Nobody
       THEN port' = p /\ write[p]["resume"] = "none" /\ CallWrite(p, "resume")
       ELSE UNCHANGED <<port, write>>
    /\ UNCHANGED <<broker, startup, cancelled, captured, attached, boundVars, record, look,
                   ghostVars>>

\* ensureReady() of a primary that lost its listener binds it again, and writes
\* no file.
Rebind(p) ==
    /\ session[p] = "running" /\ startup[p] = "none"
    /\ broker[p] = "primary" /\ port = Nobody
    /\ port' = p
    /\ silent' = [silent EXCEPT ![p] = TRUE]
    /\ UNCHANGED <<processVars, boundVars, fileVars, published, late>>

\* session_shutdown.
EndStarts(p) ==
    /\ session[p] = "running"
    /\ session' = [session EXCEPT ![p] = "ending"]
    /\ cancelled' = [cancelled EXCEPT ![p] = TRUE]
    /\ UNCHANGED <<port, broker, startup, captured, attached, boundVars, fileVars, ghostVars>>

\* Mutant: a shutdown does not wait for the startup under way.
EndStopsHasty(p) ==
    /\ session[p] = "ending"
    /\ session' = [session EXCEPT ![p] = "endStopped"]
    /\ port' = IF port = p THEN Nobody ELSE port
    /\ published' = [published EXCEPT ![p] = FALSE]
    /\ attached' = [attached EXCEPT ![p] = FALSE]
    /\ silent' = [silent EXCEPT ![p] = FALSE]
    /\ broker' = [broker EXCEPT ![p] = "none"]
    /\ UNCHANGED <<startup, cancelled, captured, boundVars, fileVars, late>>

EndStops(p) ==
    /\ session[p] = "ending" /\ startup[p] = "none"
    /\ session' = [session EXCEPT ![p] = "endStopped"]
    /\ Stopped(p)
    /\ broker' = [broker EXCEPT ![p] = "none"]
    /\ UNCHANGED <<startup, cancelled, captured, boundVars, fileVars, late>>

EndRemoves(p) ==
    /\ session[p] = "endStopped"
    /\ session' = [session EXCEPT ![p] = "ended"]
    /\ Unlinked(p)
    /\ late' = [late EXCEPT ![p] = \E w \in {"resume", "promotion"} : write[p][w] = "called"]
    /\ UNCHANGED <<port, broker, startup, cancelled, captured, attached, boundVars, look,
                   published, silent>>

SessionStarts(p) ==
    /\ session[p] = "ended" /\ starts[p] < MaxStarts
    /\ session' = [session EXCEPT ![p] = "running"]
    /\ starts' = [starts EXCEPT ![p] = @ + 1]
    /\ UNCHANGED <<port, broker, startup, cancelled, captured, attached, suspensions,
                   deaths, fileVars, ghostVars>>

\* A process is killed, or pi exits after its shutdown.
Dies(p) ==
    /\ Alive(p)
    /\ IF session[p] = "ended" THEN UNCHANGED deaths
       ELSE deaths < MaxDeaths /\ deaths' = deaths + 1
    /\ session' = [session EXCEPT ![p] = "dead"]
    /\ port' = IF port = p THEN Nobody ELSE port
    /\ broker' = [broker EXCEPT ![p] = "none"]
    /\ startup' = [startup EXCEPT ![p] = "none"]
    /\ write' = [write EXCEPT ![p] = NoWrites]
    /\ look' = [look EXCEPT ![p] = [q \in Pis |-> "no"]]
    /\ published' = [published EXCEPT ![p] = FALSE]
    /\ silent' = [silent EXCEPT ![p] = FALSE]
    /\ attached' = [attached EXCEPT ![p] = FALSE]
    /\ UNCHANGED <<cancelled, captured, starts, suspensions, record, late>>

DiscoveryNext ==
    \E p \in Pis :
        \/ \E w \in Writers : WriteOpens(p, w) \/ WriteEnds(p, w)
        \/ Acquire(p) \/ ReadDirectory(p) \/ ListEnds(p) \/ StartupEnds(p) \/ Promote(p)
        \/ Reattach(p)
        \/ \E q \in Pis : ReadRecord(p, q) \/ RemoveStale(p, q)
        \/ SuspendStarts(p) \/ SuspendStops(p) \/ SuspendFreezes(p)
        \/ Thaw(p) \/ Rebind(p)
        \/ EndStarts(p) \/ EndStops(p) \/ EndRemoves(p) \/ SessionStarts(p) \/ Dies(p)

DiscoverySpec == DiscoveryInit /\ [][DiscoveryNext]_discoveryVars

-----------------------------------------------------------------------------
(* Safety.                                                                 *)

\* The file of a process that owns the port, once its startup is over and the
\* file written, is there and whole unless the process writes it again: nobody
\* who lists the files removes it, having read it half written or as somebody's
\* who was dead then.
OwnerIsListed ==
    \A p \in Pis :
        /\ port = p /\ published[p] /\ startup[p] = "none"
        /\ \A w \in Writers : write[p][w] \in {"none", "called"}
        => record[p] = "whole"

\* Whoever owns the port has written its file or is about to, but for the two
\* that took the port without a write: a primary that ensureReady() bound again
\* after it had lost the port, and a proxy promoted before its first
\* observeHealth() after a resume.
OwnerIsAnnounced ==
    \A p \in Pis :
        port = p /\ startup[p] = "none" /\ ~silent[p] =>
            published[p] \/ \E w \in Writers : write[p][w] \in {"called", "open"}

\* A shutdown leaves no file, however it meets a startup or a suspension, but
\* for a write that nobody awaits and that it overtook.
RecordsEnd ==
    \A p \in Pis : session[p] = "ended" /\ ~late[p] => record[p] = "none"
=============================================================================
