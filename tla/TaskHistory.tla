---------------------------- MODULE TaskHistory ----------------------------
(***************************************************************************)
(* The history of browser tasks on disk: one file of JSON lines per task   *)
(* (src/src/broker/task-store.ts), which browser_run_task writes           *)
(* (src/src/tools/browser_task_tools.ts), which every pi process lists,    *)
(* and which every process that starts a broker cleans up.  The processes  *)
(* share the directory and take no lock.                                   *)
(***************************************************************************)
EXTENDS Integers, Sequences, FiniteSets, SequencesExt

CONSTANTS
    Tasks,       \* task ids; randomUUID() gives each to one run
    Procs,       \* pi processes on the state directory
    Listers,     \* those in which browser_list_tasks is called
    Replies,     \* what request() does for a task: a subset of AllReplies
    Ttl,         \* ttlMs
    MaxTime,     \* bound: the clock
    MaxFaults    \* bound: writes that fail and processes that die

VARIABLES
    now,         \* Date.now()
    file,        \* the directory: of a task, its file
    call,        \* of a task: its run of browser_run_task
    writer,      \* of a task and a kind of entry: its append()
    collector,   \* of a process: its gc(); ended is a ghost, see GcKeepsFresh
    lister,      \* of a process: its list()
    faults, faulted,  \* ghost: faults so far; the tasks they hit
    collected         \* ghost: tasks whose file a gc() removed

callVars  == <<call, writer>>
faultVars == <<faults, faulted>>
vars == <<now, file, callVars, collector, lister, faultVars, collected>>

Kinds    == {"task_started", "task_finished"}
Terminal == {"done", "error", "stopped", "rejected", "paused"}
Verdicts == Terminal \cup {"cancelled"}
Statuses == Verdicts \cup {"running", "unknown"}

\* request() throws, or resolves with ok = false, or with ok = true and data
\* that has a status or ("flagged") only cancelled = true.
AllReplies ==
    {<<"throws", e>> : e \in {"E_ABORTED", "E_TIMEOUT"}}
    \cup {<<"refused", e>> : e \in {"E_BUSY", "E_RUNTIME"}}
    \cup {<<"answers", s>> : s \in Terminal \cup {"running", "flagged"}}

ASSUME HistoryAssumption ==
    /\ Tasks \cap Procs = {} /\ Procs # {}
    /\ Listers \subseteq Procs
    /\ Replies \subseteq AllReplies
    /\ Ttl \in Nat /\ MaxTime \in Nat /\ MaxFaults \in Nat

-----------------------------------------------------------------------------
(* A file is its lines; Broken is one that JSON.parse refuses.  In an open *)
(* file the last line has no end yet, and the next write continues it.     *)

Entry  == [kind : Kinds, status : Statuses, at : 0 .. MaxTime]
Broken == [kind |-> "broken", status |-> "unknown", at |-> 0]
File   == [exists : BOOLEAN, lines : Seq(Entry \cup {Broken}), open : BOOLEAN,
           mtime : 0 .. MaxTime]
Absent == [exists |-> FALSE, lines |-> <<>>, open |-> FALSE, mtime |-> 0]
Empty  == [exists |-> TRUE, lines |-> <<>>, open |-> FALSE, mtime |-> now]

\* Mutant: the line is written without its end.
WithLineUnended(f, line) ==
    [f EXCEPT !.lines = IF f.open THEN Append(Front(@), Broken) ELSE Append(@, line),
              !.open = TRUE, !.mtime = now]

WithLine(f, line) ==
    [f EXCEPT !.lines = IF f.open THEN Append(Front(@), Broken) ELSE Append(@, line),
              !.open = FALSE, !.mtime = now]
WithHalf(f) ==
    [f EXCEPT !.lines = Append(@, Broken), !.open = TRUE, !.mtime = now]
WithRest(f, line) ==
    [f EXCEPT !.lines = Append(Front(@), line), !.open = FALSE, !.mtime = now]

Corrupted(f) == Broken \in ToSet(f.lines)

\* What read() gives its caller, and the two ways it throws.
Lookup(f) == CASE ~f.exists -> "E_NOT_FOUND"
               [] f.exists /\ Corrupted(f) -> "E_HISTORY_CORRUPTED"
               [] f.exists /\ ~Corrupted(f) -> "read"

\* What browser_get_task_history answers.
Answer(f) == IF Lookup(f) = "read" /\ f.lines = <<>> THEN "E_NOT_FOUND" ELSE Lookup(f)

\* The status of a summary; safeReadHistory() makes no history of a failure.
Status(f) == IF Lookup(f) = "read" /\ f.lines # <<>> THEN Last(f.lines).status
             ELSE "unknown"
Listed(f) == IF Lookup(f) = "read" THEN Status(f) ELSE "corrupted"

-----------------------------------------------------------------------------
(* browser_run_task.                                                       *)

\* The status of a run that is recorded and returned.
Verdict(reply) ==
    LET how == reply[1]  what == reply[2] IN
    CASE how = "throws"  -> IF what = "E_ABORTED" THEN "cancelled" ELSE "error"
      [] how = "refused" -> IF what = "E_BUSY" THEN "rejected" ELSE "error"
      [] how = "answers" -> IF what \in Terminal THEN what
                            ELSE IF what = "flagged" THEN "stopped"
                            ELSE "error"

Unwritten == [k \in Kinds |-> [phase |-> "none", linked |-> FALSE, at |-> 0]]
Appending(t, k) ==
    writer' = [writer EXCEPT ![t][k] = [phase |-> "open", linked |-> FALSE, at |-> now]]
\* Mutant: append() is not awaited.
AppendedUnawaited(t, k) == writer[t][k].phase # "none"
Appended(t, k) == writer[t][k].phase = "done"

\* The bridge is there (ensureReady, probeConnectivity): the run is recorded.
RunTask(t, p) ==
    /\ call[t].pc = "unused"
    /\ call' = [call EXCEPT ![t].pc = "starting", ![t].proc = p]
    /\ Appending(t, "task_started")
    /\ UNCHANGED <<now, file, collector, lister, faultVars, collected>>

Request(t) ==
    /\ call[t].pc = "starting"
    /\ Appended(t, "task_started")
    /\ call' = [call EXCEPT ![t].pc = "requesting"]
    /\ UNCHANGED <<now, file, writer, collector, lister, faultVars, collected>>

\* request() settles; finishRecordedTask() appends the verdict ...
Settle(t, reply) ==
    /\ call[t].pc = "requesting"
    /\ call' = [call EXCEPT ![t].pc = "finishing", ![t].status = Verdict(reply)]
    /\ Appending(t, "task_finished")
    /\ UNCHANGED <<now, file, collector, lister, faultVars, collected>>

\* ... and reads the history back for the tool's answer.
Return(t) ==
    /\ call[t].pc = "finishing"
    /\ Appended(t, "task_finished")
    /\ call' = [call EXCEPT ![t].pc = "returned", ![t].summary = Status(file[t])]
    /\ UNCHANGED <<now, file, writer, collector, lister, faultVars, collected>>

-----------------------------------------------------------------------------
(* append(): open the file, which creates it, then write the line, in more *)
(* than one piece when it is long.  gc() may unlink the file in between:   *)
(* the line then goes to a file that has no name any more.                 *)

Line(t, k) == [kind |-> k, at |-> writer[t][k].at,
               status |-> IF k = "task_started" THEN "running" ELSE call[t].status]

To(t, k, f) == file' = IF writer[t][k].linked THEN [file EXCEPT ![t] = f] ELSE file

\* Mutant: the file is opened to be overwritten, not appended to.
OpenTruncating(t, k) ==
    /\ writer[t][k].phase = "open"
    /\ file' = [file EXCEPT ![t] = Empty]
    /\ writer' = [writer EXCEPT ![t][k].phase = "write", ![t][k].linked = TRUE]
    /\ UNCHANGED <<now, call, collector, lister, faultVars, collected>>

Open(t, k) ==
    /\ writer[t][k].phase = "open"
    /\ file' = IF file[t].exists THEN file ELSE [file EXCEPT ![t] = Empty]
    /\ writer' = [writer EXCEPT ![t][k].phase = "write", ![t][k].linked = TRUE]
    /\ UNCHANGED <<now, call, collector, lister, faultVars, collected>>

Write(t, k) ==
    /\ writer[t][k].phase = "write"
    /\ To(t, k, WithLine(file[t], Line(t, k)))
    /\ writer' = [writer EXCEPT ![t][k].phase = "done"]
    /\ UNCHANGED <<now, call, collector, lister, faultVars, collected>>

\* On a line that a failed write left open, a first piece changes nothing.
WritePart(t, k) ==
    /\ writer[t][k].phase = "write"
    /\ ~file[t].open
    /\ To(t, k, WithHalf(file[t]))
    /\ writer' = [writer EXCEPT ![t][k].phase = "rest"]
    /\ UNCHANGED <<now, call, collector, lister, faultVars, collected>>

WriteRest(t, k) ==
    /\ writer[t][k].phase = "rest"
    /\ To(t, k, WithRest(file[t], Line(t, k)))
    /\ writer' = [writer EXCEPT ![t][k].phase = "done"]
    /\ UNCHANGED <<now, call, collector, lister, faultVars, collected>>

\* The disk is full or the file cannot be opened: appendSafe() goes on.
WriteFails(t, k) ==
    /\ faults < MaxFaults
    /\ writer[t][k].phase \in {"open", "write", "rest"}
    /\ writer' = [writer EXCEPT ![t][k].phase = "done"]
    /\ faults' = faults + 1
    /\ faulted' = faulted \cup {t}
    /\ UNCHANGED <<now, file, call, collector, lister, collected>>

-----------------------------------------------------------------------------
(* gc(), which start() of a broker awaits.                                 *)

Idle(step) == \A t \in Tasks : step[t] = "none"
Names(phase) == [t \in Tasks |-> IF file[t].exists THEN phase ELSE "none"]

\* Mutant: the age of a history is that of its start.
MomentOfStart(f) == Head(f.lines).at

\* candidateTime of a file that could be read and has an entry.
Moment(f) == IF Last(f.lines).kind = "task_finished" THEN Last(f.lines).at
             ELSE Head(f.lines).at

Judge(p, t, moment) ==
    collector' = [collector EXCEPT ![p].step[t] =
                      IF moment >= collector[p].cutoff THEN "none" ELSE "remove"]

Collect(p) ==
    /\ Idle(collector[p].step)
    /\ collector' = [collector EXCEPT ![p] =
                        [cutoff |-> now - Ttl, step |-> Names("read"), failed |-> FALSE,
                         ended |-> {t \in Tasks : Appended(t, "task_finished")}]]
    /\ UNCHANGED <<now, file, callVars, lister, faultVars, collected>>

CollectRead(p, t) ==
    /\ collector[p].step[t] = "read"
    /\ IF Lookup(file[t]) = "read" /\ file[t].lines # <<>>
       THEN Judge(p, t, Moment(file[t]))
       ELSE collector' = [collector EXCEPT ![p].step[t] = "stat"]
    /\ UNCHANGED <<now, file, callVars, lister, faultVars, collected>>

\* A file that is gone rejects gc(), and with it start().
CollectStat(p, t) ==
    /\ collector[p].step[t] = "stat"
    /\ IF file[t].exists
       THEN Judge(p, t, file[t].mtime)
       ELSE collector' = [collector EXCEPT ![p].step[t] = "none", ![p].failed = TRUE]
    /\ UNCHANGED <<now, file, callVars, lister, faultVars, collected>>

Unlink(t) ==
    /\ file' = [file EXCEPT ![t] = Absent]
    /\ writer' = [writer EXCEPT ![t] = [k \in Kinds |-> [@[k] EXCEPT !.linked = FALSE]]]
    /\ collected' = IF file[t].exists THEN collected \cup {t} ELSE collected

CollectRemove(p, t) ==
    /\ collector[p].step[t] = "remove"
    /\ Unlink(t)
    /\ collector' = [collector EXCEPT ![p].step[t] = "none"]
    /\ UNCHANGED <<now, call, lister, faultVars>>

-----------------------------------------------------------------------------
(* list(), without its order, filter and limit.                            *)

List(p) ==
    /\ Idle(lister[p].step)
    /\ lister' = [lister EXCEPT ![p] =
                     [step |-> Names("stat"), seen |-> [t \in Tasks |-> "none"],
                      failed |-> FALSE]]
    /\ UNCHANGED <<now, file, callVars, collector, faultVars, collected>>

ListStat(p, t) ==
    /\ lister[p].step[t] = "stat"
    /\ lister' = IF file[t].exists
                 THEN [lister EXCEPT ![p].step[t] = "read"]
                 ELSE [lister EXCEPT ![p].step[t] = "none", ![p].failed = TRUE]
    /\ UNCHANGED <<now, file, callVars, collector, faultVars, collected>>

\* Mutant: the summary of a file is made outside the try.
ListReadUnguarded(p, t) ==
    /\ lister[p].step[t] = "read"
    /\ lister' = IF Lookup(file[t]) = "read"
                 THEN [lister EXCEPT ![p].step[t] = "none", ![p].seen[t] = Listed(file[t])]
                 ELSE [lister EXCEPT ![p].step[t] = "none", ![p].failed = TRUE]
    /\ UNCHANGED <<now, file, callVars, collector, faultVars, collected>>

ListRead(p, t) ==
    /\ lister[p].step[t] = "read"
    /\ lister' = [lister EXCEPT ![p].step[t] = "none", ![p].seen[t] = Listed(file[t])]
    /\ UNCHANGED <<now, file, callVars, collector, faultVars, collected>>

-----------------------------------------------------------------------------
Tick ==
    /\ now < MaxTime
    /\ now' = now + 1
    /\ UNCHANGED <<file, callVars, collector, lister, faultVars, collected>>

Resting == [cutoff |-> 0, step |-> [t \in Tasks |-> "none"], failed |-> FALSE, ended |-> {}]
Waiting == [step |-> [t \in Tasks |-> "none"], seen |-> [t \in Tasks |-> "none"],
            failed |-> FALSE]

\* A pi process dies; another one takes its place.
Crash(p) ==
    LET mine == {t \in Tasks : /\ call[t].proc = p
                               /\ call[t].pc \in {"starting", "requesting", "finishing"}} IN
    /\ faults < MaxFaults
    /\ faults' = faults + 1
    /\ faulted' = faulted \cup mine
    /\ call' = [t \in Tasks |-> IF t \in mine THEN [call[t] EXCEPT !.pc = "dead"] ELSE call[t]]
    /\ writer' = [t \in Tasks |-> IF t \in mine THEN Unwritten ELSE writer[t]]
    /\ collector' = [collector EXCEPT ![p] = Resting]
    /\ lister' = [q \in Listers |-> IF q = p THEN Waiting ELSE lister[q]]
    /\ UNCHANGED <<now, file, collected>>

Init ==
    /\ now = 0
    /\ file = [t \in Tasks |-> Absent]
    /\ call = [t \in Tasks |-> [pc |-> "unused", proc |-> CHOOSE p \in Procs : TRUE,
                               status |-> "unknown", summary |-> "unknown"]]
    /\ writer = [t \in Tasks |-> Unwritten]
    /\ collector = [p \in Procs |-> Resting]
    /\ lister = [p \in Listers |-> Waiting]
    /\ faults = 0 /\ faulted = {} /\ collected = {}

Next ==
    \/ Tick
    \/ \E t \in Tasks :
          \/ \E p \in Procs : RunTask(t, p)
          \/ Request(t)
          \/ \E reply \in Replies : Settle(t, reply)
          \/ Return(t)
          \/ \E k \in Kinds :
                Open(t, k) \/ Write(t, k) \/ WritePart(t, k) \/ WriteRest(t, k) \/ WriteFails(t, k)
    \/ \E p \in Procs :
          \/ Collect(p)
          \/ \E t \in Tasks : CollectRead(p, t) \/ CollectStat(p, t) \/ CollectRemove(p, t)
          \/ Crash(p)
    \/ \E p \in Listers :
          \/ List(p)
          \/ \E t \in Tasks : ListStat(p, t) \/ ListRead(p, t)

Spec == Init /\ [][Next]_vars

-----------------------------------------------------------------------------
(* Properties.                                                             *)

Phases == {"none", "open", "write", "rest", "done"}

TypeOK ==
    /\ now \in 0 .. MaxTime
    /\ file \in [Tasks -> File]
    /\ call \in [Tasks -> [pc : {"unused", "starting", "requesting", "finishing", "returned",
                                 "dead"},
                           proc : Procs, status : Verdicts \cup {"unknown"}, summary : Statuses]]
    /\ writer \in [Tasks -> [Kinds -> [phase : Phases, linked : BOOLEAN, at : 0 .. MaxTime]]]
    /\ collector \in [Procs -> [cutoff : Int, step : [Tasks -> {"none", "read", "stat", "remove"}],
                                failed : BOOLEAN, ended : SUBSET Tasks]]
    /\ lister \in [Listers -> [step : [Tasks -> {"none", "stat", "read"}],
                               seen : [Tasks -> Statuses \cup {"none", "corrupted"}],
                               failed : BOOLEAN]]
    /\ faults \in 0 .. MaxFaults
    /\ faulted \subseteq Tasks /\ collected \subseteq Tasks

(* When browser_run_task has returned and no write of it failed, its       *)
(* history is there with the verdict the tool gave, unless a gc() took it  *)
(* away; what is left or came back after a gc() says nothing else.  The    *)
(* tool's own summary agrees, and so does every verdict another process    *)
(* lists.                                                                  *)
VerdictRecorded ==
    \A t \in Tasks :
        /\ call[t].pc = "returned" /\ t \notin faulted =>
             /\ \/ Answer(file[t]) = "read" /\ Status(file[t]) = call[t].status
                \/ Answer(file[t]) = "E_NOT_FOUND" /\ t \in collected
             /\ call[t].summary = call[t].status \/ t \in collected
        /\ \A p \in Listers :
             lister[p].seen[t] \in Verdicts => lister[p].seen[t] = call[t].status

(* Without a fault of the disk or the process, a history cannot be parsed  *)
(* only while a long line of it is being written: nothing an append leaves *)
(* behind spoils the next one.                                             *)
HistoryIsWhole ==
    \A t \in Tasks :
        Corrupted(file[t]) =>
            \/ t \in faulted
            \/ \E k \in Kinds : writer[t][k].phase = "rest"

(* A gc() removes no history whose end was recorded before it began and    *)
(* lies within the retention time, and none of a run that began within it, *)
(* whatever the history looks like when it is read: empty, half written or *)
(* corrupted.                                                              *)
Fresh(p, t) ==
    LET cutoff == collector[p].cutoff IN
    \/ writer[t]["task_started"].at >= cutoff
    \/ /\ t \in collector[p].ended
       /\ \E line \in ToSet(file[t].lines) : line.kind = "task_finished" /\ line.at >= cutoff
GcKeepsFresh ==
    [][\A p \in Procs, t \in Tasks :
          CollectRemove(p, t) /\ file[t].exists => ~Fresh(p, t)]_vars

(* A history that cannot be parsed makes neither list() nor gc() fail, and  *)
(* so does one that is being written: "a single bad task file must not     *)
(* prevent the rest of the list from being returned" (task-store.ts:118).  *)
(* Only a file that a gc() removes between readdir and stat does.          *)
BadFileIsolated ==
    /\ \A p \in Listers : lister[p].failed => collected # {}
    /\ \A p \in Procs : collector[p].failed => collected # {}

(* What other processes can see of a run is what TaskLedger promises: only  *)
(* its verdict ever follows, and only a gc() takes it away.                *)
Shown(f) == IF f.exists THEN Listed(f) ELSE "unknown"
Ledger   == INSTANCE TaskLedger WITH shown <- [t \in Tasks |-> Shown(file[t])],
                                     verdict <- [t \in Tasks |-> call[t].status],
                                     taken <- collected
LedgerKept == Ledger!Spec
=============================================================================
