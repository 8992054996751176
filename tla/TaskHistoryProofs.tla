------------------------- MODULE TaskHistoryProofs --------------------------
(***************************************************************************)
(* Theorems about TaskHistory, for every value of its constants.           *)
(***************************************************************************)
EXTENDS TaskHistory, TLAPS

-----------------------------------------------------------------------------
(* The inductive invariant, of a task t and a process p.                   *)

Started(t)  == writer[t]["task_started"]
Finished(t) == writer[t]["task_finished"]
NoWrite     == [phase |-> "none", linked |-> FALSE, at |-> 0]
Underway    == {"write", "rest", "done"}

\* browser_run_task awaits one append() before the next: its stage says which
\* entries are begun, and which are over.
StageAt(t) ==
    /\ call[t].pc \in {"unused", "dead"} => Started(t) = NoWrite /\ Finished(t) = NoWrite
    /\ call[t].pc = "starting" => Started(t).phase # "none" /\ Finished(t) = NoWrite
    /\ call[t].pc = "requesting" => Started(t).phase = "done" /\ Finished(t) = NoWrite
    /\ call[t].pc = "finishing" => Started(t).phase = "done" /\ Finished(t).phase # "none"
    /\ call[t].pc = "returned" => Started(t).phase = "done" /\ Finished(t).phase = "done"
    /\ call[t].pc \in {"unused", "starting", "requesting"} => call[t].status = "unknown"
    /\ call[t].pc \in {"finishing", "returned"} => call[t].status \in Verdicts
    /\ \A k \in Kinds : writer[t][k].phase \notin Underway => ~writer[t][k].linked
    /\ \A k \in Kinds : writer[t][k].at <= now
    /\ Finished(t).phase # "none" => Started(t).at <= Finished(t).at

\* Every line that can be read is one this run wrote, the verdict last.
LinesAt(t) ==
    LET f == file[t] IN
    /\ ~f.exists => f = Absent
    /\ f.exists => call[t].pc # "unused" /\ Started(t).at <= f.mtime
    /\ f.mtime <= now
    /\ \A k \in Kinds : writer[t][k].linked => f.exists
    /\ \A i \in 1 .. Len(f.lines) : f.lines[i] # Broken =>
          /\ Started(t).at <= f.lines[i].at /\ f.lines[i].at <= f.mtime
          /\ f.lines[i].status \in Verdicts => f.lines[i].status = call[t].status
          /\ f.lines[i].kind = "task_finished" =>
                i = Len(f.lines) /\ (Finished(t).phase = "done" \/ call[t].pc = "dead")

\* The lines after an append() that has come as far as w says.
Extended(lines, w, line) ==
    IF ~w.linked \/ w.phase \notin {"rest", "done"} THEN lines
    ELSE Append(lines, IF w.phase = "rest" THEN Broken ELSE line)
Begun(t)   == Extended(<<>>, Started(t), Line(t, "task_started"))
Written(t) == Extended(Begun(t), Finished(t), Line(t, "task_finished"))

\* Without a fault, the file is what was written to it since a gc() last took it.
WholeAt(t) ==
    t \notin faulted =>
        /\ file[t].lines = Written(t)
        /\ file[t].open <=> \E k \in Kinds : writer[t][k].linked /\ writer[t][k].phase = "rest"
        /\ file[t].exists => \E k \in Kinds : writer[t][k].linked
        /\ \A k \in Kinds : writer[t][k].phase \in Underway /\ ~writer[t][k].linked
                               => t \in collected
        /\ Finished(t).phase \in Underway /\ Started(t).linked => Finished(t).linked
        /\ call[t].pc = "returned" => call[t].summary = call[t].status \/ t \in collected

\* A gc() has seen every file it has still to look at; one it is about to remove
\* was old when it was judged, and no entry it knew to be written is younger.
GcAt(g, t) ==
    /\ g.step[t] # "none" => call[t].pc # "unused" /\ (file[t].exists \/ t \in collected)
    /\ g.step[t] = "remove" =>
          /\ Started(t).at < g.cutoff
          /\ t \in g.ended => \A i \in 1 .. Len(file[t].lines) :
                file[t].lines[i].kind = "task_finished" => file[t].lines[i].at < g.cutoff
    /\ t \in g.ended => Finished(t).phase = "done" \/ call[t].pc = "dead"

\* So has a list(), and it shows no verdict but that of the run.
ListAt(l, t) ==
    /\ l.step[t] # "none" => file[t].exists \/ t \in collected
    /\ l.seen[t] \in Verdicts => l.seen[t] = call[t].status

\* Neither fails but for a file that was taken away.
FailInv ==
    /\ \A p \in Listers : lister[p].failed => collected # {}
    /\ \A p \in Procs : collector[p].failed => collected # {}

HInv ==
    /\ TypeOK
    /\ \A t \in Tasks :
          /\ StageAt(t) /\ LinesAt(t) /\ WholeAt(t)
          /\ \A p \in Procs : GcAt(collector[p], t)
          /\ \A p \in Listers : ListAt(lister[p], t)
    /\ FailInv

-----------------------------------------------------------------------------
(* Lines.                                                                  *)

LEMMA AppendFacts ==
    ASSUME NEW S, NEW s \in Seq(S), NEW x \in S
    PROVE  /\ Append(s, x) \in Seq(S) /\ Len(Append(s, x)) = Len(s) + 1
           /\ \A i \in 1 .. Len(s) : Append(s, x)[i] = s[i]
           /\ Append(s, x)[Len(s) + 1] = x
           /\ Len(s) \in Nat /\ Append(s, x) # <<>>
OBVIOUS

LEMMA FrontFacts ==
    ASSUME NEW S, NEW s \in Seq(S)
    PROVE  /\ Front(s) \in Seq(S) /\ Len(Front(s)) <= Len(s) /\ Len(Front(s)) \in Nat
           /\ \A i \in 1 .. Len(Front(s)) : i \in 1 .. Len(s) /\ Front(s)[i] = s[i]
<1>1. CASE s = <<>>
  BY <1>1 DEF Front
<1>2. CASE s # <<>>
  BY <1>2 DEF Front
<1> QED  BY <1>1, <1>2

LEMMA FrontAppended ==
    ASSUME NEW S, NEW s \in Seq(S), NEW x \in S
    PROVE  Front(Append(s, x)) = s
BY DEF Front

LEMMA LastFacts ==
    ASSUME NEW S, NEW s \in Seq(S), s # <<>>
    PROVE  /\ Last(s) = s[Len(s)] /\ Head(s) = s[1]
           /\ Len(s) \in 1 .. Len(s) /\ 1 \in 1 .. Len(s) /\ Last(s) \in S /\ Head(s) \in S
BY DEF Last

\* Every line but Broken is an entry.
LEMMA BrokenApart == Broken \notin Entry
BY DEF Broken, Entry, Kinds

LEMMA CorruptedFacts ==
    ASSUME NEW f \in File
    PROVE  Corrupted(f) <=> \E i \in 1 .. Len(f.lines) : f.lines[i] = Broken
BY DEF Corrupted, ToSet, File

-----------------------------------------------------------------------------
(* Types.                                                                  *)

Run  == [pc : {"unused", "starting", "requesting", "finishing", "returned", "dead"},
         proc : Procs, status : Verdicts \cup {"unknown"}, summary : Statuses]
Writer == [phase : Phases, linked : BOOLEAN, at : 0 .. MaxTime]
Gc   == [cutoff : Int, step : [Tasks -> {"none", "read", "stat", "remove"}],
         failed : BOOLEAN, ended : SUBSET Tasks]
Listing == [step : [Tasks -> {"none", "stat", "read"}],
            seen : [Tasks -> Statuses \cup {"none", "corrupted"}], failed : BOOLEAN]

LEMMA TypeFacts ==
    TypeOK <=>
        /\ now \in 0 .. MaxTime
        /\ file \in [Tasks -> File] /\ call \in [Tasks -> Run]
        /\ writer \in [Tasks -> [Kinds -> Writer]]
        /\ collector \in [Procs -> Gc] /\ lister \in [Listers -> Listing]
        /\ faults \in 0 .. MaxFaults /\ faulted \subseteq Tasks /\ collected \subseteq Tasks
BY DEF TypeOK, Run, Writer, Gc, Listing

\* What the types say of one task.
LEMMA TaskFacts ==
    ASSUME TypeOK, NEW t \in Tasks
    PROVE  /\ file[t] \in File /\ file[t].exists \in BOOLEAN /\ file[t].open \in BOOLEAN
           /\ file[t].lines \in Seq(Entry \cup {Broken}) /\ Len(file[t].lines) \in Nat
           /\ file[t].mtime \in 0 .. MaxTime /\ file[t].mtime \in Nat
           /\ call[t] \in Run
           /\ writer[t] \in [Kinds -> Writer]
           /\ Started(t) \in Writer /\ Started(t).at \in Nat /\ Started(t).linked \in BOOLEAN
           /\ Finished(t) \in Writer /\ Finished(t).at \in Nat /\ Finished(t).linked \in BOOLEAN
           /\ now \in 0 .. MaxTime /\ now \in Nat
           /\ MaxTime \in Nat /\ MaxFaults \in Nat /\ Ttl \in Nat
<1>1. file[t] \in File /\ call[t] \in Run /\ writer[t] \in [Kinds -> Writer]
      /\ now \in 0 .. MaxTime
  BY TypeFacts
<1>2. Started(t) \in Writer /\ Finished(t) \in Writer
  BY <1>1 DEF Started, Finished, Kinds
<1> QED  BY <1>1, <1>2, HistoryAssumption DEF File, Writer

LEMMA InvFacts ==
    ASSUME HInv, NEW t \in Tasks
    PROVE  /\ TypeOK /\ StageAt(t) /\ LinesAt(t) /\ WholeAt(t)
           /\ \A p \in Procs : GcAt(collector[p], t)
           /\ \A p \in Listers : ListAt(lister[p], t)
           /\ FailInv
BY DEF HInv

\* The stages of a run.
LEMMA RunFacts ==
    ASSUME TypeOK, NEW t \in Tasks
    PROVE  /\ call[t].pc \in {"unused", "starting", "requesting", "finishing", "returned", "dead"}
           /\ call[t].status \in Verdicts \cup {"unknown"} /\ call[t].summary \in Statuses
           /\ call[t].proc \in Procs
BY TaskFacts DEF Run

-----------------------------------------------------------------------------
(* A step of one task, or of its writers, leaves the others alone.         *)

\* A task that a step does not touch.
LEMMA Elsewhere ==
    ASSUME HInv, NEW u \in Tasks,
           call'[u] = call[u], writer'[u] = writer[u], file'[u] = file[u],
           now <= now', now' \in Nat, u \in faulted => u \in faulted',
           u \in collected => u \in collected'
    PROVE  StageAt(u)' /\ LinesAt(u)' /\ WholeAt(u)'
<1>1. /\ StageAt(u) /\ LinesAt(u) /\ WholeAt(u)
      /\ now \in Nat /\ Started(u).at \in Nat /\ Finished(u).at \in Nat /\ file[u].mtime \in Nat
      /\ \A k \in Kinds : writer[u][k].at \in Nat
  <2>1. TypeOK
    BY InvFacts
  <2>2. \A k \in Kinds : writer[u][k].at \in Nat
    BY <2>1, TaskFacts DEF Writer
  <2> QED  BY <2>1, <2>2, InvFacts, TaskFacts
<1>2. StageAt(u)'
  BY <1>1 DEF StageAt, Started, Finished
<1>3. LinesAt(u)'
  BY <1>1 DEF LinesAt, Started, Finished
<1>4. WholeAt(u)'
  BY <1>1 DEF WholeAt, Started, Finished, Written, Begun, Extended, Line
<1> QED  BY <1>2, <1>3, <1>4

\* What a gc() and a list() rely on of a task, in a step that takes no file away.
LEMMA GcKept ==
    ASSUME HInv, NEW p \in Procs, NEW t \in Tasks, collector'[p] = collector[p],
           call[t].pc # "unused" => call'[t].pc # "unused",
           call[t].pc = "dead" => call'[t].pc = "dead",
           file[t].exists => file'[t].exists, t \in collected => t \in collected',
           call[t].pc # "unused" =>
              /\ Started(t)'.at <= Started(t).at /\ Started(t)'.at \in Nat
              /\ Finished(t).phase = "done" => Finished(t)'.phase = "done" \/ call'[t].pc = "dead",
           \/ file'[t] = file[t]
           \/ file'[t].lines = file[t].lines /\ file'[t].exists = file[t].exists
           \/ Finished(t).phase # "done" /\ call[t].pc # "dead"
    PROVE  GcAt(collector[p], t)'
<1>1. /\ GcAt(collector[p], t) /\ LinesAt(t) /\ StageAt(t) /\ TypeOK
  BY InvFacts
<1>2. collector[p].cutoff \in Int /\ Started(t).at \in Nat
  BY <1>1, TypeFacts, TaskFacts DEF Gc
<1> DEFINE g == collector[p]
<1>3. g.step[t] # "none" => call'[t].pc # "unused" /\ (file'[t].exists \/ t \in collected')
  BY <1>1 DEF GcAt
<1>4. g.step[t] = "remove" => Started(t)'.at < g.cutoff
  BY <1>1, <1>2 DEF GcAt
<1>5. t \in g.ended => Finished(t)'.phase = "done" \/ call'[t].pc = "dead"
  <2>1. call[t].pc = "unused" => Finished(t).phase # "done"
    BY <1>1 DEF StageAt, NoWrite
  <2> QED  BY <1>1, <2>1 DEF GcAt
<1>6. g.step[t] = "remove" /\ t \in g.ended => \A i \in 1 .. Len(file'[t].lines) :
         file'[t].lines[i].kind = "task_finished" => file'[t].lines[i].at < g.cutoff
  <2>1. t \in g.ended => file'[t].lines = file[t].lines
    BY <1>1 DEF GcAt
  <2> QED  BY <1>1, <2>1 DEF GcAt
<1> QED  BY <1>3, <1>4, <1>5, <1>6 DEF GcAt

\* A step of one task that takes no file away.
LEMMA TaskStep ==
    ASSUME HInv, NEW t \in Tasks, TypeOK',
           now' = now, collector' = collector, lister' = lister, collected' = collected,
           faulted \subseteq faulted',
           \A u \in Tasks \ {t} : /\ call'[u] = call[u] /\ writer'[u] = writer[u]
                                  /\ file'[u] = file[u],
           StageAt(t)', LinesAt(t)', WholeAt(t)',
           call[t].pc # "unused" => call'[t].pc # "unused",
           call[t].pc = "dead" => call'[t].pc = "dead",
           file[t].exists => file'[t].exists,
           call[t].pc # "unused" =>
              /\ Started(t)'.at <= Started(t).at /\ Started(t)'.at \in Nat
              /\ Finished(t).phase = "done" => Finished(t)'.phase = "done" \/ call'[t].pc = "dead",
           \/ file'[t] = file[t]
           \/ file'[t].lines = file[t].lines /\ file'[t].exists = file[t].exists
           \/ Finished(t).phase # "done" /\ call[t].pc # "dead",
           call'[t].status = call[t].status \/ call[t].status = "unknown"
    PROVE  HInv'
<1>1. now \in Nat /\ TypeOK /\ FailInv
  BY InvFacts, TaskFacts
<1>2. ASSUME NEW u \in Tasks
      PROVE  StageAt(u)' /\ LinesAt(u)' /\ WholeAt(u)'
  <2>1. CASE u = t
    BY <2>1
  <2>2. CASE u # t
    BY <1>1, <2>2, Elsewhere
  <2> QED  BY <2>1, <2>2
<1>3. ASSUME NEW u \in Tasks, NEW p \in Procs
      PROVE  GcAt(collector[p], u)'
  <2>1. CASE u = t
    BY <2>1, GcKept
  <2>2. CASE u # t
    <3>1. GcAt(collector[p], u) /\ call'[u] = call[u] /\ writer'[u] = writer[u] /\ file'[u] = file[u]
      BY <2>2, InvFacts
    <3> QED  BY <3>1 DEF GcAt, Started, Finished
  <2> QED  BY <2>1, <2>2
<1>4. ASSUME NEW u \in Tasks, NEW p \in Listers
      PROVE  ListAt(lister[p], u)'
  <2>1. ListAt(lister[p], u)
    BY InvFacts
  <2>2. CASE u = t
    <3>1. "unknown" \notin Verdicts
      BY DEF Verdicts, Terminal
    <3> QED  BY <2>1, <2>2, <3>1 DEF ListAt
  <2>3. CASE u # t
    BY <2>1, <2>3 DEF ListAt
  <2> QED  BY <2>2, <2>3
<1>5. FailInv'
  BY <1>1 DEF FailInv
<1> QED  BY <1>2, <1>3, <1>4, <1>5 DEF HInv

\* One append() goes on.
LEMMA WriterFacts ==
    ASSUME TypeOK, NEW t \in Tasks, NEW k \in Kinds, NEW w \in Writer,
           writer' = [writer EXCEPT ![t][k] = w]
    PROVE  /\ writer' \in [Tasks -> [Kinds -> Writer]]
           /\ writer'[t][k] = w /\ \A j \in Kinds \ {k} : writer'[t][j] = writer[t][j]
           /\ \A u \in Tasks \ {t} : writer'[u] = writer[u]
           /\ k = "task_started" => Started(t)' = w /\ Finished(t)' = Finished(t)
           /\ k = "task_finished" => Finished(t)' = w /\ Started(t)' = Started(t)
           /\ Started(t)' \in Writer /\ Finished(t)' \in Writer
<1>1. writer \in [Tasks -> [Kinds -> Writer]]
  BY TypeFacts
<1>2. /\ writer' \in [Tasks -> [Kinds -> Writer]]
      /\ writer'[t][k] = w /\ \A j \in Kinds \ {k} : writer'[t][j] = writer[t][j]
      /\ \A u \in Tasks \ {t} : writer'[u] = writer[u]
  BY <1>1
<1> QED  BY <1>2 DEF Started, Finished, Kinds

\* The history of a task whose file is as it was, and whose appends are where they
\* were as far as the lines tell.
LEMMA WrittenSame ==
    ASSUME NEW t \in Tasks,
           \/ ~Started(t).linked /\ ~Started(t)'.linked
           \/ Started(t)' = Started(t),
           \/ ~Finished(t).linked /\ ~Finished(t)'.linked
           \/ Finished(t)' = Finished(t) /\ call'[t].status = call[t].status
    PROVE  Written(t)' = Written(t)
BY DEF Written, Begun, Extended, Line, Started, Finished

LEMMA TypeNext ==
    ASSUME now' \in 0 .. MaxTime, file' \in [Tasks -> File], call' \in [Tasks -> Run],
           writer' \in [Tasks -> [Kinds -> Writer]], collector' \in [Procs -> Gc],
           lister' \in [Listers -> Listing], faults' \in 0 .. MaxFaults,
           faulted' \subseteq Tasks, collected' \subseteq Tasks
    PROVE  TypeOK'
BY DEF TypeOK, Run, Writer, Gc, Listing

\* A step that changes only the call and the writers of one task.
LEMMA CallTypes ==
    ASSUME TypeOK, NEW t \in Tasks, NEW r \in Run, call' = [call EXCEPT ![t] = r],
           writer' \in [Tasks -> [Kinds -> Writer]],
           UNCHANGED <<now, file, collector, lister, faultVars, collected>>
    PROVE  /\ TypeOK'
           /\ call'[t] = r /\ \A u \in Tasks \ {t} : call'[u] = call[u]
           /\ now' = now /\ file' = file /\ collector' = collector /\ lister' = lister
           /\ faulted' = faulted /\ collected' = collected
<1>1. /\ call' \in [Tasks -> Run]
      /\ call'[t] = r /\ \A u \in Tasks \ {t} : call'[u] = call[u]
  BY TypeFacts
<1> QED  BY <1>1, TypeFacts, TypeNext DEF faultVars

-----------------------------------------------------------------------------
(* browser_run_task.                                                       *)

LEMMA OpenWriter ==
    ASSUME TypeOK
    PROVE  [phase |-> "open", linked |-> FALSE, at |-> now] \in Writer
BY TypeFacts DEF Writer, Phases

LEMMA RunTaskStep ==
    ASSUME HInv, NEW t \in Tasks, NEW p \in Procs, RunTask(t, p)
    PROVE  HInv'
<1> DEFINE r == [call[t] EXCEPT !.pc = "starting", !.proc = p]
           w == [phase |-> "open", linked |-> FALSE, at |-> now]
<1>1. /\ TypeOK /\ StageAt(t) /\ LinesAt(t) /\ WholeAt(t)
      /\ now \in Nat /\ file[t].mtime \in Nat /\ call[t] \in Run
  BY InvFacts, TaskFacts
<1>2. /\ call[t].pc = "unused" /\ Started(t) = NoWrite /\ Finished(t) = NoWrite
      /\ call[t].status = "unknown" /\ ~file[t].exists
  BY <1>1 DEF RunTask, StageAt, LinesAt
<1>3. r \in Run /\ r.pc = "starting" /\ r.status = "unknown"
  BY <1>1, <1>2 DEF Run
<1>4. /\ call' = [call EXCEPT ![t] = r] /\ writer' = [writer EXCEPT ![t]["task_started"] = w]
      /\ UNCHANGED <<now, file, collector, lister, faultVars, collected>>
  BY <1>1, TypeFacts DEF RunTask, Appending
<1>5. /\ "task_started" \in Kinds /\ w \in Writer
      /\ w.phase = "open" /\ ~w.linked /\ w.at = now
  BY <1>1, OpenWriter DEF Kinds
<1> HIDE DEF w
<1>6. /\ writer' \in [Tasks -> [Kinds -> Writer]]
      /\ \A u \in Tasks \ {t} : writer'[u] = writer[u]
      /\ Started(t)' = w /\ Finished(t)' = Finished(t)
  BY <1>1, <1>4, <1>5, WriterFacts
<1>7. /\ TypeOK' /\ call'[t] = r /\ \A u \in Tasks \ {t} : call'[u] = call[u]
      /\ now' = now /\ file' = file /\ collector' = collector /\ lister' = lister
      /\ faulted' = faulted /\ collected' = collected
  BY <1>1, <1>3, <1>4, <1>6, CallTypes
<1> HIDE DEF r
<1>8. \A k \in Kinds : writer'[t][k] = Started(t)' \/ writer'[t][k] = Finished(t)'
  BY DEF Started, Finished, Kinds
<1>9. StageAt(t)'
  BY <1>1, <1>2, <1>3, <1>5, <1>6, <1>7, <1>8 DEF StageAt, NoWrite, Underway
<1>10. LinesAt(t)'
  <2>1. file'[t].lines = <<>> /\ Len(file'[t].lines) = 0 /\ file'[t].mtime = 0
        /\ ~file'[t].exists /\ file'[t] = Absent
    BY <1>1, <1>2, <1>7 DEF LinesAt, Absent
  <2>2. \A k \in Kinds : ~writer'[t][k].linked
    BY <1>2, <1>5, <1>6, <1>8 DEF NoWrite
  <2> QED  BY <1>1, <1>7, <2>1, <2>2 DEF LinesAt
<1>11. WholeAt(t)'
  <2>1. Written(t)' = Written(t)
    BY <1>2, <1>5, <1>6, WrittenSame DEF NoWrite
  <2>2. ~file[t].open
    BY <1>1, <1>2 DEF LinesAt, Absent
  <2> QED  BY <1>1, <1>2, <1>3, <1>5, <1>6, <1>7, <1>8, <2>1, <2>2 DEF WholeAt, NoWrite, Underway
<1> QED  BY <1>2, <1>3, <1>5, <1>6, <1>7, <1>9, <1>10, <1>11, TaskStep DEF NoWrite

LEMMA RequestStep ==
    ASSUME HInv, NEW t \in Tasks, Request(t)
    PROVE  HInv'
<1> DEFINE r == [call[t] EXCEPT !.pc = "requesting"]
<1>1. /\ TypeOK /\ StageAt(t) /\ LinesAt(t) /\ WholeAt(t)
      /\ Started(t).at \in Nat /\ call[t] \in Run
  BY InvFacts, TaskFacts
<1>2. /\ call[t].pc = "starting" /\ Started(t).phase = "done" /\ Finished(t) = NoWrite
      /\ call[t].status = "unknown"
  BY <1>1 DEF Request, StageAt, Appended, Started
<1>3. r \in Run /\ r.pc = "requesting" /\ r.status = "unknown"
  BY <1>1, <1>2 DEF Run
<1>4. /\ call' = [call EXCEPT ![t] = r] /\ writer' = writer
      /\ UNCHANGED <<now, file, collector, lister, faultVars, collected>>
  BY <1>1, TypeFacts DEF Request
<1>5. writer' \in [Tasks -> [Kinds -> Writer]]
  BY <1>1, <1>4, TypeFacts
<1>6. /\ TypeOK' /\ call'[t] = r /\ \A u \in Tasks \ {t} : call'[u] = call[u]
      /\ now' = now /\ file' = file /\ collector' = collector /\ lister' = lister
      /\ faulted' = faulted /\ collected' = collected
  BY <1>1, <1>3, <1>4, <1>5, CallTypes
<1> HIDE DEF r
<1>7. Started(t)' = Started(t) /\ Finished(t)' = Finished(t)
  BY <1>4 DEF Started, Finished
<1>8. StageAt(t)'
  BY <1>1, <1>2, <1>3, <1>4, <1>6, <1>7 DEF StageAt
<1>9. LinesAt(t)'
  BY <1>1, <1>2, <1>3, <1>4, <1>6, <1>7 DEF LinesAt
<1>10. WholeAt(t)'
  <2>1. Written(t)' = Written(t)
    BY <1>2, <1>3, <1>6, <1>7, WrittenSame
  <2> QED  BY <1>1, <1>2, <1>3, <1>4, <1>6, <1>7, <2>1 DEF WholeAt
<1> QED  BY <1>1, <1>2, <1>3, <1>4, <1>6, <1>7, <1>8, <1>9, <1>10, TaskStep

LEMMA VerdictType ==
    ASSUME NEW reply \in AllReplies
    PROVE  Verdict(reply) \in Verdicts
BY DEF AllReplies, Verdict, Verdicts, Terminal

LEMMA SettleStep ==
    ASSUME HInv, NEW t \in Tasks, NEW reply \in Replies, Settle(t, reply)
    PROVE  HInv'
<1> DEFINE r == [call[t] EXCEPT !.pc = "finishing", !.status = Verdict(reply)]
           w == [phase |-> "open", linked |-> FALSE, at |-> now]
<1>1. /\ TypeOK /\ StageAt(t) /\ LinesAt(t) /\ WholeAt(t)
      /\ now \in Nat /\ Started(t).at \in Nat /\ call[t] \in Run
  BY InvFacts, TaskFacts
<1>2. /\ call[t].pc = "requesting" /\ Started(t).phase = "done" /\ Finished(t) = NoWrite
      /\ call[t].status = "unknown" /\ Started(t).at <= now
  BY <1>1 DEF Settle, StageAt, Started, Kinds
<1>3. Verdict(reply) \in Verdicts /\ "unknown" \notin Verdicts
  BY HistoryAssumption, VerdictType DEF Verdicts, Terminal
<1>4. r \in Run /\ r.pc = "finishing" /\ r.status \in Verdicts
  BY <1>1, <1>2, <1>3 DEF Run
<1>5. /\ call' = [call EXCEPT ![t] = r] /\ writer' = [writer EXCEPT ![t]["task_finished"] = w]
      /\ UNCHANGED <<now, file, collector, lister, faultVars, collected>>
  BY <1>1, TypeFacts DEF Settle, Appending
<1>6. /\ "task_finished" \in Kinds /\ w \in Writer
      /\ w.phase = "open" /\ ~w.linked /\ w.at = now
  BY <1>1, OpenWriter DEF Kinds
<1> HIDE DEF w
<1>7. /\ writer' \in [Tasks -> [Kinds -> Writer]]
      /\ \A u \in Tasks \ {t} : writer'[u] = writer[u]
      /\ Finished(t)' = w /\ Started(t)' = Started(t)
  BY <1>1, <1>5, <1>6, WriterFacts
<1>8. /\ TypeOK' /\ call'[t] = r /\ \A u \in Tasks \ {t} : call'[u] = call[u]
      /\ now' = now /\ file' = file /\ collector' = collector /\ lister' = lister
      /\ faulted' = faulted /\ collected' = collected
  BY <1>1, <1>4, <1>5, <1>7, CallTypes
<1> HIDE DEF r
<1>9. \A k \in Kinds : writer'[t][k] = Started(t)' \/ writer'[t][k] = Finished(t)'
  BY DEF Started, Finished, Kinds
<1>10. \A k \in Kinds : writer[t][k] = Started(t) \/ writer[t][k] = Finished(t)
  BY DEF Started, Finished, Kinds
<1>11. Started(t).linked => file[t].exists
  BY <1>1 DEF LinesAt, Started, Kinds
<1>12. StageAt(t)'
  <2>1. Started(t).phase \notin Underway => ~Started(t).linked
    BY <1>2 DEF Underway
  <2> QED  BY <1>1, <1>2, <1>4, <1>6, <1>7, <1>8, <1>9, <2>1 DEF StageAt, NoWrite, Underway
<1>13. LinesAt(t)'
  BY <1>1, <1>2, <1>3, <1>4, <1>6, <1>7, <1>8, <1>9, <1>11 DEF LinesAt, NoWrite
<1>14. WholeAt(t)'
  <2>1. Written(t)' = Written(t)
    BY <1>2, <1>6, <1>7, WrittenSame DEF NoWrite
  <2>2. ASSUME t \notin faulted
        PROVE  /\ ~file[t].open
               /\ file[t].exists => Started(t).linked
               /\ ~Started(t).linked => t \in collected
    BY <1>1, <1>2, <1>10, <2>2 DEF WholeAt, NoWrite, Underway, Kinds, Started
  <2>3. "task_started" \in Kinds /\ Started(t)' = writer'[t]["task_started"]
    BY DEF Started, Kinds
  <2> QED  BY <1>1, <1>2, <1>4, <1>6, <1>7, <1>8, <1>9, <2>1, <2>2, <2>3 DEF WholeAt, NoWrite, Underway
<1> QED  BY <1>1, <1>2, <1>4, <1>6, <1>7, <1>8, <1>12, <1>13, <1>14, TaskStep DEF NoWrite

\* The status of a history is one of the known ones.
LEMMA StatusFacts ==
    ASSUME NEW f \in File
    PROVE  /\ Status(f) \in Statuses
           /\ Lookup(f) = "read" <=> f.exists /\ ~Corrupted(f)
           /\ Lookup(f) = "read" /\ f.lines # <<>> => Status(f) = Last(f.lines).status
           /\ ~f.exists => Lookup(f) = "E_NOT_FOUND"
<1>1. f.exists \in BOOLEAN /\ f.lines \in Seq(Entry \cup {Broken})
  BY DEF File
<1>2. CASE ~f.exists
  BY <1>2 DEF Status, Lookup, Statuses
<1>3. CASE f.exists /\ Corrupted(f)
  BY <1>3 DEF Status, Lookup, Statuses
<1>4. CASE f.exists /\ ~Corrupted(f)
  <2>1. Lookup(f) = "read"
    BY <1>4 DEF Lookup
  <2>2. f.lines # <<>> => Last(f.lines) \in Entry \cup {Broken}
    BY <1>1, LastFacts
  <2>3. \A line \in Entry \cup {Broken} : line.status \in Statuses
    BY DEF Entry, Broken, Statuses
  <2> QED  BY <1>4, <2>1, <2>2, <2>3 DEF Status, Statuses
<1> QED  BY <1>2, <1>3, <1>4

LEMMA LineFacts ==
    ASSUME TypeOK, NEW t \in Tasks, NEW k \in Kinds
    PROVE  /\ Line(t, k) \in Entry /\ Line(t, k) # Broken
           /\ Line(t, k).kind = k /\ Line(t, k).at = writer[t][k].at
           /\ k = "task_started" => Line(t, k).status = "running"
           /\ k = "task_finished" => Line(t, k).status = call[t].status
<1>1. writer[t][k].at \in 0 .. MaxTime
  BY TaskFacts DEF Writer
<1>2. call[t].status \in Statuses /\ "running" \in Statuses
  BY RunFacts DEF Statuses
<1>3. Line(t, k) \in Entry
  BY <1>1, <1>2 DEF Line, Entry
<1> QED  BY <1>3, BrokenApart DEF Line, Kinds

\* Without a fault a run whose last append() is over has its verdict on disk,
\* unless a gc() came in between.
LEMMA Recorded ==
    ASSUME HInv, NEW t \in Tasks, t \notin faulted,
           Started(t).phase = "done", Finished(t).phase = "done"
    PROVE  \/ /\ Lookup(file[t]) = "read" /\ file[t].lines # <<>>
              /\ Status(file[t]) = call[t].status
           \/ ~file[t].exists /\ t \in collected
<1>1. /\ TypeOK /\ LinesAt(t) /\ WholeAt(t) /\ file[t] \in File
      /\ Started(t).linked \in BOOLEAN /\ Finished(t).linked \in BOOLEAN
  BY InvFacts, TaskFacts
<1>2. /\ writer[t]["task_finished"] = Finished(t) /\ writer[t]["task_started"] = Started(t)
      /\ Kinds = {"task_started", "task_finished"}
  BY DEF Finished, Started, Kinds
<1>3. CASE Finished(t).linked
  <2> DEFINE s == Line(t, "task_started")
             e == Line(t, "task_finished")
             b == IF Started(t).linked THEN <<s>> ELSE <<>>
  <2>1. s \in Entry /\ s # Broken /\ e \in Entry /\ e # Broken /\ e.status = call[t].status
    BY <1>1, <1>2, LineFacts
  <2>2. Begun(t) = b
    BY DEF Begun, Extended
  <2>3. file[t].lines = Append(b, e)
    BY <1>1, <1>3, <2>2 DEF WholeAt, Written, Extended
  <2>4. file[t].exists
    BY <1>1, <1>2, <1>3 DEF LinesAt
  <2> HIDE DEF s, e
  <2>5. /\ file[t].lines # <<>> /\ Len(file[t].lines) \in 1 .. Len(file[t].lines)
        /\ file[t].lines[Len(file[t].lines)] = e
        /\ \A i \in 1 .. Len(file[t].lines) : file[t].lines[i] \in {s, e}
    BY <2>1, <2>3
  <2>6. ~Corrupted(file[t])
    BY <1>1, <2>1, <2>5, CorruptedFacts
  <2>7. Last(file[t].lines) = e
    BY <2>5 DEF Last
  <2> QED  BY <1>1, <2>1, <2>4, <2>5, <2>6, <2>7, StatusFacts
<1>4. CASE ~Finished(t).linked
  <2>1. ~Started(t).linked /\ t \in collected
    BY <1>1, <1>2, <1>4 DEF WholeAt, Underway
  <2>2. ~file[t].exists
    BY <1>1, <1>2, <1>4, <2>1 DEF WholeAt
  <2> QED  BY <2>1, <2>2
<1> QED  BY <1>1, <1>3, <1>4

LEMMA ReturnStep ==
    ASSUME HInv, NEW t \in Tasks, Return(t)
    PROVE  HInv'
<1> DEFINE r == [call[t] EXCEPT !.pc = "returned", !.summary = Status(file[t])]
<1>1. /\ TypeOK /\ StageAt(t) /\ LinesAt(t) /\ WholeAt(t)
      /\ Started(t).at \in Nat /\ call[t] \in Run /\ file[t] \in File
  BY InvFacts, TaskFacts
<1>2. /\ call[t].pc = "finishing" /\ Started(t).phase = "done" /\ Finished(t).phase = "done"
      /\ call[t].status \in Verdicts
  BY <1>1 DEF Return, StageAt, Appended, Finished
<1>3. Status(file[t]) \in Statuses
  BY <1>1, StatusFacts
<1>4. r \in Run /\ r.pc = "returned" /\ r.status = call[t].status /\ r.summary = Status(file[t])
  BY <1>1, <1>2, <1>3 DEF Run
<1>5. /\ call' = [call EXCEPT ![t] = r] /\ writer' = writer
      /\ UNCHANGED <<now, file, collector, lister, faultVars, collected>>
  BY <1>1, TypeFacts DEF Return
<1>6. writer' \in [Tasks -> [Kinds -> Writer]]
  BY <1>1, <1>5, TypeFacts
<1>7. /\ TypeOK' /\ call'[t] = r /\ \A u \in Tasks \ {t} : call'[u] = call[u]
      /\ now' = now /\ file' = file /\ collector' = collector /\ lister' = lister
      /\ faulted' = faulted /\ collected' = collected
  BY <1>1, <1>4, <1>5, <1>6, CallTypes
<1> HIDE DEF r
<1>8. Started(t)' = Started(t) /\ Finished(t)' = Finished(t)
  BY <1>5 DEF Started, Finished
<1>9. StageAt(t)'
  BY <1>1, <1>2, <1>4, <1>5, <1>7, <1>8 DEF StageAt
<1>10. LinesAt(t)'
  BY <1>1, <1>2, <1>4, <1>5, <1>7, <1>8 DEF LinesAt
<1>11. WholeAt(t)'
  <2>1. Written(t)' = Written(t)
    BY <1>4, <1>7, <1>8, WrittenSame
  <2>2. t \notin faulted => r.summary = r.status \/ t \in collected
    BY <1>2, <1>4, Recorded
  <2> QED  BY <1>1, <1>2, <1>4, <1>5, <1>7, <1>8, <2>1, <2>2 DEF WholeAt
<1> QED  BY <1>1, <1>2, <1>4, <1>5, <1>7, <1>8, <1>9, <1>10, <1>11, TaskStep

-----------------------------------------------------------------------------
(* append().                                                               *)

\* What is on disk before the append() of k.
Base(t, k) == IF k = "task_started" THEN <<>> ELSE Begun(t)

\* While the append() of k is under way, the run awaits it.
LEMMA AppendingFacts ==
    ASSUME HInv, NEW t \in Tasks, NEW k \in Kinds,
           writer[t][k].phase \in {"open", "write", "rest"}
    PROVE  /\ Finished(t).phase # "done" /\ call[t].pc \in {"starting", "finishing"}
           /\ k = "task_started" =>
                 /\ call[t].pc = "starting" /\ Finished(t) = NoWrite /\ Started(t) = writer[t][k]
           /\ k = "task_finished" =>
                 /\ call[t].pc = "finishing" /\ Started(t).phase = "done"
                 /\ Finished(t) = writer[t][k]
           /\ k = "task_started" \/ k = "task_finished"
           /\ Started(t).at <= writer[t][k].at /\ writer[t][k].at <= now
           /\ Base(t, k) \in Seq(Entry \cup {Broken})
           /\ Written(t) = Extended(Base(t, k), writer[t][k], Line(t, k))
<1>1. /\ TypeOK /\ StageAt(t) /\ Started(t).at \in Nat /\ Finished(t).at \in Nat
      /\ call[t].pc \in {"unused", "starting", "requesting", "finishing", "returned", "dead"}
  BY InvFacts, TaskFacts, RunFacts
<1>2. Begun(t) \in Seq(Entry \cup {Broken})
  <2>1. Line(t, "task_started") \in Entry
    BY <1>1, LineFacts DEF Kinds
  <2>2. Begun(t) \in {<<>>, Append(<<>>, Broken), Append(<<>>, Line(t, "task_started"))}
    BY DEF Begun, Extended
  <2>3. <<>> \in Seq(Entry \cup {Broken})
    OBVIOUS
  <2>4. /\ Append(<<>>, Broken) \in Seq(Entry \cup {Broken})
        /\ Append(<<>>, Line(t, "task_started")) \in Seq(Entry \cup {Broken})
    BY <2>1, <2>3, AppendFacts
  <2> QED  BY <2>2, <2>3, <2>4
<1>3. CASE k = "task_started"
  <2>1. Started(t) = writer[t][k]
    BY <1>3 DEF Started
  <2>2. call[t].pc = "starting" /\ Finished(t) = NoWrite
    BY <1>1, <2>1 DEF StageAt, NoWrite
  <2>3. Written(t) = Begun(t)
    BY <2>2 DEF Written, Extended, NoWrite
  <2> QED  BY <1>1, <1>3, <2>1, <2>2, <2>3 DEF Base, Begun, NoWrite, StageAt
<1>4. CASE k = "task_finished"
  <2>1. Finished(t) = writer[t][k]
    BY <1>4 DEF Finished
  <2>2. call[t].pc = "finishing" /\ Started(t).phase = "done"
    BY <1>1, <2>1 DEF StageAt, NoWrite
  <2>3. Written(t) = Extended(Base(t, k), writer[t][k], Line(t, k))
    BY <1>4, <2>1 DEF Written, Base
  <2> QED  BY <1>1, <1>2, <1>4, <2>1, <2>2, <2>3 DEF StageAt, Base
<1> QED  BY <1>3, <1>4 DEF Kinds

\* The append() of k goes on, from writer[t][k] to w, and makes f of the file.
LEMMA AppendStep ==
    ASSUME HInv, NEW t \in Tasks, NEW k \in Kinds, NEW w \in Writer, NEW f \in File,
           writer[t][k].phase \in {"open", "write", "rest"},
           writer' = [writer EXCEPT ![t][k] = w], file' = [file EXCEPT ![t] = f],
           UNCHANGED <<now, call, collector, lister, collected>>,
           faults' \in 0 .. MaxFaults,
           faulted' = faulted \/ faulted' = faulted \cup {t},
           w.at = writer[t][k].at, w.phase \in Underway \/ (w.phase # "none" /\ ~w.linked),
           w.linked => f.exists, file[t].exists => f.exists,
           \/ f = file[t]
           \/ /\ f.exists /\ f.mtime = now
              /\ \A i \in 1 .. Len(f.lines) :
                    \/ f.lines[i] = Broken
                    \/ i \in 1 .. Len(file[t].lines) /\ f.lines[i] = file[t].lines[i]
                    \/ i = Len(f.lines) /\ f.lines[i] = Line(t, k) /\ w.phase = "done",
           t \notin faulted' =>
              /\ f.lines = Extended(Base(t, k), w, Line(t, k))
              /\ f.open <=> w.linked /\ w.phase = "rest"
              /\ w.phase \in Underway
              /\ IF w.linked THEN writer[t][k].linked \/ writer[t][k].phase = "open"
                 ELSE f.exists = file[t].exists /\ ~writer[t][k].linked
                      /\ writer[t][k].phase \in Underway
    PROVE  HInv'
<1>1. /\ TypeOK /\ StageAt(t) /\ LinesAt(t) /\ WholeAt(t)
      /\ Started(t).at \in Nat /\ Finished(t).at \in Nat /\ now \in Nat /\ now \in 0 .. MaxTime
      /\ file[t] \in File /\ file[t].mtime \in Nat
  BY InvFacts, TaskFacts
<1>2. /\ Finished(t).phase # "done" /\ call[t].pc \in {"starting", "finishing"}
      /\ k = "task_started" =>
            /\ call[t].pc = "starting" /\ Finished(t) = NoWrite /\ Started(t) = writer[t][k]
      /\ k = "task_finished" =>
            /\ call[t].pc = "finishing" /\ Started(t).phase = "done"
            /\ Finished(t) = writer[t][k]
      /\ k = "task_started" \/ k = "task_finished"
      /\ Started(t).at <= writer[t][k].at /\ writer[t][k].at <= now
      /\ Base(t, k) \in Seq(Entry \cup {Broken})
  BY AppendingFacts
<1>3. /\ writer' \in [Tasks -> [Kinds -> Writer]]
      /\ writer'[t][k] = w /\ \A j \in Kinds \ {k} : writer'[t][j] = writer[t][j]
      /\ \A u \in Tasks \ {t} : writer'[u] = writer[u]
      /\ k = "task_started" => Started(t)' = w /\ Finished(t)' = Finished(t)
      /\ k = "task_finished" => Finished(t)' = w /\ Started(t)' = Started(t)
  <2>1. writer \in [Tasks -> [Kinds -> Writer]]
    BY <1>1, TypeFacts
  <2>2. /\ writer' \in [Tasks -> [Kinds -> Writer]]
        /\ writer'[t][k] = w /\ \A j \in Kinds \ {k} : writer'[t][j] = writer[t][j]
        /\ \A u \in Tasks \ {t} : writer'[u] = writer[u]
    BY <2>1
  <2> QED  BY <2>2 DEF Started, Finished, Kinds
<1>4. /\ file' \in [Tasks -> File] /\ file'[t] = f /\ \A u \in Tasks \ {t} : file'[u] = file[u]
  BY <1>1, TypeFacts
<1>5. /\ now' = now /\ call' = call /\ collector' = collector /\ lister' = lister
      /\ collected' = collected
  OBVIOUS
<1>6. TypeOK'
  <2>1. faulted' \subseteq Tasks
    BY <1>1, TypeFacts
  <2> QED  BY <1>1, <1>3, <1>4, <1>5, <2>1, TypeFacts, TypeNext
<1>7. StageAt(t)'
  <2>1. \A j \in Kinds : writer'[t][j].phase \notin Underway => ~writer'[t][j].linked
    BY <1>1, <1>3 DEF StageAt
  <2>2. \A j \in Kinds : writer'[t][j].at <= now
    BY <1>1, <1>2, <1>3 DEF StageAt
  <2>3. w.phase # "none"
    BY DEF Underway
  <2>4. Finished(t)'.phase # "none" => Started(t)'.at <= Finished(t)'.at
    BY <1>1, <1>2, <1>3 DEF StageAt, NoWrite
  <2> QED  BY <1>1, <1>2, <1>3, <1>5, <2>1, <2>2, <2>3, <2>4 DEF StageAt
<1>8. Started(t)'.at = Started(t).at
  BY <1>2, <1>3
<1>9. LinesAt(t)'
  <2>1. /\ ~f.exists => f = Absent
        /\ f.exists => Started(t).at <= f.mtime
        /\ f.mtime <= now
        /\ f = file[t] \/ f.mtime = now
    BY <1>1, <1>2 DEF LinesAt
  <2>2. \A j \in Kinds : writer'[t][j].linked => f.exists
    BY <1>1, <1>3 DEF LinesAt
  <2>3. ASSUME NEW i \in 1 .. Len(f.lines), f.lines[i] # Broken
        PROVE  /\ Started(t).at <= f.lines[i].at /\ f.lines[i].at <= f.mtime
               /\ f.lines[i].status \in Verdicts => f.lines[i].status = call[t].status
               /\ f.lines[i].kind = "task_finished" =>
                     i = Len(f.lines) /\ (Finished(t)'.phase = "done" \/ call[t].pc = "dead")
    <3>1. CASE i \in 1 .. Len(file[t].lines) /\ f.lines[i] = file[t].lines[i]
      <4>1. /\ Started(t).at <= f.lines[i].at /\ f.lines[i].at <= file[t].mtime
            /\ f.lines[i].status \in Verdicts => f.lines[i].status = call[t].status
            /\ f.lines[i].kind # "task_finished"
        BY <1>1, <1>2, <2>3, <3>1 DEF LinesAt
      <4>2. f.lines[i] \in Entry /\ f.lines[i].at \in Nat
        BY <1>1, <2>3, <3>1 DEF File, Entry
      <4> QED  BY <1>1, <2>1, <4>1, <4>2 DEF LinesAt
    <3>2. CASE i = Len(f.lines) /\ f.lines[i] = Line(t, k) /\ w.phase = "done" /\ f.mtime = now
      <4>1. /\ f.lines[i].kind = k /\ f.lines[i].at = writer[t][k].at
            /\ k = "task_started" => f.lines[i].status = "running"
            /\ k = "task_finished" => f.lines[i].status = call[t].status
        BY <1>1, <3>2, LineFacts
      <4>2. "running" \notin Verdicts
        BY DEF Verdicts, Terminal
      <4> QED  BY <1>2, <1>3, <3>2, <4>1, <4>2
    <3> QED  BY <2>3, <3>1, <3>2
  <2> QED  BY <1>2, <1>4, <1>5, <1>8, <2>1, <2>2, <2>3 DEF LinesAt
<1>10. WholeAt(t)'
  <2> SUFFICES ASSUME t \notin faulted'
               PROVE  /\ f.lines = Written(t)'
                      /\ f.open <=> \E j \in Kinds : writer'[t][j].linked
                                                    /\ writer'[t][j].phase = "rest"
                      /\ f.exists => \E j \in Kinds : writer'[t][j].linked
                      /\ \A j \in Kinds : writer'[t][j].phase \in Underway /\ ~writer'[t][j].linked
                                             => t \in collected
                      /\ Finished(t)'.phase \in Underway /\ Started(t)'.linked
                            => Finished(t)'.linked
                      /\ call[t].pc # "returned"
    BY <1>4, <1>5 DEF WholeAt
  <2>1. /\ t \notin faulted
        /\ f.lines = Extended(Base(t, k), w, Line(t, k))
        /\ f.open <=> w.linked /\ w.phase = "rest"
        /\ w.phase \in Underway
        /\ IF w.linked THEN writer[t][k].linked \/ writer[t][k].phase = "open"
           ELSE f.exists = file[t].exists /\ ~writer[t][k].linked
                /\ writer[t][k].phase \in Underway
    OBVIOUS
  <2>2. Line(t, k)' = Line(t, k)
    BY <1>3, <1>5 DEF Line
  <2>3. f.lines = Written(t)'
    <3>1. CASE k = "task_started"
      <4>1. Written(t)' = Begun(t)'
        BY <1>2, <1>3, <3>1 DEF Written, Extended, NoWrite
      <4>2. Begun(t)' = Extended(<<>>, w, Line(t, k))
        BY <1>3, <2>2, <3>1 DEF Begun
      <4> QED  BY <2>1, <3>1, <4>1, <4>2 DEF Base
    <3>2. CASE k = "task_finished"
      <4>1. Begun(t)' = Begun(t)
        BY <1>2, <1>3, <1>5, <3>2 DEF Begun, Line, Started
      <4> QED  BY <1>3, <2>1, <2>2, <3>2, <4>1 DEF Base, Written
    <3> QED  BY <1>2, <3>1, <3>2
  <2>4. \A j \in Kinds \ {k} : writer'[t][j].phase # "rest"
    <3>1. k = "task_started" => \A j \in Kinds \ {k} : writer[t][j] = Finished(t)
      BY DEF Kinds, Finished
    <3>2. k = "task_finished" => \A j \in Kinds \ {k} : writer[t][j] = Started(t)
      BY DEF Kinds, Started
    <3> QED  BY <1>2, <1>3, <3>1, <3>2 DEF NoWrite
  <2>5. f.open <=> \E j \in Kinds : writer'[t][j].linked /\ writer'[t][j].phase = "rest"
    BY <1>3, <2>1, <2>4
  <2>6. f.exists => \E j \in Kinds : writer'[t][j].linked
    <3>1. CASE w.linked
      BY <1>3, <3>1
    <3>2. CASE ~w.linked
      <4>1. file[t].exists => \E j \in Kinds \ {k} : writer[t][j].linked
        BY <1>1, <2>1, <3>2 DEF WholeAt
      <4> QED  BY <1>3, <2>1, <3>2, <4>1
    <3> QED  BY <3>1, <3>2
  <2>7. \A j \in Kinds : writer'[t][j].phase \in Underway /\ ~writer'[t][j].linked
                            => t \in collected
    BY <1>1, <1>3, <2>1 DEF WholeAt
  <2>8. Finished(t)'.phase \in Underway /\ Started(t)'.linked => Finished(t)'.linked
    <3>1. CASE k = "task_started"
      BY <1>2, <1>3, <3>1 DEF NoWrite, Underway
    <3>2. CASE k = "task_finished" /\ ~w.linked
      BY <1>1, <1>2, <1>3, <2>1, <3>2 DEF WholeAt
    <3>3. CASE k = "task_finished" /\ w.linked
      BY <1>3, <3>3
    <3> QED  BY <1>2, <3>1, <3>2, <3>3
  <2> QED  BY <1>2, <2>3, <2>5, <2>6, <2>7, <2>8
<1>11. faulted \subseteq faulted'
  OBVIOUS
<1> QED  BY <1>1, <1>2, <1>3, <1>4, <1>5, <1>6, <1>7, <1>8, <1>9, <1>10, <1>11, TaskStep

\* Without a fault the file holds what is written, and its last line is open only
\* if this append() has written the half of it.
LEMMA AppendingWhole ==
    ASSUME HInv, NEW t \in Tasks, NEW k \in Kinds, t \notin faulted,
           writer[t][k].phase \in {"open", "write", "rest"}
    PROVE  /\ file[t].lines = Extended(Base(t, k), writer[t][k], Line(t, k))
           /\ file[t].open <=> writer[t][k].linked /\ writer[t][k].phase = "rest"
           /\ Base(t, k) \in Seq(Entry \cup {Broken})
<1>1. /\ k = "task_started" => Finished(t) = NoWrite
      /\ k = "task_finished" => Started(t).phase = "done"
      /\ k = "task_started" \/ k = "task_finished"
      /\ Base(t, k) \in Seq(Entry \cup {Broken})
      /\ Written(t) = Extended(Base(t, k), writer[t][k], Line(t, k))
  BY AppendingFacts
<1>2. \A j \in Kinds \ {k} : writer[t][j].phase # "rest"
  <2>1. k = "task_started" => \A j \in Kinds \ {k} : writer[t][j] = Finished(t)
    BY DEF Kinds, Finished
  <2>2. k = "task_finished" => \A j \in Kinds \ {k} : writer[t][j] = Started(t)
    BY DEF Kinds, Started
  <2> QED  BY <1>1, <2>1, <2>2 DEF NoWrite
<1> QED  BY <1>1, <1>2, InvFacts DEF WholeAt

LEMMA WriterType ==
    ASSUME HInv, NEW t \in Tasks, NEW k \in Kinds
    PROVE  /\ writer[t][k] \in Writer /\ file[t] \in File /\ TypeOK
           /\ file = [u \in Tasks |-> file[u]]
           /\ writer[t][k].linked => file[t].exists
           /\ writer[t][k].phase \notin Underway => ~writer[t][k].linked
           /\ faults \in 0 .. MaxFaults /\ now \in 0 .. MaxTime
BY InvFacts, TaskFacts, TypeFacts DEF LinesAt, StageAt

LEMMA OpenStep ==
    ASSUME HInv, NEW t \in Tasks, NEW k \in Kinds, Open(t, k)
    PROVE  HInv'
<1> DEFINE v == writer[t][k]
           w == [v EXCEPT !.phase = "write", !.linked = TRUE]
           f == IF file[t].exists THEN file[t] ELSE Empty
<1>1. /\ v \in Writer /\ file[t] \in File /\ TypeOK /\ file = [u \in Tasks |-> file[u]]
      /\ faults \in 0 .. MaxFaults /\ now \in 0 .. MaxTime
  BY WriterType
<1>2. /\ v.phase = "open" /\ writer' = [writer EXCEPT ![t][k] = w]
      /\ file' = [file EXCEPT ![t] = f]
      /\ UNCHANGED <<now, call, collector, lister, collected>>
      /\ faults' = faults /\ faulted' = faulted
  <2>1. writer \in [Tasks -> [Kinds -> Writer]]
    BY <1>1, TypeFacts
  <2>2. writer' = [writer EXCEPT ![t][k] = w]
    BY <2>1 DEF Open
  <2>3. file' = [file EXCEPT ![t] = f]
    BY <1>1 DEF Open
  <2> QED  BY <2>2, <2>3 DEF Open, faultVars
<1> HIDE DEF v
<1>3. w \in Writer /\ w.phase = "write" /\ w.linked /\ w.at = v.at
  BY <1>1 DEF Writer, Phases
<1> HIDE DEF w
<1>4. /\ f \in File /\ f.exists
      /\ f = file[t] \/ (f.mtime = now /\ f.lines = <<>> /\ Len(f.lines) = 0)
  BY <1>1 DEF Empty, File
<1>5. t \notin faulted => /\ f.lines = Extended(Base(t, k), w, Line(t, k))
                          /\ ~f.open
  <2> SUFFICES ASSUME t \notin faulted
               PROVE  f.lines = Base(t, k) /\ ~f.open
    BY <1>3 DEF Extended
  <2>1. file[t].lines = Base(t, k) /\ ~file[t].open
    BY <1>2, AppendingWhole DEF Extended, v
  <2>2. ~file[t].exists => file[t].lines = <<>>
    BY InvFacts DEF LinesAt, Absent
  <2> QED  BY <2>1, <2>2 DEF Empty
<1> HIDE DEF f
<1>6. \/ f = file[t]
      \/ /\ f.exists /\ f.mtime = now
         /\ \A i \in 1 .. Len(f.lines) :
               \/ f.lines[i] = Broken
               \/ i \in 1 .. Len(file[t].lines) /\ f.lines[i] = file[t].lines[i]
               \/ i = Len(f.lines) /\ f.lines[i] = Line(t, k) /\ w.phase = "done"
  BY <1>4
<1> QED  BY <1>1, <1>2, <1>3, <1>4, <1>5, <1>6, AppendStep DEF v, Underway

\* What a write makes of the file, whether it still has a name or not.
LEMMA ToFacts ==
    ASSUME HInv, NEW t \in Tasks, NEW k \in Kinds, NEW g \in File, g.mtime = now,
           writer[t][k].linked => g.exists,
           NEW w \in Writer, w.at = writer[t][k].at, w.linked = writer[t][k].linked,
           writer[t][k].phase \in {"write", "rest"}, w.phase \in {"rest", "done"},
           writer' = [writer EXCEPT ![t][k] = w], To(t, k, g),
           UNCHANGED <<now, call, collector, lister, faultVars, collected>>,
           \A i \in 1 .. Len(g.lines) :
                 \/ g.lines[i] = Broken
                 \/ i \in 1 .. Len(file[t].lines) /\ g.lines[i] = file[t].lines[i]
                 \/ i = Len(g.lines) /\ g.lines[i] = Line(t, k) /\ w.phase = "done",
           t \notin faulted /\ writer[t][k].linked =>
              /\ g.lines = Extended(Base(t, k), w, Line(t, k))
              /\ g.open <=> w.phase = "rest"
    PROVE  HInv'
<1> DEFINE v == writer[t][k]
           f == IF v.linked THEN g ELSE file[t]
<1>1. /\ v \in Writer /\ file[t] \in File /\ TypeOK /\ file = [u \in Tasks |-> file[u]]
      /\ faults \in 0 .. MaxFaults
      /\ v.linked => file[t].exists
  BY WriterType
<1>2. file' = [file EXCEPT ![t] = f]
  BY <1>1 DEF To
<1>3. f \in File /\ (w.linked => f.exists) /\ (file[t].exists => f.exists)
  BY <1>1
<1>4. \/ f = file[t]
      \/ /\ f.exists /\ f.mtime = now
         /\ \A i \in 1 .. Len(f.lines) :
               \/ f.lines[i] = Broken
               \/ i \in 1 .. Len(file[t].lines) /\ f.lines[i] = file[t].lines[i]
               \/ i = Len(f.lines) /\ f.lines[i] = Line(t, k) /\ w.phase = "done"
  OBVIOUS
<1>5. t \notin faulted =>
         /\ f.lines = Extended(Base(t, k), w, Line(t, k))
         /\ f.open <=> w.linked /\ w.phase = "rest"
         /\ w.phase \in Underway
         /\ IF w.linked THEN v.linked \/ v.phase = "open"
            ELSE f.exists = file[t].exists /\ ~v.linked /\ v.phase \in Underway
  <2> SUFFICES ASSUME t \notin faulted
               PROVE  /\ f.lines = Extended(Base(t, k), w, Line(t, k))
                      /\ f.open <=> w.linked /\ w.phase = "rest"
    BY DEF Underway
  <2>1. /\ file[t].lines = Extended(Base(t, k), v, Line(t, k))
        /\ file[t].open <=> v.linked /\ v.phase = "rest"
    BY AppendingWhole
  <2>2. CASE v.linked
    BY <2>2
  <2>3. CASE ~v.linked
    BY <2>1, <2>3 DEF Extended
  <2> QED  BY <1>1, <2>2, <2>3 DEF Writer
<1>6. w.phase \in Underway /\ v.phase \in {"open", "write", "rest"}
  BY DEF Underway
<1>7. faults' \in 0 .. MaxFaults /\ faulted' = faulted
  <2>1. faults' = faults /\ faulted' = faulted
    BY Zenon DEF faultVars
  <2> QED  BY <1>1, <2>1
<1> HIDE DEF f
<1> QED  BY <1>2, <1>3, <1>4, <1>5, <1>6, <1>7, AppendStep DEF v

LEMMA WriteStep ==
    ASSUME HInv, NEW t \in Tasks, NEW k \in Kinds, Write(t, k)
    PROVE  HInv'
<1> DEFINE v == writer[t][k]
           w == [v EXCEPT !.phase = "done"]
           line == Line(t, k)
           g == WithLine(file[t], line)
<1>1. /\ v \in Writer /\ file[t] \in File /\ TypeOK /\ now \in 0 .. MaxTime
      /\ v.linked => file[t].exists
  BY WriterType
<1>2. /\ v.phase = "write" /\ writer' = [writer EXCEPT ![t][k] = w] /\ To(t, k, g)
      /\ UNCHANGED <<now, call, collector, lister, faultVars, collected>>
  BY <1>1, TypeFacts DEF Write
<1>3. line \in Entry
  BY <1>1, LineFacts
<1> HIDE DEF v, line
<1>4. w \in Writer /\ w.phase = "done" /\ w.linked = v.linked /\ w.at = v.at
  BY <1>1 DEF Writer, Phases
<1> HIDE DEF w
<1> DEFINE s == file[t].lines
           new == IF file[t].open THEN Append(Front(s), Broken) ELSE Append(s, line)
<1>5. new \in Seq(Entry \cup {Broken}) /\ \A i \in 1 .. Len(new) :
         \/ new[i] = Broken
         \/ i \in 1 .. Len(s) /\ new[i] = s[i]
         \/ i = Len(new) /\ new[i] = line
  <2>1. s \in Seq(Entry \cup {Broken})
    BY <1>1 DEF File
  <2>2. CASE file[t].open
    <3>1. /\ Front(s) \in Seq(Entry \cup {Broken}) /\ Len(Front(s)) \in Nat
          /\ \A i \in 1 .. Len(Front(s)) : i \in 1 .. Len(s) /\ Front(s)[i] = s[i]
      BY <2>1, FrontFacts
    <3>2. new = Append(Front(s), Broken)
      BY <2>2
    <3> HIDE DEF s, new
    <3> QED  BY <3>1, <3>2
  <2>3. CASE ~file[t].open
    <3>1. new = Append(s, line)
      BY <2>3
    <3> HIDE DEF s, new
    <3> QED  BY <1>3, <2>1, <3>1
  <2> QED  BY <2>2, <2>3
<1>6. g = [file[t] EXCEPT !.lines = new, !.open = FALSE, !.mtime = now]
  BY DEF WithLine
<1> HIDE DEF new, g
<1>7. g \in File /\ g.mtime = now /\ g.lines = new /\ ~g.open /\ g.exists = file[t].exists
  BY <1>1, <1>5, <1>6 DEF File
<1>8. t \notin faulted /\ v.linked => /\ g.lines = Extended(Base(t, k), w, line)
                                      /\ g.open <=> w.phase = "rest"
  <2> SUFFICES ASSUME t \notin faulted, v.linked
               PROVE  new = Append(Base(t, k), line)
    BY <1>4, <1>7 DEF Extended
  <2>1. s = Base(t, k) /\ ~file[t].open
    BY <1>2, AppendingWhole DEF Extended, v
  <2> QED  BY <2>1 DEF new
<1> QED  BY <1>1, <1>2, <1>4, <1>5, <1>7, <1>8, ToFacts DEF v, line

LEMMA WritePartStep ==
    ASSUME HInv, NEW t \in Tasks, NEW k \in Kinds, WritePart(t, k)
    PROVE  HInv'
<1> DEFINE v == writer[t][k]
           w == [v EXCEPT !.phase = "rest"]
           g == WithHalf(file[t])
           s == file[t].lines
           new == Append(s, Broken)
<1>1. /\ v \in Writer /\ file[t] \in File /\ TypeOK /\ now \in 0 .. MaxTime
      /\ v.linked => file[t].exists
  BY WriterType
<1>2. /\ v.phase = "write" /\ writer' = [writer EXCEPT ![t][k] = w] /\ To(t, k, g)
      /\ UNCHANGED <<now, call, collector, lister, faultVars, collected>>
  BY <1>1, TypeFacts DEF WritePart
<1> HIDE DEF v
<1>3. w \in Writer /\ w.phase = "rest" /\ w.linked = v.linked /\ w.at = v.at
  BY <1>1 DEF Writer, Phases
<1> HIDE DEF w
<1>4. new \in Seq(Entry \cup {Broken}) /\ \A i \in 1 .. Len(new) :
         new[i] = Broken \/ (i \in 1 .. Len(s) /\ new[i] = s[i])
  <2>1. s \in Seq(Entry \cup {Broken})
    BY <1>1 DEF File
  <2> HIDE DEF s
  <2> QED  BY <2>1
<1>5. g = [file[t] EXCEPT !.lines = new, !.open = TRUE, !.mtime = now]
  BY DEF WithHalf
<1> HIDE DEF new, g
<1>6. g \in File /\ g.mtime = now /\ g.lines = new /\ g.open /\ g.exists = file[t].exists
  BY <1>1, <1>4, <1>5 DEF File
<1>7. t \notin faulted /\ v.linked => /\ g.lines = Extended(Base(t, k), w, Line(t, k))
                                      /\ g.open <=> w.phase = "rest"
  <2> SUFFICES ASSUME t \notin faulted, v.linked
               PROVE  new = Append(Base(t, k), Broken)
    BY <1>3, <1>6 DEF Extended
  <2>1. s = Base(t, k)
    BY <1>2, AppendingWhole DEF Extended, v
  <2> QED  BY <2>1 DEF new
<1> QED  BY <1>1, <1>2, <1>3, <1>4, <1>6, <1>7, ToFacts DEF v

LEMMA WriteRestStep ==
    ASSUME HInv, NEW t \in Tasks, NEW k \in Kinds, WriteRest(t, k)
    PROVE  HInv'
<1> DEFINE v == writer[t][k]
           w == [v EXCEPT !.phase = "done"]
           line == Line(t, k)
           g == WithRest(file[t], line)
           s == file[t].lines
           new == Append(Front(s), line)
<1>1. /\ v \in Writer /\ file[t] \in File /\ TypeOK /\ now \in 0 .. MaxTime
      /\ v.linked => file[t].exists
  BY WriterType
<1>2. /\ v.phase = "rest" /\ writer' = [writer EXCEPT ![t][k] = w] /\ To(t, k, g)
      /\ UNCHANGED <<now, call, collector, lister, faultVars, collected>>
  BY <1>1, TypeFacts DEF WriteRest
<1>3. line \in Entry
  BY <1>1, LineFacts
<1> HIDE DEF v, line
<1>4. w \in Writer /\ w.phase = "done" /\ w.linked = v.linked /\ w.at = v.at
  BY <1>1 DEF Writer, Phases
<1> HIDE DEF w
<1>5. new \in Seq(Entry \cup {Broken}) /\ \A i \in 1 .. Len(new) :
         (i \in 1 .. Len(s) /\ new[i] = s[i]) \/ (i = Len(new) /\ new[i] = line)
  <2>1. s \in Seq(Entry \cup {Broken})
    BY <1>1 DEF File
  <2>2. /\ Front(s) \in Seq(Entry \cup {Broken}) /\ Len(Front(s)) \in Nat
        /\ \A i \in 1 .. Len(Front(s)) : i \in 1 .. Len(s) /\ Front(s)[i] = s[i]
    BY <2>1, FrontFacts
  <2>3. new = Append(Front(s), line)
    OBVIOUS
  <2> HIDE DEF s, new
  <2> QED  BY <1>3, <2>2, <2>3
<1>6. g = [file[t] EXCEPT !.lines = new, !.open = FALSE, !.mtime = now]
  BY DEF WithRest
<1> HIDE DEF new, g
<1>7. g \in File /\ g.mtime = now /\ g.lines = new /\ ~g.open /\ g.exists = file[t].exists
  BY <1>1, <1>5, <1>6 DEF File
<1>8. t \notin faulted /\ v.linked => /\ g.lines = Extended(Base(t, k), w, line)
                                      /\ g.open <=> w.phase = "rest"
  <2> SUFFICES ASSUME t \notin faulted, v.linked
               PROVE  new = Append(Base(t, k), line)
    BY <1>4, <1>7 DEF Extended
  <2>1. s = Append(Base(t, k), Broken) /\ Base(t, k) \in Seq(Entry \cup {Broken})
    BY <1>2, AppendingWhole DEF Extended, v
  <2>2. Front(s) = Base(t, k)
    BY <2>1, FrontAppended
  <2> QED  BY <2>2 DEF new
<1> QED  BY <1>1, <1>2, <1>4, <1>5, <1>7, <1>8, ToFacts DEF v, line

\* A write that fails: nothing is said of the history any more.
LEMMA WriteFailsStep ==
    ASSUME HInv, NEW t \in Tasks, NEW k \in Kinds, WriteFails(t, k)
    PROVE  HInv'
<1> DEFINE v == writer[t][k]
           w == [v EXCEPT !.phase = "done"]
<1>1. /\ v \in Writer /\ file[t] \in File /\ TypeOK /\ file = [u \in Tasks |-> file[u]]
      /\ faults \in 0 .. MaxFaults
      /\ v.linked => file[t].exists
  BY WriterType
<1>2. /\ v.phase \in {"open", "write", "rest"} /\ writer' = [writer EXCEPT ![t][k] = w]
      /\ UNCHANGED <<now, call, collector, lister, collected>> /\ file' = file
      /\ faults' = faults + 1 /\ faults < MaxFaults /\ faulted' = faulted \cup {t}
  BY <1>1, TypeFacts DEF WriteFails
<1> HIDE DEF v
<1>3. w \in Writer /\ w.phase = "done" /\ w.linked = v.linked /\ w.at = v.at
  BY <1>1 DEF Writer, Phases
<1> HIDE DEF w
<1>4. file' = [file EXCEPT ![t] = file[t]]
  BY <1>1, <1>2
<1>5. faults' \in 0 .. MaxFaults /\ t \in faulted' /\ w.phase \in Underway
  BY <1>1, <1>2, <1>3, HistoryAssumption DEF Underway
<1> QED  BY <1>1, <1>2, <1>3, <1>4, <1>5, AppendStep DEF v

-----------------------------------------------------------------------------
(* gc(), list(), and the clock.                                            *)

\* A step that touches no history.
LEMMA HistoriesRest ==
    ASSUME HInv, file' = file, call' = call, writer' = writer, now <= now', now' \in Nat,
           faulted' = faulted, collected' = collected
    PROVE  \A t \in Tasks : StageAt(t)' /\ LinesAt(t)' /\ WholeAt(t)'
BY Elsewhere

LEMMA TickStep ==
    ASSUME HInv, Tick
    PROVE  HInv'
<1>1. /\ now < MaxTime /\ now' = now + 1 /\ file' = file /\ call' = call /\ writer' = writer
      /\ collector' = collector /\ lister' = lister /\ faults' = faults
      /\ faulted' = faulted /\ collected' = collected
  BY DEF Tick, callVars, faultVars
<1>2. TypeOK /\ FailInv /\ now \in 0 .. MaxTime /\ now \in Nat /\ MaxTime \in Nat
  BY HistoryAssumption, TypeFacts DEF HInv
<1>3. TypeOK'
  <2>1. now' \in 0 .. MaxTime
    BY <1>1, <1>2
  <2> QED  BY <1>1, <1>2, <2>1, TypeFacts, TypeNext
<1>4. \A t \in Tasks : StageAt(t)' /\ LinesAt(t)' /\ WholeAt(t)'
  BY <1>1, <1>2, HistoriesRest
<1>5. ASSUME NEW t \in Tasks
      PROVE  /\ \A p \in Procs : GcAt(collector[p], t)'
             /\ \A p \in Listers : ListAt(lister[p], t)'
  BY <1>1, InvFacts DEF GcAt, ListAt, Started, Finished
<1>6. FailInv'
  BY <1>1, <1>2 DEF FailInv
<1> QED  BY <1>3, <1>4, <1>5, <1>6 DEF HInv

\* A step of the gc() of one process.
LEMMA GcStep ==
    ASSUME HInv, NEW p \in Procs, NEW g \in Gc, collector' = [collector EXCEPT ![p] = g],
           UNCHANGED <<now, file, callVars, lister, faultVars, collected>>,
           \A t \in Tasks : GcAt(g, t), g.failed => collected # {}
    PROVE  HInv'
<1>1. /\ now' = now /\ file' = file /\ call' = call /\ writer' = writer
      /\ lister' = lister /\ faults' = faults /\ faulted' = faulted /\ collected' = collected
  BY DEF callVars, faultVars
<1>2. TypeOK /\ FailInv /\ now \in Nat /\ collector \in [Procs -> Gc]
  BY HistoryAssumption, TypeFacts DEF HInv
<1>3. /\ collector' \in [Procs -> Gc] /\ collector'[p] = g
      /\ \A q \in Procs \ {p} : collector'[q] = collector[q]
  BY <1>2
<1>4. TypeOK'
  BY <1>1, <1>2, <1>3, TypeFacts, TypeNext
<1>5. \A t \in Tasks : StageAt(t)' /\ LinesAt(t)' /\ WholeAt(t)'
  BY <1>1, <1>2, HistoriesRest
<1>6. ASSUME NEW t \in Tasks
      PROVE  /\ \A q \in Procs : GcAt(collector[q], t)'
             /\ \A q \in Listers : ListAt(lister[q], t)'
  <2>1. \A q \in Procs : GcAt(collector'[q], t)
    BY <1>3, InvFacts
  <2>2. \A q \in Procs : GcAt(collector[q], t)'
    BY <1>1, <2>1 DEF GcAt, Started, Finished
  <2>3. \A q \in Listers : ListAt(lister[q], t)'
    BY <1>1, InvFacts DEF ListAt
  <2> QED  BY <2>2, <2>3
<1>7. FailInv'
  BY <1>1, <1>2, <1>3 DEF FailInv
<1> QED  BY <1>4, <1>5, <1>6, <1>7 DEF HInv

LEMMA CollectStep ==
    ASSUME HInv, NEW p \in Procs, Collect(p)
    PROVE  HInv'
<1> DEFINE g == [cutoff |-> now - Ttl, step |-> Names("read"), failed |-> FALSE,
                 ended |-> {t \in Tasks : Appended(t, "task_finished")}]
<1>1. /\ collector' = [collector EXCEPT ![p] = g]
      /\ UNCHANGED <<now, file, callVars, lister, faultVars, collected>>
  BY DEF Collect
<1>2. g \in Gc
  <2>1. now \in Nat /\ Ttl \in Nat
    BY HistoryAssumption, TypeFacts DEF HInv
  <2>2. now - Ttl \in Int
    BY <2>1
  <2>3. Names("read") \in [Tasks -> {"none", "read", "stat", "remove"}]
    BY DEF Names
  <2> QED  BY <2>2, <2>3 DEF Gc
<1>3. ASSUME NEW t \in Tasks
      PROVE  GcAt(g, t)
  BY InvFacts DEF GcAt, LinesAt, Names, Appended, Finished
<1> QED  BY <1>1, <1>2, <1>3, GcStep

\* The gc() of a process looks at the file of one task.
LEMMA GcMoves ==
    ASSUME HInv, NEW p \in Procs, NEW t \in Tasks, NEW to \in {"none", "stat", "remove"},
           NEW failed \in BOOLEAN, collector[p].step[t] # "none",
           collector' = [collector EXCEPT ![p] =
                            [collector[p] EXCEPT !.step = [collector[p].step EXCEPT ![t] = to],
                                                 !.failed = failed]],
           UNCHANGED <<now, file, callVars, lister, faultVars, collected>>,
           failed => collected # {},
           to = "remove" => /\ Started(t).at < collector[p].cutoff
                            /\ \A i \in 1 .. Len(file[t].lines) :
                                  file[t].lines[i].kind = "task_finished"
                                     => file[t].lines[i].at < collector[p].cutoff
    PROVE  HInv'
<1> DEFINE c == collector[p]
           g == [c EXCEPT !.step = [c.step EXCEPT ![t] = to], !.failed = failed]
<1>1. c \in Gc /\ collector \in [Procs -> Gc]
  BY TypeFacts DEF HInv
<1>2. collector' = [collector EXCEPT ![p] = g]
  BY <1>1
<1>3. \A u \in Tasks : GcAt(c, u)
  BY InvFacts
<1> HIDE DEF c
<1>4. /\ g \in Gc /\ g.cutoff = c.cutoff /\ g.ended = c.ended /\ g.failed = failed
      /\ g.step[t] = to /\ \A u \in Tasks \ {t} : g.step[u] = c.step[u]
  BY <1>1 DEF Gc
<1> HIDE DEF g
<1>5. ASSUME NEW u \in Tasks
      PROVE  GcAt(g, u)
  <2>1. CASE u = t
    <3>1. c.step[t] # "none"
      BY DEF c
    <3>2. to = "remove" => /\ Started(t).at < c.cutoff
                           /\ \A i \in 1 .. Len(file[t].lines) :
                                 file[t].lines[i].kind = "task_finished"
                                    => file[t].lines[i].at < c.cutoff
      BY DEF c
    <3> QED  BY <1>3, <1>4, <2>1, <3>1, <3>2 DEF GcAt
  <2>2. CASE u # t
    BY <1>3, <1>4, <2>2 DEF GcAt
  <2> QED  BY <2>1, <2>2
<1> QED  BY <1>2, <1>4, <1>5, GcStep

\* The moment a history is judged by is not before its run began, nor before its
\* verdict was recorded.
LEMMA MomentFacts ==
    ASSUME HInv, NEW t \in Tasks, Lookup(file[t]) = "read", file[t].lines # <<>>
    PROVE  /\ Moment(file[t]) \in Nat /\ Started(t).at <= Moment(file[t])
           /\ \A i \in 1 .. Len(file[t].lines) :
                 file[t].lines[i].kind = "task_finished"
                    => file[t].lines[i].at <= Moment(file[t])
<1> DEFINE s == file[t].lines
<1>1. /\ file[t] \in File /\ s \in Seq(Entry \cup {Broken}) /\ LinesAt(t)
      /\ Started(t).at \in Nat
  BY InvFacts, TaskFacts
<1>2. \A i \in 1 .. Len(s) : s[i] # Broken /\ s[i] \in Entry /\ s[i].at \in Nat
  <2>1. ~Corrupted(file[t])
    BY <1>1, StatusFacts
  <2>2. \A i \in 1 .. Len(s) : s[i] # Broken
    BY <1>1, <2>1, CorruptedFacts
  <2> QED  BY <1>1, <2>2 DEF Entry
<1>3. \A i \in 1 .. Len(s) : /\ Started(t).at <= s[i].at
                             /\ s[i].kind = "task_finished" => i = Len(s)
  BY <1>1, <1>2 DEF LinesAt
<1>4. /\ Last(s) = s[Len(s)] /\ Head(s) = s[1] /\ Len(s) \in 1 .. Len(s) /\ 1 \in 1 .. Len(s)
  BY <1>1, LastFacts
<1>5. Moment(file[t]) = IF s[Len(s)].kind = "task_finished" THEN s[Len(s)].at ELSE s[1].at
  BY <1>4 DEF Moment
<1> HIDE DEF s
<1>6. \A i \in 1 .. Len(s) : s[i].kind = "task_finished" => s[i].at <= Moment(file[t])
  BY <1>2, <1>3, <1>4, <1>5
<1> QED  BY <1>2, <1>3, <1>4, <1>5, <1>6 DEF s

LEMMA JudgeFacts ==
    ASSUME HInv, NEW p \in Procs, NEW t \in Tasks, NEW moment \in Nat,
           collector[p].step[t] # "none", Judge(p, t, moment),
           UNCHANGED <<now, file, callVars, lister, faultVars, collected>>,
           Started(t).at <= moment,
           \A i \in 1 .. Len(file[t].lines) :
              file[t].lines[i].kind = "task_finished"
                 => file[t].lines[i].at <= moment /\ file[t].lines[i].at \in Nat
    PROVE  HInv'
<1> DEFINE c == collector[p]
           to == IF moment >= c.cutoff THEN "none" ELSE "remove"
<1>1. c \in Gc /\ collector \in [Procs -> Gc] /\ FailInv /\ Started(t).at \in Nat
  BY TypeFacts, TaskFacts DEF HInv
<1>2. c.cutoff \in Int /\ c.failed \in BOOLEAN
  BY <1>1 DEF Gc
<1>3. collector' = [collector EXCEPT ![p] =
                       [collector[p] EXCEPT !.step = [collector[p].step EXCEPT ![t] = to],
                                            !.failed = c.failed]]
  BY <1>1 DEF Judge, Gc
<1>4. c.failed => collected # {}
  BY <1>1 DEF FailInv
<1>5. to = "remove" => /\ Started(t).at < c.cutoff
                       /\ \A i \in 1 .. Len(file[t].lines) :
                             file[t].lines[i].kind = "task_finished"
                                => file[t].lines[i].at < c.cutoff
  BY <1>1, <1>2
<1>6. to \in {"none", "stat", "remove"}
  OBVIOUS
<1> HIDE DEF to
<1> QED  BY <1>2, <1>3, <1>4, <1>5, <1>6, GcMoves

LEMMA CollectReadStep ==
    ASSUME HInv, NEW p \in Procs, NEW t \in Tasks, CollectRead(p, t)
    PROVE  HInv'
<1> DEFINE c == collector[p]
<1>1. /\ c.step[t] = "read" /\ UNCHANGED <<now, file, callVars, lister, faultVars, collected>>
  BY DEF CollectRead
<1>2. /\ c \in Gc /\ collector \in [Procs -> Gc] /\ FailInv /\ file[t] \in File
      /\ TypeOK
  BY TypeFacts DEF HInv
<1>3. CASE Lookup(file[t]) = "read" /\ file[t].lines # <<>>
  <2>1. Judge(p, t, Moment(file[t]))
    BY <1>3 DEF CollectRead
  <2>2. /\ Moment(file[t]) \in Nat /\ Started(t).at <= Moment(file[t])
        /\ \A i \in 1 .. Len(file[t].lines) :
              file[t].lines[i].kind = "task_finished"
                 => file[t].lines[i].at <= Moment(file[t])
    BY <1>3, MomentFacts
  <2>3. \A i \in 1 .. Len(file[t].lines) : file[t].lines[i].at \in Nat
    BY <1>2 DEF File, Entry, Broken
  <2> QED  BY <1>1, <2>1, <2>2, <2>3, JudgeFacts
<1>4. CASE ~(Lookup(file[t]) = "read" /\ file[t].lines # <<>>)
  <2>1. collector' = [collector EXCEPT ![p] =
                         [collector[p] EXCEPT !.step = [collector[p].step EXCEPT ![t] = "stat"],
                                              !.failed = c.failed]]
    BY <1>2, <1>4 DEF CollectRead, Gc
  <2>2. c.failed \in BOOLEAN /\ (c.failed => collected # {})
    BY <1>2 DEF Gc, FailInv
  <2> QED  BY <1>1, <2>1, <2>2, GcMoves
<1> QED  BY <1>3, <1>4

LEMMA CollectStatStep ==
    ASSUME HInv, NEW p \in Procs, NEW t \in Tasks, CollectStat(p, t)
    PROVE  HInv'
<1> DEFINE c == collector[p]
<1>1. /\ c.step[t] = "stat" /\ UNCHANGED <<now, file, callVars, lister, faultVars, collected>>
  BY DEF CollectStat
<1>2. /\ c \in Gc /\ collector \in [Procs -> Gc] /\ FailInv /\ file[t] \in File
      /\ TypeOK /\ LinesAt(t) /\ GcAt(c, t) /\ Started(t).at \in Nat /\ file[t].mtime \in Nat
  BY TypeFacts, TaskFacts, InvFacts
<1>3. CASE file[t].exists
  <2>1. Judge(p, t, file[t].mtime)
    BY <1>3 DEF CollectStat
  <2>2. Started(t).at <= file[t].mtime
    BY <1>2, <1>3 DEF LinesAt
  <2>3. \A i \in 1 .. Len(file[t].lines) :
           /\ file[t].lines[i].at \in Nat
           /\ file[t].lines[i].kind = "task_finished" => file[t].lines[i].at <= file[t].mtime
    BY <1>2 DEF LinesAt, File, Entry, Broken
  <2> QED  BY <1>1, <1>2, <2>1, <2>2, <2>3, JudgeFacts
<1>4. CASE ~file[t].exists
  <2>1. collector' = [collector EXCEPT ![p] =
                         [collector[p] EXCEPT !.step = [collector[p].step EXCEPT ![t] = "none"],
                                              !.failed = TRUE]]
    BY <1>2, <1>4 DEF CollectStat, Gc
  <2>2. collected # {}
    BY <1>1, <1>2, <1>4 DEF GcAt
  <2> QED  BY <1>1, <2>1, <2>2, GcMoves
<1> QED  BY <1>3, <1>4

LEMMA SameWriter ==
    ASSUME NEW v \in Writer, NEW w \in Writer,
           v.phase = w.phase, v.linked = w.linked, v.at = w.at
    PROVE  v = w
BY DEF Writer

\* The file of t is taken away: what is left of its history is the empty one.
LEMMA CollectRemoveStep ==
    ASSUME HInv, NEW p \in Procs, NEW t \in Tasks, CollectRemove(p, t)
    PROVE  HInv'
<1> DEFINE c == collector[p]
           g == [c EXCEPT !.step = [c.step EXCEPT ![t] = "none"]]
           w == [k \in Kinds |-> [writer[t][k] EXCEPT !.linked = FALSE]]
<1>1. /\ TypeOK /\ FailInv /\ StageAt(t) /\ LinesAt(t) /\ WholeAt(t) /\ GcAt(c, t)
      /\ c \in Gc /\ collector \in [Procs -> Gc] /\ writer[t] \in [Kinds -> Writer]
      /\ file \in [Tasks -> File] /\ writer \in [Tasks -> [Kinds -> Writer]]
      /\ now \in 0 .. MaxTime /\ now \in Nat /\ collected \subseteq Tasks
  BY InvFacts, TypeFacts, TaskFacts
<1>2. /\ c.step[t] = "remove"
      /\ now' = now /\ call' = call /\ lister' = lister /\ faults' = faults /\ faulted' = faulted
      /\ file' = [file EXCEPT ![t] = Absent] /\ writer' = [writer EXCEPT ![t] = w]
      /\ collected' = IF file[t].exists THEN collected \cup {t} ELSE collected
      /\ collector' = [collector EXCEPT ![p] = g]
  BY <1>1, TypeFacts DEF CollectRemove, Unlink, faultVars
<1>3. /\ g \in Gc /\ g.cutoff = c.cutoff /\ g.ended = c.ended /\ g.failed = c.failed
      /\ g.step[t] = "none" /\ \A u \in Tasks \ {t} : g.step[u] = c.step[u]
  BY <1>1 DEF Gc
<1>4. /\ w \in [Kinds -> Writer]
      /\ \A k \in Kinds : /\ w[k].phase = writer[t][k].phase /\ w[k].at = writer[t][k].at
                          /\ w[k].linked = FALSE
                          /\ writer[t][k] = NoWrite => w[k] = NoWrite
  <2>1. ASSUME NEW k \in Kinds
        PROVE  /\ w[k] \in Writer
               /\ w[k].phase = writer[t][k].phase /\ w[k].at = writer[t][k].at
               /\ w[k].linked = FALSE
    BY <1>1 DEF Writer
  <2>2. NoWrite \in Writer /\ NoWrite.linked = FALSE
    BY HistoryAssumption DEF NoWrite, Writer, Phases
  <2>3. ASSUME NEW k \in Kinds, writer[t][k] = NoWrite
        PROVE  w[k] = NoWrite
    <3>1. /\ w[k] \in Writer /\ w[k].phase = NoWrite.phase /\ w[k].at = NoWrite.at
          /\ w[k].linked = NoWrite.linked
      BY <2>1, <2>2, <2>3
    <3> HIDE DEF w
    <3> QED  BY <2>2, <3>1, SameWriter
  <2> QED  BY <2>1, <2>3
<1>5. Absent \in File
  BY HistoryAssumption DEF File, Absent
<1> HIDE DEF c, g, w
<1>6. /\ file' \in [Tasks -> File] /\ file'[t] = Absent
      /\ \A u \in Tasks \ {t} : file'[u] = file[u]
      /\ writer' \in [Tasks -> [Kinds -> Writer]] /\ writer'[t] = w
      /\ \A u \in Tasks \ {t} : writer'[u] = writer[u]
      /\ collector' \in [Procs -> Gc] /\ collector'[p] = g
      /\ \A q \in Procs \ {p} : collector'[q] = collector[q]
  BY <1>1, <1>2, <1>3, <1>4, <1>5
<1>7. t \in collected' /\ collected \subseteq collected' /\ collected' \subseteq Tasks
  BY <1>1, <1>2 DEF GcAt
<1>8. TypeOK'
  BY <1>1, <1>2, <1>6, <1>7, TypeFacts, TypeNext
<1>9. /\ Started(t)' = w["task_started"] /\ Finished(t)' = w["task_finished"]
      /\ ~Started(t)'.linked /\ ~Finished(t)'.linked
      /\ Started(t)'.phase = Started(t).phase /\ Started(t)'.at = Started(t).at
      /\ Finished(t)'.phase = Finished(t).phase /\ Finished(t)'.at = Finished(t).at
      /\ Started(t) = NoWrite => Started(t)' = NoWrite
      /\ Finished(t) = NoWrite => Finished(t)' = NoWrite
  BY <1>4, <1>6 DEF Started, Finished, Kinds
<1>10. ASSUME NEW u \in Tasks
       PROVE  StageAt(u)' /\ LinesAt(u)' /\ WholeAt(u)'
  <2>1. CASE u = t
    <3>1. StageAt(t)'
      <4>1. \A k \in Kinds : writer'[t][k].phase \notin Underway => ~writer'[t][k].linked
        BY <1>4, <1>6
      <4>2. \A k \in Kinds : writer'[t][k].at <= now'
        BY <1>1, <1>2, <1>4, <1>6 DEF StageAt
      <4> QED  BY <1>1, <1>2, <1>9, <4>1, <4>2 DEF StageAt
    <3>2. LinesAt(t)'
      BY <1>1, <1>2, <1>4, <1>6 DEF LinesAt, Absent
    <3>3. WholeAt(t)'
      <4>1. Written(t)' = <<>>
        BY <1>9 DEF Written, Begun, Extended
      <4>2. \A k \in Kinds : ~writer'[t][k].linked
        BY <1>4, <1>6
      <4> QED  BY <1>6, <1>7, <1>9, <4>1, <4>2 DEF WholeAt, Absent
    <3> QED  BY <2>1, <3>1, <3>2, <3>3
  <2>2. CASE u # t
    <3>1. /\ call'[u] = call[u] /\ writer'[u] = writer[u] /\ file'[u] = file[u]
          /\ now <= now' /\ now' \in Nat
      BY <1>1, <1>2, <1>6, <2>2
    <3> QED  BY <1>2, <1>7, <3>1, Elsewhere
  <2> QED  BY <2>1, <2>2
<1>11. ASSUME NEW u \in Tasks, NEW q \in Procs
       PROVE  GcAt(collector[q], u)'
  <2>1. GcAt(collector[q], u)
    BY InvFacts
  <2>2. /\ collector'[q].cutoff = collector[q].cutoff /\ collector'[q].ended = collector[q].ended
        /\ collector'[q].step[u] # "none" => collector'[q].step[u] = collector[q].step[u]
    BY <1>3, <1>6 DEF c
  <2>3. CASE u = t
    BY <1>2, <1>6, <1>7, <1>9, <2>1, <2>2, <2>3 DEF GcAt, Absent
  <2>4. CASE u # t
    <3>1. file'[u] = file[u] /\ writer'[u] = writer[u]
      BY <1>6, <2>4
    <3> QED  BY <1>2, <1>7, <2>1, <2>2, <3>1 DEF GcAt, Started, Finished
  <2> QED  BY <2>3, <2>4
<1>12. ASSUME NEW u \in Tasks, NEW q \in Listers
       PROVE  ListAt(lister[q], u)'
  <2>1. ListAt(lister[q], u)
    BY InvFacts
  <2>2. file'[u] = file[u] \/ u \in collected'
    BY <1>6, <1>7
  <2> QED  BY <1>2, <1>7, <2>1, <2>2 DEF ListAt
<1>13. FailInv'
  BY <1>7 DEF FailInv
<1> QED  BY <1>8, <1>10, <1>11, <1>12, <1>13 DEF HInv

\* A step of the list() of one process.
LEMMA ListStep ==
    ASSUME HInv, NEW p \in Listers, NEW l \in Listing, lister' = [lister EXCEPT ![p] = l],
           UNCHANGED <<now, file, callVars, collector, faultVars, collected>>,
           \A t \in Tasks : ListAt(l, t), l.failed => collected # {}
    PROVE  HInv'
<1>1. /\ now' = now /\ file' = file /\ call' = call /\ writer' = writer
      /\ collector' = collector /\ faults' = faults /\ faulted' = faulted /\ collected' = collected
  BY DEF callVars, faultVars
<1>2. TypeOK /\ FailInv /\ now \in Nat /\ lister \in [Listers -> Listing]
  BY HistoryAssumption, TypeFacts DEF HInv
<1>3. /\ lister' \in [Listers -> Listing] /\ lister'[p] = l
      /\ \A q \in Listers \ {p} : lister'[q] = lister[q]
  BY <1>2
<1>4. TypeOK'
  BY <1>1, <1>2, <1>3, TypeFacts, TypeNext
<1>5. \A t \in Tasks : StageAt(t)' /\ LinesAt(t)' /\ WholeAt(t)'
  BY <1>1, <1>2, HistoriesRest
<1>6. ASSUME NEW t \in Tasks
      PROVE  /\ \A q \in Procs : GcAt(collector[q], t)'
             /\ \A q \in Listers : ListAt(lister[q], t)'
  <2>1. \A q \in Listers : ListAt(lister'[q], t)
    BY <1>3, InvFacts
  <2>2. \A q \in Listers : ListAt(lister[q], t)'
    BY <1>1, <2>1 DEF ListAt
  <2>3. \A q \in Procs : GcAt(collector[q], t)'
    BY <1>1, InvFacts DEF GcAt, Started, Finished
  <2> QED  BY <2>2, <2>3
<1>7. FailInv'
  BY <1>1, <1>2, <1>3 DEF FailInv
<1> QED  BY <1>4, <1>5, <1>6, <1>7 DEF HInv

LEMMA NoVerdict == {"none", "unknown", "corrupted", "running"} \cap Verdicts = {}
BY DEF Verdicts, Terminal

LEMMA ListingStep ==
    ASSUME HInv, NEW p \in Listers, List(p)
    PROVE  HInv'
<1> DEFINE l == [step |-> Names("stat"), seen |-> [t \in Tasks |-> "none"], failed |-> FALSE]
<1>1. /\ lister' = [lister EXCEPT ![p] = l]
      /\ UNCHANGED <<now, file, callVars, collector, faultVars, collected>>
  BY DEF List
<1>2. l \in Listing
  BY DEF Listing, Names
<1>3. ASSUME NEW t \in Tasks
      PROVE  ListAt(l, t)
  BY NoVerdict DEF ListAt, Names
<1> QED  BY <1>1, <1>2, <1>3, ListStep

\* What list() shows of a file is the verdict of the run, or no verdict.
LEMMA ListedFacts ==
    ASSUME HInv, NEW t \in Tasks
    PROVE  /\ Listed(file[t]) \in Statuses \cup {"none", "corrupted"}
           /\ Listed(file[t]) \in Verdicts => Listed(file[t]) = call[t].status
<1>1. /\ file[t] \in File /\ LinesAt(t) /\ file[t].lines \in Seq(Entry \cup {Broken})
  BY InvFacts, TaskFacts
<1>2. Listed(file[t]) \in Statuses \cup {"none", "corrupted"}
  BY <1>1, StatusFacts DEF Listed
<1>3. ASSUME Listed(file[t]) \in Verdicts
      PROVE  Listed(file[t]) = call[t].status
  <2>1. Lookup(file[t]) = "read" /\ file[t].lines # <<>>
    BY <1>3, NoVerdict DEF Listed, Status
  <2>2. Listed(file[t]) = Last(file[t].lines).status /\ ~Corrupted(file[t])
    BY <1>1, <2>1, StatusFacts DEF Listed
  <2>3. /\ Last(file[t].lines) = file[t].lines[Len(file[t].lines)]
        /\ Len(file[t].lines) \in 1 .. Len(file[t].lines)
    BY <1>1, <2>1, LastFacts
  <2>4. file[t].lines[Len(file[t].lines)] # Broken
    BY <1>1, <2>2, <2>3, CorruptedFacts
  <2> QED  BY <1>1, <1>3, <2>2, <2>3, <2>4 DEF LinesAt
<1> QED  BY <1>2, <1>3

LEMMA ListStatStep ==
    ASSUME HInv, NEW p \in Listers, NEW t \in Tasks, ListStat(p, t)
    PROVE  HInv'
<1> DEFINE c == lister[p]
           l == IF file[t].exists
                THEN [c EXCEPT !.step = [c.step EXCEPT ![t] = "read"]]
                ELSE [c EXCEPT !.step = [c.step EXCEPT ![t] = "none"], !.failed = TRUE]
<1>1. /\ TypeOK /\ c \in Listing /\ lister \in [Listers -> Listing] /\ FailInv
      /\ \A u \in Tasks : ListAt(c, u)
  BY InvFacts, TypeFacts DEF HInv
<1>2. /\ c.step[t] = "stat" /\ lister' = [lister EXCEPT ![p] = l]
      /\ UNCHANGED <<now, file, callVars, collector, faultVars, collected>>
  BY <1>1 DEF ListStat, Listing
<1> HIDE DEF c
<1>3. /\ l \in Listing /\ l.seen = c.seen
      /\ l.step[t] # "none" => file[t].exists
      /\ \A u \in Tasks \ {t} : l.step[u] = c.step[u]
      /\ l.failed => c.failed \/ ~file[t].exists
  BY <1>1 DEF Listing
<1> HIDE DEF l
<1>4. l.failed => collected # {}
  <2>1. c.failed => collected # {}
    BY <1>1 DEF c, FailInv
  <2> QED  BY <1>1, <1>2, <1>3, <2>1 DEF ListAt
<1>5. ASSUME NEW u \in Tasks
      PROVE  ListAt(l, u)
  BY <1>1, <1>3 DEF ListAt
<1> QED  BY <1>2, <1>3, <1>4, <1>5, ListStep

LEMMA ListReadStep ==
    ASSUME HInv, NEW p \in Listers, NEW t \in Tasks, ListRead(p, t)
    PROVE  HInv'
<1> DEFINE c == lister[p]
           shown == Listed(file[t])
           l == [c EXCEPT !.step = [c.step EXCEPT ![t] = "none"],
                          !.seen = [c.seen EXCEPT ![t] = shown]]
<1>1. /\ TypeOK /\ c \in Listing /\ lister \in [Listers -> Listing] /\ FailInv
      /\ \A u \in Tasks : ListAt(c, u)
  BY InvFacts, TypeFacts DEF HInv
<1>2. /\ lister' = [lister EXCEPT ![p] = l]
      /\ UNCHANGED <<now, file, callVars, collector, faultVars, collected>>
  BY <1>1 DEF ListRead, Listing
<1>3. /\ shown \in Statuses \cup {"none", "corrupted"}
      /\ shown \in Verdicts => shown = call[t].status
  BY ListedFacts
<1> HIDE DEF shown
<1>4. c.failed => collected # {}
  BY <1>1 DEF FailInv
<1> HIDE DEF c
<1>5. /\ l \in Listing /\ l.failed = c.failed /\ l.step[t] = "none" /\ l.seen[t] = shown
      /\ \A u \in Tasks \ {t} : l.step[u] = c.step[u] /\ l.seen[u] = c.seen[u]
  BY <1>1, <1>3 DEF Listing
<1> HIDE DEF l
<1>6. ASSUME NEW u \in Tasks
      PROVE  ListAt(l, u)
  BY <1>1, <1>3, <1>5 DEF ListAt
<1> QED  BY <1>2, <1>4, <1>5, <1>6, ListStep

-----------------------------------------------------------------------------
(* A process dies.                                                         *)

LEMMA IdleTypes == Resting \in Gc /\ Waiting \in Listing /\ Unwritten \in [Kinds -> Writer]
<1>1. MaxTime \in Nat
  BY HistoryAssumption
<1>2. Resting \in Gc
  BY DEF Resting, Gc
<1>3. Waiting \in Listing
  BY DEF Waiting, Listing
<1>4. Unwritten \in [Kinds -> Writer]
  BY <1>1 DEF Unwritten, Writer, Phases
<1> QED  BY <1>2, <1>3, <1>4

LEMMA IdleKeeps ==
    ASSUME NEW t \in Tasks
    PROVE  GcAt(Resting, t) /\ ListAt(Waiting, t) /\ ~Resting.failed /\ ~Waiting.failed
BY NoVerdict DEF GcAt, ListAt, Resting, Waiting

LEMMA CrashStep ==
    ASSUME HInv, NEW p \in Procs, Crash(p)
    PROVE  HInv'
<1> DEFINE mine == {t \in Tasks : /\ call[t].proc = p
                                  /\ call[t].pc \in {"starting", "requesting", "finishing"}}
<1>1. /\ TypeOK /\ FailInv /\ call \in [Tasks -> Run] /\ writer \in [Tasks -> [Kinds -> Writer]]
      /\ collector \in [Procs -> Gc] /\ lister \in [Listers -> Listing]
      /\ faults \in 0 .. MaxFaults /\ now \in 0 .. MaxTime /\ now \in Nat /\ MaxFaults \in Nat
      /\ faulted \subseteq Tasks
  BY HistoryAssumption, TypeFacts DEF HInv
<1>2. /\ mine \subseteq Tasks /\ \A t \in mine : call[t].pc # "unused"
      /\ now' = now /\ file' = file /\ collected' = collected
      /\ faults < MaxFaults /\ faults' = faults + 1 /\ faulted' = faulted \cup mine
      /\ call' = [t \in Tasks |-> IF t \in mine THEN [call[t] EXCEPT !.pc = "dead"]
                                  ELSE call[t]]
      /\ writer' = [t \in Tasks |-> IF t \in mine THEN Unwritten ELSE writer[t]]
      /\ collector' = [collector EXCEPT ![p] = Resting]
      /\ lister' = [q \in Listers |-> IF q = p THEN Waiting ELSE lister[q]]
  BY DEF Crash
<1> HIDE DEF mine
<1>3. ASSUME NEW t \in Tasks
      PROVE  /\ call'[t] \in Run /\ call'[t].status = call[t].status
             /\ call'[t].pc = IF t \in mine THEN "dead" ELSE call[t].pc
             /\ t \notin mine => call'[t] = call[t] /\ writer'[t] = writer[t]
  BY <1>1, <1>2 DEF Run
<1>4. ASSUME NEW t \in mine
      PROVE  /\ Started(t)' = NoWrite /\ Finished(t)' = NoWrite
             /\ \A k \in Kinds : writer'[t][k] = NoWrite
  <2>1. writer'[t] = Unwritten
    BY <1>2
  <2>2. \A k \in Kinds : Unwritten[k] = NoWrite
    BY DEF Unwritten, NoWrite
  <2> QED  BY <2>1, <2>2 DEF Started, Finished, Kinds
<1>5. TypeOK'
  <2>1. call' \in [Tasks -> Run]
    BY <1>2, <1>3
  <2>2. writer' \in [Tasks -> [Kinds -> Writer]]
    BY <1>1, <1>2, IdleTypes
  <2>3. collector' \in [Procs -> Gc] /\ lister' \in [Listers -> Listing]
    BY <1>1, <1>2, IdleTypes
  <2>4. faults' \in 0 .. MaxFaults /\ faulted' \subseteq Tasks
    BY <1>1, <1>2
  <2> QED  BY <1>1, <1>2, <2>1, <2>2, <2>3, <2>4, TypeFacts, TypeNext
<1>6. ASSUME NEW t \in Tasks
      PROVE  StageAt(t)' /\ LinesAt(t)' /\ WholeAt(t)'
  <2>1. CASE t \in mine
    <3>1. StageAt(t) /\ LinesAt(t) /\ file[t] \in File /\ Started(t).at \in Nat
          /\ file[t].mtime \in Nat
      BY <1>1, InvFacts, TaskFacts
    <3>2. call'[t].pc = "dead" /\ call'[t].status = call[t].status
      BY <1>3, <2>1
    <3>3. StageAt(t)'
      <4>1. /\ Started(t)' = NoWrite /\ Finished(t)' = NoWrite
            /\ \A k \in Kinds : writer'[t][k] = NoWrite
        BY <1>4, <2>1
      <4>2. NoWrite.phase = "none" /\ NoWrite.linked = FALSE /\ NoWrite.at = 0
        BY DEF NoWrite
      <4>3. now' \in Nat
        BY <1>1, <1>2
      <4> QED  BY <3>2, <4>1, <4>2, <4>3 DEF StageAt
    <3>4. LinesAt(t)'
      <4>1. \A i \in 1 .. Len(file[t].lines) : file[t].lines[i].at \in Nat
        BY <3>1 DEF File, Entry, Broken
      <4>2. /\ Started(t)' = NoWrite /\ \A k \in Kinds : writer'[t][k] = NoWrite
            /\ NoWrite.at = 0 /\ NoWrite.linked = FALSE
        BY <1>4, <2>1 DEF NoWrite
      <4>3. file'[t] = file[t] /\ now' = now
        BY <1>2
      <4> QED  BY <3>1, <3>2, <4>1, <4>2, <4>3 DEF LinesAt
    <3>5. WholeAt(t)'
      BY <1>2, <2>1 DEF WholeAt
    <3> QED  BY <3>3, <3>4, <3>5
  <2>2. CASE t \notin mine
    <3>1. /\ call'[t] = call[t] /\ writer'[t] = writer[t] /\ file'[t] = file[t]
          /\ now <= now' /\ now' \in Nat
      BY <1>1, <1>2, <1>3, <2>2
    <3> QED  BY <1>2, <3>1, Elsewhere
  <2> QED  BY <2>1, <2>2
<1>7. ASSUME NEW t \in Tasks, NEW q \in Procs
      PROVE  GcAt(collector[q], t)'
  <2>1. CASE q = p
    <3>1. collector'[q] = Resting
      BY <1>1, <1>2, <2>1
    <3> QED  BY <3>1 DEF GcAt, Resting
  <2>2. CASE q # p
    <3>1. /\ collector'[q] = collector[q] /\ file' = file
          /\ call[t].pc # "unused" => call'[t].pc # "unused"
          /\ call[t].pc = "dead" => call'[t].pc = "dead"
      BY <1>1, <1>2, <1>3, <2>2
    <3>2. /\ Started(t)'.at <= Started(t).at /\ Started(t)'.at \in Nat
          /\ Finished(t).phase = "done" => Finished(t)'.phase = "done" \/ call'[t].pc = "dead"
      <4>1. Started(t).at \in Nat
        BY <1>1, TaskFacts
      <4>2. CASE t \in mine
        BY <1>3, <1>4, <4>1, <4>2 DEF NoWrite
      <4>3. CASE t \notin mine
        <5>1. Started(t)' = Started(t) /\ Finished(t)' = Finished(t)
          BY <1>3, <4>3 DEF Started, Finished
        <5> QED  BY <4>1, <5>1
      <4> QED  BY <4>2, <4>3
    <3> QED  BY <1>2, <3>1, <3>2, GcKept
  <2> QED  BY <2>1, <2>2
<1>8. ASSUME NEW t \in Tasks, NEW q \in Listers
      PROVE  ListAt(lister[q], t)'
  <2>1. ListAt(lister[q], t) /\ lister'[q] = IF q = p THEN Waiting ELSE lister[q]
    BY <1>2, InvFacts
  <2>2. ListAt(lister'[q], t)
    BY <2>1, IdleKeeps
  <2> QED  BY <1>2, <1>3, <2>2 DEF ListAt
<1>9. FailInv'
  <2>1. ~Resting.failed /\ ~Waiting.failed
    BY DEF Resting, Waiting
  <2> QED  BY <1>1, <1>2, <2>1 DEF FailInv
<1> QED  BY <1>5, <1>6, <1>7, <1>8, <1>9 DEF HInv

-----------------------------------------------------------------------------
(* The theorems.                                                           *)

LEMMA HistoryInit ==
    ASSUME Init
    PROVE  HInv
<1>1. /\ now = 0 /\ faults = 0 /\ faulted = {} /\ collected = {}
      /\ \A t \in Tasks : /\ file[t] = Absent /\ writer[t] = Unwritten
                          /\ call[t].pc = "unused" /\ call[t].status = "unknown"
      /\ \A p \in Procs : collector[p] = Resting
      /\ \A p \in Listers : lister[p] = Waiting
  BY DEF Init
<1>2. TypeOK
  <2>1. MaxTime \in Nat /\ MaxFaults \in Nat
    BY HistoryAssumption
  <2>2. Absent \in File
    BY <2>1 DEF Absent, File
  <2>3. [pc |-> "unused", proc |-> CHOOSE p \in Procs : TRUE,
         status |-> "unknown", summary |-> "unknown"] \in Run
    <3>1. (CHOOSE p \in Procs : TRUE) \in Procs
      BY HistoryAssumption
    <3> QED  BY <3>1 DEF Run, Statuses
  <2>4. /\ file \in [Tasks -> File] /\ call \in [Tasks -> Run]
        /\ writer \in [Tasks -> [Kinds -> Writer]]
        /\ collector \in [Procs -> Gc] /\ lister \in [Listers -> Listing]
    BY <2>2, <2>3, IdleTypes DEF Init
  <2>5. /\ now \in 0 .. MaxTime /\ faults \in 0 .. MaxFaults
        /\ faulted \subseteq Tasks /\ collected \subseteq Tasks
    BY <1>1, <2>1
  <2> QED  BY <2>4, <2>5, TypeFacts
<1>3. \A t \in Tasks : Started(t) = NoWrite /\ Finished(t) = NoWrite
                       /\ \A k \in Kinds : writer[t][k] = NoWrite
  BY <1>1 DEF Started, Finished, Unwritten, NoWrite, Kinds
<1>4. ASSUME NEW t \in Tasks
      PROVE  StageAt(t) /\ LinesAt(t) /\ WholeAt(t)
  <2>1. StageAt(t)
    BY <1>1, <1>3 DEF StageAt, NoWrite
  <2>2. LinesAt(t)
    BY <1>1, <1>3 DEF LinesAt, Absent, NoWrite
  <2>3. Written(t) = <<>>
    BY <1>3 DEF Written, Begun, Extended, NoWrite
  <2>4. WholeAt(t)
    BY <1>1, <1>3, <2>3 DEF WholeAt, Absent, NoWrite, Underway
  <2> QED  BY <2>1, <2>2, <2>4
<1>5. ASSUME NEW t \in Tasks
      PROVE  /\ \A p \in Procs : GcAt(collector[p], t)
             /\ \A p \in Listers : ListAt(lister[p], t)
  BY <1>1, IdleKeeps
<1>6. FailInv
  BY <1>1 DEF FailInv, Resting, Waiting
<1> QED  BY <1>2, <1>4, <1>5, <1>6 DEF HInv

LEMMA HistoryNext ==
    ASSUME HInv, [Next]_vars
    PROVE  HInv'
<1>1. CASE Tick
  BY <1>1, TickStep
<1>2. ASSUME NEW t \in Tasks, NEW p \in Procs, RunTask(t, p)
      PROVE  HInv'
  BY <1>2, RunTaskStep
<1>3. ASSUME NEW t \in Tasks, Request(t)
      PROVE  HInv'
  BY <1>3, RequestStep
<1>4. ASSUME NEW t \in Tasks, NEW reply \in Replies, Settle(t, reply)
      PROVE  HInv'
  BY <1>4, SettleStep
<1>5. ASSUME NEW t \in Tasks, Return(t)
      PROVE  HInv'
  BY <1>5, ReturnStep
<1>6. ASSUME NEW t \in Tasks, NEW k \in Kinds,
             Open(t, k) \/ Write(t, k) \/ WritePart(t, k) \/ WriteRest(t, k) \/ WriteFails(t, k)
      PROVE  HInv'
  BY <1>6, OpenStep, WriteStep, WritePartStep, WriteRestStep, WriteFailsStep
<1>7. ASSUME NEW p \in Procs, Collect(p)
      PROVE  HInv'
  BY <1>7, CollectStep
<1>8. ASSUME NEW p \in Procs, NEW t \in Tasks,
             CollectRead(p, t) \/ CollectStat(p, t) \/ CollectRemove(p, t)
      PROVE  HInv'
  BY <1>8, CollectReadStep, CollectStatStep, CollectRemoveStep
<1>9. ASSUME NEW p \in Procs, Crash(p)
      PROVE  HInv'
  BY <1>9, CrashStep
<1>10. ASSUME NEW p \in Listers, List(p)
       PROVE  HInv'
  BY <1>10, ListingStep
<1>11. ASSUME NEW p \in Listers, NEW t \in Tasks, ListStat(p, t) \/ ListRead(p, t)
       PROVE  HInv'
  BY <1>11, ListStatStep, ListReadStep
<1>12. CASE UNCHANGED vars
  <2>1. /\ UNCHANGED <<now, file, collector, lister, faults, faulted, collected, call, writer>>
    BY <1>12 DEF vars, callVars, faultVars
  <2>2. TypeOK /\ FailInv /\ now \in Nat
    BY HistoryAssumption, TypeFacts DEF HInv
  <2>3. TypeOK' /\ FailInv'
    BY <2>1, <2>2, TypeFacts, TypeNext DEF FailInv
  <2>4. \A t \in Tasks : StageAt(t)' /\ LinesAt(t)' /\ WholeAt(t)'
    BY <2>1, <2>2, HistoriesRest
  <2>5. ASSUME NEW t \in Tasks
        PROVE  /\ \A p \in Procs : GcAt(collector[p], t)'
               /\ \A p \in Listers : ListAt(lister[p], t)'
    BY <2>1, InvFacts DEF GcAt, ListAt, Started, Finished
  <2> QED  BY <2>3, <2>4, <2>5 DEF HInv
<1> QED
  BY <1>1, <1>2, <1>3, <1>4, <1>5, <1>6, <1>7, <1>8, <1>9, <1>10, <1>11, <1>12 DEF Next

\* The invariant holds in every reachable state, for every set of tasks and
\* processes, every retention time and any number of faults.
THEOREM HistoryInvariance == Spec => []HInv
<1>1. Init => HInv
  BY HistoryInit
<1>2. HInv /\ [Next]_vars => HInv'
  BY HistoryNext
<1> QED  BY <1>1, <1>2, PTL DEF Spec

\* The state has its types.
THEOREM HistoryTypes == Spec => []TypeOK
<1>1. HInv => TypeOK
  BY DEF HInv
<1> QED  BY <1>1, HistoryInvariance, PTL

\* The verdict that browser_run_task returned without a fault is what the history says,
\* what the tool's own summary says and what every other process lists, unless a gc()
\* removed the history.
THEOREM VerdictsAreRecorded == Spec => []VerdictRecorded
<1>1. ASSUME HInv
      PROVE  VerdictRecorded
  <2>1. ASSUME NEW t \in Tasks, call[t].pc = "returned", t \notin faulted
        PROVE  /\ \/ Answer(file[t]) = "read" /\ Status(file[t]) = call[t].status
                  \/ Answer(file[t]) = "E_NOT_FOUND" /\ t \in collected
               /\ call[t].summary = call[t].status \/ t \in collected
    <3>1. StageAt(t) /\ WholeAt(t) /\ TypeOK /\ file[t] \in File
      BY <1>1, InvFacts, TaskFacts
    <3>2. Started(t).phase = "done" /\ Finished(t).phase = "done"
      BY <2>1, <3>1 DEF StageAt
    <3>3. \/ /\ Lookup(file[t]) = "read" /\ file[t].lines # <<>>
             /\ Status(file[t]) = call[t].status
          \/ ~file[t].exists /\ t \in collected
      BY <1>1, <2>1, <3>2, Recorded
    <3>4. ~file[t].exists => Lookup(file[t]) = "E_NOT_FOUND"
      BY <3>1, StatusFacts
    <3>5. call[t].summary = call[t].status \/ t \in collected
      BY <2>1, <3>1 DEF WholeAt
    <3> QED  BY <3>3, <3>4, <3>5 DEF Answer
  <2>2. ASSUME NEW t \in Tasks, NEW p \in Listers, lister[p].seen[t] \in Verdicts
        PROVE  lister[p].seen[t] = call[t].status
    BY <1>1, <2>2, InvFacts DEF ListAt
  <2> QED  BY <2>1, <2>2 DEF VerdictRecorded
<1> QED  BY <1>1, HistoryInvariance, PTL

LEMMA AtMostOne ==
    ASSUME NEW S, NEW e \in S, NEW s, s = <<>> \/ s = <<e>>
    PROVE  s \in Seq(S) /\ \A i \in 1 .. Len(s) : s[i] = e
<1>1. CASE s = <<>>
  BY <1>1
<1>2. CASE s = <<e>>
  <2>1. <<e>> \in Seq(S) /\ Len(<<e>>) = 1 /\ <<e>>[1] = e
    OBVIOUS
  <2>2. \A i \in 1 .. 1 : i = 1
    OBVIOUS
  <2> QED  BY <1>2, <2>1, <2>2
<1> QED  BY <1>1, <1>2

\* An append() leaves nothing behind that spoils the next one: where no fault hit, only
\* a line that is being written cannot be parsed.
THEOREM HistoriesAreWhole == Spec => []HistoryIsWhole
<1>1. ASSUME HInv
      PROVE  HistoryIsWhole
  <2>1. ASSUME NEW t \in Tasks, Corrupted(file[t]), t \notin faulted
        PROVE  \E k \in Kinds : writer[t][k].phase = "rest"
    <3>1. TypeOK /\ WholeAt(t) /\ file[t] \in File
      BY <1>1, InvFacts, TaskFacts
    <3>2. \E i \in 1 .. Len(Written(t)) : Written(t)[i] = Broken
      BY <2>1, <3>1, CorruptedFacts DEF WholeAt
    <3>3. /\ "task_started" \in Kinds /\ "task_finished" \in Kinds
          /\ writer[t]["task_started"] = Started(t) /\ writer[t]["task_finished"] = Finished(t)
      BY DEF Kinds, Started, Finished
    <3>4. Line(t, "task_started") # Broken /\ Line(t, "task_finished") # Broken
      BY <3>1, <3>3, LineFacts
    <3>5. ASSUME Started(t).phase # "rest", Finished(t).phase # "rest"
          PROVE  \A i \in 1 .. Len(Written(t)) : Written(t)[i] # Broken
      <4>1. \/ Begun(t) = <<>>
            \/ Begun(t) = <<Line(t, "task_started")>>
        BY <3>5 DEF Begun, Extended
      <4>2. Written(t) = Begun(t) \/ Written(t) = Append(Begun(t), Line(t, "task_finished"))
        BY <3>5 DEF Written, Extended
      <4>3. /\ Begun(t) \in Seq(Entry \cup {Broken})
            /\ \A i \in 1 .. Len(Begun(t)) : Begun(t)[i] # Broken
        <5>1. Line(t, "task_started") \in Entry \cup {Broken}
          BY <3>1, <3>3, LineFacts
        <5> QED  BY <3>4, <4>1, <5>1, AtMostOne
      <4>4. Line(t, "task_finished") \in Entry \cup {Broken}
        BY <3>1, <3>3, LineFacts
      <4> QED  BY <3>4, <4>2, <4>3, <4>4, AppendFacts
    <3> QED  BY <3>2, <3>3, <3>5
  <2> QED  BY <2>1 DEF HistoryIsWhole
<1> QED  BY <1>1, HistoryInvariance, PTL

\* Only a file that a gc() removed can make list() or another gc() fail.
THEOREM BadFilesAreIsolated == Spec => []BadFileIsolated
<1>1. HInv => BadFileIsolated
  BY DEF HInv, FailInv, BadFileIsolated
<1> QED  BY <1>1, HistoryInvariance, PTL

\* No gc() removes the history of a run that began, or whose recorded end lies, within
\* the retention time, whatever it looked like when it was read.
THEOREM GcSparesTheFresh == Spec => GcKeepsFresh
<1> DEFINE Kept == \A p \in Procs, t \in Tasks :
                      CollectRemove(p, t) /\ file[t].exists => ~Fresh(p, t)
<1>1. ASSUME HInv
      PROVE  Kept
  <2>1. ASSUME NEW p \in Procs, NEW t \in Tasks, CollectRemove(p, t)
        PROVE  ~Fresh(p, t)
    <3> DEFINE cutoff == collector[p].cutoff
               s == file[t].lines
    <3>1. /\ TypeOK /\ GcAt(collector[p], t) /\ collector[p].step[t] = "remove"
          /\ Started(t).at \in Nat /\ cutoff \in Int /\ s \in Seq(Entry \cup {Broken})
      BY <1>1, <2>1, InvFacts, TaskFacts, TypeFacts DEF CollectRemove, Gc
    <3>2. Started(t).at < cutoff
      BY <3>1 DEF GcAt
    <3>3. ASSUME t \in collector[p].ended, NEW line \in ToSet(s), line.kind = "task_finished",
                 line.at >= cutoff
          PROVE  FALSE
      <4>1. PICK i \in 1 .. Len(s) : s[i] = line
        BY <3>1 DEF ToSet
      <4>2. s[i].at < cutoff
        BY <3>1, <3>3, <4>1 DEF GcAt
      <4>3. s[i].at \in Int
        BY <3>1 DEF Entry, Broken
      <4> QED  BY <3>1, <3>3, <4>1, <4>2, <4>3
    <3> QED  BY <3>1, <3>2, <3>3 DEF Fresh, Started
  <2> QED  BY <2>1
<1>2. HInv => [Kept]_vars
  BY <1>1
<1> QED  BY <1>2, HistoryInvariance, PTL DEF GcKeepsFresh

-----------------------------------------------------------------------------
(* TaskHistory implements TaskLedger.                                      *)

\* A run that has not opened its file has none that a gc() could take; a line of its
\* start goes to a file that was not taken, and says that it runs.
LedgerAt(t) ==
    /\ call[t].pc = "unused" \/ Started(t).phase = "open" => t \notin collected /\ ~file[t].exists
    /\ Started(t).linked => t \notin collected
    /\ \A i \in 1 .. Len(file[t].lines) :
          file[t].lines[i].kind = "task_started" => file[t].lines[i].status = "running"
LedgerInv == \A t \in Tasks : LedgerAt(t)

LedgerStep == [Ledger!Next]_(Ledger!ledgerVars)

LEMMA ShownFacts ==
    ASSUME NEW f \in File
    PROVE  /\ ~f.exists => Shown(f) = "unknown"
           /\ f.exists /\ Corrupted(f) => Shown(f) = "corrupted"
           /\ f.exists /\ ~Corrupted(f) =>
                 Shown(f) = IF f.lines = <<>> THEN "unknown" ELSE Last(f.lines).status
<1>1. f.exists \in BOOLEAN /\ (Lookup(f) = "read" <=> f.exists /\ ~Corrupted(f))
  BY StatusFacts DEF File
<1> QED  BY <1>1 DEF Shown, Listed, Status

\* No reader can see a difference.
LEMMA LedgerSame ==
    ASSUME \A t \in Tasks : Shown(file[t])' = Shown(file[t]) /\ call'[t].status = call[t].status,
           collected' = collected
    PROVE  LedgerStep
BY DEF LedgerStep, Ledger!ledgerVars

\* The file of one task is shown otherwise.
LEMMA LedgerMoves ==
    ASSUME NEW t \in Tasks, collected' = collected,
           \A u \in Tasks \ {t} : Shown(file[u])' = Shown(file[u]),
           \A u \in Tasks : call'[u].status = call[u].status,
           Shown(file[t]) \notin Verdicts,
           \/ Shown(file[t])' = Shown(file[t])
           \/ Shown(file[t])' = "corrupted"
           \/ Shown(file[t])' = "running" /\ call[t].status = "unknown" /\ t \notin collected
           \/ Shown(file[t])' = call[t].status /\ call[t].status \in Verdicts
    PROVE  LedgerStep
<1> DEFINE shown == [u \in Tasks |-> Shown(file[u])]
           verdict == [u \in Tasks |-> call[u].status]
           new == Shown(file[t])'
<1>1. /\ shown' = [shown EXCEPT ![t] = new] /\ verdict' = verdict
      /\ shown[t] = Shown(file[t]) /\ verdict[t] = call[t].status
  OBVIOUS
<1>2. Ledger!Shows(t, new)
  BY <1>1 DEF Ledger!Shows
<1>3. CASE Shown(file[t])' = Shown(file[t])
  BY <1>3, LedgerSame
<1>4. CASE new = "corrupted"
  BY <1>2, <1>4 DEF LedgerStep, Ledger!Next, Ledger!Spoil
<1>5. CASE new = "running" /\ call[t].status = "unknown" /\ t \notin collected
  BY <1>1, <1>2, <1>5 DEF LedgerStep, Ledger!Next, Ledger!Record
<1>6. CASE new = call[t].status /\ call[t].status \in Verdicts
  BY <1>1, <1>2, <1>6 DEF LedgerStep, Ledger!Next, Ledger!Publish
<1> QED  BY <1>3, <1>4, <1>5, <1>6

\* A step that leaves the files alone.
LEMMA LedgerRest ==
    ASSUME HInv, LedgerInv, file' = file, collected' = collected,
           \A t \in Tasks :
              /\ call'[t].pc = "unused" => call[t].pc = "unused"
              /\ Started(t)'.phase = "open" => Started(t).phase = "open" \/ call[t].pc = "unused"
              /\ Started(t)'.linked => Started(t).linked
    PROVE  LedgerInv'
BY DEF LedgerInv, LedgerAt

\* The file of a task that a write is under way to shows no verdict.
LEMMA WritingShown ==
    ASSUME HInv, NEW t \in Tasks, LedgerAt(t), NEW k \in Kinds,
           writer[t][k].phase \in {"write", "rest"}
    PROVE  /\ Shown(file[t]) \notin Verdicts /\ call[t].pc # "unused"
           /\ k = "task_started" => call[t].status = "unknown"
           /\ k = "task_finished" => call[t].status \in Verdicts /\ Started(t).phase = "done"
<1>1. /\ TypeOK /\ StageAt(t) /\ LinesAt(t) /\ file[t] \in File
      /\ file[t].lines \in Seq(Entry \cup {Broken})
      /\ call[t].pc \in {"unused", "starting", "requesting", "finishing", "returned", "dead"}
  BY InvFacts, TaskFacts, RunFacts
<1>2. \/ k = "task_started" /\ Started(t) = writer[t][k]
      \/ k = "task_finished" /\ Finished(t) = writer[t][k]
  BY DEF Kinds, Started, Finished
<1>3. /\ call[t].pc \in {"starting", "finishing"}
      /\ k = "task_started" => call[t].pc = "starting"
      /\ k = "task_finished" => call[t].pc = "finishing"
  BY <1>1, <1>2 DEF StageAt, NoWrite
<1>4. Finished(t).phase # "done" /\ call[t].pc # "dead"
  BY <1>1, <1>2, <1>3 DEF StageAt, NoWrite
<1>5. ASSUME file[t].exists, ~Corrupted(file[t]), file[t].lines # <<>>
      PROVE  Last(file[t].lines).status = "running"
  <2> DEFINE s == file[t].lines
             n == Len(s)
  <2>1. n \in 1 .. Len(s) /\ Last(s) = s[n] /\ s[n] \in Entry \cup {Broken}
    BY <1>1, <1>5, LastFacts
  <2>2. s[n] # Broken
    BY <1>1, <1>5, <2>1, CorruptedFacts
  <2>3. s[n].kind = "task_started"
    BY <1>1, <1>4, <2>1, <2>2 DEF LinesAt, Entry, Kinds
  <2> QED  BY <2>1, <2>3 DEF LedgerAt
<1>6. Shown(file[t]) \in {"unknown", "corrupted", "running"}
  BY <1>1, <1>5, ShownFacts DEF File
<1> QED  BY <1>1, <1>2, <1>3, <1>6, NoVerdict DEF StageAt

\* What a line appended to the file makes of it.
LEMMA LineShown ==
    ASSUME HInv, NEW t \in Tasks, NEW k \in Kinds, NEW g \in File, g.exists,
           NEW front \in Seq(Entry \cup {Broken}), NEW x \in {Broken, Line(t, k)},
           g.lines = Append(front, x)
    PROVE  Shown(g) \in {"corrupted", Line(t, k).status}
<1>1. TypeOK
  BY InvFacts
<1>2. x \in Entry \cup {Broken}
  BY <1>1, LineFacts
<1>3. /\ g.lines \in Seq(Entry \cup {Broken}) /\ Len(g.lines) = Len(front) + 1
      /\ g.lines[Len(front) + 1] = x /\ g.lines # <<>> /\ Len(front) \in Nat
  BY <1>2, AppendFacts
<1>4. Last(g.lines) = x /\ Len(front) + 1 \in 1 .. Len(g.lines)
  BY <1>3, LastFacts
<1>5. x = Broken => Corrupted(g)
  BY <1>3, <1>4, CorruptedFacts
<1> QED  BY <1>3, <1>4, <1>5, ShownFacts

\* One write of an append(): the start is recorded, the verdict is published, or the
\* history is spoiled.
LEMMA LedgerWrite ==
    ASSUME HInv, LedgerInv, NEW t \in Tasks, NEW k \in Kinds,
           writer[t][k].phase \in {"write", "rest"},
           NEW front \in Seq(Entry \cup {Broken}),
           \A i \in 1 .. Len(front) : i \in 1 .. Len(file[t].lines) /\ front[i] = file[t].lines[i],
           NEW x \in {Broken, Line(t, k)},
           NEW g \in File, g.exists = file[t].exists, g.lines = Append(front, x),
           NEW w \in Writer, w.linked = writer[t][k].linked, w.phase # "open",
           writer' = [writer EXCEPT ![t][k] = w], To(t, k, g),
           call' = call, collected' = collected
    PROVE  LedgerInv' /\ LedgerStep
<1>1. /\ TypeOK /\ LedgerAt(t) /\ file \in [Tasks -> File] /\ writer \in [Tasks -> [Kinds -> Writer]]
      /\ writer[t][k].linked => file[t].exists
  BY InvFacts, TypeFacts, WriterType DEF LedgerInv
<1>2. /\ Shown(file[t]) \notin Verdicts /\ call[t].pc # "unused"
      /\ k = "task_started" => call[t].status = "unknown"
      /\ k = "task_finished" => call[t].status \in Verdicts /\ Started(t).phase = "done"
  BY <1>1, WritingShown
<1>3. /\ \A u \in Tasks \ {t} : writer'[u] = writer[u] /\ file'[u] = file[u]
      /\ file'[t] = IF writer[t][k].linked THEN g ELSE file[t]
      /\ writer'[t][k] = w /\ \A j \in Kinds \ {k} : writer'[t][j] = writer[t][j]
  BY <1>1 DEF To
<1>4. /\ k = "task_started" => Started(t) = writer[t][k] /\ Started(t)' = w
      /\ k = "task_finished" => Started(t)' = Started(t)
      /\ k \in {"task_started", "task_finished"}
  BY <1>3 DEF Started, Kinds
<1>5. Started(t)'.phase # "open" /\ (Started(t)'.linked => Started(t).linked)
  BY <1>2, <1>4
<1>6. \A i \in 1 .. Len(file'[t].lines) :
         file'[t].lines[i].kind = "task_started" => file'[t].lines[i].status = "running"
  <2>1. \A i \in 1 .. Len(front) : front[i].kind = "task_started" => front[i].status = "running"
    BY <1>1 DEF LedgerAt
  <2>2. x.kind = "task_started" => x.status = "running"
    BY <1>1, LineFacts DEF Broken, Kinds
  <2>3. x \in Entry \cup {Broken}
    BY <1>1, LineFacts
  <2>4. ASSUME NEW i \in 1 .. Len(g.lines)
        PROVE  g.lines[i] = x \/ (i \in 1 .. Len(front) /\ g.lines[i] = front[i])
    <3>1. /\ Len(g.lines) = Len(front) + 1 /\ g.lines[Len(front) + 1] = x
          /\ Len(front) \in Nat /\ \A j \in 1 .. Len(front) : g.lines[j] = front[j]
      BY <2>3, AppendFacts
    <3>2. i \in 1 .. Len(front) \/ i = Len(front) + 1
      BY <2>4, <3>1
    <3> QED  BY <3>1, <3>2
  <2> QED  BY <1>1, <1>3, <2>1, <2>2, <2>4 DEF LedgerAt
<1>7. LedgerInv'
  <2>1. LedgerAt(t)'
    BY <1>1, <1>2, <1>5, <1>6 DEF LedgerAt
  <2>2. \A u \in Tasks \ {t} : Started(u)' = Started(u) /\ LedgerAt(u)
    BY <1>3 DEF Started, LedgerInv
  <2>3. \A u \in Tasks \ {t} : LedgerAt(u)'
    BY <1>3, <2>2 DEF LedgerAt
  <2> QED  BY <2>1, <2>3 DEF LedgerInv
<1>8. LedgerStep
  <2>1. CASE ~writer[t][k].linked
    BY <1>3, <2>1, LedgerSame
  <2>2. CASE writer[t][k].linked
    <3>1. Shown(g) \in {"corrupted", Line(t, k).status}
      BY <1>1, <2>2, LineShown
    <3>2. k = "task_started" => t \notin collected /\ Line(t, k).status = "running"
      BY <1>1, <1>4, <2>2, LineFacts DEF LedgerAt
    <3>3. k = "task_finished" => Line(t, k).status = call[t].status
      BY <1>1, LineFacts
    <3>4. /\ Shown(file[t])' = Shown(g)
          /\ \A u \in Tasks \ {t} : Shown(file[u])' = Shown(file[u])
      BY <1>3, <2>2
    <3> QED  BY <1>2, <1>4, <3>1, <3>2, <3>3, <3>4, LedgerMoves
  <2> QED  BY <2>1, <2>2
<1> QED  BY <1>7, <1>8

LEMMA WriteLedger ==
    ASSUME HInv, LedgerInv, NEW t \in Tasks, NEW k \in Kinds,
           Write(t, k) \/ WritePart(t, k) \/ WriteRest(t, k)
    PROVE  LedgerInv' /\ LedgerStep
<1> DEFINE v == writer[t][k]
           f == file[t]
           line == Line(t, k)
<1>1. /\ v \in Writer /\ f \in File /\ TypeOK /\ now \in 0 .. MaxTime
      /\ f.lines \in Seq(Entry \cup {Broken}) /\ line \in Entry
  BY WriterType, TaskFacts, LineFacts
<1>2. /\ Front(f.lines) \in Seq(Entry \cup {Broken})
      /\ \A i \in 1 .. Len(Front(f.lines)) :
            i \in 1 .. Len(f.lines) /\ Front(f.lines)[i] = f.lines[i]
  BY <1>1, FrontFacts
<1>3. /\ v.phase \in {"write", "rest"} /\ call' = call /\ collected' = collected
      /\ \E front \in {f.lines, Front(f.lines)}, x \in {Broken, line}, open \in BOOLEAN :
            To(t, k, [f EXCEPT !.lines = Append(front, x), !.open = open, !.mtime = now])
      /\ \E phase \in {"rest", "done"} : writer' = [writer EXCEPT ![t][k].phase = phase]
  <2>1. CASE Write(t, k)
    <3>1. \E front \in {f.lines, Front(f.lines)}, x \in {Broken, line} :
             WithLine(f, line)
                = [f EXCEPT !.lines = Append(front, x), !.open = FALSE, !.mtime = now]
      BY <1>1 DEF WithLine, File
    <3> QED  BY <2>1, <3>1 DEF Write
  <2>2. CASE WritePart(t, k)
    BY <2>2 DEF WritePart, WithHalf
  <2>3. CASE WriteRest(t, k)
    BY <2>3 DEF WriteRest, WithRest
  <2> QED  BY <2>1, <2>2, <2>3
<1>4. PICK front \in {f.lines, Front(f.lines)}, x \in {Broken, line}, open \in BOOLEAN :
         To(t, k, [f EXCEPT !.lines = Append(front, x), !.open = open, !.mtime = now])
  BY <1>3
<1>5. PICK phase \in {"rest", "done"} : writer' = [writer EXCEPT ![t][k].phase = phase]
  BY <1>3
<1> DEFINE g == [f EXCEPT !.lines = Append(front, x), !.open = open, !.mtime = now]
           w == [v EXCEPT !.phase = phase]
<1>6. /\ front \in Seq(Entry \cup {Broken})
      /\ \A i \in 1 .. Len(front) : i \in 1 .. Len(f.lines) /\ front[i] = f.lines[i]
  BY <1>1, <1>2
<1>7. g \in File /\ g.exists = f.exists /\ g.lines = Append(front, x)
  <2>1. Append(front, x) \in Seq(Entry \cup {Broken})
    BY <1>1, <1>6, AppendFacts
  <2> HIDE DEF f
  <2> QED  BY <1>1, <2>1 DEF File
<1>8. w \in Writer /\ w.linked = v.linked /\ w.phase # "open"
  BY <1>1 DEF Writer, Phases
<1>9. writer' = [writer EXCEPT ![t][k] = w]
  BY <1>1, <1>5, TypeFacts
<1>10. /\ v.phase \in {"write", "rest"} /\ call' = call /\ collected' = collected
       /\ x \in {Broken, Line(t, k)} /\ To(t, k, g)
  BY <1>3, <1>4
<1> HIDE DEF g, w
<1> QED  BY <1>6, <1>7, <1>8, <1>9, <1>10, LedgerWrite

\* append() creates the file or finds it: an empty history is no history.
LEMMA OpenLedger ==
    ASSUME HInv, LedgerInv, NEW t \in Tasks, NEW k \in Kinds, Open(t, k)
    PROVE  LedgerInv' /\ LedgerStep
<1> DEFINE w == [writer[t][k] EXCEPT !.phase = "write", !.linked = TRUE]
<1>1. /\ TypeOK /\ LedgerAt(t) /\ StageAt(t) /\ LinesAt(t)
      /\ file \in [Tasks -> File] /\ writer \in [Tasks -> [Kinds -> Writer]]
      /\ writer[t][k].phase = "open" /\ call' = call /\ collected' = collected
      /\ now \in 0 .. MaxTime
  BY InvFacts, TypeFacts DEF LedgerInv, Open
<1>2. /\ writer' = [writer EXCEPT ![t][k] = w] /\ w.phase = "write"
      /\ file' = [file EXCEPT ![t] = IF file[t].exists THEN file[t] ELSE Empty]
  <2>1. writer' = [writer EXCEPT ![t][k] = w]
    BY <1>1 DEF Open
  <2>2. file' = [file EXCEPT ![t] = IF file[t].exists THEN file[t] ELSE Empty]
    BY <1>1 DEF Open
  <2>3. w.phase = "write"
    BY <1>1, TaskFacts DEF Writer
  <2> QED  BY <2>1, <2>2, <2>3
<1> HIDE DEF w
<1>3. /\ \A u \in Tasks \ {t} : writer'[u] = writer[u] /\ file'[u] = file[u]
      /\ file'[t] = IF file[t].exists THEN file[t] ELSE Empty
      /\ writer'[t][k] = w /\ \A j \in Kinds \ {k} : writer'[t][j] = writer[t][j]
  BY <1>1, <1>2
<1>4. /\ call[t].pc # "unused" /\ Started(t)'.phase # "open"
      /\ Started(t)'.linked => t \notin collected
  <2>1. CASE k = "task_started"
    BY <1>1, <1>2, <1>3, <2>1 DEF Started, StageAt, LedgerAt, NoWrite
  <2>2. CASE k = "task_finished"
    <3>1. Started(t)' = Started(t) /\ Finished(t).phase = "open"
      BY <1>1, <1>3, <2>2 DEF Started, Finished, Kinds
    <3>2. call[t].pc = "finishing" /\ Started(t).phase = "done"
      BY <1>1, <3>1, RunFacts DEF StageAt, NoWrite
    <3> QED  BY <1>1, <3>1, <3>2 DEF LedgerAt
  <2> QED  BY <2>1, <2>2 DEF Kinds
<1>5. LedgerInv'
  <2>1. \A i \in 1 .. Len(file'[t].lines) :
           file'[t].lines[i].kind = "task_started" => file'[t].lines[i].status = "running"
    BY <1>1, <1>3 DEF LedgerAt, Empty
  <2>2. LedgerAt(t)'
    BY <1>1, <1>4, <2>1 DEF LedgerAt
  <2>3. \A u \in Tasks \ {t} : Started(u)' = Started(u) /\ LedgerAt(u)
    BY <1>3 DEF Started, LedgerInv
  <2>4. \A u \in Tasks \ {t} : LedgerAt(u)'
    BY <1>1, <1>3, <2>3 DEF LedgerAt
  <2> QED  BY <2>2, <2>4 DEF LedgerInv
<1>6. LedgerStep
  <2>1. Empty \in File /\ Empty.exists /\ Empty.lines = <<>> /\ ~Corrupted(Empty)
    BY <1>1 DEF Empty, File, Corrupted, ToSet
  <2>2. Shown(Empty) = "unknown" /\ (~file[t].exists => Shown(file[t]) = "unknown")
    BY <1>1, <2>1, ShownFacts
  <2>3. \A u \in Tasks : Shown(file[u])' = Shown(file[u])
    BY <1>3, <2>2
  <2> QED  BY <1>1, <2>3, LedgerSame
<1> QED  BY <1>5, <1>6

\* Only a gc() takes a history away.
LEMMA RemoveLedger ==
    ASSUME HInv, LedgerInv, NEW p \in Procs, NEW t \in Tasks, CollectRemove(p, t)
    PROVE  LedgerInv' /\ LedgerStep
<1>1. /\ TypeOK /\ LedgerAt(t) /\ file \in [Tasks -> File] /\ file[t] \in File
      /\ writer \in [Tasks -> [Kinds -> Writer]] /\ call' = call
      /\ file' = [file EXCEPT ![t] = Absent]
      /\ writer' = [writer EXCEPT ![t] = [k \in Kinds |-> [@[k] EXCEPT !.linked = FALSE]]]
      /\ collected' = IF file[t].exists THEN collected \cup {t} ELSE collected
  BY InvFacts, TypeFacts DEF LedgerInv, CollectRemove, Unlink
<1>2. /\ file'[t] = Absent /\ \A u \in Tasks \ {t} : file'[u] = file[u] /\ writer'[u] = writer[u]
      /\ writer'[t]["task_started"] = [writer[t]["task_started"] EXCEPT !.linked = FALSE]
  BY <1>1 DEF Kinds
<1>3. Started(t)'.phase = Started(t).phase /\ ~Started(t)'.linked
  <2>1. Started(t) \in Writer
    BY <1>1, TaskFacts
  <2> QED  BY <1>2, <2>1 DEF Started, Writer
<1>4. LedgerInv'
  <2>1. LedgerAt(t)'
    BY <1>1, <1>2, <1>3 DEF LedgerAt, Absent
  <2>2. \A u \in Tasks \ {t} : Started(u)' = Started(u) /\ LedgerAt(u)
    BY <1>2 DEF Started, LedgerInv
  <2>3. \A u \in Tasks \ {t} : u \in collected' => u \in collected
    BY <1>1
  <2>4. \A u \in Tasks \ {t} : LedgerAt(u)'
    BY <1>1, <1>2, <2>2, <2>3 DEF LedgerAt
  <2> QED  BY <2>1, <2>4 DEF LedgerInv
<1>5. Shown(Absent) = "unknown"
  BY DEF Absent, Shown
<1>6. LedgerStep
  <2>1. CASE file[t].exists
    <3>1. Ledger!Take(t)
      BY <1>1, <1>2, <1>5, <2>1 DEF Ledger!Take
    <3> QED  BY <3>1 DEF LedgerStep, Ledger!Next
  <2>2. CASE ~file[t].exists
    BY <1>1, <1>2, <1>5, <2>2, ShownFacts, LedgerSame
  <2> QED  BY <2>1, <2>2
<1> QED  BY <1>4, <1>6

\* The verdict is reached once.
LEMMA SettleLedger ==
    ASSUME HInv, LedgerInv, NEW t \in Tasks, NEW reply \in Replies, Settle(t, reply)
    PROVE  LedgerInv' /\ LedgerStep
<1>1. /\ TypeOK /\ StageAt(t) /\ call \in [Tasks -> Run]
      /\ writer \in [Tasks -> [Kinds -> Writer]]
      /\ call[t].pc = "requesting" /\ call[t].status = "unknown"
      /\ call' = [call EXCEPT ![t].pc = "finishing", ![t].status = Verdict(reply)]
      /\ Appending(t, "task_finished") /\ file' = file /\ collected' = collected
  BY InvFacts, TypeFacts DEF Settle, StageAt
<1>2. Verdict(reply) \in Verdicts
  BY HistoryAssumption, VerdictType, Zenon
<1>3. /\ \A u \in Tasks \ {t} : call'[u] = call[u]
      /\ call'[t].pc = "finishing" /\ call'[t].status = Verdict(reply)
      /\ \A u \in Tasks : writer'[u]["task_started"] = writer[u]["task_started"]
  BY <1>1 DEF Run, Appending, Kinds
<1>4. LedgerInv'
  BY <1>1, <1>3, LedgerRest DEF Started
<1>5. Ledger!Decide(t, Verdict(reply))
  BY <1>1, <1>3 DEF Ledger!Decide
<1> QED  BY <1>2, <1>4, <1>5 DEF LedgerStep, Ledger!Next

\* The other steps neither touch a file nor reach a verdict.
LEMMA OtherLedger ==
    ASSUME HInv, LedgerInv, file' = file, collected' = collected,
           \/ \E t \in Tasks : \/ \E p \in Procs : RunTask(t, p)
                              \/ Request(t) \/ Return(t)
                              \/ \E k \in Kinds : WriteFails(t, k)
           \/ \E p \in Procs : Crash(p)
           \/ call' = call /\ writer' = writer
    PROVE  LedgerInv' /\ LedgerStep
<1>1. TypeOK /\ call \in [Tasks -> Run] /\ writer \in [Tasks -> [Kinds -> Writer]]
  BY TypeFacts DEF HInv
<1>2. \A t \in Tasks :
         /\ call'[t].status = call[t].status
         /\ call'[t].pc = "unused" => call[t].pc = "unused"
         /\ Started(t)'.phase = "open" => Started(t).phase = "open" \/ call[t].pc = "unused"
         /\ Started(t)'.linked => Started(t).linked
  <2>1. ASSUME NEW t \in Tasks, NEW p \in Procs, RunTask(t, p), NEW u \in Tasks
        PROVE  /\ call'[u].status = call[u].status
               /\ call'[u].pc = "unused" => call[u].pc = "unused"
               /\ Started(u)'.phase = "open" => Started(u).phase = "open" \/ call[u].pc = "unused"
               /\ Started(u)'.linked => Started(u).linked
    BY <1>1, <2>1 DEF RunTask, Appending, Started, Run, Writer, Kinds
  <2>2. ASSUME NEW t \in Tasks, Request(t) \/ Return(t), NEW u \in Tasks
        PROVE  /\ call'[u].status = call[u].status
               /\ call'[u].pc = "unused" => call[u].pc = "unused"
               /\ Started(u)' = Started(u)
    <3>1. writer' = writer
      BY <2>2 DEF Request, Return
    <3>2. CASE Request(t)
      BY <1>1, <3>1, <3>2 DEF Request, Started, Run
    <3>3. CASE Return(t)
      <4> DEFINE summary == Status(file[t])
      <4>1. call' = [call EXCEPT ![t].pc = "returned", ![t].summary = summary]
        BY <3>3 DEF Return
      <4> HIDE DEF summary
      <4> QED  BY <1>1, <3>1, <4>1 DEF Started, Run
    <3> QED  BY <2>2, <3>2, <3>3
  <2>3. ASSUME NEW t \in Tasks, NEW k \in Kinds, WriteFails(t, k), NEW u \in Tasks
        PROVE  /\ call' = call
               /\ Started(u)'.phase \in {Started(u).phase, "done"}
               /\ Started(u)'.linked = Started(u).linked
    BY <1>1, <2>3 DEF WriteFails, Started, Writer, Kinds
  <2>4. ASSUME NEW p \in Procs, Crash(p), NEW u \in Tasks
        PROVE  /\ call'[u].status = call[u].status
               /\ call'[u].pc = "unused" => call[u].pc = "unused"
               /\ Started(u)' \in {Started(u), NoWrite}
    BY <1>1, <2>4 DEF Crash, Started, Unwritten, NoWrite, Run, Kinds
  <2>5. CASE call' = call /\ writer' = writer
    BY <2>5 DEF Started
  <2> QED  BY <2>1, <2>2, <2>3, <2>4, <2>5 DEF NoWrite
<1>3. LedgerInv'
  BY <1>2, LedgerRest
<1>4. LedgerStep
  BY <1>2, LedgerSame
<1> QED  BY <1>3, <1>4

LEMMA LedgerNext ==
    ASSUME HInv, LedgerInv, [Next]_vars
    PROVE  LedgerInv' /\ LedgerStep
<1>1. ASSUME NEW t \in Tasks, NEW reply \in Replies, Settle(t, reply)
      PROVE  LedgerInv' /\ LedgerStep
  BY <1>1, SettleLedger
<1>2. ASSUME NEW t \in Tasks, NEW k \in Kinds,
             Open(t, k) \/ Write(t, k) \/ WritePart(t, k) \/ WriteRest(t, k)
      PROVE  LedgerInv' /\ LedgerStep
  BY <1>2, OpenLedger, WriteLedger
<1>3. ASSUME NEW p \in Procs, NEW t \in Tasks, CollectRemove(p, t)
      PROVE  LedgerInv' /\ LedgerStep
  BY <1>3, RemoveLedger
<1>4. ASSUME NEW t \in Tasks,
             \/ \E p \in Procs : RunTask(t, p)
             \/ Request(t) \/ Return(t) \/ \E k \in Kinds : WriteFails(t, k)
      PROVE  LedgerInv' /\ LedgerStep
  <2>1. file' = file /\ collected' = collected
    BY <1>4 DEF RunTask, Request, Return, WriteFails
  <2> QED  BY <1>4, <2>1, OtherLedger
<1>5. ASSUME NEW p \in Procs, Crash(p)
      PROVE  LedgerInv' /\ LedgerStep
  <2>1. file' = file /\ collected' = collected
    BY <1>5 DEF Crash
  <2> QED  BY <1>5, <2>1, OtherLedger
<1>6. ASSUME NEW p \in Procs,
             \/ Collect(p) \/ \E t \in Tasks : CollectRead(p, t) \/ CollectStat(p, t)
      PROVE  LedgerInv' /\ LedgerStep
  <2>1. UNCHANGED <<file, callVars, collected>>
    BY <1>6 DEF Collect, CollectRead, CollectStat
  <2> QED  BY <2>1, OtherLedger DEF callVars
<1>7. ASSUME NEW p \in Listers,
             \/ List(p) \/ \E t \in Tasks : ListStat(p, t) \/ ListRead(p, t)
      PROVE  LedgerInv' /\ LedgerStep
  <2>1. UNCHANGED <<file, callVars, collected>>
    BY <1>7 DEF List, ListStat, ListRead
  <2> QED  BY <2>1, OtherLedger DEF callVars
<1>8. CASE Tick \/ UNCHANGED vars
  <2>1. UNCHANGED <<file, callVars, collected>>
    BY <1>8 DEF Tick, vars
  <2> QED  BY <2>1, OtherLedger DEF callVars
<1> QED  BY <1>1, <1>2, <1>3, <1>4, <1>5, <1>6, <1>7, <1>8 DEF Next

\* What a reader in any process can see of the runs is what TaskLedger promises, with
\* failed writes, crashes and collectors in between: a run is shown as running only until
\* its verdict is reached, a verdict that was shown is never replaced, and a history that
\* was removed is never shown as running again.
THEOREM LedgerIsKept == Spec => LedgerKept
<1>1. Init => LedgerInv /\ Ledger!Init
  <2> SUFFICES ASSUME Init
               PROVE  LedgerInv /\ Ledger!Init
    OBVIOUS
  <2>1. /\ \A t \in Tasks : file[t] = Absent /\ call[t].status = "unknown" /\ writer[t] = Unwritten
        /\ collected = {}
    BY DEF Init
  <2>2. Shown(Absent) = "unknown"
    BY DEF Absent, Shown
  <2> QED  BY <2>1, <2>2 DEF LedgerInv, LedgerAt, Started, Unwritten, Absent, Kinds, Ledger!Init
<1>2. HInv /\ LedgerInv /\ [Next]_vars => LedgerInv' /\ LedgerStep
  BY LedgerNext
<1> QED  BY <1>1, <1>2, HistoryInvariance, PTL DEF Spec, LedgerKept, LedgerStep, Ledger!Spec
=============================================================================
