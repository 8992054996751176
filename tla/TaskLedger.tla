----------------------------- MODULE TaskLedger -----------------------------
(***************************************************************************)
(* What the history of browser tasks promises whoever reads it, whatever   *)
(* process he is in (src/src/broker/task-store.ts): a run is shown as      *)
(* running before its verdict is reached and not after, its verdict only   *)
(* once it is reached, and nothing replaces a verdict that was shown.  It  *)
(* can be taken away, and then no run is shown as running again.           *)
(***************************************************************************)
CONSTANTS Tasks, Verdicts

VARIABLES
    shown,     \* of a task: "unknown", "running", "corrupted" or a verdict
    verdict,   \* of a task: the verdict of its run, or "unknown"
    taken      \* tasks whose history was removed

ledgerVars == <<shown, verdict, taken>>

Init ==
    /\ shown = [t \in Tasks |-> "unknown"]
    /\ verdict = [t \in Tasks |-> "unknown"]
    /\ taken = {}

Shows(t, what) ==
    /\ shown[t] \notin Verdicts
    /\ shown' = [shown EXCEPT ![t] = what]
    /\ UNCHANGED <<verdict, taken>>

Record(t) ==
    /\ verdict[t] = "unknown" /\ t \notin taken
    /\ Shows(t, "running")

Decide(t, v) ==
    /\ verdict[t] = "unknown"
    /\ verdict' = [verdict EXCEPT ![t] = v]
    /\ UNCHANGED <<shown, taken>>

Publish(t) ==
    /\ verdict[t] \in Verdicts
    /\ Shows(t, verdict[t])

\* A line is written in part, or was for ever.
Spoil(t) == Shows(t, "corrupted")

Take(t) ==
    /\ shown' = [shown EXCEPT ![t] = "unknown"]
    /\ taken' = taken \cup {t}
    /\ UNCHANGED verdict

Next ==
    \E t \in Tasks :
        \/ Record(t) \/ Publish(t) \/ Spoil(t) \/ Take(t)
        \/ \E v \in Verdicts : Decide(t, v)

Spec == Init /\ [][Next]_ledgerVars
=============================================================================
