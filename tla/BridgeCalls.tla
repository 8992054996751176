---------------------------- MODULE BridgeCalls ----------------------------
(***************************************************************************)
(* What request() promises its callers (src/src/broker/server.ts): a call  *)
(* is outstanding on the one browser session there is, only that session   *)
(* answers it, and it fails at once when the session is lost or replaced.  *)
(***************************************************************************)
CONSTANTS Sessions, Calls, None

VARIABLES
    session,   \* the browser session, or None
    outcome    \* "none", "outstanding", "answered" or "failed" for each call

promiseVars == <<session, outcome>>

Init ==
    /\ session = None
    /\ outcome = [c \in Calls |-> "none"]

AllFail ==
    [c \in Calls |-> IF outcome[c] = "outstanding" THEN "failed" ELSE outcome[c]]

Replace(s) ==
    /\ session # s
    /\ session' = s
    /\ outcome' = AllFail

Open(c) ==
    /\ session # None
    /\ outcome[c] = "none"
    /\ outcome' = [outcome EXCEPT ![c] = "outstanding"]
    /\ UNCHANGED session

Answer(c) ==
    /\ session # None
    /\ outcome[c] = "outstanding"
    /\ outcome' = [outcome EXCEPT ![c] = "answered"]
    /\ UNCHANGED session

\* Refused before it was sent, timed out, or cancelled.
Fail(c) ==
    /\ outcome[c] \in {"none", "outstanding"}
    /\ outcome' = [outcome EXCEPT ![c] = "failed"]
    /\ UNCHANGED session

Next ==
    \/ \E s \in Sessions \cup {None} : Replace(s)
    \/ \E c \in Calls : Open(c) \/ Answer(c) \/ Fail(c)

Spec == Init /\ [][Next]_promiseVars
=============================================================================
