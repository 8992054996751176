---------------------------- MODULE BrowserCalls ----------------------------
(***************************************************************************)
(* The browser_* tool calls of one pi process, from execute() to the       *)
(* result, with a clock: the wait for the extension in ensureReady() and   *)
(* the memo that shortens it (src/src/broker/server.ts, remote.ts), the    *)
(* request and its timeouts, and the extension reload, which waits for the *)
(* next bridge session (src/src/tools/browser_js_navigation_tools.ts).     *)
(*                                                                         *)
(* The process owns the port (role "primary") or reaches the extension     *)
(* through the process that does ("proxy"), whose broker has a timeout of  *)
(* its own.  What a call awaits inside one process is one step; frames     *)
(* between the two processes take no time: the clock advances when nothing *)
(* is due.                                                                 *)
(***************************************************************************)
EXTENDS Naturals, FiniteSets

CONSTANTS
    Tools,         \* the process runs so many calls at once, each again and again
    Unset,
    FullWait,      \* DEFAULT_BRIDGE_WAIT_MS
    ColdWait,      \* COLD_BRIDGE_WAIT_MS
    FreshGrace,    \* FRESH_LISTENER_GRACE_MS
    MemoTtl,       \* COLD_MEMO_TTL_MS
    Backoff,       \* the longest pause of the extension between two attempts
    ToolTimeout,   \* timeoutMs of a tool
    RelayTimeout,  \* requestTimeoutMs of the broker that relays
    MaxClock,      \* bound: the clock
    MaxSessions,   \* bound: bridge sessions of one owner
    MaxFailovers,  \* bound: how often the owner of the port dies
    MaxQuits       \* bound: how often Chrome is closed

\* The proportions of the constants in the code (8 s, 1.5 s, 20 s, 30 s; 5 s).
ASSUME BudgetAssumption ==
    /\ {FullWait, ColdWait, FreshGrace, MemoTtl, Backoff, ToolTimeout,
        RelayTimeout} \subseteq Nat \ {0}
    /\ ColdWait < FullWait /\ Backoff < FullWait /\ FullWait < FreshGrace
    /\ {MaxClock, MaxSessions, MaxFailovers, MaxQuits} \subseteq Nat
    /\ Unset \notin Nat

VARIABLES
    clock,
    role,       \* of this process: "primary" or "proxy"
    chrome,     \* "closed", "cold" (open, may or may not dial) or "warm" (dialling)
    quits, failovers,
    owner,      \* the broker on the port: its bridge, sessions and clocks
    linked,     \* this process has a validated connection to it (a primary: none)
    view,       \* what a proxy has heard of it: remoteProbe
    memo,       \* coldBridgeMisses and coldBridgeSince
    tool        \* of a call: see ToolRecord

browserVars == <<chrome, quits, failovers>>
callsVars   == <<clock, role, browserVars, owner, linked, view, memo, tool>>

-----------------------------------------------------------------------------
ToolKinds == {"request", "reload", "activate"}
\* What the text of the result says: "never" and "lost" are the two diagnoses of
\* an absent bridge, "disconnected" is a bare E_BRIDGE_DISCONNECTED.
Outcomes  == {"ok", "cancelled", "never", "lost", "disconnected", "timeout",
              "failed", "protocol"}
ASSUME UnsetAssumption == Unset \notin Outcomes
MissThreshold == 2     \* COLD_MEMO_MISS_THRESHOLD
Moments   == 0..MaxClock
Deadlines == 0..(MaxClock + FullWait + ToolTimeout + RelayTimeout)

\* Of a call: where it is, its timers, the session its request went out on and
\* the one the reload tool found before (on, before), and what it lived through.
ToolRecord ==
    [phase : {"idle", "entered", "waiting", "sent", "reloading", "done"},
     kind : ToolKinds, aborted : BOOLEAN, result : Outcomes \cup {Unset},
     start : Moments, until : Deadlines, relay : Deadlines \cup {Unset},
     budget : {0, ColdWait, FullWait}, proxied : BOOLEAN, valid : BOOLEAN,
     before : 0..MaxSessions, on : 0..MaxSessions, waited : Moments,
     warm : BOOLEAN, lossSeen : BOOLEAN, moved : BOOLEAN, renewed : BOOLEAN,
     blind : BOOLEAN]

NotCalled ==
    [phase |-> "idle", kind |-> "request", aborted |-> FALSE, result |-> Unset,
     start |-> 0, until |-> 0, relay |-> Unset, budget |-> 0, proxied |-> FALSE,
     valid |-> TRUE, before |-> 0, on |-> 0, waited |-> 0,
     warm |-> FALSE, lossSeen |-> FALSE, moved |-> FALSE, renewed |-> FALSE,
     blind |-> FALSE]

NoBridge == [up |-> FALSE, session |-> 0, ever |-> FALSE]
NewOwner == [up |-> FALSE, session |-> 0, ever |-> FALSE, since |-> clock, lost |-> clock]
NoMisses == [misses |-> 0, since |-> Unset]

Snapshot == [up |-> owner.up, session |-> owner.session, ever |-> owner.ever]
Probe    == IF role = "primary" THEN Snapshot ELSE view    \* probeConnectivity()
Active(c) == tool[c].phase \notin {"idle", "done"}

CallsTypeOK ==
    /\ clock \in Moments
    /\ role \in {"primary", "proxy"}
    /\ chrome \in {"closed", "cold", "warm"}
    /\ quits \in 0..MaxQuits /\ failovers \in 0..MaxFailovers
    /\ owner \in [up : BOOLEAN, session : 0..MaxSessions, ever : BOOLEAN,
                  since : Moments, lost : Moments]
    /\ linked \in BOOLEAN
    /\ view \in [up : BOOLEAN, session : 0..MaxSessions, ever : BOOLEAN]
    /\ memo \in [misses : 0..MissThreshold, since : Moments \cup {Unset}]
    /\ tool \in [Tools -> ToolRecord]
    /\ owner.up => owner.ever /\ chrome = "warm"

CallsInit ==
    /\ clock = 0
    /\ role \in {"primary", "proxy"}
    /\ chrome \in {"closed", "cold"} /\ quits = 0 /\ failovers = 0
    /\ owner = NewOwner
    /\ linked = (role = "proxy")
    /\ view = NoBridge
    /\ memo = NoMisses
    /\ tool = [c \in Tools |-> NotCalled]

-----------------------------------------------------------------------------
(* Parts of a call.  r is its record.                                      *)

\* A call ends; its record keeps what the properties judge the outcome by.
Ends(r, result) ==
    LET done == [NotCalled EXCEPT !.phase = "done", !.result = result]
        waited == IF r.phase = "sent" THEN clock + ToolTimeout - r.until ELSE 0
    IN
    CASE result \in {"never", "lost"} ->
            [done EXCEPT !.proxied = r.proxied, !.budget = r.budget, !.warm = r.warm,
                         !.lossSeen = r.lossSeen, !.blind = r.blind]
      [] result = "disconnected" ->
            [done EXCEPT !.proxied = r.proxied, !.lossSeen = r.lossSeen, !.waited = waited]
      [] result \in {"ok", "protocol"} /\ r.kind = "reload" ->
            [done EXCEPT !.kind = r.kind, !.before = r.before, !.on = r.on,
                         !.moved = r.moved, !.renewed = r.renewed]
      [] OTHER -> done

\* A bridge_state notification of a hello is on its way to this proxy.
News == linked /\ view.session < owner.session

\* Mutant: a bridge_state notification leaves the memo.
ToldNothing == memo

\* The memo after the notifications under way: one that reports a bridge clears it.
Told == IF News THEN NoMisses ELSE memo

\* resolveBridgeWaitMs() and defaultRemoteBridgeWaitMs().
Budget ==
    IF Told.since # Unset /\ clock - Told.since < MemoTtl THEN ColdWait
    ELSE IF owner.ever \/ (role = "primary" /\ clock - owner.since < FreshGrace)
    THEN FullWait ELSE ColdWait

\* What a proxy cannot know better when it waits the short budget: its owner has no
\* session to remember, or the memo was written under the owner before, or it was
\* written after the last loss of the bridge.
Uninformed ==
    \/ ~owner.ever
    \/ /\ Told.since # Unset
       /\ Told.since <= owner.since \/ owner.lost <= Told.since

\* recordBridgeWaitOutcome().
Remember(connected, budget) ==
    LET misses == IF memo.misses < MissThreshold THEN memo.misses + 1 ELSE MissThreshold
    IN  IF connected THEN NoMisses
        ELSE IF budget < FullWait THEN memo
        ELSE [misses |-> misses,
              since |-> IF misses = MissThreshold THEN clock ELSE memo.since]

\* classifyBridgeFailure() of a probe without a bridge.
Diagnosis(p) == IF p.ever THEN "lost" ELSE "never"

\* validateSuccessPayload(): a payload may lack what the text depends on.
Verdict(good) == IF good THEN "ok" ELSE "protocol"

\* The tool after ensureReady(): the signal, the probe p, then request(), which a
\* proxy sends on to the owner, where it may find no bridge any more.
Proceeds(r, p, there) ==
    IF r.aborted THEN Ends(r, "cancelled")
    ELSE IF ~p.up THEN Ends(r, Diagnosis(p))
    ELSE IF r.kind = "activate" THEN Ends(r, "ok")
    ELSE IF ~there.up THEN Ends(r, "disconnected")
    ELSE [r EXCEPT !.phase = "sent", !.on = there.session,
                   !.until = clock + ToolTimeout,
                   !.relay = IF role = "proxy" THEN clock + RelayTimeout ELSE Unset]

\* rejectPendingRequests() of the owner, or of the proxy whose owner is gone.
RejectedTool(r) ==
    IF r.phase \in {"idle", "done"} THEN r
    ELSE [(IF r.phase = "sent" THEN Ends(r, "disconnected") ELSE r)
             EXCEPT !.lossSeen = TRUE]

\* Chrome, or its extension, is no longer there to dial during the whole call.
Unwarmed(r) == IF r.phase \in {"idle", "done"} THEN r ELSE [r EXCEPT !.warm = FALSE]

-----------------------------------------------------------------------------
(* The tools.                                                              *)

\* execute(): the reload tool probes before anything else.  All but
\* activate_browser_agent_tools look at the signal at once.
Execute(c) ==
    /\ ~Active(c)
    /\ \E kind \in ToolKinds, aborted \in BOOLEAN :
          LET r == [NotCalled EXCEPT !.kind = kind, !.phase = "entered", !.start = clock,
                        !.before = IF kind = "reload" THEN Probe.session ELSE 0,
                        !.warm = chrome = "warm"]
          IN  tool' = [tool EXCEPT ![c] =
                          IF aborted /\ kind # "activate" THEN Ends(r, "cancelled")
                          ELSE [r EXCEPT !.aborted = aborted]]
    /\ UNCHANGED <<clock, role, browserVars, owner, linked, view, memo>>

\* ensureReady() up to its wait.  A proxy asks the owner first; the notifications
\* of the owner come before its answer.
AwaitExtension(c) ==
    LET r == [tool[c] EXCEPT !.proxied = role = "proxy", !.budget = Budget] IN
    /\ tool[c].phase = "entered"
    /\ linked' = (role = "proxy")
    /\ view' = IF role = "proxy" THEN Snapshot ELSE view
    /\ memo' = IF owner.up THEN NoMisses ELSE Told
    /\ tool' = [tool EXCEPT ![c] =
                   IF owner.up \/ r.aborted THEN Proceeds(r, Snapshot, owner)
                   ELSE [r EXCEPT !.phase = "waiting", !.until = clock + Budget,
                                  !.blind = Uninformed]]
    /\ UNCHANGED <<clock, role, browserVars, owner>>

\* waitForRemoteBridge(): the probe of the next round finds the bridge.
RoundFinds(c) ==
    /\ role = "proxy" /\ tool[c].phase = "waiting" /\ owner.up
    /\ linked' = TRUE /\ view' = Snapshot
    /\ memo' = NoMisses
    /\ tool' = [tool EXCEPT ![c] = Proceeds(@, Snapshot, owner)]
    /\ UNCHANGED <<clock, role, browserVars, owner>>

\* The budget is spent.  A wait begun as a proxy counts for the proxy's memo.
BudgetSpent(c) ==
    /\ tool[c].phase = "waiting" /\ clock >= tool[c].until
    /\ memo' = IF tool[c].proxied = (role = "proxy")
               THEN Remember(Probe.up, tool[c].budget) ELSE memo
    /\ tool' = [tool EXCEPT ![c] = Proceeds(@, Probe, owner)]
    /\ UNCHANGED <<clock, role, browserVars, owner, linked, view>>

\* The extension answers, with a payload the tool may refuse.  The reload tool
\* looks at it when the extension is back.
ExtensionAnswers(c) ==
    /\ tool[c].phase = "sent"
    /\ \E answer \in {"good", "bad", "error"} :
          tool' = [tool EXCEPT ![c] =
              IF answer = "error" THEN Ends(@, "failed")
              ELSE IF @.kind = "reload"
              THEN [@ EXCEPT !.phase = "reloading", !.valid = answer = "good",
                             !.until = clock + ToolTimeout, !.relay = Unset]
              ELSE Ends(@, Verdict(answer = "good"))]
    /\ UNCHANGED <<clock, role, browserVars, owner, linked, view, memo>>

\* Mutant: every failure of a request is reported like the loss of the bridge.
RequestExpiresUnnamed(c) ==
    /\ tool[c].phase = "sent" /\ clock >= tool[c].until
    /\ tool' = [tool EXCEPT ![c] = Ends(@, "disconnected")]
    /\ UNCHANGED <<clock, role, browserVars, owner, linked, view, memo>>

RequestExpires(c) ==
    /\ tool[c].phase = "sent" /\ clock >= tool[c].until
    /\ tool' = [tool EXCEPT ![c] = Ends(@, "timeout")]
    /\ UNCHANGED <<clock, role, browserVars, owner, linked, view, memo>>

\* The owner relays with its own timeout, whatever the tool asked for, and
\* reports what went wrong as E_BRIDGE_DISCONNECTED.
RelayExpires(c) ==
    /\ tool[c].phase = "sent" /\ tool[c].relay # Unset /\ clock >= tool[c].relay
    /\ tool' = [tool EXCEPT ![c] = Ends(@, "disconnected")]
    /\ UNCHANGED <<clock, role, browserVars, owner, linked, view, memo>>

\* Mutant: a bridge that is up is enough.
ReconnectedAtOnce(c) == Probe.up /\ Probe.session >= tool[c].before

\* waitForBridgeSessionChange() finds a bridge of a later session.
Reconnected(c) == Probe.up /\ Probe.session > tool[c].before

ReloadSeen(c) ==
    /\ tool[c].phase = "reloading" /\ Reconnected(c)
    /\ tool' = [tool EXCEPT ![c] = Ends(@, Verdict(@.valid))]
    /\ UNCHANGED <<clock, role, browserVars, owner, linked, view, memo>>

ReloadExpires(c) ==
    /\ tool[c].phase = "reloading" /\ clock >= tool[c].until
    /\ tool' = [tool EXCEPT ![c] = Ends(@, "timeout")]
    /\ UNCHANGED <<clock, role, browserVars, owner, linked, view, memo>>

\* Escape.  A call that is not waiting yet notices it before it would wait.
Escape(c) ==
    /\ Active(c) /\ ~tool[c].aborted
    /\ tool' = [tool EXCEPT ![c] =
                   IF @.phase = "entered" THEN [@ EXCEPT !.aborted = TRUE]
                   ELSE Ends(@, "cancelled")]
    /\ UNCHANGED <<clock, role, browserVars, owner, linked, view, memo>>

-----------------------------------------------------------------------------
(* The extension and the owner of the port.                                *)

\* What a hello does to a call: waiters of the owner itself go on over the new
\* bridge; requests on a bridge it replaces are rejected.
Greeted(r, there) ==
    IF r.phase = "waiting" /\ role = "primary" THEN Proceeds(r, there, there)
    ELSE IF r.phase = "reloading" THEN [r EXCEPT !.renewed = TRUE]
    ELSE IF owner.up THEN RejectedTool(r)
    ELSE r

Connected == [owner EXCEPT !.up = TRUE, !.session = @ + 1, !.ever = TRUE]

\* The owner's own memo is cleared by a hello, a proxy's by the news of it.
Forgiven == IF role = "primary" THEN NoMisses ELSE memo

\* The extension connects and says hello, on a second connection even while the
\* first is open.
Greet ==
    /\ chrome # "closed" /\ owner.session < MaxSessions
    /\ chrome' = "warm"
    /\ owner' = Connected
    /\ memo' = Forgiven
    /\ tool' = [c \in Tools |-> Greeted(tool[c], owner')]
    /\ UNCHANGED <<clock, role, quits, failovers, linked, view>>

\* The bridge breaks.  The extension dials again within Backoff, unless its
\* service worker went to sleep.
BridgeDrops ==
    /\ owner.up
    /\ owner' = [owner EXCEPT !.up = FALSE, !.lost = clock]
    /\ \/ owner.session < MaxSessions /\ chrome' = "warm"
          /\ tool' = [c \in Tools |-> RejectedTool(tool[c])]
       \/ chrome' = "cold"
          /\ tool' = [c \in Tools |-> Unwarmed(RejectedTool(tool[c]))]
    /\ UNCHANGED <<clock, role, quits, failovers, linked, view, memo>>

ChromeOpens ==
    /\ chrome = "closed"
    /\ chrome' = "cold"
    /\ UNCHANGED <<clock, role, quits, failovers, owner, linked, view, memo, tool>>

ChromeQuits ==
    /\ chrome # "closed" /\ ~owner.up /\ quits < MaxQuits
    /\ chrome' = "closed" /\ quits' = quits + 1
    /\ tool' = [c \in Tools |-> Unwarmed(tool[c])]
    /\ UNCHANGED <<clock, role, failovers, owner, linked, view, memo>>

\* The bridge_state notifications reach a proxy.
Notified ==
    /\ linked /\ view # Snapshot
    /\ view' = Snapshot
    /\ memo' = Told
    /\ UNCHANGED <<clock, role, browserVars, owner, linked, tool>>

\* A proxy that lost its owner has found the next one and probed it.  Its memo
\* stays, even if the probe reports a bridge.
Relinks ==
    /\ role = "proxy" /\ ~linked
    /\ linked' = TRUE /\ view' = Snapshot
    /\ UNCHANGED <<clock, role, browserVars, owner, memo, tool>>

\* Mutant: a wait begun as a proxy starts again after the promotion.
OrphanedAnew(r) ==
    [RejectedTool(r) EXCEPT !.moved = @ \/ r.phase \notin {"idle", "done"},
                            !.until = IF r.phase = "waiting" THEN clock + FullWait ELSE @]

\* A wait goes on against the same deadline, whoever has the port next.
Orphaned(r) == [RejectedTool(r) EXCEPT !.moved = @ \/ r.phase \notin {"idle", "done"}]

\* The owner dies; this process or another one binds the port.  The extension,
\* if it was dialling, finds the new owner within Backoff.  A proxy keeps what it
\* heard last, but without a connection it claims no bridge.
OwnerDies ==
    /\ role = "proxy" /\ failovers < MaxFailovers
    /\ failovers' = failovers + 1
    /\ owner' = NewOwner /\ linked' = FALSE
    /\ \/ role' = "proxy" /\ view' = [view EXCEPT !.up = FALSE] /\ memo' = memo
       \/ role' = "primary" /\ view' = NoBridge /\ memo' = NoMisses
    /\ tool' = [c \in Tools |-> Orphaned(tool[c])]
    /\ UNCHANGED <<clock, chrome, quits>>

\* Time passes when no function has a step to do and no timer is due.  A waiting
\* call tries to connect in every round; otherwise the next attempt may be seconds
\* away.
Elapse ==
    /\ clock < MaxClock
    /\ \A c \in Tools :
          /\ tool[c].phase # "entered"
          /\ tool[c].phase \in {"waiting", "sent", "reloading"} => clock < tool[c].until
          /\ tool[c].phase = "sent" /\ tool[c].relay # Unset => clock < tool[c].relay
          /\ tool[c].phase = "waiting" => ~owner.up /\ linked = (role = "proxy")
          /\ tool[c].phase = "reloading" => ~Reconnected(c)
    /\ linked => view = Snapshot
    /\ chrome = "warm" /\ ~owner.up => clock - owner.lost < Backoff
    /\ clock' = clock + 1
    /\ UNCHANGED <<role, browserVars, owner, linked, view, memo, tool>>

-----------------------------------------------------------------------------
ToolStep(c) ==
    \/ Execute(c) \/ AwaitExtension(c) \/ RoundFinds(c) \/ BudgetSpent(c)
    \/ ExtensionAnswers(c) \/ RequestExpires(c) \/ RelayExpires(c)
    \/ ReloadSeen(c) \/ ReloadExpires(c) \/ Escape(c)

CallsNext ==
    \/ \E c \in Tools : ToolStep(c)
    \/ Greet \/ BridgeDrops \/ ChromeOpens \/ ChromeQuits
    \/ Notified \/ Relinks \/ OwnerDies \/ Elapse

CallsSpec == CallsInit /\ [][CallsNext]_callsVars

-----------------------------------------------------------------------------
(* Safety.                                                                 *)

\* A reload that reports success saw the extension come back after it had
\* answered: the session it was reloaded in does not pass for the next one
\* (waitForBridgeSessionChange).  Where the request left on a later session than
\* the probe taken before ensureReady(), or the owner changed, nothing is said.
ReloadIsReal ==
    \A c \in Tools :
        /\ tool[c].kind = "reload" /\ tool[c].result \in {"ok", "protocol"}
        /\ tool[c].on = tool[c].before /\ ~tool[c].moved
        => tool[c].renewed

\* The comment at server.ts:47: the full budget covers every warm reconnect and
\* every handoff.  A call is told that the extension is absent, although Chrome
\* was dialling all along, only as a proxy that waited the short budget because
\* its owner has had no session yet, or because of a memo which no notification of
\* this owner contradicts: any session it announced since cleared the memo.
WarmReconnect ==
    \A c \in Tools :
        /\ tool[c].result \in {"never", "lost"}
        /\ tool[c].warm /\ ~tool[c].lossSeen
        => tool[c].proxied /\ tool[c].budget < FullWait /\ tool[c].blind

\* No call takes longer than one full wait and its own timeouts, whatever
\* reconnects and failovers fall into it: no stage starts again (remote.ts:167).
BoundedCall ==
    \A c \in Tools : Active(c) =>
        clock - tool[c].start <=
            FullWait + ToolTimeout + (IF tool[c].kind = "reload" THEN ToolTimeout ELSE 0)

\* A call that ends with E_BRIDGE_DISCONNECTED lived through the loss of a
\* bridge, or was relayed and waited longer than the relaying broker allows:
\* its own timeout is never mistaken for a loss.
DisconnectExplained ==
    \A c \in Tools : tool[c].result = "disconnected" =>
        \/ tool[c].lossSeen
        \/ tool[c].proxied /\ tool[c].waited >= RelayTimeout
=============================================================================
