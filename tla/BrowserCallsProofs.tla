------------------------- MODULE BrowserCallsProofs -------------------------
(***************************************************************************)
(* Theorems about BrowserCalls, for every value of its constants.          *)
(***************************************************************************)
EXTENDS BrowserCalls, TLAPS

-----------------------------------------------------------------------------
(* The inductive invariant.  r is the record of a call; now, own, seen, as and *)
(* ch are the values of clock, owner, view, role and chrome it is judged by.   *)

\* What the record of a call that is over says of its outcome.
Judged(r) ==
    /\ r.result # Unset => r.phase = "done"
    /\ r.result = "disconnected" => r.lossSeen \/ (r.proxied /\ r.waited >= RelayTimeout)
    /\ r.result \in {"never", "lost"} /\ r.warm /\ ~r.lossSeen
       => r.proxied /\ r.budget < FullWait /\ r.blind
    /\ r.kind = "reload" /\ r.result \in {"ok", "protocol"} /\ r.on = r.before /\ ~r.moved
       => r.renewed

\* The deadlines of a call, each set when the one before it had not passed.
Timely(r, now) ==
    /\ r.phase = "entered" => r.start = now
    /\ r.phase = "waiting" => now <= r.until /\ r.until <= r.start + FullWait
    /\ r.phase = "sent" =>
          /\ now <= r.until /\ r.until <= r.start + FullWait + ToolTimeout
          /\ ToolTimeout <= r.until /\ r.until <= now + ToolTimeout
          /\ r.relay # Unset => r.proxied /\ r.relay + ToolTimeout = r.until + RelayTimeout
    /\ r.phase = "reloading" =>
          /\ r.kind = "reload"
          /\ now <= r.until /\ r.until <= r.start + FullWait + ToolTimeout + ToolTimeout

\* The bridge a call counts on: a request is out on the session of the owner, and
\* so is a reload until the next hello or the next owner.
OnBridge(r, own) ==
    /\ r.phase = "sent" => own.up /\ r.on = own.session
    /\ r.phase = "reloading" /\ ~r.renewed /\ ~r.moved => r.on = own.session

\* What a waiting call may conclude when its budget is spent.
Awaits(r, now, own, seen, as, ch) ==
    /\ r.phase \notin {"idle", "done"} /\ r.warm => ch = "warm"
    /\ r.phase = "waiting" =>
          /\ seen.up /\ ~own.up => r.lossSeen
          /\ r.proxied \/ as = "primary"
          /\ ~r.proxied => ~own.up
          /\ ~r.proxied \/ ~r.lossSeen => own.lost + r.budget <= r.until
          /\ r.warm /\ ~r.lossSeen => now <= own.lost + Backoff
          /\ r.warm /\ ~r.proxied => r.budget = FullWait
          /\ r.proxied /\ r.budget < FullWait => r.blind

CallAt(r, now, own, seen, as, ch) ==
    Judged(r) /\ Timely(r, now) /\ OnBridge(r, own) /\ Awaits(r, now, own, seen, as, ch)

CallInv == \A c \in Tools : CallAt(tool[c], clock, owner, view, role, chrome)

\* What a proxy has heard of the owner.
HeardInv ==
    /\ role = "primary" => view = NoBridge /\ ~linked
    /\ linked => view.session <= owner.session
    /\ ~linked => ~view.up
    /\ linked /\ owner.up /\ ~view.up => view.session < owner.session
    /\ role = "proxy" /\ ~linked /\ (\E c \in Tools : tool[c].phase = "waiting")
       => owner.since = clock

\* What this process has concluded from the waits of its calls.  A proxy's memo that
\* was written under this owner, before the last hello, has its end under way.
MemoInv ==
    /\ memo.since # Unset => memo.since <= clock
    /\ role = "primary" /\ memo.since # Unset => ~owner.up /\ owner.lost + FullWait <= clock
    /\ role = "proxy" /\ memo.since # Unset /\ owner.since < memo.since =>
          /\ linked
          /\ owner.up \/ memo.since < owner.lost => view.session < owner.session

\* The clocks of the owner.
WorldInv ==
    /\ owner.lost <= clock /\ owner.since <= clock
    /\ ~owner.ever => owner.lost = owner.since
    /\ chrome = "warm" /\ ~owner.up => clock <= owner.lost + Backoff
    /\ owner.up => owner.session > 0
    /\ HeardInv /\ MemoInv

BInv == CallsTypeOK /\ WorldInv /\ CallInv

-----------------------------------------------------------------------------
(* The parts of a call.                                                    *)

LEMMA Constants ==
    /\ FullWait \in Nat /\ FullWait > 0 /\ ColdWait \in Nat /\ ColdWait > 0
    /\ FreshGrace \in Nat /\ MemoTtl \in Nat /\ Backoff \in Nat
    /\ ToolTimeout \in Nat /\ ToolTimeout > 0 /\ RelayTimeout \in Nat /\ RelayTimeout > 0
    /\ ColdWait < FullWait /\ Backoff < FullWait /\ FullWait < FreshGrace
    /\ MaxClock \in Nat /\ MaxSessions \in Nat /\ MaxFailovers \in Nat /\ MaxQuits \in Nat
    /\ Unset \notin Nat /\ Unset \notin Outcomes
BY BudgetAssumption, UnsetAssumption

\* The clock is a moment, and so is what a timeout adds to it.
LEMMA DeadlineType ==
    ASSUME clock \in Moments
    PROVE  /\ clock \in Nat /\ clock <= MaxClock
           /\ clock + ToolTimeout \in Deadlines /\ clock + RelayTimeout \in Deadlines
           /\ clock + FullWait \in Deadlines /\ clock + ColdWait \in Deadlines
           /\ clock \in Deadlines /\ 0 \in Deadlines /\ 0 \in Moments
           /\ \A d \in Deadlines : d \in Nat
           /\ \A m \in Moments : m \in Nat /\ m \in Deadlines
BY Constants DEF Moments, Deadlines

\* The fields of a call's record.
LEMMA RecordFields ==
    ASSUME NEW r \in ToolRecord
    PROVE  /\ r.phase \in {"idle", "entered", "waiting", "sent", "reloading", "done"}
           /\ r.kind \in ToolKinds /\ r.aborted \in BOOLEAN /\ r.result \in Outcomes \cup {Unset}
           /\ r.start \in Moments /\ r.until \in Deadlines /\ r.relay \in Deadlines \cup {Unset}
           /\ r.budget \in {0, ColdWait, FullWait} /\ r.proxied \in BOOLEAN /\ r.valid \in BOOLEAN
           /\ r.before \in 0..MaxSessions /\ r.on \in 0..MaxSessions /\ r.waited \in Moments
           /\ r.warm \in BOOLEAN /\ r.lossSeen \in BOOLEAN /\ r.moved \in BOOLEAN
           /\ r.renewed \in BOOLEAN /\ r.blind \in BOOLEAN
BY DEF ToolRecord

LEMMA NotCalledType == NotCalled \in ToolRecord
BY Constants DEF NotCalled, ToolRecord, ToolKinds, Moments, Deadlines

\* A call ends.
LEMMA EndsFacts ==
    ASSUME clock \in Moments, NEW r \in ToolRecord, NEW result \in Outcomes, Timely(r, clock)
    PROVE  LET e == Ends(r, result) IN
           /\ e \in ToolRecord
           /\ e.phase = "done" /\ e.result = result
           /\ result \in {"never", "lost"} =>
                 /\ e.proxied = r.proxied /\ e.budget = r.budget
                 /\ e.warm = r.warm /\ e.lossSeen = r.lossSeen /\ e.blind = r.blind
           /\ result = "disconnected" =>
                 /\ e.proxied = r.proxied /\ e.lossSeen = r.lossSeen
                 /\ r.phase = "sent" => e.waited = clock + ToolTimeout - r.until
           /\ e.kind = "reload" => r.kind = "reload" /\ result \in {"ok", "protocol"}
           /\ result \in {"ok", "protocol"} /\ r.kind = "reload" =>
                 /\ e.before = r.before /\ e.on = r.on /\ e.moved = r.moved
                 /\ e.renewed = r.renewed
<1> DEFINE done == [NotCalled EXCEPT !.phase = "done", !.result = result]
           waited == IF r.phase = "sent" THEN clock + ToolTimeout - r.until ELSE 0
<1>1. done \in ToolRecord /\ done.phase = "done" /\ done.kind = "request" /\ done.result = result
  BY NotCalledType DEF ToolRecord, NotCalled
<1>2. waited \in Moments
  <2>1. CASE r.phase = "sent"
    <3>1. r.until \in Nat /\ clock \in Nat /\ ToolTimeout \in Nat /\ MaxClock \in Nat
          /\ clock <= MaxClock
      BY Constants, DeadlineType, RecordFields
    <3>2. ToolTimeout <= r.until /\ r.until <= clock + ToolTimeout
      BY <2>1 DEF Timely
    <3>3. clock + ToolTimeout - r.until \in 0..MaxClock
      BY <3>1, <3>2
    <3> QED  BY <2>1, <3>3 DEF Moments
  <2>2. CASE r.phase # "sent"
    BY <2>2, DeadlineType
  <2> QED  BY <2>1, <2>2
<1> HIDE DEF done, waited
<1>3. CASE result \in {"never", "lost"}
  <2>1. Ends(r, result) = [done EXCEPT !.proxied = r.proxied, !.budget = r.budget,
                                       !.warm = r.warm, !.lossSeen = r.lossSeen,
                                       !.blind = r.blind]
    BY <1>3 DEF Ends, done
  <2> DEFINE e == Ends(r, result)
  <2> HIDE DEF e
  <2>2. e = [done EXCEPT !.proxied = r.proxied, !.budget = r.budget, !.warm = r.warm,
                         !.lossSeen = r.lossSeen, !.blind = r.blind]
    BY <2>1 DEF e
  <2>3. e \in ToolRecord
    BY <1>1, <2>2, RecordFields DEF ToolRecord
  <2>4. e.phase = "done" /\ e.result = result /\ e.kind = "request"
    BY <1>1, <2>2 DEF ToolRecord
  <2>5. /\ e.proxied = r.proxied /\ e.budget = r.budget /\ e.warm = r.warm
        /\ e.lossSeen = r.lossSeen /\ e.blind = r.blind
    BY <1>1, <2>2 DEF ToolRecord
  <2> QED  BY <1>3, <2>3, <2>4, <2>5 DEF e
<1>4. CASE result = "disconnected"
  <2>1. Ends(r, result) = [done EXCEPT !.proxied = r.proxied, !.lossSeen = r.lossSeen,
                                       !.waited = waited]
    BY <1>4 DEF Ends, done, waited
  <2>2. r.phase = "sent" => waited = clock + ToolTimeout - r.until
    BY DEF waited
  <2> QED  BY <1>1, <1>2, <1>4, <2>1, <2>2, RecordFields DEF ToolRecord
<1>5. CASE result \in {"ok", "protocol"} /\ r.kind = "reload"
  <2>1. Ends(r, result) = [done EXCEPT !.kind = r.kind, !.before = r.before, !.on = r.on,
                                       !.moved = r.moved, !.renewed = r.renewed]
    BY <1>5 DEF Ends, done
  <2> QED  BY <1>1, <1>5, <2>1, RecordFields DEF ToolRecord
<1>6. CASE /\ result \notin {"never", "lost", "disconnected"}
           /\ ~(result \in {"ok", "protocol"} /\ r.kind = "reload")
  <2>1. Ends(r, result) = done
    BY <1>6 DEF Ends, done
  <2> QED  BY <1>1, <1>6, <2>1
<1> QED  BY <1>3, <1>4, <1>5, <1>6

\* A call that is over is judged by its outcome alone.
LEMMA DoneAt ==
    ASSUME NEW r, NEW now, NEW own, NEW seen, NEW as, NEW ch,
           r.phase = "done" \/ r.phase = "idle", Judged(r)
    PROVE  CallAt(r, now, own, seen, as, ch)
BY DEF CallAt, Timely, OnBridge, Awaits

\* A call ends with an outcome that its record justifies.
LEMMA EndsJudged ==
    ASSUME clock \in Moments, NEW r \in ToolRecord, NEW result \in Outcomes,
           Timely(r, clock),
           result \in {"never", "lost"} /\ r.warm /\ ~r.lossSeen
              => r.proxied /\ r.budget < FullWait /\ r.blind,
           result = "disconnected" =>
              \/ r.lossSeen
              \/ r.phase = "sent" /\ r.proxied /\ clock + ToolTimeout - r.until >= RelayTimeout,
           r.kind = "reload" /\ result \in {"ok", "protocol"} /\ r.on = r.before /\ ~r.moved
              => r.renewed
    PROVE  /\ Ends(r, result) \in ToolRecord
           /\ Ends(r, result).phase = "done"
           /\ Judged(Ends(r, result))
           /\ \A now, own, seen, as, ch : CallAt(Ends(r, result), now, own, seen, as, ch)
<1> DEFINE e == Ends(r, result)
<1>1. /\ e \in ToolRecord
      /\ e.phase = "done" /\ e.result = result
      /\ result \in {"never", "lost"} =>
            /\ e.proxied = r.proxied /\ e.budget = r.budget
            /\ e.warm = r.warm /\ e.lossSeen = r.lossSeen /\ e.blind = r.blind
      /\ result = "disconnected" =>
            /\ e.proxied = r.proxied /\ e.lossSeen = r.lossSeen
            /\ r.phase = "sent" => e.waited = clock + ToolTimeout - r.until
      /\ e.kind = "reload" => r.kind = "reload" /\ result \in {"ok", "protocol"}
      /\ result \in {"ok", "protocol"} /\ r.kind = "reload" =>
            /\ e.before = r.before /\ e.on = r.on /\ e.moved = r.moved
            /\ e.renewed = r.renewed
  BY EndsFacts
<1> HIDE DEF e
<1>2. Judged(e)
  BY <1>1 DEF Judged
<1>3. \A now, own, seen, as, ch : CallAt(e, now, own, seen, as, ch)
  BY <1>1, <1>2, DoneAt
<1> QED  BY <1>1, <1>2, <1>3 DEF e

\* A call that has not ended has no outcome yet, so that none is judged.
LEMMA NotJudged ==
    ASSUME NEW r, r.result = Unset
    PROVE  Judged(r)
BY Constants DEF Judged, Outcomes

\* The tool after ensureReady().
LEMMA ProceedsFacts ==
    ASSUME clock \in Moments, NEW r \in ToolRecord, NEW p, NEW there,
           there.session \in 0..MaxSessions,
           Timely(r, clock), r.result = Unset, r.phase \in {"entered", "waiting"},
           clock <= r.start + FullWait,
           ~p.up /\ r.warm /\ ~r.lossSeen => r.proxied /\ r.budget < FullWait /\ r.blind,
           p.up /\ ~there.up => r.lossSeen,
           role = "proxy" => r.proxied,
           NEW ch, r.warm => ch = "warm"
    PROVE  /\ Proceeds(r, p, there) \in ToolRecord
           /\ \A seen, as : CallAt(Proceeds(r, p, there), clock, there, seen, as, ch)
<1> DEFINE e == Proceeds(r, p, there)
<1>1. CASE r.aborted
  <2>1. e = Ends(r, "cancelled")
    BY <1>1 DEF Proceeds
  <2>2. "cancelled" \in Outcomes
    BY DEF Outcomes
  <2> QED  BY <2>1, <2>2, EndsJudged
<1>2. CASE ~r.aborted /\ ~p.up
  <2>1. e = Ends(r, Diagnosis(p)) /\ Diagnosis(p) \in {"never", "lost"}
    BY <1>2 DEF Proceeds, Diagnosis
  <2>2. {"never", "lost"} \subseteq Outcomes
    BY DEF Outcomes
  <2>3. PICK d \in {"never", "lost"} : e = Ends(r, d)
    BY <2>1
  <2> QED  BY <1>2, <2>2, <2>3, EndsJudged
<1>3. CASE ~r.aborted /\ p.up /\ r.kind = "activate"
  <2>1. e = Ends(r, "ok")
    BY <1>3 DEF Proceeds
  <2>2. "ok" \in Outcomes
    BY DEF Outcomes
  <2> QED  BY <1>3, <2>1, <2>2, EndsJudged
<1>4. CASE ~r.aborted /\ p.up /\ r.kind # "activate" /\ ~there.up
  <2>1. e = Ends(r, "disconnected")
    BY <1>4 DEF Proceeds
  <2>2. "disconnected" \in Outcomes
    BY DEF Outcomes
  <2> QED  BY <1>4, <2>1, <2>2, EndsJudged
<1>5. CASE ~r.aborted /\ p.up /\ r.kind # "activate" /\ there.up
  <2> DEFINE relay == IF role = "proxy" THEN clock + RelayTimeout ELSE Unset
  <2>1. e = [r EXCEPT !.phase = "sent", !.on = there.session,
                      !.until = clock + ToolTimeout, !.relay = relay]
    BY <1>5 DEF Proceeds
  <2>2. clock + ToolTimeout \in Deadlines /\ relay \in Deadlines \cup {Unset}
    BY DeadlineType
  <2>3. relay # Unset => r.proxied /\ relay = clock + RelayTimeout
    OBVIOUS
  <2> HIDE DEF e, relay
  <2>4. e \in ToolRecord
    BY <2>1, <2>2 DEF ToolRecord
  <2>5. /\ e.phase = "sent" /\ e.on = there.session /\ e.until = clock + ToolTimeout
        /\ e.relay = relay /\ e.result = Unset /\ e.start = r.start /\ e.proxied = r.proxied
        /\ e.warm = r.warm
    BY <2>1 DEF ToolRecord
  <2>6. Judged(e)
    BY <2>5, NotJudged
  <2>7. Timely(e, clock)
    <3>1. clock \in Nat /\ ToolTimeout \in Nat /\ RelayTimeout \in Nat /\ e.start \in Nat
          /\ FullWait \in Nat
      BY <2>4, DeadlineType, Constants, RecordFields
    <3>2. e.until <= e.start + FullWait + ToolTimeout
      BY <2>5, <3>1
    <3>3. e.relay # Unset => e.proxied /\ e.relay + ToolTimeout = e.until + RelayTimeout
      BY <2>3, <2>5, <3>1
    <3>4. clock <= e.until /\ ToolTimeout <= e.until /\ e.until <= clock + ToolTimeout
      BY <2>5, <3>1
    <3> QED  BY <2>5, <3>2, <3>3, <3>4 DEF Timely
  <2>8. OnBridge(e, there)
    BY <1>5, <2>5 DEF OnBridge
  <2>9. \A seen, as : Awaits(e, clock, there, seen, as, ch)
    BY <2>5 DEF Awaits
  <2>10. e \in ToolRecord /\ \A seen, as : CallAt(e, clock, there, seen, as, ch)
    BY <2>4, <2>6, <2>7, <2>8, <2>9 DEF CallAt
  <2> QED  BY <2>10 DEF e
<1> QED  BY <1>1, <1>2, <1>3, <1>4, <1>5

\* A rejected request is over; every other call goes on, and has seen the loss.
LEMMA RejectedFacts ==
    ASSUME clock \in Moments, NEW r \in ToolRecord, Timely(r, clock), Judged(r)
    PROVE  LET e == RejectedTool(r) IN
           /\ e \in ToolRecord /\ Judged(e)
           /\ r.phase \in {"idle", "done"} => e = r
           /\ r.phase = "sent" => e.phase = "done"
           /\ r.phase \in {"entered", "waiting", "reloading"} =>
                 e = [r EXCEPT !.lossSeen = TRUE]
<1> DEFINE e == RejectedTool(r)
<1>1. CASE r.phase \in {"idle", "done"}
  <2>1. e = r /\ r.phase # "sent" /\ r.phase \notin {"entered", "waiting", "reloading"}
    BY <1>1 DEF RejectedTool
  <2> QED  BY <1>1, <2>1
<1>2. CASE r.phase = "sent"
  <2> DEFINE d == Ends(r, "disconnected")
  <2>1. e = [d EXCEPT !.lossSeen = TRUE]
    BY <1>2 DEF RejectedTool
  <2>2. "disconnected" \in Outcomes
    BY DEF Outcomes
  <2>3. d \in ToolRecord /\ d.phase = "done" /\ d.result = "disconnected"
    BY <2>2, EndsFacts, SMT
  <2> HIDE DEF d
  <2>4. e \in ToolRecord /\ e.phase = "done" /\ e.result = "disconnected" /\ e.lossSeen
    BY <2>1, <2>3 DEF ToolRecord
  <2>5. Judged(e)
    BY <2>4 DEF Judged
  <2> QED  BY <1>2, <2>4, <2>5
<1>3. CASE r.phase \in {"entered", "waiting", "reloading"}
  <2>1. e = [r EXCEPT !.lossSeen = TRUE]
    BY <1>3 DEF RejectedTool
  <2>2. e \in ToolRecord /\ e.phase = r.phase /\ e.result = r.result
    BY <2>1 DEF ToolRecord
  <2>3. r.result = Unset
    BY <1>3 DEF Judged
  <2>4. Judged(e)
    BY <2>2, <2>3, NotJudged
  <2> QED  BY <1>3, <2>1, <2>2, <2>4
<1> QED  BY <1>1, <1>2, <1>3, RecordFields

-----------------------------------------------------------------------------
(* The steps of a call.                                                    *)

\* What the invariant says of the world and of one call.
LEMMA CallFacts ==
    ASSUME BInv, NEW c \in Tools
    PROVE  /\ clock \in Moments /\ tool[c] \in ToolRecord
           /\ tool = [d \in Tools |-> tool[d]]
           /\ CallAt(tool[c], clock, owner, view, role, chrome)
           /\ Judged(tool[c]) /\ Timely(tool[c], clock) /\ OnBridge(tool[c], owner)
           /\ Awaits(tool[c], clock, owner, view, role, chrome)
           /\ tool[c].phase # "done" => tool[c].result = Unset
BY DEF BInv, CallsTypeOK, CallInv, CallAt, Judged

LEMMA WorldFacts ==
    ASSUME BInv
    PROVE  /\ clock \in Moments /\ clock \in Nat /\ clock <= MaxClock
           /\ role \in {"primary", "proxy"} /\ chrome \in {"closed", "cold", "warm"}
           /\ owner \in [up : BOOLEAN, session : 0..MaxSessions, ever : BOOLEAN,
                         since : Moments, lost : Moments]
           /\ owner.up \in BOOLEAN /\ owner.ever \in BOOLEAN /\ owner.session \in 0..MaxSessions
           /\ owner.since \in Nat /\ owner.lost \in Nat
           /\ view \in [up : BOOLEAN, session : 0..MaxSessions, ever : BOOLEAN]
           /\ memo \in [misses : 0..MissThreshold, since : Moments \cup {Unset}]
           /\ memo.since # Unset => memo.since \in Nat
           /\ linked \in BOOLEAN
           /\ owner.up => owner.ever /\ chrome = "warm"
           /\ WorldInv
BY Constants DEF BInv, CallsTypeOK, Moments

\* What the process hears of the owner is what the owner has.
LEMMA SnapshotFacts ==
    ASSUME BInv
    PROVE  /\ Snapshot \in [up : BOOLEAN, session : 0..MaxSessions, ever : BOOLEAN]
           /\ Snapshot.up = owner.up /\ Snapshot.session = owner.session
           /\ Snapshot.ever = owner.ever
BY WorldFacts DEF Snapshot

\* A step of one call, in which the process may hear of the owner's bridge.
LEMMA OneCall ==
    ASSUME BInv, NEW c \in Tools, NEW e \in ToolRecord,
           tool' = [tool EXCEPT ![c] = e],
           clock' = clock, role' = role, owner' = owner, chrome' = chrome,
           view' = view \/ view' = Snapshot,
           CallAt(e, clock, owner, view', role, chrome)
    PROVE  /\ tool' \in [Tools -> ToolRecord] /\ CallInv'
           /\ (e.phase = "waiting" => tool[c].phase = "waiting")
              => \A d \in Tools : tool'[d].phase = "waiting" => tool[d].phase = "waiting"
<1>1. tool' \in [Tools -> ToolRecord] /\ tool'[c] = e
      /\ \A d \in Tools \ {c} : tool'[d] = tool[d]
  BY CallFacts DEF BInv, CallsTypeOK
<1>2. ASSUME NEW d \in Tools
      PROVE  CallAt(tool'[d], clock', owner', view', role', chrome')
  <2>1. CASE d = c
    BY <1>1, <2>1
  <2>2. CASE d # c
    <3>1. tool'[d] = tool[d] /\ CallAt(tool[d], clock, owner, view, role, chrome)
      BY <1>1, <2>2, CallFacts
    <3>2. CASE view' = view
      BY <3>1, <3>2
    <3>3. CASE view' = Snapshot
      <4>1. view'.up = owner.up
        BY <3>3, SnapshotFacts
      <4>2. CallAt(tool[d], clock, owner, view', role, chrome)
        BY <3>1, <4>1 DEF CallAt, Awaits
      <4> QED  BY <3>1, <4>2
    <3> QED  BY <3>2, <3>3
  <2> QED  BY <2>1, <2>2
<1> QED  BY <1>1, <1>2 DEF CallInv

\* The memo after the notifications under way.
LEMMA ToldFacts ==
    ASSUME BInv
    PROVE  /\ Told \in [misses : 0..MissThreshold, since : Moments \cup {Unset}]
           /\ Told = NoMisses \/ (Told = memo /\ ~(linked /\ view.session < owner.session))
           /\ ~linked => Told = memo
<1>1. NoMisses \in [misses : 0..MissThreshold, since : Moments \cup {Unset}]
  BY DEF NoMisses, MissThreshold
<1> QED  BY <1>1, WorldFacts DEF Told, News

\* The world in a step that leaves it alone, but for what the process hears.
LEMMA SameWorld ==
    ASSUME BInv, clock' = clock, role' = role, owner' = owner, chrome' = chrome,
           quits' = quits, failovers' = failovers,
           \/ linked' = linked /\ view' = view
           \/ role = "proxy" /\ linked' = TRUE /\ view' = Snapshot,
           \/ memo' = NoMisses \/ memo' = Told
           \/ linked' = linked /\ view' = view /\ memo' = memo
           \/ /\ linked' = linked /\ view' = view
              /\ memo' \in [misses : 0..MissThreshold, since : Moments \cup {Unset}]
              /\ memo'.since \in {memo.since, clock}
              /\ role = "primary" => ~owner.up /\ owner.lost + FullWait <= clock
              /\ role = "proxy" => ~view.up /\ (linked \/ owner.since = clock),
           \/ linked' \/ role = "primary"
           \/ \A d \in Tools : tool'[d].phase = "waiting" => tool[d].phase = "waiting",
           tool' \in [Tools -> ToolRecord], CallInv'
    PROVE  BInv'
<1>1. /\ view' \in [up : BOOLEAN, session : 0..MaxSessions, ever : BOOLEAN]
      /\ linked' \in BOOLEAN
  BY WorldFacts, SnapshotFacts
<1>2. memo' \in [misses : 0..MissThreshold, since : Moments \cup {Unset}]
  BY WorldFacts, ToldFacts, Constants DEF NoMisses, MissThreshold
<1>3. CallsTypeOK'
  BY <1>1, <1>2 DEF BInv, CallsTypeOK, Moments
<1>4. /\ WorldInv /\ HeardInv /\ MemoInv
      /\ clock \in Nat /\ owner.session \in Nat /\ view.session \in Nat
      /\ owner.since \in Nat /\ owner.lost \in Nat /\ owner.lost <= clock
      /\ memo.since # Unset => memo.since \in Nat
      /\ role \in {"primary", "proxy"}
  BY WorldFacts, Constants DEF WorldInv
<1>5. HeardInv'
  <2>1. CASE linked' = linked /\ view' = view
    BY <1>4, <2>1 DEF HeardInv
  <2>2. CASE role = "proxy" /\ linked' = TRUE /\ view' = Snapshot
    BY <1>4, <2>2, SnapshotFacts DEF HeardInv
  <2> QED  BY <2>1, <2>2
<1>6. MemoInv'
  <2>1. CASE memo' = NoMisses
    BY <2>1 DEF MemoInv, NoMisses
  <2>2. CASE memo' = memo /\ linked' = linked /\ view' = view
    BY <1>4, <2>2 DEF MemoInv
  <2>3. CASE memo' = Told /\ memo' # NoMisses /\ role = "proxy" /\ linked' = TRUE /\ view' = Snapshot
    <3>1. memo' = memo /\ ~(linked /\ view.session < owner.session)
      BY <2>3, ToldFacts
    <3> QED  BY <1>4, <2>3, <3>1 DEF MemoInv
  <2>4. CASE memo' = Told /\ memo' # NoMisses /\ linked' = linked /\ view' = view
    BY <1>4, <2>2, <2>4, ToldFacts
  <2>5. CASE /\ linked' = linked /\ view' = view
             /\ memo'.since \in {memo.since, clock}
             /\ role = "primary" => ~owner.up /\ owner.lost + FullWait <= clock
             /\ role = "proxy" => ~view.up /\ (linked \/ owner.since = clock)
    <3>1. CASE memo'.since = memo.since
      BY <1>4, <2>5, <3>1 DEF MemoInv
    <3>2. CASE memo'.since = clock
      BY <1>4, <2>5, <3>2 DEF MemoInv, HeardInv
    <3> QED  BY <2>5, <3>1, <3>2
  <2> QED  BY <2>1, <2>2, <2>3, <2>4, <2>5
<1>7. WorldInv'
  BY <1>4, <1>5, <1>6 DEF WorldInv
<1> QED  BY <1>3, <1>7 DEF BInv

LEMMA ProbeFacts ==
    ASSUME BInv
    PROVE  /\ Probe \in [up : BOOLEAN, session : 0..MaxSessions, ever : BOOLEAN]
           /\ Probe.up => Probe.session <= owner.session
           /\ role = "primary" => Probe.up = owner.up
           /\ role = "proxy" => Probe = view
<1>1. WorldInv /\ view \in [up : BOOLEAN, session : 0..MaxSessions, ever : BOOLEAN]
  BY WorldFacts
<1>2. owner.session \in Nat
  BY WorldFacts, Constants
<1> QED  BY <1>1, <1>2, WorldFacts, SnapshotFacts DEF Probe, WorldInv, HeardInv

LEMMA ExecuteStep ==
    ASSUME BInv, NEW c \in Tools, Execute(c)
    PROVE  BInv'
<1>1. PICK kind \in ToolKinds, aborted \in BOOLEAN :
        LET r == [NotCalled EXCEPT !.kind = kind, !.phase = "entered", !.start = clock,
                      !.before = IF kind = "reload" THEN Probe.session ELSE 0,
                      !.warm = chrome = "warm"]
        IN  tool' = [tool EXCEPT ![c] =
                        IF aborted /\ kind # "activate" THEN Ends(r, "cancelled")
                        ELSE [r EXCEPT !.aborted = aborted]]
  BY DEF Execute
<1> DEFINE before == IF kind = "reload" THEN Probe.session ELSE 0
           r == [NotCalled EXCEPT !.kind = kind, !.phase = "entered", !.start = clock,
                     !.before = before, !.warm = chrome = "warm"]
           s == [r EXCEPT !.aborted = aborted]
           e == IF aborted /\ kind # "activate" THEN Ends(r, "cancelled") ELSE s
<1>2. before \in 0..MaxSessions
  BY ProbeFacts, Constants
<1>3. clock \in Moments
  BY WorldFacts
<1> HIDE DEF before
<1>4. /\ r \in ToolRecord /\ r.phase = "entered" /\ r.start = clock
      /\ r.result = Unset /\ r.warm = (chrome = "warm")
  BY <1>2, <1>3, NotCalledType DEF NotCalled, ToolRecord
<1>5. tool' = [tool EXCEPT ![c] = e]
  BY <1>1 DEF before
<1>6. clock' = clock /\ role' = role /\ owner' = owner /\ view' = view /\ memo' = memo
      /\ chrome' = chrome /\ quits' = quits /\ failovers' = failovers /\ linked' = linked
  BY DEF Execute, browserVars
<1> HIDE DEF r
<1>7. Timely(r, clock)
  BY <1>4 DEF Timely
<1>8. Ends(r, "cancelled") \in ToolRecord /\ Ends(r, "cancelled").phase = "done"
      /\ \A now, own, seen, as, ch : CallAt(Ends(r, "cancelled"), now, own, seen, as, ch)
  <2>1. "cancelled" \in Outcomes
    BY DEF Outcomes
  <2> QED  BY <1>3, <1>4, <1>7, <2>1, EndsJudged
<1>9. /\ s \in ToolRecord /\ s.phase = "entered" /\ s.start = clock
      /\ s.result = Unset /\ s.warm = (chrome = "warm")
  BY <1>4 DEF ToolRecord
<1> HIDE DEF s
<1>10. CallAt(s, clock, owner, view', role, chrome)
  BY <1>9, NotJudged DEF CallAt, Timely, OnBridge, Awaits
<1>11. e \in ToolRecord /\ CallAt(e, clock, owner, view', role, chrome) /\ e.phase # "waiting"
  BY <1>8, <1>9, <1>10
<1> HIDE DEF e
<1>12. tool' \in [Tools -> ToolRecord] /\ CallInv'
       /\ \A d \in Tools : tool'[d].phase = "waiting" => tool[d].phase = "waiting"
  BY <1>5, <1>6, <1>11, OneCall
<1> QED  BY <1>6, <1>12, SameWorld

\* A call that was dialled for all along begins to wait with the full budget if
\* this process owns the port; a proxy waits the short one for want of news.
LEMMA BudgetFacts ==
    ASSUME BInv
    PROVE  /\ Budget \in {ColdWait, FullWait}
           /\ role = "primary" /\ chrome = "warm" /\ ~owner.up => Budget = FullWait
           /\ role = "proxy" /\ Budget < FullWait => owner.up \/ Uninformed
<1>1. Budget \in {ColdWait, FullWait}
  BY DEF Budget
<1>2. ASSUME role = "primary", chrome = "warm", ~owner.up
      PROVE  Budget = FullWait
  <2>1. /\ clock \in Nat /\ owner.lost \in Nat /\ owner.since \in Nat
        /\ Backoff \in Nat /\ FullWait \in Nat /\ FreshGrace \in Nat
        /\ Backoff < FullWait /\ FullWait < FreshGrace
    BY WorldFacts, Constants
  <2>2. WorldInv
    BY WorldFacts
  <2>3. clock <= owner.lost + Backoff
    BY <1>2, <2>2 DEF WorldInv
  <2>4. memo.since = Unset /\ Told = memo
    BY <1>2, <2>1, <2>2, <2>3, WorldFacts, ToldFacts DEF WorldInv, MemoInv, HeardInv
  <2>5. owner.ever \/ clock - owner.since < FreshGrace
    BY <2>1, <2>2, <2>3 DEF WorldInv
  <2> QED  BY <1>2, <2>4, <2>5 DEF Budget
<1>3. ASSUME role = "proxy", Budget < FullWait, ~owner.up, owner.ever
      PROVE  Uninformed
  <2>1. /\ FullWait \in Nat /\ owner.since \in Nat /\ owner.lost \in Nat
        /\ memo.since # Unset => memo.since \in Nat
    BY WorldFacts, Constants
  <2>2. Told.since # Unset
    BY <1>3, <2>1 DEF Budget
  <2>3. Told = memo /\ ~(linked /\ view.session < owner.session)
    BY <2>2, ToldFacts DEF NoMisses
  <2>4. MemoInv
    BY WorldFacts DEF WorldInv
  <2>5. CASE memo.since <= owner.since
    BY <2>2, <2>3, <2>5 DEF Uninformed
  <2>6. CASE owner.since < memo.since
    <3>1. ~(memo.since < owner.lost)
      BY <1>3, <2>2, <2>3, <2>4, <2>6 DEF MemoInv
    <3> QED  BY <2>1, <2>2, <2>3, <3>1 DEF Uninformed
  <2> QED  BY <2>1, <2>2, <2>3, <2>5, <2>6
<1> QED  BY <1>1, <1>2, <1>3 DEF Uninformed

LEMMA AwaitStep ==
    ASSUME BInv, NEW c \in Tools, AwaitExtension(c)
    PROVE  BInv'
<1> DEFINE t == tool[c]
           r == [t EXCEPT !.proxied = role = "proxy", !.budget = Budget]
           w == [r EXCEPT !.phase = "waiting", !.until = clock + Budget, !.blind = Uninformed]
           e == IF owner.up \/ r.aborted THEN Proceeds(r, Snapshot, owner) ELSE w
<1>1. /\ t.phase = "entered" /\ tool' = [tool EXCEPT ![c] = e]
      /\ view' = IF role = "proxy" THEN Snapshot ELSE view
      /\ linked' = (role = "proxy") /\ memo' = IF owner.up THEN NoMisses ELSE Told
  BY DEF AwaitExtension
<1>2. clock' = clock /\ role' = role /\ owner' = owner
      /\ chrome' = chrome /\ quits' = quits /\ failovers' = failovers
  BY DEF AwaitExtension, browserVars
<1>3. /\ t \in ToolRecord /\ Judged(t) /\ Timely(t, clock) /\ t.result = Unset
      /\ Awaits(t, clock, owner, view, role, chrome)
  BY <1>1, CallFacts
<1>4. Budget \in {ColdWait, FullWait}
      /\ (role = "primary" /\ chrome = "warm" /\ ~owner.up => Budget = FullWait)
      /\ (role = "proxy" /\ Budget < FullWait => owner.up \/ Uninformed)
  BY BudgetFacts
<1> HIDE DEF t
<1>5. /\ r \in ToolRecord /\ r.phase = "entered" /\ r.result = Unset
      /\ r.start = t.start /\ r.proxied = (role = "proxy") /\ r.budget = Budget
      /\ r.warm = t.warm
  BY <1>1, <1>3, <1>4 DEF ToolRecord
<1> HIDE DEF r
<1>6. r.start = clock /\ Timely(r, clock) /\ (r.warm => chrome = "warm")
  BY <1>1, <1>3, <1>5 DEF Timely, Awaits
<1>7. /\ clock \in Moments /\ clock \in Nat /\ owner.session \in 0..MaxSessions
      /\ owner.lost \in Nat /\ role \in {"primary", "proxy"}
  BY WorldFacts
<1>8. /\ \/ linked' = linked /\ view' = view
         \/ role = "proxy" /\ linked' = TRUE /\ view' = Snapshot
      /\ linked' \/ role = "primary"
      /\ memo' = NoMisses \/ memo' = Told
  <2>1. CASE role = "primary"
    <3>1. linked' = FALSE /\ view' = view
      BY <1>1, <2>1
    <3>2. linked = FALSE
      BY <2>1, WorldFacts DEF WorldInv, HeardInv
    <3> QED  BY <1>1, <2>1, <3>1, <3>2
  <2>2. CASE role = "proxy"
    BY <1>1, <2>2
  <2> QED  BY <1>7, <2>1, <2>2
<1>9. Uninformed \in BOOLEAN
  BY DEF Uninformed
<1>10. CASE owner.up \/ r.aborted
  <2>1. e = Proceeds(r, Snapshot, owner)
    BY <1>10
  <2> HIDE DEF e
  <2>2. e \in ToolRecord /\ CallAt(e, clock, owner, view', role, chrome)
    <3>1. CASE r.aborted
      <4>1. e = Ends(r, "cancelled") /\ "cancelled" \in Outcomes
        BY <2>1, <3>1 DEF Proceeds, Outcomes
      <4>2. Ends(r, "cancelled") \in ToolRecord
            /\ \A now, own, seen, as, ch : CallAt(Ends(r, "cancelled"), now, own, seen, as, ch)
        BY <1>5, <1>6, <1>7, <4>1, EndsJudged
      <4> QED  BY <4>1, <4>2
    <3>2. CASE owner.up
      <4>1. Snapshot.up = owner.up
        BY SnapshotFacts
      <4>2. clock <= r.start + FullWait
        BY <1>6, <1>7, Constants
      <4>3. e \in ToolRecord /\ \A seen, as : CallAt(e, clock, owner, seen, as, chrome)
        BY <1>5, <1>6, <1>7, <2>1, <3>2, <4>1, <4>2, ProceedsFacts
      <4> QED  BY <4>3
    <3> QED  BY <1>10, <3>1, <3>2
  <2>3. tool' \in [Tools -> ToolRecord] /\ CallInv'
    BY <1>1, <1>2, <2>2, OneCall
  <2> QED  BY <1>2, <1>8, <2>3, SameWorld
<1>11. CASE ~owner.up /\ ~r.aborted
  <2>1. e = w
    BY <1>11
  <2>2. clock + Budget \in Deadlines
    BY <1>4, <1>7, DeadlineType
  <2>3. /\ w \in ToolRecord /\ w.phase = "waiting" /\ w.result = Unset
        /\ w.until = clock + Budget /\ w.start = clock /\ w.budget = Budget
        /\ w.proxied = (role = "proxy") /\ w.warm = r.warm /\ w.lossSeen = r.lossSeen
        /\ w.blind = Uninformed
    BY <1>5, <1>6, <1>9, <2>2 DEF ToolRecord
  <2> HIDE DEF w, e
  <2>4. Timely(w, clock)
    BY <1>4, <1>7, <2>3, Constants DEF Timely
  <2>5. WorldInv
    BY WorldFacts
  <2>6. ~view'.up
    BY <1>1, <1>7, <1>11, <2>5, SnapshotFacts DEF WorldInv, HeardInv, NoBridge
  <2>7. owner.lost + w.budget <= w.until /\ (chrome = "warm" => clock <= owner.lost + Backoff)
    BY <1>4, <1>7, <1>11, <2>3, <2>5, Constants DEF WorldInv
  <2>8. Awaits(w, clock, owner, view', role, chrome)
    BY <1>4, <1>6, <1>7, <1>11, <2>3, <2>6, <2>7 DEF Awaits
  <2>9. CallAt(w, clock, owner, view', role, chrome)
    BY <2>3, <2>4, <2>8, NotJudged DEF CallAt, OnBridge
  <2>10. tool' \in [Tools -> ToolRecord] /\ CallInv'
    BY <1>1, <1>2, <2>1, <2>3, <2>9, OneCall
  <2> QED  BY <1>2, <1>8, <2>10, SameWorld
<1> QED  BY <1>10, <1>11

LEMMA RoundStep ==
    ASSUME BInv, NEW c \in Tools, RoundFinds(c)
    PROVE  BInv'
<1> DEFINE r == tool[c]
           e == Proceeds(r, Snapshot, owner)
<1>1. /\ r.phase = "waiting" /\ role = "proxy" /\ owner.up /\ tool' = [tool EXCEPT ![c] = e]
      /\ linked' = TRUE /\ view' = Snapshot /\ memo' = NoMisses
  BY CallFacts DEF RoundFinds
<1>2. clock' = clock /\ role' = role /\ owner' = owner
      /\ chrome' = chrome /\ quits' = quits /\ failovers' = failovers
  BY DEF RoundFinds, browserVars
<1>3. /\ r \in ToolRecord /\ Timely(r, clock) /\ r.result = Unset
      /\ Awaits(r, clock, owner, view, role, chrome)
  BY <1>1, CallFacts
<1> HIDE DEF r
<1>4. r.proxied /\ (r.warm => chrome = "warm")
  BY <1>1, <1>3 DEF Awaits
<1>5. clock <= r.start + FullWait
  <2>1. clock \in Nat /\ r.until \in Nat /\ r.start \in Nat /\ FullWait \in Nat
    BY <1>3, WorldFacts, DeadlineType, RecordFields, Constants
  <2> QED  BY <1>1, <1>3, <2>1 DEF Timely
<1>6. clock \in Moments /\ owner.session \in 0..MaxSessions
  BY WorldFacts
<1>7. e \in ToolRecord /\ CallAt(e, clock, owner, view', role, chrome)
  BY <1>1, <1>3, <1>4, <1>5, <1>6, SnapshotFacts, ProceedsFacts
<1> HIDE DEF e
<1>8. tool' \in [Tools -> ToolRecord] /\ CallInv'
  BY <1>1, <1>2, <1>7, OneCall
<1> QED  BY <1>1, <1>2, <1>8, SameWorld

\* What a call that gives up waiting concludes is remembered.
LEMMA RememberFacts ==
    ASSUME BInv, NEW connected \in BOOLEAN, NEW budget \in {0, ColdWait, FullWait},
           NEW m, m = Remember(connected, budget)
    PROVE  \/ m = memo \/ m = NoMisses
           \/ /\ m \in [misses : 0..MissThreshold, since : Moments \cup {Unset}]
              /\ m.since \in {memo.since, clock}
              /\ ~connected /\ budget = FullWait
<1> DEFINE misses == IF memo.misses < MissThreshold THEN memo.misses + 1 ELSE MissThreshold
<1>1. misses \in 0..MissThreshold
  BY WorldFacts DEF MissThreshold
<1> HIDE DEF misses
<1>2. CASE connected \/ budget < FullWait
  BY <1>2 DEF Remember
<1>3. CASE ~connected /\ ~(budget < FullWait)
  <2>1. budget = FullWait
    BY <1>3, Constants
  <2>2. m = [misses |-> misses, since |-> IF misses = MissThreshold THEN clock ELSE memo.since]
    BY <1>3 DEF Remember, misses
  <2>3. clock \in Moments /\ memo.since \in Moments \cup {Unset}
    BY WorldFacts
  <2> QED  BY <1>1, <1>3, <2>1, <2>2, <2>3
<1> QED  BY <1>2, <1>3

LEMMA BudgetSpentStep ==
    ASSUME BInv, NEW c \in Tools, BudgetSpent(c)
    PROVE  BInv'
<1> DEFINE r == tool[c]
           e == Proceeds(r, Probe, owner)
<1>1. /\ r.phase = "waiting" /\ clock >= r.until /\ tool' = [tool EXCEPT ![c] = e]
      /\ memo' = IF r.proxied = (role = "proxy") THEN Remember(Probe.up, r.budget) ELSE memo
  BY CallFacts DEF BudgetSpent
<1>2. clock' = clock /\ role' = role /\ owner' = owner /\ view' = view /\ linked' = linked
      /\ chrome' = chrome /\ quits' = quits /\ failovers' = failovers
  BY DEF BudgetSpent, browserVars
<1>3. /\ r \in ToolRecord /\ Timely(r, clock) /\ r.result = Unset
      /\ Awaits(r, clock, owner, view, role, chrome)
  BY <1>1, CallFacts
<1> HIDE DEF r
<1>4. /\ clock \in Nat /\ r.until \in Nat /\ r.start \in Nat /\ FullWait \in Nat /\ ColdWait \in Nat
      /\ owner.lost \in Nat /\ Backoff \in Nat /\ Backoff < FullWait /\ ColdWait < FullWait
      /\ r.budget \in {0, ColdWait, FullWait} /\ r.proxied \in BOOLEAN
      /\ clock \in Moments /\ owner.session \in 0..MaxSessions /\ role \in {"primary", "proxy"}
  BY <1>3, WorldFacts, DeadlineType, RecordFields, Constants
<1>5. clock <= r.start + FullWait
  BY <1>1, <1>3, <1>4 DEF Timely
<1>6. r.warm /\ ~r.lossSeen => r.proxied /\ r.budget < FullWait /\ r.blind
  <2> SUFFICES ASSUME r.warm, ~r.lossSeen
               PROVE  r.proxied /\ r.budget < FullWait /\ r.blind
    OBVIOUS
  <2>1. clock <= owner.lost + Backoff /\ owner.lost + r.budget <= r.until
    BY <1>1, <1>3 DEF Awaits
  <2>2. r.budget < FullWait
    BY <1>1, <1>4, <2>1, Constants
  <2>3. r.proxied
    BY <1>1, <1>3, <1>4, <2>2 DEF Awaits
  <2>4. r.blind
    BY <1>1, <1>3, <2>2, <2>3 DEF Awaits
  <2> QED  BY <2>2, <2>3, <2>4
<1>7. Probe.up /\ ~owner.up => r.lossSeen
  BY <1>1, <1>3, <1>4, ProbeFacts DEF Awaits
<1>8. (role = "proxy" => r.proxied) /\ (r.warm => chrome = "warm")
  BY <1>1, <1>3 DEF Awaits
<1>9. e \in ToolRecord /\ \A seen, as : CallAt(e, clock, owner, seen, as, chrome)
  BY <1>1, <1>3, <1>4, <1>5, <1>6, <1>7, <1>8, ProceedsFacts
<1> HIDE DEF e
<1>10. tool' \in [Tools -> ToolRecord] /\ CallInv'
       /\ \A d \in Tools : tool'[d].phase = "waiting" => tool[d].phase = "waiting"
  BY <1>1, <1>2, <1>9, OneCall DEF r
<1>11. linked \/ role = "primary" \/ owner.since = clock
  BY <1>1, <1>4, WorldFacts DEF WorldInv, HeardInv, r
<1>12. \/ memo' = memo \/ memo' = NoMisses
       \/ /\ memo' \in [misses : 0..MissThreshold, since : Moments \cup {Unset}]
          /\ memo'.since \in {memo.since, clock}
          /\ role = "primary" => ~owner.up /\ owner.lost + FullWait <= clock
          /\ role = "proxy" => ~view.up /\ (linked \/ owner.since = clock)
  <2>1. CASE r.proxied = (role = "proxy")
    <3>1. memo' = Remember(Probe.up, r.budget) /\ Probe.up \in BOOLEAN
      BY <1>1, <2>1, ProbeFacts
    <3>2. \/ memo' = memo \/ memo' = NoMisses
          \/ /\ memo' \in [misses : 0..MissThreshold, since : Moments \cup {Unset}]
             /\ memo'.since \in {memo.since, clock}
             /\ ~Probe.up /\ r.budget = FullWait
      BY <1>4, <3>1, RememberFacts
    <3>3. ASSUME role = "primary", r.budget = FullWait
          PROVE  ~owner.up /\ owner.lost + FullWait <= clock
      <4>1. ~r.proxied
        BY <2>1, <3>3
      <4>2. ~owner.up /\ owner.lost + r.budget <= r.until
        BY <1>1, <1>3, <4>1 DEF Awaits
      <4> QED  BY <1>1, <1>4, <3>3, <4>2
    <3>4. role = "proxy" => Probe = view
      BY ProbeFacts
    <3> QED  BY <1>11, <3>2, <3>3, <3>4
  <2>2. CASE r.proxied # (role = "proxy")
    BY <1>1, <2>2
  <2> QED  BY <2>1, <2>2
<1> QED  BY <1>2, <1>10, <1>12, SameWorld

\* A step that does nothing but change the record of one call.
LEMMA CallOnly ==
    ASSUME BInv, NEW c \in Tools, NEW e \in ToolRecord,
           tool' = [tool EXCEPT ![c] = e],
           UNCHANGED <<clock, role, browserVars, owner, linked, view, memo>>,
           CallAt(e, clock, owner, view, role, chrome), e.phase # "waiting"
    PROVE  BInv'
<1>1. clock' = clock /\ role' = role /\ owner' = owner /\ view' = view /\ memo' = memo
      /\ chrome' = chrome /\ quits' = quits /\ failovers' = failovers /\ linked' = linked
  BY DEF browserVars
<1>2. tool' \in [Tools -> ToolRecord] /\ CallInv'
      /\ \A d \in Tools : tool'[d].phase = "waiting" => tool[d].phase = "waiting"
  BY <1>1, OneCall
<1> QED  BY <1>1, <1>2, SameWorld

\* A call ends, and nothing else happens.
LEMMA CallEnds ==
    ASSUME BInv, NEW c \in Tools, NEW result \in Outcomes \ {"never", "lost"},
           tool' = [tool EXCEPT ![c] = Ends(tool[c], result)],
           UNCHANGED <<clock, role, browserVars, owner, linked, view, memo>>,
           LET r == tool[c] IN
           /\ result = "disconnected" =>
                 \/ r.lossSeen
                 \/ r.phase = "sent" /\ r.proxied /\ clock + ToolTimeout - r.until >= RelayTimeout
           /\ r.kind = "reload" /\ result \in {"ok", "protocol"} /\ r.on = r.before /\ ~r.moved
                 => r.renewed
    PROVE  BInv'
<1> DEFINE r == tool[c]
           e == Ends(r, result)
<1>1. clock \in Moments /\ r \in ToolRecord /\ Timely(r, clock)
  BY CallFacts
<1>2. /\ e \in ToolRecord /\ e.phase = "done"
      /\ \A now, own, seen, as, ch : CallAt(e, now, own, seen, as, ch)
  BY <1>1, EndsJudged
<1>3. tool' = [tool EXCEPT ![c] = e]
  OBVIOUS
<1> HIDE DEF e, r
<1> QED  BY <1>2, <1>3, CallOnly

LEMMA AnswerStep ==
    ASSUME BInv, NEW c \in Tools, ExtensionAnswers(c)
    PROVE  BInv'
<1> DEFINE r == tool[c]
<1>1. PICK answer \in {"good", "bad", "error"} :
        tool' = [tool EXCEPT ![c] =
            IF answer = "error" THEN Ends(r, "failed")
            ELSE IF r.kind = "reload"
            THEN [r EXCEPT !.phase = "reloading", !.valid = answer = "good",
                           !.until = clock + ToolTimeout, !.relay = Unset]
            ELSE Ends(r, Verdict(answer = "good"))]
  BY CallFacts DEF ExtensionAnswers
<1>2. UNCHANGED <<clock, role, browserVars, owner, linked, view, memo>> /\ r.phase = "sent"
  BY DEF ExtensionAnswers
<1>3. CASE answer = "error"
  <2>1. tool' = [tool EXCEPT ![c] = Ends(r, "failed")]
    BY <1>1, <1>3
  <2>2. "failed" \in Outcomes \ {"never", "lost"}
    BY DEF Outcomes
  <2> QED  BY <1>2, <2>1, <2>2, CallEnds
<1>4. CASE answer # "error" /\ r.kind # "reload"
  <2>1. tool' = [tool EXCEPT ![c] = Ends(r, Verdict(answer = "good"))]
    BY <1>1, <1>4
  <2>2. Verdict(answer = "good") \in {"ok", "protocol"}
        /\ {"ok", "protocol"} \subseteq Outcomes \ {"never", "lost"}
    BY DEF Verdict, Outcomes
  <2>3. PICK v \in {"ok", "protocol"} : Verdict(answer = "good") = v
    BY <2>2
  <2> QED  BY <1>2, <1>4, <2>1, <2>2, <2>3, CallEnds
<1>5. CASE answer # "error" /\ r.kind = "reload"
  <2> DEFINE e == [r EXCEPT !.phase = "reloading", !.valid = answer = "good",
                            !.until = clock + ToolTimeout, !.relay = Unset]
  <2>1. tool' = [tool EXCEPT ![c] = e]
    BY <1>1, <1>5
  <2>2. /\ r \in ToolRecord /\ Timely(r, clock) /\ OnBridge(r, owner) /\ r.result = Unset
        /\ Awaits(r, clock, owner, view, role, chrome)
    BY <1>2, CallFacts
  <2>3. clock \in Moments /\ clock \in Nat /\ clock + ToolTimeout \in Deadlines
    BY WorldFacts, DeadlineType
  <2> HIDE DEF r
  <2>4. /\ e \in ToolRecord /\ e.phase = "reloading" /\ e.until = clock + ToolTimeout
        /\ e.kind = "reload" /\ e.result = Unset /\ e.start = r.start /\ e.warm = r.warm
        /\ e.on = r.on
    BY <1>5, <2>2, <2>3 DEF ToolRecord
  <2> HIDE DEF e
  <2>5. /\ FullWait \in Nat /\ ToolTimeout \in Nat /\ r.start \in Nat /\ r.until \in Nat
    BY <2>2, <2>3, Constants, DeadlineType, RecordFields
  <2>6. Timely(e, clock)
    BY <1>2, <2>2, <2>3, <2>4, <2>5 DEF Timely
  <2>7. OnBridge(e, owner) /\ Awaits(e, clock, owner, view, role, chrome)
    BY <1>2, <2>2, <2>4 DEF OnBridge, Awaits
  <2>8. CallAt(e, clock, owner, view, role, chrome)
    BY <2>4, <2>6, <2>7, NotJudged DEF CallAt
  <2> QED  BY <1>2, <2>1, <2>4, <2>8, CallOnly
<1> QED  BY <1>3, <1>4, <1>5

LEMMA RequestExpiresStep ==
    ASSUME BInv, NEW c \in Tools, RequestExpires(c)
    PROVE  BInv'
<1>1. /\ tool' = [tool EXCEPT ![c] = Ends(tool[c], "timeout")]
      /\ UNCHANGED <<clock, role, browserVars, owner, linked, view, memo>>
  BY CallFacts DEF RequestExpires
<1>2. "timeout" \in Outcomes \ {"never", "lost"}
  BY DEF Outcomes
<1> QED  BY <1>1, <1>2, CallEnds

\* The owner's timeout was the shorter one.
LEMMA RelayExpiresStep ==
    ASSUME BInv, NEW c \in Tools, RelayExpires(c)
    PROVE  BInv'
<1> DEFINE r == tool[c]
<1>1. /\ tool' = [tool EXCEPT ![c] = Ends(r, "disconnected")]
      /\ UNCHANGED <<clock, role, browserVars, owner, linked, view, memo>>
      /\ r.phase = "sent" /\ r.relay # Unset /\ clock >= r.relay
  BY CallFacts DEF RelayExpires
<1>2. "disconnected" \in Outcomes \ {"never", "lost"}
  BY DEF Outcomes
<1>3. r \in ToolRecord /\ Timely(r, clock)
  BY CallFacts
<1>4. r.proxied /\ clock + ToolTimeout - r.until >= RelayTimeout
  <2>1. /\ clock \in Nat /\ r.until \in Nat /\ r.relay \in Nat
        /\ ToolTimeout \in Nat /\ RelayTimeout \in Nat
    BY <1>1, <1>3, WorldFacts, DeadlineType, RecordFields, Constants
  <2>2. r.proxied /\ r.relay + ToolTimeout = r.until + RelayTimeout
    BY <1>1, <1>3 DEF Timely
  <2> QED  BY <1>1, <2>1, <2>2
<1> QED  BY <1>1, <1>2, <1>4, CallEnds

\* A later session than the one before the reload was seen, and the request was
\* answered on that one, so that there was a hello since.
LEMMA ReloadSeenStep ==
    ASSUME BInv, NEW c \in Tools, ReloadSeen(c)
    PROVE  BInv'
<1> DEFINE r == tool[c]
<1>1. /\ tool' = [tool EXCEPT ![c] = Ends(r, Verdict(r.valid))]
      /\ UNCHANGED <<clock, role, browserVars, owner, linked, view, memo>>
      /\ r.phase = "reloading" /\ Probe.up /\ Probe.session > r.before
  BY CallFacts DEF ReloadSeen, Reconnected
<1>2. Verdict(r.valid) \in {"ok", "protocol"}
      /\ {"ok", "protocol"} \subseteq Outcomes \ {"never", "lost"}
  BY DEF Verdict, Outcomes
<1>3. PICK v \in {"ok", "protocol"} : Verdict(r.valid) = v
  BY <1>2
<1>4. r \in ToolRecord /\ OnBridge(r, owner)
  BY CallFacts
<1>5. r.on = r.before /\ ~r.moved => r.renewed
  <2>1. r.before \in Nat /\ r.on \in Nat /\ owner.session \in Nat /\ Probe.session \in Nat
        /\ Probe.session <= owner.session
    BY <1>1, <1>4, RecordFields, WorldFacts, ProbeFacts, Constants
  <2> QED  BY <1>1, <1>4, <2>1 DEF OnBridge
<1> QED  BY <1>1, <1>2, <1>3, <1>5, CallEnds

LEMMA ReloadExpiresStep ==
    ASSUME BInv, NEW c \in Tools, ReloadExpires(c)
    PROVE  BInv'
<1>1. /\ tool' = [tool EXCEPT ![c] = Ends(tool[c], "timeout")]
      /\ UNCHANGED <<clock, role, browserVars, owner, linked, view, memo>>
  BY CallFacts DEF ReloadExpires
<1>2. "timeout" \in Outcomes \ {"never", "lost"}
  BY DEF Outcomes
<1> QED  BY <1>1, <1>2, CallEnds

LEMMA EscapeStep ==
    ASSUME BInv, NEW c \in Tools, Escape(c)
    PROVE  BInv'
<1> DEFINE r == tool[c]
           e == [r EXCEPT !.aborted = TRUE]
<1>1. /\ tool' = [tool EXCEPT ![c] = IF r.phase = "entered" THEN e ELSE Ends(r, "cancelled")]
      /\ UNCHANGED <<clock, role, browserVars, owner, linked, view, memo>>
  BY CallFacts DEF Escape
<1>2. CASE r.phase = "entered"
  <2>1. /\ r \in ToolRecord /\ Timely(r, clock) /\ r.result = Unset
        /\ Awaits(r, clock, owner, view, role, chrome)
    BY <1>2, CallFacts
  <2>2. tool' = [tool EXCEPT ![c] = e]
    BY <1>1, <1>2
  <2> HIDE DEF r
  <2>3. /\ e \in ToolRecord /\ e.phase = "entered" /\ e.result = Unset
        /\ e.start = r.start /\ e.warm = r.warm
    BY <1>2, <2>1 DEF ToolRecord
  <2> HIDE DEF e
  <2>4. CallAt(e, clock, owner, view, role, chrome)
    BY <1>2, <2>1, <2>3, NotJudged DEF CallAt, Timely, OnBridge, Awaits
  <2> QED  BY <1>1, <2>2, <2>3, <2>4, CallOnly
<1>3. CASE r.phase # "entered"
  <2>1. tool' = [tool EXCEPT ![c] = Ends(r, "cancelled")]
    BY <1>1, <1>3
  <2>2. "cancelled" \in Outcomes \ {"never", "lost"}
    BY DEF Outcomes
  <2> QED  BY <1>1, <2>1, <2>2, CallEnds
<1> QED  BY <1>2, <1>3

-----------------------------------------------------------------------------
(* The steps of the extension, of the owner and of time.                   *)

\* A call of a proxy after the loss of a bridge.
LEMMA RejectedAt ==
    ASSUME BInv, NEW c \in Tools, NEW own, NEW seen, NEW as, NEW ch,
           NEW r, r = tool[c], NEW e, e = RejectedTool(r),
           chrome = "warm" => ch = "warm",
           r.phase = "reloading" => own.session = owner.session,
           r.phase = "waiting" => r.proxied
    PROVE  /\ e \in ToolRecord /\ CallAt(e, clock, own, seen, as, ch)
           /\ e.phase = "waiting" => r.phase = "waiting"
<1>1. /\ clock \in Moments /\ r \in ToolRecord /\ Judged(r) /\ Timely(r, clock)
      /\ OnBridge(r, owner) /\ Awaits(r, clock, owner, view, role, chrome)
  BY CallFacts
<1>2. /\ e \in ToolRecord /\ Judged(e)
      /\ r.phase \in {"idle", "done"} => e = r
      /\ r.phase = "sent" => e.phase = "done"
      /\ r.phase \in {"entered", "waiting", "reloading"} =>
            e = [r EXCEPT !.lossSeen = TRUE]
  BY <1>1, RejectedFacts
<1>3. CASE r.phase \in {"idle", "done", "sent"}
  BY <1>2, <1>3, DoneAt
<1>4. CASE r.phase \in {"entered", "waiting", "reloading"}
  <2>1. /\ e.phase = r.phase /\ e.lossSeen /\ e.start = r.start /\ e.until = r.until
        /\ e.kind = r.kind /\ e.warm = r.warm /\ e.proxied = r.proxied /\ e.on = r.on
        /\ e.renewed = r.renewed /\ e.moved = r.moved /\ e.budget = r.budget
        /\ e.blind = r.blind
    BY <1>1, <1>2, <1>4 DEF ToolRecord
  <2>2. Timely(e, clock)
    BY <1>1, <1>4, <2>1 DEF Timely
  <2>3. OnBridge(e, own)
    BY <1>1, <1>4, <2>1 DEF OnBridge
  <2>4. Awaits(e, clock, own, seen, as, ch)
    BY <1>1, <1>4, <2>1 DEF Awaits
  <2> QED  BY <1>2, <2>1, <2>2, <2>3, <2>4 DEF CallAt
<1>5. r.phase \in {"idle", "entered", "waiting", "sent", "reloading", "done"}
  BY <1>1, RecordFields
<1> QED  BY <1>3, <1>4, <1>5

\* A call that Chrome has not been there for all along makes no claim about Chrome.
LEMMA UnwarmedAt ==
    ASSUME NEW r \in ToolRecord, NEW now, NEW own, NEW seen, NEW as, NEW ch, NEW chNow,
           CallAt(r, now, own, seen, as, ch), NEW e, e = Unwarmed(r)
    PROVE  e \in ToolRecord /\ CallAt(e, now, own, seen, as, chNow) /\ e.phase = r.phase
<1>1. CASE r.phase \in {"idle", "done"}
  <2>1. e = r
    BY <1>1 DEF Unwarmed
  <2> QED  BY <1>1, <2>1, DoneAt DEF CallAt
<1>2. CASE r.phase \notin {"idle", "done"}
  <2>1. e = [r EXCEPT !.warm = FALSE]
    BY <1>2 DEF Unwarmed
  <2>2. /\ e \in ToolRecord /\ e.phase = r.phase /\ e.lossSeen = r.lossSeen /\ e.start = r.start
        /\ e.until = r.until /\ e.relay = r.relay /\ e.kind = r.kind /\ ~e.warm
        /\ e.proxied = r.proxied /\ e.on = r.on /\ e.renewed = r.renewed /\ e.moved = r.moved
        /\ e.budget = r.budget /\ e.result = r.result /\ e.blind = r.blind
    BY <2>1 DEF ToolRecord
  <2>3. Judged(e)
    BY <1>2, <2>2, NotJudged DEF CallAt, Judged
  <2>4. Timely(e, now)
    BY <2>2 DEF CallAt, Timely
  <2>5. OnBridge(e, own)
    BY <2>2 DEF CallAt, OnBridge
  <2>6. Awaits(e, now, own, seen, as, chNow)
    BY <2>2 DEF CallAt, Awaits
  <2> QED  BY <2>2, <2>3, <2>4, <2>5, <2>6 DEF CallAt
<1> QED  BY <1>1, <1>2

LEMMA GreetStep ==
    ASSUME BInv, Greet
    PROVE  BInv'
<1>1. /\ chrome' = "warm" /\ owner' = Connected /\ memo' = Forgiven
      /\ tool' = [c \in Tools |-> Greeted(tool[c], owner')]
      /\ clock' = clock /\ role' = role /\ view' = view /\ quits' = quits
      /\ failovers' = failovers /\ owner.session < MaxSessions /\ linked' = linked
  BY DEF Greet
<1>2. /\ clock \in Moments /\ clock \in Nat /\ owner.session \in 0..MaxSessions
      /\ role \in {"primary", "proxy"} /\ WorldInv
      /\ owner \in [up : BOOLEAN, session : 0..MaxSessions, ever : BOOLEAN,
                    since : Moments, lost : Moments]
  BY WorldFacts
<1>3. /\ owner' \in [up : BOOLEAN, session : 0..MaxSessions, ever : BOOLEAN,
                     since : Moments, lost : Moments]
      /\ owner'.up /\ owner'.ever /\ owner'.session = owner.session + 1
      /\ owner'.lost = owner.lost /\ owner'.since = owner.since
  <2>1. owner' = [owner EXCEPT !.up = TRUE, !.session = owner.session + 1, !.ever = TRUE]
    BY <1>1, <1>2 DEF Connected
  <2>2. owner.session + 1 \in 0..MaxSessions
    BY <1>1, <1>2, Constants
  <2> QED  BY <1>2, <2>1, <2>2
<1>4. ASSUME NEW c \in Tools
      PROVE  /\ tool'[c] \in ToolRecord
             /\ CallAt(tool'[c], clock', owner', view', role', chrome')
             /\ role = "proxy" /\ tool'[c].phase = "waiting" => tool[c].phase = "waiting"
  <2> DEFINE r == tool[c]
             e == Greeted(r, owner')
  <2>1. tool'[c] = e
    BY <1>1
  <2>2. /\ r \in ToolRecord /\ CallAt(r, clock, owner, view, role, chrome)
        /\ Judged(r) /\ Timely(r, clock) /\ OnBridge(r, owner)
        /\ Awaits(r, clock, owner, view, role, chrome)
        /\ r.phase # "done" => r.result = Unset
    BY CallFacts
  <2>3. /\ e \in ToolRecord /\ CallAt(e, clock, owner', view, role, "warm")
        /\ role = "proxy" /\ e.phase = "waiting" => r.phase = "waiting"
    <3>1. CASE r.phase = "waiting" /\ role = "primary"
      <4>1. e = Proceeds(r, owner', owner')
        BY <3>1 DEF Greeted
      <4> HIDE DEF e, r
      <4>2. clock <= r.start + FullWait
        <5>1. clock \in Nat /\ r.until \in Nat /\ r.start \in Nat /\ FullWait \in Nat
          BY <1>2, <2>2, DeadlineType, RecordFields, Constants
        <5> QED  BY <2>2, <3>1, <5>1 DEF Timely
      <4>3. \A seen, as : CallAt(e, clock, owner', seen, as, "warm") /\ e \in ToolRecord
        BY <1>2, <1>3, <2>2, <3>1, <4>1, <4>2, ProceedsFacts
      <4> QED  BY <3>1, <4>3
    <3>2. CASE r.phase = "reloading"
      <4>1. e = [r EXCEPT !.renewed = TRUE]
        BY <3>2 DEF Greeted
      <4> HIDE DEF e, r
      <4>2. /\ e \in ToolRecord /\ e.phase = "reloading" /\ e.result = Unset /\ e.renewed
            /\ e.kind = r.kind /\ e.until = r.until /\ e.start = r.start
        BY <2>2, <3>2, <4>1 DEF ToolRecord
      <4>3. Timely(e, clock) /\ OnBridge(e, owner')
            /\ Awaits(e, clock, owner', view, role, "warm")
        BY <2>2, <3>2, <4>2 DEF Timely, OnBridge, Awaits
      <4> QED  BY <4>2, <4>3, NotJudged DEF CallAt
    <3>3. CASE r.phase # "reloading" /\ ~(r.phase = "waiting" /\ role = "primary") /\ owner.up
      <4>1. e = RejectedTool(r)
        BY <3>3 DEF Greeted
      <4>2. r.phase = "waiting" => r.proxied
        BY <1>2, <2>2, <3>3 DEF Awaits
      <4> HIDE DEF e
      <4> QED  BY <3>3, <4>1, <4>2, RejectedAt
    <3>4. CASE r.phase # "reloading" /\ ~(r.phase = "waiting" /\ role = "primary") /\ ~owner.up
      <4>1. e = r /\ r.phase # "sent"
        BY <2>2, <3>4 DEF Greeted, OnBridge
      <4> HIDE DEF e, r
      <4>2. OnBridge(r, owner')
        BY <3>4, <4>1 DEF OnBridge
      <4>3. Awaits(r, clock, owner', view, role, "warm")
        BY <1>2, <1>3, <2>2, <3>4 DEF Awaits
      <4> QED  BY <2>2, <4>1, <4>2, <4>3 DEF CallAt
    <3> QED  BY <3>1, <3>2, <3>3, <3>4
  <2> QED  BY <1>1, <2>1, <2>3
<1>5. tool' \in [Tools -> ToolRecord] /\ CallInv'
  <2>1. tool' = [c \in Tools |-> tool'[c]]
    BY <1>1
  <2> QED  BY <1>4, <2>1 DEF CallInv
<1>6. memo' \in [misses : 0..MissThreshold, since : Moments \cup {Unset}]
      /\ (role = "primary" => memo'.since = Unset)
  BY <1>1, <1>2, WorldFacts DEF Forgiven, NoMisses, MissThreshold
<1>7. CallsTypeOK'
  BY <1>1, <1>3, <1>5, <1>6 DEF BInv, CallsTypeOK, Moments
<1>8. HeardInv'
  <2>1. view.session \in Nat /\ owner.session \in Nat
    BY WorldFacts, Constants
  <2> QED  BY <1>1, <1>2, <1>3, <1>4, <2>1 DEF WorldInv, HeardInv
<1>9. MemoInv'
  <2>1. CASE role = "primary"
    BY <1>1, <1>6, <2>1 DEF MemoInv
  <2>2. CASE role = "proxy"
    <3>1. view.session \in Nat /\ owner.session \in Nat /\ memo' = memo
      BY <1>1, <2>2, WorldFacts, Constants DEF Forgiven
    <3>2. linked => view.session < owner'.session
      BY <1>2, <1>3, <3>1 DEF WorldInv, HeardInv
    <3> QED  BY <1>1, <1>2, <1>3, <2>2, <3>1, <3>2 DEF WorldInv, MemoInv
  <2> QED  BY <1>2, <2>1, <2>2
<1>10. WorldInv'
  <2>1. owner'.session > 0
    BY <1>2, <1>3, Constants
  <2> QED  BY <1>1, <1>2, <1>3, <1>8, <1>9, <2>1 DEF WorldInv
<1> QED  BY <1>5, <1>7, <1>10 DEF BInv

LEMMA BridgeDropsStep ==
    ASSUME BInv, BridgeDrops
    PROVE  BInv'
<1>1. /\ owner.up /\ owner' = [owner EXCEPT !.up = FALSE, !.lost = clock]
      /\ clock' = clock /\ role' = role /\ view' = view /\ quits' = quits
      /\ failovers' = failovers /\ memo' = memo /\ linked' = linked
      /\ \/ chrome' = "warm" /\ tool' = [c \in Tools |-> RejectedTool(tool[c])]
         \/ chrome' = "cold" /\ tool' = [c \in Tools |-> Unwarmed(RejectedTool(tool[c]))]
  BY DEF BridgeDrops
<1>2. /\ clock \in Moments /\ clock \in Nat /\ role \in {"primary", "proxy"} /\ WorldInv
      /\ owner \in [up : BOOLEAN, session : 0..MaxSessions, ever : BOOLEAN,
                    since : Moments, lost : Moments]
      /\ chrome = "warm" /\ owner.ever
  BY <1>1, WorldFacts
<1>3. /\ owner' \in [up : BOOLEAN, session : 0..MaxSessions, ever : BOOLEAN,
                     since : Moments, lost : Moments]
      /\ ~owner'.up /\ owner'.ever = owner.ever /\ owner'.session = owner.session
      /\ owner'.lost = clock /\ owner'.since = owner.since
  BY <1>1, <1>2
<1>4. ASSUME NEW c \in Tools
      PROVE  /\ tool'[c] \in ToolRecord
             /\ CallAt(tool'[c], clock', owner', view', role', chrome')
             /\ tool'[c].phase = "waiting" => tool[c].phase = "waiting"
  <2> DEFINE r == tool[c]
             e == RejectedTool(r)
  <2>1. r.phase = "waiting" => r.proxied
    BY <1>1, CallFacts DEF Awaits
  <2>2. /\ e \in ToolRecord /\ CallAt(e, clock, owner', view, role, "warm")
        /\ e.phase = "waiting" => r.phase = "waiting"
    BY <1>3, <2>1, RejectedAt
  <2> HIDE DEF e
  <2>3. CASE chrome' = "warm" /\ tool'[c] = e
    BY <1>1, <2>2, <2>3
  <2>4. CASE chrome' = "cold" /\ tool'[c] = Unwarmed(e)
    BY <1>1, <2>2, <2>4, UnwarmedAt
  <2> QED  BY <1>1, <2>3, <2>4 DEF e
<1>5. tool' \in [Tools -> ToolRecord] /\ CallInv'
  <2>1. tool' = [c \in Tools |-> tool'[c]]
    BY <1>1
  <2> QED  BY <1>4, <2>1 DEF CallInv
<1>6. CallsTypeOK'
  BY <1>1, <1>3, <1>5 DEF BInv, CallsTypeOK, Moments
<1>7. HeardInv'
  BY <1>1, <1>2, <1>3, <1>4 DEF WorldInv, HeardInv
<1>8. MemoInv'
  BY <1>1, <1>2, <1>3 DEF WorldInv, MemoInv
<1>9. WorldInv'
  BY <1>1, <1>2, <1>3, <1>7, <1>8, Constants DEF WorldInv
<1> QED  BY <1>5, <1>6, <1>9 DEF BInv

\* Chrome opens or is closed.
LEMMA ChromeStep ==
    ASSUME BInv, ChromeOpens \/ ChromeQuits
    PROVE  BInv'
<1>1. /\ clock' = clock /\ role' = role /\ view' = view /\ owner' = owner
      /\ failovers' = failovers /\ memo' = memo /\ linked' = linked /\ ~owner.up
      /\ chrome' \in {"closed", "cold"} /\ quits' \in 0..MaxQuits
      /\ \/ chrome = "closed" /\ tool' = tool
         \/ tool' = [c \in Tools |-> Unwarmed(tool[c])]
  <2>1. CASE ChromeOpens
    BY <2>1, WorldFacts DEF ChromeOpens, BInv, CallsTypeOK
  <2>2. CASE ChromeQuits
    BY <2>2, Constants DEF ChromeQuits, BInv, CallsTypeOK
  <2> QED  BY <2>1, <2>2
<1>2. ASSUME NEW c \in Tools
      PROVE  /\ tool'[c] \in ToolRecord
             /\ CallAt(tool'[c], clock', owner', view', role', chrome')
             /\ tool'[c].phase = tool[c].phase
  <2>1. tool[c] \in ToolRecord /\ CallAt(tool[c], clock, owner, view, role, chrome)
    BY CallFacts
  <2>2. CASE chrome = "closed" /\ tool' = tool
    <3>1. CallAt(tool[c], clock, owner, view, role, chrome')
      BY <2>1, <2>2 DEF CallAt, Awaits
    <3> QED  BY <1>1, <2>1, <2>2, <3>1
  <2>3. CASE tool' = [d \in Tools |-> Unwarmed(tool[d])]
    <3>1. tool'[c] = Unwarmed(tool[c])
      BY <2>3
    <3> QED  BY <1>1, <2>1, <3>1, UnwarmedAt
  <2> QED  BY <1>1, <2>2, <2>3
<1>3. tool' \in [Tools -> ToolRecord] /\ CallInv'
  <2>1. tool' = [c \in Tools |-> tool'[c]]
    BY <1>1 DEF BInv, CallsTypeOK
  <2> QED  BY <1>2, <2>1 DEF CallInv
<1>4. CallsTypeOK'
  BY <1>1, <1>3 DEF BInv, CallsTypeOK, Moments
<1>5. WorldInv'
  BY <1>1, <1>2, WorldFacts DEF WorldInv, HeardInv, MemoInv
<1> QED  BY <1>3, <1>4, <1>5 DEF BInv

\* A proxy hears of the bridge, by notifications or by the probe of a new connection.
LEMMA HearsStep ==
    ASSUME BInv, Notified \/ Relinks
    PROVE  BInv'
<1>1. /\ role = "proxy" /\ linked' = TRUE /\ view' = Snapshot /\ clock' = clock
      /\ role' = role /\ owner' = owner /\ tool' = tool /\ chrome' = chrome
      /\ quits' = quits /\ failovers' = failovers /\ memo' = Told
  <2>1. WorldInv /\ role \in {"primary", "proxy"} /\ linked \in BOOLEAN
    BY WorldFacts
  <2>2. CASE Notified
    BY <2>1, <2>2 DEF Notified, browserVars, WorldInv, HeardInv
  <2>3. CASE Relinks
    BY <2>3, ToldFacts DEF Relinks, browserVars
  <2> QED  BY <2>2, <2>3
<1>2. view'.up = owner.up
  BY <1>1, SnapshotFacts
<1>3. \A c \in Tools : CallAt(tool[c], clock, owner, view', role, chrome)
  BY <1>2, CallFacts DEF CallAt, Awaits
<1>4. tool' \in [Tools -> ToolRecord] /\ CallInv'
  BY <1>1, <1>3 DEF BInv, CallsTypeOK, CallInv
<1> QED  BY <1>1, <1>4, SameWorld

LEMMA OwnerDiesStep ==
    ASSUME BInv, OwnerDies
    PROVE  BInv'
<1>1. /\ role = "proxy" /\ owner' = NewOwner /\ linked' = FALSE
      /\ view' \in {NoBridge, [view EXCEPT !.up = FALSE]}
      /\ clock' = clock /\ chrome' = chrome /\ quits' = quits
      /\ role' \in {"primary", "proxy"} /\ failovers' \in 0..MaxFailovers
      /\ memo' = memo \/ memo' = NoMisses
      /\ role' = "primary" => memo' = NoMisses /\ view' = NoBridge
      /\ tool' = [c \in Tools |-> Orphaned(tool[c])]
  BY Constants DEF OwnerDies, BInv, CallsTypeOK
<1>2. /\ clock \in Moments /\ clock \in Nat /\ WorldInv
      /\ memo \in [misses : 0..MissThreshold, since : Moments \cup {Unset}]
      /\ view \in [up : BOOLEAN, session : 0..MaxSessions, ever : BOOLEAN]
      /\ memo.since # Unset => memo.since \in Nat
  BY WorldFacts
<1>3. /\ owner' \in [up : BOOLEAN, session : 0..MaxSessions, ever : BOOLEAN,
                     since : Moments, lost : Moments]
      /\ ~owner'.up /\ ~owner'.ever /\ owner'.session = 0
      /\ owner'.lost = clock /\ owner'.since = clock
  BY <1>1, <1>2, Constants DEF NewOwner
<1>4. /\ view' \in [up : BOOLEAN, session : 0..MaxSessions, ever : BOOLEAN]
      /\ ~view'.up
  <2>1. NoBridge \in [up : BOOLEAN, session : 0..MaxSessions, ever : BOOLEAN] /\ ~NoBridge.up
    BY Constants DEF NoBridge
  <2> QED  BY <1>1, <1>2, <2>1
<1>5. ASSUME NEW c \in Tools
      PROVE  /\ tool'[c] \in ToolRecord
             /\ CallAt(tool'[c], clock', owner', view', role', chrome')
  <2> DEFINE r == tool[c]
             e == RejectedTool(r)
             m == [e EXCEPT !.moved = @ \/ r.phase \notin {"idle", "done"}]
  <2>1. tool'[c] = m
    BY <1>1 DEF Orphaned
  <2>2. /\ r \in ToolRecord /\ Judged(r) /\ Timely(r, clock)
        /\ Awaits(r, clock, owner, view, role, chrome)
        /\ r.phase # "done" => r.result = Unset
    BY CallFacts
  <2> HIDE DEF r
  <2>3. /\ e \in ToolRecord /\ Judged(e)
        /\ r.phase \in {"idle", "done"} => e = r
        /\ r.phase = "sent" => e.phase = "done"
        /\ r.phase \in {"entered", "waiting", "reloading"} =>
              e = [r EXCEPT !.lossSeen = TRUE]
    BY <1>2, <2>2, RejectedFacts
  <2> HIDE DEF e
  <2>4. /\ m \in ToolRecord /\ m.phase = e.phase /\ m.result = e.result /\ m.kind = e.kind
        /\ m.lossSeen = e.lossSeen /\ m.proxied = e.proxied /\ m.waited = e.waited
        /\ m.warm = e.warm /\ m.budget = e.budget /\ m.on = e.on /\ m.before = e.before
        /\ m.renewed = e.renewed /\ m.start = e.start /\ m.until = e.until
        /\ m.blind = e.blind
        /\ e.moved => m.moved
        /\ r.phase \notin {"idle", "done"} => m.moved
    BY <2>3 DEF ToolRecord
  <2> HIDE DEF m
  <2>5. Judged(m)
    BY <2>3, <2>4 DEF Judged
  <2>6. CASE e.phase \in {"idle", "done"}
    BY <2>1, <2>4, <2>5, <2>6, DoneAt
  <2>7. CASE e.phase \notin {"idle", "done"}
    <3>1. r.phase \in {"entered", "waiting", "reloading"}
      BY <2>2, <2>3, <2>7, RecordFields
    <3>2. /\ e.phase = r.phase /\ e.lossSeen /\ e.start = r.start /\ e.until = r.until
          /\ e.kind = r.kind /\ e.warm = r.warm /\ e.proxied = r.proxied
          /\ e.budget = r.budget /\ e.blind = r.blind
      BY <2>2, <2>3, <3>1 DEF ToolRecord
    <3>3. Timely(m, clock)
      BY <2>2, <2>4, <3>1, <3>2 DEF Timely
    <3>4. OnBridge(m, owner')
      BY <2>4, <3>1, <3>2 DEF OnBridge
    <3>5. Awaits(m, clock, owner', view', role', chrome)
      BY <1>1, <1>4, <2>2, <2>4, <3>1, <3>2 DEF Awaits
    <3> QED  BY <1>1, <2>1, <2>4, <2>5, <3>3, <3>4, <3>5 DEF CallAt
  <2> QED  BY <2>6, <2>7
<1>6. tool' \in [Tools -> ToolRecord] /\ CallInv'
  <2>1. tool' = [c \in Tools |-> tool'[c]]
    BY <1>1
  <2> QED  BY <1>5, <2>1 DEF CallInv
<1>7. memo' \in [misses : 0..MissThreshold, since : Moments \cup {Unset}]
      /\ (role' = "primary" => memo'.since = Unset)
  BY <1>1, <1>2 DEF NoMisses, MissThreshold
<1>8. CallsTypeOK'
  BY <1>1, <1>3, <1>4, <1>6, <1>7 DEF BInv, CallsTypeOK, Moments
<1>9. HeardInv'
  BY <1>1, <1>3, <1>4 DEF HeardInv
<1>10. MemoInv'
  <2>1. memo'.since # Unset => memo'.since = memo.since
    BY <1>1 DEF NoMisses
  <2>2. memo.since # Unset => memo.since <= clock
    BY <1>2 DEF WorldInv, MemoInv
  <2>3. memo'.since # Unset => memo'.since <= clock /\ ~(clock < memo'.since)
    BY <1>2, <2>1, <2>2
  <2> QED  BY <1>1, <1>3, <1>7, <2>3 DEF MemoInv
<1>11. WorldInv'
  BY <1>1, <1>2, <1>3, <1>9, <1>10, Constants DEF WorldInv
<1> QED  BY <1>6, <1>8, <1>11 DEF BInv

LEMMA ElapseStep ==
    ASSUME BInv, Elapse
    PROVE  BInv'
<1>1. /\ clock' = clock + 1 /\ role' = role /\ view' = view /\ owner' = owner
      /\ failovers' = failovers /\ memo' = memo /\ tool' = tool
      /\ chrome' = chrome /\ quits' = quits /\ clock < MaxClock /\ linked' = linked
      /\ chrome = "warm" /\ ~owner.up => clock - owner.lost < Backoff
  BY DEF Elapse, browserVars
<1>2. /\ clock \in Nat /\ WorldInv /\ owner.lost \in Nat /\ owner.since \in Nat
      /\ MaxClock \in Nat /\ Backoff \in Nat /\ FullWait \in Nat /\ ToolTimeout \in Nat
      /\ RelayTimeout \in Nat
  BY WorldFacts, Constants
<1>3. clock' \in Moments
  BY <1>1, <1>2 DEF Moments
<1>4. ASSUME NEW c \in Tools
      PROVE  CallAt(tool[c], clock + 1, owner, view, role, chrome)
  <2> DEFINE r == tool[c]
  <2>1. /\ r \in ToolRecord /\ Judged(r) /\ Timely(r, clock) /\ OnBridge(r, owner)
        /\ Awaits(r, clock, owner, view, role, chrome)
    BY CallFacts
  <2>2. /\ r.phase # "entered"
        /\ r.phase \in {"waiting", "sent", "reloading"} => clock < r.until
        /\ r.phase = "waiting" => ~owner.up
    BY DEF Elapse
  <2> HIDE DEF r
  <2>3. r.until \in Nat /\ r.start \in Nat
    BY <2>1, WorldFacts, DeadlineType, RecordFields
  <2>4. Timely(r, clock + 1)
    <3>1. r.phase \in {"waiting", "sent", "reloading"} => clock + 1 <= r.until
      BY <1>2, <2>2, <2>3
    <3>2. r.phase = "sent" => r.until <= clock + 1 + ToolTimeout
      BY <1>2, <2>1, <2>3 DEF Timely
    <3> QED  BY <2>1, <2>2, <3>1, <3>2 DEF Timely
  <2>5. Awaits(r, clock + 1, owner, view, role, chrome)
    <3>1. r.phase = "waiting" /\ r.warm => clock + 1 <= owner.lost + Backoff
      BY <1>1, <1>2, <2>1, <2>2 DEF Awaits
    <3> QED  BY <2>1, <3>1 DEF Awaits
  <2> QED  BY <2>1, <2>4, <2>5 DEF CallAt, r
<1>5. CallInv'
  BY <1>1, <1>4 DEF CallInv
<1>6. CallsTypeOK'
  BY <1>1, <1>3 DEF BInv, CallsTypeOK, Moments
<1>7. HeardInv'
  <2>1. \A c \in Tools : tool[c].phase = "waiting" => linked = (role = "proxy")
    BY DEF Elapse
  <2> QED  BY <1>1, <1>2, <2>1 DEF WorldInv, HeardInv
<1>8. MemoInv'
  <2>1. memo.since # Unset => memo.since \in Nat
    BY WorldFacts
  <2> QED  BY <1>1, <1>2, <2>1 DEF WorldInv, MemoInv
<1>9. WorldInv'
  BY <1>1, <1>2, <1>7, <1>8 DEF WorldInv
<1> QED  BY <1>5, <1>6, <1>9 DEF BInv

LEMMA Beginning == CallsInit => BInv
<1> SUFFICES ASSUME CallsInit
             PROVE  BInv
  OBVIOUS
<1>1. clock \in Moments /\ clock = 0
  BY Constants DEF CallsInit, Moments
<1>2. /\ owner \in [up : BOOLEAN, session : 0..MaxSessions, ever : BOOLEAN,
                    since : Moments, lost : Moments]
      /\ ~owner.up /\ ~owner.ever /\ owner.session = 0 /\ owner.lost = 0 /\ owner.since = 0
  BY <1>1, Constants DEF CallsInit, NewOwner
<1>3. tool \in [Tools -> ToolRecord] /\ \A c \in Tools : tool[c] = NotCalled
  BY NotCalledType DEF CallsInit
<1>4. \A c \in Tools : CallAt(tool[c], clock, owner, view, role, chrome)
  <2>1. NotCalled.phase = "idle" /\ NotCalled.result = Unset
    BY DEF NotCalled
  <2>2. Judged(NotCalled)
    BY <2>1, NotJudged
  <2> QED  BY <1>3, <2>1, <2>2, DoneAt
<1>5. CallsTypeOK
  BY <1>1, <1>2, <1>3, Constants DEF CallsInit, CallsTypeOK, NoBridge, NoMisses, MissThreshold
<1>6. WorldInv
  BY <1>1, <1>2, <1>3, Constants DEF CallsInit, WorldInv, HeardInv, MemoInv, NoBridge, NoMisses,
     NotCalled
<1> QED  BY <1>4, <1>5, <1>6 DEF BInv, CallInv

LEMMA Steps == BInv /\ [CallsNext]_callsVars => BInv'
<1> SUFFICES ASSUME BInv, [CallsNext]_callsVars
             PROVE  BInv'
  OBVIOUS
<1>1. ASSUME NEW c \in Tools, ToolStep(c)
      PROVE  BInv'
  BY <1>1, ExecuteStep, AwaitStep, RoundStep, BudgetSpentStep, AnswerStep, RequestExpiresStep,
     RelayExpiresStep, ReloadSeenStep, ReloadExpiresStep, EscapeStep DEF ToolStep
<1>2. CASE UNCHANGED callsVars
  BY <1>2 DEF callsVars, browserVars, BInv, CallsTypeOK, WorldInv, HeardInv, MemoInv, CallInv,
              Moments
<1> QED
  BY <1>1, <1>2, GreetStep, BridgeDropsStep, ChromeStep, HearsStep, OwnerDiesStep, ElapseStep
     DEF CallsNext

-----------------------------------------------------------------------------
(* The theorems.                                                           *)

\* Every state of the program satisfies the invariant.
THEOREM CallsInvariance == CallsSpec => []BInv
<1>1. CallsInit => BInv
  BY Beginning
<1>2. BInv /\ [CallsNext]_callsVars => BInv'
  BY Steps
<1> QED  BY <1>1, <1>2, PTL DEF CallsSpec

\* Every variable keeps its type; a bridge that is up was greeted by a Chrome
\* that dials.
THEOREM CallTypes == CallsSpec => []CallsTypeOK
<1>1. BInv => CallsTypeOK
  BY DEF BInv
<1> QED  BY <1>1, CallsInvariance, PTL

\* The reload tool never reports success for the session it was itself answered
\* on: waitForBridgeSessionChange() has seen a hello.
THEOREM ReloadsAreReal == CallsSpec => []ReloadIsReal
<1>1. BInv => ReloadIsReal
  BY CallFacts DEF ReloadIsReal, Judged
<1> QED  BY <1>1, CallsInvariance, PTL

\* The full budget covers every warm reconnect (server.ts:47): only a proxy that
\* waited the short one can blame a Chrome that was dialling all along, and only for
\* want of news: a bridge_state notification of a hello ends the memo (remote.ts:628).
THEOREM WarmReconnectsAreCovered == CallsSpec => []WarmReconnect
<1>1. BInv => WarmReconnect
  BY CallFacts DEF WarmReconnect, Judged
<1> QED  BY <1>1, CallsInvariance, PTL

\* No reconnect and no failover prolongs a call beyond its own budgets.
THEOREM CallsAreBounded == CallsSpec => []BoundedCall
<1>1. ASSUME BInv, NEW c \in Tools, Active(c)
      PROVE  clock - tool[c].start <=
                 FullWait + ToolTimeout + (IF tool[c].kind = "reload" THEN ToolTimeout ELSE 0)
  <2> DEFINE r == tool[c]
  <2>1. r \in ToolRecord /\ Timely(r, clock)
    BY <1>1, CallFacts
  <2>2. r.phase \in {"entered", "waiting", "sent", "reloading"}
    BY <1>1, <2>1, RecordFields DEF Active
  <2> HIDE DEF r
  <2>3. /\ clock \in Nat /\ r.start \in Nat /\ r.until \in Nat
        /\ FullWait \in Nat /\ ToolTimeout \in Nat
    BY <1>1, <2>1, WorldFacts, DeadlineType, RecordFields, Constants
  <2>4. CASE r.phase = "reloading"
    BY <2>1, <2>3, <2>4 DEF Timely, r
  <2>5. CASE r.phase \in {"entered", "waiting", "sent"}
    <3>1. clock <= r.start + FullWait + ToolTimeout
      BY <2>1, <2>3, <2>5 DEF Timely
    <3> QED  BY <2>3, <3>1 DEF r
  <2> QED  BY <2>2, <2>4, <2>5
<1>2. BInv => BoundedCall
  BY <1>1 DEF BoundedCall
<1> QED  BY <1>2, CallsInvariance, PTL

\* A timeout is never taken for the loss of the bridge, but where the owner's own
\* timeout was the shorter one.
THEOREM DisconnectsAreExplained == CallsSpec => []DisconnectExplained
<1>1. BInv => DisconnectExplained
  BY CallFacts DEF DisconnectExplained, Judged
<1> QED  BY <1>1, CallsInvariance, PTL
=============================================================================
