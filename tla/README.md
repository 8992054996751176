# A TLA+ model of pi-browser-agent

pi-browser-agent gives a pi session the tools of a Chrome extension. Several pi
processes run at once; one of them listens on `127.0.0.1:7878` (the *primary
broker*), the extension connects to it (the *bridge*), and the others send their
tool calls through it (*proxy brokers*). When the owner of the port goes away,
one of the others takes its place. This directory models the parts of that
machine that are hard to test: who owns the port, who believes what about the
bridge, what happens to the calls under way while that changes, and what the
user and the other processes are told of it.

Run a configuration with `tlc -config <cfg> <MC module>`, a proof with
`tlapm <module>.tla`.

## Inventory

| Component | Source | State | Operations | Talks to | Hard part | Module |
|---|---|---|---|---|---|---|
| Primary broker | `broker/server.ts` | listener, connections, the active bridge, pending requests, waiters, heartbeat, queue of lifecycle operations | accept, hello, probe, relayed request, response, close, heartbeat, `request`, `waitForBridge`, `ensureReady`, `start`, `stop` | extension, peer brokers, tools | every callback runs between the awaits of `start()`, `stop()` and the calls | `BridgeBroker`, `BridgeCalls` |
| Proxy broker | `broker/remote.ts` | socket and whether it was validated, cached probe, promotion, heal timer, connect promise, pending requests | connect, probe, notify, close, heal, promote or reconnect, `request`, `ensureReady`, `start`, `stop` | the owner of the port, other proxies through the bind race, its own promoted broker | failover, stale snapshots, `stop()` racing a promotion | `ProxyBroker` |
| Session lifecycle | `index.ts` | broker singleton, startup promise, shutdown and suspension flags, generation counters | session start and shutdown, SIGTSTP and SIGCONT, acquisition | brokers, handles, pi | late brokers, competing brokers, Ctrl+Z in the middle of anything | `SessionLifecycle` |
| Lazy handle | `broker/lazy.ts` | current broker, resolving, disposed | `resolve`, `ensureReady`, `dispose`, `probeConnectivity` | tools, the acquisition of `index.ts` | calls that outlive the session | `SessionLifecycle` |
| Task history | `broker/task-store.ts`, `tools/browser_task_tools.ts` | one JSON-lines file per task, shared by all processes | `append`, `read`, `list`, `gc`, `browser_run_task`, `browser_get_task_history`, `browser_list_tasks` | the disk, other processes | no lock between writer, lister and collector; crashes | `TaskHistory`, `TaskLedger` |
| Cancellation | `broker/abort.ts` | an AbortSignal per call | `onAbort`, `throwIfAborted`, `sleepUnlessAborted` | both brokers | the signal fires around a registration | in `BridgeBroker`, `BrowserCalls` |
| Health reporter | `broker/health-reporter.ts`, `index.ts:360` | disconnected since, warned, status | `observe`, `resume`, `dispose` | pi's UI, the recovery timer | grace period across a suspension | `HealthReporter` |
| Instance discovery | `util/instances.ts`, `util/paths.ts` | one file per process | write, remove, list and collect | the disk, other processes | unlocked files, promotion writes that nobody awaits | `InstanceDiscovery` |
| Extension reload | `tools/browser_js_navigation_tools.ts:462` | the bridge session it saw before | reload, wait for a new session | broker | the old session taken for the new one | `BrowserCalls` |
| Frame protocol | `broker/protocol.ts` | none | parse and build frames | brokers | malformed frames | not modelled |
| Diagnostics | `broker/diagnostics.ts` | none | classify a probe | tools | precedence of causes | in `BrowserCalls` |
| Other tools | `tools/read_only/*`, `browser_observability_tools.ts`, `browser_agent_tools.ts`, `_register.ts`, `native-result.ts`, `util/truncate.ts` | a table of tools per session | ensureReady, probe, request, format | broker | how long a call takes and how it says that it failed | `BrowserCalls` |
| Chrome extension, pi, the network | external | | | | | as environment actions |

What makes each modelled component correct:

* **Primary broker** — a caller never waits on a bridge that is gone; the loss of
  the active bridge is never missed; peers are told of every transition;
  `stop()` leaves nothing behind and never hangs; Escape releases a call.
* **Proxy broker** — it claims a bridge only if there is one; it never stops
  looking for an owner; `stop()` wins against everything that is under way;
  every call ends.
* **Session lifecycle** — one process has at most one broker that competes for
  the port; each such broker is known to somebody who will stop it; after a
  shutdown nothing comes back; a suspended process has left the port; a session
  is served again after any of this.
* **Task history** — what is on disk is what the tool said; appends do not spoil
  each other; a collector removes old histories only; nobody sees a run as running
  that is over, or a verdict that changes.
* **Browser calls** — a call waits for an extension that is on its way and not
  for one that is absent, never longer than its budget; what it reports is what
  happened: a lost bridge, its own timeout, a reload.
* **Health reporter** — a lost browser is reported once, when recovery had its
  time and not before, wherever suspensions fall.
* **Instance discovery** — the owner of the port is listed; a process that shut
  down is not.

## The modules

JavaScript runs a callback to completion, so an action is one callback, or the
part of an `async` function between two awaits. A promise that several functions
await is one variable, and the functions that wait for it are moved on when it
settles. A timer is an action that may fire at any moment, and a socket is an
ordered queue of frames where the order matters.

### BridgeBroker and BridgeCalls (`server.ts`)

`server`, `listening`, `pingTimer`, `queue` and `op` are the lifecycle:
`serializeLifecycle()` chains operations on one promise, so the model keeps the
queue and where its head is suspended (`binding`, `closing`, `draining`). `sock`
is the state of each connection; `this.sockets` is `Tracked`. `bridge` is
`bridgeSocket`. A call goes `starting` (ensureReady has queued a start) →
`started` → `parked` (waitForBridge) → `ready` → `checked` (the tool has read the
probe) → `pending` → `settled`, and a relayed call ends `answered`. `SocketError`
and `SocketClosed` both run `FailBridge`, which compares identities as the code
does. `StopBegin` rejects the pending requests, releases the waiters and closes
the connections in one step, as the code does before its first await;
`StopRetire` waits for the close events and destroys what was accepted
meanwhile; `StopDone` is the callback of `server.close()`.

`BridgeCalls` is the promise to the callers of `request()`: a call is outstanding
on the current session only, and the very step that loses or replaces the session
fails it. `PromiseKept` is the refinement
(`INSTANCE BridgeCalls WITH session <- bridge, outcome <- Outcome`).

Left out: the port walk and ephemeral port (`index.ts` always passes
`portRange: 1` and no fallback), fields only diagnostics read. Lengths of time
and the cold-bridge memo are in `BrowserCalls`.

### ProxyBroker (`remote.ts`)

Several processes and one port. `owner` is who listens: a process of the model,
another pi process (`Primary`), a program that is no broker (`Foreign`) or
nobody. `inbox` holds the frames on their way to a proxy, so a reply, a
notification and a close arrive in the order they were sent. `Validated` is
`hasValidatedConnection()`. `promo` says where `promoteOrReconnect()` is
suspended, `healing` that `healInBackground()` waits for it, `timer` is
`healTimer`. A promotion binds the port if it is free (`PromoteWins`), retires
the candidate if `stop()` came first (`Retreat`), or reconnects to whoever won
(`PromoteLoses`, then `ReadReply` or `ReconnectFailed`). `StartFails` is a `start()`
whose task store, connection or probe failed; none of them plans a healing round.
Calls go through
`ensureReady()`, the check of the tool, and `request()` with its two fallbacks.
`Polls` are the calls that come again and again: the recovery timer of a session,
which calls `ensureReady()` every two seconds, and its next tool call. `Takers` are
the outsiders that may take a free port.

A socket that `request()` opened is validated by the next probe only. In the
background nobody sends one, so a session is served by its poll then; that is why
`Recovers` is checked without calls (proxy_failover) or with a poll
(proxy_life).

`Coalesce` says whether one read of a socket may bring several frames. The `ws`
library then delivers all of them before the functions awaiting the first one go
on; with `Coalesce = FALSE` each frame is handled in its own turn.

Simplifications: the frames of a socket are dropped when it is replaced; a second
`stop()` during a first is not modelled; an owner leaves in one step; once a
process is promoted its calls are the business of `BridgeBroker`; an abort of a
wait and the memo of cold bridges are in `BrowserCalls`.

### SessionLifecycle (`index.ts`, `lazy.ts`)

A broker is seen from outside: its class, whether it listens (`up`), and the
`start()` and `stop()` calls on it that have not finished (`ops`, served in order
for a primary). `singleton`, `startup`, `shuttingDown`, `suspending` are the
variables of `index.ts`, and the handlers of SIGTSTP and SIGCONT look at them only, so
`Resume` may come before the process has stopped itself; `startup` says where `getOrCreateBroker()` is suspended
(`retiring` a stale broker, `starting` a primary, `publishing`, `proxying`,
`cleaning` up a failed proxy, `cancelling` a late broker). `outdated` stands for
a generation counter that no longer matches. `shutdownAt` says where a shutdown is
suspended, `suspendAt[g]` where the closure `g` of `onSuspend()` is, and
`suspended[g]` the broker it stops: SIGCONT clears `suspending` while the closure
goes on (`index.ts:192`), so the next SIGTSTP starts another one beside it, and
either may send its SIGSTOP first. A *thread* is a tool call or the recovery
timer of a session; both go through the handle. `Drained` makes sure that
whatever a settled promise resumes runs before the next event.

Simplifications: a broker object that nobody refers to any more is used again;
`session_start` does not overlap an unfinished
shutdown (pi awaits its handlers); a `stop()` of a stale broker that throws,
`PI_BA_NO_EPHEMERAL` are left out; the instance file and health reporting have
modules of their own.

### TaskHistory and TaskLedger (`task-store.ts`, `browser_task_tools.ts`)

A file is a sequence of lines. `append()` opens it (creating it), then writes a
line, whole or in two pieces (`writeFile` writes a long string in several
chunks); an unlinked file swallows what is still written to it. `gc()` reads
every file it listed, judges it by the moment of its last end, its start, or its
modification time, and removes it in a later step. `list()` takes `stat`, then
reads. A write may fail (`appendSafe` goes on) and a process may die; `now` is a
clock. `list()` and `gc()` take `stat` outside of any `try`: a file that another
process collects at that moment rejects the whole list, or the `gc()` and with it
the `start()` of a broker. `BadFileIsolated` says that nothing else does. Order,
filter and limit of `list()` and all texts are left out.

`TaskLedger` is what a reader in any process is promised: a run is shown as running
before its verdict is reached and not after, its verdict once it is reached, and a
verdict that was shown only ever disappears. `LedgerKept` is the refinement: `Shown`
maps a file to what `browser_get_task_history` makes of it (an empty file is no
history), `call[t].status` is the verdict, `collected` what was taken. A history that
a `gc()` took during its run may come back with the verdict alone.

### BrowserCalls (the tools, and the waits of `server.ts` and `remote.ts`)

The tool calls of one process with a clock. A call is `entered` (before
`ensureReady()`), `waiting` for the extension, `sent`, perhaps `reloading`, and
`done`; `until` is the deadline of the stage it is in. The process owns the port
or is a proxy of whoever does: `owner` is the broker on the port (its bridge,
session serial, `bridgeEverConnected`, `listeningSince`), `view` is the snapshot a
proxy has of it, `linked` that it is connected (a snapshot kept beyond the
connection claims no bridge), `memo` is `coldBridgeMisses` and `coldBridgeSince`,
kept by each broker for itself: a hello clears that of the owner, and its
notification that of a proxy that is connected (`Told`; `News` is a notification of
a hello under way, `Notified` its arrival). `chrome` is `warm` while the extension dials, at most `Backoff`
apart, `cold` while it may or may not, `closed` otherwise. `OwnerDies` takes the
owner away from a proxy, which is promoted or finds the next one (`Relinks`, or the
next call) in the middle of its wait. A result is named by what its text says: `never` and `lost` are the
diagnoses of `classifyBridgeFailure()`, `disconnected` is a bare
E_BRIDGE_DISCONNECTED. (The reload tool and its family report the latter, and
timeouts, with the code E_INTERNAL: `browser_js_navigation_tools.ts:29`. The
read-only tools give them codes of their own: `read_only/common.ts:84`.)

Time passes when nothing else is due, so a handshake, a probe or a frame takes no
time; their 1.5 s timeouts come on top of the bound of `BoundedCall` in the code.
Calls of one process influence each other through the memo only, and one call is
checked; parallel ones count several misses within one outage, which makes the
short budget come earlier.

Read from this module:

* A relayed request fails with E_BRIDGE_DISCONNECTED after the ten seconds of the
  owner, however long the tool would wait (`server.ts:740`): the second disjunct
  of `DisconnectExplained`.
* A call of a proxy may wait the short budget while the extension is dialling,
  against the comment at `server.ts:47`: a proxy knows no fresh listener
  (`remote.ts:152`), and its memo is cleared by a notification (`remote.ts:628`) or by
  the probe of a call, but not by the loss of its owner nor by the probe of a
  reconnection that nobody asked for. The conclusion of `WarmReconnect` is that such
  a call is `blind`: its owner has had no session, or the memo was written no later
  than this owner came, or after it lost its last bridge. A memo that survives the
  notification of a bridge violates it.
* `browser_reload_extension` takes its probe before `ensureReady()`
  (`browser_js_navigation_tools.ts:475`): when the extension reconnects during the
  wait, the session the reload is sent on is already a later one, and passes for
  the reload. `ReloadIsReal` speaks of the other calls.

### HealthReporter (`health-reporter.ts`, `index.ts:355-392`)

`since`, `warned` and `status` are the reporter, `due` and `recovering` the
recovery timer, `stale` that `observedResumeGeneration` is behind. `suspending` is
the flag of `index.ts`, `stopping` the suspend handlers that have not sent SIGSTOP
yet, `frozen` the process. Time passes for a frozen process too, its timers
are late then. The ghosts `downFor` and `lostFor` count only the time awake.
`Freeze` may follow a SIGCONT: the handler that took the signal for its own has
cleared the flag, so the process freezes unnoticed, and the time counts
(`caught`). Left out: that `brokerShuttingDown` also silences the timer while a
shutdown is under way.

### InstanceDiscovery (`instances.ts`, `index.ts`)

`record` is the file of a process: absent, half written or whole. `write` follows
each `writeInstanceFile()`, of the startup, of a resume and of a promotion; only
the first is awaited. A file unlinked while it is written is `lost`. `look` is
what `listInstances()` has still to do: read each file, and unlink it in a later
step. `startup` is where `createAndStartBroker()` is. `published` is a ghost: the
owner of the port has written its file since it bound the port. `attached` is the
promotion listener of a proxy: `stop()` of a suspension takes it away
(`remote.ts:284`) and the next `observeHealth()` brings it back (`Reattach`), so a
`Promote` in between writes no file. `silent` is the ghost that marks whoever took the
port without a write. `late` marks a
shutdown that removed the file before a write nobody awaits had opened it
(`index.ts:236`): that file stays. A primary that binds the port again in
`ensureReady()` (`Rebind`) writes no file, as in the code. Writes do not fail; one
write of each kind is under way at a time; a SIGCONT finds the process frozen, a
shutdown finds it running.

`MCServices` runs these three side by side. They share no state, and each
behaviour is one of one of them; `part` says of which.

## Runs

| Run | Configuration | Instance | Shows |
|---|---|---|---|
| broker_safety | `BridgeBroker_safety` | 2 bridges (symmetric), 1 peer, 1 call (local or relayed), 2 lifecycle operations at a time | `TypeOK`, `PendingOnBridge`, `BridgeIsTracked`, `StopIsFinal`, `PeersKnowBridge`, `CancelledNeverBlocks`, and `PromiseKept`: the refinement of `BridgeCalls` |
| broker_liveness | `BridgeBroker_liveness` | 1 bridge, 1 peer, 1 call, 2 operations | `EveryCallSettles`, `SilentBridgeDropped`, `OperationsFinish` |
| broker_late_waiter | `BridgeBroker_waiters` | 2 bridges, 1 peer, 2 calls, 1 operation at a time | counterexample to `WaitersReleased` |
| proxy_failover | `ProxyBroker_failover` | 2 proxies, no calls, 1 exit of an owner, 2 frames | `Recovers` |
| proxy_stop | `ProxyBroker_stop` | 1 proxy, 1 call, 2 stops, 1 exit, 2 frames | `TypeOK`, `ProxyHonest`, `NoLeakedListener`, `StoppedIsQuiet`, `HealingContinues`, `RequestsEndWithSocket` |
| proxy_life | `ProxyBroker_life` | 1 proxy, its recovery timer and tool calls, 1 exit, 1 stop | `Recovers`, `StopsEnd`, `CallsEnd` |
| proxy_overtaken | `ProxyBroker_overtaken` | 1 proxy, 1 call, several frames in a read | counterexample to `ProxyHonest` |
| session_safety | `SessionLifecycle_safety` | 3 brokers, 2 sessions, 1 call, 2 suspend closures | `OneBroker`, `NoOrphanBroker`, `ShutdownIsFinal` |
| session_recovery | `SessionLifecycle_recovery` | 2 brokers, 1 session, 2 suspend closures, no call | `SuspendedWithoutPort`, `SessionRecovers` |
| session_hostage | `SessionLifecycle_hostage` | 3 brokers, 1 session, 1 call, 1 suspend closure | counterexample to `FrozenWithoutPort` |
| history_safety | `TaskHistory_safety` | 1 task, 2 processes, clock to 2, retention 1, 1 fault | `VerdictRecorded`, `HistoryIsWhole`, `BadFileIsolated`, `GcKeepsFresh`, and `LedgerKept`: the refinement of `TaskLedger` |
| services | `Services_all` | 1 call, clock to 6; clock to 11, 2 suspensions; 2 processes with 2 sessions and 1 suspension each, 1 kill | `ReloadIsReal`, `WarmReconnect`, `BoundedCall`, `DisconnectExplained`; `OneWarning`, `WarningEarned`, `WarningComes`; `OwnerIsListed`, `OwnerIsAnnounced`, `RecordsEnd` |

The type invariants of the two brokers are checked in their runs. Those of the other
modules are proved (see Proofs), for every instance, and no run repeats them.

### Bounds

* Two bridges are the least with a handoff, and a third would only repeat it; a
  bridge that was lost may connect again. Peers only watch and send, one of them
  shows both. Calls do not read each other's state; one shows what happens to each,
  and the proofs cover any number. With `Calls = {c1, c2}` and `MaxQueue = 1` the
  run of `BridgeBroker_safety` passes too (1.6 million states, about two minutes).
* `MaxQueue` bounds lifecycle operations waiting at a time; their number over
  time is unbounded. Two let a `stop()` and a `start()` of a call overlap.
* `MaxExits`, `MaxStops`: how often an owner leaves and a proxy is stopped. One
  exit opens the bind race between two proxies and the outside processes; two
  stops allow stop, start, stop. Owners that are proxies leave through `stop()`.
  `MaxFrames` bounds the frames in flight to a proxy when a notification is sent;
  two let one pass behind a reply. With `MaxFrames = 0` (proxy_life) the
  notifications are off, the replies still go through the queue; `Takers` leaves
  the foreign program out there, it is in proxy_failover and proxy_stop.
* `MaxOps` bounds the unfinished `start()` and `stop()` calls on a broker when a
  signal arrives, `MaxMoves` how often other processes take or leave the port.
  Three brokers are the stale one, the failed primary and the proxy that follows
  it; they are in session_safety. With the two of session_recovery an acquisition
  that needs a third waits until one is free. Two sessions overlap, which is all
  that two sessions can do. Two `Closures` are the least that overlap; a SIGTSTP
  that finds none free is not taken, and the proofs have any number of them.
* `MaxTime` and `Ttl`: retention one, clock two, so that a history may be older
  than the retention time, just within it, and fresh. `MaxFaults = 1`: a failed
  write or a crash at any step. One task is enough: files influence each other
  only through the failure of a whole `gc()` or `list()`, which the ghosts of the
  one task show as well.
* `BrowserCalls`: the waits, grace periods and timeouts keep the order they have
  in the code (short budget and backoff < full budget < fresh listener, timeout of
  the relay < timeout of the tool). `MaxClock = 6` holds two full waits and the
  calls after them, which is what the memo takes; `MaxSessions = 3` a session
  before, one between and one after them, `MaxFailovers` and `MaxQuits` one of each.
* `HealthReporter`: `Grace = 4`, `Period = 2` (60 s and 2 s in the code);
  `MaxMoment = 11` holds two grace periods with the rounds of the timer between
  them, `MaxSuspends = 2` a suspension overtaken by a SIGCONT and another.
* `InstanceDiscovery`: two processes (symmetric) are a writer and a lister; two
  sessions let a process come back, one suspension and one kill fall anywhere.

`CHECK_DEADLOCK FALSE` stands where the system may really stop: a proxy connected
to an owner that never changes, no session after a shutdown, every task recorded
and the clock at its bound, in `MCServices` too. `BridgeBroker` is checked for deadlock.

### Fairness

* *BridgeBroker*: timers fire, awaited continuations run, a bind ends in success
  or failure, a connection closed or terminated here delivers its close event.
  Nothing is assumed of the extension, the peers or the callers.
* *ProxyBroker*: sockets deliver, timers fire, continuations run. An attempt
  repeated for ever does not fail for ever: a handshake with a broker that is
  there (`SF ConnectOk`), a probe (`ProbesHeard`), a bind of a free port
  (`SF PromoteWins \/ PromoteLoses`). `SF WaitOver` is the deadline of
  `waitForRemoteBridge()`, which is over whatever its polls find. The polls of a
  session come again (a 2 s interval).
* *SessionLifecycle*: calls under way end, the interval fires, a start that is
  tried for ever works once the port allows it. Weak fairness of `Resumed` is the
  job queue.

### What the counterexamples say

1. **broker_late_waiter** — `stop()` releases the waiters once, before its first
   await. A tool call that gets to `waitForBridge()` after that, while
   `this.server` is still set, parks in a broker that is about to be gone. The
   comment at `server.ts:484` says that it must be released.
2. **proxy_overtaken** — a reply to a probe and a notification behind it in the
   same read: the notification is handled first and the older snapshot then
   overwrites it. Until the next probe the proxy claims a bridge that is gone,
   which is what `server.ts:382` sets out to prevent.
3. **session_hostage** — a tool call between `stop()` and SIGSTOP starts the
   stopped primary again, because the handle still has it and nothing on the way
   asks whether the process is being suspended. It then sleeps on the port
   (`index.ts:150`). The acquisition and the recovery timer do ask, but without tool
   calls too the promise is kept only while suspensions do not overlap: SIGTSTP, a
   SIGCONT during the closure, which queues a `start()`, SIGTSTP again, and the SIGSTOP
   of the first closure finds that start done and the `stop()` of the second still
   to come. With a second closure and no call TLC finds this as well. What holds
   without tool calls, and what session_recovery checks, is `SuspendedWithoutPort`: once no
   closure is left, a process that is stopped has left the port.

Two more ways to break a promise of the comments are known from the models and named
in the invariants that except them:

* A SIGCONT before SIGSTOP takes the suspension back as far as `onResume()` can: it
  clears the flags and starts the broker. The closure of `onSuspend()` goes on all the
  same and stops the process, which then holds the port (`index.ts:191`).
  `FrozenWithoutPort` and `SuspendedWithoutPort` speak of the processes that were not
  continued since the last SIGTSTP.
* A proxy that was suspended has lost its promotion listener, and may be promoted
  before the first `observeHealth()` after the SIGCONT (`index.ts:352`): it owns the
  port and no file says so, which is what the comment at `index.ts:231` is afraid of.
  `OwnerIsAnnounced` says that this and a primary that binds again in `ensureReady()`
  are the only two ways.

## Proofs

Every safety invariant and every action property that the passing runs check is a
theorem, for every value of the constants, and so are the two refinements. The
assumptions (`SocketsAssumption`, `QueueAssumption`, `ProxyAssumption`,
`LifecycleAssumption`, `HistoryAssumption`, `BudgetAssumption`, `UnsetAssumption`,
`GraceAssumption`, `DiscoveryAssumption`) say that names of different things
differ, that bounds are numbers, and that waits keep the order they have in the
code; TLC evaluates them in the runs.

None of these properties is inductive by itself: each says what is true of the
state, not why the next step keeps it so. The reason is nearly always a function
suspended at an `await`, so the invariants below say *where* each function is
suspended, what it then holds, and who else may change it. TLC checked each of
them on the instance of its run before it was proved.

A proof module has one lemma per action, or one per conjunct with one step per
action; the theorem of the invariant puts them together, and the others follow.

### BridgeBrokerProofs

For any sets of bridges, peers and calls and any `MaxQueue`.

| Theorem | Statement |
|---|---|
| `Invariance` | `Spec => []IInv` |
| `TypeCorrect` | `Spec => []TypeOK` |
| `NoOrphanedRequest` | `Spec => []PendingOnBridge` |
| `BridgeLossIsSeen` | `Spec => []BridgeIsTracked` |
| `StopLeavesNothing` | `Spec => []StopIsFinal` |
| `PeersAreTold` | `Spec => []PeersKnowBridge` |
| `AbortReleases` | `Spec => []CancelledNeverBlocks` |

* `QueueInv`: a suspended operation is the head of the queue, so that the step
  that ends it has something to remove.
* `ListenerInv`: the listener and the heartbeat exist only with `this.server`; a
  bind under way has not set it; a `stop()` under way has cleared the timer.
  Without it `StopIsFinal` is lost when a bind ends.
* `StopInv`: when the listener has died while `stop()` waits, the connections it
  waits for are all there are; after `server.close()` was called `this.server` is
  null. This is why the end of `StopRetire` leaves no connection.
* `AbortInv`: an aborted call has begun and does not block; `idle` is in it
  because a call that starts with a fired signal would otherwise park.

### BridgeBrokerRefinement

| Theorem | Statement |
|---|---|
| `MappingInvariance` | `Spec => []RInv` |
| `PromiseIsKept` | `Spec => PromiseKept`: `BridgeBroker` implements `BridgeCalls` |

Initial states map to initial states, and each action maps to the step of
`BridgeCalls` it is, or to none. `RInv` is what the mapping needs beyond `IInv`: a
call that waits for a lifecycle operation waits for nothing else and for one
operation only (`CallersInv`: otherwise the end of an operation could settle a call
twice), a call has no result before it is settled (`ResultInv`), and a peer never
becomes the bridge (`SessionInv`).

### ProxyBrokerProofs

For any number of processes, calls, polls, exits, stops and frames.

| Theorem | Statement |
|---|---|
| `ProxyInvariance` | `Spec => []IInv` |
| `ProxyTypes` | `Spec => []TypeOK` |
| `ListenersHaveKeepers` | `Spec => []NoLeakedListener` |
| `StopIsQuiet` | `Spec => []StoppedIsQuiet` |
| `HealingGoesOn` | `Spec => []HealingContinues` |
| `ClaimsAreHonest` | `Spec => []ProxyHonest`, if `Coalesce = FALSE` |
| `RequestsGoWithSockets` | `Spec => RequestsEndWithSocket`, an action property |

* `ReplyInv`: every reply on its way has a function that waits for it, and one
  only; the owner does not answer the probe again. Without it a reply could resume
  a function that has gone on.
* `KeeperAt`: a process listens exactly when it is promoted, its promotion is
  retiring the listener, or its `stop()` is closing it.
* `StoppedAt`: what a `stop()` that is suspended has still to wait for or to
  close. This is the argument that the checks of `stopped` after each await of
  `promoteOrReconnect()` are enough.
* `HealAt`: a healing round that awaits a promotion has one to await, and before
  the first `stop()` one of the timer, the round, the socket or the broker is there.
* `HonestInv`, for the last theorem: the last frame to a proxy says what the bridge
  is, and a reply repeats what was said before it. The hypothesis is what the
  theorem is about: with several frames in a read it is false (proxy_overtaken).
* `RequestsGoWithSockets` names the two ways a request may outlive its socket: a
  socket that is closing is replaced before its `close` event (`remote.ts:471`), and
  a `start()` overtakes the `stop()` that closes the socket. It takes a step of every
  function that closes or replaces a socket (`DialStep`, `SocketStep`, `Outlives`)
  and `IInv` for who may be suspended there. That such a call ends all the same, by
  its timeout, is `CallsEnd`.

### SessionLifecycleProofs

For any number of sessions, brokers, calls, signals and lifecycle calls on a broker.

| Theorem | Statement |
|---|---|
| `LifecycleInvariance` | `Spec => []IInv` |
| `LifecycleTypes` | `Spec => []TypeOK` |
| `OneBrokerHolds` | `Spec => []OneBroker` |
| `NoOrphanHolds` | `Spec => []NoOrphanBroker` |
| `ShutdownFinalHolds` | `Spec => []ShutdownIsFinal` |
| `SuspendedHolds` | `Spec => []SuspendedWithoutPort`, if `Calls = {}` |

* `StartupInv`: where `getOrCreateBroker()` is suspended says exactly which calls
  its broker has under way. While it is, there is no singleton; a shutdown that
  waits for it has outdated it.
* `HandleInv`: only the handle of the latest session is in use and its broker is
  the singleton, so nobody goes on with a broker that was replaced.
* `SessionInv`: between sessions there is no broker and no startup.
* `CallsInv`: who awaits a `start()` or `stop()` awaits one only, and its own state
  says so; a call without a client is one nobody waits for.
* `KeptAt`: a broker that competes for the port, or will when a `start()` in its
  queue ends, is the one everybody is given, or has a `stop()` of a startup or a
  shutdown behind that `start()`. `NoOrphanBroker` alone says the first half; a
  `start()` of a tool call that ends after the singleton was dropped is what breaks
  it in one step, and the order of the two in the queue is why it does not.
* `SuspendInv`, for `SuspendedHolds`: a process that is being suspended starts
  nothing, and what competes is stopped by one of the closures under way, of
  which there may be any number: one that waits for the startup will stop the
  singleton, or else each broker that competes has the `stop()` of a closure in its
  queue, behind every `start()`. When no closure is left nothing competes. The
  hypothesis cannot be dropped: session_hostage shows what one tool call does.

The queues of calls are reasoned about by four lemmas (`Appended`, `Removed`,
`RemoveAtProperties`, `FewCalls`); each action has a lemma `...Keeps`.

### TaskHistoryProofs

For any sets of tasks and processes, any retention time, clock and number of faults.

| Theorem | Statement |
|---|---|
| `HistoryInvariance` | `Spec => []HInv` |
| `HistoryTypes` | `Spec => []TypeOK` |
| `VerdictsAreRecorded` | `Spec => []VerdictRecorded` |
| `HistoriesAreWhole` | `Spec => []HistoryIsWhole` |
| `BadFilesAreIsolated` | `Spec => []BadFileIsolated` |
| `GcSparesTheFresh` | `Spec => GcKeepsFresh`, an action property |
| `LedgerIsKept` | `Spec => LedgerKept`: `TaskHistory` implements `TaskLedger` |

* `StageAt`: how far a call is says which entries are begun and which are over.
* `LinesAt`: every line that can be read is one of the run, not younger than the
  file, with the verdict in the last place.
* `WholeAt`: without a fault the file is exactly what the entries written since the
  last removal come to, piece by piece.
* `GcAt`: what a `gc()` has concluded stays true until it acts: a file to be
  removed is one whose run began, and whose recorded end lies, before the cutoff.
  `GcKeepsFresh` relates the removal to a file read several steps earlier; this is
  the argument that the run cannot have become fresh in between.
* `ListAt` and `FailInv`: a list shows no verdict but that of the run, and what a
  `gc()` or `list()` fails over is a file that was taken away.
* `LedgerInv`, for the refinement, which holds through faults too: a run that has not
  opened its file has none that a `gc()` could take, a write of its start that still
  reaches a file reaches one that was never taken, and a line of the start says that
  the run runs. `LinesAt` gives the rest: while a write is under way there is no
  verdict in the file that it could replace. `LedgerWrite` is the heart of the proof:
  whatever a write leaves behind, whole or in part, is a `Record`, a `Publish` or a
  `Spoil`.

### BrowserCallsProofs, HealthReporterProofs, InstanceDiscoveryProofs

For any number of calls, sessions, failovers, suspensions, processes and kills, and
any budgets, timeouts and periods in the order the code has them.

| Theorem | Statement |
|---|---|
| `CallsInvariance` | `CallsSpec => []BInv` |
| `CallTypes` | `CallsSpec => []CallsTypeOK` |
| `ReloadsAreReal` | `CallsSpec => []ReloadIsReal` |
| `WarmReconnectsAreCovered` | `CallsSpec => []WarmReconnect` |
| `CallsAreBounded` | `CallsSpec => []BoundedCall` |
| `DisconnectsAreExplained` | `CallsSpec => []DisconnectExplained` |
| `HealthInvariance` | `HealthSpec => []HInv` |
| `HealthTypes` | `HealthSpec => []HealthTypeOK` |
| `WarnsOnce` | `HealthSpec => []OneWarning` |
| `WarnsInTime` | `HealthSpec => []WarningComes` |
| `WarnsNotTooSoon` | `HealthSpec => WarningEarned`, an action property |
| `DiscoveryInvariance` | `DiscoverySpec => []DInv` |
| `DiscoveryTypes` | `DiscoverySpec => []DiscoveryTypeOK` |
| `OwnerStaysListed` | `DiscoverySpec => []OwnerIsListed` |
| `OwnersAreAnnounced` | `DiscoverySpec => []OwnerIsAnnounced` |
| `ShutdownLeavesNoRecord` | `DiscoverySpec => []RecordsEnd` |

* `BrowserCalls`: `Timely` ties each deadline to the one before it, which is where
  the bound of a call comes from; `OnBridge` keeps a request on the session it was
  sent on; `Awaits` says what the deadline of a waiting call has to do with the
  moment the bridge was lost (a call with the full budget cannot end before Chrome
  has dialled again); `WorldInv` holds the clocks of the owner; `HeardInv` says how
  far a proxy is behind its owner, and `MemoInv` that a memo written under this owner
  before its last session has the notification that ends it on the way. This is why
  only a `blind` call of a proxy waits too short.
* `HealthReporter`: a loss is either `Unobserved`, and then younger than a period
  of the timer, or `Observed`, and then the reporter measures it at most one round
  late; `EarnedInv` is the converse, that what it measures was spent awake.
  Together they are the two bounds of a warning, too late and too soon.
* `InstanceDiscovery`: `PortInv` says who may own the port at each point of a
  session; `StartupWriteInv` that the startup waits for its own write and nobody
  removes the file under it; `AnnouncedInv` that an owner that took the port with a
  write has published its file or has the write under way; `EndInv` that a shutdown
  leaves no write that would bring the file back.

### Only model-checked

* Liveness: `EveryCallSettles`, `SilentBridgeDropped`, `OperationsFinish`,
  `Recovers`, `StopsEnd`, `CallsEnd`, `SessionRecovers`. The prover does not reach
  fairness and ENABLED.
* `ProxyHonest` beyond its hypothesis, and `FrozenWithoutPort`, which TLC shows to be
  false.

## Plan

1. `BridgeBroker`, `BridgeCalls`, `BridgeBrokerProofs` — done.
2. `ProxyBroker` — done.
3. `SessionLifecycle` — done; it composes brokers of both kinds from outside.
4. `TaskHistory` — done.
5. `BrowserCalls`, `HealthReporter`, `InstanceDiscovery`, `MCServices` — done.
6. Proofs of every safety property, of the action properties and of both
   refinements — done.
7. Left: a second `stop()` of a proxy during its first, a shutdown during a suspend
   closure in `InstanceDiscovery`, and an abstract specification of the session lifecycle, with the invariants above
   as its ground.

## Not modelled

* `protocol.ts`, `truncate.ts`, `_register.ts`, `native-result.ts` and the formatting
  in the tools: pure functions of their arguments or tables filled once, which unit
  tests reach. What a frame of each kind does is in the broker modules.
* The port walk and the ephemeral fallback of `server.ts`, which `index.ts` never
  asks for.
* Order, filter and limit of `list()`.
* A second `stop()` of a proxy during its first.
* The extension, pi and the network, except as the environment's actions.
