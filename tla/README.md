# A verification of DeskPulse in TLA+

DeskPulse is an Electron application in the menu bar of macOS.  Its main
process (*Main*, `apps/desktop/src/main`) supervises a Node process (the
*agent*, `services/system-agent/src`) that probes services, tails log files and
samples the system.  The agent answers HTTP requests on a loopback port and
sends events over one SSE stream; Main forwards them to the *renderer*
(`apps/desktop/src/renderer`), the tray and the notifications.  This directory
holds TLA+ models of the parts whose correctness depends on the order of
events, the TLC runs that check them and the proofs that TLAPS checks.

## Inventory

Every process is one JavaScript thread: code runs undisturbed from one `await`
to the next, and what makes the program hard is what happens in between.

| part | state | operations | hard because | must be true |
|---|---|---|---|---|
| Supervisor (`agent-supervisor.ts`, `agent-restart-policy.ts`), banner, quit (`app-lifecycle.ts`), orphan guard | state, child, handle, watched child, stopping, two timers, restart window | launch, restart, stop, exit of the child, handshake, health check, timers | two `await`s in a start, kills that wait for exits, calls nobody serialises, crashes at any time | one agent; running means watched; backoff means one pending timer; quit leaves no agent; nothing hangs |
| Health monitoring (`health-registry.ts`, `health-state.ts`) | monitors with a state machine, a timer, a flag for the probe in flight, results | add, update, remove, close, timers, end of a probe | a probe outlives edits, switches and removals of its monitor | alerts are earned, the state agrees with the results, late results are dropped, lasting outages are seen |
| Event stream (`events.ts`, `http/sse.ts`, `agent-events.ts`) | ids and a ring of events, connections with a send buffer; the consumer's connection, timers, last id | publish, connect with replay or reset, deliver, drop, close; start, stop, reconnect, staleness | a stream ends in many ways, and `stop()`/`start()` overlap the end of the old one | order, no duplicates, gaps are announced |
| Log tailing (`tailer.ts`, `line-splitter.ts`) | fd, inode, offset, state, pending batch | start, stop, check (rotate, truncate, delete, permissions), flush | the file changes between `stat`, `open` and `read`; `stop()` races a check | every line once and in order, markers in place, a rotated file is read to its end, `stop()` is final |
| Agent process (`lifecycle.ts`, `agent.ts`, `watch-registry.ts`) | shutting down, failsafe timer; the set of tailers | SIGTERM, unhandled errors; add, remove, close of watches | close may hang; the limit is tested before three `await`s | it exits, five watches at most |
| Diagnostics (`diagnostics/export.ts`, `main/diagnostics.ts`, `diagnostics-store.ts`) | running flag, staging directory; progress shown | start, build, clean up, move, button | failures between the steps, response and events travel apart | one export at a time, nothing left behind, the button comes back |
| Configuration and reconciliation (`agent-config-store.ts`, `agent-reconciler.ts`, `main.ts`, `ipc/*`) | the monitors and watches Main has pushed | IPC writes, re-push after a restart | `await`s between emptying the store and filling it, crashes, lost answers | what the user configured survives agent crashes |
| Tray health (`main/health-state.ts`, `tray.ts`), notifications (`notification-policy.ts`, `notifications.ts`) | agent up, monitors, errored watches; a buffer and a timer | events, hydration; record, flush, dispose | two sources for one fact, snapshots that race events | the tray settles on the truth; each transition is told once |
| Renderer stores (`logs-store.ts`, `monitors-store.ts`) | log views and rows, monitors | events, re-keying, refresh | refreshes that race events | the list follows the agent; a hole in the lines is marked |
| Dashboard (`store.ts`, `use-polling.ts`) with process list and metrics (`darwin-processes.ts`, the samplers) | polling timer, order, rows, summary; the promise of one `ps`, its cache | tick, visibility, order; `ps` ends or fails | refreshes overlap; a rejected promise is shared | one `ps`; the order shown is the order chosen |
| Agent's own log (`logging.ts`) | generations of files | write, rotate | killed between two renames | the last lines are kept, in order |
| HTTP server and routes, IPC glue, contracts, components | none of their own | | | see *Not modelled* |

## Modules

| module | contents |
|---|---|
| `AgentLifecycle` | what the supervisor promises: phases of the agent's life and the set of live agents |
| `Supervisor` | the supervisor, its processes, banner and quit; implements `AgentLifecycle` |
| `SupervisorProofs` | its theorems and the refinement |
| `RestartLadder`, `LadderProofs` | delays, rolling window and stable timer of the supervisor, with time; its theorems |
| `HealthRegistry` | monitors, schedulers, probes, the state machine |
| `HealthProofs` | its theorems |
| `EventStream` | bus, SSE endpoint, consumer in Main and the calls that stop and start it |
| `EventStreamProofs` | its theorems |
| `Tailer` | one log watch and the file system around it |
| `TailerProofs` | its theorems |
| `AgentProcess` | shutdown, fast exit, restart; the registry of watches |
| `DiagnosticsExport` | exporter, progress events, response, Main's move of the bundle, button; extends `AgentProcess`, in whose process it runs |
| `LogRotation` | the agent's own log |
| `AgentProofs` | theorems of `AgentProcess`, `DiagnosticsExport`, `LogRotation` and `Dashboard` |
| `Reconcile` | store, reconciliation, the user's requests, an agent that forgets, the ids in the renderer |
| `ReconcileProofs` | its theorems |
| `AgentFeed` | what the views are made from: monitors, one log watch, events, answers to list requests |
| `Tray` | `HealthState`, tray and notifier, fed by `AgentFeed` |
| `Renderer` | list of monitors and log view, fed by `AgentFeed` |
| `ViewProofs` | theorems of `Tray` and `Renderer` |
| `Dashboard` | polling, dashboard store, `ps` and sampler |
| `MCSupervisor`, `MCHealth`, `MCEventStream`, `MCTailer`, `MCTray`, `MCRenderer` | values of the constants for TLC |
| `MCAgent` | `DiagnosticsExport`, `AgentProcess` and `Dashboard` for TLC: what one agent serves |
| `MCReconcile` | `Reconcile`, `RestartLadder` and `LogRotation` for TLC: what goes on from one agent to the next |

A component is modelled where its own interleavings are, and appears elsewhere
by what it can do to others: an agent that ends and comes back with new ids
(`Reconcile`), a stream that replays, resets, sheds and is restarted
(`AgentFeed`), a process whose end takes its exports along (`AgentProcess`).

### Supervisor

*Granularity.*  A macrotask (timer callback, child event, settled request, call
of the UI) runs up to its first `await` and is one action, guarded by `Turn`:
the queue of microtasks is empty.  What it resolves is appended to `jobs` and
runs first, in order, one continuation per step.  That order matters: when a
start that is being stopped loses its child, its own cleanup runs before the
rest of `stop()`.

*State.*  `state`, `child`, `handle`, `watched`, `stopping`, `backoffTimer` and
`stableTimer` are the fields of `AgentSupervisor`; `strayTimers` counts backoff
timers whose handle was overwritten and which nothing can clear any more.
`proc` is the real state of the processes; `starting` says where each call of
`start()` is suspended; `waiters` holds the continuations that wait in
`killProcessGracefully`; `watchers` the children with the exit listener of
`watchExit`; `signalled` those that got SIGTERM.  The timestamps of
`RestartTracker` are a count of which any part may have left the window when
the next one is recorded, so no rate of failing is assumed.  `banner` is what
the renderer last polled.  `overlap` is a history variable: a manual restart
was asked for while Main had a child or a quit was under way.

*Main may die* at any macrotask (`KillMain`); the agent then ends by its orphan
guard, or, when Main died before the guard was armed, by the broken pipe on
which it prints its handshake.

### RestartLadder

`Supervisor` leaves out time, so that any failure may come at any time;
`RestartLadder` has time and leaves out processes: one agent after the other is
spawned, runs and fails whenever it likes.  `Tick` advances `now`; a timer is a
due time and never fires before it, and the one of a backoff fires at most
`Lateness` after (the event loop is busy, the machine slept).  `timestamps` is a
set, because a delay lies between any two failures.  `failures`, `retries` and
`looping` are history variables.

### HealthRegistry

One action per request (`Add`, `Update`, `Remove`, which is also `closeAll`),
timer callback (`JitterFires`, `IntervalFires`) and continuation of a probe
(`ProbeEnds`).  `asked` are the thresholds in the configuration, `thresholds`
those the state machine was built with: `update()` changes only the former.  A
probe in flight is counted as `current` or `old`, by whether the request it
sends is still the configured one; a current probe answers by the state of the
monitored `service` when it ends, an old one may answer anything.  `forgotten`
is a history variable.  Results carry whether they are of a replaced
specification, which the code does not record and the property `ShownIsCurrent`
needs.

### EventStream

One action per callback: `Publish` and the `deliver()` of every connection,
`Accept` (the route, its cap, the replay and the announcement of the new
connection through the bus), `Reap` (the endpoint notices a close), `Read` (one
frame reaches the sink), `End` and `Break` (a stream ends or fails), `Stale`,
`TimerFires`, `Resume`, `NewRun`, `Quit`.  What follows an abort in microtasks
belongs to the step of the abort.

*State.*  A call of `connect()` and its connection share a slot: `held` are the
calls that have not returned, `conn` is what the endpoint makes of the request.
A slot outlives its call until the endpoint has noticed the close, so an
abandoned connection goes on counting against the cap.  `current` is the call
that owns `this.abort`.  `up` is at once "Main has a handle on the agent" and
"the agent lives": a connection refused in between is a `Break`.  `Die` covers
crashes and graceful closes; any prefix of the frames written may still arrive.
The ring is the last `RingSize` elements of `published`.

*Abstractions.*  Buffered frames are counted instead of bytes.  Heartbeats are
left out: a connection without them is `mute`, and that is when `Stale` may act.
Delays are not measured, so the growth of the reconnect delay is left out.
`overlaps` is a history variable: `start()` was called while the `connect()`
just aborted had yet to go on.  `Resume` and `NewRun` need a free slot.

### Tailer

*Granularity.*  `job` is the `await` at which `start()` or `check()` is
suspended: `stat`, `drain` (the `stat` of the open handle), `read`, `close`,
`open`, `retry`; the result of the system call is what the file system holds
when the check goes on.  `recheck` is the flag that makes the loop of `check()`
go round again.  `stop()` may come at every one of these points, and its
`close()` resolves only when no call is pending on the handle.

*The file system.*  A file is a sequence of cells, a newline or a piece of a
line, with an epoch that counts its truncations; `path` is the inode at the
watched path.  Other programs append (also to a file that was renamed but is
still held), truncate, remove, replace, and change permissions, between any two
steps.  Offsets count cells, so the splitter, the cut of a long line, the batch,
the rate cap and the backfill are the code's arithmetic in small numbers.  `buf`
holds splitter, batch and counters and the events emitted.

*Abstractions.*  Decoding, reuse of an inode number and the return of a renamed
file to its path are left out.  Delays are not measured: a retry, a poll or the
end of the recreation window may come at any time.  `origin` (the file and
offset `readOffset` counts from), `slipped` (a rotation opened another file than
its `stat` had seen), `left` and `stopAt` are history variables.

### AgentProcess and DiagnosticsExport

`AgentProcess` has the process (`proc`, exit `code`), `agent.close()` by what it
awaits (`closing`), the `failsafe` deadline, and the registry: a request is
`adding` from the test of the limit to its last `await`.  `rushed` are those
that passed the limit while another was on its way.  `Exit` takes everything of
the process along; `StartAgain` is the supervisor.

`DiagnosticsExport` adds the exporter: `exp` is the `await` each export is at,
with a failure at each that can fail.  `Unhandled` is a rejection that nothing
awaits: of the archive while `build()` gathers, or of the deletion after a failed
build.  The deletion after a failed preflight may fail too, and leaves its directory
beside an exporter that is free (`leftover`).  The
progress events (`wire`) and the response (`resp`) travel apart; `view` and
`asking` are the renderer's store and button; `move` is Main's `finalizeExport`.
Events of an agent that ended may still arrive or not.  `wedged`, `overtaken`
and `unheard` are history variables.

### Reconcile

`made` lists the ids handed out by all agents together, so an old id is never
valid again; `agent` and `off` are what the agent serves, `store` and `storeOff`
what Main has recorded, `rec` the reconciliation with the push it awaits and the
map of ids it collects, `calls` the requests of the user on their way, `shown`
and `views` the ids the renderer has.  A configuration is reduced to being
switched on or off, what a `PATCH` can get wrong.  A request may be served and
its answer lost (`GiveUp`, `PushFails`).  A second request for the same id waits
for the first; requests to an agent that ended have settled before the next one
runs, since a start takes longer than they do; so the pushes of two
reconciliations do not meet.  `slips` is a history variable that names every way
out of the properties and what it struck.

### AgentFeed, Tray and Renderer

`AgentFeed` has no `Next` of its own: it offers what the agent, the stream and
the list requests do, each in a step, and `Tray` and `Renderer` say what Main or
the renderer does in the same step.  Events wait in `stream` until they are
read; a reconnection replays or resets, a wake-up (`Rewind`) drops what was not
read, a slow connection sheds lines, the end of an agent leaves a remainder that
is read or cut.  Answers to list requests travel beside the stream (`asks`): an
answer may be older or newer than the event read next to it.

A `stop()` and `start()` of the consumer on an open connection (`Reattach`: a
wake-up; also the start of a later agent) leave a second stream behind
(`EventStream` shows how).  `echoes` are the events it may hand on, before or
after the first stream does, and again: `OnAgentEventAgain` in `Tray` and
`OnRoutedEventAgain` in `Renderer` run the whole handler of any of them at any
time.  It is {} as long as there is one stream.

In `Tray` a handler of Main is one step: `Ingest` and `HandleEvent` for one
event, `Hydrated` for one answer, `Flush` for the coalescing window, and
`StopServices` and `Destroyed` for the quit.  `shown` is what the tray was last
told to paint, the choice and the count of the rows included; `heard`, `told`,
`dropped` and `burst` are the notifier's history by kinds of transitions, repeats
included.  `missed` is a history variable: events of this agent were lost, or one
that came again changed whether the watch is in error.

In `Renderer` Main's forwarding is part of the step: events and answers share
one channel to the renderer, and Main reads them one at a time.  `reconciling`
is the stage of a reconciliation as far as the log view sees it.  `Changed` is the
user's add, edit or removal once the agent has made it: a refresh follows, or the
request was rejected all the same (it timed out) and none does.  `doubtful`,
`clean` and `skipped` are history variables: the list may differ from the agent's
(an answer or the end of an agent crossed events, a request failed, an event that
came again changed it), the answers nothing has overtaken, lines of the watch that
were lost, or shown again, without a sign.
The list of monitors is `shownMonitors`: `ViewProofs` extends `Tray` and `Renderer`
together, so `Renderer` gives what both have a name of its own (`RendererInit`,
`ListAnswered`, `OnRoutedEvent`; `WakesUp` is `onResume`, `Begins` the agent's start).

### Dashboard

A refresh is a slot that asks for processes and summary and settles when both
have come.  `inFlight` is the promise in the agent that everyone who asks
shares, `cached` the age of its last list, `runs` the `ps` processes there
really are.  A tick that finds every slot taken is left out.  Rows and numbers
are abstracted to the order they were asked in and to being there.

### LogRotation

Each rename of the loop is a step, because the process may be killed there;
nothing else comes between, since the loop is synchronous.  Lines are numbered,
sizes count lines.  One agent writes at a time.

## Runs

| run | distinct states | bounds |
|---|---|---|
| `supervisor` | 96 thousand | three process identities (two overlapping agents and a free one), one restart in the window, two clicks |
| `health` | 112 thousand | two monitor identities of which one is registered at a time (so that a late probe of a removed monitor meets another one, and the limit is reached), thresholds (2,1) and (1,2), history 2, two edits |
| `events` | 709 thousand | two slots under a cap of one, so that an abandoned connection gets its successor refused; ring of two, a log is shed behind one frame, a connection cut behind three; four events, two troubles |
| `tailer` | 1 million | three files, two cells appended, three changes; chunk, backfill and batch of 2, lines longer than 1 are cut, one line per second, two retries (so that the reopening can fail without the watch giving up) |
| `agent` | 371 thousand | two agents; three requests to watch under a limit of two, or two clicks on the export button, or two refreshes of the dashboard that cross and two changes by the user |
| `reconcile` | 2 million | one monitor, one watch, three agents, five ids, four requests of the user; or the ladder: two restarts in a window of 6, delays 1, 2, 4 (the cap), timers late by 1, agents of a crash loop that end at once, 20 units of time; or the log: four agents, nine lines, three generations that are full behind two lines |
| `tray` | 412 thousand | one monitor, two list requests, two agents, four changes, one row, a summary from the second banner on |
| `renderer` | 5.4 million | one monitor, one log view of two rows, two list requests (alike: symmetry), two agents, five changes |
| `probes_overlap`, `events_twice`, `tailer_crash`, `export_breaks` | | counterexamples, see *Findings*; bounds of `health`, `events`, `tailer` and `agent`, but three slots in `events_twice` and one retry in `tailer_crash` |

`agent` and `reconcile` check several modules that share no state, so a behaviour
takes steps of one of them only: `MCNext` has a disjunct for each, which leaves the
others where they start, and no states are multiplied.

Bounds are guards (`MaxClicks`, `MaxUpdates`, `MaxChanges`, `MaxCalls`, ...) or
caps (`MaxRestarts + 1`, `ResultHistory` for the counters of the state machine,
beyond which no threshold can tell a difference).  What they leave room for:

* `supervisor`: two clicks make every overlap of two calls of `restart()`.
* `health`: two edits switch a monitor off and on under a probe, or replace a
  specification and the thresholds.
* `events`: `MaxEvents` is twice the ring, so that ids leave it; `MaxIds` is out
  of reach while `overlaps = 0` (if it disabled `Accept`, `CatchesUp` would
  fail); two troubles are a fault while the consumer recovers from another.
* `tailer`: a file is replaced while the rotation of the one before is under
  way, truncated and refilled, or loses its permission and is replaced behind
  it; a line is cut, a batch fills, lines wait when a marker comes, the rate cap
  drops one.  The two cells are why a batch of two is the longest there is.
* `agent`: a second request arrives in each stage of the first, the agent ends in
  each stage, and an agent follows; a click in the dashboard while a refresh is under
  way, with a failure of `ps` or an end of the agent.
* `reconcile`: a reconciliation is cut off by a crash and followed by another,
  with a request of the user before, in and after it.  In the ladder a failed agent
  that lasts fits three failures into the window just not, a crash loop just so; the
  cap is reached, the ladder reset and climbed again, and rerun after a click.  A
  rotation of the log is cut off in each place, and the next one too.
* `tray`, `renderer`: an event before and one after an answer, a second answer
  that crosses the first, and the end of the agent or a wake-up in between; an
  event or two that a second stream hands on late; the view of two rows loses its
  oldest.

Deadlock is checked in `health`.  Elsewhere the system may stop, or its bounds may: Main and its agents are gone, time or lines are used up, the
consumer is stopped and the agent dead, the watch is over, the user and the
agents have used up their moves.

### What they show

**supervisor.**  As long as no click overlaps an agent or a quit: at most one
agent is alive, and none while `backoff` or `failed` is shown (`NoStrays`); a
running agent is the one Main talks to, alive and watched, and a backoff timer is
pending exactly in `backoff` (`Attended`); an application that exits has signalled
every agent (`QuitSignalsUnlessOverlap`); each step is one of `AgentLifecycle`
(`ImplementsLifecycle`).  In every case, overlaps included: `spawning` and
`backoff` end, a quit completes and no agent outlives Main for ever (`Progress`).

**health.**  A full run of failures on record means unhealthy, of successes
healthy, unknown that nothing conclusive is on record (`StateMatchesResults`);
an alert or a recovery needs such a run (`AlertsAreEarned`).  One probe per
monitor, which the comments promise, is refuted by `probes_overlap`; what does hold
is that every overlap is owed to one time the monitor was switched off under a
probe, so that the flag keeps its word over ticks, edits and late ends
(`OverlapsAreCounted`).  A lasting outage and a lasting recovery are
reported, a monitor removed or off shows no late result, and results of a
replaced address disappear (`ShownIsCurrent`).

**events.**  A running consumer owns a connection or waits for its timer, and has
one of them once, but for one more per overlap (`OneDriver`).  Between two
starts, events are handed on in order, once, without a silent gap; the id of a
reconnect is of the agent's own run; after `stop()` nothing is handed on; a slow
connection loses log batches and no other event (`HandedOn`).  Once faults stop,
Main catches up (`CatchesUp`).  These two hold while `overlaps = 0`; the findings say what happens otherwise.  `CatchesUp` in
particular needs one stream: two slow ones can go on cutting each other by the
`agent.ready` each connection announces through the bus.

**tailer.**  As far as a file was read, its lines, split as if it were read in one
piece, are each delivered, queued or dropped once, in order and with their
offsets, each dropped line is counted, and a `rotated` or `truncated` marker parts
the lines of two files (`TextFaithful`).  A file that left its path is closed only
when all it held when it left has been read, and once other programs are quiet
the watch has ended, waits for a file that is not there, or has delivered all
there is (`AllIsRead`).  `stop()` is final unless it comes while a check examines
or replaces the file (`StopIsFinal`).  Exceptions, all named in the
formulas: a rotation that slipped, a failed read, a truncation behind the open
handle, and the silent state after a failed reopening.

**agent.**  At most `MaxWatches` files are watched, requests that passed the limit
beside another apart, over shutdowns and restarts (`WatchLimit`).  One bundle is
built at a time and the flag says so; a staging directory outlives its export only
as a bundle Main has not moved, because the process ended, or because its
deletion after a failed preflight failed (`ExportsClean`).  That a failed export
leaves nothing, as the code's comment has it, is refuted by `export_breaks`.
Every request is answered, the exporter becomes free and the button comes back,
unless `mkdtemp` failed, the agent ended under the export, or its last event was lost
or overtook the response (`ExportsSettle`).

Of the dashboard: concurrent requests share one run of `ps` and none waits for a run
that is over (`OnePs`).  Whatever crossed, the table comes to show the order
chosen, without an error, and the summary (`DashboardSettles`).  A hidden window
polls nothing (a conjunct of `DashboardTypeOK`).

**reconcile.**  When nothing is under way: the store lists what the agent serves,
with the same switches (`StoreMirrorsAgent`); the agent serves what the user wants
(`ConfigSurvives`); each log view is fed by a watch and each watch feeds a view
(`ViewsFollow`).  `slips` names the exceptions: `lost` (a push failed), `lapsed`
(a request was served, its answer was not), `doubled` (a watch opened while the
monitors were pushed is pushed again), `muted` (the tray's *Pause all* does not
reach the store), `misdirected` (a removal during a reconciliation met an old id,
and 404 is success), `abandoned` (closing a view failed).  Each excuses only the
item or id it struck.

Of the ladder: at each failure the supervisor gives up exactly when more than
`MaxRestarts` failures really lie in the window (`BudgetKept`): what the stable
timer makes the tracker forget would not count any more, because its time is no
shorter than the window.  No span shorter than the window, less the lateness of
timers, sees more than `MaxRestarts` automatic attempts, and agents
that never last are given up (`RetriesBounded`), as long as all delays and lives
fit into the window: with the default values that is agents that last less than
about 8.9 s, so one that hangs until the handshake deadline of 10 s is retried for
ever.

Of the agent's log: its files hold the last lines written, in order and without a hole, and at least as many as fill two generations, of the
three there are (`LogIsWhole`).  With more than three, rotations that are cut off
again and again may leave as little: the shift drops the oldest file though a
younger place is free.

**tray.**  Every transition Main reads is in one banner, waits for the timer then
armed, or is dropped by the quit; a window shows no more banners than the
threshold; a watch counts as in error exactly when it is, if no event was lost and
none that came again said otherwise (`StreamIsTold`).  Transitions are counted as
they are read, so that one read on two streams is told twice.  The tray comes to show the monitors of the agent that runs, and
that none does when it was given up (`TraySettles`), unless its `ready` was read
after its end.

**renderer.**  When nothing is under way the list is the agent's, kept up by events
alone since the last answer that no event crossed (`ListFollows`): an answer, a
change that timed out or an event come again may have put it wrong, until the next
such answer.  Two lines that follow each other in a view without a marker are numbered one after the other, over
replays, resets, restarts and re-keying (`LinesUnbroken`), until a line is shed,
dropped by a wake-up or appended a second time in this watch.

### Fairness

Microtasks, timers that are due, requests with a timeout and the exit of a process
that got SIGTERM (SIGKILL follows) are taken eventually; in `Supervisor` the strong
form is needed where an action is disabled while microtasks run or while another
timer is served in between, and the event loop serves its queues in turn.  A probe
ends because its request is aborted after `timeoutMs`.  The agent answers requests
and notices closed sockets, Main reads what has arrived and its timers fire: each
is its own callback, disabled only by being served, so the weak form suffices.  In
`Tailer` system calls return and the poll timer fires; in `DiagnosticsExport`
awaits settle and the deadline of the shutdown passes, while a crash or a SIGTERM
need not come; in `Tray` an agent that runs answers and one that was told to end
does; in `Dashboard` intervals fire, `ps` and requests end within their timeouts,
and the supervisor brings the agent back.  Nothing is assumed of the user, of
crashes, of faults, of published events, of other programs or of an agent that
nobody signalled.  `RestartLadder`, `LogRotation`, `Reconcile` and `Renderer`
state safety only and assume nothing.

## Findings

Each of these is a run whose counterexample is a disagreement between the code and what
the repository says of it; PROJECT.json quotes both sides.

- **probes_overlap.**  `update()` clears the flag of a monitor that is switched off
  while its probe goes on; switched on again, the monitor gets a second one beside it
  (health-registry.ts:133), and the end of the first clears the flag of the second.
  "At most one probe per monitor" (41, PDD 547) does not hold.
- **events_twice.**  On resume Main calls `stop()` and `start()` with a connection
  open.  The aborted `connect()` goes on after `start()` has set `running` again
  and arms another reconnect: two streams hand every event on twice, and the next
  `stop()` aborts the younger one only.
- **tailer_crash.**  The `open()` of `rotateTo` is awaited outside any `try`.  When
  the new file is gone or forbidden between the stat and the open, the rejection is
  unhandled and the agent exits with code 1, with every watch and monitor in it.
- **export_breaks.**  `finished` (export.ts:175) is awaited only at the end of
  `build()`.  When the archive or its output fails before, nothing handles the
  rejection: the agent exits, no `failed` is sent and the staging directory stays,
  against the comment at 88-90 and PDD 581.

Met while modelling, part of the models' behaviour, and not runs of their own:

- *Supervisor.*  Overlapping `restart()` clicks can leave backoff or failed beside a
  live agent (agent-supervisor.ts:219).  A manual restart that waits for an exit in
  `stop()` when the quit calls `stop()` too goes on behind it, sets `stopping` back
  (207) and spawns an agent that nobody signals, against app-lifecycle.ts:63-64; its
  orphan guard ends it.  `restartAttempt` (263) counts every failure since the last stable minute, the
  tracker only those in its window: when failures come slower than the window gives
  up on (with the default values: an agent that hangs until the handshake deadline),
  the banner shows "attempt 6 of 5", and from the cap on the delays of 30 s outlast
  the window, so that the loop is never given up.
- *Health.*  Edited thresholds have no effect until the monitor is created again
  (health-registry.ts:117).
- *Event stream.*  After a wake the consumer forgets its last id and so leaves a
  silent gap (agent-events.ts:45, PDD 446).  Log lines that are shed for a slow
  connection are marked nowhere (sse.ts:84).
- *Tailer.*  A removed file's descriptor is drained once and closed, where PDD 515
  keeps it open: what a writer appends to it later is not read.  A rotation that
  slips between two awaits reads a file twice; after lost permission a replaced file
  is read on from the old offset without a `rotated`.  After lost permission the
  watch is active again (tailer.ts:259) before its file is open: when that open fails,
  it has no handle, every later check returns at once, and nothing is read or reported
  any more, although PDD 27 promises no silently broken state (`SilentlyBroken`).
- *Export.*  A failed `mkdtemp` leaves the exporter busy for good; the button stays
  busy when the agent ends, or when the last event came before `begin()`; a failed
  `finalize` leaves its staging directory, and so does a deletion that fails after
  a failed preflight (119) or build (228); the latter also ends the agent.
- *Reconciliation.*  The store is emptied before the pushes (agent-reconciler.ts:26):
  when the new agent ends before they are through, the entries left are forgotten and
  no later agent gets them, against PDD 148.  A watch may be opened twice, a removal may hit an id of the
  agent before, a view's close may be lost, and *Pause all* does not reach the store.
- *Views.*  No "recovered" banner when the agent restarts while a monitor is
  unhealthy; a watch closed in error is counted on, because `setActiveWatches` has no caller;
  `ready` read after the agent's end paints it as up; the renderer's list stays stale
  after crossed answers, and after a change the agent made but whose request was
  rejected, since the refresh stands behind the `await` (monitors-store.ts:46, 51, 56;
  the comment at 45 promises an exact list), and a second stream may put an older state back into it and
  repeat lines and banners; nothing refetches on `stream.reset` (PDD 446) and nothing
  discards by run id (PDD 937); the first lines of a watch opened anew may be
  dropped; an older answer may stand in the process table until the next tick, and
  rows stay beside an error; a failure of `ps` publishes no warning (PDD 558).

## Proofs

TLAPS proves the following for every value of the constants that satisfies the
assumptions of the modules (`SupervisorAssumption`, `LadderAssumption`, ...): names
for "no child" or "undefined" that are none of the values, finite sets of slots and
requests, naturals as bounds, positive sizes for rings, caps, batches and delays,
thresholds within the history (the code has 1 to 10 and 100), a summary from the
second banner on at the earliest (the code has 3), a stable time no
shorter than the restart window (the code has 60 s for both), at least two
generations of the log (the code has 3).

Each safety theorem goes by an inductive invariant: `Init` implies it, each action
keeps it (one lemma per action or group of actions), and it implies the property.
TLC checked each on the instances of the runs before it was proved.

*Supervisor.*  One invariant gives the types and the safety properties of the run:
unless a click overlapped, `Serial` holds, which says of each stage of a start, a
stop and the queue what child, handle and timers are.  `OneAgent` alone is not
inductive: that a spawn finds no process alive depends on the kill having been
awaited, on the pending timer being the only one and on the queue holding at most
one of the continuations that lead to a spawn.  `NoStrays` and `Attended`, the
properties the run checks, are conjunctions of what `Serial` gives.  `Refinement`
proves from the same invariant that the supervisor implements `AgentLifecycle`.

*Ladder.*  `BudgetKeptHolds` rests on `BudgetInv`: failures the tracker forgot are
at least a window old, or a stable timer that forgets all of them fires only
`StableReset` after the last (`Memory`); while no agent runs, the timestamps are
the failures of the window that ends at the last one, and `failed` is shown exactly
when they are too many (`Verdict`).  The assumption on `StableReset` is needed: with
a shorter one the stable timer would forgive failures that still count.
`RetriesAreBounded` counts attempts by failures: each retry was led to by a failure
of its own, at most a delay and `Lateness` before it, and delays only grow between
two resets, which lie a window apart (`Paced`).  So the failures behind the attempts
of one span are all in the window the tracker judged by (`NearAreFew`, an
injection).  That a crash loop is given up needs `LoopFits`, which is the theorem's
hypothesis: the delays of `MaxRestarts` attempts, the lateness and the lives of
the agents add up to less than the window.  The default values satisfy it for agents
that last less than about 8.9 s, the constants of `reconcile` do just so, and what happens
otherwise is among the findings.

*Health.*  `HealthProofs` rests on an invariant that ties the two counters of
the machine to the runs of equal results at the end of the history
(`failures >= n` exactly when the last `n` results failed, for each `n` up to
the length of the history) and the state to counters and thresholds.  Without
the counters in it `StateMatchesResults` is not inductive: the code judges by
counters, the user sees results.  It needs lemmas on what pushing and shifting
do to the end of a sequence.

*Event stream.*  Types, the cap, `OneDriver` and `QuietWhenStopped` follow from
`Control`, which counts the calls of `connect()` and the timer against `overlaps`
and says that without an overlap the only call is the one that owns `this.abort`.
`BackpressureSparesEvents`, `ResumesOwnRun`, `InOrder` and `HandedOn`, which puts
the promises to the sink together, need `Feed` as well: `InOrder` is about a step;
that the head of the pipe follows the last id is inductive only when the frames of
a pipe are of this run, increasing, complete but for logs among themselves, behind
the last id and, while the connection is served, up to the newest event.  That a
reconnect restores it is the lemma `BacklogWaits`: its answer to an id begins right
behind it or with a reset.

*Tailer.*  The invariant has two halves.  `Control` is about the steps between two
awaits: what each `await` of a check implies for state, descriptor and poll
(`JobOK`), what is left after a stop (`StopOK`), what is on disk (`FilesOK`), and
that a read under way for a rotation goes as far as the old file went when it left
its path (`DrainOK`).  It gives `StopFinal` and `NothingLeftUnread`, the action
property `RotationDrains` within `AllIsRead`.  `Told` is about the text: what was
delivered, waits or was dropped since the offset the tailer counts from are, as a
set, in order and by number, the lines of the text read (`TextOK`), and rows of
older origins lie before the marker that parts them (`OriginOK`).
`TextFaithful` is not inductive without the carry of the splitter, the batch and
the count of dropped lines, nor without the origin of each row.  The heart is
`ReadChunkTold`: splitting a text in two pieces, with the carry handed over, gives
the lines of splitting it at once.  The programs that append, truncate, replace and
protect the file are actions like others, so each keeps both halves.

*Agent.*  `WatchesAreLimited` needs the requests under way in the count
(`Limited`): it is the test of the limit before three awaits that is judged, not
the registry.  `ExportsAreClean` follows from `OneBuilt` (one export is in the
building, and the flag is set for exactly that one unless it is wedged) and `Tidy`
(where an export is tells what may be left of its directory, and Main was told
"done" only of exports that are); a deletion that failed has a state of its own.
`LogStaysWhole` goes by the shape of the files:
every older file is full, the loop of renames only begins, and is only at work,
when `agent.log` is full, the next place to fill is free but for the oldest, and
the last line of `agent.log` is the last written.  So a move over the oldest file
leaves two full ones behind it.

*Reconciliation.*  `StoreMirrors`, `ConfigurationSurvives` and `ViewsFollowWatches`
speak of moments when nothing is under way; their invariant says for every moment
what the store, the entries still to be pushed, the requests and the answers not
yet heard make up together: an entry the agent serves is in the store or on its way
to it (`Served`), an entry of the store is served, or being removed (`Stored`),
switches agree but for what a request under way will change (`Switches`), the
wanted items are the entries kept or to be pushed (`WantedOK`), and the map of ids
goes from ids that are gone to ids nobody has heard of (`RemapOK`, `FreshOK`).
`OneEach`, that Main keeps one entry for an item, is what lets a removal or an edit
be matched with the entry it is about.

*Dashboard.*  `OnePsAtATime` from `Shared`: the promise is set exactly while a `ps`
runs, and who waits does so under an agent that is up.

*Tray.*  `StreamTold` takes three facts together.  Kind by kind, what was heard was
told, waits in the buffer or was dropped, and a buffer that is not empty has its
timer (`Accounted`; `BannersFit` is the threshold).  And what the tray knows of the
watch and the events still unread add up to what the agent reports (`Due`): the last
of them that says anything about the watch says how it stands now, and when none
does the tray has it right already.  That is what a read event, a new one, a new
watch, a new agent and an end of it must each preserve, unless events were lost.
An event read again is told like any other; that it names no watch to come, which
`Echoing` says of all `echoes`, is what `Due` needs of it, and when it changes the
watch in error that is recorded.

*Renderer.*  `ListFollows` speaks of a moment when no event is on its way; its
invariant says of every moment what the unread events will make of a list.  `Leads`
is that: folding them over one list gives another, with the intermediate lists as
witness, so that no recursive definition is needed.  From the list shown they lead
to the agent's when no request is under way (`Follows`), and from each answer that
nothing has overtaken they do too (`CleanLeads`); the heart is that a turn of a
monitor extends the way by a step (`LeadsAppend`, `CarriesTurn`) and that shed lines
and resets do not lie on it (`LeadsRemoved`, `LeadsNone`).  `LinesUnbroken` is
inductive only with what is still unread: two lines of a watch with nothing between
them that a view would show are numbered one after the other (`Joined`), the first
goes on from the last row of the view (`GoesOn`), the last is the agent's newest
(`EndsAt`), and with none on its way the last row is (`Shown`).  A marker in the
stream or in the view is what releases the next line from it.  The handler of an
event read again leaves both as they are when it changes neither list nor rows
(`AgainKeepsList`, `AgainKeepsLines`), and what it changes otherwise is recorded.

*Recursion.*  The delays, the splitter, the batch and the reading of a text are
recursive functions.  The library's induction theorems take an operator as a
parameter, which the provers cannot instantiate; `SetInduction` replaces them for
sets, from the well-foundedness of the naturals, and `Iteration` shows that a first
value and a step define a function.  `TailerProofs` and `LadderProofs` carry
everything they prove about recursive functions on these.

*Only model-checked*: the liveness properties (the prover has no rule for
fairness or ENABLED): `Progress`, `ShownIsCurrent`, `CatchesUp`, the second half of
`AllIsRead`, `ExportsSettle`, `TraySettles` and `DashboardSettles`.  Every invariant
a run checks is proved.  *Only shown by counterexample*: the findings.

## Not modelled

- HTTP routes: stateless; the handlers behind them are modelled with their components.
- IPC registration, windows and platform glue: thin calls into Electron.  Path tokens
  are a plain map.
- Renderer components and preload: markup and forwarding.
- Contracts: schemas; well-formed messages pass unchanged.
- Contents and redaction of the diagnostics archive, the parsing of `ps` and the
  arithmetic of the samplers: pure functions of external data.

What the models leave out of the parts they cover: a user has one request per id
under way at a time; an answer is read before one to a later list; requests of an
ended agent settle before the next one runs; events and IPC answers share one
first-in-first-out channel from Main to the renderer; of a second stream only what
it may hand on is kept, neither its order nor how often, and what it has left of an
agent that ended is read before the next one runs; polls are bounded by slots;
there is one log view and one monitor behind it; inode numbers are not used again
and an old log file is not moved back; one agent at a time writes its log; the clock does
not jump backwards.

## Plan

1. A refinement that ties the tracker of `Supervisor` (a capped count) to the
   timed one of `RestartLadder`.
2. Larger instances: two log views in `Renderer`, two watches of one file in
   `Tailer`, three crashes in `Reconcile`.
