----------------------------- MODULE Supervisor -----------------------------
(***************************************************************************)
(* The agent supervisor of Electron's main process (AgentSupervisor), the  *)
(* agent processes it spawns, the "Restart agent" button of the crash      *)
(* banner and the quit sequence of the application.                        *)
(*                                                                         *)
(* Main is one JavaScript thread.  A step of the model is one macrotask    *)
(* (a timer, an event of a child process, a settled request, a call from   *)
(* the UI) up to its first await, or one microtask: the continuations that *)
(* an exit event wakes up run in FIFO order before any other macrotask,    *)
(* and "jobs" is that queue.                                               *)
(***************************************************************************)
EXTENDS Naturals, Sequences

CONSTANTS
  Children,     \* identities of agent processes, used again once forgotten
  NoChild,      \* the value undefined of child, handle and watchedChild
  MaxRestarts,  \* restarts the rolling window allows (maxRestarts)
  MaxClicks     \* bound on the manual restarts of a behaviour

ASSUME SupervisorAssumption ==
  /\ NoChild \notin Children
  /\ MaxRestarts \in Nat
  /\ MaxClicks \in Nat

VARIABLES
  state,         \* stateValue
  child,         \* this.child
  handle,        \* the child this.handle (port, token) belongs to
  watched,       \* this.watchedChild
  stopping,      \* this.stopping
  recent,        \* timestamps in the tracker's window, at most MaxRestarts + 1
  info,          \* restartInfo: "none", "retry" (a next retry) or "exhausted"
  backoffTimer,  \* this.backoffTimer holds a pending timer
  strayTimers,   \* pending backoff timers whose handle was overwritten or lost
  stableTimer,   \* this.stableTimer is pending
  proc,          \* each process: "dead", "booting" or "ready"
  starting,      \* where the start() call that spawned the child is suspended
  waiters,       \* continuations waiting for the child in killProcessGracefully
  watchers,      \* children with watchExit's listener attached
  signalled,     \* children that got SIGTERM (and get SIGKILL after a while)
  jobs,          \* the microtasks an event woke up, in order
  app,           \* the main process: "up", "quitting", "exiting", "gone", "killed"
  banner,        \* the last polled status shows "Restart agent"
  clicks,        \* manual restarts so far
  overlap        \* history: a restart was asked for beside an agent or a quit

supervisor == <<state, child, handle, watched, stopping>>
ladder == <<recent, info, backoffTimer, strayTimers, stableTimer>>
processes == <<proc, starting, waiters, watchers, signalled>>
ui == <<banner, clicks, overlap>>
vars == <<supervisor, ladder, processes, jobs, app, ui>>

States == {"idle", "spawning", "running", "backoff", "failed", "stopping", "stopped"}
Jobs == {"startCleanup", "attemptFailed", "stopDoneQuit", "stopDoneRestart",
         "quitResume", "restartResume", "onExit"}

Alive(c) == proc[c] # "dead"
Ended == app \in {"gone", "killed"}

\* A macrotask of Main runs only when the microtask queue is empty.
Turn == jobs = <<>> /\ ~Ended

\* A child object nothing in Main refers to any more: its identity is free.
Free(c) ==
  /\ ~Alive(c) /\ starting[c] = "none"
  /\ c \notin {child, handle, watched}

TypeOK ==
  /\ state \in States
  /\ child \in Children \cup {NoChild}
  /\ handle \in Children \cup {NoChild}
  /\ watched \in Children \cup {NoChild}
  /\ stopping \in BOOLEAN
  /\ recent \in 0 .. MaxRestarts + 1
  /\ info \in {"none", "retry", "exhausted"}
  /\ backoffTimer \in BOOLEAN
  /\ strayTimers \in Nat
  /\ stableTimer \in BOOLEAN
  /\ proc \in [Children -> {"dead", "booting", "ready"}]
  /\ starting \in [Children -> {"none", "handshake", "health", "killing"}]
  /\ waiters \in [Children -> Seq(Jobs)]
  /\ watchers \in SUBSET Children
  /\ signalled \in SUBSET Children
  /\ jobs \in Seq(Jobs)
  /\ app \in {"up", "quitting", "exiting", "gone", "killed"}
  /\ banner \in BOOLEAN
  /\ clicks \in 0 .. MaxClicks
  /\ overlap \in BOOLEAN

Init ==
  /\ state = "idle"
  /\ child = NoChild /\ handle = NoChild /\ watched = NoChild
  /\ stopping = FALSE
  /\ recent = 0 /\ info = "none"
  /\ backoffTimer = FALSE /\ strayTimers = 0 /\ stableTimer = FALSE
  /\ proc = [c \in Children |-> "dead"]
  /\ starting = [c \in Children |-> "none"]
  /\ waiters = [c \in Children |-> <<>>]
  /\ watchers = {} /\ signalled = {}
  /\ jobs = <<>>
  /\ app = "up" /\ banner = FALSE /\ clicks = 0 /\ overlap = FALSE

-----------------------------------------------------------------------------
(* Pieces of the handlers. *)

\* start() up to its first await: spawn the child, wait for its handshake.
Spawn ==
  \E c \in Children :
    /\ Free(c)
    /\ child' = c
    /\ proc' = [proc EXCEPT ![c] = "booting"]
    /\ starting' = [starting EXCEPT ![c] = "handshake"]
    /\ UNCHANGED <<waiters, watchers, signalled>>

\* attempt() past its test of stopping, with the queue rest behind it.  start()
\* throws when a child is already there, and attempt's catch is a microtask.
TryStart(rest) ==
  /\ state' = "spawning"
  /\ \/ child = NoChild /\ Spawn /\ jobs' = rest
     \/ /\ child # NoChild
        /\ jobs' = Append(rest, "attemptFailed")
        /\ UNCHANGED <<child, processes>>

\* Mutant of ScheduleRestart: the timer is never armed.
ScheduleRestart_NoTimer ==
  /\ stableTimer' = FALSE
  /\ \E kept \in 0 .. recent :
       recent' = IF kept < MaxRestarts THEN kept + 1 ELSE MaxRestarts + 1
  /\ IF recent' > MaxRestarts THEN info' = "exhausted" /\ state' = "failed"
     ELSE info' = "retry" /\ state' = "backoff"
  /\ UNCHANGED <<backoffTimer, strayTimers>>

\* scheduleRestart(): any number of old timestamps may have left the window;
\* one more restart is recorded; too many of them end in failed.
ScheduleRestart ==
  /\ stableTimer' = FALSE
  /\ \E kept \in 0 .. recent :
       recent' = IF kept < MaxRestarts THEN kept + 1 ELSE MaxRestarts + 1
  /\ \/ /\ recent' > MaxRestarts
        /\ info' = "exhausted" /\ state' = "failed"
        /\ UNCHANGED <<backoffTimer, strayTimers>>
     \/ /\ recent' <= MaxRestarts
        /\ info' = "retry" /\ state' = "backoff"
        /\ backoffTimer' = TRUE
        /\ strayTimers' = IF backoffTimer THEN strayTimers + 1 ELSE strayTimers

\* Mutant of KillGracefully: the kill is not awaited.
KillGracefully_NoWait(c, job) ==
  /\ signalled' = IF Alive(c) THEN signalled \cup {c} ELSE signalled
  /\ jobs' = <<job>>
  /\ UNCHANGED waiters

\* killProcessGracefully(c) with the continuation job: at once for a dead child,
\* else SIGTERM now (SIGKILL later) and the continuation on its exit event.
KillGracefully(c, job) ==
  IF Alive(c)
  THEN /\ waiters' = [waiters EXCEPT ![c] = Append(@, job)]
       /\ signalled' = signalled \cup {c}
       /\ jobs' = <<>>
  ELSE /\ jobs' = <<job>>
       /\ UNCHANGED <<waiters, signalled>>

\* stop() up to its await, with done the job that follows the kill and resume
\* the job that follows stop() itself.
Stop(done, resume) ==
  /\ stopping' = TRUE
  /\ backoffTimer' = FALSE /\ stableTimer' = FALSE
  /\ watched' = NoChild
  /\ IF child = NoChild \/ state \in {"stopped", "idle"}
     THEN /\ state' = "stopped" /\ handle' = NoChild
          /\ jobs' = <<resume>>
          /\ UNCHANGED <<waiters, signalled>>
     ELSE /\ state' = "stopping"
          /\ KillGracefully(child, done)
          /\ UNCHANGED handle
  /\ UNCHANGED <<child, strayTimers, proc, starting, watchers>>

-----------------------------------------------------------------------------
(* Macrotasks of Main. *)

\* launch() at the end of the ready handler.
Launch ==
  /\ Turn /\ state = "idle"
  /\ stopping' = FALSE
  /\ TryStart(<<>>)
  /\ UNCHANGED <<handle, watched, ladder, app, ui>>

\* The renderer polls the status every two seconds; the banner shows the result.
Poll ==
  /\ Turn /\ app \in {"up", "quitting"}
  /\ banner' = (state = "failed")
  /\ UNCHANGED <<supervisor, ladder, processes, jobs, app, clicks, overlap>>

\* restart(), by a click on the banner's button: nothing in Main asks whether the
\* agent is (still, or again) down or a quit is under way.
Restart ==
  /\ Turn /\ app \in {"up", "quitting"} /\ banner /\ clicks < MaxClicks
  /\ clicks' = clicks + 1
  /\ overlap' = (overlap \/ child # NoChild \/ app # "up")
  /\ recent' = 0 /\ info' = "none"
  /\ \/ child # NoChild /\ Stop("stopDoneRestart", "restartResume")
     \/ /\ child = NoChild
        /\ backoffTimer' = FALSE /\ stableTimer' = FALSE
        /\ stopping' = FALSE
        /\ TryStart(<<>>)
        /\ UNCHANGED <<strayTimers, handle, watched>>
  /\ UNCHANGED <<app, banner>>

\* before-quit: nothing to tear down, or stopServices and quit again after it.
Quit ==
  /\ Turn /\ app = "up" /\ state # "idle"
  /\ \/ /\ state = "stopped" /\ app' = "exiting"
        /\ UNCHANGED <<supervisor, ladder, processes, jobs>>
     \/ /\ state # "stopped" /\ app' = "quitting"
        /\ Stop("stopDoneQuit", "quitResume")
        /\ UNCHANGED <<recent, info>>
  /\ UNCHANGED ui

\* A second quit while the first one waits is not prevented any more.
QuitAgain ==
  /\ Turn /\ app = "quitting"
  /\ app' = "exiting"
  /\ UNCHANGED <<supervisor, ladder, processes, jobs, ui>>

\* The process of Main ends: after app.quit(), or by a crash or kill -9.
ExitMain ==
  /\ Turn /\ app = "exiting"
  /\ app' = "gone"
  /\ UNCHANGED <<supervisor, ladder, processes, jobs, ui>>

KillMain ==
  /\ Turn
  /\ app' = "killed"
  /\ UNCHANGED <<supervisor, ladder, processes, jobs, ui>>

\* Mutant of Attempt: stopping is not tested.
Attempt_IgnoresStopping(rest) == TryStart(rest)

\* The callback of the backoff timer: attempt() returns when stopping.
Attempt(rest) ==
  \/ /\ stopping /\ jobs' = rest
     /\ UNCHANGED <<state, child, processes>>
  \/ ~stopping /\ TryStart(rest)

BackoffFires ==
  /\ Turn /\ backoffTimer
  /\ backoffTimer' = FALSE
  /\ Attempt(<<>>)
  /\ UNCHANGED <<handle, watched, stopping, recent, info, strayTimers, stableTimer, app, ui>>

\* Mutant of StrayFires: a cleared timer still fires.
StrayFires_Cleared ==
  /\ Turn /\ strayTimers' = strayTimers - 1
  /\ backoffTimer' = FALSE
  /\ Attempt(<<>>)
  /\ UNCHANGED <<handle, watched, stopping, recent, info, stableTimer, app, ui>>

\* A timer whose handle was overwritten: its callback forgets the newer handle.
StrayFires ==
  /\ Turn /\ strayTimers > 0
  /\ strayTimers' = IF backoffTimer THEN strayTimers ELSE strayTimers - 1
  /\ backoffTimer' = FALSE
  /\ Attempt(<<>>)
  /\ UNCHANGED <<handle, watched, stopping, recent, info, stableTimer, app, ui>>

\* A minute of running resets the ladder.
StableFires ==
  /\ Turn /\ stableTimer
  /\ stableTimer' = FALSE /\ recent' = 0 /\ info' = "none"
  /\ UNCHANGED <<supervisor, backoffTimer, strayTimers, processes, jobs, app, ui>>

\* waitForHandshake: the ready line, or the deadline.
HandshakeLine(c) ==
  /\ Turn /\ starting[c] = "handshake" /\ proc[c] = "ready"
  /\ starting' = [starting EXCEPT ![c] = "health"]
  /\ UNCHANGED <<supervisor, ladder, proc, waiters, watchers, signalled, jobs, app, ui>>

HandshakeTimeout(c) ==
  /\ Turn /\ starting[c] = "handshake"
  /\ starting' = [starting EXCEPT ![c] = "killing"]
  /\ KillGracefully(c, "startCleanup")
  /\ UNCHANGED <<supervisor, ladder, proc, watchers, app, ui>>

\* Mutant of HealthOk: watchExit does not ask whether the child has died already.
HealthOk_NoGapCheck(c) ==
  /\ Turn /\ starting[c] = "health"
  /\ starting' = [starting EXCEPT ![c] = "none"]
  /\ handle' = c /\ state' = "running" /\ info' = "none"
  /\ watched' = IF child = NoChild THEN watched ELSE child
  /\ watchers' = IF child = NoChild THEN watchers ELSE watchers \cup {child}
  /\ stableTimer' = TRUE
  /\ UNCHANGED <<child, stopping, recent, backoffTimer, strayTimers,
                 proc, waiters, signalled, jobs, app, ui>>

\* confirmHealth succeeds; its answer may be read after the child is dead.  start
\* returns, attempt goes on to running, watchExit (of whatever this.child is now)
\* and the stable timer.
HealthOk(c) ==
  /\ Turn /\ starting[c] = "health"
  /\ starting' = [starting EXCEPT ![c] = "none"]
  /\ handle' = c /\ state' = "running" /\ info' = "none"
  /\ IF child = NoChild
     THEN UNCHANGED <<watched, watchers, jobs>>
     ELSE /\ watched' = child
          /\ IF Alive(child)
             THEN watchers' = watchers \cup {child} /\ UNCHANGED jobs
             ELSE jobs' = <<"onExit">> /\ UNCHANGED watchers
  /\ stableTimer' = TRUE
  /\ UNCHANGED <<child, stopping, recent, backoffTimer, strayTimers,
                 proc, waiters, signalled, app, ui>>

\* confirmHealth fails or times out: start's catch kills the child.
HealthFail(c) ==
  /\ Turn /\ starting[c] = "health"
  /\ starting' = [starting EXCEPT ![c] = IF Alive(c) THEN "killing" ELSE "none"]
  /\ KillGracefully(c, "startCleanup")
  /\ UNCHANGED <<supervisor, ladder, proc, watchers, app, ui>>

\* onUnexpectedExit past its test of stopping.
UnexpectedExit ==
  /\ child' = NoChild /\ handle' = NoChild /\ watched' = NoChild
  /\ ScheduleRestart

\* The exit event of c: the rejected handshake and the waiting kills become
\* microtasks in the order of their listeners, watchExit's listener runs at once.
Exit(c) ==
  /\ Turn /\ Alive(c)
  /\ proc' = [proc EXCEPT ![c] = "dead"]
  /\ signalled' = signalled \ {c}
  /\ watchers' = watchers \ {c}
  /\ waiters' = [waiters EXCEPT ![c] = <<>>]
  /\ starting' = [starting EXCEPT ![c] = IF @ = "health" THEN @ ELSE "none"]
  /\ jobs' = IF starting[c] = "handshake" THEN <<"startCleanup">> \o waiters[c]
             ELSE waiters[c]
  /\ IF c \in watchers /\ watched = c /\ ~stopping
     THEN UnexpectedExit /\ UNCHANGED stopping
     ELSE UNCHANGED <<supervisor, ladder>>
  /\ UNCHANGED <<app, ui>>

-----------------------------------------------------------------------------
(* Microtasks of Main. *)

Job(name) == ~Ended /\ jobs # <<>> /\ Head(jobs) = name

\* start()'s catch after the kill: forget the child and rethrow.
StartCleanup ==
  /\ Job("startCleanup")
  /\ child' = NoChild /\ state' = "stopped"
  /\ jobs' = Append(Tail(jobs), "attemptFailed")
  /\ UNCHANGED <<handle, watched, stopping, ladder, processes, app, ui>>

\* attempt()'s catch.
AttemptFailed ==
  /\ Job("attemptFailed")
  /\ ScheduleRestart
  /\ jobs' = Tail(jobs)
  /\ UNCHANGED <<child, handle, watched, stopping, processes, app, ui>>

\* The rest of stop(), and then of its caller.
StopDone(done, resume) ==
  /\ Job(done)
  /\ child' = NoChild /\ handle' = NoChild /\ state' = "stopped"
  /\ jobs' = Append(Tail(jobs), resume)
  /\ UNCHANGED <<watched, stopping, ladder, processes, app, ui>>

QuitResume ==
  /\ Job("quitResume")
  /\ app' = "exiting"
  /\ jobs' = Tail(jobs)
  /\ UNCHANGED <<supervisor, ladder, processes, ui>>

RestartResume ==
  /\ Job("restartResume")
  /\ stopping' = FALSE
  /\ TryStart(Tail(jobs))
  /\ UNCHANGED <<handle, watched, ladder, app, ui>>

\* The microtask watchExit queues for a child that died before it was watched.
OnExit ==
  /\ Job("onExit")
  /\ jobs' = Tail(jobs)
  /\ IF stopping THEN UNCHANGED <<supervisor, ladder>>
     ELSE UnexpectedExit /\ UNCHANGED stopping
  /\ UNCHANGED <<processes, app, ui>>

Microtask ==
  \/ StartCleanup \/ AttemptFailed
  \/ StopDone("stopDoneQuit", "quitResume")
  \/ StopDone("stopDoneRestart", "restartResume")
  \/ QuitResume \/ RestartResume \/ OnExit

-----------------------------------------------------------------------------
(* The agent processes. *)

\* The agent listens, arms its orphan guard and prints the handshake; when Main
\* is gone by then the guard stays off and the write to the broken pipe is fatal.
AgentReady(c) ==
  /\ proc[c] = "booting" /\ (jobs = <<>> \/ Ended)
  /\ proc' = [proc EXCEPT ![c] = IF Ended THEN "dead" ELSE "ready"]
  /\ UNCHANGED <<supervisor, ladder, starting, waiters, watchers, signalled, jobs, app, ui>>

\* The orphan guard of a ready agent notices that its parent is gone.
OrphanExit(c) ==
  /\ Ended /\ proc[c] = "ready"
  /\ proc' = [proc EXCEPT ![c] = "dead"]
  /\ UNCHANGED <<supervisor, ladder, starting, waiters, watchers, signalled, jobs, app, ui>>

-----------------------------------------------------------------------------
Next ==
  \/ Launch \/ Poll \/ Restart \/ Quit \/ QuitAgain \/ ExitMain \/ KillMain
  \/ BackoffFires \/ StrayFires \/ StableFires
  \/ \E c \in Children :
       \/ HandshakeLine(c) \/ HandshakeTimeout(c) \/ HealthOk(c) \/ HealthFail(c)
       \/ Exit(c) \/ AgentReady(c) \/ OrphanExit(c)
  \/ Microtask

\* Microtasks run; due timers, settled requests, the exit of a signalled process
\* (SIGKILL after the timeout) and the end of a process past app.quit() are not
\* starved: the event loop serves them in turn, so each is taken if it is due
\* between microtasks again and again (SF).  Nothing is assumed of the user, of
\* crashes, of an agent that is not signalled.
Fairness ==
  /\ WF_vars(Launch \/ Microtask)
  /\ SF_vars(ExitMain) /\ SF_vars(BackoffFires)
  /\ SF_vars(\E c \in Children : \/ HandshakeTimeout(c) \/ HealthOk(c) \/ HealthFail(c)
                                 \/ c \in signalled /\ Exit(c))
  /\ WF_vars(\E c \in Children : (Ended /\ AgentReady(c)) \/ OrphanExit(c))

SafeSpec == Init /\ [][Next]_vars
Spec == SafeSpec /\ Fairness

-----------------------------------------------------------------------------
(* Safety.  Four of these hold as long as no manual restart overlaps another   *)
(* start or a quit; without that, DownMeansDown fails (see the README).        *)

\* At most one agent process is alive: a restart never runs beside the agent it
\* replaces (start() and its guard, the exit watcher and the kills).
OneAgent ==
  ~overlap => \A c, d \in Children : Alive(c) /\ Alive(d) => c = d

\* An agent reported as running is the one Main talks to, is alive, and its
\* death will be noticed (handle, child and watchedChild agree).
RunningIsWatched ==
  ~overlap /\ state = "running" /\ Turn /\ ~stopping =>
    /\ child # NoChild /\ handle = child /\ watched = child
    /\ Alive(child) /\ child \in watchers

\* In backoff exactly one timer is pending, and none is pending elsewhere: the
\* ladder can neither stall nor run twice (backoffTimer and scheduleRestart).
OneLadder ==
  ~overlap /\ ~stopping =>
    /\ strayTimers = 0
    /\ backoffTimer <=> state = "backoff"

\* The states that tell the user the agent is down are reported only when no
\* agent process is left alive (onUnexpectedExit, scheduleRestart, the banner).
DownMeansDown ==
  state \in {"backoff", "failed"} => \A c \in Children : ~Alive(c)
DownMeansDownUnlessOverlap == ~overlap => DownMeansDown

\* Once the application quits, every agent still alive has had its SIGTERM
\* (before-quit, stopServices, stop, and the backoff timer after them).  A restart
\* that overlaps the quit can start one after the quit's stop() is over.
QuitSignalsAgents ==
  app \in {"exiting", "gone"} => \A c \in Children : Alive(c) => c \in signalled
QuitSignalsUnlessOverlap == ~overlap => QuitSignalsAgents

\* An agent the user is told of is attended to: while it runs its death will be
\* noticed, and once it is gone exactly one timer leads to the next.
Attended == RunningIsWatched /\ OneLadder

\* No agent is alive but the one Main knows of: none beside it, none when Main
\* reports that there is none.
NoStrays == OneAgent /\ DownMeansDownUnlessOverlap

-----------------------------------------------------------------------------
(* The supervisor implements AgentLifecycle.  A failed start is still spawning *)
(* until attempt's catch has run, and so is a success whose child is found     *)
(* dead when it is to be watched.                                              *)

Phase ==
  CASE Ended -> "over"
    [] ~Ended /\ app # "up" -> "stopping"
    [] app = "up" /\ (state = "stopped" \/ (state = "running" /\ jobs # <<>>)) -> "spawning"
    [] OTHER -> state

Lifecycle == INSTANCE AgentLifecycle WITH
  phase <- Phase, agents <- {c \in Children : Alive(c)}

\* Every step that does not follow an overlapping manual restart is a step of the
\* abstract life of the agent, or none (launch, attempt, watchExit, stop).
ImplementsLifecycle ==
  Lifecycle!Init /\ [][Lifecycle!Next \/ overlap']_(Lifecycle!lifecycle)

-----------------------------------------------------------------------------
(* Liveness. *)

\* Neither spawning nor backoff is for ever: each ends or the application does.
NeverStuck ==
  \A s \in {"spawning", "backoff"} :
    (state = s /\ app = "up") ~> (state # s \/ app # "up")

\* A quit comes to its end, whatever the agent was doing when it was asked for.
QuitCompletes == app = "quitting" ~> Ended

\* No agent outlives Main for ever, even if Main was killed while it booted.
OrphansDie == Ended ~> \A c \in Children : ~Alive(c)

\* What the supervisor waits for comes: a start, a restart, a quit and the life of
\* an agent without Main each end, whatever exits, deadlines and clicks fall into
\* them.
Progress == NeverStuck /\ QuitCompletes /\ OrphansDie
=============================================================================
