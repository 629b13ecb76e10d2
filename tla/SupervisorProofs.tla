--------------------------- MODULE SupervisorProofs ---------------------------
(***************************************************************************)
(* Theorems about Supervisor for any set of agent processes, any restart   *)
(* budget and any number of clicks: its types, its safety properties, and  *)
(* that it implements AgentLifecycle.                                      *)
(***************************************************************************)
EXTENDS Supervisor, TLAPS

\* The queues that occur by name.
LEMMA ShortSequences ==
  ASSUME NEW S, NEW x \in S
  PROVE  /\ <<>> \in Seq(S) /\ <<x>> \in Seq(S)
         /\ Tail(<<x>>) = <<>> /\ Head(<<x>>) = x /\ <<x>> # <<>>
         /\ Append(<<>>, x) = <<x>> /\ <<x>> \o <<>> = <<x>>
OBVIOUS

LEMMA InitTypeOK == Init => TypeOK
<1> SUFFICES ASSUME Init PROVE TypeOK
  OBVIOUS
<1>1. <<>> \in Seq(Jobs)
  OBVIOUS
<1>2. /\ waiters \in [Children -> Seq(Jobs)] /\ jobs \in Seq(Jobs)
      /\ proc \in [Children -> {"dead", "booting", "ready"}]
      /\ starting \in [Children -> {"none", "handshake", "health", "killing"}]
  BY <1>1 DEF Init
<1>3. recent \in 0 .. MaxRestarts + 1 /\ clicks \in 0 .. MaxClicks
  BY SupervisorAssumption DEF Init
<1> QED BY <1>2, <1>3 DEF Init, TypeOK, States

LEMMA TryStartTypeOK ==
  ASSUME TypeOK, NEW rest \in Seq(Jobs), TryStart(rest)
  PROVE  /\ state' \in States /\ child' \in Children \cup {NoChild}
         /\ proc' \in [Children -> {"dead", "booting", "ready"}]
         /\ starting' \in [Children -> {"none", "handshake", "health", "killing"}]
         /\ waiters' \in [Children -> Seq(Jobs)]
         /\ watchers' \in SUBSET Children /\ signalled' \in SUBSET Children
         /\ jobs' \in Seq(Jobs)
<1>1. Append(rest, "attemptFailed") \in Seq(Jobs)
  BY DEF Jobs
<1>2. CASE child = NoChild /\ Spawn /\ jobs' = rest
  BY <1>2 DEF TryStart, Spawn, TypeOK, States
<1>3. CASE /\ child # NoChild
           /\ jobs' = Append(rest, "attemptFailed")
           /\ UNCHANGED <<child, processes>>
  BY <1>1, <1>3 DEF TryStart, TypeOK, States, processes
<1> QED BY <1>2, <1>3 DEF TryStart

LEMMA ScheduleRestartTypeOK ==
  ASSUME TypeOK, ScheduleRestart
  PROVE  /\ state' \in States /\ recent' \in 0 .. MaxRestarts + 1
         /\ info' \in {"none", "retry", "exhausted"}
         /\ backoffTimer' \in BOOLEAN /\ strayTimers' \in Nat
         /\ stableTimer' \in BOOLEAN
<1>1. recent \in 0 .. MaxRestarts + 1 /\ MaxRestarts \in Nat
  BY SupervisorAssumption DEF TypeOK
<1>2. recent' \in 0 .. MaxRestarts + 1
  BY <1>1 DEF ScheduleRestart
<1>3. strayTimers' \in Nat
  BY DEF ScheduleRestart, TypeOK
<1> QED BY <1>2, <1>3 DEF ScheduleRestart, TypeOK, States

LEMMA KillGracefullyTypeOK ==
  ASSUME TypeOK, NEW c \in Children, NEW job \in Jobs, KillGracefully(c, job)
  PROVE  /\ waiters' \in [Children -> Seq(Jobs)]
         /\ signalled' \in SUBSET Children
         /\ jobs' \in Seq(Jobs)
<1>1. CASE Alive(c)
  <2>1. waiters[c] \in Seq(Jobs)
    BY DEF TypeOK
  <2>2. Append(waiters[c], job) \in Seq(Jobs)
    BY <2>1
  <2>3. <<>> \in Seq(Jobs)
    OBVIOUS
  <2> QED BY <1>1, <2>2, <2>3 DEF KillGracefully, TypeOK
<1>2. CASE ~Alive(c)
  BY <1>2, ShortSequences DEF KillGracefully, TypeOK
<1> QED BY <1>1, <1>2

LEMMA StopTypeOK ==
  ASSUME TypeOK, NEW done \in Jobs, NEW resume \in Jobs, Stop(done, resume)
  PROVE  /\ state' \in States /\ handle' \in Children \cup {NoChild}
         /\ watched' \in Children \cup {NoChild} /\ stopping' \in BOOLEAN
         /\ backoffTimer' \in BOOLEAN /\ stableTimer' \in BOOLEAN
         /\ waiters' \in [Children -> Seq(Jobs)]
         /\ signalled' \in SUBSET Children
         /\ jobs' \in Seq(Jobs)
         /\ UNCHANGED <<child, strayTimers, proc, starting, watchers>>
<1>1. CASE child = NoChild \/ state \in {"stopped", "idle"}
  BY <1>1, ShortSequences DEF Stop, TypeOK, States
<1>2. CASE ~(child = NoChild \/ state \in {"stopped", "idle"})
  <2>1. child \in Children /\ KillGracefully(child, done)
    BY <1>2 DEF Stop, TypeOK
  <2>2. /\ waiters' \in [Children -> Seq(Jobs)]
        /\ signalled' \in SUBSET Children
        /\ jobs' \in Seq(Jobs)
    BY <2>1, KillGracefullyTypeOK
  <2> QED BY <1>2, <2>2 DEF Stop, TypeOK, States
<1> QED BY <1>1, <1>2

LEMMA AttemptTypeOK ==
  ASSUME TypeOK, NEW rest \in Seq(Jobs), Attempt(rest)
  PROVE  /\ state' \in States /\ child' \in Children \cup {NoChild}
         /\ proc' \in [Children -> {"dead", "booting", "ready"}]
         /\ starting' \in [Children -> {"none", "handshake", "health", "killing"}]
         /\ waiters' \in [Children -> Seq(Jobs)]
         /\ watchers' \in SUBSET Children /\ signalled' \in SUBSET Children
         /\ jobs' \in Seq(Jobs)
<1>1. CASE stopping /\ jobs' = rest /\ UNCHANGED <<state, child, processes>>
  BY <1>1 DEF TypeOK, processes
<1>2. CASE ~stopping /\ TryStart(rest)
  BY <1>2, TryStartTypeOK
<1> QED BY <1>1, <1>2 DEF Attempt

LEMMA RestartTypeOK == ASSUME TypeOK, Restart PROVE TypeOK'
<1>1. clicks' \in 0 .. MaxClicks
  BY SupervisorAssumption DEF Restart, TypeOK
<1>2. CASE child # NoChild /\ Stop("stopDoneRestart", "restartResume")
  <2>1. "stopDoneRestart" \in Jobs /\ "restartResume" \in Jobs
    BY DEF Jobs
  <2> QED BY <1>1, <1>2, <2>1, StopTypeOK, SupervisorAssumption DEF Restart, TypeOK
<1>3. CASE /\ child = NoChild
           /\ backoffTimer' = FALSE /\ stableTimer' = FALSE
           /\ stopping' = FALSE
           /\ TryStart(<<>>)
           /\ UNCHANGED <<strayTimers, handle, watched>>
  <2>1. <<>> \in Seq(Jobs)
    BY ShortSequences
  <2>2. recent' \in 0 .. MaxRestarts + 1
    BY SupervisorAssumption DEF Restart
  <2>3. TryStart(<<>>)
    BY <1>3
  <2> QED BY <1>1, <1>3, <2>1, <2>2, <2>3, TryStartTypeOK DEF Restart, TypeOK
<1> QED BY <1>2, <1>3 DEF Restart

LEMMA ExitTypeOK == ASSUME TypeOK, NEW c \in Children, Exit(c) PROVE TypeOK'
<1>1. waiters[c] \in Seq(Jobs) /\ <<>> \in Seq(Jobs) /\ <<"startCleanup">> \in Seq(Jobs)
  BY ShortSequences DEF TypeOK, Jobs
<1>2. <<"startCleanup">> \o waiters[c] \in Seq(Jobs)
  BY <1>1
<1>3. jobs' \in Seq(Jobs) /\ waiters' \in [Children -> Seq(Jobs)]
  BY <1>1, <1>2 DEF Exit, TypeOK
<1>4. /\ proc' \in [Children -> {"dead", "booting", "ready"}]
      /\ starting' \in [Children -> {"none", "handshake", "health", "killing"}]
      /\ watchers' \in SUBSET Children /\ signalled' \in SUBSET Children
  BY DEF Exit, TypeOK
<1>5. CASE UnexpectedExit /\ UNCHANGED stopping
  BY <1>3, <1>4, <1>5, ScheduleRestartTypeOK DEF Exit, UnexpectedExit, TypeOK, ui
<1>6. CASE UNCHANGED <<supervisor, ladder>>
  BY <1>3, <1>4, <1>6 DEF Exit, TypeOK, supervisor, ladder, ui
<1> QED BY <1>5, <1>6 DEF Exit

LEMMA HealthOkTypeOK == ASSUME TypeOK, NEW c \in Children, HealthOk(c) PROVE TypeOK'
<1>1. <<"onExit">> \in Seq(Jobs)
  BY ShortSequences DEF Jobs
<1>2. /\ jobs' \in Seq(Jobs) /\ watched' \in Children \cup {NoChild}
      /\ watchers' \in SUBSET Children
  BY <1>1 DEF HealthOk, TypeOK
<1> QED BY <1>2 DEF HealthOk, TypeOK, States, ui

LEMMA MicrotaskTypeOK == ASSUME TypeOK, Microtask PROVE TypeOK'
<1> DEFINE rest == Tail(jobs)
<1>1. jobs # <<>>
  BY DEF Microtask, StartCleanup, AttemptFailed, StopDone, QuitResume, RestartResume, OnExit, Job
<1>2. rest \in Seq(Jobs)
  BY <1>1 DEF TypeOK
<1>3. \A job \in Jobs : Append(rest, job) \in Seq(Jobs)
  BY <1>2
<1>4. /\ "attemptFailed" \in Jobs /\ "quitResume" \in Jobs /\ "restartResume" \in Jobs
  BY DEF Jobs
<1>5. CASE StartCleanup
  BY <1>3, <1>4, <1>5 DEF StartCleanup, TypeOK, States, ladder, processes, ui
<1>6. CASE AttemptFailed
  BY <1>2, <1>6, ScheduleRestartTypeOK DEF AttemptFailed, TypeOK, processes, ui
<1>7. CASE StopDone("stopDoneQuit", "quitResume")
  BY <1>3, <1>4, <1>7 DEF StopDone, TypeOK, States, ladder, processes, ui
<1>8. CASE StopDone("stopDoneRestart", "restartResume")
  BY <1>3, <1>4, <1>8 DEF StopDone, TypeOK, States, ladder, processes, ui
<1>9. CASE QuitResume
  BY <1>2, <1>9 DEF QuitResume, TypeOK, supervisor, ladder, processes, ui
<1>10. CASE RestartResume
  BY <1>2, <1>10, TryStartTypeOK DEF RestartResume, TypeOK, ladder, ui
<1>11. CASE OnExit
  <2>1. CASE stopping
    BY <1>2, <1>11, <2>1 DEF OnExit, TypeOK, supervisor, ladder, processes, ui
  <2>2. CASE ~stopping
    BY <1>2, <1>11, <2>2, ScheduleRestartTypeOK
       DEF OnExit, UnexpectedExit, TypeOK, processes, ui
  <2> QED BY <2>1, <2>2
<1> QED BY <1>5, <1>6, <1>7, <1>8, <1>9, <1>10, <1>11 DEF Microtask

\* Every step keeps the types, one case per action.
LEMMA NextTypeOK == ASSUME TypeOK, [Next]_vars PROVE TypeOK'
<1> USE SupervisorAssumption
<1>e. <<>> \in Seq(Jobs)
  BY ShortSequences
<1>1. CASE Launch
  BY <1>1, <1>e, TryStartTypeOK DEF Launch, TypeOK, States, supervisor, ladder, processes, ui
<1>2. CASE Poll
  BY <1>2 DEF Poll, TypeOK, States, supervisor, ladder, processes, ui
<1>3. CASE Quit
  <2>1. "stopDoneQuit" \in Jobs /\ "quitResume" \in Jobs
    BY DEF Jobs
  <2>2. CASE Stop("stopDoneQuit", "quitResume")
    BY <1>3, <2>1, <2>2, StopTypeOK DEF Quit, TypeOK, supervisor, ladder, processes, ui
  <2>3. CASE state = "stopped"
    BY <1>3, <2>3 DEF Quit, TypeOK, supervisor, ladder, processes, ui
  <2> QED BY <1>3, <2>2, <2>3 DEF Quit
<1>4. CASE QuitAgain
  BY <1>4 DEF QuitAgain, TypeOK, States, supervisor, ladder, processes, ui
<1>5. CASE ExitMain
  BY <1>5 DEF ExitMain, TypeOK, States, supervisor, ladder, processes, ui
<1>6. CASE KillMain
  BY <1>6 DEF KillMain, TypeOK, States, supervisor, ladder, processes, ui
<1>7. CASE BackoffFires
  BY <1>7, <1>e, AttemptTypeOK DEF BackoffFires, TypeOK, States, supervisor, ladder, processes, ui
<1>8. CASE StrayFires
  <2>1. strayTimers' \in Nat
    BY <1>8 DEF StrayFires, TypeOK
  <2>2. Attempt(<<>>)
    BY <1>8 DEF StrayFires
  <2> QED BY <1>8, <1>e, <2>1, <2>2, AttemptTypeOK DEF StrayFires, TypeOK, ui
<1>9. CASE StableFires
  <2>1. recent' \in 0 .. MaxRestarts + 1
    BY <1>9 DEF StableFires
  <2> QED BY <1>9, <2>1 DEF StableFires, TypeOK, supervisor, processes, ui
<1>10. CASE Restart
  BY <1>10, RestartTypeOK
<1>11. CASE Microtask
  BY <1>11, MicrotaskTypeOK
<1>12. ASSUME NEW c \in Children, HandshakeLine(c) PROVE TypeOK'
  BY <1>12 DEF HandshakeLine, TypeOK, supervisor, ladder, processes, ui
<1>13. ASSUME NEW c \in Children, HandshakeTimeout(c) PROVE TypeOK'
  <2>1. "startCleanup" \in Jobs
    BY DEF Jobs
  <2> QED BY <1>13, <2>1, KillGracefullyTypeOK
          DEF HandshakeTimeout, TypeOK, supervisor, ladder, processes, ui
<1>14. ASSUME NEW c \in Children, HealthOk(c) PROVE TypeOK'
  BY <1>14, HealthOkTypeOK
<1>15. ASSUME NEW c \in Children, HealthFail(c) PROVE TypeOK'
  <2>1. "startCleanup" \in Jobs
    BY DEF Jobs
  <2> QED BY <1>15, <2>1, KillGracefullyTypeOK
          DEF HealthFail, TypeOK, supervisor, ladder, processes, ui
<1>16. ASSUME NEW c \in Children, Exit(c) PROVE TypeOK'
  BY <1>16, ExitTypeOK
<1>17. ASSUME NEW c \in Children, AgentReady(c) PROVE TypeOK'
  BY <1>17 DEF AgentReady, TypeOK, supervisor, ladder, processes, ui
<1>18. ASSUME NEW c \in Children, OrphanExit(c) PROVE TypeOK'
  BY <1>18 DEF OrphanExit, TypeOK, supervisor, ladder, processes, ui
<1>19. CASE UNCHANGED vars
  BY <1>19 DEF TypeOK, vars, supervisor, ladder, processes, ui
<1> QED BY <1>1, <1>2, <1>3, <1>4, <1>5, <1>6, <1>7, <1>8, <1>9, <1>10, <1>11, <1>12, <1>13, <1>14, <1>15, <1>16, <1>17, <1>18, <1>19 DEF Next

\* Every variable keeps its type, for any number of agents, restarts and clicks.
THEOREM TypeCorrect == SafeSpec => []TypeOK
BY InitTypeOK, NextTypeOK, PTL DEF SafeSpec

-----------------------------------------------------------------------------
(***************************************************************************)
(* The safety properties of Supervisor as theorems.  They speak of         *)
(* behaviours without an overlapping manual restart; Serial is the         *)
(* inductive strengthening that holds in those.                            *)
(***************************************************************************)

NoAgent == \A c \in Children : ~Alive(c)
NoStart == \A c \in Children : starting[c] = "none"

\* Jobs other than those only a stop() called by restart() can leave behind.
SerialJobs == Jobs \ {"stopDoneRestart", "restartResume"}

\* What holds in every state: only the current child can be alive, no start()
\* waits for another one, and a microtask runs only after the death it follows.
Processes ==
  /\ \A c \in Children : Alive(c) => c = child
  /\ \A c, d \in Children : starting[c] # "none" /\ Alive(d) => c = d
  /\ ~Ended /\ jobs # <<>> => NoAgent
  /\ ~Ended => \A c \in Children : starting[c] \in {"handshake", "killing"} => Alive(c)
  /\ ~Ended => \A c \in watchers : Alive(c)
  /\ DownMeansDown

SerialQueues ==
  /\ jobs \in Seq(SerialJobs)
  /\ waiters \in [Children -> Seq(SerialJobs)]

Ladder ==
  ~stopping => strayTimers = 0 /\ (backoffTimer <=> state = "backoff")

\* Between launch and the first quit, the state tells what the rest looks like.
Idle ==
  /\ state = "idle" /\ jobs = <<>>
  /\ child = NoChild /\ NoStart
Spawning ==
  /\ state = "spawning" /\ jobs = <<>>
  /\ child # NoChild /\ starting[child] # "none" /\ child \notin watchers
  /\ \A c \in Children : c # child => starting[c] = "none"
Dying ==
  /\ state = "spawning" /\ jobs = <<"startCleanup">> /\ NoStart
Failing ==
  /\ state = "stopped" /\ jobs = <<"attemptFailed">>
  /\ child = NoChild /\ NoStart
Running ==
  /\ state = "running" /\ jobs = <<>>
  /\ child # NoChild /\ handle = child /\ watched = child
  /\ Alive(child) /\ child \in watchers /\ NoStart
Gap ==
  /\ state = "running" /\ jobs = <<"onExit">> /\ NoStart
Down ==
  /\ state \in {"backoff", "failed"} /\ jobs = <<>>
  /\ child = NoChild /\ NoStart

Up ==
  /\ app = "up"
  /\ Idle \/ Spawning \/ Dying \/ Failing \/ Running \/ Gap \/ Down
  /\ \A c \in Children :
       waiters[c] = IF starting[c] = "killing" THEN <<"startCleanup">> ELSE <<>>

Signalled == \A c \in Children : Alive(c) => c \in signalled

\* From the first quit on, the agent has been told to go and none is started.
Leaving ==
  /\ app \in {"quitting", "exiting"} /\ state # "idle"
  /\ Signalled

Serial ==
  /\ Processes /\ SerialQueues /\ Ladder
  /\ ~Ended /\ ~stopping => Up
  /\ ~Ended /\ stopping => Leaving
  /\ app = "gone" => Signalled

IInv == TypeOK /\ (~overlap => Serial)

-----------------------------------------------------------------------------
(* What the invariant says between two tasks, and about a first spawn. *)

LEMMA TurnFacts ==
  ASSUME TypeOK, Serial, Turn
  PROVE  /\ ~stopping => app = "up" /\ (Idle \/ Spawning \/ Running \/ Down)
         /\ stopping => Leaving
         /\ jobs = <<>> /\ ~Ended
BY ShortSequences DEF Turn, Serial, Up, Dying, Failing, Gap

\* A process that is alive is the current child, so child is defined.
LEMMA AliveIsChild ==
  ASSUME TypeOK, Serial, NEW c \in Children, Alive(c)
  PROVE  c = child /\ child # NoChild
BY SupervisorAssumption DEF Serial, Processes

LEMMA QueueFacts ==
  /\ <<>> \in Seq(SerialJobs)
  /\ \A x \in {"startCleanup", "attemptFailed", "stopDoneQuit", "quitResume", "onExit"} :
       /\ x \in SerialJobs /\ <<x>> \in Seq(SerialJobs) /\ <<x>> # <<>>
       /\ Head(<<x>>) = x /\ Tail(<<x>>) = <<>>
       /\ Append(<<>>, x) = <<x>>
       /\ <<x>> \o <<>> = <<x>>
       /\ \A q \in Seq(SerialJobs) : Append(q, x) \in Seq(SerialJobs)
       /\ \A q \in Seq(SerialJobs) : <<x>> \o q \in Seq(SerialJobs)
<1>1. \A x \in {"startCleanup", "attemptFailed", "stopDoneQuit", "quitResume", "onExit"} :
        x \in SerialJobs
  BY DEF SerialJobs, Jobs
<1>2. ASSUME NEW x \in SerialJobs, NEW q \in Seq(SerialJobs)
      PROVE  Append(q, x) \in Seq(SerialJobs) /\ <<x>> \o q \in Seq(SerialJobs)
  OBVIOUS
<1> QED BY <1>1, <1>2, ShortSequences

LEMMA InitSerial == Init => Serial
<1> SUFFICES ASSUME Init PROVE Serial
  OBVIOUS
<1>1. Processes /\ Ladder /\ SerialQueues
  BY QueueFacts DEF Init, Processes, Ladder, SerialQueues, Alive, DownMeansDown
<1>2. Up
  BY DEF Init, Up, Idle, NoStart
<1> QED BY <1>1, <1>2 DEF Init, Serial, Ended

\* A spawn between two tasks, when nothing is alive, leads to Spawning.
LEMMA SpawnSerial ==
  ASSUME TypeOK, Serial, Turn, app = "up", child = NoChild, NoStart, TryStart(<<>>),
         app' = app, ~stopping', ~backoffTimer', strayTimers' = 0,
         \A c \in Children : waiters[c] = <<>>
  PROVE  Serial'
<1> USE SupervisorAssumption
<1>1. NoAgent
  BY AliveIsChild DEF NoAgent
<1>2. PICK c \in Children :
        /\ Free(c) /\ child' = c
        /\ proc' = [proc EXCEPT ![c] = "booting"]
        /\ starting' = [starting EXCEPT ![c] = "handshake"]
        /\ UNCHANGED <<waiters, watchers, signalled>>
  BY DEF TryStart, Spawn
<1>3. state' = "spawning" /\ jobs' = <<>>
  BY DEF TryStart
<1>4. watchers = {}
  BY <1>1 DEF Serial, Processes, NoAgent, Turn, TypeOK
<1>5. /\ \A d \in Children : d # c => ~Alive(d)' /\ starting'[d] = "none"
      /\ Alive(c)' /\ starting'[c] = "handshake"
  BY <1>1, <1>2 DEF TypeOK, NoAgent, NoStart, Alive
<1>6. Processes'
  BY <1>2, <1>3, <1>4, <1>5 DEF Processes, DownMeansDown
<1>7. SerialQueues' /\ Ladder'
  BY <1>2, <1>3, QueueFacts DEF Serial, SerialQueues, Ladder
<1>8. Up'
  BY <1>2, <1>3, <1>4, <1>5 DEF Up, Spawning
<1> QED BY <1>6, <1>7, <1>8 DEF Serial, Ended

LEMMA LaunchSerial == ASSUME TypeOK, Serial, Launch PROVE Serial'
<1>1. ~stopping /\ Idle /\ app = "up" /\ Ladder
  BY TurnFacts DEF Launch, Leaving, Spawning, Running, Down, Serial
<1>2. \A c \in Children : waiters[c] = <<>>
  BY <1>1 DEF Serial, Up, Idle, NoStart, Launch, Turn
<1> QED BY <1>1, <1>2, SpawnSerial DEF Launch, Idle, ladder, Ladder

-----------------------------------------------------------------------------
(* Tasks that leave the processes alone, or only start one. *)

\* A step that changes neither the processes nor the supervisor's own state.
LEMMA QuietSerial ==
  ASSUME TypeOK, Serial, UNCHANGED <<supervisor, backoffTimer, strayTimers, processes, jobs>>,
         Ended' \/ app' = app \/ (Leaving /\ stopping /\ app' \in {"quitting", "exiting"}),
         app' = "gone" => Signalled
  PROVE  Serial'
<1>1. /\ Processes' /\ SerialQueues' /\ Ladder'
      /\ ~Ended' => ~Ended
  BY DEF Serial, Processes, SerialQueues, Ladder, NoAgent, Alive, DownMeansDown, Ended, Leaving,
         supervisor, processes
<1>2. CASE Ended'
  BY <1>1, <1>2 DEF Serial, Signalled, Alive, processes, Ended
<1>3. CASE ~Ended' /\ app' = app
  <2>1. ~stopping' => Up'
    BY <1>1, <1>3 DEF Serial, Up, Idle, Spawning, Dying, Failing, Running, Gap, Down,
                      NoStart, Alive, supervisor, processes
  <2>2. stopping' => Leaving'
    BY <1>1, <1>3 DEF Serial, Leaving, Signalled, Alive, supervisor, processes
  <2> QED BY <1>1, <1>3, <2>1, <2>2 DEF Serial, Ended
<1>4. CASE ~Ended' /\ Leaving /\ stopping /\ app' \in {"quitting", "exiting"}
  <2>1. stopping' /\ Leaving'
    BY <1>4 DEF Leaving, Signalled, Alive, supervisor, processes
  <2> QED BY <1>1, <1>4, <2>1 DEF Serial
<1> QED BY <1>2, <1>3, <1>4 DEF Ended

LEMMA MainSerial ==
  ASSUME TypeOK, Serial, Poll \/ QuitAgain \/ ExitMain \/ KillMain \/ StableFires
  PROVE  Serial'
<1>1. CASE Poll \/ StableFires
  BY <1>1, QuietSerial, TurnFacts DEF Poll, StableFires, ladder, Turn, Ended
<1>2. CASE QuitAgain
  BY <1>2, QuietSerial, TurnFacts DEF QuitAgain, ladder
<1>3. CASE ExitMain
  <2>1. Leaving
    BY <1>3, TurnFacts DEF ExitMain
  <2> QED BY <1>3, <2>1, QuietSerial DEF ExitMain, ladder, Leaving, Ended
<1>4. CASE KillMain
  BY <1>4, QuietSerial DEF KillMain, ladder, Ended
<1> QED BY <1>1, <1>2, <1>3, <1>4

\* A timer's callback does nothing in a supervisor that is stopping.
LEMMA StoppingAttemptSerial ==
  ASSUME TypeOK, Serial, Turn, stopping, Attempt(<<>>),
         UNCHANGED <<handle, watched, stopping, app>>
  PROVE  Serial'
<1>1. Leaving /\ jobs = <<>> /\ ~Ended
  BY TurnFacts
<1>2. UNCHANGED <<state, child, processes, jobs>>
  BY <1>1 DEF Attempt
<1>3. Processes' /\ SerialQueues' /\ Ladder'
  BY <1>2 DEF Serial, Processes, SerialQueues, Ladder, NoAgent, Alive, DownMeansDown, Ended, processes
<1>4. Leaving' /\ ~Ended' /\ stopping' /\ app' # "gone"
  BY <1>1, <1>2 DEF Leaving, Signalled, Alive, Ended, processes
<1> QED BY <1>3, <1>4 DEF Serial

LEMMA BackoffSerial ==
  ASSUME TypeOK, Serial, BackoffFires \/ StrayFires PROVE Serial'
<1>0. /\ Turn /\ Attempt(<<>>) /\ ~backoffTimer'
      /\ UNCHANGED <<handle, watched, stopping, app>>
  BY DEF BackoffFires, StrayFires
<1>1. CASE stopping
  BY <1>0, <1>1, StoppingAttemptSerial
<1>2. CASE ~stopping
  <2>1. strayTimers = 0 /\ (backoffTimer <=> state = "backoff")
    BY <1>2 DEF Serial, Ladder
  <2>2. BackoffFires /\ strayTimers' = 0
    BY <2>1 DEF BackoffFires, StrayFires
  <2>3. Down /\ app = "up"
    BY <1>0, <1>2, <2>1, <2>2, TurnFacts DEF BackoffFires, Idle, Spawning, Running
  <2>4. \A c \in Children : waiters[c] = <<>>
    BY <1>0, <1>2, <2>3 DEF Serial, Up, Down, NoStart, Turn
  <2>5. TryStart(<<>>)
    BY <1>0, <1>2 DEF Attempt
  <2> QED BY <1>0, <1>2, <2>2, <2>3, <2>4, <2>5, SpawnSerial DEF Down
<1> QED BY <1>1, <1>2

LEMMA RestartSerial ==
  ASSUME TypeOK, Serial, Restart, ~overlap' PROVE Serial'
<1>1. /\ Turn /\ app = "up" /\ child = NoChild /\ app' = app
      /\ ~backoffTimer' /\ ~stopping' /\ strayTimers' = strayTimers
      /\ TryStart(<<>>)
  BY DEF Restart
<1>2. ~stopping /\ (Idle \/ Down)
  BY <1>1, TurnFacts DEF Leaving, Spawning, Running
<1>3. strayTimers = 0 /\ NoStart
  BY <1>2 DEF Serial, Ladder, Idle, Down
<1>4. \A c \in Children : waiters[c] = <<>>
  BY <1>1, <1>2, <1>3 DEF Serial, Up, NoStart, Turn
<1> QED BY <1>1, <1>3, <1>4, SpawnSerial

-----------------------------------------------------------------------------
(* Tasks of a start: the child named in them is the current one. *)

LEMMA StartFacts ==
  ASSUME TypeOK, Serial, Turn, ~stopping, NEW c \in Children, starting[c] # "none"
  PROVE  /\ app = "up" /\ Spawning /\ c = child
         /\ \A d \in Children : waiters[d] = IF starting[d] = "killing"
                                             THEN <<"startCleanup">> ELSE <<>>
BY TurnFacts DEF Serial, Up, Idle, Running, Down, NoStart, Spawning, Turn

LEMMA HandshakeLineSerial ==
  ASSUME TypeOK, Serial, NEW c \in Children, HandshakeLine(c) PROVE Serial'
<1>1. /\ Turn /\ starting[c] = "handshake"
      /\ starting' = [starting EXCEPT ![c] = "health"]
      /\ UNCHANGED <<supervisor, ladder, proc, waiters, watchers, signalled, jobs, app>>
  BY DEF HandshakeLine
<1>2. Processes' /\ SerialQueues' /\ Ladder'
  BY <1>1 DEF Serial, Processes, SerialQueues, Ladder, NoAgent, Alive, DownMeansDown, Ended,
              TypeOK, supervisor, ladder
<1>3. CASE stopping
  <2>1. Leaving' /\ stopping'
    BY <1>1, <1>3, TurnFacts DEF Leaving, Signalled, Alive, supervisor
  <2> QED BY <1>2, <2>1 DEF Serial, Leaving
<1>4. CASE ~stopping
  <2>1. Spawning' /\ app' = "up"
    BY <1>1, <1>4, StartFacts DEF Spawning, TypeOK, supervisor
  <2>2. Up'
    BY <1>1, <1>4, <2>1, StartFacts DEF Up, TypeOK
  <2> QED BY <1>1, <1>2, <1>4, <2>2, <2>1 DEF Serial, supervisor
<1> QED BY <1>3, <1>4

\* The kill that follows a failed handshake or health check.
LEMMA StartKillSerial ==
  ASSUME TypeOK, Serial, NEW c \in Children,
         HandshakeTimeout(c) \/ HealthFail(c)
  PROVE  Serial'
<1>1. /\ Turn /\ jobs = <<>> /\ starting[c] \in {"handshake", "health"}
      /\ KillGracefully(c, "startCleanup")
      /\ UNCHANGED <<supervisor, ladder, proc, watchers, app>>
  BY DEF HandshakeTimeout, HealthFail, Turn
<1>2. starting' = [starting EXCEPT ![c] = IF Alive(c) THEN "killing" ELSE "none"]
  BY DEF HandshakeTimeout, HealthFail, Serial, Processes, Turn
<1>3. waiters[c] \in Seq(SerialJobs)
  BY DEF Serial, SerialQueues
<1>4. SerialQueues' /\ Ladder'
  BY <1>1, <1>3, QueueFacts DEF KillGracefully, Serial, SerialQueues, Ladder, supervisor, ladder
<1>5. ~Alive(c) => NoAgent
  <2> SUFFICES ASSUME ~Alive(c), NEW d \in Children, Alive(d) PROVE FALSE
    BY DEF NoAgent
  <2> QED BY <1>1 DEF Serial, Processes
<1>6. \A d \in Children : d # c => starting'[d] = starting[d] /\ waiters'[d] = waiters[d]
  BY <1>1, <1>2 DEF KillGracefully, TypeOK
<1>7. Processes'
  BY <1>1, <1>2, <1>5, <1>6 DEF Serial, Processes, NoAgent, Alive, DownMeansDown, Ended, TypeOK,
                          KillGracefully, supervisor, Turn
<1>8. CASE stopping
  <2>1. Leaving' /\ stopping' /\ app' = app
    BY <1>1, <1>8, TurnFacts DEF Leaving, Signalled, Alive, supervisor, KillGracefully
  <2> QED BY <1>4, <1>7, <2>1 DEF Serial, Leaving
<1>9. CASE ~stopping
  <2>1. app = "up" /\ Spawning /\ c = child /\ waiters[c] = <<>>
    BY <1>1, <1>9, StartFacts
  <2>2. \A d \in Children : waiters'[d] = IF starting'[d] = "killing"
                                          THEN <<"startCleanup">> ELSE <<>>
    <3>1. starting'[c] = IF Alive(c) THEN "killing" ELSE "none"
      BY <1>2 DEF TypeOK
    <3>2. waiters'[c] = IF Alive(c) THEN <<"startCleanup">> ELSE <<>>
      BY <1>1, <2>1, QueueFacts DEF KillGracefully, TypeOK
    <3> QED BY <1>1, <1>6, <1>9, <3>1, <3>2, StartFacts
  <2>3. CASE Alive(c)
    <3>1. Spawning'
      BY <1>1, <1>2, <1>6, <2>1, <2>3 DEF Spawning, KillGracefully, TypeOK, supervisor
    <3> QED BY <1>1, <1>4, <1>7, <1>9, <2>1, <2>2, <3>1 DEF Serial, Up, Ended, supervisor
  <2>4. CASE ~Alive(c)
    <3>1. Dying'
      BY <1>1, <1>2, <1>6, <2>1, <2>4
         DEF Spawning, Dying, NoStart, KillGracefully, TypeOK, supervisor
    <3> QED BY <1>1, <1>4, <1>7, <1>9, <2>1, <2>2, <3>1 DEF Serial, Up, Ended, supervisor
  <2> QED BY <2>3, <2>4
<1> QED BY <1>8, <1>9

LEMMA HealthOkSerial ==
  ASSUME TypeOK, Serial, NEW c \in Children, HealthOk(c) PROVE Serial'
<1>1. /\ Turn /\ jobs = <<>> /\ starting[c] = "health" /\ state' = "running"
      /\ starting' = [starting EXCEPT ![c] = "none"] /\ handle' = c
      /\ UNCHANGED <<child, stopping, backoffTimer, strayTimers, proc, waiters, signalled, app>>
  BY DEF HealthOk, Turn
<1>2. \/ /\ child = NoChild /\ UNCHANGED <<watched, watchers, jobs>>
      \/ /\ child # NoChild /\ Alive(child) /\ watched' = child
         /\ watchers' = watchers \cup {child} /\ UNCHANGED jobs
      \/ /\ child # NoChild /\ ~Alive(child) /\ watched' = child
         /\ jobs' = <<"onExit">> /\ UNCHANGED watchers
  BY DEF HealthOk
<1>3. ~Alive(child) => NoAgent
  BY DEF Serial, Processes, NoAgent
<1>4. Processes' /\ SerialQueues'
  BY <1>1, <1>2, <1>3, QueueFacts
     DEF Serial, Processes, SerialQueues, NoAgent, Alive, DownMeansDown, Ended, TypeOK
<1>5. CASE stopping
  <2>1. Leaving' /\ stopping'
    BY <1>1, <1>5, TurnFacts DEF Leaving, Signalled, Alive
  <2> QED BY <1>4, <2>1 DEF Serial, Leaving, Ladder
<1>6. CASE ~stopping
  <2>1. app = "up" /\ Spawning /\ c = child
    BY <1>1, <1>6, StartFacts
  <2>2. NoStart' /\ \A d \in Children : waiters'[d] = <<>>
    BY <1>1, <1>6, <2>1, StartFacts DEF NoStart, Spawning, TypeOK
  <2>3. Running' \/ Gap'
    BY <1>1, <1>2, <2>1, <2>2 DEF Running, Gap, Spawning, Alive
  <2>4. Up'
    BY <1>1, <2>1, <2>2, <2>3 DEF Up, NoStart
  <2>5. Ladder'
    BY <1>1, <1>6, <2>1 DEF Serial, Ladder, Spawning
  <2> QED BY <1>1, <1>4, <1>6, <2>1, <2>4, <2>5 DEF Serial
<1> QED BY <1>5, <1>6

LEMMA ScheduleRestartLadder ==
  ASSUME Ladder, state # "backoff", ScheduleRestart, stopping' = stopping
  PROVE  Ladder' /\ state' \in {"backoff", "failed"}
BY DEF ScheduleRestart, Ladder

LEMMA ExitSerial ==
  ASSUME TypeOK, Serial, NEW c \in Children, Exit(c) PROVE Serial'
<1>1. /\ Turn /\ jobs = <<>> /\ Alive(c)
      /\ proc' = [proc EXCEPT ![c] = "dead"]
      /\ starting' = [starting EXCEPT ![c] = IF @ = "health" THEN @ ELSE "none"]
      /\ watchers' = watchers \ {c}
      /\ waiters' = [waiters EXCEPT ![c] = <<>>]
      /\ UNCHANGED <<app, ui>>
  BY DEF Exit, Turn
<1>2. c = child /\ child # NoChild /\ NoAgent'
  BY <1>1, AliveIsChild DEF NoAgent, Alive, TypeOK
<1>3. watchers' = {}
  BY <1>1, AliveIsChild DEF Serial, Processes, TypeOK, Turn
<1>4. \A d \in Children : /\ starting'[d] \in {"none", "health"}
                          /\ d # c => starting[d] = "none" /\ starting'[d] = "none"
  BY <1>1 DEF Serial, Processes, TypeOK, Turn
<1>5. waiters[c] \in Seq(SerialJobs)
  BY DEF Serial, SerialQueues
<1>6. SerialQueues'
  BY <1>1, <1>5, QueueFacts DEF Exit, Serial, SerialQueues
<1>7. CASE stopping
  <2>1. UNCHANGED <<supervisor, ladder>>
    BY <1>7 DEF Exit
  <2>2. Processes' /\ Ladder'
    BY <1>1, <1>2, <1>3, <1>4, <2>1
       DEF Serial, Processes, DownMeansDown, NoAgent, Ladder, supervisor, ladder
  <2>3. Leaving' /\ stopping'
    BY <1>1, <1>2, <1>7, <2>1, TurnFacts DEF Leaving, Signalled, NoAgent, supervisor
  <2> QED BY <1>6, <2>2, <2>3 DEF Serial, Leaving
<1>8. CASE ~stopping /\ starting[c] # "none"
  <2>1. /\ app = "up" /\ Spawning
        /\ \A d \in Children : waiters[d] = IF starting[d] = "killing"
                                            THEN <<"startCleanup">> ELSE <<>>
    BY <1>1, <1>8, StartFacts
  <2>2. UNCHANGED <<supervisor, ladder>>
    BY <1>2, <2>1 DEF Exit, Spawning
  <2>3. Processes' /\ Ladder'
    BY <1>1, <1>2, <1>3, <1>4, <2>2
       DEF Serial, Processes, DownMeansDown, NoAgent, Ladder, supervisor, ladder
  <2>4. \A d \in Children : waiters'[d] = <<>> /\ starting'[d] # "killing"
    BY <1>1, <1>4, <2>1 DEF TypeOK
  <2>5. CASE starting[c] = "health"
    <3>1. jobs' = <<>>
      BY <1>1, <2>1, <2>5 DEF Exit
    <3>2. Spawning'
      BY <1>1, <1>2, <1>3, <1>4, <2>1, <2>2, <2>5, <3>1 DEF Spawning, supervisor, TypeOK
    <3> QED BY <1>1, <1>6, <1>8, <2>1, <2>2, <2>3, <2>4, <3>2 DEF Serial, Up, supervisor
  <2>6. CASE starting[c] \in {"handshake", "killing"}
    <3>1. jobs' = <<"startCleanup">>
      BY <1>1, <2>1, <2>6, QueueFacts DEF Exit
    <3>2. NoStart'
      BY <1>1, <1>4, <2>6 DEF NoStart, TypeOK
    <3>3. Dying'
      BY <2>1, <2>2, <3>1, <3>2 DEF Dying, Spawning, supervisor
    <3> QED BY <1>1, <1>6, <1>8, <2>1, <2>2, <2>3, <2>4, <3>3 DEF Serial, Up, supervisor
  <2> QED BY <1>8, <2>5, <2>6 DEF TypeOK
<1>9. CASE ~stopping /\ starting[c] = "none"
  <2>1. Running /\ app = "up"
    BY <1>1, <1>2, <1>9, TurnFacts DEF Idle, Spawning, Down
  <2>2. \A d \in Children : waiters[d] = <<>>
    BY <1>1, <1>9, <2>1 DEF Serial, Up, Running, NoStart, Turn
  <2>3. /\ child' = NoChild /\ handle' = NoChild /\ watched' = NoChild
        /\ ScheduleRestart /\ stopping' = stopping
    BY <1>2, <1>9, <2>1 DEF Exit, Running, UnexpectedExit
  <2>4. Ladder' /\ state' \in {"backoff", "failed"}
    BY <1>9, <2>1, <2>3, ScheduleRestartLadder DEF Serial, Running
  <2>5. jobs' = <<>> /\ NoStart'
    BY <1>1, <1>9, <2>1, <2>2 DEF Exit, Running, NoStart, TypeOK
  <2>6. Processes'
    BY <1>2, <1>3, <2>5 DEF Processes, DownMeansDown, NoAgent, NoStart
  <2>7. Up'
    BY <1>1, <2>1, <2>2, <2>3, <2>4, <2>5 DEF Up, Down, NoStart, TypeOK
  <2> QED BY <1>1, <1>6, <1>9, <2>1, <2>3, <2>4, <2>6, <2>7 DEF Serial
<1> QED BY <1>7, <1>8, <1>9

\* The agents themselves: a ready agent changes nothing here, and one that ends
\* without an exit event ends after Main.
LEMMA AgentSerial ==
  ASSUME TypeOK, Serial, NEW c \in Children, AgentReady(c) \/ OrphanExit(c)
  PROVE  Serial'
<1>1. /\ UNCHANGED <<supervisor, ladder, starting, waiters, watchers, signalled, jobs, app>>
      /\ jobs = <<>> \/ Ended
  BY DEF AgentReady, OrphanExit
<1>2. \A d \in Children : /\ Alive(d)' => Alive(d)
                          /\ ~Ended => (Alive(d)' <=> Alive(d))
  BY DEF AgentReady, OrphanExit, Alive, TypeOK
<1>3. Processes' /\ SerialQueues' /\ Ladder'
  BY <1>1, <1>2 DEF Serial, Processes, SerialQueues, Ladder, NoAgent, DownMeansDown, Ended,
                    TypeOK, supervisor, ladder
<1>4. ~Ended' /\ ~stopping' => Up'
  <2> SUFFICES ASSUME ~Ended, ~stopping PROVE Up'
    BY <1>1 DEF Ended, supervisor
  <2>1. Up /\ jobs = <<>>
    BY <1>1 DEF Serial
  <2>2. Idle \/ Spawning \/ Running \/ Down
    BY <2>1, ShortSequences DEF Up, Dying, Failing, Gap
  <2>3. Idle' \/ Spawning' \/ Running' \/ Down'
    BY <1>1, <1>2, <2>2 DEF Idle, Spawning, Running, Down, NoStart, supervisor, TypeOK
  <2> QED BY <1>1, <2>1, <2>3 DEF Up
<1>5. ~Ended' /\ stopping' => Leaving'
  BY <1>1, <1>2 DEF Serial, Leaving, Signalled, Ended, supervisor
<1>6. app' = "gone" => Signalled'
  BY <1>1, <1>2 DEF Serial, Signalled
<1> QED BY <1>3, <1>4, <1>5, <1>6 DEF Serial

-----------------------------------------------------------------------------
(* The quit. *)

LEMMA QuitSerial == ASSUME TypeOK, Serial, Quit PROVE Serial'
<1>1. Turn /\ app = "up" /\ jobs = <<>> /\ ~stopping
  BY TurnFacts DEF Quit, Leaving
<1>2. state \in {"spawning", "running", "backoff", "failed"}
  BY <1>1, TurnFacts DEF Quit, Idle, Spawning, Running, Down
<1>3. /\ app' = "quitting" /\ stopping' = TRUE
      /\ state' \in {"stopped", "stopping"}
      /\ UNCHANGED <<child, strayTimers, proc, starting, watchers>>
      /\ \/ /\ child = NoChild /\ jobs' = <<"quitResume">>
            /\ UNCHANGED <<waiters, signalled>>
         \/ child # NoChild /\ KillGracefully(child, "stopDoneQuit")
  BY <1>2 DEF Quit, Stop
<1>4. CASE child = NoChild
  <2>1. NoAgent
    BY <1>4, AliveIsChild DEF NoAgent
  <2>2. Processes' /\ SerialQueues'
    BY <1>1, <1>3, <1>4, <2>1, QueueFacts
       DEF Serial, Processes, SerialQueues, NoAgent, Alive, DownMeansDown, Ended
  <2>3. Leaving'
    BY <1>3, <2>1 DEF Leaving, Signalled, NoAgent, Alive
  <2> QED BY <1>3, <2>2, <2>3 DEF Serial, Ladder
<1>5. CASE child # NoChild
  <2>1. child \in Children /\ KillGracefully(child, "stopDoneQuit")
    BY <1>3, <1>5 DEF TypeOK
  <2>2. waiters[child] \in Seq(SerialJobs)
    BY <2>1 DEF Serial, SerialQueues
  <2>3. SerialQueues'
    BY <2>1, <2>2, QueueFacts DEF KillGracefully, Serial, SerialQueues
  <2>4. ~Alive(child) => NoAgent
    BY DEF Serial, Processes, NoAgent
  <2>5. Processes'
    BY <1>1, <1>3, <2>1, <2>4
       DEF KillGracefully, Serial, Processes, NoAgent, Alive, DownMeansDown, Ended
  <2>6. Signalled'
    BY <1>3, <2>1, AliveIsChild DEF KillGracefully, Signalled, Alive
  <2> QED BY <1>3, <2>3, <2>5, <2>6 DEF Serial, Ladder, Leaving
<1> QED BY <1>4, <1>5

-----------------------------------------------------------------------------
(* Microtasks: every process is dead. *)

LEMMA JobFacts ==
  ASSUME TypeOK, Serial, NEW name, Job(name)
  PROVE  /\ ~Ended /\ NoAgent /\ jobs # <<>> /\ Head(jobs) = name /\ name \in SerialJobs
         /\ Tail(jobs) \in Seq(SerialJobs)
         /\ stopping => Leaving
         /\ ~stopping => Up /\ Tail(jobs) = <<>>
         /\ ~stopping => \/ Dying /\ name = "startCleanup"
                         \/ Failing /\ name = "attemptFailed"
                         \/ Gap /\ name = "onExit"
<1>1. ~Ended /\ jobs # <<>> /\ Head(jobs) = name /\ jobs \in Seq(SerialJobs)
  BY DEF Job, Serial, SerialQueues
<1>2. name \in SerialJobs /\ Tail(jobs) \in Seq(SerialJobs)
  BY <1>1
<1>3. NoAgent /\ (stopping => Leaving) /\ (~stopping => Up)
  BY <1>1 DEF Serial, Processes
<1>4. ~stopping => Dying \/ Failing \/ Gap
  BY <1>1, <1>3 DEF Up, Idle, Spawning, Running, Down
<1>5. ~stopping => \/ Dying /\ name = "startCleanup" /\ Tail(jobs) = <<>>
                   \/ Failing /\ name = "attemptFailed" /\ Tail(jobs) = <<>>
                   \/ Gap /\ name = "onExit" /\ Tail(jobs) = <<>>
  BY <1>1, <1>4, QueueFacts DEF Dying, Failing, Gap
<1> QED BY <1>1, <1>2, <1>3, <1>5

\* The parts of the invariant a microtask keeps, whatever it does to the rest.
LEMMA MicrotaskFrame ==
  ASSUME TypeOK, Serial, NoAgent, ~Ended, ~Ended', jobs' \in Seq(SerialJobs),
         UNCHANGED processes
  PROVE  Processes' /\ SerialQueues' /\ Signalled'
BY DEF Serial, Processes, SerialQueues, NoAgent, Alive, DownMeansDown, Signalled, processes

\* In a supervisor that is stopping, the rest follows from the frame.
LEMMA StoppingMicrotask ==
  ASSUME TypeOK, Serial, Leaving, stopping, stopping',
         Processes', SerialQueues', Signalled',
         app' \in {"quitting", "exiting"}, state' # "idle"
  PROVE  Serial'
BY DEF Serial, Leaving, Ladder

LEMMA CleanupSerial == ASSUME TypeOK, Serial, StartCleanup PROVE Serial'
<1> DEFINE name == "startCleanup"
<1>1. /\ Job(name) /\ child' = NoChild /\ state' = "stopped"
      /\ jobs' = Append(Tail(jobs), "attemptFailed")
      /\ UNCHANGED <<stopping, ladder, processes, app>>
  BY DEF StartCleanup
<1>2. /\ ~Ended /\ NoAgent /\ Tail(jobs) \in Seq(SerialJobs)
      /\ stopping => Leaving
      /\ ~stopping => Up /\ Dying /\ Tail(jobs) = <<>>
  BY <1>1, JobFacts
<1>3. jobs' \in Seq(SerialJobs)
  BY <1>1, <1>2, QueueFacts
<1>4. ~Ended' /\ Processes' /\ SerialQueues' /\ Signalled'
  BY <1>1, <1>2, <1>3, MicrotaskFrame DEF Ended
<1>5. CASE stopping
  BY <1>1, <1>2, <1>4, <1>5, StoppingMicrotask DEF Leaving
<1>6. CASE ~stopping
  <2>1. Failing' /\ Ladder'
    BY <1>1, <1>2, <1>6, QueueFacts
       DEF Failing, Dying, NoStart, Serial, Ladder, ladder, processes
  <2>2. Up'
    BY <1>1, <1>2, <1>6, <2>1 DEF Up, processes
  <2> QED BY <1>1, <1>4, <1>6, <2>1, <2>2 DEF Serial
<1> QED BY <1>5, <1>6

LEMMA FailedSerial == ASSUME TypeOK, Serial, AttemptFailed PROVE Serial'
<1>1. /\ Job("attemptFailed") /\ ScheduleRestart /\ jobs' = Tail(jobs)
      /\ UNCHANGED <<child, stopping, processes, app>>
  BY DEF AttemptFailed
<1>2. /\ ~Ended /\ NoAgent /\ Tail(jobs) \in Seq(SerialJobs)
      /\ stopping => Leaving
      /\ ~stopping => Up /\ Failing /\ Tail(jobs) = <<>>
  BY <1>1, JobFacts
<1>3. ~Ended' /\ Processes' /\ SerialQueues' /\ Signalled'
  BY <1>1, <1>2, MicrotaskFrame DEF Ended
<1>4. state' \in {"backoff", "failed"}
  BY <1>1 DEF ScheduleRestart
<1>5. CASE stopping
  BY <1>1, <1>2, <1>3, <1>4, <1>5, StoppingMicrotask DEF Leaving
<1>6. CASE ~stopping
  <2>1. Ladder'
    BY <1>1, <1>2, <1>6, ScheduleRestartLadder DEF Serial, Failing
  <2>2. Down' /\ Up'
    BY <1>1, <1>2, <1>4, <1>6 DEF Failing, Down, NoStart, Up, processes
  <2> QED BY <1>1, <1>3, <1>6, <2>1, <2>2 DEF Serial
<1> QED BY <1>5, <1>6

LEMMA OnExitSerial == ASSUME TypeOK, Serial, OnExit PROVE Serial'
<1>1. /\ Job("onExit") /\ jobs' = Tail(jobs)
      /\ UNCHANGED <<stopping, processes, app>>
  BY DEF OnExit, supervisor
<1>2. /\ ~Ended /\ NoAgent /\ Tail(jobs) \in Seq(SerialJobs)
      /\ stopping => Leaving
      /\ ~stopping => Up /\ Gap /\ Tail(jobs) = <<>>
  BY <1>1, JobFacts
<1>3. ~Ended' /\ Processes' /\ SerialQueues' /\ Signalled'
  BY <1>1, <1>2, MicrotaskFrame DEF Ended
<1>4. CASE stopping
  <2>1. state' = state
    BY <1>4 DEF OnExit, supervisor
  <2> QED BY <1>1, <1>2, <1>3, <1>4, <2>1, StoppingMicrotask DEF Leaving
<1>5. CASE ~stopping
  <2>1. child' = NoChild /\ ScheduleRestart
    BY <1>5 DEF OnExit, UnexpectedExit
  <2>2. Ladder' /\ state' \in {"backoff", "failed"}
    BY <1>1, <1>2, <1>5, <2>1, ScheduleRestartLadder DEF Serial, Gap
  <2>3. Down' /\ Up'
    BY <1>1, <1>2, <1>5, <2>1, <2>2 DEF Gap, Down, NoStart, Up, processes
  <2> QED BY <1>1, <1>3, <1>5, <2>2, <2>3 DEF Serial
<1> QED BY <1>4, <1>5

LEMMA StopDoneSerial ==
  ASSUME TypeOK, Serial, StopDone("stopDoneQuit", "quitResume") \/ QuitResume
  PROVE  Serial'
<1>1. PICK name \in {"stopDoneQuit", "quitResume"} : Job(name)
  BY DEF StopDone, QuitResume
<1>2. stopping /\ Leaving /\ ~Ended /\ NoAgent /\ Tail(jobs) \in Seq(SerialJobs)
  BY <1>1, JobFacts
<1>3. /\ jobs' \in Seq(SerialJobs) /\ UNCHANGED <<stopping, processes>>
      /\ app' \in {"quitting", "exiting"} /\ state' # "idle"
  BY <1>2, QueueFacts DEF StopDone, QuitResume, supervisor, Leaving
<1>4. Processes' /\ SerialQueues' /\ Signalled'
  BY <1>2, <1>3, MicrotaskFrame DEF Ended
<1> QED BY <1>2, <1>3, <1>4, StoppingMicrotask

\* A stop() called by restart() has no continuation in these behaviours.
LEMMA MicrotaskSerial == ASSUME TypeOK, Serial, Microtask PROVE Serial'
<1>1. /\ ~StopDone("stopDoneRestart", "restartResume")
      /\ ~RestartResume
  BY JobFacts DEF StopDone, RestartResume, SerialJobs
<1> QED BY <1>1, CleanupSerial, FailedSerial, OnExitSerial, StopDoneSerial DEF Microtask

-----------------------------------------------------------------------------
(* The invariant. *)

LEMMA NextIInv == ASSUME IInv, [Next]_vars PROVE IInv'
<1>1. TypeOK'
  BY NextTypeOK DEF IInv
<1> SUFFICES ASSUME ~overlap' PROVE Serial'
  BY <1>1 DEF IInv
<1>2. ~overlap
  BY DEF Next, vars, Launch, Poll, Restart, Quit, QuitAgain, ExitMain, KillMain, BackoffFires,
         StrayFires, StableFires, HandshakeLine, HandshakeTimeout, HealthOk, HealthFail, Exit,
         AgentReady, OrphanExit, Microtask, StartCleanup, AttemptFailed, StopDone, QuitResume,
         RestartResume, OnExit, ui
<1>3. TypeOK /\ Serial
  BY <1>2 DEF IInv
<1>4. CASE Launch
  BY <1>3, <1>4, LaunchSerial
<1>5. CASE Poll \/ QuitAgain \/ ExitMain \/ KillMain \/ StableFires
  BY <1>3, <1>5, MainSerial
<1>6. CASE Restart
  BY <1>3, <1>6, RestartSerial
<1>7. CASE Quit
  BY <1>3, <1>7, QuitSerial
<1>8. CASE BackoffFires \/ StrayFires
  BY <1>3, <1>8, BackoffSerial
<1>9. ASSUME NEW c \in Children,
             \/ HandshakeLine(c) \/ HandshakeTimeout(c) \/ HealthOk(c) \/ HealthFail(c)
             \/ Exit(c) \/ AgentReady(c) \/ OrphanExit(c)
      PROVE  Serial'
  BY <1>3, <1>9, HandshakeLineSerial, StartKillSerial, HealthOkSerial, ExitSerial, AgentSerial
<1>10. CASE Microtask
  BY <1>3, <1>10, MicrotaskSerial
<1>11. CASE UNCHANGED vars
  BY <1>3, <1>11, QuietSerial, TurnFacts DEF vars, ladder, Serial, Ended
<1> QED BY <1>4, <1>5, <1>6, <1>7, <1>8, <1>9, <1>10, <1>11 DEF Next

LEMMA InitIInv == Init => IInv
BY InitTypeOK, InitSerial DEF IInv

LEMMA InvariantHolds == SafeSpec => []IInv
BY InitIInv, NextIInv, PTL DEF SafeSpec

-----------------------------------------------------------------------------
(* The safety properties of Supervisor. *)

\* At most one agent process is alive unless a restart overlapped (start, stop).
THEOREM OneAgentHolds == SafeSpec => []OneAgent
<1>1. IInv => OneAgent
  BY DEF IInv, Serial, Processes, OneAgent
<1> QED BY <1>1, InvariantHolds, PTL

\* An agent reported as running is alive, watched and the one Main talks to.
THEOREM RunningIsWatchedHolds == SafeSpec => []RunningIsWatched
<1>1. IInv => RunningIsWatched
  BY TurnFacts DEF IInv, RunningIsWatched, Idle, Spawning, Running, Down
<1> QED BY <1>1, InvariantHolds, PTL

\* One backoff timer in backoff, none elsewhere and none lost (scheduleRestart).
THEOREM OneLadderHolds == SafeSpec => []OneLadder
<1>1. IInv => OneLadder
  BY DEF IInv, Serial, Ladder, OneLadder
<1> QED BY <1>1, InvariantHolds, PTL

\* backoff and failed are reported only when no agent process is alive.
THEOREM DownMeansDownHolds == SafeSpec => []DownMeansDownUnlessOverlap
<1>1. IInv => DownMeansDownUnlessOverlap
  BY DEF IInv, Serial, Processes, DownMeansDownUnlessOverlap
<1> QED BY <1>1, InvariantHolds, PTL

\* The quit leaves no agent without a SIGTERM (stopServices, stop).
THEOREM QuitSignalsHolds == SafeSpec => []QuitSignalsUnlessOverlap
<1>1. IInv => QuitSignalsUnlessOverlap
  BY DEF IInv, Serial, Up, Leaving, Ended, Signalled, QuitSignalsUnlessOverlap, QuitSignalsAgents
<1> QED BY <1>1, InvariantHolds, PTL

\* A running agent is watched, a lost one has its one timer.
THEOREM AttendedHolds == SafeSpec => []Attended
<1>1. RunningIsWatched /\ OneLadder => Attended
  BY DEF Attended
<1> QED BY <1>1, RunningIsWatchedHolds, OneLadderHolds, PTL

\* No agent lives beside the one Main knows of.
THEOREM NoStraysHolds == SafeSpec => []NoStrays
<1>1. OneAgent /\ DownMeansDownUnlessOverlap => NoStrays
  BY DEF NoStrays
<1> QED BY <1>1, OneAgentHolds, DownMeansDownHolds, PTL

-----------------------------------------------------------------------------
(***************************************************************************)
(* Supervisor implements AgentLifecycle: with Phase for phase and the      *)
(* processes that are alive for agents, every step that does not follow an *)
(* overlapping restart is a step of the abstract life of the agent or none.*)
(***************************************************************************)

Agents == {c \in Children : Alive(c)}

\* The step that an action of Supervisor has to be.
Abstract == Lifecycle!Next \/ UNCHANGED <<Phase, Agents>>

LEMMA PhaseFacts ==
  /\ Ended => Phase = "over"
  /\ ~Ended /\ app # "up" => Phase = "stopping"
  /\ app = "up" /\ (state = "stopped" \/ (state = "running" /\ jobs # <<>>)) => Phase = "spawning"
  /\ app = "up" /\ state # "stopped" /\ ~(state = "running" /\ jobs # <<>>) => Phase = state
BY DEF Phase, Ended

LEMMA PhaseFactsPrime ==
  /\ Ended' => Phase' = "over"
  /\ ~Ended' /\ app' # "up" => Phase' = "stopping"
  /\ app' = "up" /\ (state' = "stopped" \/ (state' = "running" /\ jobs' # <<>>)) => Phase' = "spawning"
  /\ app' = "up" /\ state' # "stopped" /\ ~(state' = "running" /\ jobs' # <<>>) => Phase' = state'
BY DEF Phase, Ended

\* What Serial says of the phase.
LEMMA SerialPhase ==
  ASSUME TypeOK, Serial
  PROVE  /\ ~Ended /\ stopping => Phase = "stopping"
         /\ ~Ended /\ ~stopping =>
              /\ Idle => Phase = "idle"
              /\ Spawning \/ Dying \/ Failing \/ Gap => Phase = "spawning"
              /\ Running => Phase = "running"
              /\ Down => Phase = state /\ state \in {"backoff", "failed"}
         /\ NoAgent => Agents = {}
<1>1. ~Ended /\ stopping => Phase = "stopping"
  BY PhaseFacts DEF Serial, Leaving
<1>2. ASSUME ~Ended, ~stopping
      PROVE  /\ Idle => Phase = "idle"
             /\ Spawning \/ Dying \/ Failing \/ Gap => Phase = "spawning"
             /\ Running => Phase = "running"
             /\ Down => Phase = state /\ state \in {"backoff", "failed"}
  BY <1>2, PhaseFacts, ShortSequences
     DEF Serial, Up, Idle, Spawning, Dying, Failing, Gap, Running, Down
<1> QED BY <1>1, <1>2 DEF NoAgent, Agents

LEMMA InitRefines == Init => Lifecycle!Init
<1> SUFFICES ASSUME Init PROVE Phase = "idle" /\ Agents = {}
  BY DEF Lifecycle!Init, Agents
<1> QED BY DEF Init, Phase, Ended, Agents, Alive

\* A spawn is the abstract Start.
LEMMA SpawnRefines ==
  ASSUME TypeOK, Serial, Turn, app = "up", ~stopping, Idle \/ Down, TryStart(<<>>), app' = app
  PROVE  Lifecycle!Next
<1>1. child = NoChild /\ NoAgent
  BY AliveIsChild DEF Idle, Down, NoAgent
<1>2. Phase \in {"idle", "backoff", "failed"} /\ Agents = {}
  BY <1>1, SerialPhase DEF Turn
<1>3. PICK c \in Children : proc' = [proc EXCEPT ![c] = "booting"]
  BY <1>1 DEF TryStart, Spawn
<1>4. Agents' = {c}
  BY <1>1, <1>3 DEF Agents, NoAgent, Alive, TypeOK
<1>5. Phase' = "spawning"
  BY PhaseFactsPrime DEF TryStart
<1>6. Lifecycle!Start(c)
  BY <1>2, <1>4, <1>5 DEF Lifecycle!Start, Agents
<1> QED BY <1>6 DEF Lifecycle!Next

\* A step of a stopping supervisor that leaves the processes alone.
LEMMA StoppingRefines ==
  ASSUME ~Ended, app # "up", ~Ended', app' # "up", proc' = proc
  PROVE  UNCHANGED <<Phase, Agents>>
BY PhaseFacts, PhaseFactsPrime DEF Agents, Alive

\* A step that changes nothing the phase depends on.
LEMMA QuietRefines ==
  ASSUME UNCHANGED <<state, jobs, app, proc>>
  PROVE  UNCHANGED <<Phase, Agents>>
BY DEF Phase, Ended, Agents, Alive

LEMMA EndRefines == ASSUME TypeOK, Turn, ExitMain \/ KillMain PROVE Lifecycle!Next
<1>1. ~Ended /\ Ended' /\ proc' = proc
  BY DEF Turn, ExitMain, KillMain, Ended, processes
<1>2. Phase' = "over" /\ Agents' = Agents
  BY <1>1, PhaseFactsPrime DEF Agents, Alive
<1>3. Phase # "over"
  BY <1>1, PhaseFacts DEF Ended, TypeOK, States
<1>4. Lifecycle!End
  BY <1>2, <1>3 DEF Lifecycle!End, Agents
<1> QED BY <1>4 DEF Lifecycle!Next

LEMMA MainRefines ==
  ASSUME TypeOK, Serial, Poll \/ QuitAgain \/ ExitMain \/ KillMain \/ StableFires
  PROVE  Abstract
<1>1. CASE Poll \/ StableFires
  BY <1>1, QuietRefines DEF Poll, StableFires, supervisor, processes, Abstract
<1>2. CASE QuitAgain
  BY <1>2, StoppingRefines DEF QuitAgain, Turn, Ended, processes, Abstract
<1>3. CASE ExitMain \/ KillMain
  BY <1>3, EndRefines DEF Abstract, ExitMain, KillMain
<1> QED BY <1>1, <1>2, <1>3

LEMMA LaunchRefines == ASSUME TypeOK, Serial, Launch PROVE Abstract
<1>1. ~stopping /\ Idle /\ app = "up"
  BY TurnFacts DEF Launch, Leaving, Spawning, Running, Down
<1> QED BY <1>1, SpawnRefines DEF Launch, Abstract

LEMMA RestartRefines == ASSUME TypeOK, Serial, Restart, ~overlap' PROVE Abstract
<1>1. Turn /\ app = "up" /\ child = NoChild /\ app' = app /\ TryStart(<<>>)
  BY DEF Restart
<1>2. ~stopping /\ (Idle \/ Down)
  BY <1>1, TurnFacts DEF Leaving, Spawning, Running
<1> QED BY <1>1, <1>2, SpawnRefines DEF Abstract

LEMMA TimerRefines == ASSUME TypeOK, Serial, BackoffFires \/ StrayFires PROVE Abstract
<1>1. Turn /\ Attempt(<<>>) /\ app' = app
  BY DEF BackoffFires, StrayFires
<1>2. CASE stopping
  <2>1. Leaving /\ jobs = <<>> /\ UNCHANGED <<state, jobs, app, proc>>
    BY <1>1, <1>2, TurnFacts DEF Attempt, processes
  <2> QED BY <2>1, QuietRefines DEF Abstract
<1>3. CASE ~stopping
  <2>1. state = "backoff"
    BY <1>3 DEF Serial, Ladder, BackoffFires, StrayFires, TypeOK
  <2>2. Down /\ app = "up"
    BY <1>1, <1>3, <2>1, TurnFacts DEF Idle, Spawning, Running
  <2>3. TryStart(<<>>)
    BY <1>1, <1>3 DEF Attempt
  <2> QED BY <1>1, <1>3, <2>2, <2>3, SpawnRefines DEF Abstract
<1> QED BY <1>2, <1>3

LEMMA QuitRefines == ASSUME TypeOK, Serial, Quit PROVE Abstract
<1>1. Turn /\ ~stopping /\ app = "up" /\ ~Ended
  BY TurnFacts DEF Quit, Leaving, Turn
<1>2. Phase \in {"spawning", "running", "backoff", "failed"} /\ state # "stopped"
  BY <1>1, TurnFacts, SerialPhase DEF Quit, Idle, Spawning, Running, Down
<1>3. app' = "quitting" /\ proc' = proc
  BY <1>2 DEF Quit, Stop
<1>4. Phase' = "stopping" /\ Agents' = Agents
  BY <1>3, PhaseFactsPrime DEF Ended, Agents, Alive
<1>5. Lifecycle!Stop
  BY <1>2, <1>4 DEF Lifecycle!Stop, Agents
<1> QED BY <1>5 DEF Lifecycle!Next, Abstract

LEMMA KillRefines ==
  ASSUME TypeOK, Serial, NEW c \in Children,
         HandshakeLine(c) \/ HandshakeTimeout(c) \/ HealthFail(c)
  PROVE  Abstract
<1>1. /\ Turn /\ starting[c] # "none"
      /\ UNCHANGED <<state, app, proc, stopping>>
  BY DEF HandshakeLine, HandshakeTimeout, HealthFail, supervisor
<1>2. CASE stopping
  BY <1>1, <1>2, TurnFacts, StoppingRefines DEF Leaving, Ended, Abstract
<1>3. CASE ~stopping
  <2>1. app = "up" /\ state = "spawning"
    BY <1>1, <1>3, StartFacts DEF Spawning
  <2>2. Phase = "spawning" /\ Phase' = "spawning"
    BY <1>1, <2>1, PhaseFacts, PhaseFactsPrime
  <2> QED BY <1>1, <2>2 DEF Abstract, Agents, Alive
<1> QED BY <1>2, <1>3

LEMMA HealthOkRefines ==
  ASSUME TypeOK, Serial, NEW c \in Children, HealthOk(c) PROVE Abstract
<1>1. /\ Turn /\ jobs = <<>> /\ starting[c] # "none" /\ state' = "running"
      /\ UNCHANGED <<app, proc, stopping, child>>
  BY DEF HealthOk, Turn
<1>2. CASE stopping
  BY <1>1, <1>2, TurnFacts, StoppingRefines DEF Leaving, Ended, Abstract
<1>3. CASE ~stopping
  <2>1. app = "up" /\ Spawning /\ c = child
    BY <1>1, <1>3, StartFacts
  <2>2. Phase = "spawning" /\ Agents' = Agents
    BY <1>1, <1>3, <2>1, SerialPhase DEF Turn, Agents, Alive
  <2>3. CASE Alive(c)
    <3>1. jobs' = <<>> /\ Agents # {}
      BY <1>1, <2>1, <2>3 DEF HealthOk, Agents
    <3>2. Phase' = "running"
      BY <1>1, <2>1, <3>1, PhaseFactsPrime
    <3>3. Lifecycle!Succeed
      BY <2>2, <3>1, <3>2 DEF Lifecycle!Succeed, Agents
    <3> QED BY <3>3 DEF Lifecycle!Next, Abstract
  <2>4. CASE ~Alive(c)
    <3>1. jobs' # <<>>
      BY <2>1, <2>4, QueueFacts DEF HealthOk, Spawning
    <3>2. Phase' = "spawning"
      BY <1>1, <2>1, <3>1, PhaseFactsPrime
    <3> QED BY <2>2, <3>2 DEF Abstract
  <2> QED BY <2>3, <2>4
<1> QED BY <1>2, <1>3

\* The death of an agent, whoever is there to see it.
LEMMA DeathRefines ==
  ASSUME TypeOK, NEW c \in Children, Alive(c), proc' = [proc EXCEPT ![c] = "dead"],
         IF Phase = "running" THEN Phase' \in {"backoff", "failed"} ELSE Phase' = Phase
  PROVE  Abstract
<1>1. c \in Agents /\ Agents' = Agents \ {c}
  BY DEF Agents, Alive, TypeOK
<1>2. Lifecycle!Die(c)
  BY <1>1 DEF Lifecycle!Die, Agents
<1> QED BY <1>2 DEF Lifecycle!Next, Abstract

LEMMA ExitRefines ==
  ASSUME TypeOK, Serial, NEW c \in Children, Exit(c) PROVE Abstract
<1>1. /\ Turn /\ jobs = <<>> /\ Alive(c) /\ app' = app /\ ~Ended /\ ~Ended'
      /\ proc' = [proc EXCEPT ![c] = "dead"]
  BY DEF Exit, Turn, Ended
<1>2. c = child /\ child # NoChild
  BY <1>1, AliveIsChild
<1>3. CASE stopping
  <2>1. Phase = "stopping" /\ Phase' = "stopping"
    BY <1>1, <1>3, TurnFacts, PhaseFacts, PhaseFactsPrime DEF Leaving
  <2> QED BY <1>1, <2>1, DeathRefines
<1>4. CASE ~stopping /\ Spawning
  <2>1. state' = state /\ app = "up"
    BY <1>1, <1>2, <1>4, TurnFacts DEF Exit, Spawning, supervisor
  <2>2. Phase = "spawning" /\ Phase' = "spawning"
    BY <1>1, <1>4, <2>1, PhaseFacts, PhaseFactsPrime DEF Spawning
  <2> QED BY <1>1, <2>2, DeathRefines
<1>5. CASE ~stopping /\ Running
  <2>1. app = "up" /\ ScheduleRestart /\ starting[c] = "none" /\ waiters[c] = <<>>
    BY <1>1, <1>2, <1>5, TurnFacts
       DEF Exit, Running, UnexpectedExit, NoStart, Serial, Up
  <2>2. state' \in {"backoff", "failed"}
    BY <2>1 DEF ScheduleRestart
  <2>3. Phase = "running" /\ Phase' \in {"backoff", "failed"}
    BY <1>1, <1>5, <2>1, <2>2, PhaseFacts, PhaseFactsPrime DEF Running
  <2> QED BY <1>1, <2>3, DeathRefines
<1> QED BY <1>1, <1>2, <1>3, <1>4, <1>5, TurnFacts DEF Idle, Down

LEMMA AgentRefines ==
  ASSUME TypeOK, NEW c \in Children, AgentReady(c) \/ OrphanExit(c) PROVE Abstract
<1>1. UNCHANGED <<state, jobs, app>> /\ Alive(c)
  BY DEF AgentReady, OrphanExit, supervisor, Alive
<1>2. Phase' = Phase
  BY <1>1 DEF Phase, Ended
<1>3. CASE Ended
  <2>1. proc' = [proc EXCEPT ![c] = "dead"] /\ Phase = "over"
    BY <1>3, PhaseFacts DEF AgentReady, OrphanExit
  <2> QED BY <1>1, <1>2, <2>1, DeathRefines
<1>4. CASE ~Ended
  <2>1. Agents' = Agents
    BY <1>4 DEF AgentReady, OrphanExit, Agents, Alive, TypeOK
  <2> QED BY <1>2, <2>1 DEF Abstract
<1> QED BY <1>3, <1>4

LEMMA MicrotaskRefines == ASSUME TypeOK, Serial, Microtask PROVE Abstract
<1>1. PICK name : Job(name)
  BY DEF Microtask, StartCleanup, AttemptFailed, StopDone, QuitResume, RestartResume, OnExit
<1>2. /\ ~Ended /\ NoAgent
      /\ stopping => Leaving
      /\ ~stopping => \/ Dying /\ Head(jobs) = "startCleanup"
                      \/ Failing /\ Head(jobs) = "attemptFailed"
                      \/ Gap /\ Head(jobs) = "onExit"
  BY <1>1, JobFacts
<1>3. ~RestartResume
  BY JobFacts DEF RestartResume, SerialJobs
<1>4. proc' = proc
  BY <1>3 DEF Microtask, StartCleanup, AttemptFailed, StopDone, QuitResume, OnExit, processes
<1>5. CASE stopping
  <2>1. app # "up" /\ app' # "up" /\ ~Ended'
    BY <1>2, <1>3, <1>5
       DEF Leaving, Microtask, StartCleanup, AttemptFailed, StopDone, QuitResume, OnExit, Ended
  <2> QED BY <1>2, <1>4, <2>1, StoppingRefines DEF Abstract
<1>6. CASE ~stopping
  <2>1. /\ app = "up" /\ Phase = "spawning" /\ Agents = {} /\ Agents' = {}
    BY <1>2, <1>4, <1>6, SerialPhase DEF Serial, Up, Agents, Alive, NoAgent
  <2>2. StartCleanup \/ AttemptFailed \/ OnExit
    BY <1>2, <1>3, <1>6 DEF Microtask, StopDone, QuitResume, Job
  <2>3. app' = "up"
    BY <2>1, <2>2 DEF StartCleanup, AttemptFailed, OnExit
  <2>4. CASE StartCleanup
    BY <2>1, <2>3, <2>4, PhaseFactsPrime DEF StartCleanup, Abstract
  <2>5. CASE AttemptFailed \/ OnExit
    <3>1. state' \in {"backoff", "failed"}
      BY <1>6, <2>5 DEF AttemptFailed, OnExit, UnexpectedExit, ScheduleRestart
    <3>2. Phase' \in {"backoff", "failed"}
      BY <2>3, <3>1, PhaseFactsPrime
    <3>3. Lifecycle!GiveUp
      BY <2>1, <3>2 DEF Lifecycle!GiveUp, Agents
    <3> QED BY <3>3 DEF Lifecycle!Next, Abstract
  <2> QED BY <2>2, <2>4, <2>5
<1> QED BY <1>5, <1>6

LEMMA StepRefines ==
  ASSUME IInv, [Next]_vars PROVE [Lifecycle!Next \/ overlap']_(Lifecycle!lifecycle)
<1> SUFFICES ASSUME ~overlap' PROVE Abstract
  BY DEF Abstract, Lifecycle!lifecycle, Agents
<1>2. ~overlap
  BY DEF Next, vars, Launch, Poll, Restart, Quit, QuitAgain, ExitMain, KillMain, BackoffFires,
         StrayFires, StableFires, HandshakeLine, HandshakeTimeout, HealthOk, HealthFail, Exit,
         AgentReady, OrphanExit, Microtask, StartCleanup, AttemptFailed, StopDone, QuitResume,
         RestartResume, OnExit, ui
<1>3. TypeOK /\ Serial
  BY <1>2 DEF IInv
<1>4. CASE Launch \/ Restart \/ Quit
  BY <1>3, <1>4, LaunchRefines, RestartRefines, QuitRefines
<1>5. CASE Poll \/ QuitAgain \/ ExitMain \/ KillMain \/ StableFires
  BY <1>3, <1>5, MainRefines
<1>6. CASE BackoffFires \/ StrayFires
  BY <1>3, <1>6, TimerRefines
<1>7. ASSUME NEW c \in Children,
             \/ HandshakeLine(c) \/ HandshakeTimeout(c) \/ HealthOk(c) \/ HealthFail(c)
             \/ Exit(c) \/ AgentReady(c) \/ OrphanExit(c)
      PROVE  Abstract
  BY <1>3, <1>7, KillRefines, HealthOkRefines, ExitRefines, AgentRefines
<1>8. CASE Microtask
  BY <1>3, <1>8, MicrotaskRefines
<1>9. CASE UNCHANGED vars
  BY <1>9, QuietRefines DEF vars, supervisor, processes, Abstract
<1> QED BY <1>4, <1>5, <1>6, <1>7, <1>8, <1>9 DEF Next

\* Every step that no overlapping restart precedes is a step of the abstract life
\* of the agent: it is started only where there is none, and never after a quit.
THEOREM Refinement == SafeSpec => ImplementsLifecycle
BY InitRefines, InvariantHolds, StepRefines, PTL DEF SafeSpec, ImplementsLifecycle
=============================================================================
