------------------------------- MODULE AgentFeed -------------------------------
(***************************************************************************)
(* What the views of Main and of the renderer are made from: the agent's   *)
(* monitors and one log watch, its events on their way to Main, and the    *)
(* answers to GET /monitors, which travel beside them.  Each part has its  *)
(* own module (Supervisor, HealthRegistry, Tailer, EventStream, Reconcile);*)
(* here is what a view can tell apart.  Monitors are numbered by name.     *)
(***************************************************************************)
EXTENDS Integers, FiniteSets, Sequences
Seqs == INSTANCE SequencesExt

CONSTANTS
  Monitors,    \* what the user may configure
  Slots,       \* requests for the list under way at once, at most
  MaxRuns,     \* bound on the agents that start
  MaxChanges   \* bound on what happens to agent and stream

ASSUME FeedAssumption ==
  Monitors \subseteq Nat \ {0} /\ {MaxRuns, MaxChanges} \subseteq Nat

VARIABLES
  status,   \* the supervisor's state; "stopping": running, but told to end
  run,      \* agents started: the ids of one are not those of another
  serves,   \* the state of each monitor the agent has, "none" if it has it not
  log,      \* the watch: none, fine, or failing since its last event
  watch,    \* watches opened: the id of the last
  lines,    \* lines emitted for it
  stream,   \* events Main has not read yet, in the order of their ids
  echoes,   \* events that may be handed on again, {} while there is one stream
  asks,     \* the requests for the list
  changes

feed == <<status, run, serves, log, watch, lines, stream, echoes, asks, changes>>

None == [m \in Monitors |-> "none"]
Id == Monitors \X (1 .. MaxRuns)
Nothing == [id \in Id |-> "none"]
(* The list as GET /monitors gives it. *)
Listed == [id \in Id |-> IF id[2] = run THEN serves[id[1]] ELSE "none"]

Free == [at |-> "free", list |-> Nothing]
Up == status \in {"running", "stopping"}

Log == 0  \* a watch, where an event names a monitor
Event(kind, id, n) == [kind |-> kind, id |-> id, n |-> n]
OfAgent(kind) == Event(kind, <<Log, 0>>, 0)
OfMonitor(kind, m) == Event(kind, <<m, run>>, 0)
OfWatch(kind, n) == Event(kind, <<Log, watch>>, n)
Ready == OfAgent("ready")
MonitorEvents == {"ok", "unhealthy", "recovered"}

FeedInit ==
  /\ status = "starting" /\ run = 0 /\ serves = None /\ log = "none"
  /\ watch = 0 /\ lines = 0 /\ stream = <<>> /\ echoes = {}
  /\ asks = [s \in Slots |-> Free] /\ changes = 0

Change == changes < MaxChanges /\ changes' = changes + 1

(* A second stream brings what the first does, in a time of its own: what   *)
(* it brings may be handed on before or after the first, and again.        *)
Echo(e) == echoes' = IF echoes = {} THEN {} ELSE echoes \cup {e}
Publish(e) == stream' = Append(stream, e) /\ Echo(e)

-----------------------------------------------------------------------------
(* stop() and start() of the consumer.  The first event of a connection is *)
(* its own "ready".  When stop() aborts an open connection, its connect()  *)
(* goes on after start() and opens a second one.                           *)
Reattach ==
  /\ stream' = <<Ready>>
  /\ \/ echoes' = {Ready} \cup echoes
     \/ Echo(Ready)

(* The agent's life.  Main connects anew to every agent; requests to the   *)
(* one before have failed or are answered by then, and what a second       *)
(* stream had left of it is read.                                          *)

Start ==
  /\ status = "starting" /\ run < MaxRuns /\ \A s \in Slots : asks[s] = Free
  /\ status' = "running" /\ run' = run + 1 /\ serves' = None /\ log' = "none"
  /\ stream' = <<Ready>> /\ echoes' \in (IF run = 0 THEN {{}} ELSE {{}, {Ready}})
  /\ UNCHANGED <<watch, lines>>

Sigterm ==
  /\ status = "running" /\ Change /\ status' = "stopping"
  /\ Publish(OfAgent("stopping"))
  /\ UNCHANGED <<run, serves, log, watch, lines, asks>>

(* Its bytes may still wait in the socket. *)
Exit ==
  /\ Up /\ (status = "stopping" \/ changes < MaxChanges)
  /\ status' \in {"down", "failed"} /\ serves' = None /\ log' = "none"
  /\ changes' = IF status = "running" THEN changes + 1 ELSE changes
  /\ UNCHANGED <<run, watch, lines, stream, echoes, asks>>

(* The backoff timer, or a manual restart. *)
Retry ==
  /\ status = "down" \/ (status = "failed" /\ changes < MaxChanges)
  /\ status' = "starting"
  /\ changes' = IF status = "failed" THEN changes + 1 ELSE changes
  /\ UNCHANGED <<run, serves, log, watch, lines, stream, echoes, asks>>

-----------------------------------------------------------------------------
(* Its monitors: added by the user or pushed again, reset to unknown by an *)
(* edit, without an event; and its watch.                                  *)

Steady == status = "running" /\ Change /\ UNCHANGED <<status, run, asks>>
Becomes(m, s) == serves' = [serves EXCEPT ![m] = s] /\ UNCHANGED <<log, watch, lines>>
NoEvent == UNCHANGED <<stream, echoes>>

Add(m) == Steady /\ serves[m] = "none" /\ Becomes(m, "unknown") /\ NoEvent
Remove(m) == Steady /\ serves[m] # "none" /\ Becomes(m, "none") /\ NoEvent
Edit(m) ==
  /\ Steady /\ serves[m] \in {"healthy", "unhealthy"} /\ Becomes(m, "unknown") /\ NoEvent

(* A result that changes the state, or a good one that does not. *)
Turn(m) ==
  /\ Steady /\ serves[m] # "none"
  /\ \/ /\ Becomes(m, IF serves[m] = "unknown" THEN "healthy" ELSE serves[m])
        /\ Publish(OfMonitor("ok", m))
     \/ /\ serves[m] \in {"unknown", "healthy"} /\ Becomes(m, "unhealthy")
        /\ Publish(OfMonitor("unhealthy", m))
     \/ /\ serves[m] = "unhealthy" /\ Becomes(m, "healthy")
        /\ Publish(OfMonitor("recovered", m))

Watch ==
  /\ Steady /\ log = "none" /\ log' = "fine" /\ watch' = watch + 1 /\ lines' = 0
  /\ NoEvent /\ UNCHANGED serves
Unwatch ==
  /\ Steady /\ log # "none" /\ log' = "none" /\ NoEvent /\ UNCHANGED <<serves, watch, lines>>

(* Lines, or what happened to the file. *)
LogEvent ==
  /\ Steady /\ log # "none" /\ UNCHANGED <<serves, watch>>
  /\ \/ lines' = lines + 1 /\ log' = "fine" /\ Publish(OfWatch("line", lines + 1))
     \/ \E kind \in {"rotated", "deleted"} :
          log' = "fine" /\ Publish(OfWatch(kind, 0)) /\ UNCHANGED lines
     \/ Publish(OfWatch("truncated", 0)) /\ UNCHANGED <<log, lines>>
     \/ log' = "failing" /\ Publish(OfWatch("error", 0)) /\ UNCHANGED lines

-----------------------------------------------------------------------------
(* The stream.  A broken connection is replayed in order; Connection.start *)
(* announces itself again, after the replay or the reset.                  *)

Steers == Change /\ UNCHANGED <<status, run, serves, log, watch, lines, asks>>

Reconnect == status = "running" /\ Steers /\ Publish(Ready)

(* Too much was missed: the events on their way are gone. *)
Overrun ==
  /\ status = "running" /\ stream # <<>> /\ Steers
  /\ stream' = <<OfAgent("reset"), Ready>>
  /\ echoes' = IF echoes = {} THEN {} ELSE echoes \cup {OfAgent("reset"), Ready}

(* The consumer is restarted (onResume): it asks for no replay. *)
Rewind == status = "running" /\ Steers /\ Reattach

(* A slow connection sheds a batch of lines (deliver). *)
Shed ==
  /\ \E i \in DOMAIN stream : stream[i].kind = "line" /\ stream' = Seqs!RemoveAt(stream, i)
  /\ Steers /\ UNCHANGED echoes

(* The socket of an agent that ended is found broken. *)
Cut ==
  /\ ~Up /\ stream # <<>> /\ stream' = <<>>
  /\ UNCHANGED <<status, run, serves, log, watch, lines, echoes, asks, changes>>

Read ==
  /\ stream' = Tail(stream)
  /\ UNCHANGED <<status, run, serves, log, watch, lines, echoes, asks, changes>>

(* The second stream hands on what the first does too; a stop() aborts only *)
(* the younger of two.                                                     *)
ReadAgain(e) == e \in echoes /\ Steers /\ NoEvent

-----------------------------------------------------------------------------
(* GET /monitors *)

AskList ==
  \E s \in Slots : asks[s].at = "free" /\ asks' = [asks EXCEPT ![s].at = "sent"]

Answer(s) ==
  /\ status = "running" /\ asks[s].at = "sent"
  /\ asks' = [asks EXCEPT ![s] = [at |-> "answered", list |-> Listed]]
  /\ UNCHANGED <<status, run, serves, log, watch, lines, stream, echoes, changes>>

(* Refused, timed out, or cut by the agent's end: the budget of changes is *)
(* spent when the agent runs.                                              *)
Fail(s) ==
  /\ asks[s].at # "free" /\ (status # "running" \/ changes < MaxChanges)
  /\ asks' = [asks EXCEPT ![s] = Free]
  /\ changes' = IF status = "running" THEN changes + 1 ELSE changes
  /\ UNCHANGED <<status, run, serves, log, watch, lines, stream, echoes>>

(* What an event can be about. *)
Subjects == (Monitors \X (1 .. MaxRuns)) \cup ({Log} \X (0 .. MaxChanges))

FeedTypeOK ==
  /\ status \in {"starting", "running", "stopping", "down", "failed"}
  /\ run \in 0 .. MaxRuns /\ changes \in 0 .. MaxChanges /\ lines \in 0 .. MaxChanges
  /\ serves \in [Monitors -> {"none", "unknown", "healthy", "unhealthy"}]
  /\ log \in {"none", "fine", "failing"}
  /\ watch \in 0 .. MaxChanges
  /\ (\A i \in DOMAIN stream : stream[i].id \in Subjects) /\ \A e \in echoes : e.id \in Subjects
  /\ \A s \in Slots : asks[s].at \in {"free", "sent", "answered"}
=============================================================================
