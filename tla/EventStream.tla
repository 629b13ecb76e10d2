----------------------------- MODULE EventStream -----------------------------
(***************************************************************************)
(* The event stream: the agent's bus with its ring of recent events        *)
(* (EventBus), the SSE endpoint with its connections (SseConnection,       *)
(* createSseHub), and the consumer in Main (AgentEventConsumer) with the   *)
(* two places of main.ts that stop and start it.                           *)
(*                                                                         *)
(* A call of connect() and its connection share a slot of Chains: the call *)
(* is in held while it is suspended in its fetch or its read loop, and the *)
(* connection is what the agent makes of the request.  A step is one       *)
(* macrotask of Main or of the agent; the microtasks that follow an abort  *)
(* run in its step.                                                        *)
(***************************************************************************)
EXTENDS Integers, Sequences, FiniteSets

CONSTANTS
  Chains,          \* slots for calls of connect() and their connections
  None,            \* undefined
  RingSize,        \* LIMITS.sseReplayBufferEvents
  MaxConnections,  \* LIMITS.maxSseConnections
  DropAt, CloseAt, \* LIMITS.sseDrop- and sseCloseThresholdBytes, in frames
  MaxEvents,       \* bound on the length a run's events reach by Publish
  MaxIds,          \* bound on that length with the announcements of connections
  MaxTroubles      \* bound on crashes, wakes, broken and silent connections

ASSUME StreamAssumption ==
  /\ IsFiniteSet(Chains) /\ None \notin Chains /\ None \notin Nat
  /\ {RingSize, MaxConnections} \subseteq Nat \ {0}
  /\ {DropAt, CloseAt, MaxEvents, MaxIds, MaxTroubles} \subseteq Nat

VARIABLES
  up,         \* the supervisor has a handle on a live agent
  run,        \* number of the agent's run
  published,  \* kinds of the run's events in the order of their ids, from 1
  conn,       \* "none", "asked" (request under way), "served", "ended" (by the agent)
  pipe,       \* frames written and not yet read
  asked,      \* Last-Event-ID of a request under way
  mute,       \* connections over which nothing passes any more
  held,       \* calls of connect() that have not returned
  current,    \* the call that owns this.abort
  running,    \* this.running
  timer,      \* this.reconnectTimer is set
  lastId,     \* this.lastEventId
  sink,       \* history: the last frame handed to onEvent
  overlaps,   \* history: times start() was called with this.abort just aborted
  troubles    \* crashes, wakes and faults so far

agent == <<up, run, published>>
sockets == <<conn, pipe, asked, mute>>
consumer == <<held, current, running, timer, lastId>>
vars == <<agent, sockets, consumer, sink, overlaps, troubles>>

Kinds == {"log", "event"}   \* log.entry, the droppable type, and the others
Frames == [run : Nat, id : Nat, kind : Kinds \cup {"reset"}]
Served == {k \in Chains : conn[k] = "served"}
Free == {k \in Chains : conn[k] = "none"}
Trouble == troubles < MaxTroubles /\ troubles' = troubles + 1
Slot == CHOOSE k \in Chains : conn[k] = "none"

TypeOK ==
  /\ up \in BOOLEAN /\ run \in Nat /\ published \in Seq(Kinds)
  /\ conn \in [Chains -> {"none", "asked", "served", "ended"}]
  /\ pipe \in [Chains -> Seq(Frames)]
  /\ asked \in [Chains -> Nat \cup {None}]
  /\ mute \in SUBSET Chains /\ held \in SUBSET Chains
  /\ current \in Chains \cup {None}
  /\ running \in BOOLEAN /\ timer \in BOOLEAN
  /\ lastId \in Nat \cup {None} /\ sink \in Frames \cup {None}
  /\ overlaps \in Nat /\ troubles \in 0 .. MaxTroubles
  /\ Cardinality(Served) <= MaxConnections

\* main.ts starts the consumer before it launches the agent: no endpoint yet.
Init ==
  /\ up = FALSE /\ run = 0 /\ published = <<>>
  /\ conn = [k \in Chains |-> "none"] /\ pipe = [k \in Chains |-> <<>>]
  /\ asked = [k \in Chains |-> None] /\ mute = {}
  /\ held = {} /\ current = None /\ running = TRUE /\ timer = TRUE
  /\ lastId = None /\ sink = None
  /\ overlaps = 0 /\ troubles = 0

-----------------------------------------------------------------------------
(* The agent. *)

FrameOf(i) == [run |-> run, id |-> i, kind |-> published[i]]

\* publish() and the deliver() of each subscriber: beyond the thresholds a log
\* batch is shed, and a connection behind on other events is cut.  A connection
\* whose client is gone keeps no frames.
Deliver(c, p, kind) ==
  LET open == {k \in held : c[k] = "served"}
      shed == {k \in open : kind = "log" /\ Len(p[k]) > DropAt}
      cut == {k \in open \ shed : Len(p[k]) > CloseAt}
      new == [run |-> run, id |-> Len(published) + 1, kind |-> kind]
  IN /\ published' = Append(published, kind)
     /\ conn' = [k \in Chains |-> IF k \in cut THEN "ended" ELSE c[k]]
     /\ pipe' = [k \in Chains |->
          IF k \in open \ (shed \cup cut) THEN Append(p[k], new) ELSE p[k]]

Publish(kind) ==
  /\ up /\ Len(published) < MaxEvents
  /\ Deliver(conn, pipe, kind)
  /\ UNCHANGED <<up, run, asked, mute, consumer, sink, overlaps, troubles>>

\* Mutant of Backlog: one event short of a reset is taken for no loss.
Backlog_OffByOne(last) ==
  LET n == Len(published)
      oldest == IF n > RingSize THEN n - RingSize + 1 ELSE 1
      from == IF last < oldest THEN oldest ELSE last + 1
  IN IF last > n \/ last < oldest - 2
     THEN <<[run |-> run, id |-> n, kind |-> "reset"]>>
     ELSE [i \in 1 .. n - from + 1 |-> FrameOf(from + i - 1)]

\* replayAfter() over the ring, the last RingSize events, and what start() writes
\* of its answer.  With an empty ring only last = 0 is no reset.
Backlog(last) ==
  LET n == Len(published)
      oldest == IF n > RingSize THEN n - RingSize + 1 ELSE 1
  IN IF last > n \/ last < oldest - 1
     THEN <<[run |-> run, id |-> n, kind |-> "reset"]>>
     ELSE [i \in 1 .. n - last |-> FrameOf(last + i)]

\* Mutant of Accept: the connections are not counted.
Accept_NoCap(k) ==
  /\ up /\ conn[k] = "asked" /\ k \notin mute /\ Len(published) < MaxIds
  /\ asked' = [asked EXCEPT ![k] = None]
  /\ Deliver([conn EXCEPT ![k] = "served"],
             [pipe EXCEPT ![k] = IF asked[k] = None \/ k \notin held
                                 THEN <<>> ELSE Backlog(asked[k])],
             "event")
  /\ UNCHANGED <<up, run, mute, consumer, sink, overlaps, troubles>>

\* The route: 409 at the cap, else a connection that starts with the backlog and
\* announces itself through the bus.
Accept(k) ==
  /\ up /\ conn[k] = "asked" /\ k \notin mute /\ Len(published) < MaxIds
  /\ asked' = [asked EXCEPT ![k] = None]
  /\ IF Cardinality(Served) >= MaxConnections
     THEN /\ conn' = [conn EXCEPT ![k] = IF k \in held THEN "ended" ELSE "none"]
          /\ UNCHANGED <<pipe, published>>
     ELSE Deliver([conn EXCEPT ![k] = "served"],
                  [pipe EXCEPT ![k] = IF asked[k] = None \/ k \notin held
                                      THEN <<>> ELSE Backlog(asked[k])],
                  "event")
  /\ UNCHANGED <<up, run, mute, consumer, sink, overlaps, troubles>>

\* Mutant of Reap: the close of an abandoned connection is not noticed.
Reap_Deaf(k) ==
  /\ k \notin held /\ conn[k] = "asked"
  /\ conn' = [conn EXCEPT ![k] = "none"] /\ asked' = [asked EXCEPT ![k] = None]
  /\ UNCHANGED <<agent, pipe, mute, consumer, sink, overlaps, troubles>>

\* The client is gone: its request never arrives, or "close" disposes of the
\* connection.
Reap(k) ==
  /\ k \notin held /\ conn[k] \in {"asked", "served"}
  /\ conn' = [conn EXCEPT ![k] = "none"] /\ asked' = [asked EXCEPT ![k] = None]
  /\ UNCHANGED <<agent, pipe, mute, consumer, sink, overlaps, troubles>>

\* The agent exits, and with it go the handle, the connections and whatever part
\* of their frames had not left the process.
Die ==
  /\ Trouble /\ up /\ up' = FALSE
  /\ conn' = [k \in Chains |-> IF k \in held THEN "ended" ELSE "none"]
  /\ \E n \in [held -> 0 .. CloseAt + RingSize + 1] :
       /\ \A k \in held : n[k] <= Len(pipe[k])
       /\ pipe' = [k \in Chains |-> IF k \in held THEN SubSeq(pipe[k], 1, n[k]) ELSE <<>>]
  /\ asked' = [k \in Chains |-> None] /\ mute' = {}
  /\ UNCHANGED <<run, published, consumer, sink, overlaps>>

\* A connection falls silent without an end: a socket dead after sleep, an agent
\* that hangs.
Stall(k) ==
  /\ Trouble
  /\ k \in held \ mute /\ conn[k] \in {"asked", "served"}
  /\ mute' = mute \cup {k}
  /\ UNCHANGED <<agent, conn, pipe, asked, consumer, sink, overlaps>>

-----------------------------------------------------------------------------
(* The consumer. *)

\* Some calls of connect() let go of their connections, others open new ones.
Move(drop, open, last) ==
  /\ held' = (held \ drop) \cup open
  /\ conn' = [k \in Chains |-> IF k \in open THEN "asked"
                               ELSE IF k \in drop /\ conn[k] = "ended" THEN "none" ELSE conn[k]]
  /\ pipe' = [k \in Chains |-> IF k \in drop \cup open THEN <<>> ELSE pipe[k]]
  /\ asked' = [k \in Chains |-> IF k \in open THEN last ELSE asked[k]]
  /\ mute' = mute \ drop

Owned == IF current = None THEN {} ELSE {current}

\* Mutant of Returns: a stream that ends is not reconnected when no error is seen.
Returns_Forgets(k) ==
  /\ Move({k}, {}, None)
  /\ current' = IF current = k THEN None ELSE current
  /\ timer' = (timer \/ (running /\ pipe[k] # <<>>))
  /\ UNCHANGED <<running, lastId>>

\* The end of connect(): finally, and scheduleReconnect().
Returns(k) ==
  /\ Move({k}, {}, None)
  /\ current' = IF current = k THEN None ELSE current
  /\ timer' = (timer \/ running)
  /\ UNCHANGED <<running, lastId>>

\* readStream() and handleFrame(): the frame is handed on whoever owns this.abort
\* and whether or not the consumer is running.
Read(k) ==
  /\ k \in held \ mute /\ conn[k] \in {"served", "ended"} /\ pipe[k] # <<>>
  /\ lastId' = Head(pipe[k]).id /\ sink' = Head(pipe[k])
  /\ pipe' = [pipe EXCEPT ![k] = Tail(@)]
  /\ UNCHANGED <<agent, conn, asked, mute, held, current, running, timer, overlaps, troubles>>

\* The stream is over, or was refused.
End(k) ==
  /\ k \in held \ mute /\ conn[k] = "ended" /\ pipe[k] = <<>>
  /\ Returns(k)
  /\ UNCHANGED <<agent, sink, overlaps, troubles>>

\* The fetch or the read fails.
Break(k) ==
  /\ Trouble
  /\ k \in held /\ conn[k] \in {"asked", "served"}
  /\ Returns(k)
  /\ UNCHANGED <<agent, sink, overlaps>>

\* checkStaleness() on a connection without heartbeats: abort, and the catch.
Stale ==
  /\ running /\ current # None /\ current \in mute
  /\ Returns(current)
  /\ UNCHANGED <<agent, sink, overlaps, troubles>>

\* The reconnect timer; without an endpoint connect() only arms it again.
TimerFires ==
  /\ timer /\ up /\ Free # {}
  /\ Move({}, {Slot}, lastId)
  /\ current' = Slot /\ timer' = FALSE
  /\ UNCHANGED <<agent, running, lastId, sink, overlaps, troubles>>

\* stop() and start() in one callback.  start() connects, or arms the timer for
\* want of an endpoint; then the aborted connect() goes on, finds the consumer
\* running, and schedules a reconnect of its own.
Restart(open) ==
  /\ Move(Owned, open, None)
  /\ current' = IF open = {} THEN None ELSE Slot
  /\ timer' = (open = {} \/ current # None)
  /\ running' = TRUE /\ lastId' = None
  /\ overlaps' = IF current # None THEN overlaps + 1 ELSE overlaps

\* onResume.
Resume ==
  /\ Trouble
  /\ up => Free # {}
  /\ Restart(IF up THEN {Slot} ELSE {})
  /\ UNCHANGED <<agent, sink>>

\* An agent has shaken hands: onAgentStateChange of "running".
NewRun ==
  /\ ~up /\ Free # {}
  /\ up' = TRUE /\ run' = run + 1 /\ published' = <<>>
  /\ Restart({Slot})
  /\ UNCHANGED <<sink, troubles>>

\* stopServices(): stop().
Quit ==
  /\ running /\ running' = FALSE
  /\ Move(Owned, {}, None)
  /\ current' = None /\ timer' = FALSE
  /\ UNCHANGED <<agent, lastId, sink, overlaps, troubles>>

Next ==
  \/ \E kind \in Kinds : Publish(kind)
  \/ \E k \in Chains : \/ Accept(k) \/ Reap(k) \/ Stall(k)
                       \/ Read(k) \/ End(k) \/ Break(k)
  \/ Die \/ Stale \/ TimerFires \/ Resume \/ NewRun \/ Quit

\* The agent answers and notices closed sockets, Main reads what has come in and
\* its timers fire.  Faults, events and the agent's life get no fairness.
Fairness ==
  /\ \A k \in Chains : /\ WF_vars(Accept(k)) /\ WF_vars(Reap(k))
                       /\ WF_vars(Read(k)) /\ WF_vars(End(k))
  /\ WF_vars(Stale) /\ WF_vars(TimerFires)

SafeSpec == Init /\ [][Next]_vars
Spec == SafeSpec /\ Fairness

-----------------------------------------------------------------------------
(* Safety. *)

OnlyLogs(from, to) == \A i \in from .. to : published[i] = "log"

\* While it runs the consumer owns a connection or waits for its timer: no path
\* through connect(), an abort or a stop leaves it with neither, and a stopped one
\* has neither.
NeverStuck ==
  /\ current # None => current \in held
  /\ IF running THEN timer \/ current # None ELSE ~timer /\ current = None

\* One call of connect() or one timer at a time, and one more for each start()
\* that overtook an aborted connection.
OneStream ==
  Cardinality(held) + (IF timer THEN 1 ELSE 0) <= overlaps + (IF running THEN 1 ELSE 0)

\* A slow connection loses log batches and nothing else: from the oldest frame
\* that waits, no other event of the run is missing (deliver, replayAfter).
BackpressureSparesEvents ==
  \A k \in held : conn[k] = "served" /\ pipe[k] # <<>> =>
    \A i \in pipe[k][1].id + 1 .. Len(published) :
      published[i] = "event" => \E j \in 1 .. Len(pipe[k]) : pipe[k][j].id = i

\* Between one start() and the next, events reach Main in the order of their ids,
\* once, and with nothing but log batches left out, or after a stream.reset:
\* across broken connections, replays, slow reads and silent sockets.
InOrder ==
  [][overlaps = 0 /\ sink' # sink /\ lastId # None /\ sink'.kind # "reset" =>
       sink'.id > lastId /\ OnlyLogs(lastId + 1, sink'.id - 1)]_vars

\* The id a reconnect resumes from was issued by the agent it connects to (start
\* drops it on every new agent).
ResumesOwnRun == overlaps = 0 /\ up /\ lastId # None => sink.run = run

\* After stop() nothing more is handed to the sink.
QuietWhenStopped == [][overlaps = 0 /\ ~running => sink' = sink]_vars

\* The consumer is always driven by exactly one thing, a connection or a timer,
\* but for the streams that an overtaken abort leaves behind.
OneDriver == NeverStuck /\ OneStream

\* What the sink is handed: the events of the run connected to, in order and
\* without a silent gap, nothing after a stop(), and of what waits for a slow
\* reader every event that is not a log batch.
HandedOn == InOrder /\ QuietWhenStopped /\ []ResumesOwnRun /\ []BackpressureSparesEvents

-----------------------------------------------------------------------------
(* Liveness. *)

UpToDate == sink # None /\ sink.run = run /\ OnlyLogs(sink.id + 1, Len(published))

\* While agent and consumer stay up, Main catches up with the events, whatever
\* broke or fell silent before.  (Two parallel streams may go on cutting each
\* other by their announcements while both are slow.)
CatchesUp == <>[](up /\ running /\ overlaps = 0) => <>[]UpToDate

-----------------------------------------------------------------------------
(* What the repository says and the code does not do. *)

\* "Main should hold exactly 1" connection (PDD), so that a transition is handed on
\* "exactly once" (notifications.ts): ids of a run only go up.
HandedOnce ==
  [][sink # None /\ sink' # sink /\ sink'.kind # "reset" /\ sink'.run = sink.run =>
       sink'.id > sink.id]_vars
=============================================================================
