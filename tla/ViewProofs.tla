------------------------------- MODULE ViewProofs -------------------------------
(***************************************************************************)
(* Theorems about Tray and Renderer, which both EXTEND AgentFeed: for any  *)
(* monitors, any number of requests under way, of agents and of changes,   *)
(* and for rings of any size.                                              *)
(***************************************************************************)
EXTENDS Tray, Renderer, FiniteSetTheorems, WellFoundedInduction, TLAPS

-----------------------------------------------------------------------------
(* The feed. *)

States == {"none", "unknown", "healthy", "unhealthy"}
AgentKinds == {"ready", "stopping", "reset"}
LogKinds == {"line", "rotated", "deleted", "truncated", "error"}

AgentEvents == [kind : AgentKinds, id : {<<Log, 0>>}, n : {0}]
ResultEvents == [kind : MonitorEvents, id : Id, n : {0}]
WatchEvents == [kind : LogKinds, id : {Log} \X (1 .. MaxChanges), n : Nat]
Events == AgentEvents \cup ResultEvents \cup WatchEvents

Requests == [at : {"free", "sent", "answered"}, list : [Id -> States]]

\* An event of a watch is of one opened already.
OfOpened(e, w) == e.id[1] = Log => e.id[2] <= w

FeedTyped ==
  /\ status \in {"starting", "running", "stopping", "down", "failed"}
  /\ run \in 0 .. MaxRuns /\ changes \in 0 .. MaxChanges
  /\ watch \in 0 .. changes /\ lines \in 0 .. changes
  /\ serves \in [Monitors -> States] /\ log \in {"none", "fine", "failing"}
  /\ stream \in Seq(Events) /\ \A i \in DOMAIN stream : OfOpened(stream[i], watch)
  /\ Up => run > 0
  /\ log # "none" => Up /\ watch > 0

Asking == asks \in [Slots -> Requests]

\* What a second stream may hand on again is an event, of a watch opened already.
Echoing ==
  /\ \A e \in echoes : e \in Events /\ OfOpened(e, watch)
  /\ run = 0 => echoes = {}

LEMMA Numbers == MaxRuns \in Nat /\ MaxChanges \in Nat /\ Log \notin Monitors
BY FeedAssumption DEF Log

LEMMA NothingType == Nothing \in [Id -> States] /\ Free \in Requests
BY DEF Nothing, Free, Requests, States

LEMMA ListedType ==
  ASSUME FeedTyped
  PROVE  Listed \in [Id -> States]
BY DEF FeedTyped, Listed, Id, States

\* The events of the agent itself and of its watch name no monitor.
LEMMA EventShape ==
  ASSUME NEW e \in Events
  PROVE  /\ e.kind \in MonitorEvents => e.id \in Id
         /\ e.kind \notin MonitorEvents => e.id \notin Id
         /\ e.kind \in AgentKinds => e.id = <<Log, 0>>
         /\ e.kind \in LogKinds =>
              e.id[1] = Log /\ e.id[2] \in 1 .. MaxChanges /\ e.id = <<Log, e.id[2]>> /\ e.n \in Nat
         /\ e.kind \in AgentKinds \cup MonitorEvents \cup LogKinds
<1>1. CASE e \in AgentEvents
  BY <1>1, Numbers DEF AgentEvents, AgentKinds, MonitorEvents, LogKinds, Id
<1>2. CASE e \in ResultEvents
  BY <1>2 DEF ResultEvents, AgentKinds, MonitorEvents, LogKinds
<1>3. CASE e \in WatchEvents
  <2>1. PICK w \in 1 .. MaxChanges : e.id = <<Log, w>>
    BY <1>3 DEF WatchEvents
  <2>2. e.kind \in LogKinds /\ e.n \in Nat
    BY <1>3 DEF WatchEvents
  <2> QED BY <2>1, <2>2, Numbers DEF AgentKinds, MonitorEvents, LogKinds, Id
<1> QED BY <1>1, <1>2, <1>3 DEF Events

LEMMA AgentEvent ==
  ASSUME NEW kind \in AgentKinds, NEW w \in Nat
  PROVE  OfAgent(kind) \in Events /\ OfOpened(OfAgent(kind), w)
BY DEF OfAgent, Event, Events, AgentEvents, OfOpened

LEMMA ReadyEvent ==
  ASSUME NEW w \in Nat
  PROVE  Ready \in Events /\ OfOpened(Ready, w)
BY AgentEvent DEF Ready, AgentKinds

LEMMA ResultEvent ==
  ASSUME FeedTyped, Up, NEW m \in Monitors, NEW kind \in MonitorEvents
  PROVE  /\ OfMonitor(kind, m) \in Events /\ OfOpened(OfMonitor(kind, m), watch)
         /\ <<m, run>> \in Id
<1>1. run \in 1 .. MaxRuns
  BY Numbers DEF FeedTyped
<1>2. <<m, run>> \in Id /\ m # Log
  BY <1>1, Numbers DEF Id
<1> QED BY <1>2 DEF OfMonitor, Event, Events, ResultEvents, OfOpened

LEMMA WatchEvent ==
  ASSUME FeedTyped, log # "none", NEW kind \in LogKinds, NEW n \in Nat
  PROVE  OfWatch(kind, n) \in Events /\ OfOpened(OfWatch(kind, n), watch)
<1>1. watch \in 1 .. MaxChanges
  BY Numbers DEF FeedTyped
<1> QED BY <1>1 DEF OfWatch, Event, Events, WatchEvents, OfOpened

LEMMA OpenedLater ==
  ASSUME NEW e \in Events, NEW w \in Nat, OfOpened(e, w)
  PROVE  OfOpened(e, w + 1)
<1>1. e.id[1] = Log => e.id[2] \in Nat
  <2>1. e.kind \in MonitorEvents => e.id[1] # Log
    BY EventShape, Numbers DEF Id
  <2>2. e.kind \in AgentKinds => e.id[2] \in Nat
    BY EventShape
  <2>3. e.kind \in LogKinds => e.id[2] \in Nat
    BY EventShape, Numbers
  <2> QED BY <2>1, <2>2, <2>3, EventShape
<1> QED BY <1>1 DEF OfOpened

LEMMA EventSubject ==
  ASSUME NEW e \in Events
  PROVE  e.id \in Subjects
<1>1. CASE e.kind \in MonitorEvents
  BY <1>1, EventShape DEF Id, Subjects
<1>2. CASE e.kind \in AgentKinds
  BY <1>2, EventShape, Numbers DEF Subjects
<1>3. CASE e.kind \in LogKinds
  <2>1. PICK w \in 1 .. MaxChanges : e.id = <<Log, w>>
    BY <1>3, EventShape
  <2>2. w \in 0 .. MaxChanges
    BY Numbers
  <2> QED BY <2>1, <2>2 DEF Subjects
<1> QED BY <1>1, <1>2, <1>3, EventShape

\* One more event, or one less.
LEMMA AppendTyped ==
  ASSUME NEW s \in Seq(Events), NEW e \in Events, NEW w \in Nat, OfOpened(e, w),
         \A i \in DOMAIN s : OfOpened(s[i], w)
  PROVE  /\ Append(s, e) \in Seq(Events)
         /\ \A i \in DOMAIN Append(s, e) : OfOpened(Append(s, e)[i], w)
BY DEF OfOpened

LEMMA TailTyped ==
  ASSUME NEW s \in Seq(Events), s # <<>>
  PROVE  /\ s[1] \in Events /\ Tail(s) \in Seq(Events) /\ Len(Tail(s)) = Len(s) - 1
         /\ \A i \in DOMAIN Tail(s) : i + 1 \in DOMAIN s /\ Tail(s)[i] = s[i + 1]
OBVIOUS

LEMMA Removal ==
  ASSUME NEW s \in Seq(Events), NEW at \in DOMAIN s
  PROVE  LET r == Seqs!RemoveAt(s, at)
         IN  /\ r \in Seq(Events) /\ Len(r) = Len(s) - 1
             /\ \A i \in 1 .. Len(s) - 1 : r[i] = IF i < at THEN s[i] ELSE s[i + 1]
<1> DEFINE a == SubSeq(s, 1, at - 1)
           b == SubSeq(s, at + 1, Len(s))
<1>1. a \in Seq(Events) /\ Len(a) = at - 1 /\ \A i \in 1 .. at - 1 : a[i] = s[i]
  OBVIOUS
<1>2. b \in Seq(Events) /\ Len(b) = Len(s) - at /\ \A i \in 1 .. Len(s) - at : b[i] = s[at + i]
  OBVIOUS
<1>3. Seqs!RemoveAt(s, at) = a \o b
  BY DEF Seqs!RemoveAt
<1> HIDE DEF a, b
<1>4. a \o b \in Seq(Events) /\ Len(a \o b) = Len(s) - 1
  BY <1>1, <1>2
<1>5. ASSUME NEW i \in 1 .. Len(s) - 1
      PROVE  (a \o b)[i] = IF i < at THEN s[i] ELSE s[i + 1]
  <2>1. CASE i < at
    BY <1>1, <1>2, <2>1
  <2>2. CASE i >= at
    <3>1. PICK k \in 1 .. Len(s) - at : k = i - (at - 1) /\ at + k = i + 1
      BY <2>2
    <3>2. (a \o b)[i] = b[k]
      BY <1>1, <1>2, <2>2, <3>1
    <3>3. b[k] = s[at + k]
      BY <1>2
    <3>4. s[at + k] = s[i + 1]
      BY <3>1
    <3> QED BY <2>2, <3>2, <3>3, <3>4
  <2>3. i < at \/ i >= at
    OBVIOUS
  <2> QED BY <2>1, <2>2, <2>3
<1> QED BY <1>3, <1>4, <1>5

\* A shorter stream, or a fresh one.
LEMMA FreshTyped ==
  ASSUME NEW w \in Nat
  PROVE  /\ <<Ready>> \in Seq(Events) /\ \A i \in DOMAIN <<Ready>> : OfOpened(<<Ready>>[i], w)
         /\ <<OfAgent("reset"), Ready>> \in Seq(Events)
         /\ \A i \in DOMAIN <<OfAgent("reset"), Ready>> : OfOpened(<<OfAgent("reset"), Ready>>[i], w)
<1>1. OfAgent("reset") \in Events /\ OfOpened(OfAgent("reset"), w)
  BY AgentEvent DEF AgentKinds
<1> QED BY <1>1, ReadyEvent

-----------------------------------------------------------------------------
(* What the feed's actions keep. *)

LEMMA LifeKeeps ==
  ASSUME FeedTyped
  PROVE  /\ Start /\ UNCHANGED changes => FeedTyped' /\ run' = run + 1 /\ serves' = None
         /\ Sigterm => FeedTyped'
         /\ Exit => FeedTyped'
         /\ Retry => FeedTyped'
<1>1. ASSUME Start, UNCHANGED changes PROVE FeedTyped' /\ run' = run + 1 /\ serves' = None
  <2>1. None \in [Monitors -> States]
    BY DEF None, States
  <2>2. watch \in Nat
    BY Numbers DEF FeedTyped
  <2>3. stream' \in Seq(Events) /\ \A i \in DOMAIN stream' : OfOpened(stream'[i], watch)
    BY <1>1, <2>2, FreshTyped DEF Start
  <2>4. run' \in 0 .. MaxRuns /\ run' > 0
    BY <1>1, Numbers DEF FeedTyped, Start
  <2> QED BY <1>1, <2>1, <2>3, <2>4 DEF FeedTyped, Start, Up
<1>2. ASSUME Sigterm PROVE FeedTyped'
  <2>1. watch \in Nat
    BY Numbers DEF FeedTyped
  <2>2. OfAgent("stopping") \in Events /\ OfOpened(OfAgent("stopping"), watch)
    BY <2>1, AgentEvent DEF AgentKinds
  <2>3. stream' \in Seq(Events) /\ \A i \in DOMAIN stream' : OfOpened(stream'[i], watch)
    BY <1>2, <2>1, <2>2, AppendTyped DEF FeedTyped, Sigterm, Publish
  <2>4. changes' \in 0 .. MaxChanges /\ watch \in 0 .. changes' /\ lines \in 0 .. changes'
    BY <1>2, Numbers DEF FeedTyped, Sigterm, Change
  <2> QED BY <1>2, <2>3, <2>4 DEF FeedTyped, Sigterm, Up
<1>3. ASSUME Exit PROVE FeedTyped'
  <2>1. None \in [Monitors -> States]
    BY DEF None, States
  <2>2. changes' \in 0 .. MaxChanges /\ watch \in 0 .. changes' /\ lines \in 0 .. changes'
    BY <1>3, Numbers DEF FeedTyped, Exit, Up
  <2> QED BY <1>3, <2>1, <2>2 DEF FeedTyped, Exit, Up
<1>4. ASSUME Retry PROVE FeedTyped'
  <2>1. changes' \in 0 .. MaxChanges /\ watch \in 0 .. changes' /\ lines \in 0 .. changes'
    BY <1>4, Numbers DEF FeedTyped, Retry
  <2> QED BY <1>4, <2>1 DEF FeedTyped, Retry, Up
<1> QED BY <1>1, <1>2, <1>3, <1>4

LEMMA SteadyKeeps ==
  ASSUME FeedTyped, Steady,
         serves' \in [Monitors -> States], log' \in {"none", "fine", "failing"},
         watch' \in watch .. watch + 1, lines' \in 0 .. lines + 1,
         log' # "none" => watch' > 0,
         stream' \in Seq(Events), \A i \in DOMAIN stream' : OfOpened(stream'[i], watch')
  PROVE  FeedTyped'
<1>1. changes' = changes + 1 /\ changes' \in 0 .. MaxChanges /\ watch' \in 0 .. changes' /\ lines' \in 0 .. changes'
  BY Numbers DEF FeedTyped, Steady, Change
<1>2. status = "running" /\ status' = status /\ run' = run
  BY DEF Steady
<1> QED BY <1>1, <1>2 DEF FeedTyped, Up

\* A monitor and, when it turned, the event that says so.
LEMMA MonitorKeeps ==
  ASSUME FeedTyped, NEW m \in Monitors, Add(m) \/ Remove(m) \/ Edit(m) \/ Turn(m)
  PROVE  /\ FeedTyped'
         /\ \/ UNCHANGED stream
            \/ \E kind \in MonitorEvents : Turn(m) /\ stream' = Append(stream, OfMonitor(kind, m))
         /\ UNCHANGED <<status, run, log, watch, lines, asks>>
<1>1. Steady /\ UNCHANGED <<status, run, log, watch, lines, asks>>
  BY DEF Add, Remove, Edit, Turn, Becomes, Steady
<1>2. serves' \in [Monitors -> States]
  <2>1. \E s \in States : serves' = [serves EXCEPT ![m] = s]
    BY DEF Add, Remove, Edit, Turn, Becomes, States, FeedTyped
  <2> QED BY <2>1 DEF FeedTyped
<1>3. \/ UNCHANGED stream
      \/ \E kind \in MonitorEvents : Turn(m) /\ stream' = Append(stream, OfMonitor(kind, m))
  BY DEF Add, Remove, Edit, Turn, NoEvent, Publish, MonitorEvents
<1>4. watch \in Nat /\ lines \in Nat /\ Up
  BY <1>1, Numbers DEF FeedTyped, Steady, Up
<1>5. stream' \in Seq(Events) /\ \A i \in DOMAIN stream' : OfOpened(stream'[i], watch)
  <2>1. CASE UNCHANGED stream
    BY <2>1 DEF FeedTyped
  <2>2. ASSUME NEW kind \in MonitorEvents, stream' = Append(stream, OfMonitor(kind, m))
        PROVE  stream' \in Seq(Events) /\ \A i \in DOMAIN stream' : OfOpened(stream'[i], watch)
    <3>1. OfMonitor(kind, m) \in Events /\ OfOpened(OfMonitor(kind, m), watch)
      BY <1>4, ResultEvent
    <3> QED BY <1>4, <2>2, <3>1, AppendTyped DEF FeedTyped
  <2> QED BY <1>3, <2>1, <2>2
<1>6. FeedTyped'
  BY <1>1, <1>2, <1>4, <1>5, SteadyKeeps DEF FeedTyped
<1> QED BY <1>1, <1>3, <1>6

LEMMA WatchKeeps ==
  ASSUME FeedTyped, Watch \/ Unwatch
  PROVE  /\ FeedTyped' /\ UNCHANGED <<stream, asks, status, run, serves>>
         /\ Watch => watch' = watch + 1 /\ watch' > 0 /\ log' = "fine" /\ log = "none"
         /\ Unwatch => UNCHANGED watch /\ log' = "none"
<1>1. watch \in Nat /\ lines \in Nat
  BY Numbers DEF FeedTyped
<1>2. CASE Watch
  <2>1. \A i \in DOMAIN stream : OfOpened(stream[i], watch + 1)
    <3> SUFFICES ASSUME NEW i \in DOMAIN stream PROVE OfOpened(stream[i], watch + 1)
      OBVIOUS
    <3>1. stream[i] \in Events /\ OfOpened(stream[i], watch)
      BY DEF FeedTyped
    <3> QED BY <1>1, <3>1, OpenedLater
  <2>2. FeedTyped'
    BY <1>1, <1>2, <2>1, SteadyKeeps DEF Watch, NoEvent, FeedTyped
  <2> QED BY <1>1, <1>2, <2>2 DEF Watch, NoEvent, Steady, Unwatch
<1>3. CASE Unwatch
  <2>1. FeedTyped'
    BY <1>1, <1>3, SteadyKeeps DEF Unwatch, NoEvent, FeedTyped
  <2> QED BY <1>3, <2>1 DEF Unwatch, NoEvent, Steady, Watch
<1> QED BY <1>2, <1>3

LEMMA LogKeeps ==
  ASSUME FeedTyped, LogEvent
  PROVE  /\ FeedTyped' /\ UNCHANGED <<asks, status, run, serves, watch>>
         /\ log # "none" /\ log' # "none"
         /\ \E kind \in LogKinds :
              /\ stream' = Append(stream, OfWatch(kind, IF kind = "line" THEN lines + 1 ELSE 0))
              /\ lines' = (IF kind = "line" THEN lines + 1 ELSE lines)
              /\ log' = CASE kind = "error" -> "failing" [] kind = "truncated" -> log
                          [] OTHER -> "fine"
<1>1. watch \in Nat /\ lines \in Nat
  BY Numbers DEF FeedTyped
<1>2. PICK kind \in LogKinds :
        /\ stream' = Append(stream, OfWatch(kind, IF kind = "line" THEN lines + 1 ELSE 0))
        /\ lines' = (IF kind = "line" THEN lines + 1 ELSE lines)
        /\ log' = CASE kind = "error" -> "failing" [] kind = "truncated" -> log
                    [] OTHER -> "fine"
  BY DEF LogEvent, LogKinds, Publish
<1>3. Steady /\ log # "none" /\ UNCHANGED <<serves, watch, asks, status, run>>
  BY DEF LogEvent, Steady
<1>4. log' \in {"fine", "failing"}
  BY <1>2, <1>3 DEF FeedTyped, LogKinds
<1>5. (IF kind = "line" THEN lines + 1 ELSE 0) \in Nat
  BY <1>1
<1>6. stream' \in Seq(Events) /\ \A i \in DOMAIN stream' : OfOpened(stream'[i], watch)
  BY <1>1, <1>2, <1>3, <1>5, WatchEvent, AppendTyped DEF FeedTyped
<1>7. FeedTyped'
  BY <1>1, <1>2, <1>3, <1>4, <1>6, SteadyKeeps DEF FeedTyped
<1> QED BY <1>2, <1>3, <1>4, <1>7

\* Whoever steers the stream leaves the agent alone.
LEMMA StreamTyped ==
  ASSUME FeedTyped, UNCHANGED <<run, serves, log, watch, lines>>,
         status' \in {"starting", "running", "stopping", "down", "failed"}, Up' <=> Up,
         changes' = changes \/ Change,
         stream' \in Seq(Events), \A i \in DOMAIN stream' : OfOpened(stream'[i], watch)
  PROVE  FeedTyped'
<1>1. changes' \in 0 .. MaxChanges /\ watch' \in 0 .. changes' /\ lines' \in 0 .. changes'
  BY Numbers DEF FeedTyped, Change
<1> QED BY <1>1 DEF FeedTyped

LEMMA SteersKeeps ==
  ASSUME FeedTyped, Reconnect \/ Overrun \/ Rewind \/ Shed
  PROVE  FeedTyped' /\ UNCHANGED <<status, run, serves, log, watch, lines, asks>> /\ Change
<1>1. /\ Change /\ UNCHANGED <<status, run, serves, log, watch, lines, asks>>
  BY DEF Reconnect, Overrun, Rewind, Shed, Steers
<1>2. watch \in Nat
  BY Numbers DEF FeedTyped
<1>3. stream' \in Seq(Events) /\ \A i \in DOMAIN stream' : OfOpened(stream'[i], watch)
  <2>1. CASE Reconnect
    BY <1>2, <2>1, ReadyEvent, AppendTyped DEF Reconnect, Publish, FeedTyped
  <2>2. CASE Overrun
    BY <1>2, <2>2, FreshTyped DEF Overrun
  <2>3. CASE Rewind
    BY <1>2, <2>3, FreshTyped DEF Rewind, Reattach
  <2>4. CASE Shed
    <3>1. PICK at \in DOMAIN stream : stream' = Seqs!RemoveAt(stream, at)
      BY <2>4 DEF Shed
    <3>2. /\ stream \in Seq(Events) /\ stream' \in Seq(Events) /\ Len(stream') = Len(stream) - 1
          /\ \A i \in 1 .. Len(stream) - 1 : stream'[i] = IF i < at THEN stream[i] ELSE stream[i + 1]
      BY <3>1, Removal DEF FeedTyped
    <3>3. ASSUME NEW i \in DOMAIN stream' PROVE OfOpened(stream'[i], watch)
      <4>1. i \in 1 .. Len(stream) - 1 /\ i \in DOMAIN stream /\ i + 1 \in DOMAIN stream
        BY <3>2
      <4>2. stream'[i] = stream[i] \/ stream'[i] = stream[i + 1]
        BY <3>2, <4>1
      <4> QED BY <4>1, <4>2 DEF FeedTyped
    <3> QED BY <3>2, <3>3
  <2> QED BY <2>1, <2>2, <2>3, <2>4
<1>4. FeedTyped'
  BY <1>1, <1>3, StreamTyped DEF FeedTyped, Up
<1> QED BY <1>1, <1>4

LEMMA ReadKeeps ==
  ASSUME FeedTyped, (Read /\ stream # <<>>) \/ Cut
  PROVE  FeedTyped'
<1>1. UNCHANGED <<status, run, serves, log, watch, lines, asks, changes>>
  BY DEF Read, Cut
<1>2. stream' \in Seq(Events) /\ \A i \in DOMAIN stream' : OfOpened(stream'[i], watch)
  <2>1. CASE Cut
    BY <2>1 DEF Cut
  <2>2. CASE Read /\ stream # <<>>
    BY <2>2, TailTyped DEF Read, FeedTyped
  <2> QED BY <2>1, <2>2
<1> QED BY <1>1, <1>2, StreamTyped DEF FeedTyped, Up

\* What comes again changes nothing of the agent, nor of the stream.
LEMMA AgainKeeps ==
  ASSUME FeedTyped, NEW e, ReadAgain(e)
  PROVE  /\ FeedTyped' /\ UNCHANGED <<status, run, serves, log, watch, lines, stream, asks>>
         /\ e \in echoes
<1>1. /\ Change /\ UNCHANGED <<status, run, serves, log, watch, lines, stream, asks>>
      /\ e \in echoes
  BY DEF ReadAgain, Steers, NoEvent
<1>2. FeedTyped'
  BY <1>1, StreamTyped DEF FeedTyped, Up
<1> QED BY <1>1, <1>2

-----------------------------------------------------------------------------
(* The second stream. *)

LEMMA EchoesKept ==
  ASSUME FeedTyped, Echoing, watch' \in {watch, watch + 1},
         run' = 0 => run = 0 /\ echoes' \subseteq echoes,
         \A e \in echoes' : e \in echoes \/ (e \in Events /\ OfOpened(e, watch))
  PROVE  Echoing'
<1>1. watch \in Nat
  BY Numbers DEF FeedTyped
<1>2. ASSUME NEW e \in echoes' PROVE e \in Events /\ OfOpened(e, watch')
  <2>1. e \in Events /\ OfOpened(e, watch)
    BY DEF Echoing
  <2> QED BY <1>1, <2>1, OpenedLater
<1> QED BY <1>2 DEF Echoing

\* An event that is published comes again at most as it is.
LEMMA PublishEchoes ==
  ASSUME FeedTyped, Echoing, Up, UNCHANGED <<run, watch>>,
         NEW e \in Events, OfOpened(e, watch), Publish(e)
  PROVE  Echoing'
<1>1. run' # 0
  BY DEF FeedTyped
<1>2. echoes' \subseteq echoes \cup {e}
  BY DEF Publish, Echo
<1> QED BY <1>1, <1>2, EchoesKept

LEMMA ReattachEchoes ==
  ASSUME FeedTyped, Echoing, Up, UNCHANGED <<run, watch>>, Reattach
  PROVE  Echoing'
<1>1. run' # 0 /\ watch \in Nat
  BY Numbers DEF FeedTyped
<1>2. echoes' \subseteq echoes \cup {Ready}
  BY DEF Reattach, Echo
<1> QED BY <1>1, <1>2, ReadyEvent, EchoesKept

LEMMA LifeEchoes ==
  ASSUME FeedTyped, Echoing, Start \/ Sigterm \/ Exit \/ Retry
  PROVE  Echoing'
<1>1. watch \in Nat /\ run \in Nat
  BY Numbers DEF FeedTyped
<1>2. CASE Start
  <2>1. run' # 0 /\ watch' = watch /\ echoes' \subseteq {Ready}
    BY <1>1, <1>2 DEF Start
  <2> QED BY <1>1, <2>1, ReadyEvent, EchoesKept
<1>3. CASE Sigterm
  <2>1. OfAgent("stopping") \in Events /\ OfOpened(OfAgent("stopping"), watch)
    BY <1>1, AgentEvent DEF AgentKinds
  <2> QED BY <1>3, <2>1, PublishEchoes DEF Sigterm, Up
<1>4. CASE Exit \/ Retry
  BY <1>4 DEF Exit, Retry, Echoing
<1> QED BY <1>2, <1>3, <1>4

LEMMA SteadyEchoes ==
  ASSUME FeedTyped, Echoing,
         \/ \E m \in Monitors : Add(m) \/ Remove(m) \/ Edit(m) \/ Turn(m)
         \/ Watch \/ Unwatch \/ LogEvent
  PROVE  Echoing'
<1>1. watch \in Nat /\ lines \in Nat
  BY Numbers DEF FeedTyped
<1>2. ASSUME NEW m \in Monitors, Add(m) \/ Remove(m) \/ Edit(m) PROVE Echoing'
  BY <1>2 DEF Add, Remove, Edit, Steady, Becomes, NoEvent, Echoing
<1>3. ASSUME NEW m \in Monitors, Turn(m) PROVE Echoing'
  <2>1. PICK kind \in MonitorEvents : Publish(OfMonitor(kind, m))
    BY <1>3 DEF Turn, MonitorEvents
  <2>2. Up /\ UNCHANGED <<run, watch>>
    BY <1>3 DEF Turn, Steady, Becomes, Up
  <2> QED BY <2>1, <2>2, ResultEvent, PublishEchoes
<1>4. CASE Watch \/ Unwatch
  <2>1. UNCHANGED <<run, echoes>> /\ watch' \in {watch, watch + 1}
    BY <1>4 DEF Watch, Unwatch, Steady, NoEvent
  <2> QED BY <2>1, EchoesKept
<1>5. CASE LogEvent
  <2>1. PICK kind \in LogKinds, n \in Nat : Publish(OfWatch(kind, n))
    <3>1. lines + 1 \in Nat
      BY <1>1
    <3> QED BY <1>5, <3>1 DEF LogEvent, LogKinds
  <2>2. Up /\ UNCHANGED <<run, watch>> /\ log # "none"
    BY <1>5 DEF LogEvent, Steady, Up
  <2> QED BY <2>1, <2>2, WatchEvent, PublishEchoes
<1> QED BY <1>2, <1>3, <1>4, <1>5

LEMMA StreamEchoes ==
  ASSUME FeedTyped, Echoing,
         \/ Reconnect \/ Overrun \/ Rewind \/ Shed \/ Cut \/ Read
         \/ \E e \in echoes : ReadAgain(e)
         \/ \E s \in Slots : Answer(s) \/ Fail(s)
  PROVE  Echoing'
<1>1. watch \in Nat
  BY Numbers DEF FeedTyped
<1>2. CASE Reconnect
  BY <1>1, <1>2, ReadyEvent, PublishEchoes DEF Reconnect, Steers, Up
<1>3. CASE Overrun
  <2>1. run' # 0 /\ watch' = watch /\ echoes' \subseteq echoes \cup {OfAgent("reset"), Ready}
    BY <1>3 DEF Overrun, Steers, FeedTyped, Up
  <2>2. OfAgent("reset") \in Events /\ OfOpened(OfAgent("reset"), watch)
    BY <1>1, AgentEvent DEF AgentKinds
  <2> QED BY <1>1, <2>1, <2>2, ReadyEvent, EchoesKept
<1>4. CASE Rewind
  BY <1>4, ReattachEchoes DEF Rewind, Steers, Up
<1>5. CASE Shed \/ Cut \/ Read \/ \E e \in echoes : ReadAgain(e)
  BY <1>5 DEF Shed, Cut, Read, ReadAgain, Steers, NoEvent, Echoing
<1>6. ASSUME NEW s \in Slots, Answer(s) \/ Fail(s) PROVE Echoing'
  BY <1>6 DEF Answer, Fail, Echoing
<1> QED BY <1>2, <1>3, <1>4, <1>5, <1>6

-----------------------------------------------------------------------------
(* The requests for the list. *)

LEMMA AskKeeps ==
  ASSUME Asking, AskList
  PROVE  Asking' /\ \E s \in Slots : asks[s].at = "free" /\ asks'[s].at = "sent"
                      /\ \A x \in Slots \ {s} : asks'[x] = asks[x]
<1>1. PICK s \in Slots : asks[s].at = "free" /\ asks' = [asks EXCEPT ![s] = [@ EXCEPT !.at = "sent"]]
  BY DEF AskList
<1>2. [asks[s] EXCEPT !.at = "sent"] \in Requests /\ [asks[s] EXCEPT !.at = "sent"].at = "sent"
  BY DEF Asking, Requests
<1> QED BY <1>1, <1>2 DEF Asking

LEMMA AnswerKeeps ==
  ASSUME FeedTyped, Asking, NEW s \in Slots, Answer(s)
  PROVE  /\ FeedTyped' /\ Asking' /\ UNCHANGED <<status, run, serves, log, watch, lines, stream, changes>>
         /\ asks[s].at = "sent" /\ asks'[s] = [at |-> "answered", list |-> Listed]
         /\ \A x \in Slots \ {s} : asks'[x] = asks[x]
<1>1. [at |-> "answered", list |-> Listed] \in Requests
  BY ListedType DEF Requests
<1>2. UNCHANGED <<status, run, serves, log, watch, lines, stream, changes>>
  BY DEF Answer
<1>3. FeedTyped'
  BY <1>2, StreamTyped DEF FeedTyped, Up
<1> QED BY <1>1, <1>2, <1>3 DEF Asking, Answer

LEMMA FailKeeps ==
  ASSUME FeedTyped, Asking, NEW s \in Slots, Fail(s)
  PROVE  /\ FeedTyped' /\ Asking' /\ UNCHANGED <<status, run, serves, log, watch, lines, stream>>
         /\ asks'[s].at = "free" /\ \A x \in Slots \ {s} : asks'[x] = asks[x]
<1>1. UNCHANGED <<status, run, serves, log, watch, lines, stream>>
  BY DEF Fail
<1>2. changes' = changes \/ Change
  BY DEF Fail, Change
<1>3. FeedTyped'
  BY <1>1, <1>2, StreamTyped DEF FeedTyped, Up
<1> QED BY <1>1, <1>3, NothingType DEF Asking, Fail, Free

LEMMA ReleaseKeeps ==
  ASSUME Asking, NEW s \in Slots, asks' = [asks EXCEPT ![s] = Free]
  PROVE  Asking' /\ asks'[s].at = "free" /\ \A x \in Slots \ {s} : asks'[x] = asks[x]
BY NothingType DEF Asking, Free

LEMMA FeedInitTyped == FeedInit => FeedTyped /\ Asking
<1> SUFFICES ASSUME FeedInit PROVE FeedTyped /\ Asking
  OBVIOUS
<1>1. 0 \in 0 .. MaxRuns /\ 0 \in 0 .. MaxChanges /\ None \in [Monitors -> States]
  BY Numbers DEF None, States
<1>2. FeedTyped
  BY <1>1 DEF FeedInit, FeedTyped, Up
<1> QED BY <1>2, NothingType DEF FeedInit, Asking

LEMMA FeedTypes == FeedTyped /\ Asking /\ Echoing => FeedTypeOK
<1> SUFFICES ASSUME FeedTyped, Asking, Echoing PROVE FeedTypeOK
  OBVIOUS
<1>1. /\ \A i \in DOMAIN stream : stream[i].id \in Subjects
      /\ \A e \in echoes : e.id \in Subjects
  BY EventSubject DEF FeedTyped, Echoing
<1>2. watch \in 0 .. MaxChanges /\ lines \in 0 .. MaxChanges
  BY Numbers DEF FeedTyped
<1> QED BY <1>1, <1>2 DEF FeedTyped, Asking, Requests, States, FeedTypeOK

-----------------------------------------------------------------------------
(* Tray: types, and the icon that shows whether there is a tray. *)

TrayTyped ==
  /\ FeedTyped /\ Asking
  /\ agentUp \in BOOLEAN /\ monitors \in [Id -> States] /\ erroredWatches \subseteq 1 .. watch
  /\ buffer \in Seq(Kinds) /\ flushHandle \in BOOLEAN
  /\ late \in BOOLEAN /\ missed \in BOOLEAN
  /\ quit \in {"no", "tearing", "gone"} /\ (shown = NoTray <=> quit = "gone")

LEMMA ViewShows ==
  ASSUME NEW up, NEW list, NEW errored
  PROVE  View(up, list, errored) # NoTray
<1>1. View(up, list, errored).icon = TrayHealth(up, list, errored)
  BY DEF View
<1>2. NoTray.icon = "none"
  BY DEF NoTray, View
<1>3. TrayHealth(up, list, errored) # "none"
  BY DEF TrayHealth
<1> QED BY <1>1, <1>2, <1>3

LEMMA PaintKeeps ==
  ASSUME shown = NoTray <=> quit = "gone", UNCHANGED quit,
         NEW up, NEW list, NEW errored, Health(up, list, errored)
  PROVE  /\ agentUp' = up /\ monitors' = list /\ erroredWatches' = errored
         /\ shown' = NoTray <=> quit' = "gone"
BY ViewShows DEF Health, Paint

-----------------------------------------------------------------------------
(* The notifier: every transition heard is told, waits or was dropped. *)

Tally == [Kinds -> Nat]

Accounted ==
  /\ heard \in Tally /\ told \in Tally /\ dropped \in Tally /\ buffer \in Seq(Kinds)
  /\ \A k \in Kinds : heard[k] = told[k] + Count(buffer)[k] + dropped[k]
  /\ flushHandle <=> buffer # <<>>
  /\ burst \in 0 .. Threshold

LEMMA CountType ==
  ASSUME NEW b \in Seq(Kinds), NEW k \in Kinds
  PROVE  IsFiniteSet({i \in DOMAIN b : b[i] = k}) /\ Count(b)[k] \in Nat
<1>1. IsFiniteSet(1 .. Len(b))
  BY FS_Interval
<1>2. {i \in DOMAIN b : b[i] = k} \subseteq 1 .. Len(b)
  OBVIOUS
<1>3. IsFiniteSet({i \in DOMAIN b : b[i] = k})
  BY <1>1, <1>2, FS_Subset
<1> QED BY <1>3, FS_CardinalityType DEF Count

LEMMA CountNone == Count(<<>>) = Zero
<1>1. ASSUME NEW k \in Kinds PROVE Cardinality({i \in DOMAIN <<>> : <<>>[i] = k}) = 0
  <2>1. {i \in DOMAIN <<>> : <<>>[i] = k} = {}
    OBVIOUS
  <2> QED BY <2>1, FS_EmptySet
<1> QED BY <1>1 DEF Count, Zero

LEMMA CountOneMore ==
  ASSUME NEW b \in Seq(Kinds), NEW kind \in Kinds, NEW k \in Kinds
  PROVE  Count(Append(b, kind))[k] = Count(b)[k] + (IF k = kind THEN 1 ELSE 0)
<1> DEFINE Of(x) == {i \in DOMAIN x : x[i] = k}
           n == Len(b) + 1
<1>1. IsFiniteSet(Of(b)) /\ Count(b)[k] \in Nat
  BY CountType
<1>2. DOMAIN Append(b, kind) = DOMAIN b \cup {n} /\ n \notin DOMAIN b
  OBVIOUS
<1>3. Append(b, kind)[n] = kind /\ \A i \in DOMAIN b : Append(b, kind)[i] = b[i]
  OBVIOUS
<1>4. CASE k = kind
  <2>1. Of(Append(b, kind)) = Of(b) \cup {n} /\ n \notin Of(b)
    BY <1>2, <1>3, <1>4
  <2>2. Cardinality(Of(b) \cup {n}) = Cardinality(Of(b)) + 1
    BY <1>1, <2>1, FS_AddElement
  <2> QED BY <1>4, <2>1, <2>2 DEF Count
<1>5. CASE k # kind
  <2>1. Of(Append(b, kind)) = Of(b)
    BY <1>2, <1>3, <1>5
  <2>2. Count(Append(b, kind))[k] = Count(b)[k]
    BY <2>1 DEF Count
  <2>3. PICK c \in Nat : c = Count(b)[k]
    BY <1>1
  <2> QED BY <1>5, <2>2, <2>3
<1> QED BY <1>4, <1>5

\* A transition is heard, or the window closes, or the notifier is disposed.
LEMMA RecordAccounts ==
  ASSUME Accounted, NEW kind \in Kinds, Record(kind)
  PROVE  Accounted'
<1>1. /\ heard' = [heard EXCEPT ![kind] = heard[kind] + 1] /\ buffer' = Append(buffer, kind)
      /\ flushHandle' = TRUE /\ UNCHANGED <<told, dropped, burst>>
  BY DEF Record
<1>2. heard' \in Tally /\ buffer' \in Seq(Kinds) /\ buffer' # <<>>
  BY <1>1 DEF Accounted, Tally
<1>3. ASSUME NEW k \in Kinds PROVE heard'[k] = told[k] + Count(buffer')[k] + dropped[k]
  <2>1. heard'[k] = heard[k] + (IF k = kind THEN 1 ELSE 0)
    BY <1>1 DEF Accounted, Tally
  <2>2. PICK c \in Nat : c = Count(buffer)[k]
    BY CountType DEF Accounted
  <2>3. Count(buffer')[k] = c + (IF k = kind THEN 1 ELSE 0)
    BY <1>1, <2>2, CountOneMore DEF Accounted
  <2>4. heard[k] = told[k] + c + dropped[k] /\ told[k] \in Nat /\ dropped[k] \in Nat
    BY <2>2 DEF Accounted, Tally
  <2> QED BY <2>1, <2>3, <2>4
<1> QED BY <1>1, <1>2, <1>3 DEF Accounted

LEMMA BannersFit ==
  ASSUME NEW b \in Seq(Kinds)
  PROVE  Banners(b) \in 0 .. Threshold
<1>1. Threshold \in Nat /\ Threshold >= 1
  BY TrayAssumption
<1> QED BY <1>1 DEF Banners

\* What waited goes to one side of the account or to the other.
LEMMA ClearAccounts ==
  ASSUME Accounted, buffer' = <<>>, flushHandle' = FALSE, UNCHANGED heard,
         \/ told' = Plus(told, Count(buffer)) /\ UNCHANGED dropped
         \/ dropped' = Plus(dropped, Count(buffer)) /\ UNCHANGED told,
         burst' \in 0 .. Threshold
  PROVE  Accounted'
<1>1. \A k \in Kinds : Count(buffer)[k] \in Nat
  BY CountType DEF Accounted
<1>2. \A k \in Kinds : Count(buffer')[k] = 0
  BY CountNone DEF Zero
<1>3. told' \in Tally /\ dropped' \in Tally
  <2>1. ASSUME NEW f \in Tally PROVE Plus(f, Count(buffer)) \in Tally
    <3>1. \A k \in Kinds : f[k] + Count(buffer)[k] \in Nat
      BY <1>1 DEF Tally
    <3> QED BY <3>1 DEF Plus, Tally
  <2> QED BY <2>1 DEF Accounted
<1>4. ASSUME NEW k \in Kinds PROVE heard'[k] = told'[k] + Count(buffer')[k] + dropped'[k]
  <2>1. PICK c \in Nat : c = Count(buffer)[k]
    BY <1>1
  <2>2. heard[k] = told[k] + c + dropped[k] /\ told[k] \in Nat /\ dropped[k] \in Nat
    BY <2>1 DEF Accounted, Tally
  <2>3. \/ told'[k] = told[k] + c /\ dropped'[k] = dropped[k]
        \/ told'[k] = told[k] /\ dropped'[k] = dropped[k] + c
    BY <2>1 DEF Plus
  <2>4. heard'[k] = heard[k] /\ Count(buffer')[k] = 0
    BY <1>2
  <2> QED BY <2>2, <2>3, <2>4
<1> QED BY <1>3, <1>4 DEF Accounted

-----------------------------------------------------------------------------
(* The watch in error: what the tray counts is what the last event of the  *)
(* watch that it has read, or is yet to read, says.                        *)

Tells(e, w) == e.id = <<Log, w>> /\ e.kind \in {"line", "rotated", "deleted", "error"}

Due(errored, s, w, failing) ==
  /\ (\A i \in DOMAIN s : ~Tells(s[i], w)) => (w \in errored <=> failing)
  /\ \A i \in DOMAIN s :
       Tells(s[i], w) /\ (\A k \in DOMAIN s : i < k => ~Tells(s[k], w))
         => (s[i].kind = "error" <=> failing)

WatchTold == ~missed /\ log # "none" => Due(erroredWatches, stream, watch, log = "failing")

LEMMA DueSilent ==
  ASSUME NEW errored, NEW s \in Seq(Events), NEW w, NEW f \in BOOLEAN, NEW e \in Events,
         ~Tells(e, w), Due(errored, s, w, f)
  PROVE  Due(errored, Append(s, e), w, f)
<1>1. /\ DOMAIN Append(s, e) = 1 .. Len(s) + 1 /\ DOMAIN s = 1 .. Len(s) /\ Len(s) \in Nat
      /\ Append(s, e)[Len(s) + 1] = e /\ \A i \in DOMAIN s : Append(s, e)[i] = s[i]
  OBVIOUS
<1>2. DOMAIN s \subseteq DOMAIN Append(s, e)
  BY <1>1
<1>3. \A i \in DOMAIN Append(s, e) : Tells(Append(s, e)[i], w) => i \in DOMAIN s
  BY <1>1
<1> QED BY <1>1, <1>2, <1>3 DEF Due

LEMMA DueTelling ==
  ASSUME NEW errored, NEW s \in Seq(Events), NEW w, NEW e \in Events, Tells(e, w)
  PROVE  Due(errored, Append(s, e), w, e.kind = "error")
<1>1. /\ DOMAIN Append(s, e) = 1 .. Len(s) + 1 /\ Len(s) \in Nat
      /\ Append(s, e)[Len(s) + 1] = e
  OBVIOUS
<1>2. Len(s) + 1 \in DOMAIN Append(s, e)
  BY <1>1
<1>3. ASSUME NEW i \in DOMAIN Append(s, e),
             \A k \in DOMAIN Append(s, e) : i < k => ~Tells(Append(s, e)[k], w)
      PROVE  Append(s, e)[i].kind = "error" <=> e.kind = "error"
  <2>1. i = Len(s) + 1
    BY <1>1, <1>2, <1>3
  <2> QED BY <1>1, <2>1
<1> QED BY <1>1, <1>2, <1>3 DEF Due

LEMMA DueRead ==
  ASSUME NEW errored, NEW after, NEW s \in Seq(Events), s # <<>>, NEW w, NEW f \in BOOLEAN,
         Due(errored, s, w, f),
         w \in after <=> IF Tells(s[1], w) THEN s[1].kind = "error" ELSE w \in errored
  PROVE  Due(after, Tail(s), w, f)
<1>1. /\ DOMAIN Tail(s) = 1 .. Len(s) - 1 /\ DOMAIN s = 1 .. Len(s) /\ Len(s) \in Nat \ {0}
      /\ \A i \in DOMAIN Tail(s) : Tail(s)[i] = s[i + 1]
  OBVIOUS
<1>2. ASSUME NEW k \in DOMAIN s, k # 1
      PROVE  k - 1 \in DOMAIN Tail(s) /\ Tail(s)[k - 1] = s[k]
  <2>1. PICK j \in DOMAIN Tail(s) : j = k - 1 /\ j + 1 = k
    BY <1>1, <1>2
  <2> QED BY <1>1, <2>1
<1>3. ASSUME \A i \in DOMAIN Tail(s) : ~Tells(Tail(s)[i], w)
      PROVE  w \in after <=> f
  <2>1. \A k \in DOMAIN s : k # 1 => ~Tells(s[k], w)
    BY <1>2, <1>3
  <2>2. 1 \in DOMAIN s /\ \A k \in DOMAIN s : 1 < k => k # 1
    BY <1>1
  <2>3. CASE Tells(s[1], w)
    BY <2>1, <2>2, <2>3 DEF Due
  <2>4. CASE ~Tells(s[1], w)
    BY <2>1, <2>4 DEF Due
  <2> QED BY <2>3, <2>4
<1>4. ASSUME NEW i \in DOMAIN Tail(s), Tells(Tail(s)[i], w),
             \A k \in DOMAIN Tail(s) : i < k => ~Tells(Tail(s)[k], w)
      PROVE  Tail(s)[i].kind = "error" <=> f
  <2>1. PICK j \in DOMAIN s : j = i + 1 /\ s[j] = Tail(s)[i]
    BY <1>1
  <2>2. ASSUME NEW k \in DOMAIN s, j < k PROVE ~Tells(s[k], w)
    <3>1. k # 1 /\ i < k - 1
      BY <1>1, <2>1, <2>2
    <3> QED BY <1>2, <1>4, <3>1
  <2> QED BY <1>4, <2>1, <2>2 DEF Due
<1> QED BY <1>3, <1>4 DEF Due

\* A new watch has had no event, and is in no error.
LEMMA DueFresh ==
  ASSUME FeedTyped, NEW w \in Nat, w > watch, NEW errored, w \notin errored
  PROVE  Due(errored, stream, w, FALSE)
<1>1. ASSUME NEW i \in DOMAIN stream PROVE ~Tells(stream[i], w)
  <2>1. OfOpened(stream[i], watch) /\ watch \in Nat
    BY Numbers DEF FeedTyped
  <2>2. <<Log, w>>[1] = Log /\ <<Log, w>>[2] = w
    OBVIOUS
  <2> QED BY <2>1, <2>2 DEF OfOpened, Tells
<1> QED BY <1>1 DEF Due

-----------------------------------------------------------------------------
(* The steps of Tray. *)

TrayInv == TrayTyped /\ Accounted /\ WatchTold

LEMMA EmptyBuffer == <<>> \in Seq(Kinds)
OBVIOUS

LEMMA PolicyKept ==
  ASSUME Accounted, UNCHANGED policy
  PROVE  Accounted'
BY DEF Accounted, policy, Count

LEMMA WatchToldKept ==
  ASSUME WatchTold, UNCHANGED <<erroredWatches, stream, watch, log>>, missed => missed'
  PROVE  WatchTold'
BY DEF WatchTold, Due, Tells

LEMMA InitTray == Init => TrayInv
<1> SUFFICES ASSUME Init PROVE TrayInv
  OBVIOUS
<1>1. FeedTyped /\ Asking
  BY FeedInitTyped DEF Init
<1>2. shown # NoTray
  BY ViewShows DEF Init
<1>3. TrayTyped
  <2>1. /\ agentUp = FALSE /\ monitors = Nothing /\ erroredWatches = {} /\ buffer = <<>>
        /\ flushHandle = FALSE /\ late = FALSE /\ missed = FALSE /\ quit = "no"
    BY DEF Init
  <2> QED BY <1>1, <1>2, <2>1, NothingType, EmptyBuffer DEF TrayTyped
<1>4. Accounted
  <2>1. Zero \in Tally /\ \A k \in Kinds : Zero[k] = 0
    BY DEF Zero, Tally
  <2>2. 0 \in 0 .. Threshold
    BY TrayAssumption
  <2> QED BY <2>1, <2>2, CountNone DEF Init, Accounted
<1>5. WatchTold
  BY DEF Init, FeedInit, WatchTold
<1> QED BY <1>3, <1>4, <1>5 DEF TrayInv

LEMMA SupervisorKeeps ==
  ASSUME TrayInv, Running \/ NotRunning
  PROVE  TrayInv'
<1>1. UNCHANGED <<policy, quit>>
  BY DEF Running, NotRunning, Noticed, Others
<1>2. Accounted'
  BY <1>1, PolicyKept DEF TrayInv
<1>3. CASE Running
  <2>1. FeedTyped' /\ UNCHANGED watch
    BY <1>3, LifeKeeps DEF Running, TrayInv, TrayTyped, Start
  <2>2. Asking'
    BY <1>3, AskKeeps DEF Running, TrayInv, TrayTyped, Asking
  <2>3. /\ agentUp' = TRUE /\ monitors' = monitors /\ erroredWatches' = erroredWatches
        /\ shown' = NoTray <=> quit' = "gone"
    BY <1>1, <1>3, PaintKeeps DEF Running, TrayInv, TrayTyped
  <2>4. TrayTyped'
    BY <1>1, <1>3, <2>1, <2>2, <2>3 DEF Running, TrayInv, TrayTyped, policy
  <2>5. WatchTold'
    BY <1>3 DEF Running, Start, WatchTold
  <2> QED BY <1>2, <2>4, <2>5 DEF TrayInv
<1>4. CASE NotRunning
  <2>1. FeedTyped' /\ UNCHANGED <<watch, asks>>
    BY <1>4, LifeKeeps DEF NotRunning, TrayInv, TrayTyped, Exit, Retry
  <2>2. Asking'
    BY <2>1 DEF TrayInv, TrayTyped, Asking
  <2>3. /\ agentUp' = FALSE /\ monitors' = monitors /\ erroredWatches' = erroredWatches
        /\ shown' = NoTray <=> quit' = "gone"
    BY <1>1, <1>4, PaintKeeps DEF NotRunning, Noticed, TrayInv, TrayTyped
  <2>4. TrayTyped'
    BY <1>1, <1>4, <2>1, <2>2, <2>3 DEF NotRunning, Noticed, TrayInv, TrayTyped, policy
  <2>5. WatchTold'
    <3>1. CASE Exit
      BY <3>1 DEF Exit, WatchTold
    <3>2. CASE Retry /\ Noticed
      BY <2>3, <3>2, WatchToldKept DEF Retry, Noticed, TrayInv
    <3> QED BY <1>4, <3>1, <3>2 DEF NotRunning
  <2> QED BY <1>2, <2>4, <2>5 DEF TrayInv
<1> QED BY <1>3, <1>4

LEMMA HydrationKeeps ==
  ASSUME TrayInv,
         \/ HydrateTray \/ OnResume
         \/ \E s \in Slots : Answered(s) \/ Hydrated(s) \/ HydrateFails(s)
  PROVE  TrayInv'
<1>1. UNCHANGED <<policy, quit>>
  BY DEF HydrateTray, OnResume, Answered, Hydrated, HydrateFails, Others
<1>2. Accounted'
  BY <1>1, PolicyKept DEF TrayInv
<1>3. CASE HydrateTray
  <2>1. Asking'
    BY <1>3, AskKeeps DEF HydrateTray, TrayInv, TrayTyped
  <2>2. FeedTyped'
    BY <1>3 DEF HydrateTray, TrayInv, TrayTyped, FeedTyped, Up
  <2>3. WatchTold'
    BY <1>3, WatchToldKept DEF HydrateTray, TrayInv, health
  <2>4. TrayTyped'
    BY <1>1, <1>3, <2>1, <2>2 DEF HydrateTray, TrayInv, TrayTyped, policy, health
  <2> QED BY <1>2, <2>3, <2>4 DEF TrayInv
<1>4. CASE OnResume
  <2>1. Asking'
    BY <1>4, AskKeeps DEF OnResume, TrayInv, TrayTyped
  <2>2. FeedTyped'
    <3>1. watch \in Nat
      BY Numbers DEF TrayInv, TrayTyped, FeedTyped
    <3>2. stream' \in Seq(Events) /\ \A i \in DOMAIN stream' : OfOpened(stream'[i], watch)
      BY <1>4, <3>1, FreshTyped DEF OnResume, Reattach
    <3> QED BY <1>4, <3>2, StreamTyped DEF OnResume, TrayInv, TrayTyped, FeedTyped, Up
  <2>3. TrayTyped'
    BY <1>1, <1>4, <2>1, <2>2 DEF OnResume, TrayInv, TrayTyped, policy, health
  <2>4. WatchTold'
    <3>1. CASE stream # <<>>
      BY <1>4, <3>1 DEF OnResume, WatchTold
    <3>2. CASE stream = <<>>
      <4>1. stream' = Append(stream, Ready)
        BY <1>4, <3>2 DEF OnResume, Reattach
      <4>2. Ready \in Events /\ ~Tells(Ready, watch)
        BY Numbers, ReadyEvent DEF Ready, OfAgent, Event, Tells, TrayInv, TrayTyped, FeedTyped
      <4>3. UNCHANGED <<watch, log, erroredWatches, missed>>
        BY <1>4, <3>2 DEF OnResume, health, TrayInv, TrayTyped
      <4>4. (log = "failing") \in BOOLEAN /\ stream \in Seq(Events)
        BY DEF TrayInv, TrayTyped, FeedTyped
      <4>5. ~missed /\ log # "none" => Due(erroredWatches, stream', watch, log = "failing")
        BY <4>1, <4>2, <4>4, DueSilent DEF TrayInv, WatchTold
      <4> QED BY <4>3, <4>5 DEF WatchTold
    <3> QED BY <3>1, <3>2
  <2> QED BY <1>2, <2>3, <2>4 DEF TrayInv
<1>5. ASSUME NEW s \in Slots, Answered(s) PROVE TrayInv'
  <2>1. FeedTyped' /\ Asking' /\ UNCHANGED <<status, run, serves, log, watch, lines, stream, changes>>
    BY <1>5, AnswerKeeps DEF Answered, TrayInv, TrayTyped
  <2>2. TrayTyped'
    BY <1>1, <1>5, <2>1 DEF Answered, TrayInv, TrayTyped, policy, health
  <2>3. WatchTold'
    BY <1>5, <2>1, WatchToldKept DEF Answered, TrayInv, health
  <2> QED BY <1>2, <2>2, <2>3 DEF TrayInv
<1>6. ASSUME NEW s \in Slots, Hydrated(s) PROVE TrayInv'
  <2>1. Asking' /\ asks[s].list \in [Id -> States]
    BY <1>6, ReleaseKeeps DEF Hydrated, TrayInv, TrayTyped, Asking, Requests
  <2>2. FeedTyped'
    BY <1>6 DEF Hydrated, TrayInv, TrayTyped, FeedTyped, Up
  <2>3. /\ agentUp' = agentUp /\ monitors' = asks[s].list /\ erroredWatches' = erroredWatches
        /\ shown' = NoTray <=> quit' = "gone"
    BY <1>1, <1>6, PaintKeeps DEF Hydrated, HydrateMonitors, TrayInv, TrayTyped
  <2>4. TrayTyped'
    BY <1>1, <1>6, <2>1, <2>2, <2>3 DEF Hydrated, TrayInv, TrayTyped, policy
  <2>5. WatchTold'
    BY <1>6, <2>3, WatchToldKept DEF Hydrated, TrayInv
  <2> QED BY <1>2, <2>4, <2>5 DEF TrayInv
<1>7. ASSUME NEW s \in Slots, HydrateFails(s) PROVE TrayInv'
  <2>1. FeedTyped' /\ Asking' /\ UNCHANGED <<status, run, serves, log, watch, lines, stream>>
    BY <1>7, FailKeeps DEF HydrateFails, TrayInv, TrayTyped
  <2>2. TrayTyped'
    BY <1>1, <1>7, <2>1 DEF HydrateFails, TrayInv, TrayTyped, policy, health
  <2>3. WatchTold'
    BY <1>7, <2>1, WatchToldKept DEF HydrateFails, TrayInv, health
  <2> QED BY <1>2, <2>2, <2>3 DEF TrayInv
<1> QED BY <1>3, <1>4, <1>5, <1>6, <1>7

\* What an event does to the health.
LEMMA Ingested ==
  ASSUME TrayTyped, NEW e \in Events, OfOpened(e, watch), Ingest(e), UNCHANGED quit
  PROVE  /\ agentUp' \in BOOLEAN /\ monitors' \in [Id -> States]
         /\ erroredWatches' \subseteq 1 .. watch /\ (shown' = NoTray <=> quit' = "gone")
         /\ watch \in erroredWatches'
              <=> IF Tells(e, watch) THEN e.kind = "error" ELSE watch \in erroredWatches
<1>1. watch \in Nat
  BY Numbers DEF TrayTyped, FeedTyped
<1>2. PICK up \in BOOLEAN :
        /\ up = IF e.kind \in {"ready", "stopping"} THEN e.kind = "ready" ELSE agentUp
  BY DEF TrayTyped
<1>3. PICK list \in [Id -> States] :
        list = CASE e.kind = "unhealthy" -> [monitors EXCEPT ![e.id] = "unhealthy"]
                 [] e.kind = "recovered" -> [monitors EXCEPT ![e.id] = "healthy"]
                 [] OTHER -> monitors
  BY DEF TrayTyped, States
<1>4. PICK errored :
        errored = CASE e.kind = "error" -> erroredWatches \cup {e.id[2]}
                    [] e.kind \in {"line", "rotated", "deleted"} -> erroredWatches \ {e.id[2]}
                    [] OTHER -> erroredWatches
  OBVIOUS
<1>5. /\ agentUp' = up /\ monitors' = list /\ erroredWatches' = errored
      /\ shown' = NoTray <=> quit' = "gone"
  <2>1. Health(up, list, errored)
    BY <1>2, <1>3, <1>4 DEF Ingest
  <2> QED BY <2>1, PaintKeeps DEF TrayTyped
<1>6. /\ errored \subseteq 1 .. watch
      /\ watch \in errored <=> IF Tells(e, watch) THEN e.kind = "error" ELSE watch \in erroredWatches
  <2>1. CASE e.kind \in LogKinds
    <3>1. PICK w \in 1 .. MaxChanges : e.id[1] = Log /\ e.id[2] = w /\ e.id = <<Log, w>>
      BY <2>1, EventShape
    <3>2. w \in 1 .. watch
      BY <1>1, <3>1, Numbers DEF OfOpened
    <3>3. e.id = <<Log, watch>> <=> w = watch
      BY <3>1
    <3>4. CASE e.kind = "error"
      BY <1>4, <3>1, <3>2, <3>3, <3>4 DEF Tells, TrayTyped
    <3>5. CASE e.kind \in {"line", "rotated", "deleted"}
      BY <1>4, <3>1, <3>2, <3>3, <3>5 DEF Tells, TrayTyped
    <3>6. CASE e.kind \notin {"line", "rotated", "deleted", "error"}
      BY <1>4, <3>6 DEF Tells, TrayTyped
    <3> QED BY <3>4, <3>5, <3>6
  <2>2. CASE e.kind \notin LogKinds
    BY <1>4, <2>2 DEF LogKinds, Tells, TrayTyped
  <2> QED BY <2>1, <2>2
<1> QED BY <1>5, <1>6

\* What an event does to the notifier.
LEMMA EventAccounts ==
  ASSUME Accounted, flushHandle \in BOOLEAN, NEW e, HandleEvent(e) \/ UNCHANGED policy
  PROVE  Accounted' /\ buffer' \in Seq(Kinds) /\ flushHandle' \in BOOLEAN
<1>1. CASE e.kind \in Kinds /\ HandleEvent(e)
  <2>1. Record(e.kind)
    BY <1>1 DEF HandleEvent
  <2>2. Accounted' /\ flushHandle' = TRUE
    BY <1>1, <2>1, RecordAccounts DEF Record
  <2> QED BY <2>2 DEF Accounted
<1>2. CASE UNCHANGED policy
  <2>1. Accounted'
    BY <1>2, PolicyKept
  <2>2. flushHandle' = flushHandle
    BY <1>2 DEF policy
  <2> QED BY <2>1, <2>2 DEF Accounted
<1> QED BY <1>1, <1>2 DEF HandleEvent

\* An event is read: the notifier, then the health.
LEMMA EventRead ==
  ASSUME TrayInv, OnAgentEvent
  PROVE  TrayInv'
<1> DEFINE e == stream[1]
<1>1. /\ stream \in Seq(Events) /\ stream # <<>> /\ e \in Events /\ stream' = Tail(stream)
      /\ OfOpened(e, watch) /\ watch \in Nat
  <2>1. 1 \in DOMAIN stream
    BY DEF OnAgentEvent, TrayInv, TrayTyped, FeedTyped
  <2> QED BY <2>1, Numbers DEF OnAgentEvent, Read, TrayInv, TrayTyped, FeedTyped
<1>2. FeedTyped' /\ UNCHANGED <<status, log, watch, asks>>
  BY <1>1, ReadKeeps DEF OnAgentEvent, Read, TrayInv, TrayTyped
<1>3. UNCHANGED <<missed, quit>> /\ late' \in BOOLEAN
  BY DEF OnAgentEvent, TrayInv, TrayTyped
<1>4. /\ agentUp' \in BOOLEAN /\ monitors' \in [Id -> States]
      /\ erroredWatches' \subseteq 1 .. watch /\ (shown' = NoTray <=> quit' = "gone")
      /\ watch \in erroredWatches'
           <=> IF Tells(e, watch) THEN e.kind = "error" ELSE watch \in erroredWatches
  BY <1>1, <1>3, Ingested DEF OnAgentEvent, TrayInv
<1>5. Accounted' /\ buffer' \in Seq(Kinds) /\ flushHandle' \in BOOLEAN
  BY EventAccounts DEF OnAgentEvent, TrayInv, TrayTyped
<1>6. TrayTyped'
  BY <1>2, <1>3, <1>4, <1>5 DEF TrayInv, TrayTyped, Asking
<1>7. WatchTold'
  <2> SUFFICES ASSUME ~missed, log # "none"
               PROVE  Due(erroredWatches', Tail(stream), watch, log = "failing")
    BY <1>1, <1>2, <1>3 DEF WatchTold
  <2>1. Due(erroredWatches, stream, watch, log = "failing")
    BY DEF TrayInv, WatchTold
  <2>2. (log = "failing") \in BOOLEAN
    OBVIOUS
  <2>3. PICK after : after = erroredWatches'
    OBVIOUS
  <2>4. Due(after, Tail(stream), watch, log = "failing")
    BY <1>1, <1>4, <2>1, <2>2, <2>3, DueRead
  <2> QED BY <2>3, <2>4
<1> QED BY <1>5, <1>6, <1>7 DEF TrayInv

\* An event is handed on once more.
LEMMA EventReadAgain ==
  ASSUME TrayInv, Echoing, OnAgentEventAgain
  PROVE  TrayInv'
<1>1. PICK e \in echoes :
        /\ ReadAgain(e) /\ Ingest(e) /\ UNCHANGED quit
        /\ HandleEvent(e) \/ UNCHANGED policy
        /\ late' = (late \/ (~Up /\ e.kind = "ready"))
        /\ missed' = (missed \/ erroredWatches' # erroredWatches)
  BY DEF OnAgentEventAgain
<1>2. e \in Events /\ OfOpened(e, watch)
  BY DEF Echoing
<1>3. FeedTyped' /\ UNCHANGED <<stream, log, watch, asks>>
  BY <1>1, AgainKeeps DEF TrayInv, TrayTyped
<1>4. /\ agentUp' \in BOOLEAN /\ monitors' \in [Id -> States]
      /\ erroredWatches' \subseteq 1 .. watch /\ (shown' = NoTray <=> quit' = "gone")
  BY <1>1, <1>2, Ingested DEF TrayInv
<1>5. Accounted' /\ buffer' \in Seq(Kinds) /\ flushHandle' \in BOOLEAN
  BY <1>1, EventAccounts DEF TrayInv, TrayTyped
<1>6. late' \in BOOLEAN /\ missed' \in BOOLEAN
  BY <1>1 DEF TrayInv, TrayTyped
<1>7. TrayTyped'
  BY <1>1, <1>3, <1>4, <1>5, <1>6 DEF TrayInv, TrayTyped, Asking
<1>8. WatchTold'
  <2>1. CASE erroredWatches' = erroredWatches
    BY <1>1, <1>3, <2>1, WatchToldKept DEF TrayInv
  <2>2. CASE erroredWatches' # erroredWatches
    BY <1>1, <2>2 DEF WatchTold
  <2> QED BY <2>1, <2>2
<1> QED BY <1>5, <1>7, <1>8 DEF TrayInv

LEMMA QuitKeeps ==
  ASSUME TrayInv, Flush \/ StopServices \/ Destroyed
  PROVE  TrayInv'
<1>1. CASE Flush
  <2>1. Accounted'
    <3>1. burst' \in 0 .. Threshold
      BY <1>1, BannersFit DEF Flush, TrayInv, Accounted
    <3> QED BY <1>1, <3>1, ClearAccounts DEF Flush, TrayInv
  <2>2. FeedTyped' /\ Asking'
    BY <1>1 DEF Flush, feed, TrayInv, TrayTyped, FeedTyped, Asking, Up
  <2>3. TrayTyped'
    BY <1>1, <2>2, EmptyBuffer DEF Flush, feed, health, TrayInv, TrayTyped
  <2>4. WatchTold'
    BY <1>1, WatchToldKept DEF Flush, feed, health, TrayInv
  <2> QED BY <2>1, <2>3, <2>4 DEF TrayInv
<1>2. CASE StopServices
  <2>1. Accounted'
    <3>1. burst' \in 0 .. Threshold
      BY <1>2 DEF StopServices, Dispose, TrayInv, Accounted
    <3> QED BY <1>2, <3>1, ClearAccounts DEF StopServices, Dispose, TrayInv
  <2>2. FeedTyped' /\ Asking'
    <3>1. /\ status' \in {"starting", "running", "stopping", "down", "failed"} /\ (Up' <=> Up)
      BY <1>2 DEF StopServices, TrayInv, TrayTyped, FeedTyped, Up
    <3>2. stream' \in Seq(Events) /\ \A i \in DOMAIN stream' : OfOpened(stream'[i], watch)
      BY <1>2 DEF StopServices
    <3> QED BY <1>2, <3>1, <3>2, StreamTyped DEF StopServices, TrayInv, TrayTyped, Asking
  <2>3. TrayTyped'
    BY <1>2, <2>2, EmptyBuffer DEF StopServices, Dispose, health, TrayInv, TrayTyped
  <2>4. WatchTold'
    BY <1>2 DEF StopServices, WatchTold
  <2> QED BY <2>1, <2>3, <2>4 DEF TrayInv
<1>3. CASE Destroyed
  <2>1. Accounted'
    BY <1>3, PolicyKept DEF Destroyed, TrayInv
  <2>2. FeedTyped' /\ Asking'
    BY <1>3 DEF Destroyed, feed, TrayInv, TrayTyped, FeedTyped, Asking, Up
  <2>3. TrayTyped'
    BY <1>3, <2>2 DEF Destroyed, feed, health, policy, TrayInv, TrayTyped
  <2>4. WatchTold'
    BY <1>3, WatchToldKept DEF Destroyed, feed, health, TrayInv
  <2> QED BY <2>1, <2>3, <2>4 DEF TrayInv
<1> QED BY <1>1, <1>2, <1>3

LEMMA FeedsKeep ==
  ASSUME TrayInv, Feeds
  PROVE  TrayInv'
<1>1. /\ UNCHANGED <<agentUp, monitors, erroredWatches, shown, late, quit>> /\ UNCHANGED policy
      /\ missed' \in BOOLEAN
  BY DEF Feeds, Others, health, TrayInv, TrayTyped
<1>2. Accounted'
  BY <1>1, PolicyKept DEF TrayInv
<1>3. FeedTyped /\ Asking /\ stream \in Seq(Events) /\ watch \in Nat /\ (log = "failing") \in BOOLEAN
  BY Numbers DEF TrayInv, TrayTyped, FeedTyped
<1>4. ASSUME FeedTyped', watch' >= watch, UNCHANGED asks
      PROVE  TrayTyped'
  <2>1. erroredWatches' \subseteq 1 .. watch' /\ watch' \in Nat
    BY <1>1, <1>3, <1>4, Numbers DEF TrayInv, TrayTyped, FeedTyped
  <2> QED BY <1>1, <1>3, <1>4, <2>1 DEF TrayInv, TrayTyped, Asking, policy
\* An event that does not tell of the watch.
<1>5. ASSUME NEW e \in Events, ~Tells(e, watch), stream' = Append(stream, e),
             UNCHANGED <<log, watch, missed>>
      PROVE  WatchTold'
  <2>1. ~missed /\ log # "none" => Due(erroredWatches, stream', watch, log = "failing")
    BY <1>3, <1>5, DueSilent DEF TrayInv, WatchTold
  <2> QED BY <1>1, <1>5, <2>1 DEF WatchTold
<1>6. ASSUME Sigterm \/ Reconnect, UNCHANGED missed PROVE TrayInv'
  <2>1. FeedTyped' /\ UNCHANGED <<log, watch, asks>>
    BY <1>3, <1>6, LifeKeeps, SteersKeeps DEF Sigterm
  <2>2. PICK kind \in {"stopping", "ready"} : stream' = Append(stream, OfAgent(kind))
    BY <1>6 DEF Sigterm, Reconnect, Publish, Ready
  <2>3. OfAgent(kind) \in Events /\ ~Tells(OfAgent(kind), watch)
    BY <1>3, AgentEvent DEF AgentKinds, OfAgent, Event, Tells
  <2>4. TrayTyped'
    BY <1>3, <1>4, <2>1
  <2> QED BY <1>2, <1>5, <1>6, <2>1, <2>2, <2>3, <2>4 DEF TrayInv
<1>7. ASSUME NEW m \in Monitors, Add(m) \/ Remove(m) \/ Edit(m) \/ Turn(m), UNCHANGED missed
      PROVE  TrayInv'
  <2>1. FeedTyped' /\ UNCHANGED <<log, watch, asks>>
    BY <1>3, <1>7, MonitorKeeps
  <2>2. TrayTyped'
    BY <1>3, <1>4, <2>1
  <2>3. CASE UNCHANGED stream
    BY <1>1, <1>2, <1>7, <2>1, <2>2, <2>3, WatchToldKept DEF TrayInv
  <2>4. ASSUME NEW kind \in MonitorEvents, Turn(m), stream' = Append(stream, OfMonitor(kind, m))
        PROVE  TrayInv'
    <3>1. Up
      BY <2>4 DEF Turn, Steady, Up
    <3>2. OfMonitor(kind, m) \in Events /\ ~Tells(OfMonitor(kind, m), watch)
      BY <1>3, <3>1, ResultEvent DEF MonitorEvents, OfMonitor, Event, Tells
    <3> QED BY <1>2, <1>5, <1>7, <2>1, <2>2, <2>4, <3>2 DEF TrayInv
  <2> QED BY <1>3, <1>7, <2>3, <2>4, MonitorKeeps
<1>8. ASSUME Watch, UNCHANGED missed PROVE TrayInv'
  <2>1. FeedTyped' /\ UNCHANGED <<stream, asks>> /\ watch' = watch + 1 /\ log' = "fine"
    BY <1>3, <1>8, WatchKeeps
  <2>2. TrayTyped'
    BY <1>3, <1>4, <2>1
  <2>3. watch + 1 \notin erroredWatches /\ watch + 1 \in Nat /\ watch + 1 > watch
    BY <1>3 DEF TrayInv, TrayTyped
  <2>4. Due(erroredWatches, stream, watch + 1, FALSE)
    BY <1>3, <2>3, DueFresh
  <2>5. WatchTold'
    <3>1. (log' = "failing") = FALSE
      BY <2>1
    <3> QED BY <1>1, <2>1, <2>4, <3>1 DEF WatchTold
  <2> QED BY <1>2, <2>2, <2>5 DEF TrayInv
<1>9. ASSUME Unwatch, UNCHANGED missed PROVE TrayInv'
  <2>1. FeedTyped' /\ UNCHANGED <<watch, asks>> /\ log' = "none"
    BY <1>3, <1>9, WatchKeeps
  <2>2. TrayTyped' /\ WatchTold'
    BY <1>3, <1>4, <2>1 DEF WatchTold
  <2> QED BY <1>2, <2>2 DEF TrayInv
<1>10. ASSUME LogEvent, UNCHANGED missed PROVE TrayInv'
  <2>1. FeedTyped' /\ UNCHANGED <<watch, asks>> /\ log # "none"
    BY <1>3, <1>10, LogKeeps
  <2>2. TrayTyped'
    BY <1>3, <1>4, <2>1
  <2>3. PICK kind \in LogKinds, n \in Nat :
          /\ stream' = Append(stream, OfWatch(kind, n))
          /\ log' = CASE kind = "error" -> "failing" [] kind = "truncated" -> log [] OTHER -> "fine"
    <3>1. lines + 1 \in Nat
      BY <1>3, Numbers DEF FeedTyped
    <3> QED BY <1>3, <1>10, <3>1, LogKeeps
  <2>4. OfWatch(kind, n) \in Events /\ OfWatch(kind, n).id = <<Log, watch>>
        /\ OfWatch(kind, n).kind = kind
    BY <1>3, <2>1, WatchEvent DEF OfWatch, Event
  <2>5. WatchTold'
    <3>1. CASE kind = "truncated"
      <4>1. ~Tells(OfWatch(kind, n), watch) /\ log' = log
        BY <2>3, <2>4, <3>1 DEF Tells
      <4> QED BY <1>5, <1>10, <2>1, <2>3, <2>4, <4>1
    <3>2. CASE kind # "truncated"
      <4>1. Tells(OfWatch(kind, n), watch)
        BY <2>4, <3>2 DEF Tells, LogKinds
      <4>2. Due(erroredWatches, stream', watch, kind = "error")
        BY <1>3, <2>3, <2>4, <4>1, DueTelling
      <4>3. (log' = "failing") = (kind = "error")
        BY <2>3, <3>2
      <4> QED BY <1>1, <2>1, <4>2, <4>3 DEF WatchTold
    <3> QED BY <3>1, <3>2
  <2> QED BY <1>2, <2>2, <2>5 DEF TrayInv
<1>11. ASSUME Overrun \/ Shed \/ Cut, missed' = TRUE PROVE TrayInv'
  <2>1. FeedTyped' /\ UNCHANGED <<watch, asks>>
    BY <1>3, <1>11, SteersKeeps, ReadKeeps DEF Cut
  <2>2. TrayTyped' /\ WatchTold'
    BY <1>3, <1>4, <1>11, <2>1 DEF WatchTold
  <2> QED BY <1>2, <2>2 DEF TrayInv
<1> QED BY <1>6, <1>7, <1>8, <1>9, <1>10, <1>11 DEF Feeds, Outside

LEMMA TrayEchoes == TrayInv /\ Echoing /\ [Next]_vars => Echoing'
<1> SUFFICES ASSUME TrayInv, Echoing, [Next]_vars PROVE Echoing'
  OBVIOUS
<1>1. FeedTyped
  BY DEF TrayInv, TrayTyped
<1>2. CASE UNCHANGED <<echoes, run, watch>>
  BY <1>2 DEF Echoing
<1>3. CASE Running \/ NotRunning
  BY <1>1, <1>3, LifeEchoes DEF Running, NotRunning
<1>4. CASE HydrateTray \/ StopServices
  BY <1>2, <1>4 DEF HydrateTray, StopServices
<1>5. CASE OnResume
  BY <1>1, <1>5, ReattachEchoes DEF OnResume, Up
<1>6. ASSUME NEW s \in Slots, Answered(s) \/ HydrateFails(s) PROVE Echoing'
  BY <1>1, <1>6, StreamEchoes DEF Answered, HydrateFails
<1>7. ASSUME NEW s \in Slots, Hydrated(s) PROVE Echoing'
  BY <1>2, <1>7 DEF Hydrated
<1>8. CASE OnAgentEvent \/ OnAgentEventAgain
  BY <1>1, <1>8, StreamEchoes DEF OnAgentEvent, OnAgentEventAgain
<1>9. CASE Flush \/ Destroyed \/ UNCHANGED vars
  BY <1>2, <1>9 DEF Flush, Destroyed, vars, feed
<1>10. CASE Feeds
  BY <1>1, <1>10, LifeEchoes, SteadyEchoes, StreamEchoes DEF Feeds, Outside
<1> QED BY <1>3, <1>4, <1>5, <1>6, <1>7, <1>8, <1>9, <1>10 DEF Next

LEMMA NextTray == TrayInv /\ Echoing /\ [Next]_vars => TrayInv'
<1> SUFFICES ASSUME TrayInv, Echoing, [Next]_vars PROVE TrayInv'
  OBVIOUS
<1>1. CASE UNCHANGED vars
  <2>1. Accounted'
    BY <1>1, PolicyKept DEF vars, TrayInv
  <2>2. WatchTold'
    BY <1>1, WatchToldKept DEF vars, feed, health, TrayInv
  <2>3. FeedTyped' /\ Asking'
    BY <1>1 DEF vars, feed, TrayInv, TrayTyped, FeedTyped, Asking, Up
  <2>4. TrayTyped'
    BY <1>1, <2>3 DEF vars, feed, health, policy, TrayInv, TrayTyped
  <2> QED BY <2>1, <2>2, <2>4 DEF TrayInv
<1> QED BY <1>1, SupervisorKeeps, HydrationKeeps, EventRead, EventReadAgain, QuitKeeps, FeedsKeep
        DEF Next

LEMMA TrayHolds == Spec => [](TrayInv /\ Echoing)
<1>1. Init => TrayInv /\ Echoing
  BY InitTray DEF Init, FeedInit, Echoing
<1>2. TrayInv /\ Echoing /\ [Next]_vars => (TrayInv /\ Echoing)'
  BY NextTray, TrayEchoes
<1> QED BY <1>1, <1>2, PTL DEF Spec

(* Every reachable state of the feed, the tray and the notifier is well    *)
(* typed, and there is no tray exactly when Main has destroyed it: nothing *)
(* that is painted late brings it back (TrayController.update).            *)
THEOREM TrayTypeCorrect == Spec => []TypeOK
<1>1. TrayInv /\ Echoing => TypeOK
  <2> SUFFICES ASSUME TrayInv, Echoing PROVE TypeOK
    OBVIOUS
  <2>1. FeedTypeOK
    BY FeedTypes DEF TrayInv, TrayTyped
  <2>2. 1 .. watch \subseteq 1 .. MaxChanges
    BY Numbers DEF TrayInv, TrayTyped, FeedTyped
  <2>3. \A i \in DOMAIN buffer : buffer[i] \in Kinds
    BY DEF TrayInv, TrayTyped
  <2> QED BY <2>1, <2>2, <2>3 DEF TrayInv, TrayTyped, TypeOK, States
<1> QED BY <1>1, TrayHolds, PTL

(* Every transition read is told once, waits for an armed timer, or was    *)
(* dropped by the quit; no window shows more banners than the threshold;   *)
(* and with nothing lost or on its way the tray counts the watch among     *)
(* those in error exactly when it is (NotificationPolicy, HealthState), if *)
(* no old event that a second stream brought said otherwise.               *)
THEOREM StreamTold == Spec => []StreamIsTold
<1>1. TrayInv => StreamIsTold
  <2> SUFFICES ASSUME TrayInv PROVE StreamIsTold
    OBVIOUS
  <2>1. ASSUME ~missed, stream = <<>>, log # "none"
        PROVE  watch \in erroredWatches <=> log = "failing"
    <3>1. Due(erroredWatches, stream, watch, log = "failing")
      BY <2>1 DEF TrayInv, WatchTold
    <3>2. DOMAIN stream = {}
      BY <2>1
    <3> QED BY <3>1, <3>2 DEF Due
  <2>2. burst <= Threshold
    BY TrayAssumption DEF TrayInv, Accounted
  <2> QED BY <2>1, <2>2 DEF TrayInv, Accounted, StreamIsTold
<1> QED BY <1>1, TrayHolds, PTL

-----------------------------------------------------------------------------
(* The list of the renderer: what unread events will make of a list. *)

LEMMA LeastNumber ==
  ASSUME NEW T \in SUBSET Nat, T # {}
  PROVE  \E x \in T : \A y \in T : x <= y
<1>1. PICK x \in T : \A y \in T : ~(<<y, x>> \in OpToRel(<, Nat))
  BY NatLessThanWellFounded, WFMin
<1>2. \A y \in T : ~(y < x)
  BY <1>1 DEF OpToRel
<1> QED BY <1>2

\* IngestMonitor, of any list.
Result(list, e) ==
  [i \in Id |->
     IF i # e.id \/ list[i] = "none" THEN list[i]
     ELSE CASE e.kind = "ok" /\ list[i] = "unknown" -> "healthy"
            [] e.kind = "unhealthy" -> "unhealthy"
            [] e.kind = "recovered" -> "healthy"
            [] OTHER -> list[i]]

Leads(from, to, s) ==
  \E h \in [0 .. Len(s) -> [Id -> States]] :
    /\ h[0] = from /\ h[Len(s)] = to
    /\ \A k \in 1 .. Len(s) : h[k] = Result(h[k - 1], s[k])

Bare(s) == \A k \in DOMAIN s : s[k].kind \notin MonitorEvents

LEMMA IngestIsResult ==
  ASSUME NEW e
  PROVE  IngestMonitor(e) = Result(shownMonitors, e)
BY DEF IngestMonitor, Result

LEMMA ResultType ==
  ASSUME NEW list \in [Id -> States], NEW e
  PROVE  Result(list, e) \in [Id -> States]
<1>1. ASSUME NEW i \in Id PROVE Result(list, e)[i] \in States
  BY DEF Result, States
<1> QED BY <1>1 DEF Result

LEMMA ResultIdle ==
  ASSUME NEW list \in [Id -> States], NEW e, e.kind \notin MonitorEvents
  PROVE  Result(list, e) = list
<1>1. ASSUME NEW i \in Id PROVE Result(list, e)[i] = list[i]
  BY DEF Result, MonitorEvents
<1> QED BY <1>1 DEF Result

LEMMA LeadsNone ==
  ASSUME NEW a \in [Id -> States], NEW s \in Seq(Events), Bare(s)
  PROVE  Leads(a, a, s)
<1> DEFINE h == [k \in 0 .. Len(s) |-> a]
<1>1. h \in [0 .. Len(s) -> [Id -> States]] /\ h[0] = a /\ h[Len(s)] = a
  OBVIOUS
<1>2. ASSUME NEW k \in 1 .. Len(s) PROVE h[k] = Result(h[k - 1], s[k])
  <2>1. h[k] = a /\ h[k - 1] = a
    OBVIOUS
  <2>2. Result(a, s[k]) = a
    BY ResultIdle DEF Bare
  <2> QED BY <2>1, <2>2
<1> HIDE DEF h
<1> QED BY <1>1, <1>2 DEF Leads

\* Without an event of a monitor the list stays as it is.
LEMMA LeadsNowhere ==
  ASSUME NEW a, NEW b, NEW s \in Seq(Events), Bare(s), Leads(a, b, s)
  PROVE  a = b
<1>1. PICK h \in [0 .. Len(s) -> [Id -> States]] :
        /\ h[0] = a /\ h[Len(s)] = b
        /\ \A k \in 1 .. Len(s) : h[k] = Result(h[k - 1], s[k])
  BY DEF Leads
<1>2. PICK T : T = {k \in 0 .. Len(s) : h[k] # a}
  OBVIOUS
<1>3. ASSUME T # {} PROVE FALSE
  <2> T \in SUBSET Nat
    BY <1>2
  <2>1. PICK x \in T : \A y \in T : x <= y
    BY <1>3, LeastNumber
  <2>2. x \in 1 .. Len(s) /\ x - 1 \in 0 .. Len(s) /\ h[x] # a
    BY <1>1, <1>2, <2>1
  <2>3. x - 1 \notin T
    BY <2>1, <2>2
  <2>4. h[x - 1] = a
    BY <1>2, <2>2, <2>3
  <2>5. a \in [Id -> States] /\ s[x].kind \notin MonitorEvents
    BY <1>1, <2>2, <2>4 DEF Bare
  <2>6. h[x] = Result(a, s[x])
    BY <1>1, <2>2, <2>4
  <2> QED BY <2>2, <2>5, <2>6, ResultIdle
<1>4. Len(s) \in 0 .. Len(s)
  OBVIOUS
<1> QED BY <1>1, <1>2, <1>3, <1>4

LEMMA LeadsAppend ==
  ASSUME NEW a, NEW b, NEW s \in Seq(Events), NEW e \in Events, Leads(a, b, s)
  PROVE  Leads(a, Result(b, e), Append(s, e))
<1>1. PICK h \in [0 .. Len(s) -> [Id -> States]] :
        /\ h[0] = a /\ h[Len(s)] = b
        /\ \A k \in 1 .. Len(s) : h[k] = Result(h[k - 1], s[k])
  BY DEF Leads
<1>2. PICK c \in [Id -> States] : c = Result(b, e)
  <2>1. b \in [Id -> States]
    BY <1>1
  <2> QED BY <2>1, ResultType
<1>3. PICK g : g = [k \in 0 .. Len(s) + 1 |-> IF k = Len(s) + 1 THEN c ELSE h[k]]
  OBVIOUS
<1>4. PICK r \in Seq(Events) : r = Append(s, e)
  OBVIOUS
<1>5. Len(r) = Len(s) + 1 /\ r[Len(s) + 1] = e /\ \A k \in 1 .. Len(s) : r[k] = s[k]
  BY <1>4
<1>6. g \in [0 .. Len(r) -> [Id -> States]] /\ g[0] = a /\ g[Len(r)] = c
  BY <1>1, <1>3, <1>5
<1>7. ASSUME NEW k \in 1 .. Len(r) PROVE g[k] = Result(g[k - 1], r[k])
  <2>1. CASE k = Len(s) + 1
    <3>1. Len(s) \in 0 .. Len(s) + 1 /\ Len(s) + 1 \in 0 .. Len(s) + 1 /\ Len(s) # Len(s) + 1
      OBVIOUS
    <3>2. g[Len(s)] = b /\ g[Len(s) + 1] = c
      BY <1>1, <1>3, <3>1
    <3>3. k - 1 = Len(s)
      BY <2>1
    <3>4. g[k] = c /\ g[k - 1] = b /\ r[k] = e
      BY <1>5, <2>1, <3>2, <3>3
    <3> QED BY <1>2, <3>4
  <2>2. CASE k # Len(s) + 1
    <3>1. k \in 1 .. Len(s) /\ g[k] = h[k] /\ g[k - 1] = h[k - 1]
      BY <1>3, <1>5, <2>2
    <3> QED BY <1>1, <1>5, <3>1
  <2> QED BY <2>1, <2>2
<1>8. Leads(a, c, r)
  BY <1>6, <1>7 DEF Leads
<1> QED BY <1>2, <1>4, <1>8

LEMMA LeadsTail ==
  ASSUME NEW a, NEW b, NEW s \in Seq(Events), s # <<>>, Leads(a, b, s)
  PROVE  Leads(Result(a, s[1]), b, Tail(s))
<1>1. PICK h \in [0 .. Len(s) -> [Id -> States]] :
        /\ h[0] = a /\ h[Len(s)] = b
        /\ \A k \in 1 .. Len(s) : h[k] = Result(h[k - 1], s[k])
  BY DEF Leads
<1>2. PICK r \in Seq(Events) : r = Tail(s)
  BY TailTyped
<1>3. Len(r) = Len(s) - 1 /\ Len(s) \in Nat \ {0} /\ \A k \in 1 .. Len(r) : r[k] = s[k + 1]
  BY <1>2
<1>4. PICK g : g = [k \in 0 .. Len(r) |-> h[k + 1]]
  OBVIOUS
<1>5. g \in [0 .. Len(r) -> [Id -> States]] /\ g[0] = h[1] /\ g[Len(r)] = b
  BY <1>1, <1>3, <1>4
<1>6. h[1] = Result(a, s[1])
  <2>1. 1 \in 1 .. Len(s) /\ 1 - 1 = 0
    BY <1>3
  <2>2. h[1] = Result(h[1 - 1], s[1])
    BY <1>1, <2>1
  <2> QED BY <1>1, <2>1, <2>2
<1>7. ASSUME NEW k \in 1 .. Len(r) PROVE g[k] = Result(g[k - 1], r[k])
  <2>1. PICK j \in 1 .. Len(s) : j = k + 1 /\ j - 1 = k
    BY <1>3
  <2>2. g[k] = h[j] /\ g[k - 1] = h[j - 1] /\ r[k] = s[j]
    BY <1>3, <1>4, <2>1
  <2> QED BY <1>1, <2>2
<1>8. Leads(h[1], b, r)
  BY <1>5, <1>7 DEF Leads
<1> QED BY <1>2, <1>6, <1>8

LEMMA LeadsRemoved ==
  ASSUME NEW a, NEW b, NEW s \in Seq(Events), NEW at \in DOMAIN s,
         s[at].kind \notin MonitorEvents, Leads(a, b, s)
  PROVE  Leads(a, b, Seqs!RemoveAt(s, at))
<1>1. PICK h \in [0 .. Len(s) -> [Id -> States]] :
        /\ h[0] = a /\ h[Len(s)] = b
        /\ \A k \in 1 .. Len(s) : h[k] = Result(h[k - 1], s[k])
  BY DEF Leads
<1>2. PICK r \in Seq(Events) :
        /\ r = Seqs!RemoveAt(s, at) /\ Len(r) = Len(s) - 1
        /\ \A k \in 1 .. Len(s) - 1 : r[k] = IF k < at THEN s[k] ELSE s[k + 1]
  BY Removal
<1>3. at \in 1 .. Len(s) /\ Len(s) \in Nat
  OBVIOUS
<1>4. h[at] = h[at - 1]
  <2>1. h[at - 1] \in [Id -> States] /\ h[at] = Result(h[at - 1], s[at])
    BY <1>1, <1>3
  <2> QED BY <2>1, ResultIdle
<1>5. PICK g : g = [k \in 0 .. Len(r) |-> IF k < at THEN h[k] ELSE h[k + 1]]
  OBVIOUS
<1>6. g \in [0 .. Len(r) -> [Id -> States]] /\ g[0] = a
  BY <1>1, <1>2, <1>3, <1>5
<1>7. g[Len(r)] = b
  <2>1. CASE Len(r) < at
    <3>1. at = Len(s) /\ Len(r) = at - 1
      BY <1>2, <1>3, <2>1
    <3> QED BY <1>1, <1>2, <1>3, <1>4, <1>5, <3>1
  <2>2. CASE ~(Len(r) < at)
    BY <1>1, <1>2, <1>3, <1>5, <2>2
  <2> QED BY <2>1, <2>2
<1>8. ASSUME NEW k \in 1 .. Len(r) PROVE g[k] = Result(g[k - 1], r[k])
  <2>1. CASE k < at
    <3>1. k \in 1 .. Len(s) /\ k \in 0 .. Len(r) /\ k - 1 \in 0 .. Len(r) /\ k - 1 < at
      BY <1>2, <1>3, <2>1
    <3>2. g[k] = h[k] /\ g[k - 1] = h[k - 1]
      BY <1>5, <2>1, <3>1
    <3>3. r[k] = s[k]
      BY <1>2, <2>1
    <3> QED BY <1>1, <3>1, <3>2, <3>3
  <2>2. CASE k >= at
    <3>1. PICK j \in 1 .. Len(s) : j = k + 1 /\ j - 1 = k
      BY <1>2
    <3>2. g[k] = h[j] /\ r[k] = s[j]
      BY <1>2, <1>3, <1>5, <2>2, <3>1
    <3>3. g[k - 1] = h[j - 1]
      <4>1. CASE k = at
        BY <1>2, <1>3, <1>4, <1>5, <3>1, <4>1
      <4>2. CASE k # at
        BY <1>2, <1>3, <1>5, <2>2, <3>1, <4>2
      <4> QED BY <4>1, <4>2
    <3> QED BY <1>1, <3>2, <3>3
  <2>3. k < at \/ k >= at
    BY <1>3
  <2> QED BY <2>1, <2>2, <2>3
<1>9. Leads(a, b, r)
  BY <1>6, <1>7, <1>8 DEF Leads
<1> QED BY <1>2, <1>9

-----------------------------------------------------------------------------
(* Renderer: types. *)

RowKinds == LogKinds \cup {"gap", "resumed"}
Rows == [kind : RowKinds, n : Nat]
Views == [id : Nat, rows : Seq(Rows), status : {"active", "deleted", "error", "closed"}]

ViewTyped ==
  /\ view \in Views /\ view.id <= watch /\ Len(view.rows) <= Ring
  /\ view # NoView => view.id > 0

LogsTyped ==
  /\ ViewTyped /\ opening \in BOOLEAN /\ reconciling \in {"no", "due", "issued"}
  /\ skipped \in BOOLEAN
  /\ opening \/ reconciling = "issued" => watch > 0

ListTyped ==
  /\ shownMonitors \in [Id -> States] /\ refreshes \in BOOLEAN /\ doubtful \in BOOLEAN
  /\ clean \subseteq Slots

RendererTyped == FeedTyped /\ Asking /\ ListTyped /\ LogsTyped

LEMMA NoViewType == NoView \in Views /\ NoView.rows = <<>> /\ NoView.id = 0
BY DEF NoView, Views, Rows

\* The newest row is there; the oldest may be gone, the others keep their order.
LEMMA RowAppended ==
  ASSUME NEW v \in Views, Len(v.rows) <= Ring, NEW row \in Rows
  PROVE  /\ Appended(v, row) \in Views /\ Appended(v, row).id = v.id
         /\ Appended(v, row).status = v.status
         /\ \E d \in {0, 1} :
              LET rows == Appended(v, row).rows
              IN  /\ Len(rows) = Len(v.rows) + 1 - d /\ Len(rows) \in 1 .. Ring
                  /\ rows[Len(rows)] = row
                  /\ \A i \in 1 .. Len(rows) - 1 : rows[i] = v.rows[i + d]
<1>1. Ring \in Nat /\ Ring > 0
  BY RendererAssumption
<1>2. PICK old \in Seq(Rows) : old = v.rows
  BY DEF Views
<1> Append(old, row) \in Seq(Rows)
  OBVIOUS
<1>3. PICK all \in Seq(Rows) : all = Append(old, row)
  OBVIOUS
<1>4. /\ Len(old) \in Nat /\ Len(all) = Len(old) + 1 /\ all[Len(all)] = row
      /\ \A i \in 1 .. Len(old) : all[i] = old[i]
  BY <1>3
<1>5. PICK d \in {0, 1} : d = IF Len(all) > Ring THEN 1 ELSE 0
  OBVIOUS
<1>6. PICK new : new = SubSeq(all, 1 + d, Len(all))
  OBVIOUS
<1>7. /\ new \in Seq(Rows) /\ Len(new) = Len(all) - d
      /\ \A i \in 1 .. Len(new) : new[i] = all[i + d]
  <2>1. CASE d = 0
    BY <1>4, <1>6, <2>1
  <2>2. CASE d = 1
    BY <1>4, <1>6, <2>2
  <2> QED BY <2>1, <2>2
<1>8. Appended(v, row) = [v EXCEPT !.rows = new]
  BY <1>2, <1>3, <1>5, <1>6 DEF Appended
<1>9. /\ Appended(v, row) \in Views /\ Appended(v, row).id = v.id
      /\ Appended(v, row).status = v.status /\ Appended(v, row).rows = new
  BY <1>7, <1>8 DEF Views
<1>10. Len(new) \in 1 .. Ring
  BY <1>1, <1>2, <1>4, <1>5, <1>7
<1>11. new[Len(new)] = row
  <2>1. Len(new) \in 1 .. Len(new) /\ Len(new) + d = Len(all)
    BY <1>4, <1>7, <1>10
  <2> QED BY <1>4, <1>7, <2>1
<1>12. ASSUME NEW i \in 1 .. Len(new) - 1 PROVE new[i] = old[i + d]
  <2>1. i \in 1 .. Len(new) /\ i + d \in 1 .. Len(old)
    BY <1>4, <1>7, <1>10
  <2> QED BY <1>4, <1>7, <2>1
<1>13. /\ Len(new) = Len(v.rows) + 1 - d /\ Len(new) \in 1 .. Ring /\ new[Len(new)] = row
       /\ \A i \in 1 .. Len(new) - 1 : new[i] = v.rows[i + d]
  BY <1>2, <1>4, <1>7, <1>10, <1>11, <1>12
<1> QED BY <1>9, <1>13

\* What a view becomes: nothing, or one row more.
LEMMA LogIngested ==
  ASSUME ViewTyped, NEW e \in Events
  PROVE  /\ IngestLog(e) \in Views /\ IngestLog(e).id = view.id /\ Len(IngestLog(e).rows) <= Ring
         /\ view = NoView => IngestLog(e) = NoView
         /\ (e.kind # "reset" /\ e.id # <<Log, view.id>>) => IngestLog(e) = view
         /\ (view # NoView /\ (e.kind = "reset" \/ e.id = <<Log, view.id>>)) =>
              \E row \in Rows :
                /\ (row.kind = "line") <=> (e.kind = "line")
                /\ (row.kind = "line") => row.n = e.n
                /\ IngestLog(e).rows = Appended(view, row).rows
<1>1. view \in Views /\ Len(view.rows) <= Ring
  BY DEF ViewTyped
<1>2. CASE view = NoView
  BY <1>1, <1>2 DEF IngestLog
<1>3. CASE view # NoView /\ e.kind = "reset"
  <2>1. Row("gap", 0) \in Rows /\ Row("gap", 0).kind = "gap"
    BY DEF Row, Rows, RowKinds
  <2>2. IngestLog(e) = Appended(view, Row("gap", 0))
    BY <1>3 DEF IngestLog
  <2>3. Len(Appended(view, Row("gap", 0)).rows) <= Ring
    BY <1>1, <2>1, RowAppended, RendererAssumption
  <2> QED BY <1>1, <1>3, <2>1, <2>2, <2>3, RowAppended
<1>4. CASE view # NoView /\ e.kind # "reset" /\ e.id # <<Log, view.id>>
  BY <1>1, <1>4 DEF IngestLog
<1>5. CASE view # NoView /\ e.kind # "reset" /\ e.id = <<Log, view.id>>
  <2>1. e.kind \in LogKinds /\ e.n \in Nat
    <3>1. e.id[1] = Log /\ e.id[2] = view.id /\ view.id > 0 /\ view.id \in Nat
      BY <1>5 DEF ViewTyped, Views
    <3>2. e.kind \notin AgentKinds
      <4>1. e.kind \in AgentKinds => e.id[2] = 0
        BY EventShape
      <4> QED BY <3>1, <4>1
    <3>3. e.kind \notin MonitorEvents
      BY <3>1, EventShape, Numbers DEF Id
    <3> QED BY <3>2, <3>3, EventShape
  <2>2. CASE e.kind = "line"
    <3>1. Row("line", e.n) \in Rows /\ Row("line", e.n).kind = "line" /\ Row("line", e.n).n = e.n
      BY <2>1 DEF Row, Rows, RowKinds, LogKinds
    <3>2. IngestLog(e) = Appended(view, Row("line", e.n))
      BY <1>5, <2>2 DEF IngestLog
    <3>3. Len(Appended(view, Row("line", e.n)).rows) <= Ring
      BY <1>1, <3>1, RowAppended, RendererAssumption
    <3> QED BY <1>1, <1>5, <2>2, <3>1, <3>2, <3>3, RowAppended
  <2>3. CASE e.kind # "line"
    <3> e.kind \in RowKinds
      BY <2>1 DEF RowKinds
    <3> Row(e.kind, 0) \in Rows /\ Row(e.kind, 0).kind = e.kind
      BY DEF Row, Rows
    <3>1. PICK row \in Rows : row = Row(e.kind, 0) /\ row.kind = e.kind
      OBVIOUS
    <3>2. PICK v \in Views : v = Appended(view, row)
      BY <1>1, RowAppended
    <3>3. PICK to \in {"active", "deleted", "error", "closed"} :
            to = CASE e.kind = "rotated" -> "active" [] e.kind = "truncated" -> view.status
                   [] OTHER -> e.kind
      BY <1>1, <2>1, <2>3 DEF LogKinds, Views
    <3>4. IngestLog(e) = [v EXCEPT !.status = to]
      BY <1>5, <2>3, <3>1, <3>2, <3>3 DEF IngestLog
    <3>5. IngestLog(e) \in Views /\ IngestLog(e).id = v.id /\ IngestLog(e).rows = v.rows
      BY <3>4 DEF Views
    <3>6. v.id = view.id /\ Len(v.rows) <= Ring
      BY <1>1, <3>2, RowAppended, RendererAssumption
    <3> QED BY <1>5, <2>3, <3>1, <3>2, <3>5, <3>6
  <2> QED BY <2>2, <2>3
<1> QED BY <1>2, <1>3, <1>4, <1>5

\* Each step of the renderer is one of the feed, or none.
LEMMA RendererFeed ==
  ASSUME FeedTyped, Asking, RendererNext
  PROVE  FeedTyped' /\ Asking' /\ watch' \in {watch, watch + 1}
<1> USE DEF lists, logs
<1>1. ASSUME UNCHANGED feed PROVE FeedTyped' /\ Asking' /\ watch' = watch
  BY <1>1 DEF feed, FeedTyped, Asking, Up
<1>2. ASSUME UNCHANGED asks PROVE Asking'
  BY <1>2 DEF Asking
<1>3. CASE Refresh
  <2>1. Asking'
    BY <1>3, AskKeeps DEF Refresh
  <2>2. FeedTyped' /\ watch' = watch
    BY <1>3 DEF Refresh, FeedTyped, Up
  <2> QED BY <2>1, <2>2
<1>4. CASE Changed
  BY <1>2, <1>4, MonitorKeeps DEF Changed
<1>5. ASSUME NEW s \in Slots, ListAnswered(s) \/ Refreshed(s) \/ RefreshFails(s)
      PROVE  FeedTyped' /\ Asking' /\ watch' = watch
  <2>1. CASE ListAnswered(s)
    BY <2>1, AnswerKeeps DEF ListAnswered
  <2>2. CASE Refreshed(s)
    <3>1. Asking'
      BY <2>2, ReleaseKeeps DEF Refreshed
    <3>2. FeedTyped' /\ watch' = watch
      BY <2>2 DEF Refreshed, FeedTyped, Up
    <3> QED BY <3>1, <3>2
  <2>3. CASE RefreshFails(s)
    BY <2>3, FailKeeps DEF RefreshFails
  <2> QED BY <1>5, <2>1, <2>2, <2>3
<1>6. CASE Watch \/ Unwatch
  BY <1>2, <1>6, WatchKeeps
<1>7. CASE Open \/ AddWatch \/ RemoveWatch \/ Reissue \/ OnReconcile
  BY <1>1, <1>6, <1>7 DEF Open, AddWatch, RemoveWatch, Reissue, OnReconcile
<1>8. CASE OnRoutedEvent
  BY <1>2, <1>8, ReadKeeps DEF OnRoutedEvent, Read
<1>9. CASE Begins
  BY <1>2, <1>9, LifeKeeps DEF Begins, Start
<1>10. CASE Gone
  BY <1>2, <1>10, LifeKeeps DEF Gone, Exit
<1>11. CASE WakesUp \/ Overruns \/ Sheds
  BY <1>2, <1>11, SteersKeeps DEF WakesUp, Overruns, Sheds
<1>12. CASE Elsewhere
  <2>1. CASE Sigterm \/ Retry
    BY <1>2, <2>1, LifeKeeps DEF Sigterm, Retry
  <2>2. CASE Reconnect
    BY <1>2, <2>2, SteersKeeps
  <2>3. CASE Cut
    BY <1>2, <2>3, ReadKeeps DEF Cut
  <2>4. CASE LogEvent
    BY <1>2, <2>4, LogKeeps
  <2>5. CASE \E m \in Monitors : Turn(m)
    BY <1>2, <2>5, MonitorKeeps
  <2> QED BY <1>12, <2>1, <2>2, <2>3, <2>4, <2>5 DEF Elsewhere
<1>13. CASE OnRoutedEventAgain
  BY <1>2, <1>13, AgainKeeps DEF OnRoutedEventAgain
<1> QED BY <1>3, <1>4, <1>5, <1>7, <1>8, <1>9, <1>10, <1>11, <1>12, <1>13 DEF RendererNext

LEMMA RendererEchoes == RendererTyped /\ Echoing /\ [RendererNext]_renderer => Echoing'
<1> SUFFICES ASSUME RendererTyped, Echoing, [RendererNext]_renderer PROVE Echoing'
  OBVIOUS
<1>1. FeedTyped
  BY DEF RendererTyped
<1>2. CASE UNCHANGED <<echoes, run, watch>>
  BY <1>2 DEF Echoing
<1>3. CASE Refresh \/ AddWatch \/ OnReconcile \/ UNCHANGED renderer
           \/ \E s \in Slots : Refreshed(s)
  BY <1>2, <1>3 DEF Refresh, AddWatch, OnReconcile, Refreshed, renderer, feed
<1>4. CASE Changed \/ Open \/ Reissue
  BY <1>1, <1>4, SteadyEchoes DEF Changed, Open, Reissue
<1>5. CASE RemoveWatch
  BY <1>1, <1>2, <1>5, SteadyEchoes DEF RemoveWatch, feed
<1>6. ASSUME NEW s \in Slots, ListAnswered(s) \/ RefreshFails(s) PROVE Echoing'
  BY <1>1, <1>6, StreamEchoes DEF ListAnswered, RefreshFails
<1>7. CASE OnRoutedEvent \/ OnRoutedEventAgain \/ WakesUp \/ Overruns \/ Sheds
  BY <1>1, <1>7, StreamEchoes DEF OnRoutedEvent, OnRoutedEventAgain, WakesUp, Overruns, Sheds
<1>8. CASE Begins \/ Gone
  BY <1>1, <1>8, LifeEchoes DEF Begins, Gone
<1>9. CASE Elsewhere
  BY <1>1, <1>9, LifeEchoes, SteadyEchoes, StreamEchoes DEF Elsewhere
<1> QED BY <1>3, <1>4, <1>5, <1>6, <1>7, <1>8, <1>9 DEF RendererNext

LEMMA ListTypes ==
  ASSUME RendererTyped, RendererNext
  PROVE  ListTyped'
<1> USE DEF lists
<1>1. CASE UNCHANGED lists
  BY <1>1 DEF RendererTyped, ListTyped
<1>2. CASE Refresh \/ Changed \/ OnReconcile
  BY <1>2 DEF Refresh, Changed, OnReconcile, RendererTyped, ListTyped
<1>3. ASSUME NEW s \in Slots, ListAnswered(s) \/ RefreshFails(s)
      PROVE  ListTyped'
  BY <1>3 DEF ListAnswered, RefreshFails, RendererTyped, ListTyped
<1>4. ASSUME NEW s \in Slots, Refreshed(s)
      PROVE  ListTyped'
  <2>1. asks[s].list \in [Id -> States]
    BY DEF RendererTyped, Asking, Requests
  <2> QED BY <1>4, <2>1 DEF Refreshed, RendererTyped, ListTyped
<1>5. CASE OnRoutedEvent
  <2>1. shownMonitors' \in [Id -> States]
    BY <1>5, IngestIsResult, ResultType DEF OnRoutedEvent, Route, RendererTyped, ListTyped
  <2> QED BY <1>5, <2>1 DEF OnRoutedEvent, RendererTyped, ListTyped
<1>8. CASE OnRoutedEventAgain
  <2>1. PICK e \in echoes :
          /\ shownMonitors' = IngestMonitor(e) /\ UNCHANGED <<refreshes, clean>>
          /\ doubtful' = (doubtful \/ shownMonitors' # shownMonitors)
    BY <1>8 DEF OnRoutedEventAgain, Route
  <2>2. shownMonitors' \in [Id -> States]
    BY <2>1, IngestIsResult, ResultType DEF RendererTyped, ListTyped
  <2> QED BY <2>1, <2>2 DEF RendererTyped, ListTyped
<1>6. CASE WakesUp \/ Overruns
  BY <1>6 DEF WakesUp, Overruns, Loses, RendererTyped, ListTyped
<1>7. CASE Open \/ AddWatch \/ RemoveWatch \/ Reissue \/ Begins \/ Gone \/ Sheds \/ Elsewhere
  <2>1. UNCHANGED lists
    BY <1>7 DEF Open, AddWatch, RemoveWatch, Reissue, Begins, Gone, Sheds, Elsewhere
  <2> QED BY <1>1, <2>1
<1> QED BY <1>2, <1>3, <1>4, <1>5, <1>6, <1>7, <1>8 DEF RendererNext

LEMMA LogsTypes ==
  ASSUME RendererTyped, Echoing, RendererNext
  PROVE  LogsTyped'
<1> USE DEF logs
<1>0. /\ watch \in Nat /\ watch' \in {watch, watch + 1} /\ view \in Views /\ Ring \in Nat /\ Ring > 0
      /\ view.id \in Nat
  BY RendererFeed, RendererAssumption, Numbers
     DEF RendererTyped, LogsTyped, ViewTyped, FeedTyped, Views
<1>1. ASSUME UNCHANGED view PROVE ViewTyped'
  BY <1>0, <1>1 DEF RendererTyped, LogsTyped, ViewTyped
<1>2. ASSUME UNCHANGED logs PROVE LogsTyped'
  BY <1>0, <1>1, <1>2 DEF RendererTyped, LogsTyped
<1>3. CASE Refresh \/ Changed \/ Overruns \/ Elsewhere
           \/ \E s \in Slots : ListAnswered(s) \/ Refreshed(s) \/ RefreshFails(s)
  BY <1>2, <1>3 DEF Refresh, Changed, Overruns, Elsewhere, ListAnswered, Refreshed, RefreshFails
<1>4. CASE Open \/ Reissue
  <2>1. watch' > 0
    BY <1>4, WatchKeeps DEF Open, Reissue, RendererTyped
  <2> QED BY <1>1, <1>4, <2>1 DEF Open, Reissue, RendererTyped, LogsTyped
<1>5. CASE AddWatch
  <2>1. view' = [id |-> watch, rows |-> <<>>, status |-> "active"] /\ watch > 0 /\ watch' = watch
    BY <1>5 DEF AddWatch, feed, RendererTyped, LogsTyped
  <2>2. <<>> \in Seq(Rows) /\ Len(<<>>) = 0
    OBVIOUS
  <2>3. ViewTyped'
    BY <1>0, <2>1, <2>2 DEF ViewTyped, Views
  <2> QED BY <1>5, <2>1, <2>3 DEF AddWatch, RendererTyped, LogsTyped
<1>6. CASE RemoveWatch
  <2>1. ViewTyped'
    BY <1>0, <1>6, NoViewType DEF RemoveWatch, ViewTyped
  <2> QED BY <1>0, <1>6, <2>1 DEF RemoveWatch, RendererTyped, LogsTyped
<1>7. CASE OnReconcile
  <2>1. ViewTyped'
    <3>1. CASE view = NoView
      BY <1>1, <1>7, <3>1 DEF OnReconcile
    <3>2. CASE view # NoView
      <4>1. Row("resumed", 0) \in Rows
        BY DEF Row, Rows, RowKinds
      <4>2. PICK v \in Views : v = Appended(view, Row("resumed", 0)) /\ Len(v.rows) <= Ring
        BY <1>0, <4>1, RowAppended DEF RendererTyped, LogsTyped, ViewTyped
      <4>3. PICK id \in 1 .. watch : id = IF reconciling = "issued" THEN watch ELSE view.id
        BY <1>0, <3>2 DEF RendererTyped, LogsTyped, ViewTyped
      <4>4. view' = [v EXCEPT !.id = id, !.status = "active"] /\ watch' = watch
        BY <1>7, <3>2, <4>2, <4>3 DEF OnReconcile, RemapWatches, feed
      <4>5. view' \in Views /\ view'.id = id /\ view'.rows = v.rows
        BY <1>0, <4>2, <4>3, <4>4 DEF Views
      <4> QED BY <1>0, <4>2, <4>3, <4>4, <4>5 DEF ViewTyped
    <3> QED BY <3>1, <3>2
  <2> QED BY <1>7, <2>1 DEF OnReconcile, feed, RendererTyped, LogsTyped
<1>8. CASE OnRoutedEvent
  <2>1. stream[1] \in Events
    BY <1>8, TailTyped DEF OnRoutedEvent, RendererTyped, FeedTyped
  <2>2. view' = IngestLog(stream[1]) /\ watch' = watch
    BY <1>8 DEF OnRoutedEvent, Route, Read
  <2>3. ViewTyped'
    BY <1>0, <2>1, <2>2, LogIngested DEF RendererTyped, LogsTyped, ViewTyped
  <2> QED BY <1>8, <2>2, <2>3 DEF OnRoutedEvent, RendererTyped, LogsTyped
<1>11. CASE OnRoutedEventAgain
  <2>1. PICK e \in echoes :
          /\ view' = IngestLog(e) /\ ReadAgain(e) /\ UNCHANGED <<opening, reconciling>>
          /\ skipped' = (skipped \/ (e.kind = "line" /\ view' # view))
    BY <1>11 DEF OnRoutedEventAgain, Route
  <2>2. e \in Events /\ watch' = watch
    BY <2>1, AgainKeeps DEF Echoing, RendererTyped
  <2>3. ViewTyped'
    BY <1>0, <2>1, <2>2, LogIngested DEF RendererTyped, LogsTyped, ViewTyped
  <2> QED BY <2>1, <2>2, <2>3 DEF RendererTyped, LogsTyped
<1>9. CASE Begins \/ Gone
  <2>1. /\ UNCHANGED <<view, skipped>> /\ (opening' => opening) /\ opening' \in BOOLEAN
        /\ reconciling' \in {"no", "due"}
    <3> opening \in BOOLEAN
      BY DEF RendererTyped, LogsTyped
    <3>1. CASE Begins
      BY <3>1 DEF Begins
    <3>2. CASE Gone
      BY <3>2 DEF Gone
    <3> QED BY <1>9, <3>1, <3>2
  <2>2. ViewTyped'
    BY <1>1, <2>1
  <2> QED BY <1>0, <2>1, <2>2 DEF RendererTyped, LogsTyped
<1>10. CASE WakesUp \/ Sheds
  <2>1. UNCHANGED <<view, opening, reconciling>> /\ skipped' \in BOOLEAN
    BY <1>10 DEF WakesUp, Sheds, RendererTyped, LogsTyped
  <2>2. ViewTyped'
    BY <1>1, <2>1
  <2> QED BY <1>0, <2>1, <2>2 DEF RendererTyped, LogsTyped
<1> QED BY <1>3, <1>4, <1>5, <1>6, <1>7, <1>8, <1>9, <1>10, <1>11 DEF RendererNext

LEMMA InitRendererTyped == RendererInit => RendererTyped
<1> SUFFICES ASSUME RendererInit PROVE RendererTyped
  OBVIOUS
<1>1. FeedTyped /\ Asking
  BY FeedInitTyped DEF RendererInit
<1>2. ListTyped
  BY NothingType DEF RendererInit, ListTyped
<1>3. view = NoView /\ watch = 0 /\ Len(view.rows) = 0 /\ Ring \in Nat
  BY NoViewType, RendererAssumption DEF RendererInit, FeedInit
<1>4. LogsTyped
  <2>1. ViewTyped
    BY <1>3, NoViewType DEF ViewTyped
  <2> QED BY <2>1 DEF RendererInit, LogsTyped
<1> QED BY <1>1, <1>2, <1>4 DEF RendererTyped

LEMMA NextRendererTyped ==
  RendererTyped /\ Echoing /\ [RendererNext]_renderer => RendererTyped'
<1> SUFFICES ASSUME RendererTyped, Echoing, [RendererNext]_renderer PROVE RendererTyped'
  OBVIOUS
<1>1. CASE RendererNext
  <2>1. FeedTyped' /\ Asking'
    BY <1>1, RendererFeed DEF RendererTyped
  <2> QED BY <1>1, <2>1, ListTypes, LogsTypes DEF RendererTyped
<1>2. CASE UNCHANGED renderer
  <2>1. FeedTyped' /\ Asking'
    BY <1>2 DEF renderer, feed, RendererTyped, FeedTyped, Asking, Up
  <2>2. ListTyped'
    BY <1>2 DEF renderer, RendererTyped, ListTyped
  <2>3. LogsTyped'
    BY <1>2 DEF renderer, feed, RendererTyped, LogsTyped, ViewTyped
  <2> QED BY <2>1, <2>2, <2>3 DEF RendererTyped
<1> QED BY <1>1, <1>2

-----------------------------------------------------------------------------
(* Renderer: the list.  When nothing is under way the unread events lead   *)
(* from what is shown to what the agent has; so they do from an answer     *)
(* that nothing has overtaken.                                             *)

Follows ==
  (/\ Up /\ reconciling = "no" /\ ~refreshes /\ ~doubtful
   /\ \A s \in Slots : asks[s].at = "free")
    => Leads(shownMonitors, Listed, stream)

CleanLeads ==
  \A s \in clean : asks[s].at = "answered" /\ (Up => Leads(asks[s].list, Listed, stream))

Unborn ==
  run = 0 =>
    /\ status = "starting" /\ shownMonitors = Nothing /\ stream = <<>>
    /\ \A s \in Slots : asks[s].at = "free"

ListInv == Follows /\ CleanLeads /\ Unborn

Carries == \A a : Leads(a, Listed, stream) => Leads(a, Listed', stream')

LEMMA ListCarried ==
  ASSUME RendererTyped, ListInv, UNCHANGED <<shownMonitors, doubtful, clean, asks, run>>,
         Up' => /\ Up /\ Carries /\ (refreshes => refreshes')
                /\ (reconciling' = "no" => reconciling = "no" \/ refreshes'),
         run = 0 => UNCHANGED <<status, stream>>
  PROVE  ListInv'
<1>1. Follows'
  BY DEF Carries, ListInv, Follows
<1>2. CleanLeads'
  BY DEF Carries, ListInv, CleanLeads
<1>3. Unborn'
  BY DEF ListInv, Unborn
<1> QED BY <1>1, <1>2, <1>3 DEF ListInv

LEMMA SameListed == UNCHANGED <<run, serves>> => Listed' = Listed
BY DEF Listed

LEMMA CarriesSame ==
  ASSUME UNCHANGED <<run, serves, stream>>
  PROVE  Carries
BY SameListed DEF Carries

\* Events that are not of a monitor change no list.
LEMMA CarriesOther ==
  ASSUME FeedTyped, UNCHANGED <<run, serves>>, NEW e \in Events, e.kind \notin MonitorEvents,
         stream' = Append(stream, e)
  PROVE  Carries
<1>1. Listed' = Listed /\ Result(Listed, e) = Listed
  BY SameListed, ListedType, ResultIdle
<1>2. stream \in Seq(Events)
  BY DEF FeedTyped
<1>3. ASSUME NEW a, Leads(a, Listed, stream) PROVE Leads(a, Listed', stream')
  <2>1. Leads(a, Result(Listed, e), Append(stream, e))
    BY <1>2, <1>3, LeadsAppend
  <2> QED BY <1>1, <2>1
<1> QED BY <1>3 DEF Carries

\* The event says what turned.
LEMMA TurnResult ==
  ASSUME FeedTyped, NEW m \in Monitors, Turn(m)
  PROVE  \E kind \in MonitorEvents :
           /\ stream' = Append(stream, OfMonitor(kind, m)) /\ OfMonitor(kind, m) \in Events
           /\ Listed' = Result(Listed, OfMonitor(kind, m))
<1>1. PICK kind \in MonitorEvents, s \in States \ {"none"} :
        /\ stream' = Append(stream, OfMonitor(kind, m)) /\ serves' = [serves EXCEPT ![m] = s]
        /\ s = CASE kind = "ok" /\ serves[m] = "unknown" -> "healthy"
                 [] kind = "unhealthy" -> "unhealthy" [] kind = "recovered" -> "healthy"
                 [] OTHER -> serves[m]
  <2>1. serves[m] \in States \ {"none"}
    BY DEF Turn, FeedTyped
  <2>2. CASE stream' = Append(stream, OfMonitor("ok", m))
             /\ serves' = [serves EXCEPT ![m] = IF serves[m] = "unknown" THEN "healthy" ELSE serves[m]]
    BY <2>1, <2>2 DEF MonitorEvents, States
  <2>3. CASE stream' = Append(stream, OfMonitor("unhealthy", m))
             /\ serves' = [serves EXCEPT ![m] = "unhealthy"]
    BY <2>1, <2>3 DEF MonitorEvents, States
  <2>4. CASE stream' = Append(stream, OfMonitor("recovered", m))
             /\ serves' = [serves EXCEPT ![m] = "healthy"]
    BY <2>1, <2>4 DEF MonitorEvents, States
  <2> QED BY <2>2, <2>3, <2>4 DEF Turn, Becomes, Publish
<1>2. Up /\ run' = run /\ serves[m] # "none" /\ serves \in [Monitors -> States]
  BY DEF Turn, Steady, Up, FeedTyped
<1>3. OfMonitor(kind, m) \in Events /\ <<m, run>> \in Id
  BY <1>2, ResultEvent
<1>4. PICK e : e = OfMonitor(kind, m) /\ e.kind = kind /\ e.id = <<m, run>>
  <2>1. OfMonitor(kind, m).kind = kind /\ OfMonitor(kind, m).id = <<m, run>>
    BY DEF OfMonitor, Event
  <2> QED BY <2>1
<1>5. ASSUME NEW i \in Id PROVE Listed'[i] = Result(Listed, e)[i]
  <2>1. i = <<i[1], i[2]>> /\ i[1] \in Monitors
    BY DEF Id
  <2>2. /\ Listed[i] = IF i[2] = run THEN serves[i[1]] ELSE "none"
        /\ Listed'[i] = IF i[2] = run THEN serves'[i[1]] ELSE "none"
    BY <1>2 DEF Listed
  <2>3. CASE i = e.id
    <3>1. i[1] = m /\ i[2] = run
      BY <1>4, <2>3
    <3>2. Listed[i] = serves[m] /\ Listed'[i] = s
      BY <1>1, <1>2, <2>2, <3>1
    <3>3. Result(Listed, e)[i] = s
      BY <1>1, <1>2, <1>4, <2>3, <3>2 DEF Result
    <3> QED BY <3>2, <3>3
  <2>4. CASE i # e.id
    <3>1. Result(Listed, e)[i] = Listed[i]
      BY <2>4 DEF Result
    <3>2. i[2] = run => i[1] # m
      BY <1>4, <2>1, <2>4
    <3> QED BY <1>1, <1>2, <2>1, <2>2, <3>1, <3>2
  <2> QED BY <2>3, <2>4
<1>6. Listed' = Result(Listed, e)
  BY <1>5 DEF Listed, Result
<1> QED BY <1>1, <1>3, <1>4, <1>6

LEMMA CarriesTurn ==
  ASSUME FeedTyped, NEW m \in Monitors, Turn(m)
  PROVE  Carries
<1>1. PICK kind \in MonitorEvents :
        /\ stream' = Append(stream, OfMonitor(kind, m)) /\ OfMonitor(kind, m) \in Events
        /\ Listed' = Result(Listed, OfMonitor(kind, m))
  BY TurnResult
<1>2. stream \in Seq(Events)
  BY DEF FeedTyped
<1>3. ASSUME NEW a, Leads(a, Listed, stream) PROVE Leads(a, Listed', stream')
  BY <1>1, <1>2, <1>3, LeadsAppend
<1> QED BY <1>3 DEF Carries

LEMMA CarriesShed ==
  ASSUME FeedTyped, Shed
  PROVE  Carries
<1>1. PICK at \in DOMAIN stream : stream[at].kind = "line" /\ stream' = Seqs!RemoveAt(stream, at)
  BY DEF Shed
<1>2. stream \in Seq(Events) /\ stream[at].kind \notin MonitorEvents /\ Listed' = Listed
  BY <1>1, SameListed DEF FeedTyped, MonitorEvents, Shed, Steers
<1>3. ASSUME NEW a, Leads(a, Listed, stream) PROVE Leads(a, Listed', stream')
  BY <1>1, <1>2, <1>3, LeadsRemoved
<1> QED BY <1>3 DEF Carries

\* What is lost tells of no monitor.
LEMMA CarriesLoss ==
  ASSUME FeedTyped, UNCHANGED <<run, serves>>, Bare(stream), stream' \in Seq(Events), Bare(stream')
  PROVE  Carries
<1>1. stream \in Seq(Events) /\ Listed' = Listed /\ Listed \in [Id -> States]
  BY SameListed, ListedType DEF FeedTyped
<1>2. ASSUME NEW a, Leads(a, Listed, stream) PROVE Leads(a, Listed', stream')
  <2>1. a = Listed
    BY <1>1, <1>2, LeadsNowhere
  <2> QED BY <1>1, <2>1, LeadsNone
<1> QED BY <1>2 DEF Carries

LEMMA FreshBare == Bare(<<Ready>>) /\ Bare(<<OfAgent("reset"), Ready>>)
BY DEF Bare, Ready, OfAgent, Event, MonitorEvents

LEMMA RequestsKeepList ==
  ASSUME RendererTyped, ListInv,
         Refresh \/ Changed \/ \E s \in Slots : ListAnswered(s) \/ Refreshed(s) \/ RefreshFails(s)
  PROVE  ListInv'
<1>1. Up => run > 0
  BY DEF RendererTyped, FeedTyped
<1>2. CASE Refresh
  <2>1. PICK s \in Slots : /\ asks[s].at = "free" /\ asks'[s].at = "sent"
                           /\ \A x \in Slots \ {s} : asks'[x] = asks[x]
    BY <1>2, AskKeeps DEF Refresh, RendererTyped
  <2>2. /\ UNCHANGED <<status, run, serves, stream, shownMonitors, doubtful, clean>> /\ Up
        /\ Listed' = Listed /\ s \notin clean
    BY <1>2, <2>1, SameListed DEF Refresh, ListInv, CleanLeads
  <2>3. Follows'
    BY <2>1 DEF Follows
  <2>4. CleanLeads'
    BY <2>1, <2>2 DEF ListInv, CleanLeads, Up, RendererTyped, ListTyped
  <2>5. Unborn'
    BY <1>1, <2>2 DEF Unborn
  <2> QED BY <2>3, <2>4, <2>5 DEF ListInv
<1>3. CASE Changed
  <2>1. (refreshes' = TRUE \/ doubtful' = TRUE) /\ clean' = {} /\ UNCHANGED run /\ Up
    BY <1>3 DEF Changed, Add, Remove, Edit, Steady, Up
  <2> QED BY <1>1, <2>1 DEF ListInv, Follows, CleanLeads, Unborn
<1>4. ASSUME NEW s \in Slots, ListAnswered(s) PROVE ListInv'
  <2>1. /\ UNCHANGED <<status, run, serves, stream>> /\ asks[s].at = "sent"
        /\ asks'[s] = [at |-> "answered", list |-> Listed]
        /\ \A x \in Slots \ {s} : asks'[x] = asks[x]
    BY <1>4, AnswerKeeps DEF ListAnswered, RendererTyped
  <2>2. Up /\ Listed' = Listed /\ s \notin clean
    BY <1>4, <2>1, SameListed DEF ListAnswered, Answer, Up, ListInv, CleanLeads
  <2>3. Follows'
    BY <2>1 DEF Follows
  <2>4. ASSUME NEW x \in clean'
        PROVE  asks'[x].at = "answered" /\ Leads(asks'[x].list, Listed, stream)
    <3>1. CASE x = s
      <4>1. Bare(stream)
        BY <1>4, <2>2, <2>4, <3>1 DEF ListAnswered, Untold, Bare
      <4>2. Leads(Listed, Listed, stream)
        BY <4>1, ListedType, LeadsNone DEF RendererTyped, FeedTyped
      <4> QED BY <2>1, <3>1, <4>2
    <3>2. CASE x # s
      <4>1. x \in clean /\ x \in Slots \ {s}
        BY <1>4, <2>4, <3>2 DEF ListAnswered, RendererTyped, ListTyped
      <4> QED BY <2>1, <2>2, <4>1 DEF ListInv, CleanLeads
    <3> QED BY <3>1, <3>2
  <2>5. CleanLeads'
    BY <2>1, <2>2, <2>4 DEF CleanLeads
  <2>6. Unborn'
    BY <1>1, <2>1, <2>2 DEF Unborn
  <2> QED BY <2>3, <2>5, <2>6 DEF ListInv
<1>5. ASSUME NEW s \in Slots, Refreshed(s) PROVE ListInv'
  <2>1. /\ UNCHANGED <<status, run, serves, stream>> /\ asks[s].at = "answered"
        /\ shownMonitors' = asks[s].list /\ clean' = {} /\ doubtful' = (s \notin clean)
    BY <1>5 DEF Refreshed
  <2>2. Listed' = Listed /\ (Up' <=> Up)
    BY <2>1, SameListed DEF Up
  <2>3. Follows'
    BY <2>1, <2>2 DEF Follows, ListInv, CleanLeads
  <2>4. Unborn'
    BY <2>1 DEF ListInv, Unborn
  <2> QED BY <2>1, <2>3, <2>4 DEF ListInv, CleanLeads
<1>6. ASSUME NEW s \in Slots, RefreshFails(s) PROVE ListInv'
  <2>1. /\ UNCHANGED <<status, run, serves, stream>> /\ asks[s].at # "free"
        /\ \A x \in Slots \ {s} : asks'[x] = asks[x]
        /\ doubtful' = TRUE /\ clean' = clean \ {s}
    BY <1>6, FailKeeps DEF RefreshFails, Fail, RendererTyped
  <2>2. Listed' = Listed /\ (Up' <=> Up) /\ clean \subseteq Slots
    BY <2>1, SameListed DEF Up, RendererTyped, ListTyped
  <2>3. CleanLeads'
    BY <2>1, <2>2 DEF ListInv, CleanLeads
  <2>4. Unborn'
    BY <2>1 DEF ListInv, Unborn
  <2> QED BY <2>1, <2>3, <2>4 DEF ListInv, Follows
<1> QED BY <1>2, <1>3, <1>4, <1>5, <1>6

LEMMA LogsKeepList ==
  ASSUME RendererTyped, ListInv, Open \/ AddWatch \/ RemoveWatch \/ Reissue \/ OnReconcile
  PROVE  ListInv'
<1>1. /\ UNCHANGED <<shownMonitors, doubtful, clean>> /\ (refreshes => refreshes')
      /\ (reconciling' = "no" => reconciling = "no" \/ refreshes')
  BY DEF Open, AddWatch, RemoveWatch, Reissue, OnReconcile, lists
<1>2. UNCHANGED <<status, run, serves, stream, asks>>
  <2>1. UNCHANGED feed \/ Watch \/ Unwatch
    BY DEF Open, AddWatch, RemoveWatch, Reissue, OnReconcile
  <2> QED BY <2>1 DEF feed, Watch, Unwatch, Steady, NoEvent
<1>3. Carries /\ (Up' => Up)
  BY <1>2, CarriesSame DEF Up
<1> QED BY <1>1, <1>2, <1>3, ListCarried

LEMMA EventKeepsList ==
  ASSUME RendererTyped, ListInv, OnRoutedEvent
  PROVE  ListInv'
<1>1. /\ stream # <<>> /\ stream' = Tail(stream) /\ stream \in Seq(Events)
      /\ UNCHANGED <<status, run, serves, asks, refreshes, doubtful, reconciling>>
      /\ shownMonitors' = Result(shownMonitors, stream[1])
      /\ clean' = IF stream[1].kind \in MonitorEvents THEN {} ELSE clean
  BY IngestIsResult DEF OnRoutedEvent, Read, Route, RendererTyped, FeedTyped
<1>2. Listed' = Listed /\ (Up' <=> Up)
  BY <1>1, SameListed DEF Up
<1>3. Follows'
  <2> SUFFICES ASSUME Leads(shownMonitors, Listed, stream)
               PROVE  Leads(Result(shownMonitors, stream[1]), Listed, Tail(stream))
    BY <1>1, <1>2 DEF ListInv, Follows
  <2> QED BY <1>1, LeadsTail
<1>4. ASSUME NEW s \in clean'
      PROVE  asks[s].at = "answered" /\ (Up => Leads(asks[s].list, Listed, Tail(stream)))
  <2>1. s \in clean /\ stream[1].kind \notin MonitorEvents
    BY <1>1, <1>4
  <2>2. asks[s].list \in [Id -> States]
    BY <2>1 DEF RendererTyped, ListTyped, Asking, Requests
  <2>3. Result(asks[s].list, stream[1]) = asks[s].list
    BY <2>1, <2>2, ResultIdle
  <2>4. Leads(asks[s].list, Listed, stream) => Leads(Result(asks[s].list, stream[1]), Listed, Tail(stream))
    BY <1>1, LeadsTail
  <2> QED BY <2>1, <2>3, <2>4 DEF ListInv, CleanLeads
<1>5. CleanLeads'
  BY <1>1, <1>2, <1>4 DEF CleanLeads
<1>6. Unborn'
  BY <1>1 DEF ListInv, Unborn
<1> QED BY <1>3, <1>5, <1>6 DEF ListInv

\* An event that comes again casts doubt on what it changes, and on nothing else.
LEMMA AgainKeepsList ==
  ASSUME RendererTyped, Echoing, ListInv, OnRoutedEventAgain
  PROVE  ListInv'
<1>1. PICK e \in echoes :
        /\ ReadAgain(e) /\ UNCHANGED <<refreshes, clean, reconciling>>
        /\ doubtful' = (doubtful \/ shownMonitors' # shownMonitors)
  BY DEF OnRoutedEventAgain
<1>2. UNCHANGED <<status, run, serves, stream, asks>> /\ run # 0
  BY <1>1, AgainKeeps DEF RendererTyped, Echoing
<1>3. Carries /\ (Up' => Up)
  BY <1>2, CarriesSame DEF Up
<1>4. CASE shownMonitors' = shownMonitors
  <2>1. UNCHANGED doubtful
    BY <1>1, <1>4 DEF RendererTyped, ListTyped
  <2> QED BY <1>1, <1>2, <1>3, <1>4, <2>1, ListCarried
<1>5. CASE shownMonitors' # shownMonitors
  <2>1. CleanLeads'
    BY <1>1, <1>2, <1>3 DEF Carries, ListInv, CleanLeads
  <2> QED BY <1>1, <1>2, <1>5, <2>1 DEF ListInv, Follows, Unborn
<1> QED BY <1>4, <1>5

LEMMA AgentKeepsList ==
  ASSUME RendererTyped, ListInv, Begins \/ Gone
  PROVE  ListInv'
<1>1. CASE Begins
  <2>1. /\ \A s \in Slots : asks[s].at = "free"
        /\ stream' = <<Ready>> /\ run' = run + 1 /\ serves' = None /\ UNCHANGED <<asks, shownMonitors, clean>>
        /\ reconciling' = IF run = 0 THEN "no" ELSE "due"
    BY <1>1 DEF Begins, Start, lists, Free
  <2>2. clean' = {}
    BY <2>1 DEF ListInv, CleanLeads, RendererTyped, ListTyped
  <2>3. Follows'
    <3>1. CASE run = 0
      <4>1. shownMonitors' = Nothing
        BY <2>1, <3>1 DEF ListInv, Unborn
      <4>2. Listed' = Nothing
        BY <2>1 DEF Listed, Nothing, None, Id
      <4>3. Leads(Nothing, Nothing, <<Ready>>)
        BY FreshTyped, FreshBare, NothingType, LeadsNone
      <4> QED BY <2>1, <4>1, <4>2, <4>3 DEF Follows
    <3>2. CASE run # 0
      BY <2>1, <3>2 DEF Follows
    <3> QED BY <3>1, <3>2
  <2>4. Unborn'
    BY <2>1 DEF Unborn, RendererTyped, FeedTyped
  <2> QED BY <2>2, <2>3, <2>4 DEF ListInv, CleanLeads
<1>2. CASE Gone
  <2>1. UNCHANGED <<shownMonitors, doubtful, clean, asks, run>> /\ ~Up' /\ run # 0
    BY <1>2 DEF Gone, Exit, lists, Up, RendererTyped, FeedTyped
  <2> QED BY <2>1, ListCarried
<1> QED BY <1>1, <1>2

LEMMA FeedKeepsList ==
  ASSUME RendererTyped, ListInv, WakesUp \/ Overruns \/ Sheds \/ Elsewhere
  PROVE  ListInv'
<1>1. FeedTyped /\ (Up => run # 0)
  BY DEF RendererTyped, FeedTyped
<1>2. CASE WakesUp \/ Overruns
  <2>1. /\ UNCHANGED <<status, run, serves, asks, shownMonitors, refreshes, reconciling>> /\ Loses
        /\ Up /\ stream' \in {<<Ready>>, <<OfAgent("reset"), Ready>>}
    BY <1>2 DEF WakesUp, Overruns, Rewind, Reattach, Overrun, Steers, Up, logs
  <2>2. CASE Untold
    <3>1. doubtful' = TRUE /\ clean' = {}
      BY <2>1, <2>2 DEF Loses
    <3> QED BY <1>1, <2>1, <3>1 DEF ListInv, Follows, CleanLeads, Unborn
  <2>3. CASE ~Untold
    <3>1. UNCHANGED <<doubtful, clean>> /\ Bare(stream)
      BY <2>1, <2>3 DEF Loses, Untold, Bare
    <3>2. stream' \in Seq(Events) /\ Bare(stream')
      BY <2>1, FreshTyped, FreshBare
    <3>3. Carries /\ (Up' => Up)
      BY <1>1, <2>1, <3>1, <3>2, CarriesLoss DEF Up
    <3> QED BY <1>1, <2>1, <3>1, <3>3, ListCarried
  <2> QED BY <2>2, <2>3
<1>3. CASE Sheds
  <2>1. UNCHANGED <<status, run, asks, shownMonitors, refreshes, doubtful, clean, reconciling>> /\ stream # <<>>
    BY <1>3 DEF Sheds, Shed, Steers, lists
  <2>2. Carries /\ (Up' => Up)
    BY <1>1, <1>3, <2>1, CarriesShed DEF Sheds, Up
  <2> QED BY <2>1, <2>2, ListCarried DEF ListInv, Unborn
<1>4. CASE Elsewhere
  <2>1. UNCHANGED <<shownMonitors, refreshes, doubtful, clean, reconciling>>
    BY <1>4 DEF Elsewhere, lists, logs
  <2>2. CASE Retry \/ Cut
    <3>1. UNCHANGED <<run, asks>> /\ ~Up' /\ run # 0
      BY <2>2 DEF Retry, Cut, Up, ListInv, Unborn
    <3> QED BY <2>1, <3>1, ListCarried
  <2>3. CASE Sigterm \/ Reconnect
    <3>1. PICK kind \in {"stopping", "ready"} : stream' = Append(stream, OfAgent(kind))
      BY <2>3 DEF Sigterm, Reconnect, Publish, Ready
    <3>2. OfAgent(kind) \in Events /\ OfAgent(kind).kind \notin MonitorEvents
      BY Numbers, AgentEvent DEF AgentKinds, OfAgent, Event, MonitorEvents
    <3>3. UNCHANGED <<run, asks, serves>> /\ Up
      BY <2>3 DEF Sigterm, Reconnect, Steers, Up
    <3>4. Carries
      BY <1>1, <3>1, <3>2, <3>3, CarriesOther
    <3> QED BY <1>1, <2>1, <3>3, <3>4, ListCarried
  <2>4. CASE LogEvent
    <3>1. UNCHANGED <<status, run, asks, serves>> /\ log # "none" /\ Up
      BY <2>4 DEF LogEvent, Steady, Up
    <3>2. PICK kind \in LogKinds, n \in Nat : stream' = Append(stream, OfWatch(kind, n))
      <4>1. lines + 1 \in Nat
        BY Numbers DEF RendererTyped, FeedTyped
      <4> QED BY <1>1, <2>4, <4>1, LogKeeps
    <3>3. OfWatch(kind, n) \in Events /\ OfWatch(kind, n).kind \notin MonitorEvents
      BY <1>1, <3>1, WatchEvent DEF OfWatch, Event, LogKinds, MonitorEvents
    <3>4. Carries
      BY <1>1, <3>1, <3>2, <3>3, CarriesOther
    <3> QED BY <1>1, <2>1, <3>1, <3>4, ListCarried
  <2>5. ASSUME NEW m \in Monitors, Turn(m) PROVE ListInv'
    <3>1. UNCHANGED <<status, run, asks>> /\ Up
      BY <2>5 DEF Turn, Steady, Up
    <3>2. Carries
      BY <1>1, <2>5, CarriesTurn
    <3> QED BY <1>1, <2>1, <3>1, <3>2, ListCarried
  <2> QED BY <1>4, <2>2, <2>3, <2>4, <2>5 DEF Elsewhere
<1> QED BY <1>2, <1>3, <1>4

LEMMA InitList == RendererInit => ListInv
<1> SUFFICES ASSUME RendererInit PROVE ListInv
  OBVIOUS
<1>1. ~Up /\ clean = {}
  BY DEF RendererInit, FeedInit, Up
<1>2. Unborn
  BY DEF RendererInit, FeedInit, Unborn, Free
<1> QED BY <1>1, <1>2 DEF ListInv, Follows, CleanLeads

LEMMA NextList == RendererTyped /\ Echoing /\ ListInv /\ [RendererNext]_renderer => ListInv'
<1> SUFFICES ASSUME RendererTyped, Echoing, ListInv, [RendererNext]_renderer PROVE ListInv'
  OBVIOUS
<1>1. CASE UNCHANGED renderer
  <2>1. Carries
    BY <1>1, CarriesSame DEF renderer, feed
  <2> QED BY <1>1, <2>1, ListCarried DEF renderer, feed, Up
<1> QED BY <1>1, RequestsKeepList, LogsKeepList, EventKeepsList, AgainKeepsList, AgentKeepsList,
           FeedKeepsList DEF RendererNext

-----------------------------------------------------------------------------
(* Renderer: the lines.  Unread lines of a watch are numbered one after    *)
(* the other wherever nothing between them will be shown; the first goes   *)
(* on from the last row of the view, and the last is the agent's newest.   *)

IsLine(e, w) == e.kind = "line" /\ e.id = <<Log, w>>
Shows(e, w) == e.kind = "reset" \/ e.id = <<Log, w>>

Joined(s, w) ==
  \A i, j \in DOMAIN s :
    i < j /\ IsLine(s[i], w) /\ IsLine(s[j], w)
      /\ (\A k \in DOMAIN s : i < k /\ k < j => ~Shows(s[k], w))
      => s[j].n = s[i].n + 1

EndsAt(s, w, n) ==
  \A i \in DOMAIN s :
    IsLine(s[i], w) /\ (\A k \in DOMAIN s : i < k => ~Shows(s[k], w)) => s[i].n = n

GoesOn(s, w, n) ==
  \A i \in DOMAIN s :
    IsLine(s[i], w) /\ (\A k \in DOMAIN s : k < i => ~Shows(s[k], w)) => s[i].n = n + 1

Unheard(s, w) == \A k \in DOMAIN s : ~Shows(s[k], w)

Unbroken(rows) ==
  \A i \in 1 .. Len(rows) - 1 :
    rows[i].kind = "line" /\ rows[i + 1].kind = "line" => rows[i + 1].n = rows[i].n + 1

Newest == view.rows[Len(view.rows)]

Shown ==
  view.rows # <<>> /\ Newest.kind = "line" =>
    /\ GoesOn(stream, view.id, Newest.n)
    /\ log # "none" /\ view.id = watch /\ Unheard(stream, watch) => Newest.n = lines

Lines ==
  /\ Joined(stream, view.id) /\ Joined(stream, watch)
  /\ log # "none" => EndsAt(stream, watch, lines)
  /\ Shown /\ Unbroken(view.rows)

LineInv == ~skipped => Lines

\* Without lines there is nothing to say.
Mute(s, w) == \A i \in DOMAIN s : ~IsLine(s[i], w)

LEMMA MuteHolds ==
  ASSUME NEW s, NEW w, Mute(s, w)
  PROVE  Joined(s, w) /\ \A n : EndsAt(s, w, n) /\ GoesOn(s, w, n)
BY DEF Mute, Joined, EndsAt, GoesOn

LEMMA FreshMute ==
  ASSUME NEW w
  PROVE  /\ Mute(<<>>, w) /\ Mute(<<Ready>>, w) /\ Mute(<<OfAgent("reset"), Ready>>, w)
         /\ ~Unheard(<<OfAgent("reset"), Ready>>, w)
BY DEF Mute, IsLine, Shows, Unheard, Ready, OfAgent, Event

LEMMA NoneMute ==
  ASSUME FeedTyped
  PROVE  Mute(stream, 0) /\ Mute(stream, watch + 1)
<1>1. watch \in Nat
  BY Numbers DEF FeedTyped
<1>2. ASSUME NEW i \in DOMAIN stream, stream[i].kind = "line"
      PROVE  stream[i].id # <<Log, 0>> /\ stream[i].id # <<Log, watch + 1>>
  <2>1. stream[i] \in Events /\ OfOpened(stream[i], watch)
    BY DEF FeedTyped
  <2>2. stream[i].id[1] = Log /\ stream[i].id[2] \in 1 .. MaxChanges
    BY <1>2, <2>1, EventShape DEF LogKinds
  <2>3. stream[i].id[2] <= watch /\ stream[i].id[2] > 0 /\ stream[i].id[2] \in Nat
    BY <2>1, <2>2, Numbers DEF OfOpened
  <2> QED BY <1>1, <2>3
<1> QED BY <1>2 DEF Mute, IsLine

\* One more event, of which the view will make no line.
LEMMA AppendOther ==
  ASSUME NEW s \in Seq(Events), NEW e \in Events, NEW w, ~IsLine(e, w)
  PROVE  /\ Joined(s, w) => Joined(Append(s, e), w)
         /\ \A n : EndsAt(s, w, n) => EndsAt(Append(s, e), w, n)
         /\ \A n : GoesOn(s, w, n) => GoesOn(Append(s, e), w, n)
         /\ Unheard(Append(s, e), w) => Unheard(s, w) /\ ~Shows(e, w)
<1> Append(s, e) \in Seq(Events)
  OBVIOUS
<1>1. PICK t \in Seq(Events) : t = Append(s, e)
  OBVIOUS
<1>2. /\ Len(s) \in Nat /\ Len(t) = Len(s) + 1 /\ t[Len(t)] = e
      /\ DOMAIN s = 1 .. Len(s) /\ DOMAIN t = 1 .. Len(t) /\ \A i \in DOMAIN s : t[i] = s[i]
  BY <1>1
<1>3. \A i \in DOMAIN t : IsLine(t[i], w) => i \in DOMAIN s
  BY <1>2
<1>4. \A i \in DOMAIN s : i \in DOMAIN t
  BY <1>2
<1>5. Joined(s, w) => Joined(t, w)
  BY <1>2, <1>3, <1>4 DEF Joined
<1>6. \A n : EndsAt(s, w, n) => EndsAt(t, w, n)
  BY <1>2, <1>3, <1>4 DEF EndsAt
<1>7. \A n : GoesOn(s, w, n) => GoesOn(t, w, n)
  BY <1>2, <1>3, <1>4 DEF GoesOn
<1>8. Unheard(t, w) => Unheard(s, w) /\ ~Shows(e, w)
  BY <1>2, <1>4 DEF Unheard
<1> QED BY <1>1, <1>5, <1>6, <1>7, <1>8

\* The next line.
LEMMA AppendLine ==
  ASSUME NEW s \in Seq(Events), NEW e \in Events, NEW w, IsLine(e, w),
         NEW n \in Nat, e.n = n + 1, Joined(s, w), EndsAt(s, w, n)
  PROVE  /\ Joined(Append(s, e), w) /\ EndsAt(Append(s, e), w, n + 1)
         /\ ~Unheard(Append(s, e), w)
         /\ \A x : GoesOn(s, w, x) /\ (Unheard(s, w) => x = n) => GoesOn(Append(s, e), w, x)
<1> Append(s, e) \in Seq(Events)
  OBVIOUS
<1>1. PICK t \in Seq(Events) : t = Append(s, e)
  OBVIOUS
<1>2. /\ Len(s) \in Nat /\ Len(t) = Len(s) + 1 /\ t[Len(t)] = e
      /\ DOMAIN s = 1 .. Len(s) /\ DOMAIN t = 1 .. Len(t) /\ \A i \in DOMAIN s : t[i] = s[i]
  BY <1>1
<1>3. Shows(e, w)
  BY DEF Shows, IsLine
<1>4. \A i \in DOMAIN t : i \in DOMAIN s \/ i = Len(t)
  BY <1>2
<1>5. \A i \in DOMAIN s : i \in DOMAIN t /\ i < Len(t)
  BY <1>2
<1>6. Len(t) \in DOMAIN t
  BY <1>2
<1>7. Joined(t, w)
  <2> SUFFICES ASSUME NEW i \in DOMAIN t, NEW j \in DOMAIN t, i < j, IsLine(t[i], w), IsLine(t[j], w),
                      \A k \in DOMAIN t : i < k /\ k < j => ~Shows(t[k], w)
               PROVE  t[j].n = t[i].n + 1
    BY DEF Joined
  <2>1. i \in DOMAIN s
    BY <1>2, <1>4
  <2>2. CASE j \in DOMAIN s
    BY <1>2, <1>5, <2>1, <2>2 DEF Joined
  <2>3. CASE j = Len(t)
    <3>1. \A k \in DOMAIN s : i < k => ~Shows(s[k], w)
      BY <1>2, <1>5, <2>3
    <3>2. s[i].n = n
      BY <1>2, <2>1, <3>1 DEF EndsAt
    <3> QED BY <1>2, <2>1, <2>3, <3>2
  <2> QED BY <1>4, <2>2, <2>3
<1>8. EndsAt(t, w, n + 1)
  <2> SUFFICES ASSUME NEW i \in DOMAIN t, IsLine(t[i], w), \A k \in DOMAIN t : i < k => ~Shows(t[k], w)
               PROVE  t[i].n = n + 1
    BY DEF EndsAt
  <2>1. i = Len(t)
    BY <1>2, <1>3, <1>4, <1>5, <1>6
  <2> QED BY <1>2, <2>1
<1>9. ~Unheard(t, w)
  BY <1>2, <1>3, <1>6 DEF Unheard
<1>10. ASSUME NEW x, GoesOn(s, w, x), Unheard(s, w) => x = n
       PROVE  GoesOn(t, w, x)
  <2> SUFFICES ASSUME NEW i \in DOMAIN t, IsLine(t[i], w), \A k \in DOMAIN t : k < i => ~Shows(t[k], w)
               PROVE  t[i].n = x + 1
    BY DEF GoesOn
  <2>1. CASE i \in DOMAIN s
    BY <1>2, <1>5, <1>10, <2>1 DEF GoesOn
  <2>2. CASE i = Len(t)
    <3>1. Unheard(s, w)
      BY <1>2, <1>5, <2>2 DEF Unheard
    <3> QED BY <1>2, <1>10, <2>2, <3>1
  <2> QED BY <1>4, <2>1, <2>2
<1> QED BY <1>1, <1>7, <1>8, <1>9, <1>10

\* The first event is read.
LEMMA TailLines ==
  ASSUME NEW s \in Seq(Events), s # <<>>, NEW w
  PROVE  /\ Joined(s, w) => Joined(Tail(s), w)
         /\ \A n : EndsAt(s, w, n) => EndsAt(Tail(s), w, n)
         /\ ~Shows(s[1], w) =>
              /\ \A n : GoesOn(s, w, n) => GoesOn(Tail(s), w, n)
              /\ Unheard(Tail(s), w) => Unheard(s, w)
         /\ IsLine(s[1], w) =>
              /\ \A n : GoesOn(s, w, n) => s[1].n = n + 1
              /\ Joined(s, w) => GoesOn(Tail(s), w, s[1].n)
              /\ \A n : EndsAt(s, w, n) /\ Unheard(Tail(s), w) => s[1].n = n
<1>1. PICK t \in Seq(Events) : t = Tail(s)
  BY TailTyped
<1>2. /\ Len(s) \in Nat /\ Len(s) > 0 /\ Len(t) = Len(s) - 1 /\ DOMAIN s = 1 .. Len(s)
      /\ DOMAIN t = 1 .. Len(t) /\ \A i \in DOMAIN t : t[i] = s[i + 1]
  BY <1>1
<1>3. 1 \in DOMAIN s /\ \A i \in DOMAIN t : i \in Int /\ i + 1 \in DOMAIN s
  BY <1>2
<1>4. ASSUME NEW k \in DOMAIN s, k # 1
      PROVE  k \in Int /\ k - 1 \in DOMAIN t /\ t[k - 1] = s[k]
  <2>1. PICK i \in DOMAIN t : i = k - 1
    BY <1>2, <1>4
  <2>2. i + 1 = k /\ k \in Int
    BY <1>2, <2>1
  <2> QED BY <1>2, <2>1, <2>2
<1>5. Joined(s, w) => Joined(t, w)
  <2> SUFFICES ASSUME Joined(s, w), NEW i \in DOMAIN t, NEW j \in DOMAIN t, i < j,
                      IsLine(t[i], w), IsLine(t[j], w),
                      \A k \in DOMAIN t : i < k /\ k < j => ~Shows(t[k], w)
               PROVE  t[j].n = t[i].n + 1
    BY DEF Joined
  <2>1. ASSUME NEW k \in DOMAIN s, i + 1 < k, k < j + 1 PROVE ~Shows(s[k], w)
    <3>1. k # 1 /\ i < k - 1 /\ k - 1 < j
      BY <1>2, <2>1
    <3> QED BY <1>4, <3>1
  <2>2. i + 1 \in DOMAIN s /\ j + 1 \in DOMAIN s /\ i + 1 < j + 1 /\ t[i] = s[i + 1] /\ t[j] = s[j + 1]
    BY <1>2, <1>3
  <2> QED BY <2>1, <2>2 DEF Joined
<1>6. ASSUME NEW n, EndsAt(s, w, n) PROVE EndsAt(t, w, n)
  <2> SUFFICES ASSUME NEW i \in DOMAIN t, IsLine(t[i], w), \A k \in DOMAIN t : i < k => ~Shows(t[k], w)
               PROVE  t[i].n = n
    BY DEF EndsAt
  <2>1. ASSUME NEW k \in DOMAIN s, i + 1 < k PROVE ~Shows(s[k], w)
    <3>1. k # 1 /\ i < k - 1
      BY <1>2, <2>1
    <3> QED BY <1>4, <3>1
  <2>2. i + 1 \in DOMAIN s /\ t[i] = s[i + 1]
    BY <1>2, <1>3
  <2> QED BY <1>6, <2>1, <2>2 DEF EndsAt
<1>7. ASSUME ~Shows(s[1], w), NEW n, GoesOn(s, w, n) PROVE GoesOn(t, w, n)
  <2> SUFFICES ASSUME NEW i \in DOMAIN t, IsLine(t[i], w), \A k \in DOMAIN t : k < i => ~Shows(t[k], w)
               PROVE  t[i].n = n + 1
    BY DEF GoesOn
  <2>1. ASSUME NEW k \in DOMAIN s, k < i + 1 PROVE ~Shows(s[k], w)
    <3>1. CASE k = 1
      BY <1>7, <3>1
    <3>2. CASE k # 1
      <4>1. k - 1 < i
        BY <1>2, <2>1
      <4> QED BY <1>4, <3>2, <4>1
    <3> QED BY <3>1, <3>2
  <2>2. i + 1 \in DOMAIN s /\ t[i] = s[i + 1]
    BY <1>2, <1>3
  <2> QED BY <1>7, <2>1, <2>2 DEF GoesOn
<1>8. ASSUME ~Shows(s[1], w), Unheard(t, w) PROVE Unheard(s, w)
  BY <1>4, <1>8 DEF Unheard
<1>9. ASSUME IsLine(s[1], w), NEW n, GoesOn(s, w, n) PROVE s[1].n = n + 1
  <2>1. \A k \in DOMAIN s : ~(k < 1)
    BY <1>2
  <2> QED BY <1>3, <1>9, <2>1 DEF GoesOn
<1>10. ASSUME IsLine(s[1], w), Joined(s, w) PROVE GoesOn(t, w, s[1].n)
  <2> SUFFICES ASSUME NEW i \in DOMAIN t, IsLine(t[i], w), \A k \in DOMAIN t : k < i => ~Shows(t[k], w)
               PROVE  t[i].n = s[1].n + 1
    BY DEF GoesOn
  <2>1. ASSUME NEW k \in DOMAIN s, 1 < k, k < i + 1 PROVE ~Shows(s[k], w)
    <3>1. k # 1 /\ k - 1 < i
      BY <1>2, <2>1
    <3> QED BY <1>4, <3>1
  <2>2. i + 1 \in DOMAIN s /\ t[i] = s[i + 1] /\ 1 < i + 1
    BY <1>2, <1>3
  <2> QED BY <1>3, <1>10, <2>1, <2>2 DEF Joined
<1>11. ASSUME IsLine(s[1], w), NEW n, EndsAt(s, w, n), Unheard(t, w) PROVE s[1].n = n
  <2>1. ASSUME NEW k \in DOMAIN s, 1 < k PROVE ~Shows(s[k], w)
    BY <1>4, <1>11, <2>1 DEF Unheard
  <2> QED BY <1>3, <1>11, <2>1 DEF EndsAt
<1> QED BY <1>1, <1>5, <1>6, <1>7, <1>8, <1>9, <1>10, <1>11

\* One more row.
LEMMA RowKeepsUnbroken ==
  ASSUME NEW v \in Views, Len(v.rows) <= Ring, NEW row \in Rows, Unbroken(v.rows),
         (v.rows # <<>> /\ v.rows[Len(v.rows)].kind = "line" /\ row.kind = "line")
           => row.n = v.rows[Len(v.rows)].n + 1
  PROVE  LET rows == Appended(v, row).rows
         IN  Unbroken(rows) /\ rows # <<>> /\ rows[Len(rows)] = row
<1>1. PICK old \in Seq(Rows) : old = v.rows
  BY DEF Views
<1>2. PICK new \in Seq(Rows) : new = Appended(v, row).rows
  BY RowAppended DEF Views
<1>3. PICK d \in {0, 1} :
        /\ Len(new) = Len(old) + 1 - d /\ Len(new) >= 1 /\ new[Len(new)] = row
        /\ \A i \in 1 .. Len(new) - 1 : new[i] = old[i + d]
  BY <1>1, <1>2, RowAppended
<1>4. Len(old) \in Nat /\ Len(new) \in Nat
  OBVIOUS
<1>5. ASSUME NEW i \in 1 .. Len(new) - 1, new[i].kind = "line", new[i + 1].kind = "line"
      PROVE  new[i + 1].n = new[i].n + 1
  <2>1. new[i] = old[i + d]
    BY <1>3
  <2>2. CASE i + 1 = Len(new)
    <3>1. i + d = Len(old) /\ Len(old) # 0
      BY <1>3, <1>4, <2>2
    <3>2. old # <<>>
      BY <3>1
    <3>3. new[i + 1] = row
      BY <1>3, <2>2
    <3> QED BY <1>1, <1>5, <2>1, <3>1, <3>2, <3>3
  <2>3. CASE i + 1 # Len(new)
    <3>1. i + 1 \in 1 .. Len(new) - 1
      BY <1>4, <2>3
    <3>2. PICK k \in 1 .. Len(old) - 1 : k = i + d
      BY <1>3, <1>4, <2>3
    <3>3. new[i + 1] = old[k + 1]
      <4>1. new[i + 1] = old[i + 1 + d]
        BY <1>3, <3>1
      <4>2. i + 1 + d = k + 1
        BY <3>2
      <4> QED BY <4>1, <4>2
    <3> QED BY <1>1, <1>5, <2>1, <3>2, <3>3 DEF Unbroken
  <2> QED BY <2>2, <2>3
<1>6. Unbroken(new)
  BY <1>5 DEF Unbroken
<1>7. new # <<>>
  BY <1>3, <1>4
<1> QED BY <1>2, <1>3, <1>6, <1>7

\* Nothing in the view's own stream changes; the watch may be gone.
LEMMA LinesSame ==
  ASSUME LineInv, UNCHANGED <<stream, view, skipped, watch, lines>>, log' # "none" => log # "none"
  PROVE  LineInv'
BY DEF LineInv, Lines, Shown, Newest

\* One more event that is no line of the watch, nor of the view.
LEMMA LinesOther ==
  ASSUME RendererTyped, LineInv, UNCHANGED <<view, skipped, watch, lines, log>>,
         NEW e \in Events, stream' = Append(stream, e), ~IsLine(e, watch), ~IsLine(e, view.id)
  PROVE  LineInv'
<1>1. stream \in Seq(Events)
  BY DEF RendererTyped, FeedTyped
<1>2. /\ Joined(stream, view.id) => Joined(stream', view.id)
      /\ Joined(stream, watch) => Joined(stream', watch)
      /\ EndsAt(stream, watch, lines) => EndsAt(stream', watch, lines)
      /\ \A n : GoesOn(stream, view.id, n) => GoesOn(stream', view.id, n)
      /\ Unheard(stream', watch) => Unheard(stream, watch)
  BY <1>1, AppendOther
<1> QED BY <1>2 DEF LineInv, Lines, Shown, Newest

\* A new watch, of which there is no line yet.
LEMMA LinesWatch ==
  ASSUME RendererTyped, LineInv, Watch, UNCHANGED view, skipped' = skipped \/ view = NoView
  PROVE  LineInv'
<1>1. watch \in Nat /\ view.id <= watch /\ view.id \in Nat
  BY Numbers DEF RendererTyped, FeedTyped, LogsTyped, ViewTyped, Views
<1>2. watch' = watch + 1 /\ UNCHANGED stream
  BY WatchKeeps DEF RendererTyped
<1>3. Joined(stream, watch') /\ \A n : EndsAt(stream, watch', n)
  BY <1>2, NoneMute, MuteHolds DEF RendererTyped
<1>4. Lines \/ view = NoView => Lines'
  <2>1. CASE view = NoView
    <3>1. view.rows = <<>> /\ view.id = 0 /\ Joined(stream, 0)
      BY <2>1, NoViewType, NoneMute, MuteHolds DEF RendererTyped
    <3>2. Unbroken(<<>>)
      BY DEF Unbroken
    <3> QED BY <1>2, <1>3, <3>1, <3>2 DEF Lines, Shown
  <2>2. CASE Lines
    <3>1. view.id # watch'
      BY <1>1, <1>2
    <3> QED BY <1>2, <1>3, <2>2, <3>1 DEF Lines, Shown, Newest
  <2> QED BY <2>1, <2>2
<1>5. skipped' => skipped \/ view = NoView
  OBVIOUS
<1> QED BY <1>4 DEF LineInv

LEMMA ViewKeepsLines ==
  ASSUME RendererTyped, LineInv, Open \/ AddWatch \/ RemoveWatch \/ Reissue \/ OnReconcile
  PROVE  LineInv'
<1>0. Unbroken(<<>>)
  BY DEF Unbroken
<1>1. CASE Open \/ Reissue
  <2>1. Watch /\ UNCHANGED view /\ (skipped' = skipped \/ view = NoView)
    BY <1>1 DEF Open, Reissue
  <2> QED BY <2>1, LinesWatch
<1>2. CASE AddWatch
  <2>1. view' = [id |-> watch, rows |-> <<>>, status |-> "active"] /\ UNCHANGED <<feed, skipped>>
    BY <1>2 DEF AddWatch
  <2>2. view'.rows = <<>> /\ view'.id = watch
    BY <2>1
  <2> QED BY <1>0, <2>1, <2>2 DEF feed, LineInv, Lines, Shown
<1>3. CASE RemoveWatch
  <2>1. view' = NoView /\ UNCHANGED <<stream, watch, skipped>> /\ (log' # "none" => log # "none" /\ lines' = lines)
    BY <1>3, WatchKeeps DEF RemoveWatch, feed, RendererTyped
  <2>2. view'.rows = <<>> /\ view'.id = 0 /\ Joined(stream, 0)
    BY <2>1, NoViewType, NoneMute, MuteHolds DEF RendererTyped
  <2> QED BY <1>0, <2>1, <2>2 DEF LineInv, Lines, Shown
<1>4. CASE OnReconcile
  <2>1. UNCHANGED <<feed, skipped>>
    BY <1>4 DEF OnReconcile
  <2>2. CASE view = NoView
    <3>1. view' = view
      BY <1>4, <2>2 DEF OnReconcile
    <3> QED BY <2>1, <3>1, LinesSame DEF feed
  <2>3. CASE view # NoView
    <3>1. view \in Views /\ Len(view.rows) <= Ring /\ watch \in Nat
      BY Numbers DEF RendererTyped, FeedTyped, LogsTyped, ViewTyped
    <3> Row("resumed", 0) \in Rows /\ Row("resumed", 0).kind = "resumed"
      BY DEF Row, Rows, RowKinds
    <3>2. PICK row \in Rows : row = Row("resumed", 0) /\ row.kind = "resumed"
      OBVIOUS
    <3>3. PICK v \in Views : v = Appended(view, row)
      BY <3>1, RowAppended
    <3>4. PICK id \in {watch, view.id} : id = IF reconciling = "issued" THEN watch ELSE view.id
      OBVIOUS
    <3>5. view' = [v EXCEPT !.id = id, !.status = "active"]
      BY <1>4, <2>3, <3>2, <3>3, <3>4 DEF OnReconcile, RemapWatches
    <3>6. view'.id = id /\ view'.rows = v.rows
      BY <3>5 DEF Views
    <3>7. ASSUME Lines PROVE Lines'
      <4>1. Unbroken(v.rows) /\ v.rows[Len(v.rows)] = row
        BY <3>1, <3>2, <3>3, <3>7, RowKeepsUnbroken DEF Lines
      <4> QED BY <2>1, <3>2, <3>4, <3>6, <3>7, <4>1 DEF feed, Lines, Shown, Newest
    <3> QED BY <2>1, <3>7 DEF LineInv
  <2> QED BY <2>2, <2>3
<1> QED BY <1>1, <1>2, <1>3, <1>4

LEMMA EventKeepsLines ==
  ASSUME RendererTyped, LineInv, OnRoutedEvent
  PROVE  LineInv'
<1>1. /\ stream \in Seq(Events) /\ stream # <<>> /\ stream' = Tail(stream)
      /\ UNCHANGED <<log, watch, lines, skipped>> /\ view' = IngestLog(stream[1])
  BY DEF OnRoutedEvent, Read, Route, RendererTyped, FeedTyped
<1>2. PICK e \in Events : e = stream[1]
  BY <1>1, TailTyped
<1>3. ViewTyped /\ view \in Views /\ Len(view.rows) <= Ring
  BY DEF RendererTyped, LogsTyped, ViewTyped
<1>4. view'.id = view.id
  BY <1>1, <1>2, <1>3, LogIngested
<1> SUFFICES ASSUME Lines PROVE Lines'
  BY <1>1 DEF LineInv
<1>5. /\ Joined(stream', view.id) /\ Joined(stream', watch)
      /\ log # "none" => EndsAt(stream', watch, lines)
  BY <1>1, TailLines DEF Lines
<1>6. CASE view = NoView
  <2>1. view' = view /\ view.rows = <<>>
    BY <1>1, <1>2, <1>3, <1>6, LogIngested, NoViewType
  <2> QED BY <1>1, <1>5, <2>1 DEF Lines, Shown
<1>7. CASE ~Shows(e, view.id)
  <2>1. view' = view
    BY <1>1, <1>2, <1>3, <1>7, LogIngested DEF Shows
  <2>2. \A n : GoesOn(stream, view.id, n) => GoesOn(stream', view.id, n)
    BY <1>1, <1>2, <1>7, TailLines
  <2>3. view.id = watch /\ Unheard(stream', watch) => Unheard(stream, watch)
    BY <1>1, <1>2, <1>7, TailLines
  <2> QED BY <1>1, <1>5, <2>1, <2>2, <2>3 DEF Lines, Shown, Newest
<1>8. CASE view # NoView /\ Shows(e, view.id)
  <2>1. PICK row \in Rows :
          /\ (row.kind = "line") <=> (e.kind = "line")
          /\ (row.kind = "line") => row.n = e.n
          /\ view'.rows = Appended(view, row).rows
    BY <1>1, <1>2, <1>3, <1>8, LogIngested DEF Shows
  <2>2. row.kind = "line" => IsLine(e, view.id)
    BY <1>8, <2>1 DEF IsLine, Shows
  <2>3. ASSUME row.kind = "line", view.rows # <<>>, Newest.kind = "line"
        PROVE  row.n = Newest.n + 1
    <3>1. GoesOn(stream, view.id, Newest.n)
      BY <2>3 DEF Lines, Shown
    <3>2. e.n = Newest.n + 1
      BY <1>1, <1>2, <2>2, <2>3, <3>1, TailLines
    <3> QED BY <2>1, <2>3, <3>2
  <2>4. Unbroken(view'.rows) /\ view'.rows[Len(view'.rows)] = row
    BY <1>3, <2>1, <2>3, RowKeepsUnbroken DEF Lines, Newest
  <2>5. ASSUME row.kind = "line"
        PROVE  /\ GoesOn(stream', view.id, row.n)
               /\ log # "none" /\ view.id = watch /\ Unheard(stream', watch) => row.n = lines
    BY <1>1, <1>2, <2>1, <2>2, <2>5, TailLines DEF Lines
  <2> QED BY <1>1, <1>4, <1>5, <2>4, <2>5 DEF Lines, Shown, Newest
<1> QED BY <1>6, <1>7, <1>8

\* What comes again is a line, which is told apart, or a marker.
LEMMA AgainKeepsLines ==
  ASSUME RendererTyped, Echoing, LineInv, OnRoutedEventAgain
  PROVE  LineInv'
<1>1. PICK e \in echoes :
        /\ ReadAgain(e) /\ view' = IngestLog(e)
        /\ skipped' = (skipped \/ (e.kind = "line" /\ view' # view))
  BY DEF OnRoutedEventAgain, Route
<1>2. UNCHANGED <<stream, log, watch, lines>> /\ e \in Events
  BY <1>1, AgainKeeps DEF RendererTyped, Echoing
<1>3. ViewTyped /\ view \in Views /\ Len(view.rows) <= Ring /\ skipped \in BOOLEAN
  BY DEF RendererTyped, LogsTyped, ViewTyped
<1>4. CASE view' = view
  <2>1. UNCHANGED skipped
    BY <1>1, <1>3, <1>4
  <2> QED BY <1>2, <1>4, <2>1, LinesSame
<1>5. CASE view' # view /\ e.kind = "line"
  BY <1>1, <1>5 DEF LineInv
<1>6. CASE view' # view /\ e.kind # "line"
  <2>1. view # NoView /\ (e.kind = "reset" \/ e.id = <<Log, view.id>>) /\ view'.id = view.id
    BY <1>1, <1>2, <1>3, <1>6, LogIngested
  <2>2. PICK row \in Rows : row.kind # "line" /\ view'.rows = Appended(view, row).rows
    BY <1>1, <1>2, <1>3, <1>6, <2>1, LogIngested
  <2>3. ASSUME Lines PROVE Lines'
    <3>1. Unbroken(view'.rows) /\ view'.rows[Len(view'.rows)] = row
      BY <1>3, <2>2, <2>3, RowKeepsUnbroken DEF Lines
    <3> QED BY <1>2, <2>1, <2>2, <2>3, <3>1 DEF Lines, Shown, Newest
  <2> QED BY <1>1, <1>3, <1>6, <2>3 DEF LineInv
<1> QED BY <1>4, <1>5, <1>6

\* A line of the watch, or what happened to its file.
LEMMA LogKeepsLines ==
  ASSUME RendererTyped, LineInv, LogEvent, UNCHANGED <<view, skipped>>
  PROVE  LineInv'
<1>1. /\ stream \in Seq(Events) /\ lines \in Nat /\ log # "none" /\ FeedTyped
      /\ UNCHANGED watch
  BY Numbers, LogKeeps DEF RendererTyped, FeedTyped
<1>2. PICK kind \in LogKinds :
        /\ stream' = Append(stream, OfWatch(kind, IF kind = "line" THEN lines + 1 ELSE 0))
        /\ lines' = (IF kind = "line" THEN lines + 1 ELSE lines)
  BY <1>1, LogKeeps
<1>3. (IF kind = "line" THEN lines + 1 ELSE 0) \in Nat
  BY <1>1
<1>4. PICK e \in Events : e = OfWatch(kind, IF kind = "line" THEN lines + 1 ELSE 0)
  BY <1>1, <1>3, WatchEvent
<1>5. e.kind = kind /\ e.id = <<Log, watch>> /\ (kind = "line" => e.n = lines + 1)
  BY <1>4 DEF OfWatch, Event
<1>6. stream' = Append(stream, e)
  BY <1>2, <1>4
<1>7. view.id # watch => ~IsLine(e, view.id)
  BY <1>5 DEF IsLine
<1> SUFFICES ASSUME Lines PROVE Lines'
  BY DEF LineInv
<1>8. CASE kind = "line"
  <2>1. IsLine(e, watch) /\ lines' = lines + 1
    BY <1>2, <1>5, <1>8 DEF IsLine
  <2>2. /\ Joined(stream', watch) /\ EndsAt(stream', watch, lines + 1) /\ ~Unheard(stream', watch)
        /\ \A x : GoesOn(stream, watch, x) /\ (Unheard(stream, watch) => x = lines)
                    => GoesOn(stream', watch, x)
    BY <1>1, <1>5, <1>6, <1>8, <2>1, AppendLine DEF Lines
  <2>3. Joined(stream', view.id)
    BY <1>1, <1>6, <1>7, <2>2, AppendOther DEF Lines
  <2>4. ASSUME view.rows # <<>>, Newest.kind = "line"
        PROVE  GoesOn(stream', view.id, Newest.n)
    <3>1. /\ GoesOn(stream, view.id, Newest.n)
          /\ view.id = watch /\ Unheard(stream, watch) => Newest.n = lines
      BY <1>1, <2>4 DEF Lines, Shown
    <3>2. CASE view.id = watch
      BY <2>2, <3>1, <3>2
    <3>3. CASE view.id # watch
      BY <1>1, <1>6, <1>7, <3>1, <3>3, AppendOther
    <3> QED BY <3>2, <3>3
  <2> QED BY <1>1, <2>1, <2>2, <2>3, <2>4 DEF Lines, Shown, Newest
<1>9. CASE kind # "line"
  <2>1. ~IsLine(e, watch) /\ ~IsLine(e, view.id) /\ lines' = lines
    BY <1>2, <1>5, <1>9 DEF IsLine
  <2>2. /\ Joined(stream', view.id) /\ Joined(stream', watch) /\ EndsAt(stream', watch, lines)
        /\ \A n : GoesOn(stream, view.id, n) => GoesOn(stream', view.id, n)
        /\ Unheard(stream', watch) => Unheard(stream, watch)
    BY <1>1, <1>6, <2>1, AppendOther DEF Lines
  <2> QED BY <1>1, <2>1, <2>2 DEF Lines, Shown, Newest
<1> QED BY <1>8, <1>9

\* The stream begins again: only what the view shows is left.
LEMMA FreshLines ==
  ASSUME LineInv, UNCHANGED <<view, watch>>, ~skipped' => ~skipped,
         \A w : Mute(stream', w),
         (~skipped /\ ~skipped' /\ log' # "none" /\ Unheard(stream', watch)) =>
           log # "none" /\ lines' = lines /\ Unheard(stream, watch)
  PROVE  LineInv'
<1> SUFFICES ASSUME ~skipped', Lines PROVE Lines'
  BY DEF LineInv
<1>1. \A w : Joined(stream', w) /\ \A n : EndsAt(stream', w, n) /\ GoesOn(stream', w, n)
  BY MuteHolds
<1> QED BY <1>1 DEF Lines, Shown, Newest

LEMMA AgentKeepsLines ==
  ASSUME RendererTyped, LineInv, Begins \/ Gone \/ WakesUp \/ Overruns \/ Sheds
  PROVE  LineInv'
<1> USE DEF logs
<1>1. CASE Begins
  <2>1. UNCHANGED <<view, watch, skipped>> /\ log' = "none" /\ stream' = <<Ready>>
    BY <1>1 DEF Begins, Start
  <2>2. \A w : Mute(stream', w)
    BY <2>1, FreshMute
  <2> QED BY <2>1, <2>2, FreshLines
<1>2. CASE Gone
  BY <1>2, LinesSame DEF Gone, Exit
<1>3. CASE WakesUp
  <2>1. /\ UNCHANGED <<view, watch, log, lines>> /\ stream' = <<Ready>>
        /\ skipped' = (skipped \/ stream # <<>>)
    BY <1>3 DEF WakesUp, Rewind, Reattach, Steers
  <2>2. \A w : Mute(stream', w)
    BY <2>1, FreshMute
  <2>3. stream = <<>> => Unheard(stream, watch)
    BY DEF Unheard
  <2>4. ~skipped' => ~skipped /\ stream = <<>>
    BY <2>1
  <2> QED BY <2>1, <2>2, <2>3, <2>4, FreshLines
<1>4. CASE Overruns
  <2>1. /\ UNCHANGED <<view, watch, log, lines, skipped>> /\ stream' = <<OfAgent("reset"), Ready>>
    BY <1>4 DEF Overruns, Overrun, Steers
  <2>2. (\A w : Mute(stream', w)) /\ ~Unheard(stream', watch)
    BY <2>1, FreshMute
  <2> QED BY <2>1, <2>2, FreshLines
<1>5. CASE Sheds
  BY <1>5 DEF Sheds, LineInv
<1> QED BY <1>1, <1>2, <1>3, <1>4, <1>5

LEMMA ElsewhereKeepsLines ==
  ASSUME RendererTyped, LineInv, Elsewhere
  PROVE  LineInv'
<1>1. UNCHANGED <<view, skipped>>
  BY DEF Elsewhere, logs
<1>2. FeedTyped /\ watch \in Nat /\ view.id \in Nat
  BY Numbers DEF RendererTyped, FeedTyped, LogsTyped, ViewTyped, Views
<1>3. CASE Retry
  BY <1>1, <1>3, LinesSame DEF Retry
<1>4. CASE Cut
  <2>1. UNCHANGED <<log, watch, lines>> /\ stream' = <<>> /\ log = "none"
    BY <1>2, <1>4 DEF Cut, FeedTyped
  <2>2. \A w : Mute(stream', w)
    BY <2>1, FreshMute
  <2> QED BY <1>1, <2>1, <2>2, FreshLines
<1>5. CASE Sigterm \/ Reconnect
  <2>1. PICK kind \in {"stopping", "ready"} : stream' = Append(stream, OfAgent(kind))
    BY <1>5 DEF Sigterm, Reconnect, Publish, Ready
  <2>2. PICK e \in Events : e = OfAgent(kind) /\ e.kind # "line"
    BY <1>2, AgentEvent DEF AgentKinds, OfAgent, Event
  <2>3. UNCHANGED <<log, watch, lines>> /\ stream' = Append(stream, e)
    BY <1>5, <2>1, <2>2 DEF Sigterm, Reconnect, Steers
  <2>4. \A w : ~IsLine(e, w)
    BY <2>2 DEF IsLine
  <2> QED BY <1>1, <2>3, <2>4, LinesOther
<1>6. CASE LogEvent
  BY <1>1, <1>6, LogKeepsLines
<1>7. ASSUME NEW m \in Monitors, Turn(m) PROVE LineInv'
  <2>1. UNCHANGED <<log, watch, lines>> /\ Up
    BY <1>2, <1>7, MonitorKeeps DEF Turn, Steady, Up
  <2>2. CASE UNCHANGED stream
    BY <1>1, <2>1, <2>2, LinesSame
  <2>3. ASSUME NEW kind \in MonitorEvents, stream' = Append(stream, OfMonitor(kind, m))
        PROVE  LineInv'
    <3>1. PICK e \in Events : e = OfMonitor(kind, m) /\ e.kind # "line"
      BY <1>2, <2>1, ResultEvent DEF OfMonitor, Event, MonitorEvents
    <3>2. \A w : ~IsLine(e, w)
      BY <3>1 DEF IsLine
    <3> QED BY <1>1, <2>1, <2>3, <3>1, <3>2, LinesOther
  <2> QED BY <1>2, <1>7, <2>2, <2>3, MonitorKeeps
<1> QED BY <1>3, <1>4, <1>5, <1>6, <1>7 DEF Elsewhere

LEMMA RequestsKeepLines ==
  ASSUME RendererTyped, LineInv,
         Refresh \/ Changed \/ \E s \in Slots : ListAnswered(s) \/ Refreshed(s) \/ RefreshFails(s)
  PROVE  LineInv'
<1> USE DEF logs
<1>1. CASE Refresh
  BY <1>1, LinesSame DEF Refresh
<1>2. CASE Changed
  BY <1>2, LinesSame DEF Changed, Add, Remove, Edit, Becomes, NoEvent
<1>3. ASSUME NEW s \in Slots, ListAnswered(s) \/ Refreshed(s) \/ RefreshFails(s) PROVE LineInv'
  BY <1>3, LinesSame DEF ListAnswered, Answer, Refreshed, RefreshFails, Fail
<1> QED BY <1>1, <1>2, <1>3

LEMMA InitLines == RendererInit => LineInv
<1> SUFFICES ASSUME RendererInit PROVE LineInv
  OBVIOUS
<1>1. stream = <<>> /\ view.rows = <<>> /\ log = "none"
  BY NoViewType DEF RendererInit, FeedInit
<1>2. \A w : Joined(stream, w)
  BY <1>1, FreshMute, MuteHolds
<1> QED BY <1>1, <1>2 DEF LineInv, Lines, Shown, Unbroken

LEMMA NextLines == RendererTyped /\ Echoing /\ LineInv /\ [RendererNext]_renderer => LineInv'
<1> SUFFICES ASSUME RendererTyped, Echoing, LineInv, [RendererNext]_renderer PROVE LineInv'
  OBVIOUS
<1>1. CASE UNCHANGED renderer
  BY <1>1, LinesSame DEF renderer, feed
<1> QED BY <1>1, RequestsKeepLines, ViewKeepsLines, EventKeepsLines, AgainKeepsLines,
           AgentKeepsLines, ElsewhereKeepsLines DEF RendererNext

-----------------------------------------------------------------------------
(* Renderer: the theorems. *)

RendererInv == RendererTyped /\ Echoing /\ ListInv /\ LineInv

LEMMA RendererHolds == RendererSpec => []RendererInv
<1>1. RendererInit => RendererInv
  BY InitRendererTyped, InitList, InitLines DEF RendererInit, FeedInit, Echoing, RendererInv
<1>2. RendererInv /\ [RendererNext]_renderer => RendererInv'
  BY NextRendererTyped, RendererEchoes, NextList, NextLines DEF RendererInv
<1> QED BY <1>1, <1>2, PTL DEF RendererSpec

(* The list, the view and the requests are what the window can render at   *)
(* all times: a view names a watch that was opened and never keeps more    *)
(* rows than the ring (appendRows), whatever the agent and stream do.      *)
THEOREM RendererTypeCorrect == RendererSpec => []RendererTypeOK
<1>1. RendererInv => RendererTypeOK
  <2> SUFFICES ASSUME RendererTyped, Echoing PROVE RendererTypeOK
    BY DEF RendererInv
  <2>1. FeedTypeOK
    BY FeedTypes DEF RendererTyped
  <2>2. view.id \in 0 .. watch
    BY Numbers DEF RendererTyped, LogsTyped, ViewTyped, Views, FeedTyped
  <2> QED BY <2>1, <2>2
          DEF RendererTyped, ListTyped, LogsTyped, ViewTyped, Views, States, RendererTypeOK
<1> QED BY <1>1, RendererHolds, PTL

(* With nothing on its way the list shows what the agent has, unless since *)
(* the answer it came from events were lost, a refresh failed, a change    *)
(* timed out that the agent made, or an event came once more that changed  *)
(* it: list answers and events cross in any order (refresh, ingestEvent).  *)
THEOREM ListIsFollowed == RendererSpec => []ListFollows
<1>1. RendererInv => ListFollows
  <2> SUFFICES ASSUME ListInv, Quiet, ~doubtful PROVE shownMonitors = Listed
    BY DEF RendererInv, ListFollows
  <2>1. Up /\ reconciling = "no" /\ ~refreshes /\ \A s \in Slots : asks[s].at = "free"
    BY DEF Quiet, Up, Free
  <2>2. Leads(shownMonitors, Listed, <<>>)
    BY <2>1 DEF ListInv, Follows, Quiet
  <2> QED BY <2>2 DEF Leads
<1> QED BY <1>1, RendererHolds, PTL

(* Between two lines that follow each other in a log view none is missing: *)
(* replays, resets, new agents and re-keyed watches leave a marker between *)
(* them (ingestEvent, remapWatches); lines shed, not asked for again, or   *)
(* brought again by a second stream apart.                                 *)
THEOREM LinesAreUnbroken == RendererSpec => []LinesUnbroken
<1>1. RendererInv => LinesUnbroken
  BY DEF RendererInv, LineInv, Lines, Unbroken, LinesUnbroken
<1> QED BY <1>1, RendererHolds, PTL
=============================================================================
