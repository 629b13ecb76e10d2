------------------------------ MODULE AgentProofs ------------------------------
(***************************************************************************)
(* Theorems about DiagnosticsExport and the AgentProcess it lives in, for  *)
(* any number of clicks, watch requests and agents; about LogRotation for  *)
(* files of any size and any number of generations; and about Dashboard,   *)
(* whose ps and sampler are the agent's, for any number of refreshes that  *)
(* cross.                                                                  *)
(***************************************************************************)
EXTENDS DiagnosticsExport, LogRotation, Dashboard, FiniteSetTheorems, TLAPS

Event == [of : Exports, stage : {"collect", "zip"} \cup Last]
Built == {e \in Exports : exp[e] \in Building}

\* Requests under way count against the limit too, rushed ones apart.
Admitted == Watching \cup Waiting
Limited == IsFiniteSet(Admitted) /\ Cardinality(Admitted \ rushed) <= MaxWatches

\* The flag guards the one export under way.
OneBuilt ==
  /\ \A x, y \in Built : x = y
  /\ Built # {} => running
  /\ (running /\ ~wedged) => Built # {}

\* Where an export is tells what may be left of its directory ...
Tidy(e) ==
  /\ exp[e] \in {"none", "sent", "mkdtemp", "refused", "failed"} => staging[e] = "none"
  /\ exp[e] = "done" =>
       staging[e] = "none" \/ (staging[e] = "bundle" /\ move[e] # "moved")
  /\ move[e] # "none" => exp[e] = "done"

\* ... and Main hears of finished ones only.
Sent == {wire[k] : k \in DOMAIN wire}
Honest == \A v \in Sent : v.stage = "done" => exp[v.of] = "done"

Clean == OneBuilt /\ (\A e \in Exports : Tidy(e)) /\ Honest

IInv == TypeOK /\ wire \in Seq(Event) /\ Limited /\ Clean

-----------------------------------------------------------------------------
(* The process and its watches. *)

\* The steps of AgentProcess, an end for any reason among them.
ProcessNext ==
  \/ \E r \in Adds : Add(r) \/ Remove(r) \/ Added(r) \/ AddFails(r)
  \/ WatchesClosed \/ Sigterm \/ StartAgain
  \/ \E c \in {0, 1} : Exit(c)

LEMMA ProcessType ==
  ASSUME ProcessTypeOK, ProcessNext
  PROVE  ProcessTypeOK'
<1>1. ASSUME NEW r \in Adds, Add(r) \/ Remove(r) \/ Added(r) \/ AddFails(r)
      PROVE  ProcessTypeOK'
  BY <1>1 DEF ProcessTypeOK, Add, Remove, Added, AddFails, Move, process
<1>2. CASE WatchesClosed \/ Sigterm
  BY <1>2 DEF ProcessTypeOK, WatchesClosed, Sigterm, watches, Watching
<1>3. CASE StartAgain
  <2>1. starts + 1 \in 1 .. MaxStarts
    BY <1>3, ProcessAssumption DEF ProcessTypeOK, StartAgain
  <2> QED BY <1>3, <2>1 DEF ProcessTypeOK, StartAgain, watches
<1>4. ASSUME NEW c \in {0, 1}, Exit(c) PROVE ProcessTypeOK'
  BY <1>4 DEF ProcessTypeOK, Exit
<1> QED BY <1>1, <1>2, <1>3, <1>4, ProcessNext DEF ProcessNext

\* A set with fewer elements that were admitted in order is within the limit.
LEMMA LimitedShrinks ==
  ASSUME Limited, Admitted' \subseteq Admitted, rushed' = rushed
  PROVE  Limited'
<1>1. IsFiniteSet(Admitted') /\ IsFiniteSet(Admitted \ rushed)
  BY FS_Subset, FS_Difference DEF Limited
<1>2. (Admitted \ rushed)' \subseteq Admitted \ rushed
  OBVIOUS
<1>3. Cardinality((Admitted \ rushed)') <= Cardinality(Admitted \ rushed)
  BY <1>1, <1>2, FS_Subset
<1>4. /\ Cardinality((Admitted \ rushed)') \in Nat
      /\ Cardinality(Admitted \ rushed) \in Nat
  BY <1>1, <1>2, FS_Subset, FS_CardinalityType
<1> QED BY <1>1, <1>3, <1>4, ProcessAssumption DEF Limited

LEMMA AddLimited ==
  ASSUME ProcessTypeOK, Limited, NEW r \in Adds, Add(r)
  PROVE  Limited'
<1>1. CASE Move(r, {"none"}, "over") /\ rushed' = rushed
  <2>1. Admitted' \subseteq Admitted
    BY <1>1 DEF ProcessTypeOK, Move, Admitted, Watching, Waiting
  <2> QED BY <1>1, <2>1, LimitedShrinks
<1>2. CASE /\ Cardinality(Watching) < MaxWatches /\ Move(r, {"none"}, "adding")
           /\ rushed' = IF Waiting = {} THEN rushed ELSE rushed \cup {r}
  <2>1. Admitted' = Admitted \cup {r} /\ r \notin Admitted
    BY <1>2 DEF ProcessTypeOK, Move, Admitted, Watching, Waiting
  <2>2. IsFiniteSet(Admitted') /\ IsFiniteSet(Admitted \ rushed)
    BY <2>1, FS_AddElement, FS_Difference DEF Limited
  <2>3. CASE Waiting # {}
    <3>1. (Admitted \ rushed)' \subseteq Admitted \ rushed
      BY <1>2, <2>1, <2>3
    <3>2. /\ Cardinality((Admitted \ rushed)') <= Cardinality(Admitted \ rushed)
          /\ Cardinality((Admitted \ rushed)') \in Nat
          /\ Cardinality(Admitted \ rushed) \in Nat
      BY <2>2, <3>1, FS_Subset, FS_CardinalityType
    <3> QED BY <2>2, <3>2, ProcessAssumption DEF Limited
  <2>4. CASE Waiting = {}
    <3>1. (Admitted \ rushed)' \subseteq Watching \cup {r} /\ IsFiniteSet(Watching)
      BY <1>2, <2>1, <2>4, FS_Subset DEF Admitted, Limited
    <3>2. /\ IsFiniteSet(Watching \cup {r}) /\ Cardinality(Watching) \in Nat
          /\ Cardinality(Watching \cup {r}) = Cardinality(Watching) + 1
      <4>1. r \notin Watching
        BY <2>1 DEF Admitted
      <4>2. Cardinality(Watching) \in Nat
        BY <3>1, FS_CardinalityType
      <4> QED BY <3>1, <4>1, <4>2, FS_AddElement
    <3>3. /\ Cardinality((Admitted \ rushed)') <= Cardinality(Watching \cup {r})
          /\ Cardinality((Admitted \ rushed)') \in Nat
      BY <3>1, <3>2, FS_Subset, FS_CardinalityType
    <3> QED BY <1>2, <2>2, <3>2, <3>3, ProcessAssumption DEF Limited
  <2> QED BY <2>3, <2>4
<1> QED BY <1>1, <1>2 DEF Add

LEMMA ProcessLimited ==
  ASSUME ProcessTypeOK, Limited, ProcessNext
  PROVE  Limited'
<1>1. ASSUME NEW r \in Adds, Add(r) PROVE Limited'
  BY <1>1, AddLimited
<1>2. ASSUME NEW r \in Adds, Remove(r) \/ Added(r) \/ AddFails(r) PROVE Limited'
  <2>1. Admitted' \subseteq Admitted /\ rushed' = rushed
    BY <1>2 DEF ProcessTypeOK, Remove, Added, AddFails, Move, Admitted, Watching, Waiting
  <2> QED BY <2>1, LimitedShrinks
<1>3. CASE WatchesClosed \/ Sigterm \/ StartAgain \/ \E c \in {0, 1} : Exit(c)
  <2>1. Admitted' \subseteq Admitted /\ rushed' = rushed
    BY <1>3 DEF ProcessTypeOK, WatchesClosed, Sigterm, StartAgain, Exit, watches,
      Admitted, Watching, Waiting
  <2> QED BY <2>1, LimitedShrinks
<1> QED BY <1>1, <1>2, <1>3, ProcessNext DEF ProcessNext

LEMMA ProcessUnchanged ==
  ASSUME ProcessTypeOK, Limited, UNCHANGED <<process, watches>>
  PROVE  ProcessTypeOK' /\ Limited'
BY DEF ProcessTypeOK, Limited, Admitted, Watching, Waiting, process, watches

\* What a step of the composition does to the process.
LEMMA StepOfProcess ==
  ASSUME [Next]_vars
  PROVE  ProcessNext \/ UNCHANGED <<process, watches>>
<1>1. CASE \/ (\E r \in Adds : Add(r) \/ Remove(r)) /\ Alone
           \/ Progress /\ Alone
           \/ Sigterm /\ Alone
           \/ StartAgain /\ Alone
  BY <1>1 DEF Progress, ProcessNext
<1>2. CASE Ends \/ (CrashFast /\ ExportsEnd(0))
  BY <1>2 DEF Ends, ServerClosed, FailsafeFires, CrashFast, ProcessNext
<1>3. CASE EventArrives
  BY <1>3 DEF EventArrives
<1>4. ASSUME NEW e \in Exports, Click(e) \/ Build(e) \/ Unhandled(e) \/ Answer(e)
      PROVE  ProcessNext \/ UNCHANGED <<process, watches>>
  <2>1. CASE Unhandled(e)
    BY <2>1 DEF Unhandled, CrashFast, ProcessNext
  <2>2. CASE Click(e) \/ Answer(e)
    BY <2>2 DEF Click, Answer, ResponseArrives, Unavailable, Finalize
  <2>3. CASE Build(e)
    BY <2>3 DEF Build, Arrive, Staged, MkdtempFails, PreflightOk, PreflightFails, Unstaged,
      UnstageFails, BuildGoesOn, BuildDone, BuildFails, CleanedUp
  <2> QED BY <1>4, <2>1, <2>2, <2>3
<1>5. CASE UNCHANGED vars
  BY <1>5 DEF vars
<1> QED BY <1>1, <1>2, <1>3, <1>4, <1>5 DEF Next

-----------------------------------------------------------------------------
(* The events on the wire. *)

LEMMA EmitSends ==
  ASSUME wire \in Seq(Event), unheard \subseteq Exports,
         NEW e \in Exports, NEW stage \in {"collect", "zip"} \cup Last, Emit(e, stage)
  PROVE  /\ wire' \in Seq(Event) /\ unheard' \subseteq Exports
         /\ Sent' \subseteq Sent \cup {[of |-> e, stage |-> stage]}
<1> DEFINE event == [of |-> e, stage |-> stage]
<1>1. event \in Event
  BY DEF Event
<1>2. CASE wire' = Append(wire, event) /\ unheard' = unheard
  <2>1. /\ wire' \in Seq(Event) /\ DOMAIN wire' = 1 .. Len(wire) + 1
        /\ \A k \in 1 .. Len(wire) + 1 :
             wire'[k] = event \/ (k \in DOMAIN wire /\ wire'[k] = wire[k])
    BY <1>1, <1>2
  <2> QED BY <1>2, <2>1 DEF Sent
<1>3. CASE wire' = wire /\ unheard' \subseteq unheard \cup {e}
  BY <1>3 DEF Sent
<1> QED BY <1>2, <1>3 DEF Emit

LEMMA TailSends ==
  ASSUME wire \in Seq(Event), wire # <<>>
  PROVE  /\ Tail(wire) \in Seq(Event) /\ Head(wire) \in Event /\ Head(wire) \in Sent
         /\ {Tail(wire)[k] : k \in DOMAIN Tail(wire)} \subseteq Sent
<1>1. /\ Tail(wire) \in Seq(Event) /\ DOMAIN Tail(wire) = 1 .. Len(wire) - 1
      /\ \A k \in 1 .. Len(wire) - 1 : Tail(wire)[k] = wire[k + 1] /\ k + 1 \in DOMAIN wire
      /\ Head(wire) = wire[1] /\ 1 \in DOMAIN wire /\ wire[1] \in Event
  OBVIOUS
<1> QED BY <1>1 DEF Sent

-----------------------------------------------------------------------------
(* Types. *)

Typed ==
  /\ running \in BOOLEAN /\ wedged \in BOOLEAN
  /\ exp \in [Exports -> States]
  /\ staging \in [Exports -> {"none", "partial", "bundle"}]
  /\ move \in [Exports -> {"none", "moving", "emptied", "moved", "stuck"}]
  /\ wire \in Seq(Event)
  /\ view \in [of : Exports \cup {0}, stage : {"collect", "zip"} \cup Last]
  /\ resp \subseteq Exports /\ asking \subseteq Exports
  /\ overtaken \subseteq Exports /\ unheard \subseteq Exports

LEMMA TypedIsTypeOK == (ProcessTypeOK /\ Typed) <=> (TypeOK /\ wire \in Seq(Event))
<1>1. wire \in Seq(Event) => \A k \in DOMAIN wire : wire[k] \in Event
  OBVIOUS
<1> QED BY <1>1 DEF TypeOK, Typed, Event

LEMMA BuildTyped ==
  ASSUME Typed, NEW e \in Exports, Build(e)
  PROVE  Typed'
<1> USE DEF States, Building, Last
<1>1. CASE Arrive(e)
  BY <1>1 DEF Arrive, Typed, Goes, Silent, Respond
<1>2. CASE Staged(e) \/ PreflightFails(e) \/ BuildFails(e)
  BY <1>2 DEF Staged, PreflightFails, BuildFails, Typed, Goes, Stage, ui
<1>3. CASE MkdtempFails(e) \/ Unstaged(e) \/ UnstageFails(e)
  BY <1>3 DEF MkdtempFails, Unstaged, UnstageFails, Typed, Goes, Stage, Respond
<1>4. CASE PreflightOk(e)
  <2>1. wire' \in Seq(Event) /\ unheard' \subseteq Exports
    BY <1>4, EmitSends DEF PreflightOk, Typed
  <2> QED BY <1>4, <2>1 DEF PreflightOk, Typed, Goes, Respond
<1>5. CASE BuildGoesOn(e)
  <2>1. wire' \in Seq(Event) /\ unheard' \subseteq Exports
    BY <1>5, EmitSends DEF BuildGoesOn, Silent, Typed
  <2>2. exp' \in [Exports -> States]
    BY <1>5 DEF BuildGoesOn, Goes, Typed
  <2> QED BY <1>5, <2>1, <2>2 DEF BuildGoesOn, Typed
<1>6. CASE BuildDone(e) \/ CleanedUp(e)
  <2>1. wire' \in Seq(Event) /\ unheard' \subseteq Exports
    BY <1>6, EmitSends DEF BuildDone, CleanedUp, Typed
  <2> QED BY <1>6, <2>1 DEF BuildDone, CleanedUp, Typed, Goes, Stage
<1> QED BY <1>1, <1>2, <1>3, <1>4, <1>5, <1>6 DEF Build

LEMMA EndTyped ==
  ASSUME Typed, NEW e, ExportsEnd(e)
  PROVE  Typed'
<1>1. exp' \in [Exports -> States]
  BY DEF ExportsEnd, Typed, States
<1>2. <<>> \in Seq(Event)
  OBVIOUS
<1>3. wire' \in {wire, <<>>} /\ unheard' \subseteq unheard \cup Exports
  BY DEF ExportsEnd, Silent
<1>4. wire' \in Seq(Event) /\ unheard' \subseteq Exports
  BY <1>2, <1>3 DEF Typed
<1> QED BY <1>1, <1>4 DEF ExportsEnd, Typed

LEMMA AnswerTyped ==
  ASSUME Typed, NEW e \in Exports, Answer(e) \/ Click(e)
  PROVE  Typed'
<1>1. CASE Click(e)
  BY <1>1 DEF Click, Goes, NoView, Typed, States, Last
<1>2. CASE ResponseArrives(e)
  BY <1>2 DEF ResponseArrives, Typed, export
<1>3. CASE Unavailable(e)
  BY <1>3 DEF Unavailable, Goes, Typed, States
<1>4. CASE Finalize(e)
  BY <1>4 DEF Finalize, Stage, Typed, ui
<1> QED BY <1>1, <1>2, <1>3, <1>4 DEF Answer

LEMMA EventTyped ==
  ASSUME Typed, EventArrives
  PROVE  Typed'
<1>1. Tail(wire) \in Seq(Event) /\ Head(wire) \in Event
  BY TailSends DEF EventArrives, Typed
<1> QED BY <1>1 DEF EventArrives, Typed, Event

-----------------------------------------------------------------------------
(* The flag, the directories and the events. *)

\* An export that is not under way before or after a step does not count.
LEMMA OneBuiltKept ==
  ASSUME OneBuilt, Built' = Built, running' = running, wedged' = wedged
  PROVE  OneBuilt'
BY DEF OneBuilt

\* The only export that may be built has ended: the flag may be reset.
LEMMA OneBuiltOver ==
  ASSUME OneBuilt, NEW e \in Built, Built' = Built \ {e}, running' = FALSE
  PROVE  OneBuilt'
<1>1. Built' = {}
  BY DEF OneBuilt
<1> QED BY <1>1 DEF OneBuilt

LEMMA HonestKept ==
  ASSUME Honest, Sent' \subseteq Sent,
         \A x \in Exports : exp[x] = "done" => exp'[x] = "done",
         \A v \in Sent : v.of \in Exports
  PROVE  Honest'
BY DEF Honest

LEMMA SentOf ==
  ASSUME wire \in Seq(Event)
  PROVE  \A v \in Sent : v \in Event /\ v.of \in Exports
<1>1. \A k \in DOMAIN wire : wire[k] \in Event
  OBVIOUS
<1> QED BY <1>1 DEF Sent, Event

\* A step of build(), or of start() before it, that ends no export.
LEMMA BuildKept ==
  ASSUME Typed, Clean, NEW e \in Exports,
         Staged(e) \/ PreflightOk(e) \/ BuildGoesOn(e) \/ BuildFails(e)
  PROVE  Clean'
<1> USE DEF Building, Last
<1>1. exp[e] \in Building \ {"mkdtemp"} \/ (exp[e] = "mkdtemp" /\ Staged(e))
  BY DEF Staged, PreflightOk, BuildGoesOn, BuildFails, Goes
<1>2. exp'[e] \in Building \ {"mkdtemp"} /\ \A x \in Exports \ {e} : exp'[x] = exp[x]
  BY DEF Staged, PreflightOk, BuildGoesOn, BuildFails, Goes, Typed
<1>3. /\ running' = running /\ wedged' = wedged /\ move' = move
      /\ \A x \in Exports \ {e} : staging'[x] = staging[x]
  BY DEF Staged, PreflightOk, BuildGoesOn, BuildFails, Stage, Typed
<1>4. OneBuilt'
  <2>1. Built' = Built
    BY <1>1, <1>2 DEF Built
  <2> QED BY <1>3, <2>1, OneBuiltKept DEF Clean
<1>5. ASSUME NEW x \in Exports PROVE Tidy(x)'
  BY <1>1, <1>2, <1>3 DEF Clean, Tidy
<1>6. Honest'
  <2>1. Sent' \subseteq Sent \cup {[of |-> e, stage |-> s] : s \in {"collect", "zip"}}
    <3>1. CASE wire' = wire
      BY <3>1 DEF Sent
    <3>2. CASE PreflightOk(e)
      BY <3>2, EmitSends DEF PreflightOk, Typed
    <3>3. ASSUME NEW s \in {"collect", "zip"}, Emit(e, s)
          PROVE  Sent' \subseteq Sent \cup {[of |-> e, stage |-> s]}
      BY <3>3, EmitSends DEF Typed
    <3> QED BY <3>1, <3>2, <3>3 DEF Staged, BuildGoesOn, BuildFails, Silent, ui
  <2>2. \A x \in Exports : exp[x] = "done" => exp'[x] = "done"
    BY <1>1, <1>2
  <2> QED BY <2>1, <2>2, SentOf DEF Clean, Honest, Typed
<1> QED BY <1>4, <1>5, <1>6 DEF Clean

LEMMA ArriveClean ==
  ASSUME Typed, Clean, NEW e \in Exports, Arrive(e)
  PROVE  Clean'
<1> USE DEF Building, Last
<1>1. /\ exp[e] = "sent" /\ \A x \in Exports \ {e} : exp'[x] = exp[x]
      /\ staging' = staging /\ move' = move /\ wedged' = wedged /\ wire' = wire
  BY DEF Arrive, Goes, Typed, Silent
<1>2. \/ running /\ exp'[e] = "refused" /\ running' = running
      \/ ~running /\ exp'[e] = "mkdtemp" /\ running' = TRUE
  BY DEF Arrive, Goes, Typed
<1>3. OneBuilt'
  <2>1. CASE running
    <3>1. Built' = Built
      BY <1>1, <1>2, <2>1 DEF Built
    <3> QED BY <1>1, <1>2, <2>1, <3>1, OneBuiltKept DEF Clean
  <2>2. CASE ~running
    <3>1. Built = {}
      BY <2>2 DEF Clean, OneBuilt
    <3>2. Built' = {e}
      BY <1>1, <1>2, <2>2, <3>1 DEF Built
    <3> QED BY <1>2, <2>2, <3>2 DEF OneBuilt
  <2> QED BY <2>1, <2>2
<1>4. ASSUME NEW x \in Exports PROVE Tidy(x)'
  BY <1>1, <1>2 DEF Clean, Tidy
<1>5. Honest'
  BY <1>1, HonestKept, SentOf DEF Clean, Sent, Typed
<1> QED BY <1>3, <1>4, <1>5 DEF Clean

LEMMA MkdtempFailsClean ==
  ASSUME Typed, Clean, NEW e \in Exports, MkdtempFails(e)
  PROVE  Clean'
<1> USE DEF Building, Last
<1>1. /\ exp[e] = "mkdtemp" /\ exp'[e] = "refused" /\ \A x \in Exports \ {e} : exp'[x] = exp[x]
      /\ staging' = staging /\ move' = move /\ wedged' = TRUE /\ wire' = wire
  BY DEF MkdtempFails, Goes, Typed
<1>2. OneBuilt'
  <2>1. Built' = Built \ {e} /\ e \in Built
    BY <1>1 DEF Built
  <2> QED BY <1>1, <2>1 DEF Clean, OneBuilt
<1>3. ASSUME NEW x \in Exports PROVE Tidy(x)'
  BY <1>1 DEF Clean, Tidy
<1>4. Honest'
  BY <1>1, HonestKept, SentOf DEF Clean, Sent, Typed
<1> QED BY <1>2, <1>3, <1>4 DEF Clean

\* The export ends, or gives its place up before its directory is deleted.
LEMMA BuildOverClean ==
  ASSUME Typed, Clean, NEW e \in Exports,
         PreflightFails(e) \/ BuildDone(e) \/ CleanedUp(e)
  PROVE  Clean'
<1> USE DEF Building, Last
<1>1. /\ exp[e] \in Building /\ running' = FALSE /\ wedged' = wedged /\ move' = move
      /\ \A x \in Exports \ {e} : exp'[x] = exp[x] /\ staging'[x] = staging[x]
  BY DEF PreflightFails, BuildDone, CleanedUp, Goes, Stage, Typed
<1>2. \/ exp'[e] = "unstage" /\ wire' = wire
      \/ exp'[e] = "done" /\ staging'[e] = "bundle" /\ Emit(e, "done")
      \/ exp'[e] = "failed" /\ staging'[e] = "none" /\ Emit(e, "failed")
  BY DEF PreflightFails, BuildDone, CleanedUp, Goes, Stage, Typed, ui
<1>3. OneBuilt'
  <2>1. Built' = Built \ {e} /\ e \in Built
    BY <1>1, <1>2 DEF Built
  <2> QED BY <1>1, <2>1, OneBuiltOver DEF Clean
<1>4. ASSUME NEW x \in Exports PROVE Tidy(x)'
  BY <1>1, <1>2 DEF Clean, Tidy
<1>5. Honest'
  <2>1. \/ Sent' = Sent
        \/ exp'[e] = "done" /\ Sent' \subseteq Sent \cup {[of |-> e, stage |-> "done"]}
        \/ Sent' \subseteq Sent \cup {[of |-> e, stage |-> "failed"]}
    BY <1>2, EmitSends DEF Typed, Sent
  <2>2. \A x \in Exports : exp[x] = "done" => exp'[x] = "done"
    BY <1>1
  <2> QED BY <2>1, <2>2, SentOf DEF Clean, Honest, Typed
<1> QED BY <1>3, <1>4, <1>5 DEF Clean

\* The directory is deleted, or not.
LEMMA UnstagedClean ==
  ASSUME Typed, Clean, NEW e \in Exports, Unstaged(e) \/ UnstageFails(e)
  PROVE  Clean'
<1> USE DEF Building, Last
<1>1. /\ exp[e] = "unstage"
      /\ (exp'[e] = "refused" /\ staging'[e] = "none") \/ exp'[e] = "leftover"
      /\ \A x \in Exports \ {e} : exp'[x] = exp[x] /\ staging'[x] = staging[x]
      /\ running' = running /\ wedged' = wedged /\ move' = move /\ wire' = wire
  BY DEF Unstaged, UnstageFails, Goes, Stage, Typed
<1>2. Built' = Built
  BY <1>1 DEF Built
<1>3. ASSUME NEW x \in Exports PROVE Tidy(x)'
  BY <1>1 DEF Clean, Tidy
<1>4. Honest'
  BY <1>1, HonestKept, SentOf DEF Clean, Sent, Typed
<1> QED BY <1>1, <1>2, <1>3, <1>4, OneBuiltKept DEF Clean

LEMMA EndClean ==
  ASSUME Typed, Clean, NEW e, ExportsEnd(e)
  PROVE  Clean'
<1>1. \A x \in Exports :
        \/ ~InProgress(x) /\ exp'[x] = exp[x]
        \/ InProgress(x) /\ exp'[x] \in {"broken", "lost"}
  BY DEF ExportsEnd
<1>2. running' = FALSE /\ staging' = staging /\ move' = move /\ wire' \in {wire, <<>>}
  BY DEF ExportsEnd, Silent
<1>3. Built' = {}
  BY <1>1 DEF Built, Building, InProgress
<1>4. ASSUME NEW x \in Exports PROVE Tidy(x)'
  BY <1>1, <1>2 DEF Clean, Tidy, InProgress, Building
<1>5. Honest'
  <2>1. Sent' \subseteq Sent
    BY <1>2 DEF Sent
  <2>2. \A x \in Exports : exp[x] = "done" => exp'[x] = "done"
    BY <1>1 DEF InProgress, Building
  <2> QED BY <2>1, <2>2, HonestKept, SentOf DEF Clean, Typed
<1> QED BY <1>2, <1>3, <1>4, <1>5 DEF Clean, OneBuilt

LEMMA AnswerClean ==
  ASSUME Typed, Clean, NEW e \in Exports, Answer(e) \/ Click(e)
  PROVE  Clean'
<1> USE DEF Building
<1>1. /\ \A x \in Exports : \/ exp'[x] = exp[x]
                            \/ exp[x] \in {"none", "sent"} /\ exp'[x] \in {"sent", "refused"}
      /\ running' = running /\ wedged' = wedged /\ wire' = wire
  BY DEF Answer, Click, ResponseArrives, Unavailable, Finalize, Goes, Typed, export, ui
<1>2. Built' = Built
  BY <1>1 DEF Built
<1>3. ASSUME NEW x \in Exports PROVE Tidy(x)'
  <2>1. CASE Finalize(e)
    BY <2>1 DEF Clean, Tidy, Finalize, Stage, Typed
  <2>2. CASE ~Finalize(e)
    <3>1. staging' = staging /\ move' = move
      BY <2>2 DEF Answer, Click, ResponseArrives, Unavailable, export
    <3> QED BY <1>1, <3>1 DEF Clean, Tidy
  <2> QED BY <2>1, <2>2
<1>4. Honest'
  <2>1. \A x \in Exports : exp[x] = "done" => exp'[x] = "done"
    BY <1>1
  <2> QED BY <1>1, <2>1, HonestKept, SentOf DEF Clean, Sent, Typed
<1> QED BY <1>1, <1>2, <1>3, <1>4, OneBuiltKept DEF Clean

LEMMA EventClean ==
  ASSUME Typed, Clean, EventArrives
  PROVE  Clean'
<1> DEFINE event == Head(wire)
<1>1. /\ Sent' \subseteq Sent /\ event \in Sent /\ event \in Event
  BY TailSends DEF EventArrives, Typed, Sent
<1>2. event.of \in Exports /\ (event.stage = "done" => exp[event.of] = "done")
  BY <1>1 DEF Clean, Honest, Event
<1>3. /\ exp' = exp /\ staging' = staging /\ running' = running /\ wedged' = wedged
      /\ move' = IF event.stage = "done" THEN [move EXCEPT ![event.of] = "moving"] ELSE move
  BY DEF EventArrives
<1>4. Built' = Built
  BY <1>3 DEF Built
<1>5. ASSUME NEW x \in Exports PROVE Tidy(x)'
  BY <1>2, <1>3 DEF Clean, Tidy, Typed
<1>6. Honest'
  BY <1>1, <1>3, HonestKept, SentOf DEF Clean, Typed
<1> QED BY <1>3, <1>4, <1>5, <1>6, OneBuiltKept DEF Clean

-----------------------------------------------------------------------------
LEMMA InitIInv == Init => IInv
<1> SUFFICES ASSUME Init PROVE IInv
  OBVIOUS
<1>1. ProcessTypeOK
  <2>1. add \in [Adds -> {"none", "adding", "watching", "over"}]
    BY DEF Init, ProcessInit
  <2>2. 1 \in 1 .. MaxStarts
    BY ProcessAssumption
  <2> QED BY <2>1, <2>2 DEF Init, ProcessInit, ProcessTypeOK
<1>2. Typed
  <2>1. <<>> \in Seq(Event)
    OBVIOUS
  <2> QED BY <2>1 DEF Init, Typed, States, NoView, Last
<1>3. Limited
  <2>1. Admitted = {} /\ Admitted \ rushed = {}
    BY DEF Init, ProcessInit, Admitted, Watching, Waiting
  <2> QED BY <2>1, FS_EmptySet, ProcessAssumption DEF Limited
<1>4. Clean
  <2>1. Built = {} /\ Sent = {}
    BY DEF Init, Built, Building, Sent
  <2> QED BY <2>1 DEF Init, Clean, OneBuilt, Tidy, Honest
<1> QED BY <1>1, <1>2, <1>3, <1>4, TypedIsTypeOK DEF IInv

LEMMA AllUnchanged ==
  ASSUME UNCHANGED <<export, ui>>
  PROVE  (Typed => Typed') /\ (Clean => Clean')
BY DEF export, ui, Typed, Clean, OneBuilt, Built, Tidy, Honest, Sent

LEMMA NextIInv == IInv /\ [Next]_vars => IInv'
<1> SUFFICES ASSUME IInv, [Next]_vars PROVE IInv'
  OBVIOUS
<1>1. ProcessTypeOK /\ Limited /\ Typed /\ Clean
  BY TypedIsTypeOK DEF IInv
<1>2. ProcessTypeOK' /\ Limited'
  BY <1>1, StepOfProcess, ProcessType, ProcessLimited, ProcessUnchanged
<1>3. Typed' /\ Clean'
  <2>1. CASE Alone \/ UNCHANGED vars
    BY <1>1, <2>1, AllUnchanged DEF Alone, vars
  <2>2. CASE Ends \/ (CrashFast /\ ExportsEnd(0))
    BY <1>1, <2>2, EndTyped, EndClean DEF Ends
  <2>3. CASE EventArrives
    BY <1>1, <2>3, EventTyped, EventClean
  <2>4. ASSUME NEW e \in Exports, Click(e) \/ Build(e) \/ Unhandled(e) \/ Answer(e)
        PROVE  Typed' /\ Clean'
    <3>1. CASE Unhandled(e)
      BY <1>1, <3>1, EndTyped, EndClean DEF Unhandled
    <3>2. CASE Click(e) \/ Answer(e)
      BY <1>1, <3>2, AnswerTyped, AnswerClean
    <3>3. CASE Build(e)
      BY <1>1, <3>3, BuildTyped, ArriveClean, BuildKept, MkdtempFailsClean, BuildOverClean,
        UnstagedClean DEF Build
    <3> QED BY <2>4, <3>1, <3>2, <3>3
  <2> QED BY <2>1, <2>2, <2>3, <2>4 DEF Next
<1>4. TypeOK'
  <2>1. \A k \in DOMAIN wire' : wire'[k] \in Event
    BY <1>3 DEF Typed
  <2> QED BY <1>2, <1>3, <2>1 DEF TypeOK, Typed, Event
<1> QED BY <1>2, <1>3, <1>4 DEF IInv, Typed

LEMMA IInvImpliesSafety == IInv => WatchLimit /\ ExportsClean
<1> SUFFICES ASSUME IInv PROVE WatchLimit /\ ExportsClean
  OBVIOUS
<1>1. WatchLimit
  <2>1. /\ Watching \ rushed \subseteq Admitted \ rushed /\ IsFiniteSet(Admitted \ rushed)
    BY FS_Difference DEF IInv, Limited, Admitted
  <2>2. /\ Cardinality(Watching \ rushed) <= Cardinality(Admitted \ rushed)
        /\ Cardinality(Watching \ rushed) \in Nat /\ Cardinality(Admitted \ rushed) \in Nat
    BY <2>1, FS_Subset, FS_CardinalityType
  <2> QED BY <2>2, ProcessAssumption DEF IInv, Limited, WatchLimit
<1>2. Cardinality(Built) <= 1
  <2>1. CASE Built = {}
    BY <2>1, FS_EmptySet
  <2>2. CASE Built # {}
    <3>1. PICK e \in Built : TRUE
      BY <2>2
    <3>2. Built = {e}
      BY <3>1 DEF IInv, Clean, OneBuilt
    <3> QED BY <3>2, FS_Singleton
  <2> QED BY <2>1, <2>2
<1>3. ASSUME NEW e \in Exports, staging[e] # "none"
      PROVE  \/ InProgress(e) \/ exp[e] \in {"lost", "broken", "leftover"}
             \/ (exp[e] = "done" /\ staging[e] = "bundle" /\ move[e] # "moved")
  <2>1. Tidy(e) /\ exp[e] \in States
    BY DEF IInv, Clean, TypeOK
  <2> QED BY <1>3, <2>1 DEF Tidy, States, Last, InProgress
<1> QED BY <1>1, <1>2, <1>3 DEF IInv, Clean, OneBuilt, ExportsClean, Built

(* Every reachable state of the exports, their events and the process has  *)
(* the values the variables are declared with.                             *)
THEOREM TypeCorrect == Spec => []TypeOK
<1>1. IInv => TypeOK
  BY DEF IInv
<1> QED BY <1>1, InitIInv, NextIInv, PTL DEF Spec

(* However many requests to watch a file cross, and whatever a shutdown or *)
(* a restart does to them, the registry holds at most MaxWatches watches   *)
(* besides those that passed the limit while another was on its way.       *)
THEOREM WatchesAreLimited == Spec => []WatchLimit
BY InitIInv, NextIInv, IInvImpliesSafety, PTL DEF Spec

(* One export is built at a time and the exporter's flag says so, and only *)
(* a bundle that is not moved, a dead process or a deletion that failed    *)
(* leaves a directory behind.                                              *)
THEOREM ExportsAreClean == Spec => []ExportsClean
BY InitIInv, NextIInv, IInvImpliesSafety, PTL DEF Spec

-----------------------------------------------------------------------------
(* The log. *)

Sizes ==
  /\ MaxSize \in Nat /\ MaxLines \in Nat /\ MaxAgents \in Nat
  /\ Generations \in Nat /\ Generations >= 2

\* Every file but agent.log is full, and so is agent.log while it is rotated.
LogShape ==
  /\ file \in [Generation -> Seq(Nat)] /\ at \in Generation
  /\ logger \in {"down", "booting", "up"} /\ written \in 0 .. MaxLines /\ agents \in 0 .. MaxAgents
  /\ \A g \in Generation : g # 0 => file[g] = Absent \/ Len(Lines(g)) > MaxSize
  /\ at # 0 => logger # "down" /\ TooLarge /\ (at # Generations - 1 => Lines(at) = <<>>)
  /\ Lines(0) # <<>> => Lines(0)[Len(Lines(0))] = written

LogInv == LogShape /\ LastLinesKept

Straight(s) == \A j, k \in 1 .. Len(s) : s[k] = s[j] + k - j

LEMMA LogSizes == Sizes /\ 0 \in Generation /\ Generation = 0 .. Generations - 1 /\ Generation \subseteq Nat
BY LogAssumption DEF Sizes, Generation

LEMMA LinesType ==
  ASSUME LogShape, NEW g \in Generation
  PROVE  Lines(g) \in Seq(Nat) /\ DOMAIN Lines(g) = 1 .. Len(Lines(g)) /\ Len(Lines(g)) \in Nat
<1>1. file[g] \in Seq(Nat)
  BY DEF LogShape
<1>2. Lines(g) \in Seq(Nat)
  BY <1>1 DEF Lines
<1> QED BY <1>2

LEMMA InitLog == LogInit => LogInv
<1> SUFFICES ASSUME LogInit PROVE LogInv
  OBVIOUS
<1>1. \A g \in Generation : Lines(g) = <<>>
  BY DEF LogInit, Lines
<1>2. <<0>> \in Seq(Nat) /\ Len(<<>>) = 0 /\ DOMAIN <<>> = {}
  OBVIOUS
<1>3. LogShape
  <2>1. file \in [Generation -> Seq(Nat)]
    BY <1>2 DEF LogInit, Absent
  <2> QED BY <1>1, <2>1, LogSizes DEF LogInit, LogShape, Sizes
<1>4. Kept = {}
  BY <1>1, <1>2 DEF Kept, Numbers
<1>5. LastLinesKept
  <2>1. 0 \in 0 .. written /\ Kept = 0 + 1 .. written
    BY <1>4 DEF LogInit
  <2> QED BY <1>1, <1>2, <2>1 DEF LastLinesKept, Numbers
<1> QED BY <1>3, <1>5 DEF LogInv

\* All that LastLinesKept says is about the lines of the files.
LEMMA SameLines ==
  ASSUME LastLinesKept, written' = written, \A g \in Generation : Lines(g)' = Lines(g)
  PROVE  LastLinesKept'
<1>1. Kept' = Kept
  BY DEF Kept
<1> QED BY <1>1 DEF LastLinesKept

LEMMA RotateKeeps ==
  ASSUME LogInv, TooLarge, at = 0, at' = Generations - 1, file' = file, written' = written,
         logger' \in {"booting", "up"}, agents' \in 0 .. MaxAgents
  PROVE  LogInv'
<1>1. \A g \in Generation : Lines(g)' = Lines(g)
  BY DEF Lines
<1>2. LastLinesKept'
  BY <1>1, SameLines DEF LogInv
<1>3. LogShape'
  BY <1>1, LogSizes DEF LogInv, LogShape, Sizes, TooLarge
<1> QED BY <1>2, <1>3 DEF LogInv

LEMMA OpenKeeps ==
  ASSUME LogInv, Open, at = 0, written' = written, logger' = "up", agents' \in 0 .. MaxAgents
  PROVE  LogInv'
<1>1. Lines(0) \in Seq(Nat) /\ 0 \in Generation
  BY LinesType, LogSizes DEF LogInv
<1>2. file \in [Generation -> Seq(Nat)] /\ file' = [file EXCEPT ![0] = Lines(0)] /\ at' = 0
  BY DEF LogInv, LogShape, Open
<1>3. \A g \in Generation : Lines(g)' = Lines(g)
  <2> SUFFICES ASSUME NEW g \in Generation PROVE Lines(g)' = Lines(g)
    OBVIOUS
  <2>1. CASE g # 0
    BY <1>2, <2>1 DEF Lines
  <2>2. CASE g = 0
    <3>1. file'[0] = Lines(0)
      BY <1>1, <1>2
    <3>2. <<>> # <<0>>
      OBVIOUS
    <3> QED BY <2>2, <3>1, <3>2 DEF Lines, Absent
  <2> QED BY <2>1, <2>2
<1>4. LastLinesKept'
  BY <1>3, SameLines DEF LogInv
<1>5. LogShape'
  <2>1. file' \in [Generation -> Seq(Nat)]
    BY <1>1, <1>2
  <2> QED BY <1>2, <1>3, <2>1, LogSizes DEF LogInv, LogShape
<1> QED BY <1>4, <1>5 DEF LogInv

LEMMA KilledKeeps ==
  ASSUME LogInv, Killed
  PROVE  LogInv'
<1>1. \A g \in Generation : Lines(g)' = Lines(g)
  BY DEF Lines, Killed
<1>2. LastLinesKept'
  BY <1>1, SameLines DEF LogInv, Killed
<1>3. LogShape'
  BY <1>1, LogSizes DEF LogInv, LogShape, Killed
<1> QED BY <1>2, <1>3 DEF LogInv

LEMMA WriteKeeps ==
  ASSUME LogInv, Write
  PROVE  LogInv'
<1>1. /\ file \in [Generation -> Seq(Nat)] /\ at = 0 /\ file[0] # Absent /\ written \in 0 .. MaxLines
      /\ written < MaxLines /\ written' = written + 1 /\ file' = [file EXCEPT ![0] = Append(@, written')]
      /\ at' = at /\ logger' = logger /\ agents' = agents
  BY DEF LogInv, LogShape, Write, Logging
<1>2. 0 \in Generation /\ Sizes /\ written \in Nat
  BY <1>1, LogSizes
<1>3. PICK s \in Seq(Nat) : s = file[0]
  BY <1>1, <1>2
<1>t. PICK t : t = Append(s, written + 1)
  OBVIOUS
<1>4. Lines(0) = s /\ Lines(0)' = t
  <2>1. file'[0] = t
    BY <1>1, <1>2, <1>3, <1>t
  <2>2. t # <<0>>
    <3>1. Len(t) = Len(s) + 1 /\ t[Len(s) + 1] = written + 1 /\ Len(s) \in Nat
      BY <1>2, <1>t
    <3>2. t = <<0>> => Len(t) = 1 /\ t[1] = 0
      OBVIOUS
    <3> QED BY <1>2, <3>1, <3>2
  <2> QED BY <1>1, <1>3, <2>1, <2>2 DEF Lines, Absent
<1>5. \A g \in Generation : g # 0 => Lines(g)' = Lines(g)
  BY <1>1 DEF Lines
<1>6. /\ Len(t) = Len(s) + 1 /\ Len(s) \in Nat /\ t[Len(s) + 1] = written + 1
      /\ \A j \in 1 .. Len(s) : t[j] = s[j] /\ s[j] \in Nat
      /\ DOMAIN s = 1 .. Len(s) /\ DOMAIN t = 1 .. Len(s) + 1
      /\ t \in Seq(Nat) /\ t # <<>>
  BY <1>2, <1>t
<1>7. LogShape'
  <2>1. file' \in [Generation -> Seq(Nat)]
    BY <1>1, <1>2, <1>3, <1>6, <1>t
  <2>2. written' \in 0 .. MaxLines
    BY <1>1, <1>2 DEF Sizes
  <2>3. Lines(0)'[Len(Lines(0)')] = written'
    BY <1>1, <1>4, <1>6
  <2> QED BY <1>1, <1>5, <2>1, <2>2, <2>3 DEF LogInv, LogShape
<1>8. Numbers(Lines(0)') = Numbers(Lines(0)) \cup {written + 1}
  <2>1. Numbers(s) = {s[j] : j \in 1 .. Len(s)} /\ Numbers(t) = {t[j] : j \in 1 .. Len(s) + 1}
    BY <1>6 DEF Numbers
  <2>2. 1 .. Len(s) + 1 = 1 .. Len(s) \cup {Len(s) + 1}
    BY <1>6
  <2>3. Numbers(t) = Numbers(s) \cup {written + 1}
    BY <1>6, <2>1, <2>2
  <2> QED BY <1>4, <2>3
<1>9. Kept' = Kept \cup {written + 1}
  BY <1>2, <1>5, <1>8 DEF Kept
<1>10. \A x \in Kept : x \in Nat /\ x <= written
  BY <1>2 DEF LogInv, LastLinesKept
<1>11. \A g \in Generation : \A x \in Numbers(Lines(g)) : x \in Nat /\ x <= written
  BY <1>10 DEF Kept
<1>12. LastLinesKept'
  <2>1. ASSUME NEW g \in Generation, NEW j \in DOMAIN Lines(g)', NEW k \in DOMAIN Lines(g)'
        PROVE  Lines(g)'[k] = Lines(g)'[j] + k - j
    <3>1. CASE g # 0
      BY <1>5, <2>1, <3>1 DEF LogInv, LastLinesKept
    <3>2. CASE g = 0
      <4>1. \A m, n \in 1 .. Len(s) : s[n] = s[m] + n - m
        <5>1. \A m, n \in DOMAIN Lines(0) : Lines(0)[n] = Lines(0)[m] + n - m
          BY <1>2 DEF LogInv, LastLinesKept
        <5> QED BY <1>4, <1>6, <5>1
      <4>2. s # <<>> => s[Len(s)] = written
        BY <1>4 DEF LogInv, LogShape
      <4>3. \A m \in 1 .. Len(s) : s[m] = written + m - Len(s)
        <5> SUFFICES ASSUME NEW m \in 1 .. Len(s) PROVE s[m] = written + m - Len(s)
          OBVIOUS
        <5>1. s # <<>> /\ Len(s) \in 1 .. Len(s)
          BY <1>6
        <5>2. s[m] = s[Len(s)] + m - Len(s)
          BY <4>1, <5>1
        <5> QED BY <4>2, <5>1, <5>2
      <4>4. \A m \in 1 .. Len(s) + 1 : t[m] = written + m - Len(s)
        <5> SUFFICES ASSUME NEW m \in 1 .. Len(s) + 1 PROVE t[m] = written + m - Len(s)
          OBVIOUS
        <5>1. CASE m = Len(s) + 1
          BY <1>2, <1>6, <5>1
        <5>2. CASE m # Len(s) + 1
          BY <1>6, <4>3, <5>2
        <5> QED BY <5>1, <5>2
      <4>5. j \in 1 .. Len(s) + 1 /\ k \in 1 .. Len(s) + 1
        BY <1>4, <1>6, <3>2
      <4>6. t[k] = written + k - Len(s) /\ t[j] = written + j - Len(s) /\ Len(s) \in Nat
        BY <1>6, <4>4, <4>5
      <4>7. t[k] = t[j] + k - j
        BY <1>2, <4>5, <4>6
      <4> QED BY <1>4, <3>2, <4>7
    <3> QED BY <3>1, <3>2
  <2>2. ASSUME NEW g \in Generation, NEW h \in Generation, g < h,
               NEW x \in Numbers(Lines(g)'), NEW y \in Numbers(Lines(h)')
        PROVE  y < x
    <3>1. Lines(h)' = Lines(h)
      BY <1>5, <2>2, LogSizes
    <3>2. CASE x \in Numbers(Lines(g))
      BY <2>2, <3>1, <3>2 DEF LogInv, LastLinesKept
    <3>3. CASE x = written + 1
      BY <1>2, <1>11, <2>2, <3>1, <3>3
    <3> QED BY <1>5, <1>8, <2>2, <3>2, <3>3
  <2>3. \E lost \in 0 .. written' :
          Kept' = lost + 1 .. written' /\ (lost = 0 \/ written' - lost >= Reserve)
    <3>1. PICK lost \in 0 .. written : Kept = lost + 1 .. written /\ (lost = 0 \/ written - lost >= Reserve)
      BY DEF LogInv, LastLinesKept
    <3>2. Kept' = lost + 1 .. written'
      BY <1>1, <1>2, <1>9, <3>1
    <3>3. Reserve \in Nat
      BY <1>2 DEF Reserve, Sizes
    <3>4. lost = 0 \/ written' - lost >= Reserve
      BY <1>1, <1>2, <3>1, <3>3
    <3> QED BY <1>1, <1>2, <3>2, <3>4
  <2>4. Reserve' = Reserve
    BY DEF Reserve
  <2> QED BY <2>1, <2>2, <2>3, <2>4 DEF LastLinesKept
<1> QED BY <1>7, <1>12 DEF LogInv

\* What a rename does to the lines: those of file at - 1 are those of file at,
\* and those that were there are gone.
Moves(a, b) ==
  /\ a = at /\ b = at - 1 /\ at' = b /\ a # 0 /\ b < a /\ b + 1 = a /\ a \in Nat /\ b \in Nat
  /\ Lines(b)' = <<>> /\ file'[b] = Absent
  /\ \A g \in Generation : g # a /\ g # b => Lines(g)' = Lines(g) /\ file'[g] = file[g]
  /\ IF file[b] = Absent THEN Lines(a)' = Lines(a) /\ file'[a] = file[a]
                         ELSE Lines(a)' = Lines(b) /\ file'[a] = file[b]

LEMMA RenameLines ==
  ASSUME LogInv, Rename
  PROVE  /\ file' \in [Generation -> Seq(Nat)]
         /\ \E a \in Generation, b \in Generation : Moves(a, b)
<1>1. at \in Generation /\ file \in [Generation -> Seq(Nat)] /\ at > 0 /\ at' = at - 1
  BY DEF LogInv, LogShape, Rename
<1>2. PICK a \in Generation, b \in Generation : a = at /\ b = at - 1
  BY <1>1, LogSizes DEF Sizes
<1>3. b < a /\ b + 1 = a /\ a # 0 /\ a \in Nat /\ b \in Nat /\ a # b
  BY <1>1, <1>2, LogSizes
<1>4. /\ file' \in [Generation -> Seq(Nat)] /\ file'[b] = Absent
      /\ \A g \in Generation : g # a /\ g # b => file'[g] = file[g]
      /\ file'[a] = IF file[b] = Absent THEN file[a] ELSE file[b]
  <2>1. CASE file[b] = Absent
    BY <1>1, <1>2, <2>1 DEF Rename
  <2>2. CASE file[b] # Absent
    <3>1. file' = [file EXCEPT ![a] = file[b], ![b] = Absent]
      BY <1>2, <2>2 DEF Rename
    <3>2. Absent \in Seq(Nat)
      BY DEF Absent
    <3> QED BY <1>1, <1>3, <2>2, <3>1, <3>2
  <2> QED BY <2>1, <2>2
<1>5. /\ Lines(b)' = <<>> /\ \A g \in Generation : g # a /\ g # b => Lines(g)' = Lines(g)
      /\ Lines(a)' = IF file[b] = Absent THEN Lines(a) ELSE Lines(b)
  BY <1>4 DEF Lines
<1>6. Moves(a, b)
  BY <1>1, <1>2, <1>3, <1>4, <1>5 DEF Moves
<1> QED BY <1>4, <1>6

LEMMA RenameShape ==
  ASSUME LogInv, Rename
  PROVE  LogShape'
<1>1. PICK a \in Generation, b \in Generation : Moves(a, b)
  BY RenameLines
<1>2. file' \in [Generation -> Seq(Nat)] /\ 0 \in Generation
  BY RenameLines, LogSizes
<1>3. Len(Lines(0)) > MaxSize /\ logger # "down"
  BY <1>1 DEF LogInv, LogShape, TooLarge, Moves
<1>4. ASSUME NEW g \in Generation, g # 0 PROVE file'[g] = Absent \/ Len(Lines(g)') > MaxSize
  <2>1. \A h \in Generation : file[h] = Absent \/ Len(Lines(h)) > MaxSize
    BY <1>3 DEF LogInv, LogShape
  <2> QED BY <1>1, <1>4, <2>1 DEF Moves
<1>5. Lines(0)' = Lines(0) \/ Lines(0)' = <<>>
  BY <1>1, <1>2 DEF Moves
<1>6. at' # 0 => Lines(0)' = Lines(0) /\ Lines(b)' = <<>> /\ at' = b
  BY <1>1, <1>2 DEF Moves
<1>7. at' # 0 => Lines(at)' = <<>>
  BY <1>6 DEF Lines
<1>8. at' # 0 => TooLarge'
  BY <1>3, <1>6 DEF TooLarge
<1>9. /\ at' \in Generation /\ logger' = logger /\ written' = written /\ agents' = agents
  BY <1>1 DEF Moves, Rename
<1>10. Lines(0)' # <<>> => Lines(0)'[Len(Lines(0)')] = written'
  BY <1>5, <1>9 DEF LogInv, LogShape
<1> QED BY <1>2, <1>3, <1>4, <1>7, <1>8, <1>9, <1>10 DEF LogInv, LogShape

\* A move to a place that is free changes no line and no order of lines.
LEMMA MoveKeeps ==
  ASSUME LogInv, Rename, Lines(at) = <<>>, file[at - 1] # Absent
  PROVE  LastLinesKept'
<1>1. PICK a \in Generation, b \in Generation : Moves(a, b)
  BY RenameLines
<1>2. /\ Lines(b)' = <<>> /\ Lines(a)' = Lines(b) /\ Lines(a) = <<>> /\ b + 1 = a /\ b < a /\ a \in Nat /\ b \in Nat
      /\ \A g \in Generation : g # a /\ g # b => Lines(g)' = Lines(g)
  BY <1>1 DEF Moves
<1>3. Numbers(<<>>) = {} /\ DOMAIN <<>> = {}
  BY DEF Numbers
<1>4. written' = written
  BY DEF Rename
<1>5. Kept' = Kept
  <2>1. \A g \in Generation : \E h \in Generation : Numbers(Lines(g)') = Numbers(Lines(h))
    BY <1>1, <1>2
  <2>2. \A g \in Generation : \E h \in Generation : Numbers(Lines(g)) = Numbers(Lines(h)')
    BY <1>1, <1>2
  <2> QED BY <2>1, <2>2 DEF Kept
<1>6. \A g \in Generation : \A j, k \in DOMAIN Lines(g)' : Lines(g)'[k] = Lines(g)'[j] + k - j
  <2> SUFFICES ASSUME NEW g \in Generation
               PROVE  \A j, k \in DOMAIN Lines(g)' : Lines(g)'[k] = Lines(g)'[j] + k - j
    OBVIOUS
  <2>1. CASE g = a
    BY <1>2, <2>1 DEF LogInv, LastLinesKept
  <2>2. CASE g = b
    BY <1>2, <1>3, <2>2
  <2>3. CASE g # a /\ g # b
    BY <1>2, <2>3 DEF LogInv, LastLinesKept
  <2> QED BY <2>1, <2>2, <2>3
<1>7. ASSUME NEW g \in Generation, NEW h \in Generation, g < h,
             NEW x \in Numbers(Lines(g)'), NEW y \in Numbers(Lines(h)')
      PROVE  y < x
  <2>1. g # b /\ h # b
    BY <1>2, <1>3, <1>7
  <2>2. PICK i \in Generation, j \in Generation :
          i < j /\ x \in Numbers(Lines(i)) /\ y \in Numbers(Lines(j))
    <3>1. CASE g = a
      <4>1. h # a /\ b < h
        BY <1>2, <1>7, <3>1, LogSizes
      <4> QED BY <1>2, <1>7, <2>1, <3>1, <4>1
    <3>2. CASE h = a
      <4>1. g # a /\ g < b
        BY <1>2, <1>7, <2>1, <3>2, LogSizes
      <4> QED BY <1>2, <1>7, <2>1, <3>2, <4>1
    <3>3. CASE g # a /\ h # a
      BY <1>2, <1>7, <2>1, <3>3
    <3> QED BY <3>1, <3>2, <3>3
  <2> QED BY <2>2 DEF LogInv, LastLinesKept
<1>8. Reserve' = Reserve
  BY DEF Reserve
<1> QED BY <1>4, <1>5, <1>6, <1>7, <1>8 DEF LogInv, LastLinesKept

\* A file that is in order: its last line is its largest, and its first is as
\* much smaller as it is long.
LEMMA EndsOfLines ==
  ASSUME NEW s \in Seq(Nat), s # <<>>, \A j, k \in DOMAIN s : s[k] = s[j] + k - j
  PROVE  /\ s[Len(s)] \in Numbers(s) /\ s[1] \in Numbers(s) /\ s[1] = s[Len(s)] + 1 - Len(s)
         /\ s[1] \in Nat /\ s[Len(s)] \in Nat
         /\ \A x \in Numbers(s) : x \in Nat /\ x <= s[Len(s)]
<1>1. Len(s) \in 1 .. Len(s) /\ 1 \in 1 .. Len(s) /\ DOMAIN s = 1 .. Len(s) /\ Len(s) \in Nat
  OBVIOUS
<1>2. \A j \in 1 .. Len(s) : s[j] \in Nat
  OBVIOUS
<1>3. s[1] = s[Len(s)] + 1 - Len(s)
  BY <1>1
<1>4. ASSUME NEW x \in Numbers(s) PROVE x \in Nat /\ x <= s[Len(s)]
  <2>1. PICK j \in 1 .. Len(s) : x = s[j]
    BY <1>1 DEF Numbers
  <2>2. s[j] = s[Len(s)] + j - Len(s)
    BY <1>1
  <2> QED BY <1>1, <1>2, <2>1, <2>2
<1> QED BY <1>1, <1>2, <1>3, <1>4 DEF Numbers

\* A move over the oldest file: the lines that go are those before a line that
\* two full files, or the only other one, come after.
LEMMA DropKeeps ==
  ASSUME LogInv, Rename, Lines(at) # <<>>, file[at - 1] # Absent
  PROVE  LastLinesKept'
<1>1. PICK a \in Generation, b \in Generation : Moves(a, b)
  BY RenameLines
<1>2. /\ Lines(b)' = <<>> /\ Lines(a)' = Lines(b) /\ b + 1 = a /\ b < a /\ a \in Nat /\ b \in Nat /\ a # 0
      /\ \A g \in Generation : g # a /\ g # b => Lines(g)' = Lines(g)
  BY <1>1 DEF Moves
<1>3. a = Generations - 1 /\ Sizes /\ 0 \in Generation /\ \A g \in Generation : g \in Nat /\ g <= a
  BY <1>1, <1>2, LogSizes DEF LogInv, LogShape, Sizes, Moves
<1>4. Numbers(<<>>) = {} /\ DOMAIN <<>> = {} /\ Lines(a) # <<>> /\ written' = written /\ written \in Nat
  <2>1. written \in Nat
    BY LogSizes DEF LogInv, LogShape, Sizes
  <2> QED BY <1>1, <2>1 DEF Numbers, Rename, Moves
<1>5. /\ \A g \in Generation : \A j, k \in DOMAIN Lines(g) : Lines(g)[k] = Lines(g)[j] + k - j
      /\ \A g, h \in Generation : g < h => \A x \in Numbers(Lines(g)), y \in Numbers(Lines(h)) : y < x
  BY DEF LogInv, LastLinesKept
<1>6. \A g \in Generation : Lines(g) \in Seq(Nat) /\ Len(Lines(g)) \in Nat
  BY LinesType DEF LogInv
<1>7. \A g \in Generation : \A x \in Numbers(Lines(g)) : x \in Kept
  BY DEF Kept
<1>8. PICK lost \in 0 .. written : Kept = lost + 1 .. written /\ (lost = 0 \/ written - lost >= Reserve)
  BY DEF LogInv, LastLinesKept
<1>9. PICK s \in Seq(Nat) : s = Lines(a)
  BY <1>6
<1>10. PICK last \in Nat : last = s[Len(s)] /\ last \in Numbers(s) /\ \A x \in Numbers(s) : x \in Nat /\ x <= last
  BY <1>4, <1>5, <1>9, EndsOfLines
<1>11. last \in Kept /\ last >= lost + 1 /\ last <= written
  <2>1. last \in Kept
    BY <1>7, <1>9, <1>10
  <2> QED BY <1>4, <1>8, <2>1
<1>12. Kept' = last + 1 .. written
  <2>1. ASSUME NEW x \in Kept' PROVE x \in last + 1 .. written
    <3>1. PICK g \in Generation : x \in Numbers(Lines(g)')
      BY <2>1 DEF Kept
    <3>2. PICK h \in Generation : h < a /\ x \in Numbers(Lines(h))
      <4>1. CASE g = a
        BY <1>2, <3>1, <4>1
      <4>2. CASE g # a
        <5>1. g # b /\ g < a
          BY <1>2, <1>3, <1>4, <3>1, <4>2
        <5> QED BY <1>2, <3>1, <4>2, <5>1
      <4> QED BY <4>1, <4>2
    <3>3. last < x
      BY <1>5, <1>9, <1>10, <3>2
    <3>4. x \in lost + 1 .. written
      BY <1>7, <1>8, <3>2
    <3> QED BY <1>4, <1>8, <3>3, <3>4
  <2>2. ASSUME NEW x \in last + 1 .. written PROVE x \in Kept'
    <3>1. x \in lost + 1 .. written /\ x > last
      BY <1>4, <1>8, <1>11
    <3>2. PICK h \in Generation : x \in Numbers(Lines(h))
      BY <1>8, <3>1 DEF Kept
    <3>3. h # a
      <4> SUFFICES ASSUME h = a PROVE FALSE
        OBVIOUS
      <4>1. x <= last
        BY <1>9, <1>10, <3>2
      <4> QED BY <1>10, <3>1, <4>1
    <3>4. PICK g \in Generation : x \in Numbers(Lines(g)')
      <4>1. CASE h = b
        BY <1>2, <3>2, <4>1
      <4>2. CASE h # b
        BY <1>2, <3>2, <3>3, <4>2
      <4> QED BY <4>1, <4>2
    <3> QED BY <3>4 DEF Kept
  <2> QED BY <2>1, <2>2
\* agent.log is full and holds the last lines.
<1>13. PICK s0 \in Seq(Nat) : s0 = Lines(0)
  BY <1>3, <1>6
<1>14. Len(s0) \in Nat /\ Len(s0) >= MaxSize + 1 /\ s0 # <<>> /\ s0[Len(s0)] = written
  <2>1. Len(s0) > MaxSize
    BY <1>1, <1>2, <1>13 DEF LogInv, LogShape, TooLarge, Moves
  <2>2. s0 # <<>> /\ Len(s0) \in Nat
    BY <1>3, <2>1 DEF Sizes
  <2>3. s0[Len(s0)] = written
    BY <1>13, <2>2 DEF LogInv, LogShape
  <2> QED BY <1>3, <2>1, <2>2, <2>3 DEF Sizes
<1>15. s0[1] \in Nat /\ s0[1] \in Numbers(s0) /\ s0[1] = written + 1 - Len(s0)
  BY <1>3, <1>5, <1>13, <1>14, EndsOfLines
<1>16. written - last >= Reserve
  <2>1. last < s0[1]
    BY <1>2, <1>3, <1>5, <1>9, <1>10, <1>13, <1>15
  <2>2. CASE b = 0
    <3>1. Reserve = MaxSize + 1
      BY <1>2, <1>3, <2>2 DEF Reserve, Sizes
    <3> QED BY <1>3, <1>4, <1>14, <1>15, <2>1, <3>1 DEF Sizes
  <2>3. CASE b # 0
    <3>1. PICK s1 \in Seq(Nat) : s1 = Lines(b)
      BY <1>6
    <3>2. Len(s1) \in Nat /\ Len(s1) >= MaxSize + 1 /\ s1 # <<>>
      <4>1. Len(s1) > MaxSize
        BY <1>1, <2>3, <3>1 DEF LogInv, LogShape, Moves
      <4> QED BY <1>3, <4>1 DEF Sizes
    <3>3. PICK m \in Nat : m = s1[Len(s1)] /\ m \in Numbers(s1)
      BY <1>5, <3>1, <3>2, EndsOfLines
    <3>4. s1[1] \in Nat /\ s1[1] \in Numbers(s1) /\ s1[1] = m + 1 - Len(s1)
      BY <1>5, <3>1, <3>2, <3>3, EndsOfLines
    <3>5. last < s1[1]
      BY <1>2, <1>5, <1>9, <1>10, <3>1, <3>4
    <3>6. m < s0[1]
      <4>1. 0 < b
        BY <1>2, <2>3
      <4> QED BY <1>3, <1>5, <1>13, <1>15, <3>1, <3>3, <4>1
    <3>7. MaxSize \in Nat /\ (Reserve = MaxSize + 1 \/ Reserve = 2 * (MaxSize + 1))
      BY <1>3 DEF Reserve, Sizes
    <3>8. PICK k0 \in Nat, k1 \in Nat, f0 \in Nat, f1 \in Nat :
            k0 = Len(s0) /\ k1 = Len(s1) /\ f0 = s0[1] /\ f1 = s1[1]
      BY <1>14, <1>15, <3>2, <3>4
    <3>9. last < f1 /\ f1 = m + 1 - k1 /\ m < f0 /\ f0 = written + 1 - k0 /\ k0 >= MaxSize + 1 /\ k1 >= MaxSize + 1
      BY <1>14, <1>15, <3>2, <3>4, <3>5, <3>6, <3>8
    <3>10. written - last >= 2 * (MaxSize + 1)
      BY <1>4, <3>7, <3>9
    <3> QED BY <1>4, <3>7, <3>10
  <2> QED BY <2>2, <2>3
<1>17. \A g \in Generation : \A j, k \in DOMAIN Lines(g)' : Lines(g)'[k] = Lines(g)'[j] + k - j
  <2> SUFFICES ASSUME NEW g \in Generation
               PROVE  \A j, k \in DOMAIN Lines(g)' : Lines(g)'[k] = Lines(g)'[j] + k - j
    OBVIOUS
  <2>1. CASE g = a
    BY <1>2, <1>5, <2>1
  <2>2. CASE g = b
    BY <1>2, <1>4, <2>2
  <2>3. CASE g # a /\ g # b
    BY <1>2, <1>5, <2>3
  <2> QED BY <2>1, <2>2, <2>3
<1>18. ASSUME NEW g \in Generation, NEW h \in Generation, g < h,
              NEW x \in Numbers(Lines(g)'), NEW y \in Numbers(Lines(h)')
       PROVE  y < x
  <2>1. g # b /\ h # b /\ g # a
    BY <1>2, <1>3, <1>4, <1>18
  <2>2. CASE h = a
    <3>1. g < b
      BY <1>2, <1>3, <1>18, <2>1, <2>2
    <3> QED BY <1>2, <1>5, <1>18, <2>1, <2>2, <3>1
  <2>3. CASE h # a
    BY <1>2, <1>5, <1>18, <2>1, <2>3
  <2> QED BY <2>2, <2>3
<1>19. last \in 0 .. written' /\ Kept' = last + 1 .. written' /\ written' - last >= Reserve'
  BY <1>4, <1>10, <1>11, <1>12, <1>16 DEF Reserve
<1> QED BY <1>17, <1>18, <1>19 DEF LastLinesKept

LEMMA RenameKeeps ==
  ASSUME LogInv, Rename
  PROVE  LogInv'
<1>1. CASE file[at - 1] = Absent
  <2>1. file' = file /\ written' = written
    BY <1>1 DEF Rename
  <2>2. \A g \in Generation : Lines(g)' = Lines(g)
    BY <2>1 DEF Lines
  <2> QED BY <2>1, <2>2, SameLines, RenameShape DEF LogInv
<1>2. CASE file[at - 1] # Absent
  BY <1>2, MoveKeeps, DropKeeps, RenameShape DEF LogInv
<1> QED BY <1>1, <1>2

LEMMA LogHolds == LogSpec => []LogInv
<1>1. LogInv /\ [LogNext]_log => LogInv'
  <2> SUFFICES ASSUME LogInv, [LogNext]_log PROVE LogInv'
    OBVIOUS
  <2>1. CASE Boot
    <3>1. at = 0 => agents' \in 0 .. MaxAgents
      BY <2>1, LogSizes DEF Boot, LogInv, LogShape, Sizes
    <3>2. at = 0
      BY <2>1 DEF Boot, LogInv, LogShape
    <3> QED BY <2>1, <3>1, <3>2, RotateKeeps, OpenKeeps DEF Boot, Rotate
  <2>2. CASE SizeCheck
    <3>1. agents \in 0 .. MaxAgents
      BY DEF LogInv, LogShape
    <3> QED BY <2>2, <3>1, RotateKeeps DEF SizeCheck, Logging, Rotate
  <2>3. CASE Reopen
    <3>1. agents \in 0 .. MaxAgents
      BY DEF LogInv, LogShape
    <3> QED BY <2>3, <3>1, OpenKeeps DEF Reopen
  <2>4. CASE UNCHANGED log
    <3>1. file' = file /\ at' = at /\ logger' = logger /\ written' = written /\ agents' = agents
      BY <2>4 DEF log
    <3>2. \A g \in Generation : Lines(g)' = Lines(g)
      BY <3>1 DEF Lines
    <3>3. LogShape'
      BY <3>1, <3>2, LogSizes DEF LogInv, LogShape, TooLarge
    <3> QED BY <3>1, <3>2, <3>3, SameLines DEF LogInv
  <2> QED BY <2>1, <2>2, <2>3, <2>4, WriteKeeps, RenameKeeps, KilledKeeps DEF LogNext
<1> QED BY <1>1, InitLog, PTL DEF LogSpec

(* The generations hold the last lines written, in order and without a     *)
(* hole, and never less than Reserve of them, for files of any size, any   *)
(* number of generations, and however many rotations were cut off between  *)
(* which renames (rotateGenerations, createAgentLogging).                  *)
THEOREM LogStaysWhole == LogSpec => []LogIsWhole
<1>1. LogInv => LogIsWhole
  <2> SUFFICES ASSUME LogInv PROVE LogIsWhole
    OBVIOUS
  <2>1. ASSUME NEW g \in Generation, NEW x \in Numbers(file[g]) PROVE x \in 0 .. MaxLines
    <3>1. written \in 0 .. MaxLines /\ MaxLines \in Nat
      BY LogSizes DEF LogInv, LogShape, Sizes
    <3>2. CASE file[g] = Absent
      BY <2>1, <3>1, <3>2 DEF Absent, Numbers
    <3>3. CASE file[g] # Absent
      <4>1. x \in Kept
        BY <2>1, <3>3 DEF Kept, Lines
      <4> QED BY <3>1, <4>1 DEF LogInv, LastLinesKept
    <3> QED BY <3>2, <3>3
  <2> QED BY <2>1 DEF LogInv, LogShape, LogIsWhole, LogTypeOK
<1> QED BY <1>1, LogHolds, PTL

-----------------------------------------------------------------------------
(* Dashboard *)

Asking == [order : Orders,
           list : {"free", "sent", "waits", "listed", "failed"},
           system : {"free", "sent", "sampled", "failed"}]

\* Whoever waits for ps waits for a run of the agent that is up.
Shared ==
  /\ runs \in {0, 1}
  /\ IF up THEN inFlight <=> runs = 1 ELSE runs = 0
  /\ \A s \in Slots : refreshes[s].list = "waits" => up /\ inFlight

Polled ==
  /\ visible \in BOOLEAN /\ timer \in BOOLEAN /\ (timer => visible)
  /\ up \in BOOLEAN /\ sampled \in BOOLEAN /\ inFlight \in BOOLEAN
  /\ sortBy \in Orders /\ table \in [order : Orders \cup {"none"}, failed : BOOLEAN]
  /\ refreshes \in [Slots -> Asking]
  /\ cached \in {"none", "fresh", "old"} /\ changes \in 0 .. MaxChanges

DashboardInv == Polled /\ Shared

-----------------------------------------------------------------------------
LEMMA InitDashboard == DashboardInit => DashboardInv
<1> SUFFICES ASSUME DashboardInit PROVE DashboardInv
  OBVIOUS
<1>1. refreshes \in [Slots -> Asking]
  BY DEF DashboardInit, Asking, Free, Orders
<1>2. 0 \in 0 .. MaxChanges
  BY DashboardAssumption
<1> QED BY <1>1, <1>2 DEF DashboardInit, DashboardInv, Polled, Shared, Free, Orders

LEMMA ChangeTyped ==
  ASSUME changes \in 0 .. MaxChanges, Change
  PROVE  changes' \in 0 .. MaxChanges
BY DashboardAssumption DEF Change

\* A refresh that begins waits for nothing yet.
LEMMA RefreshKept ==
  ASSUME refreshes \in [Slots -> Asking], NEW order \in Orders, Refresh(order)
  PROVE  /\ refreshes' \in [Slots -> Asking]
         /\ \A s \in Slots : refreshes'[s].list = "waits" => refreshes[s].list = "waits"
<1>1. Asked(order) \in Asking /\ Asked(order).list # "waits"
  BY DEF Asked, Asking
<1> QED BY <1>1 DEF Refresh

LEMMA ServedKept ==
  ASSUME refreshes \in [Slots -> Asking], NEW how \in {"listed", "failed"}, Served(how)
  PROVE  /\ refreshes' \in [Slots -> Asking]
         /\ \A s \in Slots : refreshes'[s].list # "waits"
BY DEF Served, Asking

-----------------------------------------------------------------------------
LEMMA WindowKeeps ==
  ASSUME DashboardInv, Start \/ Tick \/ OnVisibility \/ \E order \in Orders : SetSortBy(order)
  PROVE  DashboardInv'
<1>1. CASE Start
  <2>1. refreshes' \in [Slots -> Asking]
         /\ \A s \in Slots : refreshes'[s].list = "waits" => refreshes[s].list = "waits"
    BY <1>1, RefreshKept DEF DashboardInv, Polled, Start
  <2> QED BY <1>1, <2>1 DEF DashboardInv, Polled, Shared, Start, store, ps
<1>2. CASE Tick
  <2>1. refreshes' \in [Slots -> Asking]
         /\ \A s \in Slots : refreshes'[s].list = "waits" => refreshes[s].list = "waits"
    BY <1>2, RefreshKept DEF DashboardInv, Polled, Tick
  <2> QED BY <1>2, <2>1 DEF DashboardInv, Polled, Shared, Tick, window, store, ps
<1>3. CASE OnVisibility
  <2>1. refreshes' \in [Slots -> Asking]
         /\ \A s \in Slots : refreshes'[s].list = "waits" => refreshes[s].list = "waits"
    BY <1>3, RefreshKept DEF DashboardInv, Polled, OnVisibility
  <2>2. changes' \in 0 .. MaxChanges
    BY <1>3, ChangeTyped DEF DashboardInv, Polled, OnVisibility
  <2> QED BY <1>3, <2>1, <2>2 DEF DashboardInv, Polled, Shared, OnVisibility, store, ps
<1>4. ASSUME NEW order \in Orders, SetSortBy(order) PROVE DashboardInv'
  <2>1. refreshes' \in [Slots -> Asking]
         /\ \A s \in Slots : refreshes'[s].list = "waits" => refreshes[s].list = "waits"
    BY <1>4, RefreshKept DEF DashboardInv, Polled, SetSortBy
  <2>2. changes' \in 0 .. MaxChanges
    BY <1>4, ChangeTyped DEF DashboardInv, Polled, SetSortBy
  <2> QED BY <1>4, <2>1, <2>2 DEF DashboardInv, Polled, Shared, SetSortBy, window, ps
<1> QED BY <1>1, <1>2, <1>3, <1>4

LEMMA SettledKeeps ==
  ASSUME DashboardInv, NEW s \in Slots, Settled(s)
  PROVE  DashboardInv'
<1>1. Free \in Asking /\ Free.list # "waits" /\ refreshes[s] \in Asking
  BY DEF Free, Asking, Orders, DashboardInv, Polled
<1>2. /\ refreshes' \in [Slots -> Asking]
      /\ \A x \in Slots : refreshes'[x].list = "waits" => refreshes[x].list = "waits"
  BY <1>1 DEF Settled, DashboardInv, Polled
<1>3. table' \in [order : Orders \cup {"none"}, failed : BOOLEAN]
  BY <1>1 DEF Settled, Asking, DashboardInv, Polled
<1> QED BY <1>2, <1>3 DEF Settled, DashboardInv, Polled, Shared, window, ps

\* An answer to one of the two requests of a refresh.
LEMMA AnswersKept ==
  ASSUME refreshes \in [Slots -> Asking], NEW s \in Slots, NEW from, NEW part, NEW to,
         \/ part = "list" /\ to \in {"waits", "listed", "failed"}
         \/ part = "system" /\ to \in {"sampled", "failed"},
         Answers(s, part, from, to)
  PROVE  /\ refreshes' \in [Slots -> Asking]
         /\ \A x \in Slots \ {s} : refreshes'[x] = refreshes[x]
         /\ refreshes'[s].list = IF part = "list" THEN to ELSE refreshes[s].list
<1>1. refreshes' = [refreshes EXCEPT ![s] = [@ EXCEPT ![part] = to]]
  BY DEF Answers
<1>2. CASE part = "list"
  <2>1. [refreshes[s] EXCEPT !["list"] = to] \in Asking
        /\ [refreshes[s] EXCEPT !["list"] = to].list = to
    BY <1>2 DEF Asking
  <2> QED BY <1>1, <1>2, <2>1
<1>3. CASE part = "system"
  <2>1. [refreshes[s] EXCEPT !["system"] = to] \in Asking
        /\ [refreshes[s] EXCEPT !["system"] = to].list = refreshes[s].list
    BY <1>3 DEF Asking
  <2> QED BY <1>1, <1>3, <2>1
<1> QED BY <1>2, <1>3

LEMMA AgentKeeps ==
  ASSUME DashboardInv, NEW s \in Slots, System(s) \/ List(s) \/ Fails(s)
  PROVE  DashboardInv'
<1>1. CASE System(s)
  <2>1. /\ refreshes' \in [Slots -> Asking]
        /\ \A x \in Slots : refreshes'[x].list = refreshes[x].list
    BY <1>1, AnswersKept DEF System, DashboardInv, Polled
  <2> QED BY <1>1, <2>1 DEF System, DashboardInv, Polled, Shared, window, store, ps
<1>2. CASE List(s)
  <2>1. /\ refreshes' \in [Slots -> Asking]
        /\ \A x \in Slots \ {s} : refreshes'[x] = refreshes[x]
        /\ refreshes'[s].list = IF cached = "fresh" THEN "listed" ELSE "waits"
    BY <1>2, AnswersKept DEF List, DashboardInv, Polled
  <2>2. /\ Polled'
    BY <1>2, <2>1 DEF List, DashboardInv, Polled, window, store
  <2>3. Shared'
    BY <1>2, <2>1 DEF List, DashboardInv, Polled, Shared
  <2> QED BY <2>2, <2>3 DEF DashboardInv
<1>3. CASE Fails(s)
  <2>1. /\ refreshes' \in [Slots -> Asking]
        /\ \A x \in Slots : refreshes'[x].list = "waits" => refreshes[x].list = "waits"
    BY <1>3, AnswersKept DEF Fails, DashboardInv, Polled
  <2>2. changes' \in 0 .. MaxChanges
    BY <1>3, ChangeTyped DEF Fails, DashboardInv, Polled
  <2> QED BY <1>3, <2>1, <2>2 DEF Fails, DashboardInv, Polled, Shared, window, store, ps
<1> QED BY <1>1, <1>2, <1>3

LEMMA PsKeeps ==
  ASSUME DashboardInv, Sample \/ PsEnds \/ PsFails \/ Expire \/ AgentStarts \/ AgentEnds
  PROVE  DashboardInv'
<1>1. CASE Sample \/ Expire \/ AgentStarts
  <2>1. Polled'
    <3>1. CASE Sample
      BY <3>1 DEF Sample, DashboardInv, Polled, window, store, ps
    <3>2. CASE Expire
      BY <3>2 DEF Expire, DashboardInv, Polled, window, store
    <3>3. CASE AgentStarts
      BY <3>3 DEF AgentStarts, DashboardInv, Polled, window, store
    <3> QED BY <1>1, <3>1, <3>2, <3>3
  <2>2. Shared'
    <3>1. CASE Sample \/ Expire
      BY <1>1, <3>1 DEF Sample, Expire, DashboardInv, Shared, ps
    <3>2. CASE AgentStarts
      <4>1. up' = TRUE /\ inFlight' = FALSE /\ runs' = 0 /\ refreshes' = refreshes /\ ~up
        BY <3>2 DEF AgentStarts
      <4> QED BY <4>1 DEF DashboardInv, Shared
    <3> QED BY <1>1, <3>1, <3>2
  <2> QED BY <2>1, <2>2 DEF DashboardInv
<1>2. CASE PsEnds \/ PsFails \/ AgentEnds
  <2>1. /\ refreshes' \in [Slots -> Asking]
        /\ \A s \in Slots : refreshes'[s].list # "waits"
    BY <1>2, ServedKept DEF PsEnds, PsFails, AgentEnds, DashboardInv, Polled
  <2>2. changes' \in 0 .. MaxChanges
    BY <1>2, ChangeTyped DEF PsEnds, PsFails, AgentEnds, DashboardInv, Polled
  <2>3. Polled'
    <3>1. CASE PsEnds
      BY <2>1, <2>2, <3>1 DEF PsEnds, DashboardInv, Polled, window, store
    <3>2. CASE PsFails
      BY <2>1, <2>2, <3>2 DEF PsFails, DashboardInv, Polled, window, store
    <3>3. CASE AgentEnds
      BY <2>1, <2>2, <3>3 DEF AgentEnds, DashboardInv, Polled, window, store
    <3> QED BY <1>2, <3>1, <3>2, <3>3
  <2>4. /\ runs' = 0
        /\ (up' = FALSE) \/ (up' = up /\ inFlight' = FALSE)
    BY <1>2 DEF PsEnds, PsFails, AgentEnds, DashboardInv, Shared
  <2>5. Shared'
    BY <2>1, <2>4 DEF Shared
  <2> QED BY <2>3, <2>5 DEF DashboardInv
<1> QED BY <1>1, <1>2

LEMMA NextDashboard == DashboardInv /\ [DashboardNext]_dashboard => DashboardInv'
<1> SUFFICES ASSUME DashboardInv, [DashboardNext]_dashboard PROVE DashboardInv'
  OBVIOUS
<1>1. CASE UNCHANGED dashboard
  BY <1>1 DEF dashboard, window, store, ps, DashboardInv, Polled, Shared
<1> QED BY <1>1, WindowKeeps, SettledKeeps, AgentKeeps, PsKeeps DEF DashboardNext

(* Every reachable state of the dashboard is well typed, and a hidden      *)
(* window has no polling interval.                                         *)
THEOREM DashboardTypeCorrect == DashboardSpec => []DashboardTypeOK
<1>1. DashboardInv => DashboardTypeOK
  BY DEF DashboardInv, Polled, Shared, DashboardTypeOK, Asking
<1> QED BY <1>1, InitDashboard, NextDashboard, PTL DEF DashboardSpec

(* However many refreshes cross, at most one ps runs, whoever asks         *)
(* meanwhile joins it, and nobody waits for one that is over.              *)
THEOREM OnePsAtATime == DashboardSpec => []OnePs
<1>1. DashboardInv => OnePs
  BY DEF DashboardInv, Shared, OnePs
<1> QED BY <1>1, InitDashboard, NextDashboard, PTL DEF DashboardSpec
=============================================================================
