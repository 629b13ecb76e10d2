--------------------------- MODULE DiagnosticsExport ---------------------------
(***************************************************************************)
(* Diagnostic exports from the button to the Downloads folder: the agent's *)
(* DiagnosticsExporter, inside the process of AgentProcess; the progress   *)
(* events and the HTTP response, which travel apart; Main, which moves the *)
(* finished bundle; and the renderer's store and button.                   *)
(***************************************************************************)
EXTENDS AgentProcess, Sequences

CONSTANT Clicks  \* bound on the clicks on the button: exports are 1 .. Clicks

Exports == 1 .. Clicks

VARIABLES
  running,    \* DiagnosticsExporter.running
  exp,        \* export -> where start() and build() are
  staging,    \* export -> its staging directory: "none", "partial", "bundle"
  resp,       \* responses of POST /diagnostics/export on their way
  wire,       \* progress events on their way, in order
  view,       \* the store's progress: export (0: undefined) and stage
  asking,     \* exports whose startExport() the screen awaits
  move,       \* export -> where Main's finalizeExport is
  wedged,     \* history: a failed mkdtemp left running set
  overtaken,  \* history: exports whose last event came before the response
  unheard     \* history: exports whose last event nobody received

export == <<running, exp, staging, move, wedged>>
ui == <<resp, wire, view, asking, overtaken, unheard>>
vars == <<process, watches, export, ui>>

NoView == [of |-> 0, stage |-> "done"]
Building == {"mkdtemp", "preflight", "load", "gather", "logs", "zip", "close", "cleanup"}
Last == {"done", "failed"}
InProgress(e) == exp[e] \in Building \cup {"unstage"}
Busy == view.of # 0 /\ view.stage \in {"collect", "zip"}

(* A refused export in the beginning is one nobody asks for. *)
Init ==
  /\ ProcessInit
  /\ running = FALSE /\ wedged = FALSE
  /\ exp \in [Exports -> {"none", "refused"}] /\ staging = [e \in Exports |-> "none"]
  /\ resp = {} /\ move = [e \in Exports |-> "none"]
  /\ wire = <<>> /\ view = NoView /\ asking = {}
  /\ overtaken = {} /\ unheard = {}

Goes(e, from, to) == exp[e] \in from /\ exp' = [exp EXCEPT ![e] = to]
Stage(e, s) == staging' = [staging EXCEPT ![e] = s]

(* A response goes to a request that still waits on an open connection. *)
Respond(e) == resp' = IF Accepting THEN resp \cup ({e} \cap asking) ELSE resp

(* emit: without a stream the event is lost. *)
Emit(e, stage) ==
  \/ streaming /\ wire' = Append(wire, [of |-> e, stage |-> stage]) /\ UNCHANGED unheard
  \/ ~streaming /\ unheard' = unheard \cup (IF stage \in Last THEN {e} ELSE {})
               /\ UNCHANGED wire

Silent == UNCHANGED <<wire, unheard>>

-----------------------------------------------------------------------------
(* DiagnosticsExporter.start *)

\* Mutant of Arrive: the flag is tested here and set by somebody later.
Arrive_FlagLate(e) ==
  /\ Accepting /\ UNCHANGED <<staging, move, wedged>> /\ Silent
  /\ \/ running /\ Goes(e, {"sent"}, "refused") /\ Respond(e)
     \/ ~running /\ Goes(e, {"sent"}, "mkdtemp") /\ UNCHANGED resp
  /\ UNCHANGED <<process, watches, running, view, asking, overtaken>>

(* The flag is tested and set before the first await. *)
Arrive(e) ==
  /\ Accepting /\ UNCHANGED <<staging, move, wedged>> /\ Silent
  /\ \/ running /\ Goes(e, {"sent"}, "refused") /\ Respond(e) /\ UNCHANGED running
     \/ ~running /\ Goes(e, {"sent"}, "mkdtemp") /\ running' = TRUE /\ UNCHANGED resp
  /\ UNCHANGED <<process, watches, view, asking, overtaken>>

Staged(e) ==
  /\ proc = "up" /\ Goes(e, {"mkdtemp"}, "preflight") /\ Stage(e, "partial")
  /\ UNCHANGED <<process, watches, running, move, wedged, ui>>

(* A rejected mkdtemp is outside the try: running stays set. *)
MkdtempFails(e) ==
  /\ proc = "up" /\ Goes(e, {"mkdtemp"}, "refused") /\ Respond(e) /\ wedged' = TRUE
  /\ UNCHANGED <<process, watches, running, staging, move, wire, view, asking,
                 overtaken, unheard>>

(* Enough space: build() emits its first event before start() returns. *)
PreflightOk(e) ==
  /\ proc = "up" /\ Goes(e, {"preflight"}, "load")
  /\ Emit(e, "collect") /\ Respond(e)
  /\ UNCHANGED <<process, watches, running, staging, move, wedged, view, asking, overtaken>>

\* Mutant of PreflightFails: the flag is not reset.
PreflightFails_KeepsRunning(e) ==
  /\ proc = "up" /\ Goes(e, {"preflight"}, "unstage")
  /\ UNCHANGED <<process, watches, running, staging, move, wedged, ui>>

(* Too little space: the flag is reset before the directory is deleted. *)
PreflightFails(e) ==
  /\ proc = "up" /\ Goes(e, {"preflight"}, "unstage") /\ running' = FALSE
  /\ UNCHANGED <<process, watches, staging, move, wedged, ui>>

Unstaged(e) ==
  /\ proc = "up" /\ Goes(e, {"unstage"}, "refused") /\ Stage(e, "none") /\ Respond(e)
  /\ UNCHANGED <<process, watches, running, move, wedged, wire, view, asking,
                 overtaken, unheard>>

(* The deletion fails: start() rejects with its error, the directory stays. *)
UnstageFails(e) ==
  /\ proc = "up" /\ Goes(e, {"unstage"}, "leftover") /\ Respond(e)
  /\ UNCHANGED <<process, watches, running, staging, move, wedged, wire, view, asking,
                 overtaken, unheard>>

-----------------------------------------------------------------------------
(* DiagnosticsExporter.build *)

(* The await of a stage settles, and the next stage begins with its event. *)
BuildGoesOn(e) ==
  /\ proc = "up"
  /\ \/ Goes(e, {"load"}, "gather") /\ Silent
     \/ Goes(e, {"gather"}, "logs") /\ Emit(e, "collect")
     \/ Goes(e, {"logs"}, "zip") /\ Emit(e, "zip")
     \/ Goes(e, {"zip"}, "close") /\ Silent
  /\ UNCHANGED <<process, watches, running, staging, move, wedged, resp, view,
                 asking, overtaken>>

BuildDone(e) ==
  /\ proc = "up" /\ Goes(e, {"close"}, "done") /\ Emit(e, "done")
  /\ Stage(e, "bundle") /\ running' = FALSE
  /\ UNCHANGED <<process, watches, move, wedged, resp, view, asking, overtaken>>

(* What rejects in the try: loading archiver, the stat of a chosen log (the *)
(* last await of its stage), or finished once it is awaited.               *)
BuildFails(e) ==
  /\ proc = "up" /\ Goes(e, {"load", "logs", "close"}, "cleanup")
  /\ UNCHANGED <<process, watches, running, staging, move, wedged, ui>>

CleanedUp(e) ==
  /\ proc = "up" /\ Goes(e, {"cleanup"}, "failed") /\ Emit(e, "failed")
  /\ Stage(e, "none") /\ running' = FALSE
  /\ UNCHANGED <<process, watches, move, wedged, resp, view, asking, overtaken>>

(* The process is gone with its exports; what was sent may arrive or not.  *)
ExportsEnd(e) ==
  /\ exp' = [x \in Exports |-> IF ~InProgress(x) THEN exp[x]
                               ELSE IF x = e THEN "broken" ELSE "lost"]
  /\ running' = FALSE /\ wedged' = FALSE
  /\ \/ Silent
     \/ wire' = <<>> /\ unheard' = unheard \cup {x \in Exports : exp[x] \in Last}
  /\ UNCHANGED <<staging, move, resp, view, asking, overtaken>>

(* The archive or its output fails while build() awaits something else, so *)
(* that nothing awaits finished yet; or the deletion after a failure       *)
(* fails.  Either way a rejection nobody handles ends the process.         *)
Unhandled(e) ==
  /\ exp[e] \in {"gather", "logs", "zip", "cleanup"}
  /\ CrashFast /\ ExportsEnd(e)

-----------------------------------------------------------------------------
(* The renderer and Main. *)

(* A click on a button that is not disabled: reset(), then the request. *)
Click(e) ==
  /\ ~Busy /\ Goes(e, {"none"}, "sent") /\ \A x \in 1 .. e - 1 : exp[x] # "none"
  /\ view' = NoView /\ asking' = asking \cup {e}
  /\ UNCHANGED <<process, watches, running, staging, move, wedged, resp, wire,
                 overtaken, unheard>>

(* The response of the export or of its refusal: begin(), or an error.  *)
ResponseArrives(e) ==
  /\ e \in resp /\ asking' = asking \ {e} /\ resp' = resp \ {e}
  /\ view' = IF exp[e] \in {"refused", "leftover"} THEN view ELSE [of |-> e, stage |-> "collect"]
  /\ overtaken' = IF exp[e] \in Last /\ \A k \in DOMAIN wire : wire[k].of # e
                  THEN overtaken \cup {e} ELSE overtaken
  /\ UNCHANGED <<process, watches, export, wire, unheard>>

(* AgentClient gives up: no agent, a connection cut by its end, or the     *)
(* timeout, which says nothing about what the agent did with the request.  *)
Unavailable(e) ==
  /\ e \in asking \ resp /\ asking' = asking \ {e}
  /\ \/ Goes(e, {"sent"}, "refused")
     \/ UNCHANGED exp
  /\ UNCHANGED <<process, watches, running, staging, move, wedged, resp, wire, view,
                 overtaken, unheard>>

(* ingest() of the store: events of another export than the one shown are  *)
(* ignored unless they say done.  Main starts to move a finished bundle.   *)
EventArrives ==
  /\ wire # <<>> /\ wire' = Tail(wire)
  /\ LET event == Head(wire)
     IN /\ view' = IF view.of \notin {0, event.of} /\ event.stage # "done" THEN view ELSE event
        /\ move' = IF event.stage = "done" THEN [move EXCEPT ![event.of] = "moving"] ELSE move
  /\ UNCHANGED <<process, watches, running, exp, staging, wedged, resp, asking,
                 overtaken, unheard>>

(* finalizeExport: rename or copy, which may fail, then the directory. *)
Finalize(e) ==
  /\ \/ move[e] = "moving" /\ move' = [move EXCEPT ![e] = "emptied"] /\ UNCHANGED staging
     \/ move[e] = "moving" /\ move' = [move EXCEPT ![e] = "stuck"] /\ UNCHANGED staging
     \/ move[e] = "emptied" /\ move' = [move EXCEPT ![e] = "moved"] /\ Stage(e, "none")
  /\ UNCHANGED <<process, watches, running, exp, wedged, ui>>

-----------------------------------------------------------------------------
Alone == UNCHANGED <<export, ui>>

Progress ==
  \/ \E r \in Adds : Added(r) \/ AddFails(r)
  \/ WatchesClosed

Build(e) ==
  \/ Arrive(e) \/ Staged(e) \/ MkdtempFails(e) \/ PreflightOk(e) \/ PreflightFails(e)
  \/ Unstaged(e) \/ UnstageFails(e) \/ BuildGoesOn(e) \/ BuildDone(e)
  \/ BuildFails(e) \/ CleanedUp(e)

Answer(e) == ResponseArrives(e) \/ Unavailable(e) \/ Finalize(e)

Ends == (ServerClosed \/ FailsafeFires) /\ ExportsEnd(0)

Next ==
  \/ (\E r \in Adds : Add(r) \/ Remove(r)) /\ Alone
  \/ Progress /\ Alone
  \/ Sigterm /\ Alone
  \/ Ends
  \/ CrashFast /\ ExportsEnd(0)
  \/ StartAgain /\ Alone
  \/ EventArrives
  \/ \E e \in Exports : Click(e) \/ Build(e) \/ Unhandled(e) \/ Answer(e)

(* Awaits settle, sockets deliver, the deadline passes; users, signals and *)
(* crashes owe nothing.                                                    *)
Fairness ==
  /\ WF_vars(Progress /\ Alone) /\ WF_vars(Ends) /\ WF_vars(EventArrives)
  /\ \A e \in Exports : WF_vars(Build(e)) /\ WF_vars(Answer(e))

Spec == Init /\ [][Next]_vars /\ Fairness

-----------------------------------------------------------------------------
States ==
  Building \cup Last
    \cup {"none", "sent", "unstage", "refused", "leftover", "lost", "broken"}

TypeOK ==
  /\ ProcessTypeOK /\ running \in BOOLEAN /\ wedged \in BOOLEAN
  /\ exp \in [Exports -> States]
  /\ staging \in [Exports -> {"none", "partial", "bundle"}]
  /\ move \in [Exports -> {"none", "moving", "emptied", "moved", "stuck"}]
  /\ \A k \in DOMAIN wire : wire[k] \in [of : Exports, stage : {"collect", "zip"} \cup Last]
  /\ view \in [of : Exports \cup {0}, stage : {"collect", "zip"} \cup Last]
  /\ resp \cup asking \cup overtaken \cup unheard \subseteq Exports

(* One export is built at a time, and the flag says so, whatever fails and *)
(* whichever requests arrive meanwhile, a failed mkdtemp apart.  A staging *)
(* directory outlives its export only as a bundle Main has not moved,      *)
(* because the process ended, or because deleting it failed.               *)
ExportsClean ==
  LET built == {e \in Exports : exp[e] \in Building}
  IN /\ Cardinality(built) <= 1
     /\ built # {} => running
     /\ (running /\ ~wedged) => built # {}
     /\ \A e \in Exports : staging[e] # "none" =>
          \/ InProgress(e) \/ exp[e] \in {"lost", "broken", "leftover"}
          \/ (exp[e] = "done" /\ staging[e] = "bundle" /\ move[e] # "moved")

(* An export that failed has had its directory deleted, as the comment     *)
(* above DiagnosticsExporter says of any failure.  An archive or an output *)
(* that fails while build() awaits something else breaks it.               *)
FailedExportsLeaveNothing ==
  \A e \in Exports : exp[e] \in {"failed", "broken"} => staging[e] = "none"

(* What is asked is answered, an exporter becomes free again, and the      *)
(* button comes back: unless mkdtemp failed, the agent ended under the     *)
(* export, or its last event was lost or came before the response.         *)
ExportsSettle ==
  <>[](/\ asking = {}
       /\ running => wedged
       /\ Busy => \/ exp[view.of] \in {"lost", "broken"}
                  \/ view.of \in overtaken \cup unheard)
=============================================================================
