---------------------------------- MODULE Tray ----------------------------------
(***************************************************************************)
(* What Main shows of the agent without a window: HealthState, fed by the  *)
(* events, the supervisor's state and the list that is asked for every     *)
(* 30 s; the tray it paints; and MonitorNotifier, which turns transitions  *)
(* into banners.  A handler of Main runs to its end in one step.           *)
(***************************************************************************)
EXTENDS AgentFeed

CONSTANTS
  MaxRows,   \* monitors listed in the tray's menu (MAX_MONITOR_ROWS)
  Threshold  \* banners of one window before they become a summary

(* DEFAULT_THRESHOLD is 3. *)
ASSUME TrayAssumption == MaxRows \in Nat /\ Threshold \in Nat \ {0}

VARIABLES
  agentUp, monitors, erroredWatches,  \* HealthState
  shown,                              \* what the tray was last told to show
  buffer, flushHandle,                \* NotificationPolicy
  heard, told, dropped,               \* history: transitions by kind
  burst,                              \* history: banners of the last window
  late,                               \* history: "ready" read after the end
  missed,                             \* history: this agent's events were lost, or
                                      \* an old one counted the watch wrongly
  quit                                \* "no", "tearing" down, "gone"

health == <<agentUp, monitors, erroredWatches>>
policy == <<buffer, flushHandle, heard, told, dropped, burst>>
vars == <<feed, health, shown, policy, late, missed, quit>>

Kinds == {"unhealthy", "recovered"}
Zero == [k \in Kinds |-> 0]
Count(b) == [k \in Kinds |-> Cardinality({i \in DOMAIN b : b[i] = k})]
Plus(f, g) == [k \in Kinds |-> f[k] + g[k]]

-----------------------------------------------------------------------------
(* compute and buildTrayView: unhealthy monitors first, then by name, and  *)
(* no more than fit.                                                       *)

StateRank(s) == CASE s = "unhealthy" -> 0 [] s = "unknown" -> 1 [] s = "healthy" -> 2
Before(list, i, j) ==
  \/ StateRank(list[i]) < StateRank(list[j])
  \/ /\ list[i] = list[j]
     /\ (i[1] < j[1] \/ (i[1] = j[1] /\ i[2] < j[2]))

TrayHealth(up, list, errored) ==
  IF ~up THEN "agent-down"
  ELSE IF errored # {} \/ \E i \in Id : list[i] = "unhealthy" THEN "degraded" ELSE "nominal"

View(up, list, errored) ==
  LET known == {i \in Id : list[i] # "none"}
      rows == {i \in known : Cardinality({j \in known : Before(list, j, i)}) < MaxRows}
  IN [icon |-> TrayHealth(up, list, errored), rows |-> {<<i, list[i]>> : i \in rows},
      more |-> Cardinality(known \ rows),
      unhealthy |-> Cardinality({i \in known : list[i] = "unhealthy"}),
      errored |-> Cardinality(errored)]
NoTray == [View(FALSE, Nothing, {}) EXCEPT !.icon = "none"]

\* Mutant of Paint: the tray comes back when something is painted late.
Paint_Always(view) == shown' = view

(* TrayController.update, which does nothing once the tray is destroyed. *)
Paint(view) == shown' = IF shown = NoTray THEN NoTray ELSE view

(* recompute: painting what did not change shows the same. *)
Health(up, list, errored) ==
  /\ agentUp' = up /\ monitors' = list /\ erroredWatches' = errored
  /\ Paint(View(up, list, errored))

Init ==
  /\ FeedInit /\ agentUp = FALSE /\ monitors = Nothing /\ erroredWatches = {}
  /\ shown = View(FALSE, Nothing, {}) /\ buffer = <<>> /\ flushHandle = FALSE
  /\ heard = Zero /\ told = Zero /\ dropped = Zero /\ burst = 0
  /\ late = FALSE /\ missed = FALSE /\ quit = "no"

-----------------------------------------------------------------------------
(* The supervisor's states (onAgentStateChange).                           *)

Others == UNCHANGED <<policy, quit>>

Running ==
  /\ quit = "no" /\ Start /\ Health(TRUE, monitors, erroredWatches)
  /\ IF run = 0 THEN AskList ELSE UNCHANGED asks
  /\ late' = FALSE /\ missed' = FALSE /\ UNCHANGED changes /\ Others

Noticed ==
  /\ Health(FALSE, monitors, erroredWatches) /\ late' = FALSE /\ UNCHANGED missed /\ Others
NotRunning == (Exit \/ (quit = "no" /\ Retry)) /\ Noticed

-----------------------------------------------------------------------------
(* hydrateTray: every 30 s, after a reconciliation, after Pause all.       *)

HydrateTray ==
  /\ quit = "no" /\ Up
  /\ AskList
  /\ UNCHANGED <<status, run, serves, log, watch, lines, stream, echoes, changes>>
  /\ UNCHANGED <<health, shown, late, missed>>
  /\ Others

(* The machine wakes: the consumer is restarted, the tray hydrated. *)
OnResume ==
  /\ quit = "no" /\ status = "running" /\ Change /\ Reattach
  /\ AskList
  /\ missed' = (missed \/ stream # <<>>)
  /\ UNCHANGED <<status, run, serves, log, watch, lines, health, shown, late>> /\ Others

\* Mutant of HydrateMonitors: monitors that are not on the list stay.
HydrateMonitors_Merge(list) ==
  [i \in Id |-> IF list[i] = "none" THEN monitors[i] ELSE list[i]]

HydrateMonitors(list) == list
Hydrated(s) ==
  /\ asks[s].at = "answered" /\ asks' = [asks EXCEPT ![s] = Free]
  /\ Health(agentUp, HydrateMonitors(asks[s].list), erroredWatches)
  /\ UNCHANGED <<status, run, serves, log, watch, lines, stream, echoes, changes, late, missed>>
  /\ Others

(* The last known snapshot stays. *)
HydrateFails(s) == Fail(s) /\ UNCHANGED <<health, shown, late, missed>> /\ Others

-----------------------------------------------------------------------------
(* onAgentEvent: the notifier, then the health.                            *)

\* Mutant of Record: the handle of a window that closed stays set.
Record_NoTimer(kind) ==
  /\ buffer' = Append(buffer, kind) /\ heard' = [heard EXCEPT ![kind] = @ + 1]
  /\ flushHandle' = (flushHandle \/ told = Zero)
  /\ UNCHANGED <<told, dropped, burst>>

(* record: the first transition of a window arms its timer. *)
Record(kind) ==
  /\ buffer' = Append(buffer, kind) /\ heard' = [heard EXCEPT ![kind] = @ + 1]
  /\ flushHandle' = TRUE /\ UNCHANGED <<told, dropped, burst>>

HandleEvent(e) == IF e.kind \in Kinds THEN Record(e.kind) ELSE UNCHANGED policy

Ingest(e) ==
  Health(IF e.kind \in {"ready", "stopping"} THEN e.kind = "ready" ELSE agentUp,
         CASE e.kind = "unhealthy" -> [monitors EXCEPT ![e.id] = "unhealthy"]
           [] e.kind = "recovered" -> [monitors EXCEPT ![e.id] = "healthy"]
           [] OTHER -> monitors,
         CASE e.kind = "error" -> erroredWatches \cup {e.id[2]}
           [] e.kind \in {"line", "rotated", "deleted"} -> erroredWatches \ {e.id[2]}
           [] OTHER -> erroredWatches)

OnAgentEvent ==
  /\ quit = "no" /\ stream # <<>> /\ Read /\ HandleEvent(stream[1]) /\ Ingest(stream[1])
  /\ late' = (late \/ (~Up /\ stream[1].kind = "ready")) /\ UNCHANGED <<missed, quit>>

(* From the second stream, which a quit need not have stopped: the notifier *)
(* is gone by then.                                                        *)
OnAgentEventAgain ==
  \E e \in echoes :
    /\ ReadAgain(e) /\ Ingest(e)
    /\ IF quit = "no" THEN HandleEvent(e) ELSE UNCHANGED policy
    /\ late' = (late \/ (~Up /\ e.kind = "ready"))
    /\ missed' = (missed \/ erroredWatches' # erroredWatches) /\ UNCHANGED quit

Banners(b) == IF Len(b) <= Threshold THEN Len(b) ELSE 1

(* The window closes: banners one by one, or one that counts them. *)
Flush ==
  /\ flushHandle /\ flushHandle' = FALSE /\ buffer' = <<>>
  /\ told' = Plus(told, Count(buffer))
  /\ burst' = Banners(buffer)
  /\ UNCHANGED <<feed, health, shown, heard, dropped, late, missed, quit>>

-----------------------------------------------------------------------------
(* stopServices: the timer, the consumer and the notifier at once, the     *)
(* tray when the agent is gone.                                            *)

Dispose ==
  /\ buffer' = <<>> /\ flushHandle' = FALSE /\ dropped' = Plus(dropped, Count(buffer))
  /\ UNCHANGED <<heard, told, burst>>

StopServices ==
  /\ quit = "no" /\ quit' = "tearing"
  /\ status' = CASE Up -> "stopping" [] status = "starting" -> "down" [] OTHER -> status
  /\ stream' = <<>> /\ missed' = TRUE /\ Dispose
  /\ UNCHANGED <<run, serves, log, watch, lines, echoes, asks, changes, health, shown, late>>

Destroyed ==
  /\ quit = "tearing" /\ ~Up /\ quit' = "gone" /\ shown' = NoTray
  /\ UNCHANGED <<feed, health, policy, late, missed>>

-----------------------------------------------------------------------------
Outside ==
  \/ Sigterm \/ Reconnect
  \/ \E m \in Monitors : Add(m) \/ Remove(m) \/ Edit(m) \/ Turn(m)
  \/ Watch \/ Unwatch \/ LogEvent

Answered(s) == Answer(s) /\ UNCHANGED <<health, shown, late, missed>> /\ Others

Feeds ==
  /\ \/ Outside /\ UNCHANGED missed
     \/ (Overrun \/ Shed \/ Cut) /\ missed' = TRUE
  /\ UNCHANGED <<health, shown, late>> /\ Others

Next ==
  \/ Running \/ NotRunning \/ HydrateTray \/ OnResume
  \/ (\E s \in Slots : Answered(s) \/ Hydrated(s) \/ HydrateFails(s))
  \/ OnAgentEvent \/ OnAgentEventAgain \/ Flush \/ StopServices \/ Destroyed \/ Feeds

(* Timers fire, Main handles what arrives, and an agent that runs answers. *)
Fairness ==
  /\ WF_vars(Running) /\ WF_vars(status = "stopping" /\ Exit /\ Noticed)
  /\ WF_vars(quit = "no" /\ status = "down" /\ Retry /\ Noticed)
  /\ WF_vars(HydrateTray) /\ WF_vars(OnAgentEvent) /\ WF_vars(Flush)
  /\ \A s \in Slots : WF_vars(Hydrated(s) \/ Answered(s) \/ (~Up /\ HydrateFails(s)))

Spec == Init /\ [][Next]_vars /\ Fairness

-----------------------------------------------------------------------------
TypeOK ==
  /\ FeedTypeOK /\ agentUp \in BOOLEAN /\ erroredWatches \subseteq 1 .. MaxChanges
  /\ monitors \in [Id -> {"none", "unknown", "healthy", "unhealthy"}]
  /\ \A i \in DOMAIN buffer : buffer[i] \in Kinds
  /\ {flushHandle, late, missed} \subseteq BOOLEAN /\ quit \in {"no", "tearing", "gone"}
  /\ shown = NoTray <=> quit = "gone"

(* Every transition Main reads is in exactly one banner, waits for the     *)
(* timer that is then armed, or is dropped by the quit; a window shows no  *)
(* more banners than the threshold.  And with nothing lost or on its way   *)
(* the tray counts the watch among those in error exactly when it is, if   *)
(* no old event that a second stream brought said otherwise.               *)
StreamIsTold ==
  /\ \A k \in Kinds : heard[k] = told[k] + Count(buffer)[k] + dropped[k]
  /\ flushHandle <=> buffer # <<>>
  /\ burst <= Threshold
  /\ (Up /\ ~missed /\ stream = <<>> /\ log # "none")
       => (watch \in erroredWatches <=> log = "failing")

(* However events, answers and restarts fell, the tray comes to show the   *)
(* monitors of the agent that runs; and an agent given up as down, unless  *)
(* its "ready" was read after its end (HealthState believes it).           *)
TraySettles ==
  /\ <>[](status = "running" /\ quit = "no")
       => <>[](shown = View(TRUE, Listed, erroredWatches))
  /\ <>[](status = "failed" /\ quit = "no" /\ ~late) => <>[](shown.icon = "agent-down")
=============================================================================
