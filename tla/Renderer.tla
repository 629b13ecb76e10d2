-------------------------------- MODULE Renderer --------------------------------
(***************************************************************************)
(* What the window shows of the agent: the list of monitors, fetched when  *)
(* its screen opens and after the user's own changes, then kept up by      *)
(* events; and a log view, which is re-keyed when a new agent has its      *)
(* watch again.  Main forwards every event as it reads it, over the        *)
(* channel its answers take: the two do not overtake each other, and a     *)
(* step is both.  ViewProofs extends this module and Tray at once: names   *)
(* both would have say whose they are.                                     *)
(***************************************************************************)
EXTENDS AgentFeed

CONSTANT Ring  \* rows a log view keeps
ASSUME RendererAssumption == Ring \in Nat \ {0}

VARIABLES
  shownMonitors, \* the list, by id
  refreshes,     \* a change of the user's or a restart: refresh() is to follow
  view,          \* the log view, or NoView
  opening,       \* startLogWatch is under way
  reconciling,   \* a later agent: the watch is not issued again yet, or is
  doubtful,      \* history: the list may differ from the agent's
  clean,         \* history: answers that nothing has overtaken
  skipped        \* history: lines were lost, or came again, without a sign
                 \* in the view

renderer == <<feed, shownMonitors, refreshes, view, opening, reconciling, doubtful, clean, skipped>>
lists == <<shownMonitors, refreshes, doubtful, clean>>
logs == <<view, opening, reconciling, skipped>>

NoView == [id |-> 0, rows |-> <<>>, status |-> "closed"]
Row(kind, n) == [kind |-> kind, n |-> n]

\* Mutant of Appended: one row too many is kept.
Appended_OneMore(v, row) ==
  LET rows == Append(v.rows, row)
  IN [v EXCEPT !.rows = SubSeq(rows, IF Len(rows) > Ring + 1 THEN 2 ELSE 1, Len(rows))]

(* appendRows *)
Appended(v, row) ==
  LET rows == Append(v.rows, row)
  IN [v EXCEPT !.rows = SubSeq(rows, IF Len(rows) > Ring THEN 2 ELSE 1, Len(rows))]

RendererInit ==
  /\ FeedInit /\ shownMonitors = Nothing /\ refreshes = FALSE /\ view = NoView
  /\ opening = FALSE /\ reconciling = "no" /\ doubtful = FALSE /\ clean = {} /\ skipped = FALSE

-----------------------------------------------------------------------------
(* useMonitorsStore *)

Untold == \E i \in DOMAIN stream : stream[i].kind \in MonitorEvents

Refresh ==
  /\ Up /\ AskList /\ refreshes' = FALSE
  /\ UNCHANGED <<status, run, serves, log, watch, lines, stream, echoes, changes>>
  /\ UNCHANGED <<shownMonitors, doubtful, clean, logs>>

(* add, update, remove: the user waits for the answer, then refreshes.     *)
(* A request the agent did is rejected when it timed out: no refresh.      *)
Changed ==
  /\ \E m \in Monitors : Add(m) \/ Remove(m) \/ Edit(m)
  /\ \/ refreshes' = TRUE /\ UNCHANGED doubtful
     \/ doubtful' = TRUE /\ UNCHANGED refreshes
  /\ clean' = {} /\ UNCHANGED <<shownMonitors, logs>>

ListAnswered(s) ==
  /\ Answer(s) /\ clean' = IF Untold THEN clean ELSE clean \cup {s}
  /\ UNCHANGED <<shownMonitors, refreshes, doubtful, logs>>

Refreshed(s) ==
  /\ asks[s].at = "answered" /\ asks' = [asks EXCEPT ![s] = Free]
  /\ shownMonitors' = asks[s].list /\ clean' = {}
  /\ doubtful' = (s \notin clean)
  /\ UNCHANGED <<status, run, serves, log, watch, lines, stream, echoes, changes, refreshes, logs>>

(* The error is shown above the old list. *)
RefreshFails(s) ==
  /\ Fail(s) /\ doubtful' = TRUE /\ clean' = clean \ {s}
  /\ UNCHANGED <<shownMonitors, refreshes, logs>>

\* Mutant of IngestMonitor: the first good result leaves the state unknown.
IngestMonitor_NoFirst(e) ==
  [i \in Id |->
     IF i # e.id \/ shownMonitors[i] = "none" THEN shownMonitors[i]
     ELSE CASE e.kind = "unhealthy" -> "unhealthy"
            [] e.kind = "recovered" -> "healthy"
            [] OTHER -> shownMonitors[i]]

(* Only monitors on the list; one that was unknown has no event of its own *)
(* for its first good result.                                              *)
IngestMonitor(e) ==
  [i \in Id |->
     IF i # e.id \/ shownMonitors[i] = "none" THEN shownMonitors[i]
     ELSE CASE e.kind = "ok" /\ shownMonitors[i] = "unknown" -> "healthy"
            [] e.kind = "unhealthy" -> "unhealthy"
            [] e.kind = "recovered" -> "healthy"
            [] OTHER -> shownMonitors[i]]

-----------------------------------------------------------------------------
(* useLogsStore *)

\* Mutant of IngestLog: a gap is marked for no view.
IngestLog_NoGap(e) ==
  IF e.id # <<Log, view.id>> \/ view = NoView \/ e.kind \in {"reset", "ready"} THEN view
  ELSE IF e.kind = "line" THEN Appended(view, Row("line", e.n))
  ELSE [Appended(view, Row(e.kind, 0))
          EXCEPT !.status = CASE e.kind = "rotated" -> "active"
                            [] e.kind = "truncated" -> view.status [] OTHER -> e.kind]

(* A gap in every view; else the view the event names, if it is there. *)
IngestLog(e) ==
  IF view = NoView THEN view
  ELSE IF e.kind = "reset" THEN Appended(view, Row("gap", 0))
  ELSE IF e.id # <<Log, view.id>> THEN view
  ELSE IF e.kind = "line" THEN Appended(view, Row("line", e.n))
  ELSE [Appended(view, Row(e.kind, 0))
          EXCEPT !.status = CASE e.kind = "rotated" -> "active"
                            [] e.kind = "truncated" -> view.status [] OTHER -> e.kind]

(* startLogWatch, then addWatch with its answer. *)
Open ==
  /\ view = NoView /\ ~opening /\ reconciling = "no" /\ Watch /\ opening' = TRUE
  /\ skipped' = FALSE /\ UNCHANGED <<lists, view, reconciling>>

AddWatch ==
  /\ opening /\ opening' = FALSE
  /\ view' = [id |-> watch, rows |-> <<>>, status |-> "active"]
  /\ UNCHANGED <<feed, lists, reconciling, skipped>>

(* The view goes even when the agent was not reached. *)
RemoveWatch ==
  /\ view # NoView /\ reconciling = "no" /\ view' = NoView
  /\ (IF log = "none" THEN UNCHANGED feed ELSE Unwatch)
  /\ UNCHANGED <<lists, opening, reconciling, skipped>>

(* The watch is issued again, under a new id; its push may fail. *)
Reissue ==
  /\ reconciling = "due" /\ view # NoView /\ Watch /\ reconciling' = "issued"
  /\ UNCHANGED <<lists, view, opening, skipped>>

RemapWatches ==
  [Appended(view, Row("resumed", 0))
     EXCEPT !.id = IF reconciling = "issued" THEN watch ELSE view.id, !.status = "active"]

(* The payload: the views are re-keyed, the list is fetched. *)
OnReconcile ==
  /\ status = "running" /\ reconciling \in {"due", "issued"} /\ reconciling' = "no"
  /\ view' = (IF view = NoView THEN NoView ELSE RemapWatches)
  /\ refreshes' = TRUE /\ UNCHANGED <<feed, shownMonitors, doubtful, clean, opening, skipped>>

-----------------------------------------------------------------------------
Route(e) == shownMonitors' = IngestMonitor(e) /\ view' = IngestLog(e)

OnRoutedEvent ==
  /\ stream # <<>> /\ Read /\ Route(stream[1])
  /\ clean' = IF stream[1].kind \in MonitorEvents THEN {} ELSE clean
  /\ UNCHANGED <<refreshes, doubtful, opening, reconciling, skipped>>

(* From the second stream: an old event may say what is no longer so, and  *)
(* a line may be shown again.                                              *)
OnRoutedEventAgain ==
  \E e \in echoes :
    /\ ReadAgain(e) /\ Route(e)
    /\ doubtful' = (doubtful \/ shownMonitors' # shownMonitors)
    /\ skipped' = (skipped \/ (e.kind = "line" /\ view' # view))
    /\ UNCHANGED <<refreshes, clean, opening, reconciling>>

(* The agent and the stream go their ways. *)
Begins ==
  /\ Start /\ UNCHANGED <<asks, changes>>
  /\ reconciling' = IF run = 0 THEN "no" ELSE "due"
  /\ UNCHANGED <<lists, view, opening, skipped>>

Gone ==
  /\ Exit /\ opening' = FALSE /\ reconciling' = "no"
  /\ UNCHANGED <<lists, view, skipped>>

(* No event will tell what these answers do not. *)
Loses ==
  IF Untold THEN doubtful' = TRUE /\ clean' = {} ELSE UNCHANGED <<doubtful, clean>>

WakesUp ==
  /\ Rewind /\ skipped' = (skipped \/ stream # <<>>)
  /\ Loses /\ UNCHANGED <<shownMonitors, refreshes, view, opening, reconciling>>

Overruns == Overrun /\ Loses /\ UNCHANGED <<shownMonitors, refreshes, logs>>

Sheds == Shed /\ skipped' = TRUE /\ UNCHANGED <<lists, view, opening, reconciling>>

Elsewhere ==
  /\ \/ Sigterm \/ Retry \/ Reconnect \/ Cut \/ LogEvent
     \/ \E m \in Monitors : Turn(m)
  /\ UNCHANGED <<lists, logs>>

RendererNext ==
  \/ Refresh \/ Changed
  \/ (\E s \in Slots : ListAnswered(s) \/ Refreshed(s) \/ RefreshFails(s))
  \/ Open \/ AddWatch \/ RemoveWatch \/ Reissue \/ OnReconcile
  \/ OnRoutedEvent \/ OnRoutedEventAgain
  \/ Begins \/ Gone \/ WakesUp \/ Overruns \/ Sheds \/ Elsewhere

RendererSpec == RendererInit /\ [][RendererNext]_renderer

-----------------------------------------------------------------------------
RendererTypeOK ==
  /\ FeedTypeOK
  /\ shownMonitors \in [Id -> {"none", "unknown", "healthy", "unhealthy"}]
  /\ Len(view.rows) <= Ring /\ view.id \in 0 .. watch
  /\ view.status \in {"active", "deleted", "error", "closed"}
  /\ reconciling \in {"no", "due", "issued"} /\ clean \subseteq Slots

Quiet ==
  /\ status = "running" /\ stream = <<>> /\ reconciling = "no" /\ ~refreshes
  /\ \A s \in Slots : asks[s] = Free

(* With nothing on its way the list shows what the agent has, kept up by   *)
(* events alone since the last answer that no event crossed; unless, since *)
(* then, events were lost, a refresh failed, a change timed out that the   *)
(* agent made, or an event that came once more changed the list.           *)
ListFollows == Quiet /\ ~doubtful => shownMonitors = Listed

(* Between two lines that follow each other in a view none is missing:     *)
(* across replays, resets, new agents and re-keying there is a marker.     *)
(* Lines shed or not asked for again after a wake-up apart, and lines that *)
(* the second stream it may leave behind brings again.                     *)
LinesUnbroken ==
  ~skipped => \A i \in 1 .. Len(view.rows) - 1 :
    view.rows[i].kind = "line" /\ view.rows[i + 1].kind = "line"
      => view.rows[i + 1].n = view.rows[i].n + 1
=============================================================================
