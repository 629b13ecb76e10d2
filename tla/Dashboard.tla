-------------------------------- MODULE Dashboard --------------------------------
(***************************************************************************)
(* The dashboard polls while its document is visible (usePolling); one     *)
(* refresh asks for the processes and the summary at once and shows both   *)
(* when both have come (Promise.allSettled), however many refreshes are    *)
(* under way.  The agent answers the summary from its sampler, and the     *)
(* processes from one run of ps that all who ask meanwhile share, or from  *)
(* the last one's list for two seconds.  What is listed is left out, the   *)
(* order it was asked for in is not.  The specification's own names carry  *)
(* a "Dashboard": AgentProofs has those of the agent's components too.     *)
(***************************************************************************)
EXTENDS Integers, FiniteSets

CONSTANTS
  Slots,      \* refreshes under way at once, at most
  MaxChanges  \* bound on clicks, switches of the window, failures and restarts

ASSUME DashboardAssumption == MaxChanges \in Nat

VARIABLES
  visible, timer,          \* the document; usePolling's interval
  sortBy, table, summary,  \* useDashboardStore
  refreshes,               \* refresh(): what it asked, what has come
  up,                      \* whether an agent answers
  sampled,                 \* MetricsSampler has a summary
  cached, inFlight, runs,  \* ps: its last list, the promise, the children
  changes

window == <<visible, timer>>
store == <<sortBy, table, summary>>
ps == <<cached, inFlight, runs>>
dashboard == <<window, store, refreshes, up, sampled, ps, changes>>

Orders == {"cpu", "memory"}
Free == [order |-> "cpu", list |-> "free", system |-> "free"]
Asked(order) == [order |-> order, list |-> "sent", system |-> "sent"]
Change == changes < MaxChanges /\ changes' = changes + 1

DashboardInit ==
  /\ visible \in BOOLEAN /\ timer = FALSE
  /\ sortBy = "cpu" /\ table = [order |-> "none", failed |-> FALSE]
  /\ summary = [shown |-> FALSE, failed |-> FALSE]
  /\ refreshes = [s \in Slots |-> Free] /\ up = FALSE /\ sampled = FALSE
  /\ cached = "none" /\ inFlight = FALSE /\ runs = 0 /\ changes = 0

-----------------------------------------------------------------------------
(* usePolling *)

(* A refresh that finds no slot is one too many for the bound. *)
Refresh(order) ==
  \/ \E s \in Slots : refreshes[s] = Free /\ refreshes' = [refreshes EXCEPT ![s] = Asked(order)]
  \/ (\A s \in Slots : refreshes[s] # Free) /\ UNCHANGED refreshes

Start ==
  /\ visible /\ ~timer /\ timer' = TRUE /\ Refresh(sortBy)
  /\ UNCHANGED <<visible, store, up, sampled, ps, changes>>

Tick == timer /\ Refresh(sortBy) /\ UNCHANGED <<window, store, up, sampled, ps, changes>>

\* Mutant of OnVisibility: a hidden window goes on polling.
OnVisibility_KeepsTimer ==
  /\ Change /\ visible' = ~visible
  /\ IF visible' /\ ~timer THEN timer' = TRUE /\ Refresh(sortBy) ELSE UNCHANGED <<timer, refreshes>>
  /\ UNCHANGED <<store, up, sampled, ps>>

OnVisibility ==
  /\ Change /\ visible' = ~visible
  /\ (IF visible' THEN timer' = TRUE /\ Refresh(sortBy) ELSE timer' = FALSE /\ UNCHANGED refreshes)
  /\ UNCHANGED <<store, up, sampled, ps>>

(* A click on the other column; or on Retry. *)
SetSortBy(order) ==
  /\ visible /\ Change
  /\ order # sortBy \/ (table.failed /\ table.order = "none")
  /\ sortBy' = order /\ Refresh(order)
  /\ UNCHANGED <<window, table, summary, up, sampled, ps>>

-----------------------------------------------------------------------------
(* The store, when both answers have come.  An error leaves the rows.      *)

Settled(s) ==
  LET r == refreshes[s]
  IN /\ r.list \in {"listed", "failed"} /\ r.system \in {"sampled", "failed"}
     /\ refreshes' = [refreshes EXCEPT ![s] = Free]
     /\ table' = IF r.list = "listed" THEN [order |-> r.order, failed |-> FALSE]
                 ELSE [table EXCEPT !.failed = TRUE]
     /\ summary' = IF r.system = "sampled" THEN [shown |-> TRUE, failed |-> FALSE]
                   ELSE [summary EXCEPT !.failed = TRUE]
     /\ UNCHANGED <<window, sortBy, up, sampled, ps, changes>>

-----------------------------------------------------------------------------
(* The agent *)

Answers(s, part, from, to) ==
  /\ refreshes[s][part] \in from /\ refreshes' = [refreshes EXCEPT ![s][part] = to]

(* GET /system *)
System(s) ==
  /\ up /\ Answers(s, "system", {"sent"}, IF sampled THEN "sampled" ELSE "failed")
  /\ UNCHANGED <<window, store, up, sampled, ps, changes>>

Sample == up /\ sampled' = TRUE /\ UNCHANGED <<window, store, refreshes, up, ps, changes>>

\* Mutant of List: each request runs ps for itself.
List_OwnRun(s) ==
  /\ up
  /\ IF cached = "fresh"
     THEN Answers(s, "list", {"sent"}, "listed") /\ UNCHANGED <<inFlight, runs>>
     ELSE Answers(s, "list", {"sent"}, "waits") /\ inFlight' = TRUE /\ runs' = runs + 1
  /\ UNCHANGED <<window, store, up, sampled, cached, changes>>

(* GET /processes: snapshot() *)
List(s) ==
  /\ up
  /\ IF cached = "fresh"
     THEN Answers(s, "list", {"sent"}, "listed") /\ UNCHANGED <<inFlight, runs>>
     ELSE /\ Answers(s, "list", {"sent"}, "waits") /\ inFlight' = TRUE
          /\ runs' = IF inFlight THEN runs ELSE runs + 1
  /\ UNCHANGED <<window, store, up, sampled, cached, changes>>

Served(how) ==
  refreshes' = [s \in Slots |->
    IF refreshes[s].list = "waits" THEN [refreshes[s] EXCEPT !.list = how] ELSE refreshes[s]]

(* It ends, its list goes to all who wait. *)
PsEnds ==
  /\ runs > 0 /\ runs' = runs - 1 /\ inFlight' = FALSE /\ cached' = "fresh" /\ Served("listed")
  /\ UNCHANGED <<window, store, up, sampled, changes>>

\* Mutant of PsFails: the rejected promise is kept, and joined for ever.
PsFails_Kept ==
  /\ runs > 0 /\ Change /\ runs' = runs - 1 /\ Served("failed")
  /\ UNCHANGED <<window, store, up, sampled, cached, inFlight>>

(* Its timeout, or its output: the last list stays, but is not served. *)
PsFails ==
  /\ runs > 0 /\ Change /\ runs' = runs - 1 /\ inFlight' = FALSE /\ Served("failed")
  /\ UNCHANGED <<window, store, up, sampled, cached>>

(* Two seconds later. *)
Expire ==
  /\ cached = "fresh" /\ cached' = "old"
  /\ UNCHANGED <<window, store, refreshes, up, sampled, inFlight, runs, changes>>

-----------------------------------------------------------------------------
AgentStarts ==
  /\ ~up /\ up' = TRUE /\ sampled' = FALSE
  /\ cached' = "none" /\ inFlight' = FALSE /\ runs' = 0
  /\ UNCHANGED <<window, store, refreshes, changes>>

AgentEnds ==
  /\ up /\ Change /\ up' = FALSE /\ runs' = 0 /\ Served("failed")
  /\ UNCHANGED <<window, store, sampled, cached, inFlight>>

(* No endpoint, a broken connection, or five seconds without an answer. *)
Fails(s) ==
  /\ IF up THEN Change ELSE UNCHANGED changes
  /\ Answers(s, "list", {"sent", "waits"}, "failed") \/ Answers(s, "system", {"sent"}, "failed")
  /\ UNCHANGED <<window, store, up, sampled, ps>>

DashboardNext ==
  \/ Start \/ Tick \/ OnVisibility
  \/ \E order \in Orders : SetSortBy(order)
  \/ \E s \in Slots : Settled(s) \/ System(s) \/ List(s) \/ Fails(s)
  \/ Sample \/ PsEnds \/ PsFails \/ Expire \/ AgentStarts \/ AgentEnds

(* Intervals fire, requests and ps end within their timeouts, and the      *)
(* supervisor brings the agent back.                                       *)
DashboardFairness ==
  /\ WF_dashboard(Start) /\ WF_dashboard(Tick) /\ WF_dashboard(Sample) /\ WF_dashboard(PsEnds)
  /\ WF_dashboard(Expire) /\ WF_dashboard(AgentStarts)
  /\ \A s \in Slots :
       WF_dashboard(Settled(s)) /\ WF_dashboard(System(s)) /\ WF_dashboard(List(s)) /\ WF_dashboard(~up /\ Fails(s))

DashboardSpec == DashboardInit /\ [][DashboardNext]_dashboard /\ DashboardFairness

-----------------------------------------------------------------------------
DashboardTypeOK ==
  /\ {visible, timer, up, sampled, inFlight} \subseteq BOOLEAN
  /\ sortBy \in Orders /\ table.order \in Orders \cup {"none"}
  /\ \A s \in Slots : refreshes[s].list \in {"free", "sent", "waits", "listed", "failed"}
  /\ cached \in {"none", "fresh", "old"} /\ runs \in Nat /\ changes \in 0 .. MaxChanges
  /\ timer => visible  \* "a hidden window generates zero agent traffic"

(* Concurrent requests share one run of ps, and none waits for a run that  *)
(* is over: unless its agent is.                                           *)
OnePs ==
  /\ runs <= 1
  /\ up => (inFlight <=> runs = 1)
  /\ \A s \in Slots : up /\ refreshes[s].list = "waits" => inFlight

(* Whatever crossed, once nobody clicks the table comes to show the order  *)
(* chosen, without an error, and the summary is there.                     *)
DashboardSettles ==
  <>[](up /\ visible)
    => <>[](table = [order |-> sortBy, failed |-> FALSE] /\ summary = [shown |-> TRUE, failed |-> FALSE])
=============================================================================
