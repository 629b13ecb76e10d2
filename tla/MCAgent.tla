-------------------------------- MODULE MCAgent --------------------------------
(* DiagnosticsExport, AgentProcess and Dashboard for TLC.  Watches, exports  *)
(* and the answers to the dashboard have nothing in common but the process   *)
(* they come from, so TLC takes them one at a time: three requests to watch  *)
(* a file, two clicks on the button, or two refreshes that cross.            *)
EXTENDS DiagnosticsExport, Dashboard

CONSTANTS a1, a2, a3

MCAdds == {a1, a2, a3}
NoAdds == \A r \in Adds : add[r] = "over"
NoClicks == \A e \in Exports : exp[e] = "refused"
Idle == Init /\ NoAdds /\ NoClicks

(* A hidden window beside an agent that has taken its samples: nothing is    *)
(* due in the dashboard until the user shows it or the agent ends.           *)
Hidden ==
  /\ visible = FALSE /\ timer = FALSE /\ sortBy = "cpu" /\ changes = 0
  /\ table = [order |-> "none", failed |-> FALSE]
  /\ summary = [shown |-> FALSE, failed |-> FALSE] /\ refreshes = [s \in Slots |-> Free]
  /\ up = TRUE /\ sampled = TRUE /\ cached = "none" /\ inFlight = FALSE /\ runs = 0

MCInit ==
  \/ Init /\ (NoAdds \/ NoClicks) /\ Hidden
  \/ Idle /\ DashboardInit

MCNext ==
  \/ Hidden /\ Next /\ UNCHANGED dashboard
  \/ Idle /\ DashboardNext /\ UNCHANGED vars

MCSpec == MCInit /\ [][MCNext]_<<vars, dashboard>> /\ Fairness /\ DashboardFairness
=============================================================================
