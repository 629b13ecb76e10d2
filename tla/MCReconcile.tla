------------------------------ MODULE MCReconcile ------------------------------
(* Reconcile, RestartLadder and LogRotation for TLC, which look over many    *)
(* agents: what is told to each, when there is a next, and what they have    *)
(* logged.  They share no state, so TLC takes one at a time.  The numbers    *)
(* are in the cfg file; those of the ladder make a window that the delays of *)
(* a crash loop, and those of agents that last one unit longer, fit into     *)
(* just so and just not.                                                     *)
EXTENDS Reconcile, RestartLadder, LogRotation

CONSTANTS m1, w1

MCMonitors == {m1}
MCWatches == {w1}

MCInit == Init /\ LadderInit /\ LogInit

MCNext ==
  \/ LadderInit /\ LogInit /\ Next /\ UNCHANGED <<ladderVars, log>>
  \/ Init /\ LogInit /\ LadderNext /\ UNCHANGED <<vars, log>>
  \/ Init /\ LadderInit /\ LogNext /\ UNCHANGED <<vars, ladderVars>>

MCSpec == MCInit /\ [][MCNext]_<<vars, ladderVars, log>>
=============================================================================
