------------------------------- MODULE MCHealth -------------------------------
(* Values of the constants of HealthRegistry for TLC. *)
EXTENDS HealthRegistry

CONSTANTS m1, m2

TwoMonitors == {m1, m2}
SomeThresholds == {[failure |-> 2, recovery |-> 1], [failure |-> 1, recovery |-> 2]}
=============================================================================
