---------------------------- MODULE MCSupervisor ----------------------------
(* Values of the constants of Supervisor for TLC. *)
EXTENDS Supervisor, TLC

CONSTANTS c1, c2, c3

ThreeChildren == {c1, c2, c3}
=============================================================================
