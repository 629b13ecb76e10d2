---------------------------- MODULE MCEventStream ----------------------------
(* Values of the constants of EventStream for TLC. *)
EXTENDS EventStream

CONSTANTS k1, k2, k3

TwoChains == {k1, k2}
ThreeChains == {k1, k2, k3}
=============================================================================
