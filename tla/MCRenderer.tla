------------------------------- MODULE MCRenderer -------------------------------
(* One monitor and one log view of two rows; requests are alike. *)
EXTENDS Renderer, TLC
MCMonitors == {1}
SlotSymmetry == Permutations(Slots)
=============================================================================
