------------------------------- MODULE MCTailer -------------------------------
(* Tailer for TLC: all its constants are numbers, given in the cfg files. *)
EXTENDS Tailer
=============================================================================
