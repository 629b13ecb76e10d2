--------------------------------- MODULE MCTray ---------------------------------
(* One monitor, listed twice until a restart is hydrated, and one row for it; a
   summary from the second banner of a window on. *)
EXTENDS Tray
MCMonitors == {1}
=============================================================================
