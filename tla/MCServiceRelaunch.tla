------------------------- MODULE MCServiceRelaunch -------------------------
(* The TLC instance of ServiceRelaunch; no symmetry, since it checks         *)
(* liveness.                                                                 *)
EXTENDS ServiceRelaunch
=============================================================================
