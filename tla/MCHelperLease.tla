--------------------------- MODULE MCHelperLease ---------------------------
(* The TLC instance of HelperLease; no symmetry, since it checks liveness.   *)
EXTENDS HelperLease
=============================================================================
