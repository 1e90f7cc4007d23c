---------------------------- MODULE MCMediaProbe ----------------------------
(* TLC instance of MediaProbe.                                               *)
EXTENDS MediaProbe
=============================================================================
