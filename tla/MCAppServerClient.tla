------------------------- MODULE MCAppServerClient -------------------------
(* TLC instance of AppServerClient; without symmetry, which liveness does not *)
(* allow.                                                                    *)
EXTENDS AppServerClient
=============================================================================
