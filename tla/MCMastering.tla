------------------------------- MODULE MCMastering -------------------------------
(* Instance: masterings that share an output path.                          *)
EXTENDS Mastering
==================================================================================
