----------------------------- MODULE MCRuntimeChecks -----------------------------
(* Instance: both programs, every option, a browser and a process of its.   *)
EXTENDS RuntimeChecks
==================================================================================
