------------------------ MODULE MCCommandAuthority ------------------------
(* TLC instances of CommandAuthority: connections and command IDs are        *)
(* interchangeable in the safety runs.                                       *)
EXTENDS CommandAuthority, TLC

Symmetry == Permutations(Connections) \cup Permutations(CommandIDs)
=============================================================================
