-------------------------- MODULE MCTurnApproval --------------------------
(* TLC instances of TurnApproval: the two calls of the proof, and parameters *)
(* that belong to neither.                                                   *)
EXTENDS TurnApproval

CONSTANTS snapshot, edit, other

SomeParams == {snapshot, edit, other}
TwoCalls == <<snapshot, edit>>
=============================================================================
