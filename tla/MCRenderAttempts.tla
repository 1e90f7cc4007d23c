----------------------------- MODULE MCRenderAttempts -----------------------------
(* Instance: two calls in any of three roots, two of which have one name.   *)
EXTENDS RenderAttempts

CONSTANTS r1, r2, r3, x, y

ThreeRoots == {r1, r2, r3}
TwoIds == {x, y}
Names == [r \in ThreeRoots |-> IF r = r3 THEN y ELSE x]
==================================================================================
