-------------------------------- MODULE MCProbeRun --------------------------------
(* Instance: the model may propose what it was asked for, another text under *)
(* its command ID, another command, or a blank text.                         *)
EXTENDS ProbeRun

CONSTANTS live, old, bad, other, s1, s2, new, wrong, blank, fields

Raw(id, rev, scene, text) ==
    [commandID |-> id, expectedRevision |-> rev, sceneID |-> scene,
     replacementText |-> text, order |-> fields]

IDs == {live, old, bad, other}
Asked == Raw(live, 1, s2, new)
Stale == Raw(old, 1, s2, new)
Blank == Raw(bad, 1, s2, blank)
FromModel == {Asked, Raw(live, 1, s2, wrong), Raw(other, 1, s1, new), Raw(live, 1, s2, blank)}
==================================================================================
