--------------------------- MODULE ProjectHistory ---------------------------
(***************************************************************************)
(* What the creator's project promises about accepted edits: a history in  *)
(* which every edit was written against the revision just before it, and   *)
(* no command appears twice.  The project starts at revision 1 and each    *)
(* edit makes the next one.  ProposalStore implements it.                  *)
(***************************************************************************)
EXTENDS Naturals, Sequences

CONSTANT Proposal   \* edits: records with commandID and expectedRevision

VARIABLE history    \* the accepted edits, oldest first

Revision == Len(history) + 1

Init == history = <<>>

Commit(p) ==
    /\ p.expectedRevision = Revision
    /\ \A i \in 1 .. Len(history) : history[i].commandID # p.commandID
    /\ history' = Append(history, p)

Next == \E p \in Proposal : Commit(p)

Spec == Init /\ [][Next]_history
=============================================================================
