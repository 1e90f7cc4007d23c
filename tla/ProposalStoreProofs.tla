------------------------ MODULE ProposalStoreProofs ------------------------
(***************************************************************************)
(* Proofs about ProposalStore.  The inductive invariant StoreInv adds to   *)
(* the types that the map of accepted commands numbers the revisions 2 to  *)
(* the present one, each by exactly one command; that is what makes the    *)
(* history of the refinement well defined.                                 *)
(***************************************************************************)
EXTENDS ProposalStore, TLAPS

\* A proposal is stored under its own command ID.
Keyed == \A c \in DOMAIN proposals : proposals[c].commandID = c

\* Every accepted command was stored, and made one of the revisions so far.
AcceptedMade ==
    /\ DOMAIN accepted \subseteq DOMAIN proposals
    /\ \A c \in DOMAIN accepted : accepted[c] \in 2 .. revision

\* Every revision after the first was made by a command, and by one only.
RevisionsMade ==
    /\ \A n \in 2 .. revision : \E c \in DOMAIN accepted : accepted[c] = n
    /\ \A c, d \in DOMAIN accepted : accepted[c] = accepted[d] => c = d

StoreInv == TypeOK /\ Keyed /\ AcceptedMade /\ RevisionsMade

----------------------------------------------------------------------------

\* The initial state has the invariant.
LEMMA StoreInit == Init => StoreInv
  BY SMT DEF Init, StoreInv, TypeOK, Keyed, AcceptedMade, RevisionsMade, Empty,
             Answer

\* What any step may submit is a submitted object.
LEMMA WritesType ==
  ASSUME TypeOK, NEW a \in Agents, NEW raw \in Writes(a) \cup Resent
  PROVE  raw \in Raw
  BY DEF TypeOK, Writes, Resent, Raw, Proposal

\* Storing adds the submitted object, if anything, and replaces nothing.
LEMMA StoredKeeps ==
  ASSUME StoreInv, NEW raw \in Raw
  PROVE  /\ DOMAIN proposals \subseteq DOMAIN Stored(raw)
         /\ \A c \in DOMAIN proposals : Stored(raw)[c] = proposals[c]
         /\ DOMAIN Stored(raw) \subseteq CommandIDs
         /\ Stored(raw) \in [DOMAIN Stored(raw) -> Proposal]
         /\ \A c \in DOMAIN Stored(raw) : Stored(raw)[c].commandID = c
<1>1. CASE Valid(raw) /\ ~ Conflicts(raw)
  <2>1. raw \in Proposal /\ raw.commandID \in CommandIDs
    BY <1>1 DEF Valid, Raw, Proposal
  <2>2. Stored(raw) = [z \in DOMAIN proposals \cup {raw.commandID} |->
                         IF z = raw.commandID THEN raw ELSE proposals[z]]
    BY <1>1 DEF Stored, With
  <2>3. raw.commandID \in DOMAIN proposals => proposals[raw.commandID] = raw
    BY <1>1 DEF Conflicts
  <2> QED
    BY <2>1, <2>2, <2>3 DEF StoreInv, TypeOK, Keyed
<1>2. CASE ~ (Valid(raw) /\ ~ Conflicts(raw))
  BY <1>2 DEF Stored, StoreInv, TypeOK, Keyed
<1> QED
  BY <1>1, <1>2

\* A submission keeps the invariant: nothing the store has recorded changes.
LEMMA SubmitStep ==
  ASSUME StoreInv, NEW a \in Agents, NEW raw \in Writes(a) \cup Resent,
         Submit(raw)
  PROVE  StoreInv'
<1> raw \in Raw
  BY WritesType DEF StoreInv
<1>1. /\ DOMAIN proposals \subseteq DOMAIN proposals'
      /\ \A c \in DOMAIN proposals : proposals'[c] = proposals[c]
      /\ DOMAIN proposals' \subseteq CommandIDs
      /\ proposals' \in [DOMAIN proposals' -> Proposal]
      /\ Keyed'
  BY StoredKeeps DEF Submit, Keyed
<1>2. answer' \in Answer
  <2>1. PICK kind \in {"invalid", "conflict", "pending", "failed"} :
          answer' = [kind |-> kind, raw |-> raw]
    BY DEF Submit
  <2> QED
    BY <2>1 DEF Answer
<1>3. UNCHANGED <<revision, scenes, accepted, seen, inspected>>
  BY DEF Submit, clients
<1> QED
  BY <1>1, <1>2, <1>3 DEF StoreInv, TypeOK, AcceptedMade, RevisionsMade

\* An acceptance keeps the invariant: it makes the next revision.
LEMMA AcceptStep ==
  ASSUME StoreInv, NEW c \in CommandIDs, AcceptFirst(c)
  PROVE  StoreInv'
<1>1. /\ c \in DOMAIN proposals
      /\ c \notin DOMAIN accepted
      /\ revision' = revision + 1
      /\ revision \in Nat \ {0}
      /\ accepted' = [z \in DOMAIN accepted \cup {c} |->
                        IF z = c THEN revision + 1 ELSE accepted[z]]
      /\ UNCHANGED <<proposals, seen, inspected>>
  BY DEF AcceptFirst, Current, With, StoreInv, TypeOK, clients
<1>2. scenes' \in [Scenes -> Texts \cup {Original}]
  <2>1. proposals[c].sceneID \in Scenes /\ proposals[c].replacementText \in Texts
    BY <1>1 DEF StoreInv, TypeOK, Proposal
  <2> QED
    BY <2>1 DEF AcceptFirst, Edited, StoreInv, TypeOK
<1>3. answer' \in Answer
  BY <1>1 DEF AcceptFirst, Answer
<1>4. TypeOK'
  BY <1>1, <1>2, <1>3 DEF StoreInv, TypeOK
<1>5. AcceptedMade'
  BY <1>1 DEF StoreInv, TypeOK, AcceptedMade
<1>6. RevisionsMade'
  <2>1. \A n \in 2 .. revision' : \E d \in DOMAIN accepted' : accepted'[d] = n
    <3> SUFFICES ASSUME NEW n \in 2 .. revision'
                 PROVE  \E d \in DOMAIN accepted' : accepted'[d] = n
      OBVIOUS
    <3>1. CASE n = revision + 1
      <4>1. c \in DOMAIN accepted' /\ accepted'[c] = revision + 1
        BY <1>1
      <4> QED
        BY <4>1, <3>1
    <3>2. CASE n \in 2 .. revision
      <4>1. PICK d \in DOMAIN accepted : accepted[d] = n
        BY <3>2 DEF StoreInv, RevisionsMade
      <4> QED
        BY <4>1, <1>1
    <3>3. n \in 2 .. (revision + 1)
      BY <1>1
    <3>4. n = revision + 1 \/ n \in 2 .. revision
      BY <1>1, <3>3
    <3> QED
      BY <3>1, <3>2, <3>4
  <2>2. \A d \in DOMAIN accepted : accepted[d] # revision + 1
    BY <1>1 DEF StoreInv, AcceptedMade
  <2>3. \A d, e \in DOMAIN accepted' : accepted'[d] = accepted'[e] => d = e
    BY <1>1, <2>2 DEF StoreInv, RevisionsMade
  <2> QED
    BY <2>1, <2>3 DEF RevisionsMade
<1> QED
  BY <1>1, <1>4, <1>5, <1>6 DEF StoreInv, Keyed

\* Every step keeps the invariant.
LEMMA StoreStep == StoreInv /\ [Next]_vars => StoreInv'
<1> SUFFICES ASSUME StoreInv, [Next]_vars
             PROVE  StoreInv'
  OBVIOUS
<1> USE DEF StoreInv
<1>1. ASSUME NEW a \in Agents, Snapshot(a)
      PROVE  StoreInv'
  BY <1>1 DEF Snapshot, TypeOK, Keyed, AcceptedMade, RevisionsMade
<1>2. ASSUME NEW k \in Creators, Inspect(k)
      PROVE  StoreInv'
  <2>1. Pending \subseteq Proposal
    BY DEF Pending, TypeOK
  <2> QED
    BY <1>2, <2>1 DEF Inspect, TypeOK, Keyed, AcceptedMade, RevisionsMade
<1>3. ASSUME NEW a \in Agents, NEW raw \in Writes(a) \cup Resent, Submit(raw)
      PROVE  StoreInv'
  BY <1>3, SubmitStep
<1>4. ASSUME NEW c \in CommandIDs, AcceptAgain(c)
      PROVE  StoreInv'
  <2>1. answer' \in Answer
    BY <1>4 DEF AcceptAgain, Answer, TypeOK
  <2> QED
    BY <1>4, <2>1
       DEF AcceptAgain, clients, TypeOK, Keyed, AcceptedMade, RevisionsMade
<1>5. ASSUME NEW c \in CommandIDs, AcceptFirst(c)
      PROVE  StoreInv'
  BY <1>5, AcceptStep
<1>6. ASSUME NEW c \in CommandIDs, Refuse(c)
      PROVE  StoreInv'
  <2>1. answer' \in Answer
    BY <1>6 DEF Refuse, Answer
  <2> QED
    BY <1>6, <2>1
       DEF Refuse, clients, TypeOK, Keyed, AcceptedMade, RevisionsMade
<1>7. CASE UNCHANGED vars
  BY <1>7 DEF vars, clients, TypeOK, Keyed, AcceptedMade, RevisionsMade
<1> QED
  BY <1>1, <1>2, <1>3, <1>4, <1>5, <1>6, <1>7 DEF Next

----------------------------------------------------------------------------

\* The command that made a revision is well defined.
LEMMA MadeByMakes ==
  ASSUME RevisionsMade
  PROVE  /\ \A n \in 2 .. revision : /\ MadeBy(accepted, n) \in DOMAIN accepted
                                    /\ accepted[MadeBy(accepted, n)] = n
         /\ \A c \in DOMAIN accepted : MadeBy(accepted, accepted[c]) = c
  BY DEF RevisionsMade, MadeBy

\* Each entry of the history is the accepted proposal that made a revision.
LEMMA HistoryEntry ==
  ASSUME StoreInv, NEW i \in 1 .. (revision - 1)
  PROVE  /\ MadeBy(accepted, i + 1) \in DOMAIN accepted
         /\ accepted[MadeBy(accepted, i + 1)] = i + 1
         /\ History[i] = proposals[MadeBy(accepted, i + 1)]
         /\ History[i] \in Proposal
         /\ History[i].commandID = MadeBy(accepted, i + 1)
<1>1. i + 1 \in 2 .. revision
  BY DEF StoreInv, TypeOK
<1>2. MadeBy(accepted, i + 1) \in DOMAIN accepted /\ accepted[MadeBy(accepted, i + 1)] = i + 1
  BY <1>1, MadeByMakes DEF StoreInv
<1>3. History[i] = proposals[MadeBy(accepted, i + 1)]
  BY DEF History
<1>4. MadeBy(accepted, i + 1) \in DOMAIN proposals
  BY <1>2 DEF StoreInv, AcceptedMade
<1> QED
  BY <1>2, <1>3, <1>4 DEF StoreInv, TypeOK, Keyed

\* The history is a sequence of proposals, one per revision after the first.
LEMMA HistoryType ==
  ASSUME StoreInv
  PROVE  /\ History \in Seq(Proposal)
         /\ Len(History) = revision - 1
<1>1. revision - 1 \in Nat
  BY DEF StoreInv, TypeOK
<1>2. History \in [1 .. (revision - 1) -> Proposal]
  <2>1. \A i \in 1 .. (revision - 1) : History[i] \in Proposal
    BY HistoryEntry
  <2> QED
    BY <2>1 DEF History
<1> QED
  BY <1>1, <1>2

\* A step that accepts nothing new leaves the history as it was.
LEMMA HistorySame ==
  ASSUME StoreInv, UNCHANGED <<revision, accepted>>,
         \A c \in DOMAIN proposals : proposals'[c] = proposals[c]
  PROVE  History' = History
<1>1. \A i \in 1 .. (revision - 1) :
        proposals'[MadeBy(accepted, i + 1)] = proposals[MadeBy(accepted, i + 1)]
  BY HistoryEntry DEF StoreInv, AcceptedMade
<1> QED
  BY <1>1 DEF History

\* An acceptance appends the accepted proposal to the history.
LEMMA HistoryAppended ==
  ASSUME StoreInv, NEW c \in CommandIDs, AcceptFirst(c)
  PROVE  /\ Append(History, proposals[c]) = History'
         /\ \A i \in 1 .. (revision - 1) : History'[i] = History[i]
         /\ History'[revision] = proposals[c]
<1>1. /\ c \in DOMAIN proposals
      /\ c \notin DOMAIN accepted
      /\ revision' = revision + 1
      /\ revision \in Nat \ {0}
      /\ accepted' = [z \in DOMAIN accepted \cup {c} |->
                        IF z = c THEN revision + 1 ELSE accepted[z]]
      /\ proposals' = proposals
  BY DEF AcceptFirst, Current, With, StoreInv, TypeOK
<1>2. \A d \in DOMAIN accepted' : MadeBy(accepted', accepted'[d]) = d
  <2>1. RevisionsMade'
    BY AcceptStep DEF StoreInv
  <2> QED
    BY <2>1 DEF RevisionsMade, MadeBy
<1>3. MadeBy(accepted', revision + 1) = c
  <2>1. c \in DOMAIN accepted' /\ accepted'[c] = revision + 1
    BY <1>1
  <2> QED
    BY <2>1, <1>2
<1>4. ASSUME NEW i \in 1 .. (revision - 1)
      PROVE  MadeBy(accepted', i + 1) = MadeBy(accepted, i + 1)
  <2>1. /\ MadeBy(accepted, i + 1) \in DOMAIN accepted'
        /\ accepted'[MadeBy(accepted, i + 1)] = i + 1
    BY HistoryEntry, <1>1
  <2> QED
    BY <2>1, <1>2
<1>5. History' = [i \in 1 .. revision |-> proposals[MadeBy(accepted', i + 1)]]
  BY <1>1 DEF History
<1>6. History'[revision] = proposals[c]
  BY <1>1, <1>3, <1>5
<1>7. ASSUME NEW i \in 1 .. (revision - 1)
      PROVE  History'[i] = History[i]
  <2>1. i \in 1 .. revision
    BY <1>1
  <2>2. History'[i] = proposals[MadeBy(accepted', i + 1)]
    BY <1>5, <2>1
  <2> QED
    BY <2>2, <1>4, HistoryEntry
<1>8. History \in Seq(Proposal) /\ Len(History) = revision - 1
  BY HistoryType
<1>9. Append(History, proposals[c]) = History'
  <2>1. History' = [i \in 1 .. (Len(History) + 1) |-> History'[i]]
    BY <1>1, <1>5, <1>8
  <2>2. Append(History, proposals[c])
          = [i \in 1 .. (Len(History) + 1) |->
               IF i = Len(History) + 1 THEN proposals[c] ELSE History[i]]
    BY <1>8
  <2>3. \A i \in 1 .. (Len(History) + 1) :
          History'[i] = IF i = Len(History) + 1 THEN proposals[c]
                                                ELSE History[i]
    BY <1>1, <1>6, <1>7, <1>8
  <2> QED
    BY <2>1, <2>2, <2>3
<1> QED
  BY <1>6, <1>7, <1>9

\* A command accepted for the first time is not in the history.
LEMMA CommandIsNew ==
  ASSUME StoreInv, NEW c \in CommandIDs, AcceptFirst(c),
         NEW i \in 1 .. (revision - 1)
  PROVE  History[i].commandID # proposals[c].commandID
<1>1. History[i].commandID \in DOMAIN accepted
  BY HistoryEntry
<1>2. c \notin DOMAIN accepted /\ proposals[c].commandID = c
  BY DEF AcceptFirst, Current, StoreInv, Keyed
<1> QED
  BY <1>1, <1>2

\* Every step of the store is a step of the project history or none.
LEMMA HistoryStep ==
  StoreInv /\ [Next]_vars =>
    History' = History \/ \E c \in CommandIDs : AcceptFirst(c)
<1> SUFFICES ASSUME StoreInv, [Next]_vars,
                    \A c \in CommandIDs : ~ AcceptFirst(c)
             PROVE  History' = History
  OBVIOUS
<1>1. UNCHANGED <<revision, accepted>>
  BY DEF Next, vars, Snapshot, Inspect, Submit, AcceptAgain, Refuse
<1>2. CASE \E a \in Agents : \E raw \in Writes(a) \cup Resent : Submit(raw)
  <2>1. PICK a \in Agents : \E raw \in Writes(a) \cup Resent : Submit(raw)
    BY <1>2
  <2>2. PICK raw \in Writes(a) \cup Resent : Submit(raw)
    BY <2>1
  <2>3. raw \in Raw
    BY WritesType DEF StoreInv
  <2>4. \A c \in DOMAIN proposals : proposals'[c] = proposals[c]
    BY <2>2, <2>3, StoredKeeps DEF Submit
  <2> QED
    BY <1>1, <2>4, HistorySame
<1>3. CASE ~ \E a \in Agents :
               \E raw \in Writes(a) \cup Resent : Submit(raw)
  <2>1. proposals' = proposals
    BY <1>3 DEF Next, vars, Snapshot, Inspect, AcceptAgain, Refuse
  <2> QED
    BY <1>1, <2>1, HistorySame
<1> QED
  BY <1>2, <1>3

----------------------------------------------------------------------------

\* The invariant that the proofs below rest on holds in every behaviour.
THEOREM StoreInvariant == Spec => []StoreInv
  BY StoreInit, StoreStep, PTL DEF Spec

\* Types: what submit, accept, inspect and snapshot keep is of its type, so no
\* rejected text is ever stored or shown in a scene.
THEOREM TypeCorrect == Spec => []TypeOK
<1>1. StoreInv => TypeOK
  BY DEF StoreInv
<1> QED
  BY <1>1, StoreInvariant, PTL

\* Refinement: for any number of agents, creators, commands and scenes, the
\* store is the compare-and-swap history of ProjectHistory, whatever clients
\* read before, send late or send again.
THEOREM StoreIsHistory == Spec => ImplementsHistory
<1>1. Init => Promise!Init
  <2> SUFFICES ASSUME Init
               PROVE  Promise!Init
    OBVIOUS
  <2>1. Len(History) = 0 /\ History \in Seq(Proposal)
    BY StoreInit, HistoryType DEF Init
  <2> QED
    BY <2>1 DEF Promise!Init
<1>2. StoreInv /\ [Next]_vars => [Promise!Next]_History
  <2> SUFFICES ASSUME StoreInv, [Next]_vars, NEW c \in CommandIDs,
                      AcceptFirst(c)
               PROVE  Promise!Next
    BY HistoryStep
  <2>1. proposals[c] \in Proposal
    BY DEF AcceptFirst, Current, StoreInv, TypeOK
  <2>2. proposals[c].expectedRevision = Promise!Revision
    BY HistoryType DEF AcceptFirst, Current, Promise!Revision, StoreInv, TypeOK
  <2>3. \A i \in 1 .. Len(History) :
          History[i].commandID # proposals[c].commandID
    BY CommandIsNew, HistoryType
  <2>4. Promise!Commit(proposals[c])
    BY <2>2, <2>3, HistoryAppended DEF Promise!Commit
  <2> QED
    BY <2>1, <2>4 DEF Promise!Next
<1> QED
  BY <1>1, <1>2, StoreInvariant, PTL DEF Spec, ImplementsHistory, Promise!Spec

----------------------------------------------------------------------------
(* The other properties.                                                   *)

\* The scenes after an acceptance: the edited scene reads as the new entry of
\* the history says, the others as they did.
LEMMA ScenesAccept ==
  ASSUME StoreInv, ScenesFollowHistory, NEW c \in CommandIDs, AcceptFirst(c)
  PROVE  ScenesFollowHistory'
<1> DEFINE about(s) == {i \in 1 .. (revision - 1) : History[i].sceneID = s}
           next(s)  == {i \in 1 .. revision : History'[i].sceneID = s}
<1>1. /\ revision' = revision + 1
      /\ revision \in Nat \ {0}
      /\ proposals[c] \in Proposal
      /\ scenes' = [scenes EXCEPT ![proposals[c].sceneID]
                                   = proposals[c].replacementText]
      /\ scenes \in [Scenes -> Texts \cup {Original}]
  BY DEF AcceptFirst, Current, Edited, StoreInv, TypeOK
<1>2. /\ \A i \in 1 .. (revision - 1) : History'[i] = History[i]
      /\ History'[revision] = proposals[c]
  BY HistoryAppended
<1>3. ASSUME NEW s \in Scenes
      PROVE  \/ next(s) = {} /\ scenes'[s] = Original
             \/ \E i \in next(s) : /\ \A j \in next(s) : j <= i
                                  /\ scenes'[s] = History'[i].replacementText
  <2>1. CASE s = proposals[c].sceneID
    <3>1. revision \in next(s) /\ \A j \in next(s) : j <= revision
      BY <1>1, <1>2, <2>1
    <3>2. scenes'[s] = History'[revision].replacementText
      BY <1>1, <1>2, <2>1
    <3> QED
      BY <3>1, <3>2
  <2>2. CASE s # proposals[c].sceneID
    <3>1. scenes'[s] = scenes[s]
      BY <1>1, <2>2
    <3>2. next(s) = about(s)
      <4>1. \A i \in 1 .. revision : i = revision \/ i \in 1 .. (revision - 1)
        BY <1>1
      <4>2. \A i \in 1 .. (revision - 1) : i \in 1 .. revision
        BY <1>1
      <4> QED
        BY <4>1, <4>2, <1>2, <2>2
    <3>3. \/ about(s) = {} /\ scenes[s] = Original
          \/ \E i \in about(s) : /\ \A j \in about(s) : j <= i
                                /\ scenes[s] = History[i].replacementText
      BY DEF ScenesFollowHistory
    <3>4. \A i \in about(s) : History'[i] = History[i]
      BY <1>2
    <3> QED
      BY <3>1, <3>2, <3>3, <3>4
  <2> QED
    BY <2>1, <2>2
<1>4. revision' - 1 = revision
  BY <1>1
<1> QED
  BY <1>3, <1>4 DEF ScenesFollowHistory

\* Acceptance: each scene of the project reads as the last accepted edit of it
\* says, for any number of scenes, edits and late or repeated messages.
THEOREM ScenesCorrect == Spec => []ScenesFollowHistory
<1>1. Init => ScenesFollowHistory
  BY DEF Init, ScenesFollowHistory
<1>2. StoreInv /\ ScenesFollowHistory /\ [Next]_vars => ScenesFollowHistory'
  <2> SUFFICES ASSUME StoreInv, ScenesFollowHistory, [Next]_vars
               PROVE  ScenesFollowHistory'
    OBVIOUS
  <2>1. CASE \E c \in CommandIDs : AcceptFirst(c)
    BY <2>1, ScenesAccept
  <2>2. CASE ~ \E c \in CommandIDs : AcceptFirst(c)
    <3>1. History' = History
      <4> SUFFICES ASSUME NEW c \in CommandIDs, AcceptFirst(c)
                   PROVE  FALSE
        BY HistoryStep
      <4> QED
        BY <2>2
    <3>2. UNCHANGED <<revision, scenes>>
      BY <2>2 DEF Next, vars, Snapshot, Inspect, Submit, AcceptAgain, Refuse
    <3> QED
      BY <3>1, <3>2 DEF ScenesFollowHistory
  <2> QED
    BY <2>1, <2>2
<1> QED
  BY <1>1, <1>2, StoreInvariant, PTL DEF Spec

\* Inspection: what a creator was shown under a command ID is, for ever after,
\* what acceptance of that ID applies.
THEOREM InspectionCounts == Spec => []InspectedIsWhatCounts
<1>1. Init => InspectedIsWhatCounts
  BY DEF Init, InspectedIsWhatCounts
<1>2. StoreInv /\ InspectedIsWhatCounts /\ [Next]_vars
        => InspectedIsWhatCounts'
  <2> SUFFICES ASSUME StoreInv, InspectedIsWhatCounts, [Next]_vars
               PROVE  InspectedIsWhatCounts'
    OBVIOUS
  <2> USE DEF InspectedIsWhatCounts
  <2>1. CASE \E k \in Creators : Inspect(k)
    <3>1. \A p \in Pending : /\ p.commandID \in DOMAIN proposals
                            /\ proposals[p.commandID] = p
      BY DEF Pending, StoreInv, Keyed
    <3> QED
      BY <2>1, <3>1 DEF Inspect, StoreInv, TypeOK
  <2>2. ASSUME NEW a \in Agents, NEW raw \in Writes(a) \cup Resent, Submit(raw)
        PROVE  InspectedIsWhatCounts'
    <3>1. raw \in Raw
      BY WritesType DEF StoreInv
    <3> QED
      BY <2>2, <3>1, StoredKeeps DEF Submit, clients
  <2>3. CASE UNCHANGED <<proposals, inspected>>
    BY <2>3
  <2> QED
    BY <2>1, <2>2, <2>3
       DEF Next, vars, clients, Snapshot, AcceptAgain, AcceptFirst, Refuse
<1> QED
  BY <1>1, <1>2, StoreInvariant, PTL DEF Spec

\* Retries: an acceptance sent again gets the answer of the first one, and its
\* own edit never makes it stale.
THEOREM RetriesSucceed == Spec => []RetriedAcceptSucceeds
<1>1. Init => RetriedAcceptSucceeds
  BY DEF Init, RetriedAcceptSucceeds
<1>2. StoreInv /\ RetriedAcceptSucceeds /\ [Next]_vars
        => RetriedAcceptSucceeds'
  <2> SUFFICES ASSUME StoreInv, RetriedAcceptSucceeds, [Next]_vars
               PROVE  RetriedAcceptSucceeds'
    OBVIOUS
  <2> USE DEF RetriedAcceptSucceeds
  <2>1. CASE \E raw : Submit(raw)
    <3>1. answer'.kind \in {"invalid", "conflict", "pending", "failed"}
      BY <2>1 DEF Submit
    <3> QED
      BY <3>1
  <2>2. CASE \E c \in CommandIDs : AcceptAgain(c)
    BY <2>2 DEF AcceptAgain
  <2>3. CASE \E c \in CommandIDs : AcceptFirst(c)
    BY <2>3 DEF AcceptFirst, With
  <2>4. CASE \E c \in CommandIDs : Refuse(c)
    BY <2>4 DEF Refuse
  <2>5. CASE UNCHANGED <<accepted, answer>>
    BY <2>5
  <2> QED
    BY <2>1, <2>2, <2>3, <2>4, <2>5 DEF Next, vars, Snapshot, Inspect
<1> QED
  BY <1>1, <1>2, StoreInvariant, PTL DEF Spec
=============================================================================
