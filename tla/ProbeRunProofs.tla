-------------------------- MODULE ProbeRunProofs --------------------------
(***************************************************************************)
(* Proofs about ProbeRun, for any proposals of the model, any number of its *)
(* calls and any scenes and texts.  Only the inspection looks at what the   *)
(* model has done; all that follows rests on the model being silent from    *)
(* then on and on every call being handled once, late or in time.           *)
(***************************************************************************)
EXTENDS ProbeRun, FiniteSetTheorems, SequenceTheorems, TLAPS

----------------------------------------------------------------------------
(* The inductive invariant.                                                *)

Early == {"preflight", "first", "turn-start", "turn"}
Late == Steps \ Early

\* The store before, between and after the calls that change it.
Untouched ==
    /\ DOMAIN accepted = {} /\ revision = 1
    /\ scenes = [s \in Scenes |-> Original]

OnlyProposed ==
    DOMAIN proposals = {PROPOSAL.commandID} /\ proposals[PROPOSAL.commandID] = PROPOSAL

Shown == Untouched /\ OnlyProposed

AcceptedOnce ==
    /\ DOMAIN accepted = {PROPOSAL.commandID} /\ revision = 2
    /\ scenes = [s \in Scenes |-> IF s = PROPOSAL.sceneID THEN PROPOSAL.replacementText
                                                         ELSE Original]

Applied == AcceptedOnce /\ OnlyProposed

WithStale ==
    /\ AcceptedOnce
    /\ DOMAIN proposals = {PROPOSAL.commandID, stale.commandID}
    /\ proposals[PROPOSAL.commandID] = PROPOSAL /\ proposals[stale.commandID] = stale

\* The store when the call of step s is still to be handled.
Before(s) ==
    /\ s \in Early \cup {"events", "inspect"} => Untouched
    /\ s \in {"before", "accept"} => Shown
    /\ s \in {"after", "duplicate", "stale"} => Applied
    /\ s \in {"stale-accept", "malformed"} => WithStale

\* The store when it has been.
After(s) ==
    /\ s \in Early \cup {"inspect"} => Untouched
    /\ s = "inspect" => got.pending = Server!Pending
    /\ s = "before" => Shown
    /\ s \in {"accept", "after", "duplicate"} => Applied
    /\ s \in {"stale", "stale-accept", "malformed"} => WithStale

StoreInv ==
    /\ \A c \in DOMAIN proposals : proposals[c].commandID = c
    /\ step \in Steps /\ got = None => Before(step)
    /\ step \in Asking /\ got # None => After(step)
    /\ asked \in Late => Before(asked)
    /\ result = "passed" => WithStale
    /\ OnlyTheProposalIsAccepted

\* One call at a time; a late one is handled while the driver closes.
Calling ==
    /\ step \in Asking => asked \in {None, step}
    /\ step \in {"turn", "events", "done"} => asked = None
    /\ got # None => asked = None
    /\ step \in {"turn", "events"} => got = None
    /\ step \in Steps => result = None
    /\ result = "passed" => asked = None

\* The model calls in its turn, which is over before anything is inspected.
Turns ==
    /\ step \in {"preflight", "first"} => turn = "none"
    /\ step = "turn-start" /\ got = None => turn = "none"
    /\ asked = "turn-start" => turn = "none"
    /\ step \in Late \/ asked \in Late => turn = "completed"
    /\ result = "passed" => turn = "completed"
    /\ step \in Late \cup {"turn-start", "turn"} => runTurn

RoundTripEvents ==
    \E i \in 1 .. Len(events) :
        /\ i + 1 <= Len(events)
        /\ \A j \in 1 .. Len(events) : events[j].by = "model" <=> j \in {i, i + 1}
        /\ events[i] = Event("model", "snapshot_read", None)
        /\ events[i + 1] = Event("model", "proposal_submitted", PROPOSAL.commandID)

EventsInv ==
    /\ \A i \in 1 .. Len(events) :
          /\ events[i].type = "snapshot_read" => events[i].id = None
          /\ turn = "none" => events[i].by = "driver"
    /\ step \in {"turn", "events"} \/ (step = "turn-start" /\ (asked # None \/ got # None)) =>
          cursor \in 0 .. Len(events)
            /\ \A i \in 1 .. Len(events) : events[i].by = "model" <=> i > cursor
    /\ step \in Late \ {"events"} \/ result = "passed" => RoundTripEvents

RunInv == TypeOK /\ Calling /\ Turns /\ StoreInv /\ EventsInv

----------------------------------------------------------------------------
(* What the assumptions say of the driver's three proposals.               *)

LEMMA TwoAtMost ==
  ASSUME NEW a, NEW b
  PROVE  Cardinality({a} \cup {b}) \in {1, 2}
<1>1. IsFiniteSet({a}) /\ Cardinality({a}) = 1
  BY FS_Singleton
<1>2. Cardinality({a} \cup {b}) = IF b \in {a} THEN Cardinality({a}) ELSE Cardinality({a}) + 1
  BY <1>1, FS_AddElement
<1>3. Cardinality({a} \cup {b}) = 1 \/ Cardinality({a} \cup {b}) = 2
  BY <1>1, <1>2
<1>4. QED
  BY <1>3

LEMMA Proposals ==
  /\ PROPOSAL \in Server!Proposal /\ stale \in Server!Proposal /\ empty \in Server!Raw
  /\ Server!Valid(stale) /\ ~ Server!Valid(empty)
  /\ PROPOSAL.commandID # stale.commandID
  /\ PROPOSAL.expectedRevision = 1 /\ stale.expectedRevision = 1
<1>1. PROPOSAL \in Server!Raw /\ stale \in Server!Raw /\ empty \in Server!Raw
  BY ProposalsAssumption
<1>2. PROPOSAL.commandID # stale.commandID
  <2> SUFFICES ASSUME PROPOSAL.commandID = stale.commandID
               PROVE  FALSE
    OBVIOUS
  <2>1. {PROPOSAL.commandID, stale.commandID, empty.commandID}
          = {PROPOSAL.commandID} \cup {empty.commandID}
    OBVIOUS
  <2>2. Cardinality({PROPOSAL.commandID} \cup {empty.commandID}) \in {1, 2}
    BY TwoAtMost
  <2>3. QED
    BY <2>1, <2>2, ProposalsAssumption
<1>3. PROPOSAL \in Server!Proposal /\ stale \in Server!Proposal
  BY <1>1, ProposalsAssumption, BoundsAssumption DEF Server!Raw, Server!Proposal
<1>4. Server!Valid(stale) /\ ~ Server!Valid(empty)
  BY ProposalsAssumption, TextsAssumption DEF Server!Valid
<1>5. QED
  BY <1>1, <1>2, <1>3, <1>4, ProposalsAssumption

Keyed == \A c \in DOMAIN proposals : proposals[c].commandID = c

LEMMA SubmitStores ==
  ASSUME Server!TypeOK, Keyed, NEW raw \in Server!Raw, Server!Submit(raw)
  PROVE  /\ Server!TypeOK' /\ Keyed'
         /\ UNCHANGED <<revision, scenes, accepted, inspected>>
         /\ answer'.raw = raw
         /\ \A c \in DOMAIN proposals : c \in DOMAIN proposals' /\ proposals'[c] = proposals[c]
         /\ Server!Valid(raw) /\ raw.commandID \notin DOMAIN proposals =>
               /\ DOMAIN proposals' = DOMAIN proposals \cup {raw.commandID}
               /\ proposals'[raw.commandID] = raw
         /\ ~ Server!Valid(raw) => proposals' = proposals
<1> USE DEF Server!TypeOK
<1>1. /\ proposals' = Server!Stored(raw) /\ answer'.raw = raw
      /\ answer'.kind \in {"invalid", "conflict", "pending", "failed"}
      /\ UNCHANGED <<revision, scenes, accepted, seen, inspected>>
  BY DEF Server!Submit, Server!clients
<1>2. answer' \in Server!Answer
  BY DEF Server!Submit, Server!Answer
<1>3. CASE Server!Valid(raw) /\ ~ Server!Conflicts(raw)
  <2>1. raw \in Server!Proposal /\ raw.commandID \in CommandIDs
    BY <1>3 DEF Server!Raw, Server!Proposal, Server!Valid
  <2>2. proposals' = [z \in DOMAIN proposals \cup {raw.commandID} |->
                        IF z = raw.commandID THEN raw ELSE proposals[z]]
    BY <1>1, <1>3 DEF Server!Stored, Server!With
  <2>3. \A c \in DOMAIN proposals : c = raw.commandID => proposals[c] = raw
    BY <1>3 DEF Server!Conflicts
  <2>4. /\ DOMAIN proposals' = DOMAIN proposals \cup {raw.commandID}
        /\ proposals' \in [DOMAIN proposals' -> Server!Proposal]
    BY <2>1, <2>2
  <2>5. /\ \A c \in DOMAIN proposals : proposals'[c] = proposals[c]
        /\ proposals'[raw.commandID] = raw
    BY <2>2, <2>3
  <2>6. Server!TypeOK'
    BY <1>1, <1>2, <2>1, <2>4
  <2>7. Keyed'
    BY <2>4, <2>5 DEF Keyed
  <2>8. QED
    BY <1>1, <1>3, <2>4, <2>5, <2>6, <2>7
<1>4. CASE ~ (Server!Valid(raw) /\ ~ Server!Conflicts(raw))
  <2>1. proposals' = proposals
    BY <1>1, <1>4 DEF Server!Stored
  <2>2. Server!TypeOK' /\ Keyed'
    BY <1>1, <1>2, <2>1 DEF Keyed
  <2>3. ~ (Server!Valid(raw) /\ raw.commandID \notin DOMAIN proposals)
    BY <1>4 DEF Server!Conflicts
  <2>4. QED
    BY <1>1, <2>1, <2>2, <2>3
<1>5. QED
  BY <1>3, <1>4

LEMMA AcceptStores ==
  ASSUME Server!TypeOK, NEW c \in CommandIDs, Accept(c)
  PROVE  /\ Server!TypeOK' /\ UNCHANGED <<proposals, inspected, events>>
         /\ c \in DOMAIN accepted => UNCHANGED <<revision, scenes, accepted>>
         /\ c \notin DOMAIN accepted =>
              \/ UNCHANGED <<revision, scenes, accepted>>
              \/ /\ revision' = revision + 1
                 /\ DOMAIN accepted' = DOMAIN accepted \cup {c}
                 /\ scenes' = [scenes EXCEPT ![proposals[c].sceneID] = proposals[c].replacementText]
         /\ c \in DOMAIN proposals \ DOMAIN accepted =>
              /\ proposals[c].expectedRevision = revision => revision' = revision + 1
              /\ proposals[c].expectedRevision # revision =>
                    UNCHANGED <<revision, scenes, accepted>>
<1> USE DEF Server!TypeOK
<1>1. CASE Server!AcceptAgain(c)
  <2>1. c \in DOMAIN accepted /\ answer' = [kind |-> "accepted", id |-> c, revision |-> accepted[c]]
        /\ UNCHANGED <<revision, scenes, proposals, accepted, seen, inspected, events>>
    BY <1>1 DEF Accept, Server!AcceptAgain, Server!clients
  <2>2. answer' \in Server!Answer
    BY <2>1 DEF Server!Answer
  <2>3. QED
    BY <2>1, <2>2
<1>2. CASE Server!AcceptFirst(c)
  <2>1. /\ c \notin DOMAIN accepted /\ c \in DOMAIN proposals
        /\ proposals[c].expectedRevision = revision
        /\ scenes' = [scenes EXCEPT ![proposals[c].sceneID] = proposals[c].replacementText]
        /\ revision' = revision + 1
        /\ accepted' = [z \in DOMAIN accepted \cup {c} |->
                           IF z = c THEN revision + 1 ELSE accepted[z]]
        /\ answer' = [kind |-> "accepted", id |-> c, revision |-> revision + 1]
        /\ UNCHANGED <<proposals, seen, inspected, events>>
    BY <1>2 DEF Accept, Server!AcceptFirst, Server!Current, Server!Edited, Server!With, Server!clients
  <2>2. answer' \in Server!Answer
    BY <2>1 DEF Server!Answer
  <2>3. proposals[c].replacementText \in Texts /\ proposals[c].sceneID \in Scenes
    BY <2>1 DEF Server!Proposal
  <2>4. scenes' \in [Scenes -> Texts \cup {Original}]
    BY <2>1, <2>3
  <2>5. DOMAIN accepted' = DOMAIN accepted \cup {c} /\ accepted' \in [DOMAIN accepted' -> Nat]
    BY <2>1
  <2>6. QED
    BY <2>1, <2>2, <2>4, <2>5
<1>3. CASE Server!Refuse(c)
  <2>1. /\ c \notin DOMAIN accepted
        /\ ~ (c \in DOMAIN proposals /\ proposals[c].expectedRevision = revision)
        /\ answer' = [kind |-> IF c \in DOMAIN proposals THEN "stale" ELSE "unknown", id |-> c]
        /\ UNCHANGED <<revision, scenes, proposals, accepted, seen, inspected, events>>
    BY <1>3 DEF Accept, Server!Refuse, Server!Current, Server!clients
  <2>2. answer' \in Server!Answer
    BY <2>1 DEF Server!Answer
  <2>3. QED
    BY <2>1, <2>2
<1>4. QED
  BY <1>1, <1>2, <1>3 DEF Accept

\* What the calls of the driver that change the store do at their place in the run.
LEMMA FirstAcceptance ==
  ASSUME Server!TypeOK, Shown, Accept(PROPOSAL.commandID)
  PROVE  Applied'
<1>1. PROPOSAL \in Server!Proposal /\ PROPOSAL.commandID \in CommandIDs
      /\ PROPOSAL.expectedRevision = 1
  BY Proposals DEF Server!Proposal
<1>2. /\ PROPOSAL.commandID \in DOMAIN proposals \ DOMAIN accepted
      /\ proposals[PROPOSAL.commandID] = PROPOSAL /\ revision = 1 /\ DOMAIN accepted = {}
  BY DEF Shown, Untouched, OnlyProposed
<1>3. revision' = revision + 1 /\ proposals' = proposals
  BY <1>1, <1>2, AcceptStores
<1>4. /\ DOMAIN accepted' = DOMAIN accepted \cup {PROPOSAL.commandID}
      /\ scenes' = [scenes EXCEPT ![PROPOSAL.sceneID] = PROPOSAL.replacementText]
  <2>1. revision' # revision
    BY <1>2, <1>3
  <2>2. QED
    BY <1>1, <1>2, <2>1, AcceptStores
<1>5. scenes' = [s \in Scenes |-> IF s = PROPOSAL.sceneID THEN PROPOSAL.replacementText ELSE Original]
  BY <1>4 DEF Shown, Untouched
<1>6. revision' = 2
  BY <1>2, <1>3
<1>7. OnlyProposed'
  BY <1>3 DEF Shown, OnlyProposed
<1>8. DOMAIN accepted' = {PROPOSAL.commandID}
  BY <1>2, <1>4
<1>9. QED
  BY <1>5, <1>6, <1>7, <1>8 DEF Applied, AcceptedOnce

LEMMA LaterAcceptance ==
  ASSUME Server!TypeOK,
         \/ Applied /\ Accept(PROPOSAL.commandID)
         \/ WithStale /\ Accept(stale.commandID)
  PROVE  UNCHANGED <<revision, scenes, proposals, accepted>>
<1>1. PROPOSAL.commandID \in CommandIDs /\ stale.commandID \in CommandIDs
      /\ PROPOSAL.commandID # stale.commandID /\ stale.expectedRevision = 1
  BY Proposals DEF Server!Proposal
<1>2. CASE Applied /\ Accept(PROPOSAL.commandID)
  BY <1>1, <1>2, AcceptStores DEF Applied, AcceptedOnce
<1>3. CASE WithStale /\ Accept(stale.commandID)
  BY <1>1, <1>3, AcceptStores DEF WithStale, AcceptedOnce
<1>4. QED
  BY <1>2, <1>3

LEMMA StaleStored ==
  ASSUME Server!TypeOK, Keyed, Applied, Propose("driver", stale)
  PROVE  WithStale'
<1>1. stale \in Server!Raw /\ Server!Valid(stale) /\ PROPOSAL.commandID # stale.commandID
  BY Proposals, ProposalsAssumption
<1>2. Server!Submit(stale)
  BY DEF Propose
<1>3. QED
  BY <1>1, <1>2, SubmitStores DEF Applied, AcceptedOnce, OnlyProposed, WithStale

LEMMA MalformedRefused ==
  ASSUME Server!TypeOK, Keyed, Propose("driver", empty)
  PROVE  UNCHANGED <<revision, scenes, proposals, accepted>>
BY Proposals, SubmitStores DEF Propose

\* What the driver was shown is all there is to accept.
LEMMA ShownIsPending ==
  ASSUME Server!TypeOK, Keyed, Untouched, Server!Pending = {PROPOSAL}
  PROVE  Shown
<1>1. {proposals[c] : c \in DOMAIN proposals} = {PROPOSAL}
  BY DEF Server!Pending, Untouched
<1>2. \A c \in DOMAIN proposals : proposals[c] = PROPOSAL /\ c = PROPOSAL.commandID
  BY <1>1 DEF Keyed
<1>3. DOMAIN proposals # {}
  BY <1>1
<1>4. QED
  BY <1>2, <1>3 DEF Shown, OnlyProposed

\* A call that changes the store finds it in the state the driver left it in.
LEMMA PerformStores ==
  ASSUME Server!TypeOK, Keyed, NEW s \in Asking, s \in Late => Before(s), Perform(s)
  PROVE  /\ Server!TypeOK' /\ Keyed'
         /\ s \notin {"accept", "stale"} => UNCHANGED <<revision, scenes, proposals, accepted>>
         /\ s = "inspect" => inspected'["driver"] = Server!Pending
         /\ s = "accept" => Applied'
         /\ s = "stale" => WithStale'
<1> USE DEF Snapshots, Submits, Accepts
<1>1. CASE s \in Snapshots
  <2>1. Server!Snapshot("driver")
    BY <1>1 DEF Perform, Snapshot
  <2>2. QED
    BY <1>1, <2>1 DEF Server!Snapshot, Server!TypeOK, Keyed
<1>2. CASE s = "inspect"
  <2>1. Server!Inspect("driver")
    BY <1>2 DEF Perform
  <2>2. Server!Pending \subseteq Server!Proposal
    BY DEF Server!Pending, Server!TypeOK
  <2>3. QED
    BY <1>2, <2>1, <2>2 DEF Server!Inspect, Server!TypeOK, Keyed
<1>3. CASE s \in {"preflight", "turn-start"}
  <2>1. UNCHANGED store
    BY <1>3 DEF Perform
  <2>2. QED
    BY <1>3, <2>1 DEF store, Server!TypeOK, Keyed
<1>4. CASE s = "stale"
  <2>1. Propose("driver", stale) /\ Applied
    BY <1>4 DEF Perform, Before, Late, Early, Steps, Asking
  <2>2. Server!Submit(stale) /\ stale \in Server!Raw
    BY <2>1, ProposalsAssumption DEF Propose
  <2>3. QED
    BY <1>4, <2>1, <2>2, SubmitStores, StaleStored
<1>5. CASE s = "malformed"
  <2>1. Propose("driver", empty)
    BY <1>5 DEF Perform
  <2>2. Server!Submit(empty) /\ empty \in Server!Raw
    BY <2>1, ProposalsAssumption DEF Propose
  <2>3. QED
    BY <1>5, <2>1, <2>2, SubmitStores, MalformedRefused
<1>6. CASE s \in Accepts
  <2> DEFINE c == IF s = "stale-accept" THEN stale.commandID ELSE PROPOSAL.commandID
  <2>1. Accept(c)
    BY <1>6 DEF Perform
  <2>2. c \in CommandIDs
    BY Proposals DEF Server!Proposal
  <2>3. Server!TypeOK' /\ proposals' = proposals
    BY <2>1, <2>2, AcceptStores
  <2>4. Keyed'
    BY <2>3 DEF Keyed
  <2>5. CASE s = "accept"
    <3>1. Shown /\ Accept(PROPOSAL.commandID)
      BY <2>1, <2>5 DEF Before, Late, Early, Steps, Asking
    <3>2. QED
      BY <2>3, <2>4, <2>5, <3>1, FirstAcceptance
  <2>6. CASE s \in {"duplicate", "stale-accept"}
    <3>1. \/ Applied /\ Accept(PROPOSAL.commandID)
          \/ WithStale /\ Accept(stale.commandID)
      BY <2>1, <2>6 DEF Before, Late, Early, Steps, Asking
    <3>2. QED
      BY <2>3, <2>4, <2>6, <3>1, LaterAcceptance
  <2>7. QED
    BY <1>6, <2>5, <2>6
<1>7. QED
  BY <1>1, <1>2, <1>3, <1>4, <1>5, <1>6 DEF Asking

\* What the event file has after a call of the driver or of the model.
Recorded(by) ==
    \E type \in {"snapshot_read", "proposal_submitted"}, id \in CommandIDs \cup {None} :
        /\ events' = Append(events, Event(by, type, id))
        /\ type = "snapshot_read" => id = None

LEMMA ProposeRecords ==
  ASSUME NEW by, NEW raw \in Server!Raw, Propose(by, raw)
  PROVE  events' = events \/ Recorded(by)
<1>1. raw.commandID \in CommandIDs
  BY DEF Server!Raw
<1>2. QED
  BY <1>1 DEF Propose, Recorded

LEMMA PerformRecords ==
  ASSUME NEW s \in Asking, Perform(s)
  PROVE  /\ events' = events \/ Recorded("driver")
         /\ s = "turn-start" => events' = events
<1> USE DEF Snapshots, Submits, Accepts
<1>1. CASE s \in Snapshots
  <2>1. events' = Append(events, Event("driver", "snapshot_read", None))
    BY <1>1 DEF Perform, Snapshot
  <2>2. QED
    BY <1>1, <2>1 DEF Recorded
<1>2. CASE s \in Submits
  <2>1. \E raw \in Server!Raw : Propose("driver", raw)
    BY <1>2, ProposalsAssumption DEF Perform
  <2>2. QED
    BY <1>2, <2>1, ProposeRecords
<1>3. CASE s \in Asking \ (Snapshots \cup Submits)
  BY <1>3 DEF Perform, Accept, Asking
<1>4. QED
  BY <1>1, <1>2, <1>3

----------------------------------------------------------------------------
(* The events.                                                             *)

EventRecord ==
    [by: {"driver", "model"}, type: {"snapshot_read", "proposal_submitted"},
     id: CommandIDs \cup {None}]

LEMMA RecordedProperties ==
  ASSUME NEW by \in {"driver", "model"}, events \in Seq(EventRecord), Recorded(by)
  PROVE  /\ events' \in Seq(EventRecord) /\ Len(events') = Len(events) + 1
         /\ \A i \in 1 .. Len(events) : events'[i] = events[i]
         /\ LET n == Len(events) + 1
            IN  events'[n].by = by /\ (events'[n].type = "snapshot_read" => events'[n].id = None)
<1>1. PICK type \in {"snapshot_read", "proposal_submitted"}, id \in CommandIDs \cup {None} :
          /\ events' = Append(events, Event(by, type, id))
          /\ type = "snapshot_read" => id = None
  BY DEF Recorded
<1>2. Event(by, type, id) \in EventRecord
  BY DEF Event, EventRecord
<1>3. /\ events' \in Seq(EventRecord) /\ Len(events') = Len(events) + 1
      /\ \A i \in 1 .. Len(events) : events'[i] = events[i]
      /\ events'[Len(events) + 1] = Event(by, type, id)
  BY <1>1, <1>2
<1>4. QED
  BY <1>1, <1>3 DEF Event

LEMMA RoundTripStays ==
  ASSUME events \in Seq(EventRecord), RoundTripEvents, Recorded("driver")
  PROVE  RoundTripEvents'
<1>1. PICK i \in 1 .. Len(events) :
        /\ i + 1 <= Len(events)
        /\ \A j \in 1 .. Len(events) : events[j].by = "model" <=> j \in {i, i + 1}
        /\ events[i] = Event("model", "snapshot_read", None)
        /\ events[i + 1] = Event("model", "proposal_submitted", PROPOSAL.commandID)
  BY DEF RoundTripEvents
<1>2. /\ Len(events') = Len(events) + 1 /\ Len(events) \in Nat
      /\ \A j \in 1 .. Len(events) : events'[j] = events[j]
      /\ events'[Len(events) + 1].by = "driver"
  BY RecordedProperties
<1>3. \A j \in 1 .. Len(events') : events'[j].by = "model" <=> j \in {i, i + 1}
  <2> TAKE j \in 1 .. Len(events')
  <2>1. CASE j \in 1 .. Len(events)
    BY <1>1, <1>2, <2>1
  <2>2. CASE j = Len(events) + 1
    <3>1. j # i /\ j # i + 1
      BY <1>1, <1>2, <2>2
    <3>2. QED
      BY <1>2, <2>2, <3>1
  <2>3. QED
    BY <1>2, <2>1, <2>2
<1>4. i \in 1 .. Len(events') /\ i + 1 <= Len(events') /\ i + 1 \in 1 .. Len(events)
  BY <1>1, <1>2
<1>5. /\ events'[i] = Event("model", "snapshot_read", None)
      /\ events'[i + 1] = Event("model", "proposal_submitted", PROPOSAL.commandID)
  BY <1>1, <1>2, <1>4
<1>6. QED
  BY <1>3, <1>4, <1>5 DEF RoundTripEvents, Event

\* The two events the driver asserts are the model's only ones.
LEMMA AskedIsRoundTrip ==
  ASSUME events \in Seq(EventRecord), cursor \in 0 .. Len(events),
         \A i \in 1 .. Len(events) : events[i].by = "model" <=> i > cursor,
         \A i \in 1 .. Len(events) : events[i].type = "snapshot_read" => events[i].id = None,
         AsAsked(SubSeq(events, cursor + 1, Len(events)))
  PROVE  RoundTripEvents
<1> DEFINE seq == SubSeq(events, cursor + 1, Len(events))
           i == cursor + 1
<1>1. Len(events) \in Nat /\ cursor \in Nat
  OBVIOUS
<1>2. Len(seq) = Len(events) - cursor /\ \A k \in 1 .. Len(seq) : seq[k] = events[cursor + k]
  <2>1. /\ cursor + 1 \in 1 .. Len(events) + 1 /\ Len(events) \in cursor .. Len(events)
    BY <1>1
  <2>2. QED
    BY <1>1, <2>1, SubSeqProperties
<1>3. Len(events) = cursor + 2
  BY <1>1, <1>2 DEF AsAsked
<1>4. /\ events[i].type = "snapshot_read"
      /\ events[i + 1].type = "proposal_submitted" /\ events[i + 1].id = PROPOSAL.commandID
  <2>1. seq[1] = events[cursor + 1] /\ seq[2] = events[cursor + 2]
    BY <1>1, <1>2, <1>3
  <2>2. i + 1 = cursor + 2
    BY <1>1
  <2>3. QED
    BY <2>1, <2>2 DEF AsAsked
<1>5. /\ i \in 1 .. Len(events) /\ i + 1 \in 1 .. Len(events)
      /\ i + 1 <= Len(events) /\ i > cursor /\ i + 1 > cursor
  BY <1>1, <1>3
<1>6. events[i] \in EventRecord /\ events[i + 1] \in EventRecord
  BY <1>5
<1>7. /\ events[i] = Event("model", "snapshot_read", None)
      /\ events[i + 1] = Event("model", "proposal_submitted", PROPOSAL.commandID)
  BY <1>4, <1>5, <1>6 DEF Event, EventRecord
<1>8. \A j \in 1 .. Len(events) : j > cursor <=> j \in {i, i + 1}
  BY <1>1, <1>3
<1>9. \A j \in 1 .. Len(events) : events[j].by = "model" <=> j \in {i, i + 1}
  BY <1>8
<1>10. QED
  BY <1>5, <1>7, <1>9 DEF RoundTripEvents

----------------------------------------------------------------------------
(* Each action keeps the invariant.                                        *)

LEMMA RunTypes ==
  ASSUME TypeOK
  PROVE  events \in Seq(EventRecord) /\ Len(events) \in Nat /\ Server!TypeOK
BY DEF TypeOK, EventRecord

\* Types only change with the store, the events and what a step sets.
LEMMA MoreEvents ==
  ASSUME TypeOK, NEW by \in {"driver", "model"}, events' = events \/ Recorded(by)
  PROVE  events' \in Seq(EventRecord) /\ 0 .. Len(events) \subseteq 0 .. Len(events')
<1>1. events \in Seq(EventRecord) /\ Len(events) \in Nat
  BY RunTypes
<1>2. CASE events' = events
  BY <1>1, <1>2
<1>3. CASE Recorded(by)
  <2>1. events' \in Seq(EventRecord) /\ Len(events') = Len(events) + 1
    BY <1>1, <1>3, RecordedProperties
  <2>2. QED
    BY <1>1, <2>1
<1>4. QED
  BY <1>2, <1>3

LEMMA HandleStep ==
  ASSUME RunInv, Handle
  PROVE  RunInv'
<1>1. TypeOK /\ Calling /\ Turns /\ StoreInv /\ EventsInv /\ Server!TypeOK /\ Keyed
  BY DEF RunInv, TypeOK, StoreInv, Keyed
<1>2. /\ asked # None /\ asked \in Asking /\ Perform(asked) /\ asked' = None
      /\ turn' = IF asked = "turn-start" THEN "begun" ELSE turn
      /\ UNCHANGED <<step, runTurn, cursor, result, receiptTurn>>
      /\ asked # step => got' = got
      /\ asked = step => got' = [revision |-> revision', answer |-> answer',
                                 pending |-> inspected'["driver"], scenes |-> scenes']
  BY <1>1 DEF Handle, TypeOK, receipt
<1>3. asked \in Late => Before(asked)
  BY <1>1 DEF StoreInv
<1>4. /\ Server!TypeOK' /\ Keyed'
      /\ asked \notin {"accept", "stale"} => UNCHANGED <<revision, scenes, proposals, accepted>>
      /\ asked = "inspect" => inspected'["driver"] = Server!Pending
      /\ asked = "accept" => Applied'
      /\ asked = "stale" => WithStale'
  BY <1>1, <1>2, <1>3, PerformStores
<1>4a. (asked = step => got' \in Got /\ got'.pending = inspected'["driver"] /\ got' # None)
       /\ got' \in Got \cup {None}
  <2>1. /\ revision' \in Nat /\ answer' \in Server!Answer
        /\ inspected'["driver"] \in SUBSET Server!Proposal
        /\ scenes' \in [Scenes -> Texts \cup {Original}]
    BY <1>4 DEF Server!TypeOK
  <2>2. asked = step => got' \in Got /\ got'.pending = inspected'["driver"]
    BY <1>2, <2>1 DEF Got
  <2>3. QED
    BY <1>1, <1>2, <2>2, NoneAssumption DEF TypeOK
<1>5. /\ events' = events \/ Recorded("driver")
      /\ asked = "turn-start" => events' = events
  BY <1>2, PerformRecords
<1>6. TypeOK'
  <2>1. events' \in Seq(EventRecord) /\ 0 .. Len(events) \subseteq 0 .. Len(events')
    BY <1>1, <1>5, MoreEvents
  <2>2. cursor' \in {None} \cup 0 .. Len(events')
    BY <1>1, <1>2, <2>1 DEF TypeOK
  <2>3. /\ step' \in Steps \cup {"closing", "done", "dead"} /\ asked' \in Asking \cup {None}
        /\ turn' \in {"none", "begun", "completed", "failed"}
    BY <1>1, <1>2 DEF TypeOK
  <2>4. runTurn' \in BOOLEAN
    BY <1>1, <1>2 DEF TypeOK
  <2>5. result' \in {None, "passed", "passed_before_model_turn", "failed"}
        /\ receiptTurn' \in {None, "started", "completed", "failed", "not_started",
                             "completion_not_observed"}
    BY <1>1, <1>2 DEF TypeOK
  <2>6. QED
    BY <1>4, <1>4a, <2>1, <2>2, <2>3, <2>4, <2>5 DEF TypeOK, EventRecord
<1>7. Calling'
  BY <1>1, <1>2 DEF Calling, Steps
<1>8. step \notin {"turn", "events", "done"} /\ result # "passed"
      /\ (step \in Asking => asked = step)
  BY <1>1, <1>2 DEF Calling
<1>9. Turns'
  BY <1>1, <1>2, <1>4a, <1>8, NoneAssumption
  DEF Turns, Late, Early, Steps, Asking, Snapshots, Submits, Accepts
<1>10. OnlyTheProposalIsAccepted'
  <2>1. CASE asked \in {"accept", "stale"}
    <3>1. DOMAIN accepted' = {PROPOSAL.commandID} /\ proposals'[PROPOSAL.commandID] = PROPOSAL
      BY <1>4, <2>1 DEF Applied, AcceptedOnce, OnlyProposed, WithStale
    <3>2. turn = "completed"
      BY <1>1, <2>1 DEF Turns, Late, Early, Steps, Asking, Submits, Accepts
    <3>3. QED
      BY <1>2, <2>1, <3>1, <3>2 DEF OnlyTheProposalIsAccepted
  <2>2. CASE asked \notin {"accept", "stale"}
    <3>1. DOMAIN accepted # {} => asked # "turn-start"
      BY <1>1 DEF StoreInv, OnlyTheProposalIsAccepted, Turns
    <3>2. QED
      BY <1>1, <1>2, <1>4, <2>2, <3>1 DEF StoreInv, OnlyTheProposalIsAccepted
  <2>3. QED
    BY <2>1, <2>2
<1>11. StoreInv'
  <2>1. CASE step \in Asking
    <3>1. asked = step /\ step' = step /\ asked' = None /\ got = None
      BY <1>1, <1>2, <1>8, <2>1 DEF Calling
    <3>2. Before(step)
      BY <1>1, <2>1, <3>1 DEF StoreInv, Steps
    <3>3. After(step)'
      <4>1. step = "accept" => Applied'
        BY <1>4, <3>1
      <4>2. step = "stale" => WithStale'
        BY <1>4, <3>1
      <4>3. CASE step \notin {"accept", "stale"}
        <5>1. UNCHANGED <<revision, scenes, proposals, accepted>> /\ asked = step
          BY <1>4, <3>1, <4>3
        <5>2. /\ Untouched' = Untouched /\ Shown' = Shown /\ Applied' = Applied
              /\ WithStale' = WithStale /\ Server!Pending' = Server!Pending
          BY <5>1 DEF Untouched, Shown, Applied, AcceptedOnce, OnlyProposed, WithStale, Server!Pending
        <5>3. step = "inspect" => got'.pending = Server!Pending'
          BY <1>4, <1>4a, <5>1, <5>2
        <5>4. QED
          BY <2>1, <3>1, <3>2, <4>3, <5>2, <5>3
          DEF After, Before, Early, Asking, Snapshots, Submits, Accepts
      <4>4. CASE step \in {"accept", "stale"}
        BY <3>1, <4>1, <4>2, <4>4 DEF After, Early
      <4>5. QED
        BY <4>3, <4>4
    <3>4. got' # None /\ asked' \notin Late
      BY <1>4a, <3>1, NoneAssumption DEF Late
    <3>5. QED
      BY <1>2, <1>4, <1>8, <1>10, <3>1, <3>3, <3>4 DEF StoreInv, Keyed
  <2>2. CASE step \notin Asking
    <3>1. step' \notin Steps
      BY <1>2, <1>8, <2>2 DEF Steps
    <3>2. QED
      BY <1>2, <1>4, <1>8, <1>10, <3>1, NoneAssumption DEF StoreInv, Keyed, Steps, Late
  <2>3. QED
    BY <2>1, <2>2
<1>12. EventsInv'
  <2>1. events \in Seq(EventRecord) /\ Len(events) \in Nat
    BY <1>1, RunTypes
  <2>2. CASE events' = events
    <3>1. asked # None
      BY <1>2
    <3>2. turn' = "none" => turn = "none"
      BY <1>2
    <3>3. RoundTripEvents' = RoundTripEvents
      BY <2>2 DEF RoundTripEvents, Event
    <3>4. QED
      BY <1>1, <1>2, <2>2, <3>1, <3>2, <3>3 DEF EventsInv
  <2>3. CASE Recorded("driver")
    <3> DEFINE n == Len(events) + 1
    <3>1. /\ Len(events') = n /\ \A i \in 1 .. Len(events) : events'[i] = events[i]
          /\ events'[n].by = "driver"
          /\ events'[n].type = "snapshot_read" => events'[n].id = None
      BY <2>1, <2>3, RecordedProperties
    <3>2. \A i \in 1 .. Len(events') :
             /\ events'[i].type = "snapshot_read" => events'[i].id = None
             /\ turn' = "none" => events'[i].by = "driver"
      <4> TAKE i \in 1 .. Len(events')
      <4>1. CASE i = n
        BY <3>1, <4>1
      <4>2. CASE i \in 1 .. Len(events)
        <5>1. events'[i] = events[i] /\ (turn' = "none" => turn = "none")
          BY <1>2, <3>1, <4>2
        <5>2. QED
          BY <1>1, <4>2, <5>1 DEF EventsInv
      <4>3. QED
        BY <2>1, <3>1, <4>1, <4>2
    <3>3. step # "turn-start"
      <4>1. events' # events
        BY <2>1, <3>1
      <4>2. QED
        BY <1>5, <1>8, <4>1 DEF Asking
    <3>4. step \in Late \ {"events"} => RoundTripEvents'
      BY <1>1, <2>1, <2>3, RoundTripStays DEF EventsInv
    <3>5. QED
      BY <1>2, <1>8, <3>2, <3>3, <3>4 DEF EventsInv
  <2>4. QED
    BY <1>5, <2>2, <2>3
<1>13. QED
  BY <1>6, <1>7, <1>9, <1>11, <1>12 DEF RunInv

LEMMA ModelStep ==
  ASSUME RunInv, ModelActs
  PROVE  RunInv'
<1>1. TypeOK /\ Calling /\ Turns /\ StoreInv /\ EventsInv /\ Server!TypeOK /\ Keyed
  BY DEF RunInv, TypeOK, StoreInv, Keyed
<1>2. /\ turn = "begun"
      /\ UNCHANGED <<step, asked, got, runTurn, turn, cursor, result, receiptTurn>>
  BY DEF ModelActs, receipt
<1>3. /\ step \notin Late \cup {"preflight", "first"} /\ asked \notin Late
      /\ result # "passed" /\ (step = "turn-start" => got # None)
      /\ DOMAIN accepted = {}
  BY <1>1, <1>2 DEF Turns, StoreInv, OnlyTheProposalIsAccepted
<1>4. /\ Server!TypeOK' /\ Keyed' /\ UNCHANGED <<revision, scenes, accepted>>
      /\ events' = events \/ Recorded("model")
  <2>1. CASE Snapshot("model")
    <3>1. Server!Snapshot("model") /\ events' = Append(events, Event("model", "snapshot_read", None))
      BY <2>1 DEF Snapshot
    <3>2. QED
      BY <1>1, <3>1 DEF Server!Snapshot, Server!TypeOK, Keyed, Recorded
  <2>2. CASE \E raw \in ModelProposals : Propose("model", raw)
    <3>1. PICK raw \in Server!Raw : Propose("model", raw)
      BY <2>2, ProposalsAssumption
    <3>2. Server!Submit(raw)
      BY <3>1 DEF Propose
    <3>3. QED
      BY <1>1, <3>1, <3>2, SubmitStores, ProposeRecords
  <2>3. QED
    BY <2>1, <2>2 DEF ModelActs
<1>5. TypeOK'
  <2>1. events' \in Seq(EventRecord) /\ 0 .. Len(events) \subseteq 0 .. Len(events')
    BY <1>1, <1>4, MoreEvents
  <2>2. cursor' \in {None} \cup 0 .. Len(events')
    BY <1>1, <1>2, <2>1 DEF TypeOK
  <2>3. QED
    BY <1>1, <1>2, <1>4, <2>1, <2>2 DEF TypeOK, EventRecord
<1>6. Calling' /\ Turns'
  BY <1>1, <1>2 DEF Calling, Turns
<1>7. StoreInv'
  <2>1. Untouched' = Untouched /\ OnlyTheProposalIsAccepted'
    BY <1>3, <1>4 DEF Untouched, OnlyTheProposalIsAccepted
  <2>2. step \in Steps => step \in Early
    BY <1>3 DEF Late
  <2>3. step \in Early /\ Before(step) => Before(step)'
    BY <1>2, <2>1 DEF Before, Early
  <2>4. step \in Early /\ After(step) => After(step)'
    BY <1>2, <2>1 DEF After, Early
  <2>5. QED
    BY <1>1, <1>2, <1>3, <1>4, <2>1, <2>2, <2>3, <2>4 DEF StoreInv, Keyed, Steps
<1>8. EventsInv'
  <2>1. events \in Seq(EventRecord) /\ Len(events) \in Nat
    BY <1>1, RunTypes
  <2>2. CASE events' = events
    BY <1>1, <1>2, <1>3, <2>2 DEF EventsInv
  <2>3. CASE Recorded("model")
    <3> DEFINE n == Len(events) + 1
    <3>1. /\ Len(events') = n /\ \A i \in 1 .. Len(events) : events'[i] = events[i]
          /\ events'[n].by = "model"
          /\ events'[n].type = "snapshot_read" => events'[n].id = None
      BY <2>1, <2>3, RecordedProperties
    <3>2. \A i \in 1 .. Len(events') : i = n \/ i \in 1 .. Len(events)
      BY <2>1, <3>1
    <3>3. \A i \in 1 .. Len(events') :
             events'[i].type = "snapshot_read" => events'[i].id = None
      BY <1>1, <3>1, <3>2 DEF EventsInv
    <3>4. step \in {"turn", "turn-start"} =>
             /\ cursor \in 0 .. Len(events')
             /\ \A i \in 1 .. Len(events') : events'[i].by = "model" <=> i > cursor
      <4> SUFFICES ASSUME step \in {"turn", "turn-start"}
                   PROVE  /\ cursor \in 0 .. Len(events')
                          /\ \A i \in 1 .. Len(events') : events'[i].by = "model" <=> i > cursor
        OBVIOUS
      <4>1. /\ cursor \in 0 .. Len(events)
            /\ \A i \in 1 .. Len(events) : events[i].by = "model" <=> i > cursor
        BY <1>1, <1>3 DEF EventsInv
      <4>2. n > cursor /\ cursor \in 0 .. Len(events')
        BY <2>1, <3>1, <4>1
      <4>3. QED
        BY <3>1, <3>2, <4>1, <4>2
    <3>5. step # "events"
      BY <1>3 DEF Late, Steps, Early
    <3>6. QED
      BY <1>2, <1>3, <3>3, <3>4, <3>5 DEF EventsInv
  <2>4. QED
    BY <1>4, <2>2, <2>3
<1>9. QED
  BY <1>5, <1>6, <1>7, <1>8 DEF RunInv

LEMMA TurnStep ==
  ASSUME RunInv, TurnEnds
  PROVE  RunInv'
<1>1. TypeOK /\ Calling /\ Turns /\ StoreInv /\ EventsInv
  BY DEF RunInv
<1>2. /\ turn = "begun" /\ turn' \in {"completed", "failed"}
      /\ UNCHANGED <<revision, scenes, proposals, accepted, seen, inspected, answer>>
      /\ UNCHANGED <<step, asked, got, runTurn, events, cursor, result, receiptTurn>>
  BY DEF TurnEnds, receipt, store
<1>3. /\ step \notin Late \cup {"preflight", "first"} /\ asked \notin Late \cup {"turn-start"}
      /\ result # "passed" /\ (step = "turn-start" => got # None)
      /\ DOMAIN accepted = {}
  BY <1>1, <1>2 DEF Turns, StoreInv, OnlyTheProposalIsAccepted
<1>4. TypeOK'
  BY <1>1, <1>2 DEF TypeOK, Server!TypeOK
<1>5. Calling' /\ Turns'
  BY <1>1, <1>2, <1>3 DEF Calling, Turns
<1>6. StoreInv'
  <2>1. /\ Before(step)' = Before(step) /\ After(step)' = After(step)
        /\ Before(asked)' = Before(asked)
    BY <1>2 DEF Before, After, Untouched, Shown, Applied, AcceptedOnce, OnlyProposed, WithStale,
                Server!Pending
  <2>2. QED
    BY <1>1, <1>2, <1>3, <2>1 DEF StoreInv, OnlyTheProposalIsAccepted
<1>7. EventsInv'
  BY <1>1, <1>2, <1>3 DEF EventsInv
<1>8. QED
  BY <1>4, <1>5, <1>6, <1>7 DEF RunInv

LEMMA SendStep ==
  ASSUME RunInv, Send
  PROVE  RunInv'
<1>1. TypeOK /\ Calling /\ Turns /\ StoreInv /\ EventsInv /\ Len(events) \in Nat
  BY RunTypes DEF RunInv
<1>2. /\ step \in Asking /\ asked = None /\ got = None /\ asked' = step
      /\ cursor' = IF step = "turn-start" THEN Len(events) ELSE cursor
      /\ UNCHANGED <<revision, scenes, proposals, accepted, seen, inspected, answer>>
      /\ UNCHANGED <<step, got, runTurn, turn, events, result, receiptTurn>>
  BY DEF Send, receipt, store
<1>3. TypeOK'
  BY <1>1, <1>2 DEF TypeOK, Server!TypeOK
<1>4. result # "passed" /\ step \notin {"turn", "events", "done"}
  BY <1>1, <1>2, NoneAssumption DEF Calling, Steps, Asking, Snapshots, Submits, Accepts
<1>5. Calling'
  BY <1>1, <1>2, <1>4 DEF Calling
<1>6. Turns'
  BY <1>1, <1>2, <1>4 DEF Turns
<1>7. StoreInv'
  <2>1. /\ Before(step)' = Before(step) /\ After(step)' = After(step)
    BY <1>2 DEF Before, After, Untouched, Shown, Applied, AcceptedOnce, OnlyProposed, WithStale,
                Server!Pending
  <2>2. QED
    BY <1>1, <1>2, <1>4, <2>1 DEF StoreInv, OnlyTheProposalIsAccepted, Steps
<1>8. EventsInv'
  <2>1. step = "turn-start" => \A i \in 1 .. Len(events) : events[i].by = "driver"
    BY <1>1, <1>2 DEF Turns, EventsInv
  <2>2. RoundTripEvents' = RoundTripEvents
    BY <1>2 DEF RoundTripEvents, Event
  <2>3. QED
    BY <1>1, <1>2, <1>4, <2>1, <2>2 DEF EventsInv
<1>9. QED
  BY <1>3, <1>5, <1>6, <1>7, <1>8 DEF RunInv

LEMMA FailStep ==
  ASSUME RunInv, NEW status \in {None, "started", "completed", "failed", "not_started",
                               "completion_not_observed"}, Fail(status)
  PROVE  RunInv'
<1>1. TypeOK /\ Calling /\ Turns /\ StoreInv /\ EventsInv
  BY DEF RunInv
<1>2. /\ step' = "closing" /\ got' = None /\ result' = "failed"
      /\ receiptTurn' \in {None, "started", "completed", "failed", "not_started",
                           "completion_not_observed"}
      /\ UNCHANGED <<revision, scenes, proposals, accepted, seen, inspected, answer>>
      /\ UNCHANGED <<asked, runTurn, turn, events, cursor>>
  BY DEF Fail, store
<1>3. "closing" \notin Steps
  BY DEF Steps, Asking, Snapshots, Submits, Accepts
<1>4. TypeOK'
  BY <1>1, <1>2 DEF TypeOK, Server!TypeOK
<1>5. Calling' /\ Turns'
  BY <1>1, <1>2, <1>3 DEF Calling, Turns, Steps, Late
<1>6. StoreInv'
  <2>1. Before(asked)' = Before(asked)
    BY <1>2 DEF Before, Untouched, Shown, Applied, AcceptedOnce, OnlyProposed, WithStale
  <2>2. QED
    BY <1>1, <1>2, <1>3, <2>1 DEF StoreInv, OnlyTheProposalIsAccepted, Steps
<1>7. EventsInv'
  BY <1>1, <1>2, <1>3 DEF EventsInv, Late
<1>8. QED
  BY <1>4, <1>5, <1>6, <1>7 DEF RunInv

LEMMA CloseStep ==
  ASSUME RunInv, Close
  PROVE  RunInv'
<1>1. TypeOK /\ Calling /\ Turns /\ StoreInv /\ EventsInv
  BY DEF RunInv
<1>2. /\ step' \in {"done", "dead"} /\ asked' = None
      /\ UNCHANGED <<revision, scenes, proposals, accepted, seen, inspected, answer>>
      /\ UNCHANGED <<got, runTurn, turn, events, cursor, result, receiptTurn>>
  BY DEF Close, store, receipt
<1>3. "done" \notin Steps /\ "dead" \notin Steps /\ None \notin Late /\ None # "turn-start"
  BY NoneAssumption DEF Steps, Asking, Snapshots, Submits, Accepts, Late
<1>4. TypeOK'
  BY <1>1, <1>2 DEF TypeOK, Server!TypeOK
<1>5. Calling' /\ Turns'
  BY <1>1, <1>2, <1>3 DEF Calling, Turns, Steps, Asking, Snapshots, Submits, Accepts, Late
<1>6. StoreInv'
  <2>1. WithStale' = WithStale
    BY <1>2 DEF WithStale, AcceptedOnce
  <2>2. QED
    BY <1>1, <1>2, <1>3, <2>1 DEF StoreInv, OnlyTheProposalIsAccepted, Steps
<1>7. EventsInv'
  <2>1. RoundTripEvents' = RoundTripEvents
    BY <1>2 DEF RoundTripEvents, Event
  <2>2. QED
    BY <1>1, <1>2, <1>3, <2>1 DEF EventsInv, Late
<1>8. QED
  BY <1>4, <1>5, <1>6, <1>7 DEF RunInv

LEMMA PageStep ==
  ASSUME RunInv, NextPage
  PROVE  RunInv'
<1>1. TypeOK /\ Calling /\ Turns /\ StoreInv /\ EventsInv
  BY DEF RunInv
<1>2. /\ step = "preflight" /\ got # None /\ got' = None
      /\ UNCHANGED <<revision, scenes, proposals, accepted, seen, inspected, answer>>
      /\ UNCHANGED <<step, asked, runTurn, turn, events, cursor, result, receiptTurn>>
  BY DEF NextPage, store, receipt
<1>3. TypeOK'
  BY <1>1, <1>2 DEF TypeOK, Server!TypeOK
<1>4. Calling' /\ Turns'
  BY <1>1, <1>2 DEF Calling, Turns
<1>5. StoreInv'
  <2>1. /\ Before(step)' = Before(step) /\ Before(asked)' = Before(asked)
        /\ WithStale' = WithStale
    BY <1>2 DEF Before, Untouched, Shown, Applied, AcceptedOnce, OnlyProposed, WithStale
  <2>2. After(step) => Before(step)
    BY <1>2 DEF After, Before, Early
  <2>3. QED
    BY <1>1, <1>2, <2>1, <2>2 DEF StoreInv, OnlyTheProposalIsAccepted, Asking
<1>6. EventsInv'
  <2>1. RoundTripEvents' = RoundTripEvents
    BY <1>2 DEF RoundTripEvents, Event
  <2>2. QED
    BY <1>1, <1>2, <2>1 DEF EventsInv
<1>7. QED
  BY <1>3, <1>4, <1>5, <1>6 DEF RunInv

LEMMA DeathStep ==
  ASSUME RunInv, DriverDies
  PROVE  RunInv'
<1>1. TypeOK /\ Calling /\ Turns /\ StoreInv /\ EventsInv
  BY DEF RunInv
<1>2. /\ step' = "dead" /\ got' = None
      /\ UNCHANGED <<revision, scenes, proposals, accepted, seen, inspected, answer>>
      /\ UNCHANGED <<asked, runTurn, turn, events, cursor, result, receiptTurn>>
  BY DEF DriverDies, store, receipt
<1>3. "dead" \notin Steps
  BY DEF Steps, Asking, Snapshots, Submits, Accepts
<1>4. TypeOK'
  BY <1>1, <1>2 DEF TypeOK, Server!TypeOK
<1>5. Calling' /\ Turns'
  BY <1>1, <1>2, <1>3 DEF Calling, Turns, Steps, Late
<1>6. StoreInv'
  <2>1. Before(asked)' = Before(asked) /\ WithStale' = WithStale
    BY <1>2 DEF Before, Untouched, Shown, Applied, AcceptedOnce, OnlyProposed, WithStale
  <2>2. QED
    BY <1>1, <1>2, <1>3, <2>1 DEF StoreInv, OnlyTheProposalIsAccepted, Steps
<1>7. EventsInv'
  <2>1. RoundTripEvents' = RoundTripEvents
    BY <1>2 DEF RoundTripEvents, Event
  <2>2. QED
    BY <1>1, <1>2, <1>3, <2>1 DEF EventsInv, Late
<1>8. QED
  BY <1>4, <1>5, <1>6, <1>7 DEF RunInv

\* What the driver asserts of an answer is what the next call needs of the store.
LEMMA HoldsLeadsOn ==
  ASSUME RunInv, Ready, Holds(step)
  PROVE  /\ asked = None /\ step \in Steps /\ result = None
         /\ Following(step) \in Steps => Before(Following(step))
         /\ step = "malformed" => WithStale
<1>1. TypeOK /\ Calling /\ Turns /\ StoreInv /\ Server!TypeOK /\ Keyed
  BY DEF RunInv, TypeOK, StoreInv, Keyed
<1>2. asked = None /\ step \in Steps /\ result = None
  BY <1>1 DEF Ready, Calling, Steps
<1>3. CASE step \in {"turn", "events"}
  <2>1. Untouched
    BY <1>1, <1>3 DEF Calling, StoreInv, Before, Early, Steps
  <2>2. QED
    BY <1>2, <1>3, <2>1 DEF Following, Before, Early
<1>4. CASE step \in Asking
  <2>1. After(step)
    BY <1>1, <1>4 DEF Ready, StoreInv, Asking, Snapshots, Submits, Accepts
  <2>2. CASE step = "inspect"
    <3>1. Untouched /\ Server!Pending = {PROPOSAL}
      BY <2>1, <2>2 DEF After, Holds, OnlyTheProposal
    <3>2. Shown
      BY <1>1, <3>1, ShownIsPending
    <3>3. QED
      BY <1>2, <2>2, <3>2 DEF Following, Before, Early
  <2>3. CASE step # "inspect"
    BY <1>2, <1>4, <2>1, <2>3
    DEF Following, After, Before, Early, Steps, Asking, Snapshots, Submits, Accepts
  <2>4. QED
    BY <2>2, <2>3
<1>5. QED
  BY <1>2, <1>3, <1>4 DEF Steps

LEMMA PassStep ==
  ASSUME RunInv, Ready, Holds(step), Pass
  PROVE  RunInv'
<1>1. TypeOK /\ Calling /\ Turns /\ StoreInv /\ EventsInv
  BY DEF RunInv
<1>2. /\ asked = None /\ step \in Steps /\ result = None
      /\ Following(step) \in Steps => Before(Following(step))
      /\ step = "malformed" => WithStale
  BY HoldsLeadsOn
<1>3. /\ step' = Following(step) /\ got' = None
      /\ result' = IF Following(step) # "closing" THEN result
                   ELSE IF runTurn THEN "passed" ELSE "passed_before_model_turn"
      /\ receiptTurn' = CASE step = "turn-start" -> "started"
                          [] step = "turn" -> turn
                          [] OTHER -> receiptTurn
      /\ UNCHANGED <<revision, scenes, proposals, accepted, seen, inspected, answer>>
      /\ UNCHANGED <<asked, runTurn, turn, events, cursor>>
  BY DEF Pass, store
<1>4. Following(step) \in Steps \cup {"closing"}
  BY <1>2 DEF Following, Steps, Asking, Snapshots, Submits, Accepts
<1>5. "closing" \notin Steps /\ "done" \notin Steps /\ None \notin Late \cup {"turn-start", "passed"}
  BY NoneAssumption DEF Steps, Late, Asking, Snapshots, Submits, Accepts
<1>6. TypeOK'
  <2>1. turn \in {"completed", "failed"} \/ step # "turn"
    BY DEF Ready, Asking, Snapshots, Submits, Accepts
  <2>2. receiptTurn' \in {None, "started", "completed", "failed", "not_started",
                        "completion_not_observed"}
    BY <1>1, <1>3, <2>1 DEF TypeOK
  <2>3. result' \in {None, "passed", "passed_before_model_turn", "failed"}
    BY <1>2, <1>3
  <2>4. step' \in Steps \cup {"closing", "done", "dead"}
    BY <1>3, <1>4
  <2>5. QED
    BY <1>1, <1>3, <2>2, <2>3, <2>4 DEF TypeOK, Server!TypeOK
<1>7. result' = "passed" <=> step = "malformed"
  <2>1. Following(step) = "closing" <=> (step = "malformed" \/ (step = "first" /\ ~ runTurn))
    BY <1>2 DEF Following, Steps, Asking, Snapshots, Submits, Accepts
  <2>2. step = "malformed" => runTurn
    BY <1>1 DEF Turns, Late, Early, Steps, Asking, Submits
  <2>3. QED
    BY <1>2, <1>3, <1>5, <2>1, <2>2
<1>8. Calling'
  <2>1. step' \in Steps => result' = None
    BY <1>2, <1>3, <1>5
  <2>2. QED
    BY <1>2, <1>3, <2>1 DEF Calling
<1>9. Turns'
  <2>1. step' \in {"preflight", "first", "turn-start"} => step \in {"preflight", "first"}
    BY <1>2, <1>3 DEF Following, Steps, Asking, Snapshots, Submits, Accepts
  <2>2. step' \in Late => step \in Late \/ (step = "turn" /\ turn = "completed")
    BY <1>2, <1>3, <1>5 DEF Following, Holds, Late, Early, Steps, Asking, Snapshots, Submits, Accepts
  <2>3. step' \in Late \cup {"turn-start", "turn"} => runTurn
    <3>1. step' \in {"turn-start", "turn"} => runTurn
      BY <1>1, <1>2, <1>3 DEF Turns, Following, Steps, Asking, Snapshots, Submits, Accepts
    <3>2. QED
      BY <1>1, <2>2, <3>1 DEF Turns
  <2>4. result' = "passed" => turn = "completed"
    BY <1>1, <1>7 DEF Turns, Late, Early, Steps, Asking, Submits
  <2>5. QED
    BY <1>1, <1>2, <1>3, <1>5, <2>1, <2>2, <2>3, <2>4 DEF Turns
<1>10. StoreInv'
  <2>1. step' \in Steps => Before(step)'
    <3>1. step' \in Steps => Before(Following(step))
      BY <1>2, <1>3
    <3>2. QED
      BY <1>3, <3>1 DEF Before, Untouched, Shown, Applied, AcceptedOnce, OnlyProposed, WithStale
  <2>2. WithStale' = WithStale
    BY <1>3 DEF WithStale, AcceptedOnce
  <2>3. QED
    BY <1>1, <1>2, <1>3, <1>5, <1>7, <2>1, <2>2 DEF StoreInv, OnlyTheProposalIsAccepted
<1>11. EventsInv'
  <2>1. RoundTripEvents' = RoundTripEvents
    BY <1>3 DEF RoundTripEvents, Event
  <2>2. step' = "turn" => step = "turn-start" /\ got # None
    BY <1>2, <1>3 DEF Ready, Following, Steps, Asking, Snapshots, Submits, Accepts
  <2>3. step' = "events" => step = "turn"
    BY <1>2, <1>3 DEF Following, Steps, Asking, Snapshots, Submits, Accepts
  <2>4. step' \in Late \ {"events"} => step \in Late
    BY <1>2, <1>3 DEF Following, Late, Early, Steps, Asking, Snapshots, Submits, Accepts
  <2>5. step = "events" => RoundTripEvents
    <3> SUFFICES ASSUME step = "events"
                 PROVE  RoundTripEvents
      OBVIOUS
    <3>1. /\ cursor \in 0 .. Len(events)
          /\ \A i \in 1 .. Len(events) : events[i].by = "model" <=> i > cursor
          /\ \A i \in 1 .. Len(events) : events[i].type = "snapshot_read" => events[i].id = None
      BY <1>1 DEF EventsInv
    <3>2. AsAsked(SubSeq(events, cursor + 1, Len(events)))
      BY DEF Holds
    <3>3. QED
      BY <1>1, <3>1, <3>2, RunTypes, AskedIsRoundTrip
  <2>6. step \in Late => RoundTripEvents
    BY <1>1, <2>5 DEF EventsInv
  <2>7. result' = "passed" => RoundTripEvents
    BY <1>7, <2>6 DEF Late, Early, Steps, Asking, Submits
  <2>8. step' # "turn-start" \/ (asked' = None /\ got' = None)
    BY <1>2, <1>3
  <2>9. QED
    BY <1>1, <1>3, <2>1, <2>2, <2>3, <2>4, <2>6, <2>7, <2>8 DEF EventsInv
<1>12. QED
  BY <1>6, <1>8, <1>9, <1>10, <1>11 DEF RunInv

LEMMA ProceedStep ==
  ASSUME RunInv, Proceed
  PROVE  RunInv'
<1>1. receiptTurn \in {None, "started", "completed", "failed", "not_started",
                       "completion_not_observed"}
  BY DEF RunInv, TypeOK
<1>2. CASE Holds(step)
  BY <1>2, PassStep DEF Proceed
<1>3. CASE ~ Holds(step)
  <2> DEFINE status == IF step = "turn" THEN turn ELSE receiptTurn
  <2>1. Fail(status)
    BY <1>3 DEF Proceed
  <2>2. step = "turn" => turn \in {"completed", "failed"}
    BY DEF Proceed, Ready, Asking, Snapshots, Submits, Accepts
  <2>3. status \in {None, "started", "completed", "failed", "not_started",
                   "completion_not_observed"}
    BY <1>1, <2>2
  <2> HIDE DEF status
  <2>4. QED
    BY <2>1, <2>3, FailStep
<1>4. QED
  BY <1>2, <1>3

LEMMA RunInit == Init => RunInv
<1> SUFFICES ASSUME Init
             PROVE  RunInv
  OBVIOUS
<1>1. Server!TypeOK /\ Untouched /\ Keyed
  BY DEF Init, Server!Init, Server!TypeOK, Server!Empty, Server!Answer, Untouched, Keyed
<1>2. events = <<>> /\ Len(events) = 0 /\ 1 .. Len(events) = {}
  BY DEF Init
<1>3. TypeOK
  BY <1>1, <1>2 DEF Init, TypeOK, Steps, Asking
<1>4. step = "preflight" /\ "preflight" \notin Late /\ None \notin Late
      /\ None # "turn-start" /\ None # "passed"
  BY NoneAssumption DEF Init, Late, Early, Steps, Asking
<1>5. Calling /\ Turns
  BY <1>4 DEF Init, Calling, Turns
<1>6. StoreInv
  BY <1>1, <1>4 DEF Init, StoreInv, Before, Keyed, Untouched, OnlyTheProposalIsAccepted
<1>7. EventsInv
  BY <1>2, <1>4 DEF Init, EventsInv
<1>8. QED
  BY <1>3, <1>5, <1>6, <1>7 DEF RunInv

LEMMA RunStep ==
  ASSUME RunInv, [Next]_vars
  PROVE  RunInv'
<1>1. CASE UNCHANGED vars
  <2>1. /\ UNCHANGED <<revision, scenes, proposals, accepted, seen, inspected, answer>>
        /\ UNCHANGED <<step, asked, got, runTurn, turn, events, cursor, result, receiptTurn>>
    BY <1>1 DEF vars, store, receipt
  <2>2. /\ Before(step)' = Before(step) /\ After(step)' = After(step)
        /\ Before(asked)' = Before(asked) /\ WithStale' = WithStale
    BY <2>1 DEF Before, After, Untouched, Shown, Applied, AcceptedOnce, OnlyProposed, WithStale,
                Server!Pending
  <2>3. RoundTripEvents' = RoundTripEvents
    BY <2>1 DEF RoundTripEvents, Event
  <2>4. TypeOK' /\ Calling' /\ Turns'
    BY <2>1 DEF RunInv, TypeOK, Server!TypeOK, Calling, Turns
  <2>5. StoreInv' /\ EventsInv'
    BY <2>1, <2>2, <2>3 DEF RunInv, StoreInv, OnlyTheProposalIsAccepted, EventsInv
  <2>6. QED
    BY <2>4, <2>5 DEF RunInv
<1>2. CASE GiveUp
  <2>1. receiptTurn \in {None, "started", "completed", "failed", "not_started",
                         "completion_not_observed"}
    BY DEF RunInv, TypeOK
  <2>2. QED
    BY <1>2, <2>1, FailStep DEF GiveUp
<1>3. QED
  BY <1>1, <1>2, HandleStep, ModelStep, TurnStep, SendStep, ProceedStep, PageStep, CloseStep,
     DeathStep DEF Next

----------------------------------------------------------------------------

LEMMA PassedShows ==
  ASSUME RunInv
  PROVE  OnlyTheRoundTripCounts
<1>1. TypeOK /\ OnlyTheProposalIsAccepted
  BY DEF RunInv, StoreInv
<1>2. ASSUME result = "passed"
      PROVE  /\ \E i \in DOMAIN events :
                  /\ CalledBy("model") = {i, i + 1}
                  /\ events[i] = Event("model", "snapshot_read", None)
                  /\ events[i + 1] = Event("model", "proposal_submitted", PROPOSAL.commandID)
             /\ Server!Pending = {stale} /\ WithStale
  <2>1. RoundTripEvents /\ WithStale
    BY <1>2 DEF RunInv, EventsInv, StoreInv
  <2>2. DOMAIN events = 1 .. Len(events) /\ Len(events) \in Nat
    BY RunTypes DEF RunInv
  <2>3. PICK i \in 1 .. Len(events) :
          /\ i + 1 <= Len(events)
          /\ \A j \in 1 .. Len(events) : events[j].by = "model" <=> j \in {i, i + 1}
          /\ events[i] = Event("model", "snapshot_read", None)
          /\ events[i + 1] = Event("model", "proposal_submitted", PROPOSAL.commandID)
    BY <2>1 DEF RoundTripEvents
  <2>4. i \in 1 .. Len(events) /\ i + 1 \in 1 .. Len(events)
    BY <2>2, <2>3
  <2>5. CalledBy("model") = {i, i + 1}
    BY <2>2, <2>3, <2>4 DEF CalledBy
  <2>6. Server!Pending = {stale}
    <3>1. DOMAIN proposals \ DOMAIN accepted = {stale.commandID} /\ proposals[stale.commandID] = stale
      BY <2>1, Proposals DEF WithStale, AcceptedOnce
    <3>2. QED
      BY <3>1 DEF Server!Pending
  <2>7. QED
    BY <2>1, <2>2, <2>3, <2>5, <2>6
<1>3. PassedIsTheRoundTrip
  BY <1>2 DEF PassedIsTheRoundTrip, WithStale, AcceptedOnce
<1>4. QED
  BY <1>1, <1>3 DEF OnlyTheRoundTripCounts

\* A receipt that says "passed" is of a run in which the model read the project once and
\* then proposed the edit asked for and nothing else, that edit made the one revision, and
\* of the driver's own two proposals one is pending and none accepted; and no run, however
\* it ends and however late its calls are handled, accepts another edit, whatever the
\* model proposes under whatever command ID (run-probe.mjs:180-299).
THEOREM RunsCount == Spec => []OnlyTheRoundTripCounts
<1>1. Init => RunInv
  BY RunInit
<1>2. RunInv /\ [Next]_vars => RunInv'
  BY RunStep
<1>3. RunInv => OnlyTheRoundTripCounts
  BY PassedShows
<1>4. QED
  BY <1>1, <1>2, <1>3, PTL DEF Spec
=============================================================================
