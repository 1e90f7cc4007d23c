--------------------------------- MODULE ProbeRun ---------------------------------
(***************************************************************************)
(* One run of proofs/codex-mcp/scripts/run-probe.mjs against a proposal    *)
(* store (ProposalStore): the driver asks the app-server for a model turn, *)
(* reads in the event file what the model has called, and plays the        *)
(* creator over the control socket.  Every call may time out or fail,      *)
(* before or after the other side has handled it.                          *)
(*                                                                         *)
(* Abstracted: the preflight is one call that fails, brings another page   *)
(* to ask for or succeeds; the model's calls are those that were approved  *)
(* (TurnApproval); a server that does not answer is one whose answer the   *)
(* driver gives up waiting for.                                            *)
(***************************************************************************)
EXTENDS Naturals, Sequences, FiniteSets

CONSTANTS
    CommandIDs, Scenes, Texts, BadTexts, Original,
    PROPOSAL,        \* the proposal the model is asked for
    stale,           \* the driver's own proposal against the revision before
    empty,           \* the driver's proposal with a blank text
    ModelProposals,  \* what the model may propose
    MaxRevision,     \* bound on the revisions the model proposes against
    MaxCalls,        \* bound on the model's calls
    None

ASSUME TextsAssumption == Texts \cap BadTexts = {}
ASSUME BoundsAssumption == MaxRevision \in Nat /\ MaxCalls \in Nat

VARIABLES
    revision, scenes, proposals, accepted, seen, inspected, answer,  \* the store
    step,         \* where the driver is: a step, "closing", "done" or "dead"
    asked,        \* None or the step whose call has not been handled
    got,          \* None or what the awaited call has brought
    runTurn,      \* --turn
    turn,         \* the app-server's turn: "none", "begun", "completed", "failed"
    events,       \* the event file
    cursor,       \* modelEventCursor
    result,       \* receipt.result
    receiptTurn   \* receipt.turn.status

store == <<revision, scenes, proposals, accepted, seen, inspected, answer>>
receipt == <<result, receiptTurn>>
vars == <<store, step, asked, got, runTurn, turn, events, cursor, receipt>>

Server == INSTANCE ProposalStore
    WITH KeyOrders <- {PROPOSAL.order}, Agents <- {"driver", "model"},
         Creators <- {"driver"}

ASSUME ProposalsAssumption ==
    /\ {PROPOSAL, stale, empty} \cup ModelProposals \subseteq Server!Raw
    /\ PROPOSAL.expectedRevision = 1 /\ stale.expectedRevision = 1
    /\ PROPOSAL.replacementText \in Texts /\ stale.replacementText \in Texts
    /\ empty.replacementText \in BadTexts
    /\ Cardinality({PROPOSAL.commandID, stale.commandID, empty.commandID}) = 3

Snapshots == {"first", "before", "after"}
Submits == {"stale", "malformed"}
Accepts == {"accept", "duplicate", "stale-accept"}
\* The steps that are calls; "turn" waits for turn/completed, "events" is local.
Asking == Snapshots \cup Submits \cup Accepts \cup {"preflight", "turn-start", "inspect"}
Steps == Asking \cup {"turn", "events"}

\* What a call brings: the store's answer, or what the event file and inspection show.
Got == [revision: Nat, answer: Server!Answer, pending: SUBSET Server!Proposal,
        scenes: [Scenes -> Texts \cup {Original}]]

ASSUME NoneAssumption ==
    None \notin Steps \cup {"passed", "passed_before_model_turn", "failed"} \cup Got

Following(s) ==
    CASE s = "preflight" -> "first"
      [] s = "first"     -> IF runTurn THEN "turn-start" ELSE "closing"
      [] s = "turn-start" -> "turn"
      [] s = "turn"      -> "events"
      [] s = "events"    -> "inspect"
      [] s = "inspect"   -> "before"
      [] s = "before"    -> "accept"
      [] s = "accept"    -> "after"
      [] s = "after"     -> "duplicate"
      [] s = "duplicate" -> "stale"
      [] s = "stale"     -> "stale-accept"
      [] s = "stale-accept" -> "malformed"
      [] s = "malformed" -> "closing"

Init ==
    /\ Server!Init
    /\ step = "preflight" /\ asked = None /\ got = None
    /\ runTurn \in BOOLEAN
    /\ turn = "none" /\ events = <<>> /\ cursor = None
    /\ result = None /\ receiptTurn = None

----------------------------------------------------------------------------------
(* The server and the model.                                                  *)

Event(by, type, id) == [by |-> by, type |-> type, id |-> id]

\* Handling a call records its event; a proposal that is refused has none.
Snapshot(by) ==
    /\ Server!Snapshot(by)
    /\ events' = Append(events, Event(by, "snapshot_read", None))

Propose(by, raw) ==
    /\ Server!Submit(raw)
    /\ events' = IF answer'.kind = "pending"
                 THEN Append(events, Event(by, "proposal_submitted", raw.commandID)) ELSE events

Accept(c) ==
    /\ Server!AcceptAgain(c) \/ Server!AcceptFirst(c) \/ Server!Refuse(c)
    /\ UNCHANGED events

Perform(s) ==
    CASE s \in Snapshots -> Snapshot("driver")
      [] s = "stale" -> Propose("driver", stale)
      [] s = "malformed" -> Propose("driver", empty)
      [] s = "stale-accept" -> Accept(stale.commandID)
      [] s \in {"accept", "duplicate"} -> Accept(PROPOSAL.commandID)
      [] s = "inspect" -> Server!Inspect("driver") /\ UNCHANGED events
      [] s \in {"preflight", "turn-start"} -> UNCHANGED <<store, events>>

\* The call is handled while the driver waits, or after it has given up.
Handle ==
    /\ asked # None
    /\ Perform(asked)
    /\ turn' = IF asked = "turn-start" THEN "begun" ELSE turn
    /\ got' = IF asked = step
              THEN [revision |-> revision', answer |-> answer', pending |-> inspected'["driver"],
                    scenes |-> scenes']
              ELSE got
    /\ asked' = None
    /\ UNCHANGED <<step, runTurn, cursor, receipt>>

ModelCalls == Cardinality({i \in DOMAIN events : events[i].by = "model"})

ModelActs ==
    /\ turn = "begun" /\ step # "done" /\ ModelCalls < MaxCalls
    /\ Snapshot("model") \/ \E raw \in ModelProposals : Propose("model", raw)
    /\ UNCHANGED <<step, asked, got, runTurn, turn, cursor, receipt>>

TurnEnds ==
    /\ turn = "begun"
    /\ turn' \in {"completed", "failed"}
    /\ UNCHANGED <<store, step, asked, got, runTurn, events, cursor, receipt>>

----------------------------------------------------------------------------------
(* The driver.                                                                *)

Send ==
    /\ step \in Asking /\ asked = None /\ got = None
    /\ asked' = step
    /\ cursor' = IF step = "turn-start" THEN Len(events) ELSE cursor
    /\ UNCHANGED <<store, step, got, runTurn, turn, events, receipt>>

AsAsked(seq) ==
    /\ Len(seq) = 2
    /\ seq[1].type = "snapshot_read"
    /\ seq[2].type = "proposal_submitted" /\ seq[2].id = PROPOSAL.commandID

\* Mutant: any pending proposal will do.
MutAnyPending(pending) == pending # {}

OnlyTheProposal(pending) == pending = {PROPOSAL}

\* The assertions on what a step has brought.
Holds(s) ==
    CASE s = "first" -> got.revision = 1
      [] s = "inspect" -> OnlyTheProposal(got.pending) /\ got.revision = 1
      [] s = "before" -> got.revision = 1
      [] s \in {"accept", "duplicate"} ->
            got.answer = [kind |-> "accepted", id |-> PROPOSAL.commandID, revision |-> 2]
      [] s = "after" -> /\ got.revision = 2
                        /\ got.scenes[PROPOSAL.sceneID] = PROPOSAL.replacementText
      [] s = "stale-accept" -> got.answer.kind = "stale"
      [] s = "malformed" -> got.answer.kind = "invalid"
      [] s = "turn" -> turn = "completed"
      [] s = "events" -> AsAsked(SubSeq(events, cursor + 1, Len(events)))
      [] OTHER -> TRUE

\* The catch: of a turn whose id is not known the receipt says that it was not started.
Fail(status) ==
    /\ step' = "closing" /\ got' = None
    /\ result' = "failed"
    /\ receiptTurn' = CASE status = None -> "not_started"
                        [] status = "started" -> "completion_not_observed"
                        [] OTHER -> status
    /\ UNCHANGED <<store, asked, runTurn, turn, events, cursor>>

Pass ==
    /\ step' = Following(step) /\ got' = None
    /\ result' = IF Following(step) # "closing" THEN result
                 ELSE IF runTurn THEN "passed" ELSE "passed_before_model_turn"
    /\ receiptTurn' = CASE step = "turn-start" -> "started"
                        [] step = "turn" -> turn
                        [] OTHER -> receiptTurn
    /\ UNCHANGED <<store, asked, runTurn, turn, events, cursor>>

\* The answer has come, or turn/completed, or the event file is read.
Ready ==
    \/ step \in Asking /\ got # None
    \/ step = "turn" /\ turn \in {"completed", "failed"}
    \/ step = "events"

Proceed ==
    /\ Ready
    /\ IF Holds(step) THEN Pass ELSE Fail(IF step = "turn" THEN turn ELSE receiptTurn)

\* Mutant: the wait for the turn has no limit.
MutNoTurnLimit == step \in Asking

\* A timeout or an error of the call; the call may still be handled.
Limited == step \in Asking \cup {"turn"}

GiveUp == Limited /\ Fail(receiptTurn)

\* listAll: the page has a nextCursor and another one is asked for, as often as
\* the server returns one.
NextPage ==
    /\ step = "preflight" /\ got # None
    /\ got' = None
    /\ UNCHANGED <<store, step, asked, runTurn, turn, events, cursor, receipt>>

\* The finally block: the app-server is closed, and with it the store, and the
\* receipt is written, or writing it throws and the driver is gone without one.
Close ==
    /\ step = "closing"
    /\ step' \in {"done", "dead"} /\ asked' = None
    /\ UNCHANGED <<store, got, runTurn, turn, events, cursor, receipt>>

\* An exception outside of every call, from a line that is null or from a write to a
\* child that has died: neither the catch nor the finally runs, and the app-server
\* and what it has been asked are left to themselves.
DriverDies ==
    /\ step \notin {"done", "dead"}
    /\ step' = "dead" /\ got' = None
    /\ UNCHANGED <<store, asked, runTurn, turn, events, cursor, receipt>>

Next == \/ Handle \/ ModelActs \/ TurnEnds
        \/ Send \/ Proceed \/ GiveUp \/ NextPage \/ Close \/ DriverDies

Spec == Init /\ [][Next]_vars

\* The driver runs on and its timers fire; the others need not answer.
FairSpec == Spec /\ WF_vars(Send \/ Proceed \/ GiveUp \/ Close)

----------------------------------------------------------------------------------
(* Properties *)

TypeOK ==
    /\ Server!TypeOK
    /\ step \in Steps \cup {"closing", "done", "dead"}
    /\ asked \in Asking \cup {None}
    /\ got \in Got \cup {None}
    /\ runTurn \in BOOLEAN
    /\ turn \in {"none", "begun", "completed", "failed"}
    /\ events \in Seq([by: {"driver", "model"}, type: {"snapshot_read", "proposal_submitted"},
                       id: CommandIDs \cup {None}])
    /\ cursor \in {None} \cup 0 .. Len(events)
    /\ result \in {None, "passed", "passed_before_model_turn", "failed"}
    /\ receiptTurn \in {None, "started", "completed", "failed", "not_started",
                        "completion_not_observed"}

CalledBy(who) == {i \in DOMAIN events : events[i].by = who}

\* "A successful model proof requires exactly two post-cursor events in order" and
\* shows the round trip (REPORT.md:31, 42): after a run that passed, the model has read
\* the project once and then proposed the edit once, the edit is the project's one
\* revision, and of the driver's own proposals one is pending and none is accepted.
PassedIsTheRoundTrip ==
    result = "passed" =>
        /\ \E i \in DOMAIN events :
              /\ CalledBy("model") = {i, i + 1}
              /\ events[i] = Event("model", "snapshot_read", None)
              /\ events[i + 1] = Event("model", "proposal_submitted", PROPOSAL.commandID)
        /\ revision = 2 /\ DOMAIN accepted = {PROPOSAL.commandID}
        /\ proposals[PROPOSAL.commandID] = PROPOSAL
        /\ \A s \in Scenes : scenes[s] =
              IF s = PROPOSAL.sceneID THEN PROPOSAL.replacementText ELSE Original
        /\ Server!Pending = {stale}

\* In every run, also in one that fails and whose acceptance is handled after the driver
\* gave up on it, nothing but the proposal asked for is ever accepted: a model that
\* proposes another edit under the same command ID, or others with it, changes nothing
\* (run-probe.mjs:221-238).
OnlyTheProposalIsAccepted ==
    DOMAIN accepted # {} =>
        /\ DOMAIN accepted = {PROPOSAL.commandID}
        /\ proposals[PROPOSAL.commandID] = PROPOSAL
        /\ turn = "completed"

\* No run waits for ever for a server or a model that is silent: it ends, with the
\* app-server closed and a receipt that has a result unless the driver itself has died
\* (run-probe.mjs:31-48, 215, 301-310); the exception is a server that returns a
\* nextCursor with every page of a list, without end (run-probe.mjs:81-90).
RunsEnd ==
    \/ <>(step = "dead" \/ (step = "done" /\ result # None))
    \/ []<><<NextPage>>_vars

\* A passed run shows the round trip, and no run accepts anything else.
OnlyTheRoundTripCounts ==
    TypeOK /\ PassedIsTheRoundTrip /\ OnlyTheProposalIsAccepted
==================================================================================
