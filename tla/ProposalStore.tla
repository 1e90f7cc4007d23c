--------------------------- MODULE ProposalStore ---------------------------
(***************************************************************************)
(* The proposal store of the Codex MCP proof: proofs/codex-mcp,            *)
(* src/protocol.mjs ProposalStore behind the two channels of               *)
(* src/server.mjs.  An agent reads the project and submits edits bound to  *)
(* the revision it read, over MCP; a creator inspects the pending edits    *)
(* and accepts some, over the control socket.  The server handles one      *)
(* message at a time; what an agent or a creator has read may be stale by  *)
(* the time its next message is handled, and a message may be sent again.  *)
(***************************************************************************)
EXTENDS Naturals, Sequences, FiniteSets

CONSTANTS
    CommandIDs,   \* well-formed command IDs
    Scenes,       \* the scenes of the project
    Texts,        \* replacement texts of 1 to 160 characters, not all blank
    BadTexts,     \* texts that are empty, blank or too long
    KeyOrders,    \* orders in which a client may write the four fields
    Original,     \* the sentence a scene starts with
    Agents,       \* MCP calls that read before they write
    Creators,     \* connections of the control socket
    MaxRevision   \* bound on the revisions agents submit against

ASSUME TextsAssumption == /\ Texts \cap BadTexts = {}
                          /\ Original \notin Texts \cup BadTexts
ASSUME BoundAssumption == MaxRevision \in Nat

\* A submitted object.  Its fields are compared as JSON text, so the order in
\* which they were written is part of it.
Raw == [commandID: CommandIDs, expectedRevision: 0 .. MaxRevision,
        sceneID: Scenes, replacementText: Texts \cup BadTexts,
        order: KeyOrders]

Proposal == [commandID: CommandIDs, expectedRevision: 1 .. MaxRevision,
             sceneID: Scenes, replacementText: Texts, order: KeyOrders]

VARIABLES
    revision, scenes,   \* #project
    proposals,          \* #proposals: command ID to proposal
    accepted,           \* #accepted: command ID to the revision it made
    seen,               \* revision each agent has read, 0 before it has
    inspected,          \* proposals each creator was shown
    answer              \* the response just written

clients == <<seen, inspected>>
vars == <<revision, scenes, proposals, accepted, clients, answer>>

Empty == [c \in {} |-> 0]

\* f with x mapped to y, as Map.set does.
With(f, x, y) == [z \in DOMAIN f \cup {x} |-> IF z = x THEN y ELSE f[z]]

Answer == [kind: {"none"}]
            \cup [kind: {"pending", "conflict", "invalid", "failed"},
                  raw: Raw]
            \cup [kind: {"accepted"}, id: CommandIDs, revision: Nat]
            \cup [kind: {"stale", "unknown"}, id: CommandIDs]

TypeOK ==
    /\ revision \in Nat \ {0}
    /\ scenes \in [Scenes -> Texts \cup {Original}]
    /\ DOMAIN proposals \subseteq CommandIDs
    /\ proposals \in [DOMAIN proposals -> Proposal]
    /\ DOMAIN accepted \subseteq CommandIDs
    /\ accepted \in [DOMAIN accepted -> Nat]
    /\ seen \in [Agents -> Nat]
    /\ inspected \in [Creators -> SUBSET Proposal]
    /\ answer \in Answer

Init ==
    /\ revision = 1
    /\ scenes = [s \in Scenes |-> Original]
    /\ proposals = Empty
    /\ accepted = Empty
    /\ seen = [a \in Agents |-> 0]
    /\ inspected = [k \in Creators |-> {}]
    /\ answer = [kind |-> "none"]

----------------------------------------------------------------------------

\* getPending.
Pending == {proposals[c] : c \in DOMAIN proposals \ DOMAIN accepted}

\* takeform_snapshot.
Snapshot(a) ==
    /\ seen' = [seen EXCEPT ![a] = revision]
    /\ UNCHANGED <<revision, scenes, proposals, accepted, inspected, answer>>

\* The control action "inspect".
Inspect(k) ==
    /\ inspected' = [inspected EXCEPT ![k] = Pending]
    /\ UNCHANGED <<revision, scenes, proposals, accepted, seen, answer>>

\* parseProposal.
Valid(raw) == raw.expectedRevision >= 1 /\ raw.replacementText \in Texts

\* Mutant: a command ID is taken over by the last proposal that uses it.
MutConflicts(raw) == FALSE

\* The command ID is known and its JSON text is another.
Conflicts(raw) ==
    raw.commandID \in DOMAIN proposals /\ proposals[raw.commandID] # raw

\* The map after submit: a refusal stores nothing.
Stored(raw) ==
    IF Valid(raw) /\ ~ Conflicts(raw)
    THEN With(proposals, raw.commandID, raw)
    ELSE proposals

\* takeform_propose_edit.  The event is recorded after the proposal is stored:
\* when writing the record throws, the agent gets an error all the same.
Submit(raw) ==
    /\ proposals' = Stored(raw)
    /\ \E kind \in CASE ~ Valid(raw)                     -> {"invalid"}
                    [] Valid(raw) /\ Conflicts(raw)     -> {"conflict"}
                    [] Valid(raw) /\ ~ Conflicts(raw)   -> {"pending", "failed"} :
         answer' = [kind |-> kind, raw |-> raw]
    /\ UNCHANGED <<revision, scenes, accepted, clients>>

\* Mutant: the revision is not compared.
MutCurrent(c) == c \in DOMAIN proposals

\* The proposal exists and was written against the present revision.
Current(c) ==
    /\ c \in DOMAIN proposals
    /\ proposals[c].expectedRevision = revision

Edited(p) == [scenes EXCEPT ![p.sceneID] = p.replacementText]

\* The control action "accept" for a command accepted before.
AcceptAgain(c) ==
    /\ c \in DOMAIN accepted
    /\ answer' = [kind |-> "accepted", id |-> c, revision |-> accepted[c]]
    /\ UNCHANGED <<revision, scenes, proposals, accepted, clients>>

AcceptFirst(c) ==
    /\ c \notin DOMAIN accepted
    /\ Current(c)
    /\ scenes' = Edited(proposals[c])
    /\ revision' = revision + 1
    /\ accepted' = With(accepted, c, revision + 1)
    /\ answer' = [kind |-> "accepted", id |-> c, revision |-> revision + 1]
    /\ UNCHANGED <<proposals, clients>>

\* Mutant: a refusal is also what a command accepted before gets.
MutRefuse(c) ==
    /\ ~ Current(c)
    /\ answer' = [kind |-> IF c \in DOMAIN proposals THEN "stale" ELSE "unknown",
                  id |-> c]
    /\ UNCHANGED <<revision, scenes, proposals, accepted, clients>>

Refuse(c) ==
    /\ c \notin DOMAIN accepted
    /\ ~ Current(c)
    /\ answer' = [kind |-> IF c \in DOMAIN proposals THEN "stale" ELSE "unknown",
                  id |-> c]
    /\ UNCHANGED <<revision, scenes, proposals, accepted, clients>>

----------------------------------------------------------------------------

\* What an agent writes: a new proposal against the revision it read, as long
\* as that is within the bound.
Writes(a) ==
    {raw \in Raw : raw.expectedRevision = seen[a]}

\* A message that is sent again: a proposal stored before.
Resent == {proposals[c] : c \in DOMAIN proposals}

Next ==
    \/ \E a \in Agents : Snapshot(a)
    \/ \E k \in Creators : Inspect(k)
    \/ \E a \in Agents : \E raw \in Writes(a) \cup Resent : Submit(raw)
    \/ \E c \in CommandIDs : AcceptAgain(c) \/ AcceptFirst(c) \/ Refuse(c)

Spec == Init /\ [][Next]_vars

----------------------------------------------------------------------------
(* Properties.                                                             *)

\* The command that made revision n, for a map of accepted commands.
MadeBy(made, n) == CHOOSE c \in DOMAIN made : made[c] = n

\* The accepted proposals in the order of the revisions they made.
History == [i \in 1 .. (revision - 1) |-> proposals[MadeBy(accepted, i + 1)]]

\* The store implements the project history: acceptance compares and swaps the
\* revision, once per command, whatever was read, sent again or sent late.
Promise == INSTANCE ProjectHistory WITH history <- History

ImplementsHistory == Promise!Spec

\* A scene reads as the last accepted proposal about it says, or as it was at
\* first (accept edits one scene and nothing else touches any).
ScenesFollowHistory ==
    \A s \in Scenes :
        LET about == {i \in 1 .. (revision - 1) : History[i].sceneID = s}
        IN \/ about = {} /\ scenes[s] = Original
           \/ \E i \in about : /\ \A j \in about : j <= i
                               /\ scenes[s] = History[i].replacementText

\* What a creator was shown under a command ID is what acceptance of that ID
\* applies, however long ago it was shown: a proposal is never replaced.
InspectedIsWhatCounts ==
    \A k \in Creators : \A p \in inspected[k] :
        /\ p.commandID \in DOMAIN proposals
        /\ proposals[p.commandID] = p

\* A retried acceptance gets the first answer: it is never told that its own
\* edit has made it stale.
RetriedAcceptSucceeds ==
    /\ answer.kind \in {"stale", "unknown"} => answer.id \notin DOMAIN accepted
    /\ answer.kind = "accepted" => /\ answer.id \in DOMAIN accepted
                                   /\ accepted[answer.id] = answer.revision
=============================================================================
