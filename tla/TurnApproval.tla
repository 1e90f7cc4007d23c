--------------------------- MODULE TurnApproval ---------------------------
(***************************************************************************)
(* The approval of tool calls in a model turn: proofs/codex-mcp,           *)
(* mcpToolApprovalPolicy and #answerServerRequest of                       *)
(* src/app-server-client.mjs, and the driver scripts/run-probe.mjs that    *)
(* tells the policy which turn is active.  The driver learns the turn from *)
(* the answer to turn/start, in a continuation that runs after the event   *)
(* which brought it: requests that follow the answer closely are judged    *)
(* before the driver knows the turn they belong to.                        *)
(***************************************************************************)
EXTENDS Naturals, Sequences

CONSTANTS
    Params,           \* tool parameters
    Calls,            \* the parameters of the calls to be approved, in order
    MaxTurns,         \* bound on the turns
    MaxAsks,          \* bound on the requests for approval
    MaxEvaluations    \* how many evaluations the diagnostics keep, 8

ASSUME CallsAssumption == Calls \in Seq(Params)
ASSUME ApprovalBounds ==
    MaxTurns \in Nat /\ MaxAsks \in Nat /\ MaxEvaluations \in Nat

Turns == 1 .. MaxTurns

\* A request for approval: the turn it names, its parameters, and whether all
\* else about it (method, server, thread, mode, kind, schema) is as expected.
Ask == [type: {"ask"}, turn: Turns, params: Params, exact: BOOLEAN]

TurnLine == Ask \cup [type: {"started", "completed"}, turn: Turns]

VARIABLES
    phase,         \* the driver: "idle", "starting", "running", "failed"
    started,       \* turns it has asked for
    resolved,      \* turn whose answer has arrived while the driver has not
                   \* run on, 0 for none
    turnId,        \* turnId, 0 for null
    completed,     \* turns whose completion has been received
    begun,         \* turns the app-server has begun
    replied,       \* turns whose turn/start it has answered
    asks,          \* requests for approval it has written
    lines,         \* its lines, not yet received
    nextCall,      \* nextCall, from 1
    activeKey,     \* activeKey, 0 for null
    evaluations,   \* the evaluations kept for diagnostics
    approved       \* what has been approved in each turn

driver == <<phase, started, turnId>>
server == <<begun, replied, asks>>
policy == <<nextCall, activeKey, evaluations, approved>>
approvalVars == <<driver, resolved, completed, server, lines, policy>>

Evaluation == [sequence: Nat, approved: BOOLEAN]

ApprovalTypeOK ==
    /\ phase \in {"idle", "starting", "running", "failed"}
    /\ started \in 0 .. MaxTurns
    /\ resolved \in 0 .. MaxTurns
    /\ turnId \in 0 .. MaxTurns
    /\ completed \subseteq Turns
    /\ begun \in 0 .. MaxTurns
    /\ replied \in 0 .. MaxTurns
    /\ asks \in 0 .. MaxAsks
    /\ lines \in Seq(TurnLine)
    /\ nextCall \in Nat \ {0}
    /\ activeKey \in 0 .. MaxTurns
    /\ evaluations \in Seq(Evaluation)
    /\ Len(evaluations) <= MaxEvaluations
    /\ approved \in [Turns -> Seq(Params)]

ApprovalInit ==
    /\ phase = "idle" /\ started = 0 /\ resolved = 0 /\ turnId = 0
    /\ completed = {}
    /\ begun = 0 /\ replied = 0 /\ asks = 0
    /\ lines = <<>>
    /\ nextCall = 1 /\ activeKey = 0 /\ evaluations = <<>>
    /\ approved = [t \in Turns |-> <<>>]

----------------------------------------------------------------------------
(* The driver.                                                             *)

\* turn/start is sent, when the turn before is over.
StartTurn ==
    /\ phase = "idle" /\ started < MaxTurns
    /\ phase' = "starting" /\ started' = started + 1
    /\ UNCHANGED <<turnId, resolved, completed, server, lines, policy>>

\* The driver runs on with the answer to turn/start.
Continue ==
    /\ resolved # 0
    /\ turnId' = resolved /\ phase' = "running" /\ resolved' = 0
    /\ UNCHANGED <<started, completed, server, lines, policy>>

\* turn/start times out: the driver goes on to close.
StartFails ==
    /\ phase = "starting" /\ resolved = 0
    /\ phase' = "failed"
    /\ UNCHANGED <<started, turnId, resolved, completed, server, lines, policy>>

\* The completion the driver waits for is there.
TurnOver ==
    /\ phase = "running" /\ turnId \in completed
    /\ phase' = "idle"
    /\ UNCHANGED <<started, turnId, resolved, completed, server, lines, policy>>

----------------------------------------------------------------------------
(* The app-server.                                                         *)

Begin ==
    /\ begun < started
    /\ begun' = begun + 1
    /\ UNCHANGED <<driver, resolved, completed, replied, asks, lines, policy>>

ReplyStarted ==
    /\ replied < begun
    /\ replied' = replied + 1
    /\ lines' = Append(lines, [type |-> "started", turn |-> replied + 1])
    /\ UNCHANGED <<driver, resolved, completed, begun, asks, policy>>

\* It asks for approval in a turn it has begun, before or after its answer to
\* turn/start, and may still ask in an earlier one.
AskApproval(ask) ==
    /\ ask.turn <= begun /\ asks < MaxAsks
    /\ asks' = asks + 1
    /\ lines' = Append(lines, ask)
    /\ UNCHANGED <<driver, resolved, completed, begun, replied, policy>>

Complete(t) ==
    /\ t = begun /\ t \notin completed
    /\ \A n \in 1 .. Len(lines) : lines[n] # [type |-> "completed", turn |-> t]
    /\ lines' = Append(lines, [type |-> "completed", turn |-> t])
    /\ UNCHANGED <<driver, resolved, completed, server, policy>>

----------------------------------------------------------------------------
(* The policy.                                                             *)

\* Mutant: the sequence starts over only once.
MutNewTurn == turnId # 0 /\ activeKey = 0

\* The active turn is another than at the last evaluation.
NewTurn == turnId # 0 /\ turnId # activeKey

\* Position of the call that is expected now.
Expected == IF NewTurn THEN 1 ELSE nextCall

\* Mutant: the parameters may be those of any call of the sequence.
MutApproves(ask) ==
    /\ turnId # 0 /\ ask.turn = turnId /\ ask.exact
    /\ \E n \in 1 .. Len(Calls) : ask.params = Calls[n]

\* Every check holds.
Approves(ask) ==
    /\ turnId # 0 /\ ask.turn = turnId /\ ask.exact
    /\ Expected <= Len(Calls)
    /\ ask.params = Calls[Expected]

Recent(s) == SubSeq(s, IF Len(s) > MaxEvaluations THEN 2 ELSE 1, Len(s))

\* A request for approval is judged and answered.
Judge(ask) ==
    /\ activeKey' = IF NewTurn THEN turnId ELSE activeKey
    /\ nextCall' = IF Approves(ask) THEN Expected + 1 ELSE Expected
    /\ evaluations' =
         Recent(Append(evaluations, [sequence |-> Len(evaluations) + 1,
                                     approved |-> Approves(ask)]))
    /\ approved' =
         IF Approves(ask)
         THEN [approved EXCEPT ![ask.turn] = Append(@, ask.params)]
         ELSE approved

\* #receive: the answer to turn/start resolves it unless it has timed out, a
\* completion is buffered, a request is answered on the spot.
ReceiveLine ==
    /\ lines # <<>>
    /\ lines' = Tail(lines)
    /\ LET line == Head(lines)
       IN  \/ /\ line.type = "started"
              /\ resolved' = IF phase = "starting" THEN line.turn ELSE resolved
              /\ UNCHANGED <<completed, policy>>
           \/ /\ line.type = "completed"
              /\ completed' = completed \cup {line.turn}
              /\ UNCHANGED <<resolved, policy>>
           \/ /\ line.type = "ask"
              /\ Judge(line)
              /\ UNCHANGED <<resolved, completed>>
    /\ UNCHANGED <<driver, server>>

----------------------------------------------------------------------------

ApprovalNext ==
    \/ StartTurn
    \/ Continue
    \/ StartFails
    \/ TurnOver
    \/ Begin
    \/ ReplyStarted
    \/ \E ask \in Ask : AskApproval(ask)
    \/ \E t \in Turns : Complete(t)
    \/ ReceiveLine

ApprovalSpec == ApprovalInit /\ [][ApprovalNext]_approvalVars

----------------------------------------------------------------------------
(* Properties.                                                             *)

\* In every turn the approvals are a beginning of the expected calls: none is
\* repeated, none comes out of order, none is invented, however requests of
\* several turns arrive mixed.
ApprovedInSequence ==
    \A t \in Turns :
        /\ Len(approved[t]) <= Len(Calls)
        /\ \A n \in 1 .. Len(approved[t]) : approved[t][n] = Calls[n]

\* The first request, when the driver knows its turn, that asks for the next
\* call of that turn is approved: what other turns were granted or refused
\* before, and refusals in this turn, do not count against it.
NextCallApproved ==
    [][\A ask \in Ask :
          /\ lines # <<>> /\ lines' = Tail(lines) /\ ask = Head(lines)
          /\ ask.turn = turnId /\ ask.exact
          /\ Len(approved[turnId]) < Len(Calls)
          /\ ask.params = Calls[Len(approved[turnId]) + 1]
          => approved' = [approved EXCEPT ![turnId] = Append(@, ask.params)]]_approvalVars

=============================================================================
