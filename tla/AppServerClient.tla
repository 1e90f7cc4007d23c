-------------------------- MODULE AppServerClient --------------------------
(***************************************************************************)
(* The client of the Codex app-server: proofs/codex-mcp,                   *)
(* src/app-server-client.mjs, class AppServer.  It spawns the app-server   *)
(* as a child and speaks JSON lines with it: requests with a timeout each, *)
(* notifications kept in a bounded buffer and waited for, one close.  Each *)
(* event of the event loop (a line, a timer, the exit of the child) is a   *)
(* step; lines the child has written reach the client later, and may do so *)
(* after the exit event.  Requests of the server to the client are         *)
(* answered within the event that brings them: module TurnApproval.        *)
(***************************************************************************)
EXTENDS Naturals, Sequences, FiniteSets

CONSTANTS
    MaxRequests,        \* bound on the requests of a behaviour
    Waiters,            \* calls of waitFor
    Kinds,              \* what predicates of waitFor tell notifications apart by
    MaxNotifications,   \* maxNotifications
    MaxLines            \* bound on the lines the child writes

ASSUME BoundsAssumption ==
    /\ MaxRequests \in Nat
    /\ MaxLines \in Nat
    /\ MaxNotifications \in Nat

Requests == 0 .. MaxRequests - 1

Line == [type: {"answer"}, id: Requests]
          \cup [type: {"notice"}, kind: Kinds]
          \cup [type: {"garbage", "null"}]

VARIABLES
    child,      \* the child process: "running" or "exited"
    signals,    \* the signals sent to it
    exitSeen,   \* its error or exit event was handled: #exit is resolved
    asked,      \* requests that reached its standard input while it lived
    lost,       \* requests written to it after its death
    answered,   \* requests it has answered
    stdout,     \* lines it has written that the client has not received
    written,    \* how many it has written
    client,     \* "up", or "down" after an uncaught exception
    nextID,     \* #nextID
    pending,    \* #pending: keys of the map, each with its timer
    outcome,    \* what became of the promise of each request
    ring,       \* #notifications
    waiters,    \* #waiters
    timers,     \* waiters whose timer is armed
    wants,      \* the predicate of each waiter, here the kind it accepts
    wait,       \* what became of the promise of each waiter
    orphans,    \* answers that found no request
    closing     \* close(): "no", "grace", "killed", "done"

process == <<child, signals, asked, lost, answered, stdout, written>>
requests == <<nextID, pending, outcome, orphans>>
waits == <<ring, waiters, timers, wants, wait>>
vars == <<process, exitSeen, client, requests, waits, closing>>

Settled == {"answered", "timeout", "exited", "garbled"}

TypeOK ==
    /\ child \in {"running", "exited"}
    /\ signals \subseteq {"SIGTERM", "SIGKILL"}
    /\ exitSeen \in BOOLEAN
    /\ asked \subseteq Requests /\ lost \subseteq Requests
    /\ answered \subseteq Requests
    /\ stdout \in Seq(Line)
    /\ written \in 0 .. MaxLines
    /\ client \in {"up", "down"}
    /\ nextID \in 0 .. MaxRequests
    /\ pending \subseteq Requests /\ orphans \subseteq Requests
    /\ outcome \in [Requests -> {"none", "open"} \cup Settled]
    /\ ring \in Seq(Kinds) /\ Len(ring) <= MaxNotifications
    /\ waiters \in Seq(Waiters)
    /\ timers \subseteq Waiters
    /\ wants \in [Waiters -> Kinds]
    /\ wait \in [Waiters -> {"none", "open", "notified", "timeout",
                             "exited", "garbled"}]
    /\ closing \in {"no", "grace", "killed", "done"}

Init ==
    /\ child = "running" /\ signals = {} /\ exitSeen = FALSE
    /\ asked = {} /\ lost = {} /\ answered = {}
    /\ stdout = <<>> /\ written = 0
    /\ client = "up"
    /\ nextID = 0 /\ pending = {} /\ orphans = {}
    /\ outcome = [i \in Requests |-> "none"]
    /\ ring = <<>> /\ waiters = <<>> /\ timers = {}
    /\ wants \in [Waiters -> Kinds]
    /\ wait = [w \in Waiters |-> "none"]
    /\ closing = "no"

\* The promises of S settle as v, those that have not settled before.
Settle(promises, S, v) ==
    [x \in DOMAIN promises |->
        IF x \in S /\ promises[x] = "open" THEN v ELSE promises[x]]

Listed == {waiters[n] : n \in 1 .. Len(waiters)}

\* The sequence s without the elements of S, the others in their order.
Without(s, S) ==
    LET Left == {n \in 1 .. Len(s) : s[n] \notin S}
        Nth(k) == CHOOSE n \in Left : Cardinality(Left \cap 1 .. n) = k
    IN  [k \in 1 .. Cardinality(Left) |-> s[Nth(k)]]

----------------------------------------------------------------------------
(* The child.                                                              *)

Write(line) ==
    /\ child = "running" /\ written < MaxLines
    /\ stdout' = Append(stdout, line)
    /\ written' = written + 1

\* It answers a request, once, with a result or an error.
ChildAnswers(i) ==
    /\ i \in asked \ answered
    /\ Write([type |-> "answer", id |-> i])
    /\ answered' = answered \cup {i}
    /\ UNCHANGED <<child, signals, asked, lost, exitSeen, client, requests,
                   waits, closing>>

\* It notifies, or writes something that is not JSON or not an object.
ChildWrites(line) ==
    /\ line.type # "answer"
    /\ Write(line)
    /\ UNCHANGED <<child, signals, asked, lost, answered, exitSeen, client,
                   requests, waits, closing>>

\* It ends, or could never be started.
ChildExits ==
    /\ child = "running"
    /\ child' = "exited"
    /\ UNCHANGED <<signals, asked, lost, answered, stdout, written, exitSeen,
                   client, requests, waits, closing>>

----------------------------------------------------------------------------
(* What the application calls.                                             *)

\* #send: what is written before the exit event of a dead child is lost.
Sent(i) ==
    /\ asked' = IF child = "running" THEN asked \cup {i} ELSE asked
    /\ lost' = IF child = "exited" /\ ~ exitSeen THEN lost \cup {i} ELSE lost

\* request.
Request ==
    /\ client = "up" /\ nextID < MaxRequests
    /\ nextID' = nextID + 1
    /\ pending' = pending \cup {nextID}
    /\ outcome' = [outcome EXCEPT ![nextID] = "open"]
    /\ Sent(nextID)
    /\ UNCHANGED <<child, signals, answered, stdout, written, exitSeen, client,
                   orphans, waits, closing>>

\* Mutant: waitFor looks only at what is still to come.
MutPrior(w) == FALSE

\* A notification the waiter accepts is in the buffer.
Prior(w) == \E n \in 1 .. Len(ring) : ring[n] = wants[w]

\* waitFor.
WaitFor(w) ==
    /\ client = "up" /\ wait[w] = "none"
    /\ IF Prior(w)
       THEN /\ wait' = [wait EXCEPT ![w] = "notified"]
            /\ UNCHANGED <<waiters, timers>>
       ELSE /\ wait' = [wait EXCEPT ![w] = "open"]
            /\ waiters' = Append(waiters, w)
            /\ timers' = timers \cup {w}
    /\ UNCHANGED <<process, exitSeen, client, requests, ring, wants, closing>>

\* close: at once when the child is known to be gone, otherwise it signals.
Close ==
    /\ client = "up" /\ closing = "no"
    /\ IF exitSeen
       THEN closing' = "done" /\ UNCHANGED signals
       ELSE closing' = "grace" /\ signals' = signals \cup {"SIGTERM"}
    /\ UNCHANGED <<child, asked, lost, answered, stdout, written, exitSeen,
                   client, requests, waits>>

----------------------------------------------------------------------------
(* What the event loop delivers.                                           *)

\* Mutant: waiters are let go of with their timers still armed.
MutRejectAll(v) ==
    /\ outcome' = Settle(outcome, pending, v)
    /\ pending' = {}
    /\ wait' = Settle(wait, Listed, v)
    /\ waiters' = <<>>
    /\ UNCHANGED timers

\* Mutant: the map of requests is cleared and the promises are forgotten.
MutForgetRequests(v) ==
    /\ pending' = {}
    /\ wait' = Settle(wait, Listed, v)
    /\ waiters' = <<>>
    /\ timers' = timers \ Listed
    /\ UNCHANGED outcome

\* #rejectAll.
RejectAll(v) ==
    /\ outcome' = Settle(outcome, pending, v)
    /\ pending' = {}
    /\ wait' = Settle(wait, Listed, v)
    /\ waiters' = <<>>
    /\ timers' = timers \ Listed

\* The answer of a pending request settles it; any other is counted.
TakeAnswer(line) ==
    /\ line.type = "answer"
    /\ IF line.id \in pending
       THEN /\ pending' = pending \ {line.id}
            /\ outcome' = Settle(outcome, {line.id}, "answered")
            /\ UNCHANGED orphans
       ELSE /\ orphans' = orphans \cup {line.id}
            /\ UNCHANGED <<pending, outcome>>
    /\ UNCHANGED <<waits, client>>

\* The newest notifications that fit.
Kept(s) == SubSeq(s, IF Len(s) > MaxNotifications THEN 2 ELSE 1, Len(s))

\* A notification is buffered and given to every waiter that accepts it.
TakeNotice(line) ==
    /\ line.type = "notice"
    /\ ring' = Kept(Append(ring, line.kind))
    /\ LET matched == {w \in Listed : wants[w] = line.kind}
       IN  /\ waiters' = Without(waiters, matched)
           /\ timers' = timers \ matched
           /\ wait' = Settle(wait, matched, "notified")
    /\ UNCHANGED <<pending, outcome, orphans, wants, client>>

\* A line that does not parse rejects everything in flight.
TakeGarbage(line) ==
    /\ line.type = "garbage"
    /\ RejectAll("garbled")
    /\ UNCHANGED <<ring, wants, orphans, client>>

\* The line "null" parses, and reading its method throws.
TakeNull(line) ==
    /\ line.type = "null"
    /\ client' = "down"
    /\ UNCHANGED <<pending, outcome, orphans, waits>>

\* #receive.
Receive ==
    /\ client = "up" /\ stdout # <<>>
    /\ stdout' = Tail(stdout)
    /\ \/ TakeAnswer(Head(stdout))
       \/ TakeNotice(Head(stdout))
       \/ TakeGarbage(Head(stdout))
       \/ TakeNull(Head(stdout))
    /\ UNCHANGED <<child, signals, asked, lost, answered, written, exitSeen,
                   nextID, closing>>

\* The timer of a request.
RequestTimeout(i) ==
    /\ client = "up" /\ i \in pending
    /\ pending' = pending \ {i}
    /\ outcome' = Settle(outcome, {i}, "timeout")
    /\ UNCHANGED <<process, exitSeen, client, nextID, orphans, waits, closing>>

\* splice(indexOf(w), 1): where w is not listed, indexOf gives -1 and splice
\* takes the last of the list instead.
Spliced(w) ==
    IF w \in Listed THEN Without(waiters, {w})
    ELSE SubSeq(waiters, 1, Len(waiters) - 1)

\* The timer of a waiter.
WaitTimeout(w) ==
    /\ client = "up" /\ w \in timers
    /\ timers' = timers \ {w}
    /\ waiters' = Spliced(w)
    /\ wait' = Settle(wait, {w}, "timeout")
    /\ UNCHANGED <<process, exitSeen, client, requests, ring, wants, closing>>

\* What close is waiting for after the two seconds.
AfterGrace == "killed"

\* Mutant: close does not insist.
MutEscalation == {}

Escalation == {"SIGKILL"}

\* The two seconds of close are over before the exit.
GraceOver ==
    /\ client = "up" /\ closing = "grace"
    /\ signals' = signals \cup Escalation
    /\ closing' = AfterGrace
    /\ UNCHANGED <<child, asked, lost, answered, stdout, written, exitSeen,
                   client, requests, waits>>

\* The error or exit event, which a waiting close takes for its answer.
ExitEvent ==
    /\ client = "up" /\ child = "exited" /\ ~ exitSeen
    /\ exitSeen' = TRUE
    /\ RejectAll("exited")
    /\ closing' = IF closing \in {"grace", "killed"} THEN "done" ELSE closing
    /\ UNCHANGED <<process, client, nextID, orphans, ring, wants>>

\* A write to a dead child fails with nobody listening for the error.
BrokenPipe ==
    /\ client = "up" /\ lost # {} /\ ~ exitSeen
    /\ client' = "down"
    /\ UNCHANGED <<process, exitSeen, requests, waits, closing>>

----------------------------------------------------------------------------

Next ==
    \/ \E i \in Requests : ChildAnswers(i)
    \/ \E line \in Line : ChildWrites(line)
    \/ ChildExits
    \/ Request
    \/ \E w \in Waiters : WaitFor(w)
    \/ Close
    \/ Receive
    \/ \E i \in Requests : RequestTimeout(i)
    \/ \E w \in Waiters : WaitTimeout(w)
    \/ GraceOver
    \/ ExitEvent
    \/ BrokenPipe

Spec == Init /\ [][Next]_vars

\* The event loop runs the timers and delivers the events that are due, and no
\* process survives SIGKILL.  The child owes nothing else: it may stay silent
\* and ignore SIGTERM.
FairSpec ==
    /\ Spec
    /\ \A i \in Requests : WF_vars(RequestTimeout(i))
    /\ \A w \in Waiters : WF_vars(WaitTimeout(w))
    /\ WF_vars(GraceOver)
    /\ WF_vars(ExitEvent)
    /\ WF_vars("SIGKILL" \in signals /\ ChildExits)

----------------------------------------------------------------------------
(* Properties.                                                             *)

\* Nobody is left behind: an open request is in the map and will time out if
\* nothing else happens; an open waiter is listed, once, and will time out.  A
\* timer that outlived its waiter would splice the last of the list away:
\* another waiter, which no notification would reach any more.  And no answer is
\* thrown away as an orphan unless its request was given up on.  When close
\* answers the child has been reaped, and what was in flight is settled.
NobodyLeftBehind ==
    /\ TypeOK
    /\ \A i \in Requests : outcome[i] = "open" <=> i \in pending
    /\ \A w \in Waiters : wait[w] = "open" => w \in Listed \cap timers
    /\ Len(waiters) = Cardinality(Listed)
    /\ \A i \in orphans : outcome[i] \in {"timeout", "exited", "garbled"}
    /\ closing = "done" =>
          child = "exited" /\ pending \cap (asked \cup lost) = {}

\* A waiter that still waits has missed nothing: no notification it accepts is
\* in the buffer, whether it came before or after the waiter.
NothingMissed ==
    \A w \in Waiters, n \in 1 .. Len(ring) :
        wait[w] = "open" => ring[n] # wants[w]

\* Every request and every wait settles while the client is up, whatever the
\* child does or does not do.
EverythingSettles ==
    /\ \A i \in Requests :
          outcome[i] = "open" ~> outcome[i] # "open" \/ client = "down"
    /\ \A w \in Waiters :
          wait[w] = "open" ~> wait[w] # "open" \/ client = "down"

\* close returns, from a child that ignores SIGTERM too.
CloseReturns ==
    closing = "grace" ~> closing = "done" \/ client = "down"
=============================================================================
