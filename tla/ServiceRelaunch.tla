-------------------------- MODULE ServiceRelaunch --------------------------
(***************************************************************************)
(* The app and the services it launches: proofs/native-boundary, ProofApp  *)
(* ensureService and poll, the boot of ProofService, and UnixSocket.listen *)
(* of ProofWire.  Services share one socket path and one attempts.json.    *)
(* The timer of the app starts a poll whether or not an earlier one is     *)
(* still waiting for the service it launched.  What happens within one     *)
(* service is module HelperLease; here an attempt is a number with what    *)
(* becomes of it.                                                          *)
(***************************************************************************)
EXTENDS Naturals

CONSTANTS
    Services,      \* numbers for the service processes that may exist at a time
    Polls,         \* tasks of the app that may be in poll or runStartup at once
    MaxAttempts,   \* bound on the attempts
    MaxKills,      \* bound on the services that are killed
    NoOne

ASSUME NoOneAssumption == Services \subseteq Nat /\ NoOne \notin Services
ASSUME BoundsAssumption == MaxAttempts \in Nat /\ MaxKills \in Nat

Attempts == 1 .. MaxAttempts

Stages == {"none", "booting", "loaded", "unlinked", "bound", "listening"}

\* An attempt and its state, attempt 0 before there is one.
Record == [attempt: 0 .. MaxAttempts, state: {"running", "ended"}]

NoRecord == [attempt |-> 0, state |-> "ended"]

\* The final states an attempt is given: completed, or cancelled, by the termination
\* handler, interrupted by reconcile, and interrupted by cancel, which refused to signal.
Verdicts == {"completed", "interrupted", "refused"}

VARIABLES
    stage,      \* how far each service has come
    path,       \* the service whose socket the path names
    task,       \* "idle", or "waiting" in ensureService
    inMemory,   \* attempts.current of each service
    inFile,     \* attempts.current of attempts.json
    helper,     \* helpers that live
    started,    \* attempts started
    watched,   \* the attempts of each service whose termination handler is to run
    verdicts,   \* the final states each attempt has been given, by whom
    unsaved,    \* history: the attempts of which a save has failed
    kills,      \* services killed so far
    overlapped  \* history: a service was launched while another was there

services == <<stage, path, kills>>
attempts == <<inMemory, inFile, helper, started, watched, verdicts, unsaved>>
relaunchVars == <<services, task, attempts, overlapped>>

RelaunchTypeOK ==
    /\ stage \in [Services -> Stages]
    /\ path \in Services \cup {NoOne}
    /\ task \in [Polls -> {"idle", "waiting"}]
    /\ inMemory \in [Services -> Record]
    /\ inFile \in Record
    /\ helper \subseteq Attempts
    /\ started \in 0 .. MaxAttempts
    /\ watched \in [Services -> SUBSET Attempts]
    /\ verdicts \in [Attempts -> SUBSET Verdicts]
    /\ unsaved \subseteq 0 .. MaxAttempts
    /\ kills \in 0 .. MaxKills
    /\ overlapped \in BOOLEAN

RelaunchInit ==
    /\ stage = [s \in Services |-> "none"]
    /\ path = NoOne
    /\ task = [p \in Polls |-> "idle"]
    /\ inMemory = [s \in Services |-> NoRecord] /\ inFile = NoRecord
    /\ helper = {} /\ started = 0
    /\ watched = [s \in Services |-> {}]
    /\ verdicts = [a \in Attempts |-> {}]
    /\ unsaved = {}
    /\ kills = 0
    /\ overlapped = FALSE

----------------------------------------------------------------------------

\* canConnect reaches service s: its socket is at the path and it listens.
Serves(s) == path = s /\ stage[s] = "listening"

CanConnect == \E s \in Services : Serves(s)

ComingUp == \E s \in Services : stage[s] \in Stages \ {"none", "listening"}

(* The app.                                                                *)

\* poll, or runStartup: no connection, so ensureService launches a service, a new
\* process, which takes the first number that is free.
Launch(p, s) ==
    /\ task[p] = "idle" /\ ~ CanConnect
    /\ stage[s] = "none" /\ \A t \in Services : stage[t] = "none" => s <= t
    /\ stage' = [stage EXCEPT ![s] = "booting"]
    /\ task' = [task EXCEPT ![p] = "waiting"]
    /\ overlapped' = (overlapped \/ \E q \in Services : stage[q] # "none")
    /\ UNCHANGED <<path, kills, attempts>>

\* ensureService connects, to whichever service.
Ready(p) ==
    /\ task[p] = "waiting" /\ CanConnect
    /\ task' = [task EXCEPT ![p] = "idle"]
    /\ UNCHANGED <<services, attempts, overlapped>>

\* Its ten seconds are over.  They are long for a service that comes up, which
\* takes milliseconds: they pass only when none is on its way.
GiveUp(p) ==
    /\ task[p] = "waiting" /\ ~ CanConnect /\ ~ ComingUp
    /\ task' = [task EXCEPT ![p] = "idle"]
    /\ UNCHANGED <<services, attempts, overlapped>>

----------------------------------------------------------------------------
(* A service.                                                              *)

\* A service that ends leaves its socket at the path, and its helper.
Ends(s) ==
    /\ stage' = [stage EXCEPT ![s] = "none"]
    /\ inMemory' = [inMemory EXCEPT ![s] = NoRecord]
    /\ watched' = [watched EXCEPT ![s] = {}]
    /\ UNCHANGED <<path, task, inFile, helper, started, verdicts, unsaved, overlapped>>

Advance(s, from, to) ==
    /\ stage[s] = from
    /\ stage' = [stage EXCEPT ![s] = to]

\* persist: a write may fail without a word and leave the file as it was, or cut.
Save(record) ==
    \/ inFile' = record /\ UNCHANGED unsaved
    \/ inFile' \in {inFile, NoRecord} /\ unsaved' = unsaved \cup {record.attempt}

\* Mutant: the record is left as it was.
MutSettled(record) == record

\* The record of an attempt that is over.
Settled(record) == [record EXCEPT !.state = "ended"]

\* Mutant: the attempt is cleared and not kept in the history.
MutInterrupted(a) == verdicts

\* The attempt goes to the history as interrupted.
Interrupted(a) == [verdicts EXCEPT ![a] = @ \cup {"interrupted"}]

\* Service.init: load and reconcile, which signals the helper.
Boot(s) ==
    /\ Advance(s, "booting", "loaded")
    /\ IF inFile.state = "running"
       THEN /\ verdicts' = Interrupted(inFile.attempt)
            /\ helper' = helper \ {inFile.attempt}
            /\ inMemory' = [inMemory EXCEPT ![s] = Settled(inFile)]
            /\ Save(inMemory'[s])
       ELSE /\ inMemory' = [inMemory EXCEPT ![s] = inFile]
            /\ UNCHANGED <<verdicts, helper, inFile, unsaved>>
    /\ UNCHANGED <<path, kills, task, started, watched, overlapped>>

\* Mutant: the path is taken as it is found.
MutUnlinked == path

\* The path after unlink.
Unlinked == NoOne

\* listen: unlink, whoever's socket is there.
Unlink(s) ==
    /\ Advance(s, "loaded", "unlinked")
    /\ path' = Unlinked
    /\ UNCHANGED <<kills, task, attempts, overlapped>>

\* listen: bind.
Bind(s) ==
    /\ path = NoOne
    /\ Advance(s, "unlinked", "bound")
    /\ path' = s
    /\ UNCHANGED <<kills, task, attempts, overlapped>>

\* listen throws when another service has bound the path meanwhile.
BindFails(s) ==
    /\ stage[s] = "unlinked" /\ path # NoOne
    /\ Ends(s)
    /\ UNCHANGED kills

\* listen: listen.
Listen(s) ==
    /\ Advance(s, "bound", "listening")
    /\ UNCHANGED <<path, kills, task, attempts, overlapped>>

\* startAttempt, over a connection; the handshake is in module HelperLease.
StartAttempt(s) ==
    /\ Serves(s) /\ inMemory[s].state # "running" /\ started < MaxAttempts
    /\ started' = started + 1
    /\ helper' = helper \cup {started + 1}
    /\ inMemory' = [inMemory EXCEPT ![s] = [attempt |-> started + 1, state |-> "running"]]
    /\ watched' = [watched EXCEPT ![s] = @ \cup {started + 1}]
    /\ Save(inMemory'[s])
    /\ UNCHANGED <<services, task, verdicts, overlapped>>

HelperEnds(a) ==
    /\ a \in helper
    /\ helper' = helper \ {a}
    /\ UNCHANGED <<services, task, inMemory, inFile, started, watched, verdicts, unsaved,
                   overlapped>>

\* The attempt in memory gets a final state and is saved, over what any other service
\* has saved.
Judge(s, verdict) ==
    /\ stage[s] = "listening"
    /\ inMemory' = [inMemory EXCEPT ![s] = Settled(@)]
    /\ Save(inMemory'[s])
    /\ verdicts' = [verdicts EXCEPT ![inMemory[s].attempt] = @ \cup {verdict}]
    /\ UNCHANGED <<services, task, helper, started, overlapped>>

\* cancel of a helper that is gone: its pid has another start time, or none, so nothing
\* is signalled and the attempt is classified interrupted.
CancelRefused(s) ==
    /\ path = s /\ inMemory[s].state = "running" /\ inMemory[s].attempt \notin helper
    /\ Judge(s, "refused")
    /\ UNCHANGED watched

\* terminationHandler, which asks whether the attempt is still the current one and not
\* whether it runs.
HandleExit(s, a) ==
    /\ a \in watched[s] \ helper
    /\ watched' = [watched EXCEPT ![s] = @ \ {a}]
    /\ \/ inMemory[s].attempt = a /\ Judge(s, "completed")
       \/ /\ inMemory[s].attempt # a
          /\ UNCHANGED <<services, task, inMemory, inFile, helper, started, verdicts, unsaved,
                         overlapped>>

\* It is killed, at any stage.
Kill(s) ==
    /\ stage[s] # "none" /\ kills < MaxKills
    /\ kills' = kills + 1
    /\ Ends(s)

\* idleWatch: the polls of the app reach another service, or none.
Idle(s) ==
    /\ stage[s] = "listening" /\ path # s /\ inMemory[s].state # "running"
    /\ Ends(s)
    /\ UNCHANGED kills

ComesUp(s) == Boot(s) \/ Unlink(s) \/ Bind(s) \/ BindFails(s) \/ Listen(s)

----------------------------------------------------------------------------

RelaunchNext ==
    \/ \E p \in Polls, s \in Services : Launch(p, s)
    \/ \E p \in Polls : Ready(p) \/ GiveUp(p)
    \/ \E s \in Services : ComesUp(s)
    \/ \E s \in Services : StartAttempt(s) \/ CancelRefused(s)
    \/ \E s \in Services, a \in Attempts : HandleExit(s, a)
    \/ \E s \in Services : Kill(s) \/ Idle(s)
    \/ \E a \in Attempts : HelperEnds(a)

RelaunchSpec == RelaunchInit /\ [][RelaunchNext]_relaunchVars

\* The timer of the app keeps firing and its tasks run, a launched service
\* comes up unless it is killed, helpers end, handlers and watchers run.
FairRelaunch ==
    /\ RelaunchSpec
    /\ \A p \in Polls : WF_relaunchVars(\E s \in Services : Launch(p, s))
    /\ \A p \in Polls : WF_relaunchVars(Ready(p)) /\ WF_relaunchVars(GiveUp(p))
    /\ \A s \in Services : WF_relaunchVars(ComesUp(s))
    /\ \A s \in Services : WF_relaunchVars(Idle(s))
    /\ \A s \in Services, a \in Attempts : WF_relaunchVars(HandleExit(s, a))
    /\ \A a \in Attempts : WF_relaunchVars(HelperEnds(a))

----------------------------------------------------------------------------
(* Properties.                                                             *)

\* As long as no service is launched while another is there, and the saves of an attempt
\* do not fail, no attempt is given final states by two services, at whatever stage they
\* are killed: the one reconcile gives stands alone, so only the termination handler of
\* the service that ran the attempt may take back the interrupted that a cancel of that
\* service has recorded (main.swift:115-122, 358-371, 385-390).
OneVerdict ==
    RelaunchTypeOK /\ (~ overlapped => \A a \in Attempts \ unsaved :
        "interrupted" \in verdicts[a] => verdicts[a] = {"interrupted"})

\* Whatever services overtake each other, are killed or leave stale sockets,
\* the app is connected again and again.
ConnectedAgain == []<>CanConnect

\* An attempt reaches a final state, across the death of its service, unless a save of
\* it fails or services overlap: one that has loaded attempts.json before another starts
\* an attempt, and outlives it, does not know of the attempt.
AttemptsAreJudged ==
    \A a \in Attempts : started >= a ~> verdicts[a] # {} \/ overlapped \/ a \in unsaved

\* A service that lost the path ends by itself.
OrphansEnd ==
    \A s \in Services :
        stage[s] = "listening" /\ path # s ~> stage[s] = "none"

\* What the death of a service leaves behind ends: its attempts get a verdict,
\* and a service that lives on without the path goes.
LeftoversEnd == AttemptsAreJudged /\ OrphansEnd
=============================================================================
