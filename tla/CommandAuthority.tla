------------------------- MODULE CommandAuthority -------------------------
(***************************************************************************)
(* The command boundary of the app-owned service: proofs/native-boundary,  *)
(* ProofService/main.swift dispatch() and execute(), with ProofWire.       *)
(*                                                                         *)
(* Every connection carries one request.  A request is admitted or         *)
(* rejected by its principal, answered from the receipts when its command  *)
(* ID is known, or executed under the service lock; its receipt is then    *)
(* saved before it is sent.  Two commands give the lock up on their way:   *)
(* requestPairing waits on a semaphore for the creator's approval, and     *)
(* cancelAttempt waits for the helper's exit.  persist() writes two files, *)
(* service-state.json and then attempts.json; either write may fail and    *)
(* nobody is told (try?), and the service may exit before, between and     *)
(* after.                                                                  *)
(*                                                                         *)
(* Sessions, receipts and leases are named by the connection whose command *)
(* made them; Old names the session and the attempt of an earlier run.     *)
(* What an attempt does in detail is module HelperLease.                   *)
(***************************************************************************)
EXTENDS Naturals, FiniteSets

CONSTANTS
    Connections,   \* accepted connections, each with a thread and a request
    CommandIDs,    \* command IDs the clients use; they may use one again
    Old,           \* the session and the attempt left by an earlier service
    None,          \* absence
    GrantDelays,   \* may the grant's signal be delayed?
    MaxLosses      \* bound: spells of failing writes, files cut by an exit

ASSUME NamesAssumption == /\ Old \notin Connections
                          /\ None \notin Connections \cup {Old}
                          /\ {"creator", "anonymous"} \cap (Connections \cup {Old}) = {}
                          /\ None \notin CommandIDs
ASSUME DelaysAssumption == GrantDelays \in SUBSET BOOLEAN
ASSUME LossesAssumption == MaxLosses \in Nat

Names == Connections \cup {Old}

Commands == {"requestPairing", "approvePairing", "revokeSession",
             "grantFixture", "describeFixture", "startAttempt",
             "cancelAttempt", "attemptWrite"}

CreatorOnly == {"approvePairing", "revokeSession", "grantFixture"}

\* A request: who is "creator" for a peer that meets the app requirement,
\* "anonymous" without a token, else the session whose token it presents.
Request == [id: CommandIDs, command: Commands,
            who: {"creator", "anonymous"} \cup Names,
            target: Names \cup {None}]

\* service-state.json: sessions, receipts (named by the connection that was
\* first answered) and whether the creator has granted a fixture.
Persisted == [sessions: [Names -> {"none", "active", "revoked"}],
              receipts: [CommandIDs -> Connections \cup {None}],
              fixture: BOOLEAN]

\* attempts.json: the current attempt, the attempts in its history and the
\* commands noted in any of them.
Attempts == [lease: Names \cup {None}, running: BOOLEAN,
             history: SUBSET Names, notes: SUBSET Connections]

Reply == [kind: {"receipt", "paired"}, of: Names]
            \cup [kind: {"rejected", "pairingTimeout"}, of: {None}]

ASSUME AbsenceAssumption == None \notin Request

VARIABLES
    alive,               \* the service process runs and listens
    helper,              \* the current attempt's helper has not been seen to end
    torn,                \* history: an exit has left a file half written
    stale,               \* history: an exit came after a failed write
    half,                \* history: commands whose service ended between the
                         \* two writes of their save, with no note in the second
    losses,              \* history: spells of failing writes and files cut short
    pc,                  \* where each connection's thread is
    req,                 \* the request each connection brought
    reply,               \* the response its client received
    persisted, stateFile,    \* in memory, in service-state.json
    attempts, attemptsFile,  \* in memory, in attempts.json
    unsaved,             \* the files whose last write failed
    grant,               \* session granted to each pending pairing request
    sem,                 \* its semaphore: not signalled, due, signalled
    acts                 \* history: connections whose command took effect

files == <<stateFile, attemptsFile, unsaved>>
stores == <<persisted, attempts, files>>
pairing == <<grant, sem>>
exits == <<torn, stale, half>>
service == <<alive, helper, exits, losses>>
vars == <<service, pc, req, reply, stores, pairing, acts>>

Waiting == {"pairing", "woken", "timedOut"}
Holding == {"innerSave", "saveState", "saveAttempts"}

\* The attempts on record, current or past.
Leases(A) == ({A.lease} \cup A.history) \ {None}

EmptyState == [sessions |-> [s \in Names |-> "none"],
               receipts |-> [c \in CommandIDs |-> None],
               fixture |-> FALSE]

EmptyAttempts == [lease |-> None, running |-> FALSE,
                  history |-> {}, notes |-> {}]

TypeOK ==
    /\ alive \in BOOLEAN /\ helper \in BOOLEAN
    /\ torn \in BOOLEAN /\ stale \in BOOLEAN /\ half \in SUBSET Connections
    /\ losses \in 0 .. MaxLosses
    /\ pc \in [Connections -> {"new", "cancelling", "done"} \cup Waiting
                                \cup Holding]
    /\ req \in [Connections -> Request \cup {None}]
    /\ reply \in [Connections -> Reply \cup {None}]
    /\ persisted \in Persisted /\ stateFile \in Persisted
    /\ attempts \in Attempts /\ attemptsFile \in Attempts
    /\ unsaved \in SUBSET {"state", "attempts"}
    /\ grant \in [Connections -> Names \cup {None}]
    /\ sem \in [Connections -> {"clear", "due", "set"}]
    /\ acts \in SUBSET Connections

----------------------------------------------------------------------------
(* Initial states: a first start, or the files of an earlier run with a    *)
(* session that is active or revoked and an attempt that is still running. *)

Init ==
    /\ alive = FALSE /\ helper = FALSE
    /\ torn = FALSE /\ stale = FALSE /\ half = {} /\ unsaved = {}
    /\ losses = 0
    /\ pc = [t \in Connections |-> "new"]
    /\ req = [t \in Connections |-> None]
    /\ reply = [t \in Connections |-> None]
    /\ persisted = EmptyState
    /\ \E session \in {"none", "active", "revoked"} :
          stateFile = [EmptyState EXCEPT !.sessions[Old] = session]
    /\ attempts = EmptyAttempts
    /\ \E running \in BOOLEAN :
          attemptsFile = [EmptyAttempts EXCEPT
                            !.lease = IF running THEN Old ELSE None,
                            !.running = running]
    /\ grant = [t \in Connections |-> None]
    /\ sem = [t \in Connections |-> "clear"]
    /\ acts = {}

----------------------------------------------------------------------------
(* dispatch: the checks every request goes through.                        *)

\* The lock is free: no connection is between its effect and its response.
LockFree == alive /\ \A t \in Connections : pc[t] \notin Holding

\* Mutant: a revoked session is still a session.
MutAdmitted(r) ==
    \/ r.who = "creator"
    \/ r.who = "anonymous" /\ r.command = "requestPairing"
    \/ r.who \in Names /\ persisted.sessions[r.who] # "none"
                       /\ r.command \notin CreatorOnly

\* The principal is known, not revoked, and the command's policy allows it.
Admitted(r) ==
    \/ r.who = "creator"
    \/ r.who = "anonymous" /\ r.command = "requestPairing"
    \/ r.who \in Names /\ persisted.sessions[r.who] = "active"
                       /\ r.command \notin CreatorOnly

\* Mutant: the receipts are not looked up.
MutFresh(r) == r.command # "requestPairing"

\* No receipt yet for this command ID.
Fresh(r) == r.command # "requestPairing" /\ persisted.receipts[r.id] = None

\* Mutant: a request that has been approved can be approved again.
MutSucceeds(r) ==
    CASE r.command = "approvePairing" -> r.target \in Connections
                                         /\ pc[r.target] \in Waiting
      [] r.command = "revokeSession"  -> r.target \in Names
                                         /\ persisted.sessions[r.target] # "none"
      [] r.command = "describeFixture" -> persisted.fixture
      [] r.command = "startAttempt"   -> ~ attempts.running
      [] r.command \in {"cancelAttempt", "attemptWrite"}
                                      -> attempts.running
                                         /\ attempts.lease = r.target
      [] OTHER                        -> TRUE

\* The guards of execute(), command by command.
Succeeds(r) ==
    CASE r.command = "approvePairing" -> /\ r.target \in Connections
                                         /\ pc[r.target] \in Waiting
                                         /\ grant[r.target] = None
      [] r.command = "revokeSession"  -> r.target \in Names
                                         /\ persisted.sessions[r.target] # "none"
      [] r.command = "describeFixture" -> persisted.fixture
      [] r.command = "startAttempt"   -> ~ attempts.running
      [] r.command \in {"cancelAttempt", "attemptWrite"}
                                      -> attempts.running
                                         /\ attempts.lease = r.target
      [] OTHER                        -> TRUE

\* Connection t brings request r and finds the lock free.
Brings(t, r) ==
    /\ LockFree
    /\ pc[t] = "new"
    /\ req' = [req EXCEPT ![t] = r]

Executes(t, r, command) ==
    /\ r.command = command
    /\ Admitted(r)
    /\ Fresh(r)
    /\ Succeeds(r)
    /\ Brings(t, r)

Respond(t, response) ==
    /\ reply' = [reply EXCEPT ![t] = response]
    /\ pc' = [pc EXCEPT ![t] = "done"]

Rejected == [kind |-> "rejected", of |-> None]

\* A rejection leaves no trace: no receipt, nothing saved.  A start may also
\* fail because its helper does not come up.
Reject(t, r) ==
    /\ \/ ~ Admitted(r)
       \/ Fresh(r) /\ ~ Succeeds(r)
       \/ Admitted(r) /\ Fresh(r) /\ r.command = "startAttempt"
    /\ LockFree
    /\ pc[t] = "new"
    /\ Respond(t, Rejected)
    /\ UNCHANGED <<service, req, stores, pairing, acts>>

\* A command ID that has a receipt gets that receipt, whoever asks.
Replay(t, r) ==
    /\ r.command # "requestPairing"
    /\ Admitted(r)
    /\ ~ Fresh(r)
    /\ Brings(t, r)
    /\ Respond(t, [kind |-> "receipt", of |-> persisted.receipts[r.id]])
    /\ UNCHANGED <<service, stores, pairing, acts>>

----------------------------------------------------------------------------
(* Pairing.                                                                *)

\* The request becomes pending and its thread waits without the lock.
RequestPairing(t, r) ==
    /\ r.command = "requestPairing"
    /\ Admitted(r)
    /\ Brings(t, r)
    /\ pc' = [pc EXCEPT ![t] = "pairing"]
    /\ UNCHANGED <<service, reply, stores, pairing, acts>>

\* The creator's approval mints a session and signals the waiting thread, at
\* once or after a delay; the approver still holds the lock.
ApprovePairing(t, r) ==
    /\ Executes(t, r, "approvePairing")
    /\ persisted' = [persisted EXCEPT !.sessions[t] = "active",
                                      !.receipts[r.id] = t]
    /\ grant' = [grant EXCEPT ![r.target] = t]
    /\ \E delayed \in GrantDelays :
          sem' = [sem EXCEPT ![r.target] = IF delayed THEN "due" ELSE "set"]
    /\ pc' = [pc EXCEPT ![t] = "saveState"]
    /\ acts' = acts \cup {t}
    /\ UNCHANGED <<service, reply, attempts, files>>

SignalGrant(p) ==
    /\ alive
    /\ sem[p] = "due"
    /\ sem' = [sem EXCEPT ![p] = "set"]
    /\ UNCHANGED <<service, pc, req, reply, stores, grant, acts>>

\* sem.wait returns: signalled, or after 120 s without a signal.
Wakes(p, how) ==
    /\ alive
    /\ pc[p] = "pairing"
    /\ how = IF sem[p] = "set" THEN "woken" ELSE "timedOut"

PairingWakes(p, how) ==
    /\ Wakes(p, how)
    /\ pc' = [pc EXCEPT ![p] = how]
    /\ UNCHANGED <<service, req, reply, stores, pairing, acts>>

\* Mutant: the thread answers without taking the lock again.
MutPairingReply(p) ==
    /\ alive
    /\ pc[p] \in {"woken", "timedOut"}
    /\ Respond(p, IF pc[p] = "woken" /\ grant[p] # None
                  THEN [kind |-> "paired", of |-> grant[p]]
                  ELSE [kind |-> "pairingTimeout", of |-> None])
    /\ UNCHANGED <<service, req, stores, pairing, acts>>

\* The thread takes the lock, drops the pending request and answers by how it
\* was woken: an approval that came after the time limit is not looked at.
PairingReply(p) ==
    /\ LockFree
    /\ pc[p] \in {"woken", "timedOut"}
    /\ Respond(p, IF pc[p] = "woken" /\ grant[p] # None
                  THEN [kind |-> "paired", of |-> grant[p]]
                  ELSE [kind |-> "pairingTimeout", of |-> None])
    /\ UNCHANGED <<service, req, stores, pairing, acts>>

RevokeSession(t, r) ==
    /\ Executes(t, r, "revokeSession")
    /\ persisted' = [persisted EXCEPT !.sessions[r.target] = "revoked",
                                      !.receipts[r.id] = t]
    /\ pc' = [pc EXCEPT ![t] = "saveState"]
    /\ acts' = acts \cup {t}
    /\ UNCHANGED <<service, reply, attempts, files, pairing>>

----------------------------------------------------------------------------
(* Fixtures and attempts.                                                  *)

GrantFixture(t, r) ==
    /\ Executes(t, r, "grantFixture")
    /\ persisted' = [persisted EXCEPT !.fixture = TRUE, !.receipts[r.id] = t]
    /\ pc' = [pc EXCEPT ![t] = "saveState"]
    /\ acts' = acts \cup {t}
    /\ UNCHANGED <<service, reply, attempts, files, pairing>>

DescribeFixture(t, r) ==
    /\ Executes(t, r, "describeFixture")
    /\ persisted' = [persisted EXCEPT !.receipts[r.id] = t]
    /\ pc' = [pc EXCEPT ![t] = "saveState"]
    /\ UNCHANGED <<service, reply, attempts, files, pairing, acts>>

AttemptWrite(t, r) ==
    /\ Executes(t, r, "attemptWrite")
    /\ persisted' = [persisted EXCEPT !.receipts[r.id] = t]
    /\ attempts' = [attempts EXCEPT !.notes = @ \cup {t}]
    /\ pc' = [pc EXCEPT ![t] = "saveState"]
    /\ acts' = acts \cup {t}
    /\ UNCHANGED <<service, reply, files, pairing>>

\* The helper runs and its attempt takes the place of an ended one, whose
\* notes go with it; no receipt yet.
StartAttempt(t, r) ==
    /\ Executes(t, r, "startAttempt")
    /\ attempts' = [lease |-> t, running |-> TRUE, history |-> attempts.history,
                    notes |-> {n \in attempts.notes :
                                  req[n].target \in attempts.history}]
    /\ helper' = TRUE
    /\ pc' = [pc EXCEPT ![t] = "innerSave"]
    /\ acts' = acts \cup {t}
    /\ UNCHANGED <<alive, exits, losses, reply, persisted, files, pairing>>

\* The helper is signalled and the lock released for the wait.
CancelAttempt(t, r) ==
    /\ Executes(t, r, "cancelAttempt")
    /\ pc' = [pc EXCEPT ![t] = "cancelling"]
    /\ acts' = acts \cup {t}
    /\ UNCHANGED <<service, reply, stores, pairing>>

\* Another process has the helper's pid: nothing is signalled and the attempt
\* is over.
CancelMismatch(t, r) ==
    /\ Executes(t, r, "cancelAttempt")
    /\ attempts' = [attempts EXCEPT !.running = FALSE]
    /\ pc' = [pc EXCEPT ![t] = "innerSave"]
    /\ acts' = acts \cup {t}
    /\ UNCHANGED <<service, reply, persisted, files, pairing>>

\* The exit has been seen, or five seconds are over.
CancelReturns(t) ==
    /\ LockFree
    /\ pc[t] = "cancelling"
    /\ pc' = [pc EXCEPT ![t] = "innerSave"]
    /\ UNCHANGED <<service, req, reply, stores, pairing, acts>>

----------------------------------------------------------------------------
(* persist(): two files, one after the other.                              *)

\* What a write leaves: the new content, or, unnoticed, the old one or a file
\* cut short, which does not decode and is taken for an empty one.
Written(content, old, empty) ==
    {content} \cup IF losses < MaxLosses \/ unsaved # {} THEN {old, empty} ELSE {}

WriteState(state) ==
    /\ stateFile' \in Written(state, stateFile, EmptyState)
    /\ "state" \in unsaved' <=> stateFile' # state

WriteAttempts ==
    /\ attemptsFile' \in Written(attempts', attemptsFile, EmptyAttempts)
    /\ "attempts" \in unsaved' <=> attemptsFile' # attempts'

\* Where one write has failed, the next ones may.
Loses == losses' = IF unsaved = {} /\ unsaved' # {} THEN losses + 1 ELSE losses

Persist(state) ==
    /\ unsaved' \in SUBSET {"state", "attempts"}
    /\ WriteState(state)
    /\ WriteAttempts
    /\ Loses

\* startAttempt and cancel save the attempt themselves; dispatch then makes the
\* receipt, without another look at the receipts.
InnerSaved(t) ==
    /\ alive
    /\ pc[t] = "innerSave"
    /\ UNCHANGED attempts
    /\ Persist(persisted)
    /\ persisted' = [persisted EXCEPT !.receipts[req[t].id] = t]
    /\ pc' = [pc EXCEPT ![t] = "saveState"]
    /\ UNCHANGED <<alive, helper, exits, req, reply, pairing, acts>>

\* The termination handler ends the current attempt and saves.
HelperEnds ==
    /\ LockFree
    /\ helper
    /\ helper' = FALSE
    /\ attempts' = [attempts EXCEPT !.running = FALSE]
    /\ Persist(persisted)
    /\ UNCHANGED <<alive, exits, pc, req, reply, persisted, pairing, acts>>

\* dispatch saves the receipt and what the command changed, then responds.
SaveState(t) ==
    /\ alive
    /\ pc[t] = "saveState"
    /\ unsaved' \in {unsaved \cup {"state"}, unsaved \ {"state"}}
    /\ WriteState(persisted)
    /\ Loses
    /\ pc' = [pc EXCEPT ![t] = "saveAttempts"]
    /\ UNCHANGED <<alive, helper, exits, req, reply, persisted, attempts, attemptsFile,
                   pairing, acts>>

SaveAttempts(t) ==
    /\ alive
    /\ pc[t] = "saveAttempts"
    /\ unsaved' \in {unsaved \cup {"attempts"}, unsaved \ {"attempts"}}
    /\ UNCHANGED attempts
    /\ WriteAttempts
    /\ Loses
    /\ Respond(t, [kind |-> "receipt", of |-> t])
    /\ UNCHANGED <<alive, helper, exits, req, persisted, stateFile, pairing, acts>>

----------------------------------------------------------------------------
(* The service process.                                                    *)

\* load(), reconcile(), then listen: an attempt found running is over and goes
\* to the history, which is saved.
ServiceStart ==
    /\ ~ alive
    /\ alive' = TRUE
    /\ IF attemptsFile.running
       THEN /\ attempts' = [attemptsFile EXCEPT
                              !.lease = None, !.running = FALSE,
                              !.history = @ \cup {attemptsFile.lease}]
            /\ Persist(stateFile)
       ELSE /\ attempts' = attemptsFile
            /\ UNCHANGED <<files, losses>>
    /\ persisted' = stateFile
    /\ UNCHANGED <<helper, exits, pc, req, reply, pairing, acts>>

\* Memory is gone; connections that were being served get a transport error.
ExitWith(state, notes) ==
    /\ alive
    /\ alive' = FALSE
    /\ helper' = FALSE
    /\ half' = half \cup {t \in Connections : /\ pc[t] = "saveAttempts"
                                             /\ t \notin notes.notes}
    /\ pc' = [t \in Connections |-> IF pc[t] = "new" THEN "new" ELSE "done"]
    /\ persisted' = EmptyState
    /\ attempts' = EmptyAttempts
    /\ stateFile' = state
    /\ attemptsFile' = notes
    /\ unsaved' = {}
    /\ grant' = [t \in Connections |-> None]
    /\ sem' = [t \in Connections |-> "clear"]
    /\ UNCHANGED <<req, reply, acts>>

ServiceExit ==
    /\ ExitWith(stateFile, attemptsFile)
    /\ stale' = (stale \/ unsaved # {})
    /\ UNCHANGED <<torn, losses>>

\* persist() runs inside startAttempt, cancel or the termination handler.
InInnerSave == \/ \E t \in Connections : pc[t] = "innerSave"
               \/ LockFree /\ helper

\* An exit between the two writes of such a save.
SplitExit ==
    /\ InInnerSave
    /\ ExitWith(persisted, attemptsFile)
    /\ stale' = (stale \/ "attempts" \in unsaved)
    /\ UNCHANGED <<torn, losses>>

\* An exit after the save of dispatch, before its response is sent.
UnansweredExit ==
    /\ \E t \in Connections : pc[t] = "saveAttempts"
    /\ ExitWith(stateFile, attempts)
    /\ stale' = (stale \/ "state" \in unsaved)
    /\ UNCHANGED <<torn, losses>>

CutsFile == /\ losses < MaxLosses
            /\ losses' = losses + 1
            /\ torn' = TRUE

\* An exit during a write leaves that file cut short.
TornExit ==
    /\ CutsFile
    /\ stale' = (stale \/ unsaved # {})
    /\ \/ /\ InInnerSave \/ \E t \in Connections : pc[t] = "saveState"
          /\ ExitWith(EmptyState, attemptsFile)
       \/ /\ InInnerSave
          /\ ExitWith(persisted, EmptyAttempts)
       \/ /\ \E t \in Connections : pc[t] = "saveAttempts"
          /\ ExitWith(stateFile, EmptyAttempts)

\* The same during the save of reconcile, before the service listens.
TornStart ==
    /\ ~ alive
    /\ attemptsFile.running
    /\ CutsFile
    /\ \/ stateFile' = EmptyState /\ UNCHANGED attemptsFile
       \/ attemptsFile' = EmptyAttempts /\ UNCHANGED stateFile
    /\ UNCHANGED <<alive, helper, stale, half, pc, req, reply, persisted,
                   attempts, unsaved, pairing, acts>>

----------------------------------------------------------------------------

\* The tokens a client can hold: the old session's, and those it was granted.
Held == {Old} \cup {reply[p].of : p \in {q \in Connections :
                            reply[q] # None /\ reply[q].kind = "paired"}}

\* Targets a client can name: what exists, or something that does not.
Targets(command) ==
    CASE command = "approvePairing" ->
             {p \in Connections : pc[p] \in Waiting} \cup {None}
      [] command = "revokeSession" ->
             {s \in Names : persisted.sessions[s] # "none"} \cup {None}
      [] command \in {"cancelAttempt", "attemptWrite"} ->
             {attempts.lease, None}
      [] OTHER -> {None}

Requests ==
    {r \in Request : /\ r.who \in {"creator", "anonymous"} \cup Held
                     /\ r.target \in Targets(r.command)}

Arrives(t, r) ==
    \/ Reject(t, r) \/ Replay(t, r)
    \/ RequestPairing(t, r) \/ ApprovePairing(t, r) \/ RevokeSession(t, r)
    \/ GrantFixture(t, r) \/ DescribeFixture(t, r)
    \/ StartAttempt(t, r) \/ CancelAttempt(t, r) \/ CancelMismatch(t, r)
    \/ AttemptWrite(t, r)

Continues(t) == InnerSaved(t) \/ SaveState(t) \/ SaveAttempts(t)

Next ==
    \/ \E t \in Connections : pc[t] = "new" /\ LockFree
                              /\ \E r \in Requests : Arrives(t, r)
    \/ \E t \in Connections : Continues(t) \/ CancelReturns(t)
    \/ \E p \in Connections : SignalGrant(p) \/ PairingReply(p)
    \/ \E p \in Connections, how \in {"woken", "timedOut"} :
          PairingWakes(p, how)
    \/ HelperEnds
    \/ ServiceStart
    \/ ServiceExit \/ SplitExit \/ UnansweredExit \/ TornExit \/ TornStart

Spec == Init /\ [][Next]_vars

----------------------------------------------------------------------------
(* Properties.                                                             *)

Receipts(t) == reply[t] # None /\ reply[t].kind = "receipt"

\* A pairing request gives at most one session, in memory and on disk, through
\* delayed grants, second approvals with other command IDs, restarts and files
\* cut short.
OneSessionPerRequest ==
    \A a, b \in Connections, state \in {persisted, stateFile} :
        /\ state.sessions[a] # "none"
        /\ state.sessions[b] # "none"
        /\ req[a].target = req[b].target
        => a = b

\* The state a client can count on: the file, or the memory of a service
\* that could not write it and that will lose it when it exits.
KeptState == IF "state" \in unsaved THEN persisted ELSE stateFile
KeptAttempts == IF "attempts" \in unsaved THEN attempts ELSE attemptsFile

\* A client that was told "paired" holds a session that a restart will know:
\* the grant is signalled before the save, and the lock makes up for it.
GrantIsDurable ==
    \A p \in Connections : reply[p] # None /\ reply[p].kind = "paired" =>
        KeptState.sessions[reply[p].of] # "none"

\* A note in attempts.json has its receipt in service-state.json, whatever
\* exits and restarts came between: asking again under the same command ID
\* never finds a note that was kept without its receipt.
NoteHasReceipt ==
    \A t \in attemptsFile.notes : KeptState.receipts[req[t].id] # None

\* A receipt, the first or a replayed one, is sent when it and the effect it
\* speaks of are on disk.  One thing can be missing: the note of a command
\* whose service ended between the two writes of its save.
ReceiptIsDurable ==
    \A t \in Connections : Receipts(t) =>
        LET first == reply[t].of IN
        /\ KeptState.receipts[req[t].id] # None
        /\ req[first].command = "attemptWrite"
             /\ req[first].target \in Leases(KeptAttempts)
           => first \in KeptAttempts.notes \cup half
        /\ req[first].command = "revokeSession" =>
             KeptState.sessions[req[first].target] = "revoked"

\* What clients were told is on disk and the two files agree, as long as no
\* exit has cut a file short (such a file is taken for an empty one) or come
\* after a write that failed.
AnswersAreDurable ==
    /\ TypeOK
    /\ ~ torn /\ ~ stale =>
          GrantIsDurable /\ NoteHasReceipt /\ ReceiptIsDurable

\* Two clients that use one command ID get one receipt, also across restarts
\* with whole files that were saved, unless it is the receipt of a cancel,
\* which may have been on its way.
SameIDSameReceipt ==
    ~ torn /\ ~ stale => \A t, u \in Connections :
        Receipts(t) /\ Receipts(u) /\ req[t].id = req[u].id =>
            \/ reply[t].of = reply[u].of
            \/ \E c \in {reply[t].of, reply[u].of} :
                  req[c].command = "cancelAttempt"

\* Once a client has the receipt of a revocation, no command of that session
\* takes effect again, whatever exits, restarts and cut files follow, unless
\* an exit came after a write that failed.
RevokedStaysOut ==
    [][~ stale => \A a \in Connections, t \in acts' \ acts :
         Receipts(a) /\ reply[a].of = a /\ req[a].command = "revokeSession" =>
             req'[t].who # req[a].target]_vars
=============================================================================
