---------------------- MODULE CommandAuthorityProofs ----------------------
(* What CommandAuthority promises for any connections and command IDs.    *)
EXTENDS CommandAuthority, TLAPS

\* A connection whose request was taken up: one that was rejected left no trace.
Began(t) == req[t] # None
Saving == {"saveState", "saveAttempts"}

\* A connection whose own command has its receipt.
Own(t) == Receipts(t) /\ reply[t].of = t
Cancels(t) == req[t].command = "cancelAttempt"

\* No failed write or cut file has been lost from.
Whole == ~ torn /\ ~ stale

\* Whoever is at work is in a running service, at most one with the lock; a client
\* that has an answer is served.
Locking ==
    /\ \A t \in Connections :
        /\ pc[t] \notin {"new", "done"} => alive /\ Began(t)
        /\ pc[t] = "new" => ~ Began(t)
        /\ pc[t] = "cancelling" => Cancels(t)
        /\ pc[t] = "innerSave" => req[t].command = "startAttempt" \/ Cancels(t)
        /\ reply[t] # None => pc[t] = "done"
        /\ Receipts(t) => Began(t)
    /\ \A t, u \in Connections : pc[t] \in Holding /\ pc[u] \in Holding => t = u
    /\ ~ alive => persisted = EmptyState /\ attempts = EmptyAttempts /\ unsaved = {}

\* The state is on disk but for the command that is about to save it, or else the write
\* is known to have failed.
Saved == alive /\ (\A t \in Connections : pc[t] # "saveState") =>
            "state" \in unsaved \/ stateFile = persisted

\* A name in a store is that of a connection that has begun, or the old one.
Known(x) == x \in Names /\ (x \in Connections => Began(x))

NamesInState(st) ==
    /\ \A a \in Connections : st.sessions[a] # "none" =>
        /\ Began(a)
        /\ req[a].target \in Connections /\ Began(req[a].target)
        /\ pc[req[a].target] \in Waiting => grant[req[a].target] # None
    /\ \A a, b \in Connections :
        st.sessions[a] # "none" /\ st.sessions[b] # "none" /\ req[a].target = req[b].target
        => a = b
    /\ \A c \in CommandIDs : st.receipts[c] # None => Began(st.receipts[c])

NamesInAttempts(A) ==
    /\ \A x \in Leases(A) : Known(x)
    /\ A.running => A.lease # None
    /\ \A t \in A.notes : Began(t)

\* A connection of which a store or an answer speaks.
Recorded(t, st) == \E c \in CommandIDs : st.receipts[c] = t
ToldOf(t) == \E u \in Connections : Receipts(u) /\ reply[u].of = t
Named(t) == Recorded(t, persisted) \/ Recorded(t, stateFile) \/ ToldOf(t)

Naming ==
    /\ NamesInState(persisted) /\ NamesInState(stateFile)
    /\ NamesInAttempts(attempts) /\ NamesInAttempts(attemptsFile)
    /\ \A p \in Connections : grant[p] # None =>
          alive /\ persisted.sessions[grant[p]] # "none"
    /\ \A t \in Connections : Receipts(t) => reply[t].of \in Connections /\ Began(reply[t].of)

\* A connection is named once its command has made its receipt, in the file once that has
\* been written, and to clients when all is saved.
Order ==
    \A t \in Connections :
        /\ Named(t) => pc[t] \in Saving \cup {"done"}
        /\ Recorded(t, stateFile) => pc[t] # "saveState"
        /\ ToldOf(t) => pc[t] = "done"
        /\ /\ Named(t) \/ pc[t] \in Saving
           /\ req[t].command \in {"revokeSession", "attemptWrite"}
           => Known(req[t].target)

KeepsRevocation(t, st) ==
    req[t].command = "revokeSession" => st.sessions[req[t].target] = "revoked"

\* What a command has done before its save.
InHand ==
    \A t \in Connections :
        /\ pc[t] = "innerSave" /\ ~ Cancels(t) => persisted.receipts[req[t].id] = None
        /\ pc[t] \in Saving => persisted.receipts[req[t].id] = t /\ KeepsRevocation(t, persisted)

\* What was told is in the state; the receipt of a command ID changes only by a cancel.
ToldTo(t, st) ==
    /\ reply[t] # None /\ reply[t].kind = "paired" => st.sessions[reply[t].of] # "none"
    /\ Receipts(t) =>
        /\ st.receipts[req[t].id] # None
        /\ \/ st.receipts[req[t].id] = reply[t].of
           \/ Cancels(st.receipts[req[t].id])
           \/ Cancels(reply[t].of)

Told(st) == \A t \in Connections : ToldTo(t, st)

Noted(A, st) == \A t \in A.notes : st.receipts[req[t].id] # None

\* The note of a write whose receipt is on record is with the attempt it was for.
KeepsNote(t, A) ==
    req[t].command = "attemptWrite" /\ req[t].target \in Leases(A) => t \in A.notes \cup half

InMemory ==
    /\ Told(persisted)
    /\ Noted(attempts, persisted) /\ Noted(attemptsFile, persisted)
    /\ \A t \in Connections : Named(t) => KeepsNote(t, attempts) /\ KeepsRevocation(t, persisted)

InFiles ==
    /\ "state" \notin unsaved =>
        /\ Told(stateFile)
        /\ Noted(attemptsFile, stateFile)
        /\ \A t \in Connections :
              Named(t) /\ pc[t] # "saveState" => KeepsRevocation(t, stateFile)
    /\ "attempts" \notin unsaved =>
        \A t \in Connections : Named(t) /\ pc[t] \notin Saving => KeepsNote(t, attemptsFile)

Durable == Whole => (alive => InMemory) /\ InFiles

\* This holds also after a file was cut short, which leaves it empty.
RevokedOut(st) ==
    \A t \in Connections :
        Own(t) /\ req[t].command = "revokeSession" => st.sessions[req[t].target] # "active"

Lasting ==
    ~ stale => RevokedOut(persisted) /\ ("state" \notin unsaved => RevokedOut(stateFile))

Inv ==
    /\ TypeOK
    /\ Locking /\ Saved /\ Naming /\ Order /\ InHand
    /\ Durable /\ SameIDSameReceipt /\ Lasting

---------------------------------------------------------------------------
LEMMA InitInv == Init => Inv
<1> SUFFICES ASSUME Init PROVE Inv
  OBVIOUS
<1> USE NamesAssumption DEF Init, EmptyState, EmptyAttempts
<1>1. PICK session \in {"none", "active", "revoked"} :
        stateFile = [EmptyState EXCEPT !.sessions[Old] = session]
  OBVIOUS
<1>2. /\ stateFile \in Persisted /\ persisted \in Persisted
      /\ \A t \in Connections : stateFile.sessions[t] = "none"
      /\ \A c \in CommandIDs : stateFile.receipts[c] = None /\ persisted.receipts[c] = None
  BY <1>1 DEF Persisted, Names
<1>3. PICK running \in BOOLEAN :
        attemptsFile = [EmptyAttempts EXCEPT !.lease = IF running THEN Old ELSE None,
                                             !.running = running]
  OBVIOUS
<1>4. /\ attempts \in Attempts /\ attemptsFile \in Attempts
      /\ attemptsFile.notes = {} /\ attemptsFile.lease \in {None, Old}
      /\ attemptsFile.history = {}
      /\ attemptsFile.running => attemptsFile.lease # None
  BY <1>3 DEF Attempts, Names
<1>5. TypeOK
  <2>1. losses \in 0 .. MaxLosses /\ unsaved = {} /\ half = {}
    BY LossesAssumption
  <2> QED
    BY <1>2, <1>4, <2>1 DEF TypeOK
<1>6. Locking /\ Saved /\ InHand
  BY DEF Locking, Saved, InHand, Holding, Saving, Began, Receipts
<1>7. Naming
  BY <1>2, <1>4 DEF Naming, NamesInState, NamesInAttempts, Known, Receipts, Began, Names, Leases
<1>8. \A t \in Connections : ~ Named(t)
  BY <1>2 DEF Named, Recorded, ToldOf, Receipts
<1>9. Order /\ Durable /\ SameIDSameReceipt /\ Lasting
  BY <1>4, <1>8 DEF Order, Saving, Durable, InMemory, InFiles, SameIDSameReceipt, Lasting, Told,
     ToldTo, Noted, RevokedOut, Own, Receipts, Named
<1> QED
  BY <1>5, <1>6, <1>7, <1>9 DEF Inv

\* What each command writes has the type of what it writes to.
LEMMA StateType ==
    ASSUME NEW st \in Persisted
    PROVE  /\ \A t \in Connections, c \in CommandIDs :
                /\ [st EXCEPT !.receipts[c] = t] \in Persisted
                /\ [st EXCEPT !.sessions[t] = "active", !.receipts[c] = t] \in Persisted
                /\ [st EXCEPT !.fixture = TRUE, !.receipts[c] = t] \in Persisted
           /\ \A t \in Connections, c \in CommandIDs, s \in Names :
                [st EXCEPT !.sessions[s] = "revoked", !.receipts[c] = t] \in Persisted
BY DEF Persisted, Names

LEMMA AttemptsType ==
    ASSUME NEW A \in Attempts
    PROVE  /\ [A EXCEPT !.running = FALSE] \in Attempts
           /\ EmptyAttempts \in Attempts /\ EmptyState \in Persisted
           /\ \A t \in Connections :
                /\ [A EXCEPT !.notes = @ \cup {t}] \in Attempts
                /\ [lease |-> t, running |-> TRUE, history |-> A.history,
                    notes |-> {n \in A.notes : req[n].target \in A.history}] \in Attempts
           /\ A.lease # None =>
                [A EXCEPT !.lease = None, !.running = FALSE,
                          !.history = @ \cup {A.lease}] \in Attempts
BY DEF Attempts, Names, EmptyAttempts, EmptyState, Persisted

LEMMA ReplyType ==
    /\ Rejected \in Reply
    /\ [kind |-> "pairingTimeout", of |-> None] \in Reply
    /\ \A n \in Names : [kind |-> "paired", of |-> n] \in Reply /\ [kind |-> "receipt", of |-> n] \in Reply
BY DEF Rejected, Reply

\* A write fails only where one is allowed to.
LEMMA SaveType ==
    ASSUME TypeOK, Loses,
           unsaved = {} /\ unsaved' # {} => losses < MaxLosses
    PROVE  losses' \in 0 .. MaxLosses
BY LossesAssumption DEF TypeOK, Loses

\* What persist() leaves.
LEMMA Saves ==
    ASSUME TypeOK, NEW st \in Persisted, Persist(st), attempts' \in Attempts
    PROVE  /\ stateFile' \in {st, stateFile, EmptyState}
           /\ "state" \notin unsaved' => stateFile' = st
           /\ attemptsFile' \in {attempts', attemptsFile, EmptyAttempts}
           /\ "attempts" \notin unsaved' => attemptsFile' = attempts'
           /\ stateFile' \in Persisted /\ attemptsFile' \in Attempts
           /\ unsaved' \in SUBSET {"state", "attempts"} /\ losses' \in 0 .. MaxLosses
<1>1. EmptyState \in Persisted /\ EmptyAttempts \in Attempts
  BY AttemptsType DEF TypeOK
<1>2. /\ stateFile' \in {st, stateFile, EmptyState}
      /\ "state" \notin unsaved' => stateFile' = st
      /\ attemptsFile' \in {attempts', attemptsFile, EmptyAttempts}
      /\ "attempts" \notin unsaved' => attemptsFile' = attempts'
      /\ unsaved' \in SUBSET {"state", "attempts"}
  BY DEF Persist, WriteState, WriteAttempts, Written
<1>3. unsaved = {} /\ unsaved' # {} => losses < MaxLosses
  <2> SUFFICES ASSUME unsaved = {}, ~ (losses < MaxLosses) PROVE unsaved' = {}
    OBVIOUS
  <2>1. stateFile' = st /\ attemptsFile' = attempts'
    BY DEF Persist, WriteState, WriteAttempts, Written
  <2> QED
    BY <1>2, <2>1 DEF Persist, WriteState, WriteAttempts
<1>4. losses' \in 0 .. MaxLosses
  BY <1>3, SaveType DEF Persist
<1> QED
  BY <1>1, <1>2, <1>4 DEF TypeOK

LEMMA TypeStep == Inv /\ [Next]_vars => TypeOK'
<1> SUFFICES ASSUME Inv, [Next]_vars PROVE TypeOK'
  OBVIOUS
<1>0. TypeOK
  BY DEF Inv
<1> USE <1>0 DEF TypeOK, service, stores, pairing, files, exits, Waiting, Holding
<1>1. ASSUME NEW t \in Connections, NEW r \in Request, Arrives(t, r) PROVE TypeOK'
  <2>1. CASE Reject(t, r)
    BY <2>1, ReplyType DEF Reject, Respond
  <2>0. ASSUME ~ Reject(t, r)
        PROVE  r.id \in CommandIDs /\ t \in Names /\ req' = [req EXCEPT ![t] = r]
    BY <1>1, <2>0 DEF Arrives, Replay, RequestPairing, ApprovePairing, RevokeSession,
       GrantFixture, DescribeFixture, StartAttempt, CancelAttempt, CancelMismatch, AttemptWrite,
       Executes, Brings, Request, Names
  <2>2. CASE Replay(t, r) /\ ~ Reject(t, r)
    <3>1. persisted.receipts[r.id] \in Names
      BY <2>0, <2>2 DEF Replay, Fresh, Persisted, Names
    <3> QED
      BY <2>0, <2>2, <3>1, ReplyType DEF Replay, Respond
  <2>3. CASE RequestPairing(t, r) /\ ~ Reject(t, r)
    BY <2>0, <2>3 DEF RequestPairing
  <2>4. CASE ApprovePairing(t, r) /\ ~ Reject(t, r)
    <3>1. persisted' \in Persisted
      BY <2>0, <2>4, StateType DEF ApprovePairing
    <3>2. sem' \in [Connections -> {"clear", "due", "set"}]
      BY <2>4 DEF ApprovePairing
    <3>3. /\ grant' = [grant EXCEPT ![r.target] = t]
          /\ pc' = [pc EXCEPT ![t] = "saveState"] /\ acts' = acts \cup {t}
          /\ UNCHANGED <<service, reply, attempts, files>>
      BY <2>4, Zenon DEF ApprovePairing
    <3> QED
      <4>1. /\ pc' \in [Connections -> {"new", "cancelling", "done"} \cup Waiting \cup Holding]
            /\ grant' \in [Connections -> Names \cup {None}]
            /\ acts' \in SUBSET Connections
        BY <2>4, <2>0, <3>3
      <4>2. req' \in [Connections -> Request \cup {None}]
        BY <2>4, <2>0
      <4>3. /\ UNCHANGED <<alive, helper, torn, stale, half, losses>>
            /\ UNCHANGED <<reply, attempts, stateFile, attemptsFile, unsaved>>
        BY <3>3
      <4> QED
        BY <3>1, <3>2, <4>1, <4>2, <4>3
  <2>5. CASE RevokeSession(t, r) /\ ~ Reject(t, r)
    <3>1. r.target \in Names
      BY <2>5 DEF RevokeSession, Executes, Succeeds
    <3>2. persisted' \in Persisted
      BY <2>0, <2>5, <3>1, StateType DEF RevokeSession
    <3> QED
      BY <2>0, <2>5, <3>2 DEF RevokeSession
  <2>6. CASE GrantFixture(t, r) /\ ~ Reject(t, r)
    <3>1. persisted' \in Persisted
      BY <2>0, <2>6, StateType DEF GrantFixture
    <3> QED
      BY <2>0, <2>6, <3>1 DEF GrantFixture
  <2>7. CASE DescribeFixture(t, r) /\ ~ Reject(t, r)
    <3>1. persisted' \in Persisted
      BY <2>0, <2>7, StateType DEF DescribeFixture
    <3> QED
      BY <2>0, <2>7, <3>1 DEF DescribeFixture
  <2>8. CASE AttemptWrite(t, r) /\ ~ Reject(t, r)
    <3>1. persisted' \in Persisted /\ attempts' \in Attempts
      BY <2>0, <2>8, StateType, AttemptsType DEF AttemptWrite
    <3> QED
      BY <2>0, <2>8, <3>1 DEF AttemptWrite
  <2>9. CASE StartAttempt(t, r) /\ ~ Reject(t, r)
    <3>1. attempts' \in Attempts
      BY <2>0, <2>9, AttemptsType DEF StartAttempt
    <3> QED
      BY <2>0, <2>9, <3>1 DEF StartAttempt
  <2>10. CASE CancelAttempt(t, r) /\ ~ Reject(t, r)
    BY <2>0, <2>10 DEF CancelAttempt
  <2>11. CASE CancelMismatch(t, r) /\ ~ Reject(t, r)
    BY <2>0, <2>11, AttemptsType DEF CancelMismatch
  <2> QED
    BY <1>1, <2>1, <2>2, <2>3, <2>4, <2>5, <2>6, <2>7, <2>8, <2>9, <2>10, <2>11 DEF Arrives
<1>2. ASSUME NEW t \in Connections, InnerSaved(t) PROVE TypeOK'
  <2>1. req[t].id \in CommandIDs
    BY <1>2 DEF InnerSaved, Inv, Locking, Began, Request
  <2>2. persisted' \in Persisted
    BY <1>2, <2>1, StateType DEF InnerSaved
  <2>3. attempts' \in Attempts /\ persisted \in Persisted
    BY <1>2 DEF InnerSaved
  <2>4. /\ stateFile' \in Persisted /\ attemptsFile' \in Attempts
        /\ unsaved' \in SUBSET {"state", "attempts"} /\ losses' \in 0 .. MaxLosses
    BY <1>2, <2>3, Saves DEF InnerSaved
  <2> QED
    BY <1>2, <2>2, <2>3, <2>4 DEF InnerSaved
<1>3. ASSUME NEW t \in Connections, CancelReturns(t) PROVE TypeOK'
  BY <1>3 DEF CancelReturns
<1>4. ASSUME NEW t \in Connections, SaveState(t) PROVE TypeOK'
  <2>1. stateFile' \in Persisted
    BY <1>4, AttemptsType DEF SaveState, WriteState, Written
  <2>2. unsaved = {} /\ unsaved' # {} => losses < MaxLosses
    BY <1>4 DEF SaveState, WriteState, Written
  <2>3. losses' \in 0 .. MaxLosses
    BY <1>4, <2>2, SaveType DEF SaveState
  <2> QED
    BY <1>4, <2>1, <2>3 DEF SaveState
<1>5. ASSUME NEW t \in Connections, SaveAttempts(t) PROVE TypeOK'
  <2>1. attemptsFile' \in Attempts
    BY <1>5, AttemptsType DEF SaveAttempts, WriteAttempts, Written
  <2>2. unsaved = {} /\ unsaved' # {} => losses < MaxLosses
    BY <1>5 DEF SaveAttempts, WriteAttempts, Written
  <2>3. losses' \in 0 .. MaxLosses
    BY <1>5, <2>2, SaveType DEF SaveAttempts
  <2> QED
    BY <1>5, <2>1, <2>3, ReplyType DEF SaveAttempts, Respond, Names
<1>6. ASSUME NEW p \in Connections, SignalGrant(p) PROVE TypeOK'
  BY <1>6 DEF SignalGrant
<1>7. ASSUME NEW p \in Connections, PairingReply(p) PROVE TypeOK'
  BY <1>7, ReplyType DEF PairingReply, Respond
<1>8. ASSUME NEW p \in Connections, NEW how \in {"woken", "timedOut"}, PairingWakes(p, how)
      PROVE  TypeOK'
  BY <1>8 DEF PairingWakes
<1>9. CASE HelperEnds
  <2>1. attempts' \in Attempts
    BY <1>9, AttemptsType DEF HelperEnds
  <2>2. /\ stateFile' \in Persisted /\ attemptsFile' \in Attempts
        /\ unsaved' \in SUBSET {"state", "attempts"} /\ losses' \in 0 .. MaxLosses
    BY <1>9, <2>1, Saves DEF HelperEnds
  <2> QED
    BY <1>9, <2>1, <2>2 DEF HelperEnds
<1>10. CASE ServiceStart
  <2>1. CASE attemptsFile.running
    <3>1. attempts' \in Attempts
      BY <1>10, <2>1, AttemptsType DEF ServiceStart, Inv, Naming, NamesInAttempts
    <3>2. /\ stateFile' \in Persisted /\ attemptsFile' \in Attempts
          /\ unsaved' \in SUBSET {"state", "attempts"} /\ losses' \in 0 .. MaxLosses
      BY <1>10, <2>1, <3>1, Saves DEF ServiceStart
    <3> QED
      BY <1>10, <3>1, <3>2 DEF ServiceStart
  <2>2. CASE ~ attemptsFile.running
    BY <1>10, <2>2 DEF ServiceStart
  <2> QED
    BY <2>1, <2>2
<1>11. CASE ServiceExit \/ SplitExit \/ UnansweredExit \/ TornExit
  <2>0. EmptyAttempts \in Attempts /\ EmptyState \in Persisted
    BY AttemptsType
  <2>1. stateFile' \in Persisted /\ attemptsFile' \in Attempts
    <3>1. stateFile' \in {stateFile, persisted, EmptyState}
      BY <1>11 DEF ServiceExit, SplitExit, UnansweredExit, TornExit, ExitWith
    <3>2. attemptsFile' \in {attemptsFile, attempts, EmptyAttempts}
      BY <1>11 DEF ServiceExit, SplitExit, UnansweredExit, TornExit, ExitWith
    <3> QED
      BY <2>0, <3>1, <3>2
  <2>2. losses' \in 0 .. MaxLosses
    BY <1>11, LossesAssumption
       DEF ServiceExit, SplitExit, UnansweredExit, TornExit, CutsFile
  <2>3. PICK state, notes : ExitWith(state, notes)
    BY <1>11 DEF ServiceExit, SplitExit, UnansweredExit, TornExit
  <2>4. torn' \in BOOLEAN /\ stale' \in BOOLEAN
    BY <1>11 DEF ServiceExit, SplitExit, UnansweredExit, TornExit, CutsFile
  <2> QED
    BY <2>0, <2>1, <2>2, <2>3, <2>4 DEF ExitWith
<1>12. CASE TornStart
  <2>1. losses' \in 0 .. MaxLosses /\ torn' \in BOOLEAN
    BY <1>12, LossesAssumption DEF TornStart, CutsFile
  <2>2. stateFile' \in Persisted /\ attemptsFile' \in Attempts
    BY <1>12, AttemptsType DEF TornStart
  <2> QED
    BY <1>12, <2>1, <2>2 DEF TornStart
<1>13. CASE UNCHANGED vars
  BY <1>13 DEF vars
<1> QED
  BY <1>1, <1>2, <1>3, <1>4, <1>5, <1>6, <1>7, <1>8, <1>9, <1>10, <1>11, <1>12, <1>13
     DEF Next, Continues, Requests

---------------------------------------------------------------------------
(* The effects of the steps, with the stores field by field.              *)

KeepsFiles == UNCHANGED <<stateFile, attemptsFile, unsaved>>
KeepsExits == UNCHANGED <<torn, stale, half>>

SavesState(st) ==
    /\ stateFile' \in {st, stateFile, EmptyState}
    /\ "state" \notin unsaved' => stateFile' = st

SavesAttempts ==
    /\ attemptsFile' \in {attempts', attemptsFile, EmptyAttempts}
    /\ "attempts" \notin unsaved' => attemptsFile' = attempts'

EffectReject(t) ==
    /\ alive /\ alive' /\ KeepsExits /\ KeepsFiles
    /\ pc[t] = "new" /\ reply[t] = None
    /\ pc' = [pc EXCEPT ![t] = "done"]
    /\ reply' = [reply EXCEPT ![t] = Rejected]
    /\ UNCHANGED <<req, persisted, attempts, grant>>

\* A request that comes to a free lock finds everything saved, or known not to be.
Entry(t, r) ==
    /\ alive /\ ("state" \in unsaved \/ stateFile = persisted)
    /\ \A u \in Connections : pc[u] \notin Holding
    /\ pc[t] = "new" /\ reply[t] = None /\ req[t] = None
    /\ r.target \in Connections => Began(r.target)
    /\ req' = [req EXCEPT ![t] = r]
    /\ alive' /\ KeepsExits /\ KeepsFiles

EffectAnswer(t, r) ==
    /\ Entry(t, r)
    /\ pc' = [pc EXCEPT ![t] = "done"]
    /\ persisted.receipts[r.id] # None
    /\ reply' = [reply EXCEPT ![t] = [kind |-> "receipt", of |-> persisted.receipts[r.id]]]
    /\ UNCHANGED <<persisted, attempts, grant>>

EffectPairing(t, r) ==
    /\ Entry(t, r)
    /\ pc' = [pc EXCEPT ![t] = "pairing"]
    /\ UNCHANGED <<reply, persisted, attempts, grant>>

Approves(t, r) ==
    /\ r.command = "approvePairing"
    /\ r.target \in Connections /\ pc[r.target] \in Waiting /\ grant[r.target] = None
    /\ persisted'.sessions = [persisted.sessions EXCEPT ![t] = "active"]
    /\ grant' = [grant EXCEPT ![r.target] = t]
    /\ attempts' = attempts

Revokes(t, r) ==
    /\ r.command = "revokeSession"
    /\ r.target \in Names /\ persisted.sessions[r.target] # "none"
    /\ persisted'.sessions = [persisted.sessions EXCEPT ![r.target] = "revoked"]
    /\ UNCHANGED <<grant, attempts>>

Writes(t, r) ==
    /\ r.command = "attemptWrite"
    /\ attempts.running /\ attempts.lease = r.target /\ r.target \in Names
    /\ attempts'.lease = attempts.lease /\ attempts'.running = attempts.running
    /\ attempts'.history = attempts.history
    /\ attempts'.notes = attempts.notes \cup {t}
    /\ persisted'.sessions = persisted.sessions
    /\ grant' = grant

OnlyReceipt(t, r) ==
    /\ r.command \in {"grantFixture", "describeFixture"}
    /\ persisted'.sessions = persisted.sessions
    /\ UNCHANGED <<grant, attempts>>

EffectCommand(t, r) ==
    /\ Entry(t, r)
    /\ pc' = [pc EXCEPT ![t] = "saveState"] /\ reply' = reply
    /\ persisted.receipts[r.id] = None
    /\ persisted'.receipts = [persisted.receipts EXCEPT ![r.id] = t]
    /\ Approves(t, r) \/ Revokes(t, r) \/ Writes(t, r) \/ OnlyReceipt(t, r)

EffectStart(t, r) ==
    /\ Entry(t, r)
    /\ r.command = "startAttempt"
    /\ pc' = [pc EXCEPT ![t] = "innerSave"] /\ reply' = reply
    /\ persisted.receipts[r.id] = None
    /\ attempts' = [lease |-> t, running |-> TRUE, history |-> attempts.history,
                    notes |-> {n \in attempts.notes : req[n].target \in attempts.history}]
    /\ UNCHANGED <<persisted, grant>>

\* The attempt stays on record, with its notes; it may be over.
SameAttempts ==
    /\ attempts'.lease = attempts.lease /\ attempts'.history = attempts.history
    /\ attempts'.notes = attempts.notes
    /\ attempts'.running => attempts.running

EffectCancel(t, r) ==
    /\ Entry(t, r)
    /\ r.command = "cancelAttempt"
    /\ \E stage \in {"cancelling", "innerSave"} : pc' = [pc EXCEPT ![t] = stage]
    /\ reply' = reply
    /\ SameAttempts
    /\ UNCHANGED <<persisted, grant>>

EffectArrival(t, r) ==
    \/ EffectAnswer(t, r) \/ EffectPairing(t, r) \/ EffectCommand(t, r)
    \/ EffectStart(t, r) \/ EffectCancel(t, r)

LEMMA ArrivalEntry ==
    ASSUME NEW t \in Connections, NEW r \in Request, EffectArrival(t, r)
    PROVE  Entry(t, r)
BY DEF EffectArrival, EffectAnswer, EffectPairing, EffectCommand, EffectStart, EffectCancel

LEMMA SameFields ==
    ASSUME NEW A \in Attempts
    PROVE  LET B == [A EXCEPT !.running = FALSE]
           IN  B.lease = A.lease /\ B.history = A.history /\ B.notes = A.notes /\ ~ B.running
BY DEF Attempts

LEMMA Arrival ==
    ASSUME Inv, NEW t \in Connections, NEW r \in Requests, Arrives(t, r)
    PROVE  EffectReject(t) \/ EffectArrival(t, r)
<1>0. /\ r.id \in CommandIDs /\ r \in Request /\ t \in Names
      /\ persisted \in Persisted /\ attempts \in Attempts
  BY DEF Request, Requests, Names, Inv, TypeOK
<1>1. CASE Reject(t, r)
  BY <1>1 DEF Reject, LockFree, Respond, EffectReject, KeepsExits, KeepsFiles, Inv, Locking,
     service, stores, pairing, files, exits
<1> SUFFICES ASSUME ~ Reject(t, r) PROVE EffectArrival(t, r)
  BY <1>1
<1>2. Brings(t, r) /\ alive' = alive /\ KeepsExits /\ KeepsFiles
  BY DEF Arrives, Replay, RequestPairing, ApprovePairing, RevokeSession,
     GrantFixture, DescribeFixture, StartAttempt, CancelAttempt, CancelMismatch, AttemptWrite,
     Executes, stores, service, files, exits, KeepsExits, KeepsFiles
<1>3. /\ alive /\ \A u \in Connections : pc[u] \notin Holding
      /\ pc[t] = "new" /\ req' = [req EXCEPT ![t] = r]
  BY <1>2 DEF Brings, LockFree
<1>4. r.target \in Connections => Began(r.target)
  <2>1. r.target \in Targets(r.command)
    BY DEF Requests
  <2>2. CASE r.command = "approvePairing"
    BY <2>1, <2>2, NamesAssumption DEF Targets, Waiting, Inv, Locking
  <2>3. CASE r.command = "revokeSession"
    BY <2>1, <2>3, NamesAssumption DEF Targets, Inv, Naming, NamesInState
  <2>4. CASE r.command \in {"cancelAttempt", "attemptWrite"}
    <3>1. r.target = attempts.lease \/ r.target = None
      BY <2>1, <2>4 DEF Targets
    <3> QED
      BY <3>1, NamesAssumption DEF Inv, Naming, NamesInAttempts, Known, Leases
  <2>5. CASE r.command \notin {"approvePairing", "revokeSession", "cancelAttempt", "attemptWrite"}
    <3>1. r.target = None
      BY <2>1, <2>5 DEF Targets
    <3> QED
      BY <3>1, NamesAssumption
  <2> QED
    BY <2>2, <2>3, <2>4, <2>5
<1>5. Entry(t, r)
  BY <1>2, <1>3, <1>4 DEF Entry, Inv, Saved, Locking, Holding, Began
<1>6. ASSUME Executes(t, r, r.command)
      PROVE  persisted.receipts[r.id] = None /\ Succeeds(r)
  BY <1>6 DEF Executes, Fresh
<1>7. CASE Replay(t, r)
  BY <1>5, <1>7 DEF Replay, Fresh, Respond, EffectArrival, EffectAnswer, stores, pairing
<1>8. CASE RequestPairing(t, r)
  BY <1>5, <1>8 DEF RequestPairing, EffectArrival, EffectPairing, stores, pairing
<1>9. CASE ApprovePairing(t, r)
  <2>1. Approves(t, r)
    BY <1>0, <1>6, <1>9 DEF ApprovePairing, Executes, Succeeds, Approves, Persisted
  <2> QED
    BY <1>0, <1>5, <1>6, <1>9, <2>1
       DEF ApprovePairing, Executes, EffectArrival, EffectCommand, Persisted
<1>10. CASE RevokeSession(t, r)
  <2>1. Revokes(t, r)
    BY <1>0, <1>6, <1>10 DEF RevokeSession, Executes, Succeeds, Revokes, Persisted, pairing
  <2> QED
    BY <1>0, <1>5, <1>6, <1>10, <2>1
       DEF RevokeSession, Executes, EffectArrival, EffectCommand, Persisted
<1>11. CASE AttemptWrite(t, r)
  <2>0. r.command = "attemptWrite" /\ attempts.running /\ attempts.lease = r.target
    BY <1>6, <1>11 DEF AttemptWrite, Executes, Succeeds
  <2>1. r.target \in Names
    BY <1>0, <2>0 DEF Inv, Naming, NamesInAttempts, Attempts
  <2>2. Writes(t, r)
    BY <1>0, <1>11, <2>0, <2>1 DEF AttemptWrite, Writes, Persisted, Attempts, pairing
  <2> QED
    BY <1>0, <1>5, <1>6, <1>11, <2>2
       DEF AttemptWrite, Executes, EffectArrival, EffectCommand, Persisted
<1>12. CASE GrantFixture(t, r) \/ DescribeFixture(t, r)
  <2>1. OnlyReceipt(t, r)
    BY <1>0, <1>12 DEF GrantFixture, DescribeFixture, Executes, OnlyReceipt, Persisted, pairing
  <2> QED
    BY <1>0, <1>5, <1>6, <1>12, <2>1
       DEF GrantFixture, DescribeFixture, Executes, EffectArrival, EffectCommand, Persisted
<1>13. CASE StartAttempt(t, r)
  BY <1>5, <1>6, <1>13 DEF StartAttempt, Executes, EffectArrival, EffectStart, pairing
<1>14. CASE CancelAttempt(t, r)
  BY <1>5, <1>14 DEF CancelAttempt, Executes, EffectArrival, EffectCancel, SameAttempts, stores, pairing
<1>15. CASE CancelMismatch(t, r)
  <2>1. SameAttempts
    BY <1>0, <1>15, SameFields DEF CancelMismatch, SameAttempts
  <2> QED
    BY <1>5, <1>15, <2>1 DEF CancelMismatch, Executes, EffectArrival, EffectCancel, pairing
<1> QED
  BY <1>7, <1>8, <1>9, <1>10, <1>11, <1>12, <1>13, <1>14, <1>15 DEF Arrives

\* A cancel takes the lock again.
EffectReturns(t) ==
    /\ alive /\ UNCHANGED <<alive, req, reply, persisted, attempts, grant>>
    /\ KeepsExits /\ KeepsFiles
    /\ \A u \in Connections : pc[u] \notin Holding
    /\ pc[t] = "cancelling" /\ pc' = [pc EXCEPT ![t] = "innerSave"]

\* A start's or a cancel's own save, and its receipt.
EffectReceipt(t) ==
    /\ alive /\ UNCHANGED <<alive, req, reply, attempts, grant>> /\ KeepsExits
    /\ pc[t] = "innerSave" /\ pc' = [pc EXCEPT ![t] = "saveState"]
    /\ persisted'.sessions = persisted.sessions
    /\ persisted'.receipts = [persisted.receipts EXCEPT ![req[t].id] = t]
    /\ SavesState(persisted) /\ SavesAttempts

EffectSaveState(t) ==
    /\ alive /\ UNCHANGED <<alive, req, reply, persisted, attempts, attemptsFile, grant>> /\ KeepsExits
    /\ pc[t] = "saveState" /\ pc' = [pc EXCEPT ![t] = "saveAttempts"]
    /\ SavesState(persisted) /\ ("attempts" \in unsaved' <=> "attempts" \in unsaved)

EffectSaveAttempts(t) ==
    /\ alive /\ UNCHANGED <<alive, req, persisted, stateFile, attempts, grant>> /\ KeepsExits
    /\ pc[t] = "saveAttempts" /\ pc' = [pc EXCEPT ![t] = "done"]
    /\ reply' = [reply EXCEPT ![t] = [kind |-> "receipt", of |-> t]]
    /\ "state" \in unsaved \/ stateFile = persisted
    /\ ("state" \in unsaved' <=> "state" \in unsaved) /\ SavesAttempts

\* A pairing thread wakes, or answers.
EffectWakes(p) ==
    /\ alive /\ UNCHANGED <<alive, req, reply, persisted, attempts, grant>>
    /\ KeepsExits /\ KeepsFiles
    /\ pc[p] = "pairing" /\ \E how \in {"woken", "timedOut"} : pc' = [pc EXCEPT ![p] = how]

EffectPaired(p) ==
    /\ alive /\ UNCHANGED <<alive, req, persisted, attempts, grant>>
    /\ KeepsExits /\ KeepsFiles
    /\ pc[p] \in Waiting /\ pc' = [pc EXCEPT ![p] = "done"]
    /\ "state" \in unsaved \/ stateFile = persisted
    /\ \/ /\ grant[p] # None
          /\ reply' = [reply EXCEPT ![p] = [kind |-> "paired", of |-> grant[p]]]
       \/ reply' = [reply EXCEPT ![p] = [kind |-> "pairingTimeout", of |-> None]]

EffectHelperEnds ==
    /\ alive /\ UNCHANGED <<alive, pc, req, reply, persisted, grant>> /\ KeepsExits
    /\ \A u \in Connections : pc[u] \notin Holding
    /\ SameAttempts
    /\ SavesState(persisted) /\ SavesAttempts

EffectServiceStart ==
    /\ ~ alive /\ alive' /\ UNCHANGED <<pc, req, reply, grant>> /\ KeepsExits
    /\ persisted' = stateFile
    /\ Leases(attempts') = Leases(attemptsFile)
    /\ attempts'.notes = attemptsFile.notes
    /\ attempts'.running => attempts'.lease # None
    /\ SavesState(stateFile) /\ SavesAttempts

EffectTornStart ==
    /\ ~ alive /\ ~ alive' /\ torn' /\ stale' = stale
    /\ UNCHANGED <<pc, req, reply, grant, persisted, attempts, unsaved>>
    /\ stateFile' \in {stateFile, EmptyState}
    /\ attemptsFile' \in {attemptsFile, EmptyAttempts}

NoneSaving == \A t \in Connections : pc[t] \notin Saving

\* What an exit leaves of the files: both as they are, one more of them written, or cut.
Leaves ==
    \/ /\ UNCHANGED <<torn, stateFile, attemptsFile>>
       /\ stale' = (stale \/ unsaved # {})
    \/ /\ NoneSaving /\ stateFile' = persisted /\ UNCHANGED <<torn, attemptsFile>>
       /\ stale' = (stale \/ "attempts" \in unsaved)
    \/ /\ UNCHANGED <<torn, stateFile>> /\ attemptsFile' = attempts
       /\ (\A t \in Connections : pc[t] # "saveState")
       /\ stale' = (stale \/ "state" \in unsaved)
    \/ /\ torn' /\ stale' = (stale \/ unsaved # {})
       /\ \/ stateFile' \in {stateFile, EmptyState}
          \/ NoneSaving /\ stateFile' = persisted
       /\ attemptsFile' \in {attemptsFile, EmptyAttempts}

EffectExit ==
    /\ alive /\ ~ alive' /\ UNCHANGED <<req, reply>>
    /\ pc' = [t \in Connections |-> IF pc[t] = "new" THEN "new" ELSE "done"]
    /\ persisted' = EmptyState /\ attempts' = EmptyAttempts /\ unsaved' = {}
    /\ grant' = [t \in Connections |-> None]
    /\ half \subseteq half'
    /\ \A t \in Connections : pc[t] = "saveAttempts" => t \in half' \cup attemptsFile'.notes
    /\ Leaves

Nothing == /\ UNCHANGED <<alive, pc, req, reply, persisted, attempts, grant>>
           /\ KeepsExits /\ KeepsFiles

Effect ==
    \/ \E t \in Connections : EffectReject(t)
    \/ \E t \in Connections : \E r \in Request : EffectArrival(t, r)
    \/ \E t \in Connections :
        \/ EffectReturns(t) \/ EffectReceipt(t) \/ EffectSaveState(t) \/ EffectSaveAttempts(t)
        \/ EffectWakes(t) \/ EffectPaired(t)
    \/ EffectHelperEnds \/ EffectServiceStart \/ EffectTornStart \/ EffectExit \/ Nothing

LEMMA StepEffect == Inv /\ [Next]_vars => Effect
<1> SUFFICES ASSUME Inv, [Next]_vars PROVE Effect
  OBVIOUS
<1> USE DEF Effect
<1>0. TypeOK /\ Locking /\ Saved /\ TypeOK'
  BY TypeStep DEF Inv
<1>1. ASSUME NEW t \in Connections, NEW r \in Requests, Arrives(t, r) PROVE Effect
  BY <1>1, Arrival DEF Requests
<1>2. ASSUME NEW t \in Connections, InnerSaved(t) PROVE Effect
  <2>1. persisted \in Persisted /\ req[t].id \in CommandIDs
    BY <1>0, <1>2 DEF InnerSaved, Locking, Began, Request, TypeOK
  <2>2. SavesState(persisted) /\ SavesAttempts
    BY <1>0, <1>2, Saves DEF InnerSaved, SavesState, SavesAttempts, TypeOK
  <2>3. EffectReceipt(t)
    BY <1>2, <2>1, <2>2 DEF InnerSaved, EffectReceipt, Persisted, exits, pairing, KeepsExits
  <2> QED
    BY <2>3
<1>3. ASSUME NEW t \in Connections, CancelReturns(t) PROVE Effect
  BY <1>3 DEF CancelReturns, LockFree, EffectReturns, service, stores, pairing, files, exits,
     KeepsExits, KeepsFiles
<1>4. ASSUME NEW t \in Connections, SaveState(t) PROVE Effect
  <2>1. SavesState(persisted)
    BY <1>4 DEF SaveState, WriteState, Written, SavesState
  <2> QED
    BY <1>4, <2>1 DEF SaveState, EffectSaveState, exits, pairing, KeepsExits
<1>5. ASSUME NEW t \in Connections, SaveAttempts(t) PROVE Effect
  <2>1. "state" \in unsaved \/ stateFile = persisted
    BY <1>0, <1>5 DEF SaveAttempts, Locking, Saved, Holding
  <2>2. SavesAttempts
    BY <1>5 DEF SaveAttempts, WriteAttempts, Written, SavesAttempts
  <2> QED
    BY <1>5, <2>1, <2>2 DEF SaveAttempts, Respond, EffectSaveAttempts, exits, pairing, KeepsExits
<1>6. ASSUME NEW p \in Connections, SignalGrant(p) PROVE Effect
  BY <1>6 DEF SignalGrant, Nothing, service, stores, files, exits, KeepsExits, KeepsFiles
<1>7. ASSUME NEW p \in Connections, PairingReply(p) PROVE Effect
  <2>1. "state" \in unsaved \/ stateFile = persisted
    BY <1>0, <1>7 DEF PairingReply, LockFree, Saved, Holding
  <2> QED
    BY <1>7, <2>1 DEF PairingReply, LockFree, Respond, EffectPaired, Waiting, service, stores,
       pairing, files, exits, KeepsExits, KeepsFiles
<1>8. ASSUME NEW p \in Connections, NEW how \in {"woken", "timedOut"}, PairingWakes(p, how)
      PROVE  Effect
  BY <1>8 DEF PairingWakes, Wakes, EffectWakes, service, stores, pairing, files, exits,
     KeepsExits, KeepsFiles
<1>9. CASE HelperEnds
  <2>1. SavesState(persisted) /\ SavesAttempts
    BY <1>0, <1>9, Saves DEF HelperEnds, SavesState, SavesAttempts, TypeOK
  <2>2. SameAttempts
    BY <1>0, <1>9, SameFields DEF HelperEnds, SameAttempts, TypeOK
  <2> QED
    BY <1>9, <2>1, <2>2 DEF HelperEnds, LockFree, EffectHelperEnds, pairing, exits, KeepsExits
<1>10. CASE ServiceStart
  <2>0. attemptsFile \in Attempts /\ NamesInAttempts(attemptsFile) /\ unsaved = {}
    BY <1>0, <1>10 DEF TypeOK, Inv, Naming, ServiceStart, Locking
  <2>1. CASE attemptsFile.running
    <3>1. SavesState(stateFile) /\ SavesAttempts
      BY <1>0, <1>10, <2>1, Saves DEF ServiceStart, SavesState, SavesAttempts, TypeOK
    <3>2. attempts' = [attemptsFile EXCEPT !.lease = None, !.running = FALSE,
                                           !.history = @ \cup {attemptsFile.lease}]
      BY <1>10, <2>1 DEF ServiceStart
    <3>3. /\ attempts'.lease = None /\ attempts'.notes = attemptsFile.notes
          /\ attempts'.history = attemptsFile.history \cup {attemptsFile.lease}
          /\ ~ attempts'.running
      BY <2>0, <3>2 DEF Attempts
    <3>4. Leases(attempts') = Leases(attemptsFile)
      BY <3>3 DEF Leases
    <3> QED
      BY <1>10, <3>1, <3>3, <3>4 DEF ServiceStart, EffectServiceStart, pairing, exits, KeepsExits
  <2>2. CASE ~ attemptsFile.running
    BY <1>10, <2>0, <2>2 DEF ServiceStart, EffectServiceStart, SavesState, SavesAttempts, files,
       pairing, exits, KeepsExits
  <2> QED
    BY <2>1, <2>2
<1>11. CASE ServiceExit \/ SplitExit \/ UnansweredExit \/ TornExit
  <2>1. InInnerSave => NoneSaving
    BY <1>0 DEF InInnerSave, NoneSaving, Locking, LockFree, Holding, Saving
  <2>2. (\E t \in Connections : pc[t] = "saveAttempts") => \A t \in Connections : pc[t] # "saveState"
    BY <1>0 DEF Locking, Holding
  <2>3. Leaves
    BY <1>11, <2>1, <2>2 DEF ServiceExit, SplitExit, UnansweredExit, TornExit, ExitWith, Leaves,
       CutsFile
  <2>4. PICK state, notes : ExitWith(state, notes)
    BY <1>11 DEF ServiceExit, SplitExit, UnansweredExit, TornExit
  <2>5. EffectExit
    BY <2>3, <2>4 DEF ExitWith, EffectExit
  <2> QED
    BY <2>5
<1>12. CASE TornStart
  BY <1>12 DEF TornStart, CutsFile, EffectTornStart, pairing
<1>13. CASE UNCHANGED vars
  BY <1>13 DEF vars, Nothing, service, stores, pairing, files, exits, KeepsExits, KeepsFiles
<1> QED
  BY <1>1, <1>2, <1>3, <1>4, <1>5, <1>6, <1>7, <1>8, <1>9, <1>10, <1>11, <1>12, <1>13
     DEF Next, Continues

---------------------------------------------------------------------------
(* The parts of the invariant.                                            *)

LEMMA LockingStep ==
    ASSUME Inv, TypeOK', Effect
    PROVE  Locking' /\ Saved'
<1>0. TypeOK /\ Locking /\ Saved
  BY DEF Inv
<1> USE <1>0 DEF Locking, Saved, TypeOK, Began, Cancels, Holding, Waiting, KeepsFiles, Receipts
<1>a. ASSUME NEW t \in Connections, EffectReject(t) PROVE Locking' /\ Saved'
  BY <1>a DEF EffectReject, Rejected
<1>1. ASSUME NEW t \in Connections, NEW r \in Request, EffectArrival(t, r)
      PROVE  Locking' /\ Saved'
  <2>0. r # None
    BY AbsenceAssumption
  <2>1. CASE EffectAnswer(t, r)
    BY <2>0, <2>1 DEF EffectAnswer, Entry
  <2>2. CASE EffectPairing(t, r)
    BY <2>0, <2>2 DEF EffectPairing, Entry
  <2>3. CASE EffectCommand(t, r)
    BY <2>0, <2>3 DEF EffectCommand, Entry
  <2>4. CASE EffectStart(t, r)
    BY <2>0, <2>4 DEF EffectStart, Entry
  <2>5. CASE EffectCancel(t, r)
    BY <2>0, <2>5 DEF EffectCancel, Entry
  <2> QED
    BY <1>1, <2>1, <2>2, <2>3, <2>4, <2>5 DEF EffectArrival
<1>2. ASSUME NEW t \in Connections, EffectReceipt(t) PROVE Locking' /\ Saved'
  BY <1>2 DEF EffectReceipt
<1>3. ASSUME NEW t \in Connections, EffectSaveState(t) PROVE Locking' /\ Saved'
  BY <1>3 DEF EffectSaveState, SavesState
<1>4. ASSUME NEW t \in Connections, EffectSaveAttempts(t) PROVE Locking' /\ Saved'
  BY <1>4 DEF EffectSaveAttempts
<1>5. ASSUME NEW t \in Connections, EffectWakes(t) \/ EffectReturns(t) PROVE Locking' /\ Saved'
  BY <1>5 DEF EffectWakes, EffectReturns
<1>6. ASSUME NEW t \in Connections, EffectPaired(t) PROVE Locking' /\ Saved'
  BY <1>6 DEF EffectPaired
<1>7. CASE EffectHelperEnds
  BY <1>7 DEF EffectHelperEnds, SavesState
<1>8. CASE EffectServiceStart
  BY <1>8 DEF EffectServiceStart, SavesState
<1>9. CASE EffectExit
  BY <1>9 DEF EffectExit
<1>10. CASE EffectTornStart
  BY <1>10 DEF EffectTornStart
<1>11. CASE Nothing
  BY <1>11 DEF Nothing
<1> QED
  BY <1>a, <1>1, <1>2, <1>3, <1>4, <1>5, <1>6, <1>7, <1>8, <1>9, <1>10, <1>11 DEF Effect

\* A connection that has begun keeps its request, and does not begin again.
LEMMA BegunStep ==
    ASSUME Inv, TypeOK', Effect
    PROVE  \A t \in Connections :
              /\ Began(t) => Began(t)' /\ req'[t] = req[t]
              /\ reply[t] # None => reply'[t] = reply[t] /\ req'[t] = req[t]
<1>0. TypeOK /\ Locking
  BY DEF Inv
<1> USE <1>0 DEF Locking, TypeOK, Began
<1>a. CASE \E t \in Connections : EffectReject(t)
  BY <1>a DEF EffectReject
<1>1. ASSUME NEW t \in Connections, NEW r \in Request, EffectArrival(t, r)
      PROVE  \A u \in Connections : u # t => req'[u] = req[u] /\ reply'[u] = reply[u]
  BY <1>1 DEF EffectArrival, EffectAnswer, EffectPairing, EffectCommand, EffectStart, EffectCancel, Entry
<1>2. ASSUME NEW t \in Connections, NEW r \in Request, EffectArrival(t, r)
      PROVE  req[t] = None /\ reply[t] = None
  BY <1>2 DEF EffectArrival, EffectAnswer, EffectPairing, EffectCommand, EffectStart, EffectCancel, Entry
<1>3. CASE \E t \in Connections, r \in Request : EffectArrival(t, r)
  BY <1>1, <1>2, <1>3
<1>4. ASSUME NEW t \in Connections,
             EffectReturns(t) \/ EffectReceipt(t) \/ EffectSaveState(t) \/ EffectSaveAttempts(t)
             \/ EffectWakes(t) \/ EffectPaired(t)
      PROVE  /\ req' = req /\ reply[t] = None
             /\ \A u \in Connections : u # t => reply'[u] = reply[u]
  BY <1>4 DEF EffectReturns, EffectReceipt, EffectSaveState, EffectSaveAttempts, EffectWakes,
     EffectPaired, Waiting
<1>5. CASE EffectHelperEnds \/ EffectServiceStart \/ EffectTornStart \/ EffectExit \/ Nothing
  BY <1>5 DEF EffectHelperEnds, EffectServiceStart, EffectTornStart, EffectExit, Nothing
<1> QED
  BY <1>a, <1>3, <1>4, <1>5 DEF Effect

\* No session, target or receipt in a state names a connection that is still to come.
LEMMA NamesInStateStep ==
    ASSUME Inv, TypeOK', Effect
    PROVE  NamesInState(persisted)' /\ NamesInState(stateFile)'
<1> DEFINE Goal == NamesInState(persisted)' /\ NamesInState(stateFile)'
<1>0. /\ TypeOK /\ Locking /\ NamesInState(persisted) /\ NamesInState(stateFile)
      /\ persisted \in Persisted /\ stateFile \in Persisted
      /\ pc' \in [Connections -> {"new", "cancelling", "done"} \cup Waiting \cup Holding]
  BY DEF Inv, Naming, TypeOK
<1>b. \A t \in Connections : Began(t) => Began(t)' /\ req'[t] = req[t]
  BY BegunStep
<1>e. /\ \A x \in Connections : EmptyState.sessions[x] = "none"
      /\ \A c \in CommandIDs : EmptyState.receipts[c] = None
  BY DEF EmptyState, Names
<1> USE <1>0, <1>b, NamesAssumption DEF NamesInState, TypeOK, Persisted, KeepsFiles
\* A state of before stays in order where no new thread waits and none loses its grant.
<1>s. ASSUME NEW st \in {persisted, stateFile, EmptyState},
             \A x \in Connections : Began(x) /\ pc'[x] \in Waiting =>
                pc[x] \in Waiting /\ (grant[x] # None => grant'[x] # None)
      PROVE  /\ \A a \in Connections : st.sessions[a] # "none" =>
                 /\ Began(a)'
                 /\ req'[a].target \in Connections /\ (Began(req[a].target))'
                 /\ pc'[req'[a].target] \in Waiting => grant'[req'[a].target] # None
             /\ \A a, b \in Connections :
                 st.sessions[a] # "none" /\ st.sessions[b] # "none"
                 /\ req'[a].target = req'[b].target => a = b
             /\ \A c \in CommandIDs : st.receipts[c] # None => (Began(st.receipts[c]))'
  <2>1. CASE st = EmptyState
    BY <1>e, <2>1
  <2>2. CASE st \in {persisted, stateFile}
    <3>1. \A a \in Connections : st.sessions[a] # "none" =>
              /\ Began(a) /\ req'[a] = req[a] /\ Began(a)'
              /\ req[a].target \in Connections /\ Began(req[a].target)
              /\ (Began(req[a].target))'
      BY <2>2 DEF Began
    <3>2. \A a \in Connections : st.sessions[a] # "none" =>
              (pc'[req'[a].target] \in Waiting => grant'[req'[a].target] # None)
      BY <1>s, <2>2, <3>1
    <3>3. \A a, b \in Connections :
              st.sessions[a] # "none" /\ st.sessions[b] # "none"
              /\ req'[a].target = req'[b].target => a = b
      BY <2>2, <3>1
    <3>4. \A c \in CommandIDs : st.receipts[c] # None => (Began(st.receipts[c]))'
      BY <2>2 DEF Began
    <3>5. \A a \in Connections : st.sessions[a] # "none" => (Began(req[a].target))'
      BY <3>1
    <3> QED
      BY <3>1, <3>2, <3>3, <3>4 DEF Began
  <2> QED
    BY <2>1, <2>2
<1>k. ASSUME persisted' \in {persisted, stateFile, EmptyState},
             stateFile' \in {persisted, stateFile, EmptyState},
             \A x \in Connections : Began(x) /\ pc'[x] \in Waiting =>
                pc[x] \in Waiting /\ (grant[x] # None => grant'[x] # None)
      PROVE  Goal
  <2>1. NamesInState(persisted)'
    <3>1. CASE persisted' = persisted
      BY <1>s, <1>k, <3>1 DEF Began
    <3>2. CASE persisted' = stateFile
      BY <1>s, <1>k, <3>2 DEF Began
    <3>3. CASE persisted' = EmptyState
      BY <1>e, <3>3
    <3> QED
      BY <1>k, <3>1, <3>2, <3>3
  <2>2. NamesInState(stateFile)'
    BY <1>s, <1>k, SMTT(20) DEF Began
  <2> QED
    BY <2>1, <2>2
<1>a. ASSUME NEW t \in Connections, EffectReject(t) PROVE Goal
  BY <1>a, <1>k DEF EffectReject, Waiting
<1>1. ASSUME NEW t \in Connections, NEW r \in Request, EffectArrival(t, r) PROVE Goal
  <2> USE DEF Waiting
  <2>0. r # None
    BY AbsenceAssumption
  <2>1. CASE EffectAnswer(t, r)
    BY <2>1, <1>k DEF EffectAnswer, Entry
  <2>2. CASE EffectPairing(t, r)
    BY <2>2, <1>k DEF EffectPairing, Entry, Began
  <2>3. CASE EffectStart(t, r)
    BY <2>3, <1>k DEF EffectStart, Entry
  <2>4. CASE EffectCancel(t, r)
    BY <2>4, <1>k DEF EffectCancel, Entry
  <2>5. CASE EffectCommand(t, r)
    <3>0. /\ pc[t] = "new" /\ req' = [req EXCEPT ![t] = r] /\ pc' = [pc EXCEPT ![t] = "saveState"]
          /\ req[t] = None /\ stateFile' = stateFile
          /\ persisted'.receipts = [persisted.receipts EXCEPT ![r.id] = t]
          /\ r.id \in CommandIDs
      BY <2>5 DEF EffectCommand, Entry, Request
    <3>g. \A x \in Connections : Began(x) /\ pc'[x] \in Waiting =>
              pc[x] \in Waiting /\ (grant[x] # None => grant'[x] # None)
      BY <2>5, <3>0 DEF EffectCommand, Approves, Revokes, Writes, OnlyReceipt, Names
    <3>s. /\ NamesInState(stateFile)'
          /\ \A c \in CommandIDs : persisted'.receipts[c] # None => (Began(persisted.receipts[c]))'
      <4>1. NamesInState(stateFile)'
        BY <1>s, <3>0, <3>g DEF Began
      <4>2. \A c \in CommandIDs : persisted.receipts[c] # None => (Began(persisted.receipts[c]))
        OBVIOUS
      <4>3. Began(t)'
        BY <2>0, <3>0 DEF Began
      <4> QED
        BY <3>0, <4>1, <4>2, <4>3 DEF Began
    <3>1. CASE Approves(t, r)
      <4>1. Began(r.target) /\ r.target # t
        BY <3>0, <3>1, <1>0 DEF Approves, Locking, Began
      <4>2. \A a \in Connections : a # t => persisted'.sessions[a] = persisted.sessions[a]
        BY <3>1 DEF Approves, Names
      <4>3. Began(t)' /\ req'[t] = r
        BY <2>0, <3>0 DEF Began
      <4>4. \A a \in Connections : a # t /\ persisted.sessions[a] # "none" =>
               req'[a].target # r.target
        BY <3>0, <3>1 DEF Approves, Began
      <4>5. \A a \in Connections : persisted'.sessions[a] # "none" =>
               /\ Began(a)'
               /\ req'[a].target \in Connections /\ (Began(req[a].target))'
               /\ pc'[req'[a].target] \in Waiting => grant'[req'[a].target] # None
        <5> TAKE a \in Connections
        <5>1. CASE a = t
          BY <3>0, <3>1, <4>1, <4>3, <5>1 DEF Approves, Began
        <5>2. CASE a # t
          BY <1>s, <3>g, <4>2, <5>2 DEF Began
        <5> QED
          BY <5>1, <5>2
      <4>6. \A a, b \in Connections :
               persisted'.sessions[a] # "none" /\ persisted'.sessions[b] # "none"
               /\ req'[a].target = req'[b].target => a = b
        <5>1. \A a, b \in Connections \ {t} :
                 persisted'.sessions[a] # "none" /\ persisted'.sessions[b] # "none"
                 /\ req'[a].target = req'[b].target => a = b
          BY <1>s, <3>g, <4>2
        <5>2. \A a \in Connections \ {t} :
                 persisted'.sessions[a] # "none" => req'[a].target # req'[t].target
          BY <4>2, <4>3, <4>4
        <5> QED
          BY <5>1, <5>2
      <4> QED
        BY <3>s, <4>5, <4>6 DEF Began
    <3>2. CASE Revokes(t, r) \/ Writes(t, r) \/ OnlyReceipt(t, r)
      <4>1. \A a \in Connections : persisted'.sessions[a] # "none" => persisted.sessions[a] # "none"
        BY <3>2 DEF Revokes, Writes, OnlyReceipt, Names
      <4> QED
        BY <1>s, <3>g, <3>s, <4>1 DEF Began
    <3> QED
      BY <2>5, <3>1, <3>2 DEF EffectCommand
  <2> QED
    BY <1>1, <2>1, <2>2, <2>3, <2>4, <2>5 DEF EffectArrival
<1>2. ASSUME NEW t \in Connections, EffectReceipt(t) PROVE Goal
  <2>0. /\ pc' = [pc EXCEPT ![t] = "saveState"] /\ grant' = grant /\ Began(t)
        /\ stateFile' \in {persisted, stateFile, EmptyState}
        /\ persisted'.sessions = persisted.sessions
        /\ persisted'.receipts = [persisted.receipts EXCEPT ![req[t].id] = t]
        /\ req[t].id \in CommandIDs
    BY <1>2 DEF EffectReceipt, SavesState, Locking, Began, Request
  <2>g. \A x \in Connections : Began(x) /\ pc'[x] \in Waiting =>
            pc[x] \in Waiting /\ (grant[x] # None => grant'[x] # None)
    BY <2>0 DEF Waiting
  <2>1. NamesInState(stateFile)'
    BY <1>s, <2>0, <2>g DEF Began
  <2>2. \A c \in CommandIDs : persisted'.receipts[c] # None =>
            persisted'.receipts[c] = t \/ persisted'.receipts[c] = persisted.receipts[c]
    BY <2>0
  <2>3. NamesInState(persisted)'
    BY <1>s, <2>0, <2>2, <2>g DEF Began
  <2> QED
    BY <2>1, <2>3
<1>3. ASSUME NEW t \in Connections, EffectReturns(t) \/ EffectSaveState(t) \/ EffectSaveAttempts(t)
      PROVE  Goal
  BY <1>3, <1>k DEF EffectReturns, EffectSaveState, EffectSaveAttempts, SavesState, Waiting
<1>4. ASSUME NEW t \in Connections, EffectWakes(t) \/ EffectPaired(t) PROVE Goal
  BY <1>4, <1>k DEF EffectWakes, EffectPaired, Waiting
<1>5. CASE EffectHelperEnds \/ EffectServiceStart \/ EffectTornStart \/ Nothing
  BY <1>5, <1>k DEF EffectHelperEnds, EffectServiceStart, EffectTornStart, Nothing, SavesState
<1>6. CASE EffectExit
  <2>1. \A x \in Connections : pc'[x] \notin Waiting
    BY <1>6 DEF EffectExit, Waiting
  <2>2. /\ persisted' = EmptyState /\ stateFile' \in {persisted, stateFile, EmptyState}
    BY <1>6 DEF EffectExit, Leaves
  <2> QED
    BY <1>k, <2>1, <2>2
<1> QED
  BY <1>a, <1>1, <1>2, <1>3, <1>4, <1>5, <1>6 DEF Effect

\* No lease or note names a connection that is still to come.
LEMMA NamesInAttemptsStep ==
    ASSUME Inv, TypeOK', Effect
    PROVE  NamesInAttempts(attempts)' /\ NamesInAttempts(attemptsFile)'
<1> DEFINE Goal == NamesInAttempts(attempts)' /\ NamesInAttempts(attemptsFile)'
           In(A) == /\ \A x \in Leases(A) : Known(x)'
                    /\ A.running => A.lease # None
                    /\ \A t \in A.notes : Began(t)'
<1>0. /\ NamesInAttempts(attempts) /\ NamesInAttempts(attemptsFile)
      /\ attempts \in Attempts /\ attemptsFile \in Attempts
      /\ pc \in [Connections -> {"new", "cancelling", "done"} \cup Waiting \cup Holding]
  BY DEF Inv, Naming, TypeOK
<1>b. \A t \in Connections : Began(t) => Began(t)'
  BY BegunStep
<1>1. \A x : Known(x) => Known(x)'
  BY <1>b DEF Known
<1>2. In(attempts) /\ In(attemptsFile) /\ In(EmptyAttempts)
  BY <1>0, <1>b, <1>1 DEF NamesInAttempts, Attempts, EmptyAttempts, Leases
<1>3. ASSUME attempts' \in {attempts, attemptsFile, EmptyAttempts} \/ In(attempts'),
             attemptsFile' \in {attempts, attempts', attemptsFile, EmptyAttempts}
      PROVE  Goal
  <2>1. In(attempts') /\ In(attemptsFile')
    BY <1>2, <1>3
  <2> QED
    BY <2>1 DEF NamesInAttempts, Known, Began
<1>4. SameAttempts => In(attempts')
  BY <1>2 DEF SameAttempts, Leases
<1>5. ASSUME NEW t \in Connections, NEW r \in Request, EffectArrival(t, r) PROVE Goal
  <2>0. Began(t)' /\ attemptsFile' = attemptsFile
    BY <1>5, AbsenceAssumption DEF EffectArrival, EffectAnswer, EffectPairing, EffectCommand,
       EffectStart, EffectCancel, Entry, Began, KeepsFiles, Inv, TypeOK
  <2>1. CASE EffectStart(t, r)
    <3>1. /\ attempts'.lease = t /\ attempts'.history = attempts.history
          /\ attempts'.notes \subseteq attempts.notes
      BY <2>1 DEF EffectStart
    <3>2. Leases(attempts') \subseteq Leases(attempts) \cup {t} /\ t # None /\ t \in Names
      BY <3>1, NamesAssumption DEF Leases, Names
    <3>3. Known(t)'
      BY <2>0, <3>2 DEF Known
    <3>4. \A n \in attempts'.notes : Began(n)'
      BY <1>2, <3>1
    <3>5. \A x \in Leases(attempts') : Known(x)'
      BY <1>2, <3>2, <3>3
    <3>6. In(attempts')
      BY <3>1, <3>2, <3>4, <3>5
    <3> QED
      BY <1>3, <2>0, <3>6
  <2>2. CASE Writes(t, r)
    <3>1. Leases(attempts') = Leases(attempts)
      BY <2>2 DEF Writes, Leases
    <3>2. In(attempts')
      BY <1>2, <2>0, <2>2, <3>1 DEF Writes
    <3> QED
      BY <1>3, <2>0, <3>2
  <2>3. CASE EffectCancel(t, r)
    BY <1>3, <1>4, <2>0, <2>3 DEF EffectCancel
  <2>4. CASE attempts' = attempts
    BY <1>3, <2>0, <2>4
  <2> QED
    BY <1>5, <2>1, <2>2, <2>3, <2>4 DEF EffectArrival, EffectAnswer, EffectPairing, EffectCommand,
       Approves, Revokes, OnlyReceipt
<1>6. CASE UNCHANGED attempts /\ attemptsFile' \in {attempts, attemptsFile, EmptyAttempts}
  BY <1>3, <1>6
<1>7. CASE EffectHelperEnds
  BY <1>3, <1>4, <1>7 DEF EffectHelperEnds, SavesAttempts
<1>8. CASE EffectServiceStart
  <2>1. In(attempts')
    BY <1>2, <1>8 DEF EffectServiceStart
  <2> QED
    BY <1>3, <1>8, <2>1 DEF EffectServiceStart, SavesAttempts
<1>9. CASE EffectExit
  BY <1>3, <1>9 DEF EffectExit, Leaves
<1>10. CASE EffectTornStart
  BY <1>6, <1>10 DEF EffectTornStart
<1> QED
  BY <1>5, <1>6, <1>7, <1>8, <1>9, <1>10 DEF Effect, EffectReject, EffectReturns, EffectReceipt,
     EffectSaveState, EffectSaveAttempts, EffectWakes, EffectPaired, Nothing, KeepsFiles,
     SavesAttempts

\* A connection comes to be named when its command makes its receipt; the file names it
\* when that is written, and an answer when the lock is free or its own is sent.
LEMMA NamedStep ==
    ASSUME Inv, TypeOK', Effect, NEW t \in Connections
    PROVE  /\ Named(t)' => \/ Named(t) \/ EffectReceipt(t)
                           \/ \E r \in Request : EffectCommand(t, r)
           /\ (Recorded(t, stateFile))' => Recorded(t, stateFile) \/ Recorded(t, persisted)
           /\ ToldOf(t)' => \/ ToldOf(t)
                            \/ /\ Recorded(t, persisted)
                               /\ (pc[t] = "saveAttempts" /\ pc'[t] = "done") \/ pc[t] \notin Saving
<1>0. /\ TypeOK /\ Locking /\ InHand
      /\ persisted.receipts \in [CommandIDs -> Connections \cup {None}]
  BY DEF Inv, TypeOK, Persisted
<1> USE <1>0, NamesAssumption DEF TypeOK
<1>1. (Recorded(t, stateFile))' => Recorded(t, stateFile) \/ Recorded(t, persisted)
  <2>1. stateFile' \in {stateFile, persisted, EmptyState}
    BY ArrivalEntry DEF Effect, EffectReject, Entry, EffectReturns, EffectReceipt, EffectSaveState,
       EffectSaveAttempts, EffectWakes, EffectPaired, EffectHelperEnds, EffectServiceStart,
       EffectTornStart, EffectExit, Leaves, Nothing, KeepsFiles, SavesState
  <2> QED
    BY <2>1 DEF Recorded, EmptyState
<1>2. (Recorded(t, persisted))' => \/ Recorded(t, persisted) \/ Recorded(t, stateFile)
                                   \/ EffectReceipt(t)
                                   \/ \E r \in Request : EffectCommand(t, r)
  <2> SUFFICES ASSUME (Recorded(t, persisted))', ~ Recorded(t, persisted), ~ Recorded(t, stateFile)
               PROVE  EffectReceipt(t) \/ \E r \in Request : EffectCommand(t, r)
    OBVIOUS
  <2>1. ASSUME NEW u \in Connections, NEW r \in Request, EffectCommand(u, r) PROVE u = t
    BY <2>1 DEF EffectCommand, Recorded, Request
  <2>2. ASSUME NEW u \in Connections, EffectReceipt(u) PROVE u = t
    <3>1. req[u].id \in CommandIDs
      BY <2>2 DEF EffectReceipt, Locking, Began, Request
    <3> QED
      BY <2>2, <3>1 DEF EffectReceipt, Recorded
  <2>3. CASE persisted' \in {persisted, stateFile, EmptyState}
    BY <2>3 DEF Recorded, EmptyState
  <2> QED
    BY <2>1, <2>2, <2>3 DEF Effect, EffectReject, EffectArrival, EffectAnswer, EffectPairing,
       EffectStart, EffectCancel, EffectReturns, EffectSaveState,
       EffectSaveAttempts, EffectWakes, EffectPaired, EffectHelperEnds, EffectServiceStart,
       EffectTornStart, EffectExit, Nothing
<1>3. ToldOf(t)' => \/ ToldOf(t)
                    \/ /\ Recorded(t, persisted)
                       /\ (pc[t] = "saveAttempts" /\ pc'[t] = "done") \/ pc[t] \notin Saving
  <2> SUFFICES ASSUME NEW u \in Connections, Receipts(u)', reply'[u].of = t, ~ ToldOf(t)
               PROVE  /\ Recorded(t, persisted)
                      /\ (pc[t] = "saveAttempts" /\ pc'[t] = "done") \/ pc[t] \notin Saving
    BY DEF ToldOf
  <2>1. reply'[u] # reply[u]
    BY DEF ToldOf, Receipts
  <2>2. ASSUME NEW v \in Connections, EffectReject(v) PROVE FALSE
    BY <2>1, <2>2 DEF EffectReject, Rejected, Receipts
  <2>3. ASSUME NEW v \in Connections, NEW r \in Request, EffectArrival(v, r)
        PROVE  Recorded(t, persisted) /\ pc[t] \notin Saving
    <3>1. v = u /\ EffectAnswer(u, r)
      BY <2>1, <2>3 DEF EffectArrival, EffectAnswer, EffectPairing, EffectCommand, EffectStart,
         EffectCancel
    <3> QED
      BY <3>1 DEF EffectAnswer, Entry, Recorded, Request, Holding, Saving
  <2>4. ASSUME NEW v \in Connections, EffectSaveAttempts(v)
        PROVE  Recorded(t, persisted) /\ pc[t] = "saveAttempts" /\ pc'[t] = "done"
    <3>1. v = u /\ v = t /\ pc[t] = "saveAttempts" /\ pc'[t] = "done"
      BY <2>1, <2>4 DEF EffectSaveAttempts
    <3> QED
      BY <3>1 DEF InHand, Saving, Recorded, Locking, Began, Request
  <2>5. ASSUME NEW v \in Connections, EffectPaired(v) PROVE FALSE
    BY <2>1, <2>5 DEF EffectPaired, Receipts
  <2> QED
    BY <2>1, <2>2, <2>3, <2>4, <2>5 DEF Effect, EffectReturns, EffectReceipt, EffectSaveState,
       EffectWakes, EffectHelperEnds, EffectServiceStart, EffectTornStart, EffectExit, Nothing
<1> QED
  BY <1>1, <1>2, <1>3 DEF Named

\* A thread that has answered does nothing more; one that saves goes on to answer, or
\* ends with its service; it saves once its receipt is made.
LEMMA Moves ==
    ASSUME Inv, TypeOK', Effect, NEW t \in Connections
    PROVE  /\ pc[t] = "done" => pc'[t] = "done"
           /\ pc[t] \in Saving => pc'[t] \in Saving \cup {"done"}
           /\ pc'[t] \in Saving /\ pc[t] \notin Saving =>
                EffectReceipt(t) \/ \E r \in Request : EffectCommand(t, r)
<1> DEFINE Goal == /\ pc[t] = "done" => pc'[t] = "done"
                   /\ pc[t] \in Saving => pc'[t] \in Saving \cup {"done"}
                   /\ pc'[t] \in Saving /\ pc[t] \notin Saving =>
                        EffectReceipt(t) \/ \E r \in Request : EffectCommand(t, r)
<1> USE DEF Saving, TypeOK
<1>0. TypeOK
  BY DEF Inv
<1>1. CASE pc' = pc
  BY <1>1
<1>2. ASSUME NEW u \in Connections, NEW stage, pc' = [pc EXCEPT ![u] = stage],
             stage \notin Saving, pc[u] \notin {"saveState", "saveAttempts", "done"} \/ stage = "done"
      PROVE  Goal
  BY <1>0, <1>2
<1>3. ASSUME NEW u \in Connections, NEW r \in Request, EffectArrival(u, r) PROVE Goal
  <2>1. CASE EffectAnswer(u, r)
    BY <1>2, <2>1 DEF EffectAnswer, Entry
  <2>2. CASE EffectPairing(u, r)
    BY <1>2, <2>2 DEF EffectPairing, Entry
  <2>3. CASE EffectStart(u, r)
    BY <1>2, <2>3 DEF EffectStart, Entry
  <2>4. CASE EffectCancel(u, r)
    BY <1>2, <2>4 DEF EffectCancel, Entry
  <2>5. CASE EffectCommand(u, r)
    <3>1. pc[u] = "new" /\ pc' = [pc EXCEPT ![u] = "saveState"]
      BY <2>5 DEF EffectCommand, Entry
    <3> QED
      BY <1>0, <2>5, <3>1
  <2> QED
    BY <1>3, <2>1, <2>2, <2>3, <2>4, <2>5 DEF EffectArrival
<1>4. ASSUME NEW u \in Connections, EffectReject(u) \/ EffectReturns(u) \/ EffectSaveAttempts(u)
      PROVE  Goal
  BY <1>2, <1>4 DEF EffectReject, EffectReturns, EffectSaveAttempts
<1>5. ASSUME NEW u \in Connections, EffectWakes(u) \/ EffectPaired(u) PROVE Goal
  BY <1>2, <1>5 DEF EffectWakes, EffectPaired, Waiting
<1>6. ASSUME NEW u \in Connections, EffectReceipt(u) PROVE Goal
  BY <1>0, <1>6 DEF EffectReceipt
<1>7. ASSUME NEW u \in Connections, EffectSaveState(u) PROVE Goal
  BY <1>0, <1>7 DEF EffectSaveState
<1>8. CASE EffectExit
  BY <1>0, <1>8 DEF EffectExit
<1> QED
  BY <1>1, <1>3, <1>4, <1>5, <1>6, <1>7, <1>8 DEF Effect, EffectHelperEnds, EffectServiceStart,
     EffectTornStart, Nothing

LEMMA OrderStep ==
    ASSUME Inv, TypeOK', Effect
    PROVE  Order'
<1> SUFFICES ASSUME NEW t \in Connections
             PROVE  /\ Named(t)' => pc'[t] \in Saving \cup {"done"}
                    /\ (Recorded(t, stateFile))' => pc'[t] # "saveState"
                    /\ ToldOf(t)' => pc'[t] = "done"
                    /\ /\ Named(t)' \/ pc'[t] \in Saving
                       /\ req'[t].command \in {"revokeSession", "attemptWrite"}
                       => Known(req[t].target)'
  BY DEF Order
<1>0. TypeOK /\ Locking /\ Order /\ Naming
  BY DEF Inv
<1>b. \A u \in Connections : Began(u) => Began(u)' /\ req'[u] = req[u]
  BY BegunStep
<1> USE <1>0 DEF TypeOK
<1>d. pc[t] = "done" => pc'[t] = "done"
  BY Moves
<1>1. pc[t] \in Saving => pc'[t] \in Saving \cup {"done"}
  BY Moves
<1>2. ASSUME NEW r \in Request, EffectCommand(t, r)
      PROVE  /\ pc'[t] = "saveState" /\ pc[t] = "new" /\ req'[t] = r
             /\ r.command \in {"revokeSession", "attemptWrite"} => Known(r.target)
  <2>1. Revokes(t, r) => Known(r.target)
    BY DEF Revokes, Known, Naming, NamesInState
  <2>2. Writes(t, r) => Known(r.target)
    BY NamesAssumption DEF Writes, Naming, NamesInAttempts, Leases, Names
  <2> QED
    BY <1>2, <2>1, <2>2 DEF EffectCommand, Entry, Approves, OnlyReceipt
<1>3. EffectReceipt(t) => /\ pc'[t] = "saveState" /\ pc[t] = "innerSave" /\ req'[t] = req[t]
                          /\ req[t].command \in {"startAttempt", "cancelAttempt"}
  BY DEF EffectReceipt, Locking, Cancels
<1>4. Named(t)' => pc'[t] \in Saving \cup {"done"}
  BY <1>1, <1>2, <1>3, <1>d, NamedStep DEF Order, Saving
<1>5. (Recorded(t, stateFile))' => pc'[t] # "saveState"
  <2> SUFFICES ASSUME (Recorded(t, stateFile))', pc'[t] = "saveState" PROVE FALSE
    OBVIOUS
  <2>1. Recorded(t, stateFile) \/ Recorded(t, persisted)
    BY NamedStep
  <2>2. pc[t] = "saveState" /\ ~ Recorded(t, stateFile)
    <3>1. pc[t] \in Saving
      BY <1>d, <2>1 DEF Order, Named
    <3>2. pc[t] # "saveAttempts"
      <4> USE <2>1
      <4>1. ASSUME NEW u \in Connections, NEW r \in Request, EffectArrival(u, r)
            PROVE  \A v \in Connections : pc[v] \notin Holding
        BY <4>1, ArrivalEntry DEF Entry
      <4>2. CASE pc' = pc
        BY <4>2
      <4>3. ASSUME NEW u \in Connections,
                   \/ EffectReject(u) \/ EffectReturns(u) \/ EffectReceipt(u) \/ EffectSaveState(u)
                   \/ EffectSaveAttempts(u) \/ EffectWakes(u) \/ EffectPaired(u)
            PROVE  pc[t] # "saveAttempts"
        BY <4>3 DEF EffectReject, EffectReturns, EffectReceipt, EffectSaveState, EffectSaveAttempts,
           EffectWakes, EffectPaired, Waiting
      <4>4. EffectExit => pc'[t] # "saveState"
        BY DEF EffectExit
      <4> QED
        BY <4>1, <4>2, <4>3, <4>4 DEF Effect, EffectHelperEnds, EffectServiceStart, EffectTornStart,
           Nothing, Holding
    <3> QED
      BY <3>1, <3>2 DEF Saving, Order
  <2>3. stateFile' \in {stateFile, EmptyState}
    <3>1. alive
      BY <2>2 DEF Locking
    <3>2. \A u \in Connections : u # t => pc[u] \notin Holding
      BY <2>2 DEF Locking, Holding
    <3>3. ASSUME NEW u \in Connections, EffectReceipt(u) \/ EffectSaveState(u) \/ EffectSaveAttempts(u)
          PROVE  FALSE
      BY <2>2, <3>2, <3>3 DEF EffectReceipt, EffectSaveState, EffectSaveAttempts, Holding
    <3>4. ~ EffectHelperEnds /\ ~ EffectExit
      BY <2>2 DEF EffectHelperEnds, EffectExit, Holding
    <3> QED
      BY <3>1, <3>3, <3>4, ArrivalEntry DEF Effect, EffectReject, Entry, EffectReturns, EffectWakes,
         EffectPaired, EffectServiceStart, EffectTornStart, Nothing, KeepsFiles
  <2> QED
    BY <2>2, <2>3, NamesAssumption DEF Recorded, EmptyState
<1>6. ToldOf(t)' => pc'[t] = "done"
  <2> SUFFICES ASSUME ToldOf(t)' PROVE pc'[t] = "done"
    OBVIOUS
  <2>1. CASE ToldOf(t)
    BY <1>d, <2>1 DEF Order
  <2>2. CASE Recorded(t, persisted) /\ pc[t] \notin Saving
    BY <1>d, <2>2 DEF Order, Named
  <2> QED
    BY <2>1, <2>2, NamedStep
<1>7. ASSUME Named(t)' \/ pc'[t] \in Saving,
             req'[t].command \in {"revokeSession", "attemptWrite"}
      PROVE  Known(req[t].target)'
  <2>1. CASE Named(t) \/ pc[t] \in Saving
    <3>1. Began(t)
      <4>1. pc[t] \in Saving => Began(t)
        BY DEF Locking, Saving
      <4>2. Recorded(t, persisted) \/ Recorded(t, stateFile) => Began(t)
        BY NamesAssumption DEF Recorded, Naming, NamesInState
      <4>3. ToldOf(t) => Began(t)
        BY DEF ToldOf, Naming
      <4> QED
        BY <2>1, <4>1, <4>2, <4>3 DEF Named
    <3>2. req'[t] = req[t] /\ Known(req[t].target)
      BY <1>7, <1>b, <2>1, <3>1 DEF Order
    <3> QED
      BY <1>b, <3>2 DEF Known
  <2>2. CASE EffectReceipt(t)
    BY <1>3, <1>7, <2>2
  <2>3. ASSUME NEW r \in Request, EffectCommand(t, r) PROVE Known(req[t].target)'
    BY <1>2, <1>7, <1>b, <2>3 DEF Known
  <2>4. pc'[t] \in Saving /\ pc[t] \notin Saving =>
            EffectReceipt(t) \/ \E r \in Request : EffectCommand(t, r)
    BY Moves
  <2> QED
    BY <1>7, <2>1, <2>2, <2>3, <2>4, NamedStep
<1> QED
  BY <1>4, <1>5, <1>6, <1>7

LEMMA NamingStep ==
    ASSUME Inv, TypeOK', Effect
    PROVE  Naming'
<1>0. TypeOK /\ Locking /\ Naming /\ InHand /\ persisted \in Persisted /\ attempts \in Attempts
  BY DEF Inv, TypeOK
<1>b. \A t \in Connections : Began(t) => Began(t)' /\ req'[t] = req[t]
  BY BegunStep
<1>1. ASSUME NEW p \in Connections, grant'[p] # None
      PROVE  alive' /\ persisted'.sessions[grant'[p]] # "none"
  <2> USE <1>0, <1>1, NamesAssumption DEF Naming, TypeOK, Persisted, Names
  <2>1. ASSUME NEW t \in Connections, NEW r \in Request, EffectCommand(t, r)
        PROVE  alive' /\ persisted'.sessions[grant'[p]] # "none"
    BY <2>1 DEF EffectCommand, Entry, Approves, Revokes, Writes, OnlyReceipt
  <2>2. CASE alive' /\ grant' = grant /\ persisted'.sessions = persisted.sessions
    BY <2>2
  <2>3. CASE EffectServiceStart \/ EffectTornStart \/ EffectExit
    BY <2>3 DEF EffectServiceStart, EffectTornStart, EffectExit
  <2>4. CASE Nothing
    BY <2>4 DEF Nothing
  <2> QED
    BY <2>1, <2>2, <2>3, <2>4 DEF Effect, EffectReject, EffectArrival, EffectAnswer,
       EffectPairing, EffectStart, EffectCancel, Entry, EffectReturns, EffectReceipt,
       EffectSaveState, EffectSaveAttempts, EffectWakes, EffectPaired, EffectHelperEnds
<1>2. ASSUME NEW t \in Connections, Receipts(t)'
      PROVE  reply'[t].of \in Connections /\ (Began(reply[t].of))'
  <2>1. CASE Receipts(t)
    <3>1. reply'[t] = reply[t]
      BY <2>1, BegunStep DEF Receipts
    <3> QED
      BY <1>0, <1>b, <2>1, <3>1 DEF Naming
  <2>2. CASE ~ Receipts(t)
    <3>1. ASSUME NEW r \in Request, EffectAnswer(t, r)
          PROVE  reply'[t].of \in Connections /\ Began(reply'[t].of)
      BY <1>0, <3>1 DEF EffectAnswer, Request, TypeOK, Naming, NamesInState, Persisted
    <3>2. ASSUME EffectSaveAttempts(t) PROVE reply'[t].of = t /\ Began(t)
      BY <1>0, <3>2 DEF EffectSaveAttempts, TypeOK, Locking
    <3>3. EffectSaveAttempts(t) \/ \E r \in Request : EffectAnswer(t, r)
      <4> USE <1>0, <1>2, <2>2 DEF TypeOK, Receipts
      <4>1. ASSUME NEW u \in Connections, EffectReject(u) PROVE FALSE
        BY <4>1 DEF EffectReject, Rejected
      <4>2. ASSUME NEW u \in Connections, NEW r \in Request, EffectArrival(u, r)
            PROVE  EffectAnswer(t, r)
        BY <4>2 DEF EffectArrival, EffectAnswer, EffectPairing, EffectCommand, EffectStart,
           EffectCancel
      <4>3. ASSUME NEW u \in Connections, EffectSaveAttempts(u) PROVE u = t
        BY <4>3 DEF EffectSaveAttempts
      <4>4. ASSUME NEW u \in Connections, EffectPaired(u) PROVE FALSE
        BY <4>4 DEF EffectPaired
      <4> QED
        BY <4>1, <4>2, <4>3, <4>4 DEF Effect, EffectReturns, EffectReceipt, EffectSaveState,
           EffectWakes, EffectHelperEnds, EffectServiceStart, EffectTornStart, EffectExit, Nothing
    <3>4. reply'[t].of \in Connections /\ Began(reply'[t].of)
      BY <3>1, <3>2, <3>3
    <3> QED
      BY <1>b, <3>4 DEF Began
  <2> QED
    BY <2>1, <2>2
<1> QED
  BY <1>1, <1>2, NamesInStateStep, NamesInAttemptsStep DEF Naming

LEMMA InHandStep ==
    ASSUME Inv, TypeOK', Effect
    PROVE  InHand'
<1>0. /\ TypeOK /\ Locking /\ InHand
      /\ persisted.receipts \in [CommandIDs -> Connections \cup {None}]
  BY DEF Inv, TypeOK, Persisted
<1> USE <1>0, NamesAssumption DEF InHand, TypeOK, Locking, Holding, Saving, Cancels, KeepsRevocation
<1>a. ASSUME NEW t \in Connections, EffectReject(t) PROVE InHand'
  BY <1>a DEF EffectReject
<1>1. ASSUME NEW t \in Connections, NEW r \in Request, EffectArrival(t, r) PROVE InHand'
  <2>1. CASE EffectAnswer(t, r) \/ EffectPairing(t, r) \/ EffectCancel(t, r)
    BY <2>1 DEF EffectAnswer, EffectPairing, EffectCancel, Entry
  <2>2. CASE EffectStart(t, r)
    BY <2>2 DEF EffectStart, Entry
  <2>3. CASE EffectCommand(t, r)
    <3>1. /\ \A u \in Connections : pc[u] \notin Holding
          /\ req'[t] = r /\ pc' = [pc EXCEPT ![t] = "saveState"] /\ r.id \in CommandIDs
          /\ persisted'.receipts[r.id] = t
      BY <2>3 DEF EffectCommand, Entry, Request
    <3>2. r.command = "revokeSession" => persisted'.sessions[r.target] = "revoked"
      BY <2>3 DEF EffectCommand, Approves, Revokes, Writes, OnlyReceipt, Persisted, Inv
    <3> QED
      BY <3>1, <3>2
  <2> QED
    BY <1>1, <2>1, <2>2, <2>3 DEF EffectArrival
<1>2. ASSUME NEW t \in Connections, EffectReceipt(t) PROVE InHand'
  <2>1. /\ \A u \in Connections : u # t => pc[u] \notin Holding
        /\ req[t].id \in CommandIDs
    BY <1>2 DEF EffectReceipt, Began, Request
  <2> QED
    BY <1>2, <2>1 DEF EffectReceipt
<1>3. ASSUME NEW t \in Connections, EffectSaveState(t) \/ EffectSaveAttempts(t) \/ EffectReturns(t)
      PROVE  InHand'
  BY <1>3 DEF EffectSaveState, EffectSaveAttempts, EffectReturns
<1>4. ASSUME NEW t \in Connections, EffectWakes(t) \/ EffectPaired(t)
      PROVE  InHand'
  BY <1>4 DEF EffectWakes, EffectPaired
<1>5. CASE EffectHelperEnds
  BY <1>5 DEF EffectHelperEnds
<1>6. CASE EffectServiceStart \/ EffectTornStart \/ EffectExit
  BY <1>6 DEF EffectServiceStart, EffectTornStart, EffectExit
<1>7. CASE Nothing
  BY <1>7 DEF Nothing
<1> QED
  BY <1>a, <1>1, <1>2, <1>3, <1>4, <1>5, <1>6, <1>7 DEF Effect

\* In a running service no session or receipt is taken back, a revocation stays, and a
\* receipt is replaced only by one of a cancel.
LEMMA StateGrows ==
    ASSUME Inv, TypeOK', Effect, alive, alive'
    PROVE  /\ \A s \in Names :
                /\ persisted.sessions[s] # "none" => persisted'.sessions[s] # "none"
                /\ persisted.sessions[s] = "revoked" => persisted'.sessions[s] = "revoked"
           /\ \A c \in CommandIDs : persisted.receipts[c] # None =>
                /\ persisted'.receipts[c] # None
                /\ \/ persisted'.receipts[c] = persisted.receipts[c]
                   \/ (Cancels(persisted.receipts[c]))'
<1> DEFINE Goal == /\ \A s \in Names :
                       /\ persisted.sessions[s] # "none" => persisted'.sessions[s] # "none"
                       /\ persisted.sessions[s] = "revoked" => persisted'.sessions[s] = "revoked"
                   /\ \A c \in CommandIDs : persisted.receipts[c] # None =>
                        /\ persisted'.receipts[c] # None
                        /\ \/ persisted'.receipts[c] = persisted.receipts[c]
                           \/ (Cancels(persisted.receipts[c]))'
<1>0. /\ TypeOK /\ Locking /\ NamesInState(persisted) /\ InHand
      /\ persisted.sessions \in [Names -> {"none", "active", "revoked"}]
      /\ persisted.receipts \in [CommandIDs -> Connections \cup {None}]
  BY DEF Inv, Naming, TypeOK, Persisted
<1>1. ASSUME NEW t \in Connections, NEW r \in Request, EffectCommand(t, r) PROVE Goal
  <2>1. /\ req[t] = None /\ persisted.receipts[r.id] = None
        /\ persisted'.receipts = [persisted.receipts EXCEPT ![r.id] = t]
    BY <1>1 DEF EffectCommand, Entry
  <2>2. persisted.sessions[t] = "none"
    BY <1>0, <2>1, NamesAssumption DEF NamesInState, Began, Names
  <2> QED
    BY <1>0, <1>1, <2>1, <2>2, NamesAssumption DEF EffectCommand, Approves, Revokes, Writes,
       OnlyReceipt
<1>2. ASSUME NEW t \in Connections, EffectReceipt(t) PROVE Goal
  <2>1. persisted.receipts[req[t].id] = None \/ Cancels(t)
    BY <1>0, <1>2 DEF EffectReceipt, InHand, Locking
  <2>2. /\ persisted'.receipts = [persisted.receipts EXCEPT ![req[t].id] = t]
        /\ persisted'.sessions = persisted.sessions /\ req' = req
    BY <1>2 DEF EffectReceipt
  <2> QED
    BY <1>0, <2>1, <2>2, NamesAssumption DEF Cancels
<1>3. CASE persisted' = persisted
  BY <1>3
<1> QED
  BY <1>1, <1>2, <1>3 DEF Effect, EffectReject, EffectArrival, EffectAnswer, EffectPairing,
     EffectStart, EffectCancel, EffectReturns, EffectSaveState, EffectSaveAttempts, EffectWakes,
     EffectPaired, EffectHelperEnds, EffectServiceStart, EffectTornStart, EffectExit, Nothing

\* As long as nothing is lost, the state that is saved or loaded is the one in hand.
LEMMA WholeFiles ==
    ASSUME Inv, TypeOK', Effect, Whole'
    PROVE  /\ Whole
           /\ "state" \notin unsaved' =>
                \/ stateFile' = stateFile /\ "state" \notin unsaved
                \/ stateFile' = persisted /\ alive
           /\ alive' => alive \/ (persisted' = stateFile /\ unsaved = {})
<1> DEFINE Goal == /\ Whole
                   /\ "state" \notin unsaved' =>
                        \/ stateFile' = stateFile /\ "state" \notin unsaved
                        \/ stateFile' = persisted /\ alive
                   /\ alive' => alive \/ (persisted' = stateFile /\ unsaved = {})
<1>0. /\ ~ alive => unsaved = {}
      /\ torn' = FALSE /\ stale' = FALSE
      /\ torn \in BOOLEAN /\ stale \in BOOLEAN /\ alive \in BOOLEAN /\ alive' \in BOOLEAN
  <2>1. torn' \in BOOLEAN /\ stale' \in BOOLEAN /\ alive' \in BOOLEAN /\ TypeOK
    BY DEF TypeOK, Inv
  <2> QED
    BY <2>1, Zenon DEF Inv, Locking, Whole, TypeOK
<1>e. KeepsExits => Whole
  BY <1>0, Zenon DEF KeepsExits, Whole
<1>f. stale' = stale => ~ stale
  BY <1>0, Zenon
<1> USE <1>0, <1>e, <1>f DEF KeepsFiles
<1>a. ASSUME NEW t \in Connections, EffectReject(t) PROVE Goal
  BY <1>a DEF EffectReject
<1>1. ASSUME NEW t \in Connections, NEW r \in Request, EffectArrival(t, r) PROVE Goal
  <2>1. Entry(t, r)
    BY <1>1 DEF EffectArrival, EffectAnswer, EffectPairing, EffectCommand, EffectStart,
       EffectCancel
  <2> QED
    BY <2>1 DEF Entry
<1>2. ASSUME NEW t \in Connections, EffectReceipt(t) PROVE Goal
  BY <1>2 DEF EffectReceipt, SavesState
<1>3. ASSUME NEW t \in Connections, EffectSaveState(t) \/ EffectSaveAttempts(t) PROVE Goal
  BY <1>3 DEF EffectSaveState, EffectSaveAttempts, SavesState
<1>4. ASSUME NEW t \in Connections, EffectWakes(t) \/ EffectPaired(t) \/ EffectReturns(t) PROVE Goal
  BY <1>4 DEF EffectWakes, EffectPaired, EffectReturns
<1>5. CASE EffectHelperEnds \/ EffectServiceStart
  BY <1>5 DEF EffectHelperEnds, EffectServiceStart, SavesState
<1>6. CASE EffectExit
  <2>1. unsaved = {} \/ unsaved # {}
    OBVIOUS
  <2> QED
    BY <1>6, <2>1 DEF EffectExit, Leaves, Whole
<1>7. CASE EffectTornStart
  BY <1>7 DEF EffectTornStart
<1>8. CASE Nothing
  BY <1>8 DEF Nothing
<1> QED
  BY <1>a, <1>1, <1>2, <1>3, <1>4, <1>5, <1>6, <1>7, <1>8 DEF Effect

\* What was told stays so, as the states are saved, loaded and changed.
LEMMA StillTold ==
    ASSUME Inv, TypeOK', Effect, NEW t \in Connections, reply[t] # None
    PROVE  /\ alive /\ alive' /\ ToldTo(t, persisted) => (ToldTo(t, persisted))'
           /\ stateFile' = stateFile /\ ToldTo(t, stateFile) => (ToldTo(t, stateFile))'
           /\ stateFile' = persisted /\ ToldTo(t, persisted) => (ToldTo(t, stateFile))'
           /\ persisted' = stateFile /\ ToldTo(t, stateFile) => (ToldTo(t, persisted))'
<1>0. /\ TypeOK /\ Naming /\ persisted \in Persisted /\ stateFile \in Persisted
  BY DEF Inv, TypeOK
<1>b. \A u \in Connections : Began(u) => req'[u] = req[u]
  BY BegunStep
<1>1. reply'[t] = reply[t] /\ req'[t] = req[t]
  BY BegunStep
<1>2. reply[t] \in Reply /\ (Receipts(t) => req[t] \in Request)
  BY <1>0 DEF Inv, Locking, TypeOK, Began
<1>3. Receipts(t) => req[t].id \in CommandIDs /\ ((Cancels(reply[t].of))' <=> Cancels(reply[t].of))
  BY <1>0, <1>b, <1>1, <1>2 DEF Naming, Cancels, Request
<1>4. /\ \A c \in CommandIDs : persisted.receipts[c] # None =>
            (req'[persisted.receipts[c]] = req[persisted.receipts[c]])
      /\ \A c \in CommandIDs : stateFile.receipts[c] # None =>
            (req'[stateFile.receipts[c]] = req[stateFile.receipts[c]])
  BY <1>0, <1>b DEF Naming, NamesInState, Persisted
<1>5. Receipts(t)' <=> Receipts(t)
  BY <1>1 DEF Receipts
<1>7. reply[t].kind = "paired" => reply[t].of \in Names
  BY <1>2 DEF Reply
<1>8. ASSUME alive, alive', ToldTo(t, persisted) PROVE (ToldTo(t, persisted))'
  <2>1. reply'[t] # None /\ reply'[t].kind = "paired" => persisted'.sessions[reply'[t].of] # "none"
    BY <1>1, <1>7, <1>8, StateGrows DEF ToldTo
  <2>3. Receipts(t)' => /\ persisted'.receipts[req'[t].id] # None
                        /\ \/ persisted'.receipts[req'[t].id] = reply'[t].of
                           \/ (Cancels(persisted.receipts[req[t].id]))'
                           \/ (Cancels(reply[t].of))'
    <3> SUFFICES ASSUME Receipts(t)
                 PROVE  /\ persisted'.receipts[req'[t].id] # None
                        /\ \/ persisted'.receipts[req'[t].id] = reply'[t].of
                           \/ (Cancels(persisted.receipts[req[t].id]))'
                           \/ (Cancels(reply[t].of))'
      BY <1>5
    <3>1. req[t].id \in CommandIDs /\ persisted.receipts[req[t].id] # None
      BY <1>3, <1>8 DEF ToldTo
    <3>2. persisted'.receipts[req[t].id] # None
      BY <1>8, <3>1, StateGrows
    <3>3. CASE persisted'.receipts[req[t].id] = persisted.receipts[req[t].id]
      BY <1>1, <1>3, <1>4, <1>8, <3>1, <3>2, <3>3 DEF ToldTo, Cancels
    <3>4. CASE (Cancels(persisted.receipts[req[t].id]))'
      BY <1>1, <3>2, <3>4
    <3> QED
      BY <1>1, <1>8, <3>1, <3>3, <3>4, StateGrows
  <2> QED
    BY <2>1, <2>3 DEF ToldTo
<1>9. /\ stateFile' = stateFile /\ ToldTo(t, stateFile) => (ToldTo(t, stateFile))'
      /\ stateFile' = persisted /\ ToldTo(t, persisted) => (ToldTo(t, stateFile))'
      /\ persisted' = stateFile /\ ToldTo(t, stateFile) => (ToldTo(t, persisted))'
  BY <1>1, <1>3, <1>4, <1>5 DEF ToldTo, Cancels
<1> QED
  BY <1>8, <1>9

\* A client is told what is saved, or cannot be: the receipt of its command ID, or its
\* session.
LEMMA NewlyTold ==
    ASSUME Inv, TypeOK', Effect, NEW t \in Connections, reply[t] = None, reply'[t] # None
    PROVE  /\ (ToldTo(t, persisted))' /\ alive'
           /\ Receipts(t)' => "state" \in unsaved' \/ stateFile' = persisted'
           /\ reply'[t].kind = "paired" => "state" \in unsaved' \/ stateFile' = persisted'
           /\ Receipts(t)' => persisted'.receipts[req'[t].id] = reply'[t].of
<1> DEFINE Goal == /\ (ToldTo(t, persisted))' /\ alive'
                   /\ Receipts(t)' => "state" \in unsaved' \/ stateFile' = persisted'
                   /\ reply'[t].kind = "paired" => "state" \in unsaved' \/ stateFile' = persisted'
                   /\ Receipts(t)' => persisted'.receipts[req'[t].id] = reply'[t].of
<1>0. /\ TypeOK /\ Naming /\ InHand /\ persisted \in Persisted
  BY DEF Inv, TypeOK
<1> USE NamesAssumption DEF TypeOK, KeepsFiles
<1>a. ASSUME NEW u \in Connections, EffectReject(u) PROVE Goal
  <2>1. alive' /\ reply'[t] = Rejected
    BY <1>0, <1>a DEF EffectReject
  <2> QED
    BY <2>1 DEF Rejected, ToldTo, Receipts
<1>1. ASSUME NEW u \in Connections, NEW r \in Request, EffectArrival(u, r) PROVE Goal
  <2>1. u = t /\ EffectAnswer(t, r)
    BY <1>0, <1>1 DEF EffectArrival, EffectAnswer, EffectPairing, EffectCommand, EffectStart,
       EffectCancel
  <2>2. /\ "state" \in unsaved' \/ stateFile' = persisted'
        /\ alive' /\ persisted' = persisted /\ req'[t] = r
    BY <1>0, <2>1 DEF EffectAnswer, Entry
  <2>3. /\ persisted.receipts[r.id] # None
        /\ reply'[t] = [kind |-> "receipt", of |-> persisted.receipts[r.id]]
    BY <1>0, <2>1 DEF EffectAnswer
  <2> QED
    BY <2>2, <2>3 DEF ToldTo, Receipts
<1>2. ASSUME NEW u \in Connections, EffectSaveAttempts(u) PROVE Goal
  <2>1. u = t
    BY <1>0, <1>2 DEF EffectSaveAttempts
  <2>2. /\ alive' /\ persisted' = persisted /\ req' = req
        /\ "state" \in unsaved' \/ stateFile' = persisted'
        /\ reply'[t] = [kind |-> "receipt", of |-> t]
        /\ pc[t] = "saveAttempts"
    BY <1>0, <1>2, <2>1 DEF EffectSaveAttempts
  <2> QED
    BY <1>0, <2>2 DEF InHand, Saving, ToldTo, Receipts
<1>3. ASSUME NEW u \in Connections, EffectPaired(u) PROVE Goal
  <2>1. u = t
    BY <1>0, <1>3 DEF EffectPaired
  <2>2. /\ alive' /\ persisted' = persisted
        /\ "state" \in unsaved' \/ stateFile' = persisted'
        /\ \/ grant[t] # None /\ reply'[t] = [kind |-> "paired", of |-> grant[t]]
           \/ reply'[t] = [kind |-> "pairingTimeout", of |-> None]
    BY <1>0, <1>3, <2>1 DEF EffectPaired
  <2> QED
    BY <1>0, <2>2 DEF Naming, ToldTo, Receipts
<1> QED
  BY <1>a, <1>1, <1>2, <1>3 DEF Effect, EffectReturns, EffectReceipt, EffectSaveState, EffectWakes,
     EffectHelperEnds, EffectServiceStart, EffectTornStart, EffectExit, Nothing

LEMMA ToldStep ==
    ASSUME Inv, TypeOK', Effect, Whole'
    PROVE  ("state" \notin unsaved' => Told(stateFile)') /\ (alive' => Told(persisted)')
<1> SUFFICES ASSUME NEW t \in Connections
             PROVE  /\ "state" \notin unsaved' => (ToldTo(t, stateFile))'
                    /\ alive' => (ToldTo(t, persisted))'
  BY DEF Told
<1>1. /\ "state" \notin unsaved => ToldTo(t, stateFile)
      /\ alive => ToldTo(t, persisted)
  BY WholeFiles DEF Inv, Durable, InMemory, InFiles, Told
<1>2. CASE reply'[t] = None
  BY <1>2 DEF ToldTo, Receipts
<1>3. CASE reply[t] = None /\ reply'[t] # None
  BY <1>3, NewlyTold DEF ToldTo, Cancels, Receipts
<1>4. CASE reply[t] # None
  BY <1>1, <1>4, StillTold, WholeFiles
<1> QED
  BY <1>2, <1>3, <1>4

\* A note is made with its receipt, and saved after it.
LEMMA NotedStep ==
    ASSUME Inv, TypeOK', Effect, Whole'
    PROVE  /\ "state" \notin unsaved' => Noted(attemptsFile, stateFile)'
           /\ alive' => Noted(attempts, persisted)' /\ Noted(attemptsFile, persisted)'
<1> DEFINE Goal == /\ "state" \notin unsaved' => Noted(attemptsFile, stateFile)'
                   /\ alive' => Noted(attempts, persisted)' /\ Noted(attemptsFile, persisted)'
<1>0. /\ TypeOK /\ Locking /\ Saved /\ Naming /\ InHand /\ attempts.notes \in SUBSET Connections
      /\ attemptsFile.notes \in SUBSET Connections
      /\ "state" \notin unsaved => Noted(attemptsFile, stateFile)
      /\ alive => Noted(attempts, persisted) /\ Noted(attemptsFile, persisted)
      /\ ~ alive => unsaved = {}
  BY WholeFiles DEF Inv, Durable, InMemory, InFiles, TypeOK, Attempts, Locking
<1>1. \A t \in attempts.notes \cup attemptsFile.notes :
        Began(t) /\ req'[t] = req[t] /\ req[t].id \in CommandIDs
  BY <1>0, BegunStep DEF Naming, NamesInAttempts, TypeOK, Began, Request
<1>2. ASSUME alive, alive' PROVE \A t \in attempts.notes \cup attemptsFile.notes :
        persisted'.receipts[req'[t].id] # None
  BY <1>0, <1>1, <1>2, StateGrows DEF Noted
<1>e. EmptyAttempts.notes = {}
  BY DEF EmptyAttempts
\* Notes of before are saved or loaded with a state of before.
<1>k. ASSUME attempts'.notes \subseteq attempts.notes \cup attemptsFile.notes,
             attemptsFile'.notes \subseteq attempts.notes \cup attemptsFile.notes,
             alive, alive',
             "state" \notin unsaved' =>
                \/ stateFile' = persisted
                \/ stateFile' = stateFile /\ attemptsFile'.notes \subseteq attemptsFile.notes
                                          /\ "state" \notin unsaved
      PROVE  Goal
  <2>1. Noted(attempts, persisted)' /\ Noted(attemptsFile, persisted)'
    BY <1>2, <1>k DEF Noted
  <2>2. ASSUME "state" \notin unsaved' PROVE Noted(attemptsFile, stateFile)'
    BY <1>0, <1>1, <1>k, <2>2 DEF Noted
  <2> QED
    BY <2>1, <2>2
<1>a. ASSUME NEW t \in Connections, EffectReject(t) PROVE Goal
  BY <1>a, <1>k DEF EffectReject, KeepsFiles
<1>3. ASSUME NEW t \in Connections, NEW r \in Request, EffectArrival(t, r) PROVE Goal
  <2>1. alive /\ alive' /\ KeepsFiles
    BY <1>3 DEF EffectArrival, EffectAnswer, EffectPairing, EffectCommand, EffectStart,
       EffectCancel, Entry
  <2>2. attempts'.notes \subseteq attempts.notes \cup {t}
    BY <1>3 DEF EffectArrival, EffectAnswer, EffectPairing, EffectCommand, EffectStart,
       EffectCancel, SameAttempts, Approves, Revokes, Writes, OnlyReceipt
  <2>3. t \in attempts'.notes => persisted'.receipts[req'[t].id] # None
    <3>1. CASE t \in attempts.notes
      BY <1>2, <2>1, <3>1
    <3>2. CASE EffectCommand(t, r)
      <4>1. /\ persisted'.receipts = [persisted.receipts EXCEPT ![r.id] = t]
            /\ req'[t] = r /\ r.id \in CommandIDs
        BY <1>0, <3>2 DEF EffectCommand, Entry, TypeOK, Request
      <4> QED
        BY <1>0, <4>1, NamesAssumption DEF TypeOK, Persisted
    <3>3. CASE t \notin attempts.notes /\ ~ EffectCommand(t, r)
      BY <1>3, <3>3 DEF EffectArrival, EffectAnswer, EffectPairing, EffectStart, EffectCancel,
         SameAttempts
    <3> QED
      BY <3>1, <3>2, <3>3
  <2>4. Noted(attempts, persisted)'
    BY <1>2, <2>1, <2>2, <2>3 DEF Noted
  <2>5. Noted(attemptsFile, persisted)'
    BY <1>2, <2>1 DEF Noted, KeepsFiles
  <2>6. "state" \notin unsaved' => Noted(attemptsFile, stateFile)'
    BY <1>0, <1>1, <2>1 DEF Noted, KeepsFiles
  <2> QED
    BY <2>4, <2>5, <2>6
<1>4. ASSUME NEW t \in Connections, EffectReturns(t) \/ EffectWakes(t) \/ EffectPaired(t) PROVE Goal
  BY <1>4, <1>k DEF EffectReturns, EffectWakes, EffectPaired, KeepsFiles
<1>5. ASSUME NEW t \in Connections, EffectReceipt(t) \/ EffectSaveState(t) PROVE Goal
  BY <1>5, <1>e, <1>k DEF EffectReceipt, EffectSaveState, SavesState, SavesAttempts
<1>6. ASSUME NEW t \in Connections, EffectSaveAttempts(t) PROVE Goal
  BY <1>6, <1>e, <1>k DEF EffectSaveAttempts, SavesAttempts
<1>7. CASE EffectHelperEnds
  BY <1>7, <1>e, <1>k DEF EffectHelperEnds, SameAttempts, SavesState, SavesAttempts
<1>8. CASE EffectServiceStart
  <2>1. attempts'.notes \subseteq attemptsFile.notes /\ attemptsFile'.notes \subseteq attemptsFile.notes
    BY <1>8, <1>e DEF EffectServiceStart, SavesAttempts
  <2>2. /\ persisted' = stateFile /\ Noted(attemptsFile, stateFile)
        /\ "state" \notin unsaved' => stateFile' = stateFile
    BY <1>0, <1>8 DEF EffectServiceStart, SavesState
  <2>3. \A t \in attemptsFile.notes : stateFile.receipts[req'[t].id] # None
    BY <1>1, <2>2 DEF Noted
  <2> QED
    BY <2>1, <2>2, <2>3 DEF Noted
<1>9. CASE EffectExit
  <2>1. ~ torn' /\ ~ stale' /\ ~ alive'
    BY <1>9, Zenon DEF Whole, EffectExit
  <2>2. CASE UNCHANGED <<stateFile, attemptsFile>> /\ stale' = (stale \/ unsaved # {})
    BY <1>0, <1>1, <2>1, <2>2 DEF Noted
  <2>3. CASE stateFile' = persisted /\ UNCHANGED attemptsFile
    BY <1>0, <1>1, <1>9, <2>1, <2>3 DEF Noted, EffectExit
  <2>4. CASE /\ UNCHANGED stateFile /\ attemptsFile' = attempts
             /\ \A t \in Connections : pc[t] # "saveState"
             /\ stale' = (stale \/ "state" \in unsaved)
    <3>1. stateFile = persisted
      BY <1>0, <1>9, <2>1, <2>4 DEF Saved, EffectExit
    <3> QED
      BY <1>0, <1>1, <1>9, <2>1, <2>4, <3>1 DEF Noted, EffectExit
  <2> QED
    BY <1>9, <2>1, <2>2, <2>3, <2>4 DEF EffectExit, Leaves
<1>10. CASE EffectTornStart
  BY <1>10, Zenon DEF EffectTornStart, Whole
<1>11. CASE Nothing
  <2>1. KeepsFiles /\ persisted' = persisted /\ attempts' = attempts /\ alive' = alive
    BY <1>11 DEF Nothing
  <2> QED
    BY <1>0, <1>1, <2>1 DEF Noted, KeepsFiles
<1> QED
  BY <1>a, <1>3, <1>4, <1>5, <1>6, <1>7, <1>8, <1>9, <1>10, <1>11 DEF Effect

\* Who is named has begun, and saves only in a running service.
LEMMA NamedBegan ==
    ASSUME Inv, NEW t \in Connections, Named(t)
    PROVE  Began(t)
<1>1. Recorded(t, persisted) \/ Recorded(t, stateFile) => Began(t)
  BY NamesAssumption DEF Inv, Recorded, Naming, NamesInState
<1>2. ToldOf(t) => Began(t)
  BY DEF Inv, ToldOf, Naming
<1> QED
  BY <1>1, <1>2 DEF Named

\* A command that was named saved its note, and the note stays with its attempt.
LEMMA NotesInMemory ==
    ASSUME Inv, TypeOK', Effect, Whole', NEW t \in Connections, Named(t)', alive'
    PROVE  KeepsNote(t, attempts)'
<1> SUFFICES ASSUME req'[t].command = "attemptWrite", req'[t].target \in Leases(attempts')
             PROVE  t \in attempts'.notes \cup half'
  BY DEF KeepsNote, Leases
<1>0. TypeOK /\ Locking /\ Order /\ Naming /\ attempts \in Attempts
  BY DEF Inv, TypeOK
<1>1. ASSUME NEW r \in Request, EffectCommand(t, r) PROVE t \in attempts'.notes
  BY <1>0, <1>1 DEF EffectCommand, Entry, Approves, Revokes, Writes, OnlyReceipt, TypeOK
<1>2. ~ EffectReceipt(t)
  BY <1>0 DEF EffectReceipt, Locking, Cancels
<1>3. CASE Named(t)
  <2>1. Began(t) /\ req'[t] = req[t] /\ Known(req[t].target)
    <3>1. Began(t)
      BY <1>3, NamedBegan
    <3>2. req'[t] = req[t]
      BY <3>1, BegunStep
    <3> QED
      BY <1>0, <1>3, <3>1, <3>2 DEF Order
  <2>2. half \subseteq half'
    BY ArrivalEntry DEF Effect, EffectReject, Entry, EffectReturns, EffectReceipt, EffectSaveState,
       EffectSaveAttempts, EffectWakes, EffectPaired, EffectHelperEnds, EffectServiceStart,
       EffectTornStart, EffectExit, Nothing, KeepsExits
  <2>3. CASE alive
    <3>1. KeepsNote(t, attempts)
      BY <1>3, <2>3, WholeFiles DEF Inv, Durable, InMemory
    <3>2. ASSUME Leases(attempts') = Leases(attempts), attempts.notes \subseteq attempts'.notes
          PROVE  t \in attempts'.notes \cup half'
      BY <2>1, <2>2, <3>1, <3>2 DEF KeepsNote
    <3>3. ASSUME NEW u \in Connections, NEW r \in Request, EffectStart(u, r)
          PROVE  t \in attempts'.notes \cup half'
      <4>1. /\ req[u] = None
            /\ attempts' = [lease |-> u, running |-> TRUE, history |-> attempts.history,
                            notes |-> {n \in attempts.notes : req[n].target \in attempts.history}]
        BY <3>3 DEF EffectStart, Entry
      <4>2. req[t].target # u
        BY <2>1, <4>1 DEF Known, Began
      <4>3. req[t].target \in attempts.history /\ req[t].target # None
        BY <2>1, <4>1, <4>2 DEF Leases
      <4>4. t \in attempts.notes \cup half
        BY <2>1, <3>1, <4>3 DEF KeepsNote, Leases
      <4> QED
        BY <2>2, <4>1, <4>3, <4>4
    <3>4. ASSUME NEW u \in Connections, NEW r \in Request, EffectCommand(u, r)
          PROVE  t \in attempts'.notes \cup half'
      <4>1. Leases(attempts') = Leases(attempts) /\ attempts.notes \subseteq attempts'.notes
        BY <3>4 DEF EffectCommand, Approves, Revokes, Writes, OnlyReceipt, Leases
      <4> QED
        BY <3>2, <4>1
    <3>5. CASE SameAttempts
      BY <3>2, <3>5 DEF SameAttempts, Leases
    <3>6. CASE attempts' = attempts
      BY <3>2, <3>6
    <3> QED
      BY <2>3, <3>3, <3>4, <3>5, <3>6 DEF Effect, EffectReject, EffectArrival, EffectAnswer,
         EffectPairing, EffectCancel, EffectReturns, EffectReceipt, EffectSaveState,
         EffectSaveAttempts, EffectWakes, EffectPaired, EffectHelperEnds, EffectServiceStart,
         EffectTornStart, EffectExit, Nothing
  <2>4. CASE ~ alive
    <3>1. EffectServiceStart
      BY <2>4, ArrivalEntry DEF Effect, EffectReject, Entry, EffectReturns, EffectReceipt, EffectSaveState,
         EffectSaveAttempts, EffectWakes, EffectPaired, EffectHelperEnds, EffectTornStart,
         EffectExit, Nothing
    <3>2. pc[t] \notin Saving /\ unsaved = {}
      BY <1>0, <2>4 DEF Locking, Saving
    <3>3. KeepsNote(t, attemptsFile)
      BY <1>3, <3>2, WholeFiles DEF Inv, Durable, InFiles
    <3> QED
      BY <2>1, <2>2, <3>1, <3>3 DEF EffectServiceStart, KeepsNote
  <2> QED
    BY <2>3, <2>4
<1> QED
  BY <1>1, <1>2, <1>3, NamedStep

\* So does the file that was written without a failure.
LEMMA NotesInFile ==
    ASSUME Inv, TypeOK', Effect, Whole', NEW t \in Connections, Named(t)', pc'[t] \notin Saving,
           "attempts" \notin unsaved'
    PROVE  KeepsNote(t, attemptsFile)'
<1>0. TypeOK /\ Locking /\ Order
  BY DEF Inv
<1>1. Named(t)
  <2>1. ~ EffectReceipt(t)
    BY <1>0 DEF EffectReceipt, Saving, TypeOK
  <2>2. ASSUME NEW r \in Request, EffectCommand(t, r) PROVE FALSE
    BY <1>0, <2>2 DEF EffectCommand, Saving, TypeOK
  <2> QED
    BY <2>1, <2>2, NamedStep
<1>2. Began(t) /\ req'[t] = req[t]
  BY <1>1, NamedBegan, BegunStep
<1>3. CASE alive' /\ attemptsFile' = attempts'
  BY <1>3, NotesInMemory DEF KeepsNote, Leases
<1>4. ASSUME attemptsFile' = attemptsFile, "attempts" \notin unsaved, pc[t] \notin Saving,
             half \subseteq half'
      PROVE  KeepsNote(t, attemptsFile)'
  <2>1. KeepsNote(t, attemptsFile)
    BY <1>1, <1>4, WholeFiles DEF Inv, Durable, InFiles
  <2> QED
    BY <1>2, <1>4, <2>1 DEF KeepsNote, Leases
\* Nothing is written and nobody has done with saving.
<1>5. ASSUME NEW u \in Connections, EffectReject(u) \/ \E r \in Request : EffectArrival(u, r)
      PROVE  KeepsNote(t, attemptsFile)'
  <2>1. KeepsFiles /\ KeepsExits /\ pc[u] = "new"
    BY <1>5, ArrivalEntry DEF EffectReject, Entry
  <2>2. pc[t] \notin Saving
    <3>1. EffectReject(u) => pc[t] \notin Saving
      BY <1>0 DEF EffectReject, Saving, TypeOK
    <3>2. ASSUME NEW r \in Request, EffectArrival(u, r) PROVE pc[t] \notin Saving
      BY <3>2, ArrivalEntry DEF Entry, Saving, Holding
    <3> QED
      BY <1>5, <3>1, <3>2
  <2> QED
    BY <1>4, <2>1, <2>2 DEF KeepsFiles, KeepsExits
<1>6. ASSUME NEW u \in Connections,
             EffectReturns(u) \/ EffectSaveState(u) \/ EffectWakes(u) \/ EffectPaired(u)
      PROVE  KeepsNote(t, attemptsFile)'
  <2>1. /\ attemptsFile' = attemptsFile /\ "attempts" \notin unsaved /\ half' = half
    BY <1>6 DEF EffectReturns, EffectSaveState, EffectWakes, EffectPaired, KeepsFiles, KeepsExits
  <2>2. pc[t] \notin Saving
    BY <1>0, <1>6 DEF EffectReturns, EffectSaveState, EffectWakes, EffectPaired, Saving, TypeOK,
       Waiting
  <2> QED
    BY <1>4, <2>1, <2>2
<1>7. CASE EffectExit
  <2>1. ~ torn' /\ ~ stale' /\ pc[t] # "saveState"
    <3>1. ~ torn' /\ ~ stale'
      BY Zenon DEF Whole
    <3>2. CASE stateFile' = stateFile
      <4>1. Recorded(t, stateFile) \/ ToldOf(t)
        BY <1>7, <3>2, NamesAssumption DEF EffectExit, Named, Recorded, ToldOf, Receipts, EmptyState
      <4> QED
        BY <1>0, <3>1, <4>1 DEF Order
    <3>3. CASE stateFile' # stateFile
      BY <1>7, <3>1, <3>3 DEF EffectExit, Leaves, NoneSaving, Saving
    <3> QED
      BY <3>2, <3>3
  <2>2. CASE t \in half' \cup attemptsFile'.notes
    BY <2>2 DEF KeepsNote
  <2>3. CASE pc[t] \notin Saving
    <3>1. half \subseteq half' /\ alive
      BY <1>7 DEF EffectExit
    <3>2. CASE attemptsFile' = attempts
      <4>1. KeepsNote(t, attempts)
        BY <1>1, <3>1, WholeFiles DEF Inv, Durable, InMemory
      <4> QED
        BY <1>2, <3>1, <3>2, <4>1 DEF KeepsNote, Leases
    <3>3. CASE attemptsFile' = attemptsFile /\ "attempts" \notin unsaved
      BY <1>4, <2>3, <3>1, <3>3
    <3> QED
      BY <1>7, <2>1, <3>2, <3>3 DEF EffectExit, Leaves
  <2> QED
    BY <1>7, <2>1, <2>2, <2>3 DEF EffectExit, Saving
<1>8. CASE Nothing
  BY <1>4, <1>8 DEF Nothing, KeepsFiles, KeepsExits
<1>9. CASE EffectTornStart
  BY <1>9, Zenon DEF EffectTornStart, Whole
<1>10. ASSUME NEW u \in Connections, EffectReceipt(u) \/ EffectSaveAttempts(u)
       PROVE  KeepsNote(t, attemptsFile)'
  BY <1>3, <1>10 DEF EffectReceipt, EffectSaveAttempts, SavesAttempts
<1>11. CASE EffectHelperEnds \/ EffectServiceStart
  BY <1>3, <1>11 DEF EffectHelperEnds, EffectServiceStart, SavesAttempts
<1> QED
  BY <1>5, <1>6, <1>7, <1>8, <1>9, <1>10, <1>11 DEF Effect

\* A revocation that was named is in the state, and in the file once that is written.
LEMMA RevocationStep ==
    ASSUME Inv, TypeOK', Effect, Whole', NEW t \in Connections, Named(t)'
    PROVE  /\ alive' => KeepsRevocation(t, persisted)'
           /\ "state" \notin unsaved' /\ pc'[t] # "saveState" => KeepsRevocation(t, stateFile)'
<1>0. TypeOK /\ Locking /\ Order /\ InHand' /\ unsaved \in SUBSET {"state", "attempts"}
  BY InHandStep DEF Inv, TypeOK
<1>1. Named(t) \/ pc'[t] = "saveState"
  <2>1. EffectReceipt(t) => pc'[t] = "saveState"
    BY <1>0 DEF EffectReceipt, TypeOK
  <2>2. (\E r \in Request : EffectCommand(t, r)) => pc'[t] = "saveState"
    BY <1>0 DEF EffectCommand, TypeOK
  <2> QED
    BY <2>1, <2>2, NamedStep
<1>2. CASE pc'[t] = "saveState"
  BY <1>0, <1>2 DEF InHand, Saving
<1>3. CASE Named(t) /\ pc'[t] # "saveState"
  <2>1. /\ req'[t] = req[t]
        /\ req[t].command = "revokeSession" => req[t].target \in Names
    BY <1>0, <1>3, NamedBegan, BegunStep DEF Order, Known
  <2>2. alive => KeepsRevocation(t, persisted)
    BY <1>3, WholeFiles DEF Inv, Durable, InMemory
  <2>3. "state" \notin unsaved /\ pc[t] # "saveState" => KeepsRevocation(t, stateFile)
    BY <1>3, WholeFiles DEF Inv, Durable, InFiles
  <2>4. alive' => KeepsRevocation(t, persisted)'
    <3>1. CASE alive /\ alive'
      BY <2>1, <2>2, <3>1, StateGrows DEF KeepsRevocation
    <3>2. CASE ~ alive /\ alive'
      <4>1. persisted' = stateFile /\ unsaved = {}
        BY <3>2, WholeFiles
      <4>2. pc[t] # "saveState"
        BY <1>0, <3>2 DEF Locking
      <4> QED
        BY <2>1, <2>3, <4>1, <4>2 DEF KeepsRevocation
    <3> QED
      BY <3>1, <3>2
  <2>5. ASSUME "state" \notin unsaved' PROVE KeepsRevocation(t, stateFile)'
    <3>1. CASE stateFile' = persisted /\ alive
      BY <2>1, <2>2, <3>1 DEF KeepsRevocation
    <3>2. CASE stateFile' = stateFile /\ "state" \notin unsaved /\ pc[t] # "saveState"
      BY <2>1, <2>3, <3>2 DEF KeepsRevocation
    <3>3. CASE pc[t] = "saveState"
      <4>1. EffectSaveState(t) \/ EffectExit
        <5> USE <1>0, <1>3, <3>3 DEF TypeOK
        <5>1. ASSUME NEW u \in Connections, NEW r \in Request, EffectArrival(u, r) PROVE FALSE
          <6>1. pc[u] = "new" /\ \A v \in Connections : pc[v] \notin Holding
            BY <5>1 DEF EffectArrival, EffectAnswer, EffectPairing, EffectCommand, EffectStart,
               EffectCancel, Entry
          <6> QED
            BY <6>1 DEF Holding
        <5>2. ASSUME NEW u \in Connections,
                     \/ EffectReject(u) \/ EffectReturns(u) \/ EffectReceipt(u)
                     \/ EffectSaveAttempts(u) \/ EffectWakes(u) \/ EffectPaired(u)
              PROVE  FALSE
          BY <5>2 DEF EffectReject, EffectReturns, EffectReceipt, EffectSaveAttempts, EffectWakes,
             EffectPaired, Waiting
        <5>3. ASSUME NEW u \in Connections, EffectSaveState(u) PROVE u = t
          BY <5>3 DEF EffectSaveState
        <5> QED
          BY <5>1, <5>2, <5>3 DEF Effect, EffectHelperEnds, EffectServiceStart, EffectTornStart, Nothing
      <4>2. CASE EffectSaveState(t)
        BY <2>5, <3>1, <4>2 DEF EffectSaveState, SavesState
      <4>3. CASE EffectExit
        <5>1. CASE stateFile' = stateFile
          <6>1. Recorded(t, stateFile) \/ ToldOf(t)
            BY <4>3, <5>1, NamesAssumption
               DEF EffectExit, Named, Recorded, ToldOf, Receipts, EmptyState
          <6> QED
            BY <1>0, <3>3, <6>1 DEF Order
        <5>2. CASE stateFile' # stateFile
          BY <2>5, <3>1, <4>3, <5>2, WholeFiles
        <5> QED
          BY <5>1, <5>2
      <4> QED
        BY <4>1, <4>2, <4>3
    <3> QED
      BY <2>5, <3>1, <3>2, <3>3, WholeFiles
  <2> QED
    BY <2>4, <2>5
<1> QED
  BY <1>1, <1>2, <1>3

\* A receipt of one's own is new only where all is saved or known not to be.
LEMMA OwnStep ==
    ASSUME Inv, TypeOK', Effect, NEW t \in Connections, Own(t)'
    PROVE  /\ Began(t) /\ req'[t] = req[t]
           /\ Own(t) \/ EffectSaveAttempts(t)
<1>0. TypeOK /\ Locking /\ Naming
  BY DEF Inv
<1> USE <1>0 DEF TypeOK, Own, Receipts
<1>1. CASE reply'[t] = reply[t]
  BY <1>1, BegunStep DEF Locking, Began
<1>2. CASE reply'[t] # reply[t]
  <2>1. ASSUME NEW u \in Connections, EffectReject(u) PROVE FALSE
    BY <1>2, <2>1 DEF EffectReject, Rejected
  <2>2. ASSUME NEW u \in Connections, NEW r \in Request, EffectArrival(u, r) PROVE FALSE
    <3>1. u = t /\ EffectAnswer(t, r)
      BY <1>2, <2>2 DEF EffectArrival, EffectAnswer, EffectPairing, EffectCommand, EffectStart,
         EffectCancel
    <3>2. persisted.receipts[r.id] = t /\ r.id \in CommandIDs
      BY <3>1 DEF EffectAnswer, Request
    <3> QED
      BY <3>1, <3>2, NamesAssumption DEF EffectAnswer, Entry, Naming, NamesInState, Began
  <2>3. ASSUME NEW u \in Connections, EffectPaired(u) PROVE FALSE
    BY <1>2, <2>3 DEF EffectPaired
  <2>4. ASSUME NEW u \in Connections, EffectSaveAttempts(u) PROVE u = t /\ Began(t) /\ req' = req
    BY <1>2, <2>4 DEF EffectSaveAttempts, Locking
  <2> QED
    BY <1>2, <2>1, <2>2, <2>3, <2>4 DEF Effect, EffectReturns, EffectReceipt, EffectSaveState,
       EffectWakes, EffectHelperEnds, EffectServiceStart, EffectTornStart, EffectExit, Nothing
<1> QED
  BY <1>1, <1>2

\* A revocation whose receipt was sent stays one in memory and on disk, or the sessions are
\* gone with a file that was cut short.
LEMMA LastingStep ==
    ASSUME Inv, TypeOK', Effect
    PROVE  Lasting'
<1> SUFFICES ASSUME ~ stale', NEW t \in Connections, Own(t)', req'[t].command = "revokeSession"
             PROVE  /\ persisted'.sessions[req'[t].target] # "active"
                    /\ "state" \notin unsaved' => stateFile'.sessions[req'[t].target] # "active"
  BY DEF Lasting, RevokedOut
<1>0. /\ TypeOK /\ Locking /\ Saved /\ Naming /\ Order /\ InHand
      /\ stale \in BOOLEAN /\ unsaved \in SUBSET {"state", "attempts"}
  BY DEF Inv, TypeOK
<1>1. ~ stale
  <2>1. stale' = stale \/ EffectExit
    BY ArrivalEntry DEF Effect, EffectReject, Entry, EffectReturns, EffectReceipt, EffectSaveState,
       EffectSaveAttempts, EffectWakes, EffectPaired, EffectHelperEnds, EffectServiceStart,
       EffectTornStart, Nothing, KeepsExits
  <2>2. EffectExit => ~ stale
    BY <1>0, Zenon DEF EffectExit, Leaves
  <2>3. ASSUME stale' = stale PROVE ~ stale
    BY <2>3
  <2> QED
    BY <2>1, <2>2, <2>3
<1>2. req'[t] = req[t] /\ (Own(t) \/ EffectSaveAttempts(t))
  BY OwnStep
<1>3. CASE EffectSaveAttempts(t)
  BY <1>0, <1>2, <1>3 DEF EffectSaveAttempts, InHand, Saving, KeepsRevocation
<1>4. CASE Own(t)
  <2> DEFINE s == req[t].target
  <2>1. Known(s)
    <3>1. ToldOf(t)
      BY <1>4 DEF Own, ToldOf
    <3> QED
      BY <1>0, <1>2, <3>1 DEF Order, Named
  <2>2. /\ persisted.sessions[s] # "active"
        /\ "state" \notin unsaved => stateFile.sessions[s] # "active"
        /\ EmptyState.sessions[s] # "active"
    BY <1>1, <1>2, <1>4, <2>1 DEF Inv, Lasting, RevokedOut, EmptyState, Known
  <2>3. persisted'.sessions[s] # "active"
    <3>1. ASSUME NEW u \in Connections, NEW r \in Request, EffectCommand(u, r)
          PROVE  persisted'.sessions[s] # "active"
      <4>1. s # u /\ persisted \in Persisted
        BY <1>0, <2>1, <3>1 DEF EffectCommand, Entry, Known, Began, TypeOK
      <4> QED
        BY <2>1, <2>2, <3>1, <4>1
           DEF EffectCommand, Approves, Revokes, Writes, OnlyReceipt, Persisted, Known
    <3>2. CASE persisted'.sessions = persisted.sessions
      BY <2>2, <3>2
    <3>3. CASE EffectServiceStart
      BY <1>0, <2>2, <3>3 DEF EffectServiceStart, Locking
    <3>4. CASE EffectExit
      BY <2>2, <3>4 DEF EffectExit
    <3> QED
      BY <3>1, <3>2, <3>3, <3>4 DEF Effect, EffectReject, EffectArrival, EffectAnswer,
         EffectPairing, EffectStart, EffectCancel, EffectReturns, EffectReceipt, EffectSaveState,
         EffectSaveAttempts, EffectWakes, EffectPaired, EffectHelperEnds, EffectTornStart, Nothing
  <2>4. ASSUME "state" \notin unsaved' PROVE stateFile'.sessions[s] # "active"
    <3>1. CASE stateFile' \in {persisted, EmptyState}
      BY <2>2, <3>1
    <3>2. CASE stateFile' = stateFile /\ "state" \notin unsaved
      BY <2>2, <3>2
    <3>3. ASSUME NEW u \in Connections, NEW r \in Request, EffectArrival(u, r)
          PROVE  stateFile' = stateFile /\ "state" \notin unsaved
      BY <2>4, <3>3 DEF EffectArrival, EffectAnswer, EffectPairing, EffectCommand, EffectStart,
         EffectCancel, Entry, KeepsFiles
    <3>4. ASSUME NEW u \in Connections,
                 \/ EffectReject(u) \/ EffectReturns(u) \/ EffectWakes(u) \/ EffectPaired(u)
                 \/ EffectSaveAttempts(u)
          PROVE  stateFile' = stateFile /\ "state" \notin unsaved
      BY <2>4, <3>4 DEF EffectReject, EffectReturns, EffectWakes, EffectPaired,
         EffectSaveAttempts, KeepsFiles
    <3>5. ASSUME NEW u \in Connections, EffectReceipt(u) \/ EffectSaveState(u)
          PROVE  stateFile' = persisted
      BY <2>4, <3>5 DEF EffectReceipt, EffectSaveState, SavesState
    <3>6. EffectHelperEnds => stateFile' = persisted
      BY <2>4 DEF EffectHelperEnds, SavesState
    <3>7. EffectServiceStart => stateFile' = stateFile /\ "state" \notin unsaved
      BY <1>0, <2>4 DEF EffectServiceStart, SavesState, Locking
    <3>8. EffectTornStart => stateFile' = EmptyState \/ (stateFile' = stateFile /\ "state" \notin unsaved)
      BY <2>4 DEF EffectTornStart
    <3>9. Nothing => stateFile' = stateFile /\ "state" \notin unsaved
      BY <2>4 DEF Nothing, KeepsFiles
    <3>10. CASE EffectExit
      <4>1. CASE UNCHANGED stateFile /\ stale' = (stale \/ unsaved # {})
        BY <3>2, <4>1
      <4>2. CASE UNCHANGED stateFile /\ stale' = (stale \/ "state" \in unsaved)
        BY <3>2, <4>2
      <4> QED
        BY <3>1, <3>10, <4>1, <4>2 DEF EffectExit, Leaves
    <3> QED
      BY <3>1, <3>2, <3>3, <3>4, <3>5, <3>6, <3>7, <3>8, <3>9, <3>10 DEF Effect
  <2> QED
    BY <1>2, <2>3, <2>4
<1> QED
  BY <1>2, <1>3, <1>4

\* The receipt told last is the one in the state, and those told before are the same or
\* were replaced by a cancel's.
LEMMA SameIDStep ==
    ASSUME Inv, TypeOK', Effect
    PROVE  SameIDSameReceipt'
<1> SUFFICES ASSUME Whole', NEW t \in Connections, NEW u \in Connections,
                    Receipts(t)', Receipts(u)', req'[t].id = req'[u].id
             PROVE  reply'[t].of = reply'[u].of \/ (Cancels(reply[t].of))' \/ (Cancels(reply[u].of))'
  BY DEF SameIDSameReceipt, Cancels, Whole
<1>1. alive' => Told(persisted)'
  BY ToldStep
<1>2. CASE reply[t] = None
  BY <1>1, <1>2, NewlyTold DEF Told, ToldTo, Receipts, Cancels
<1>3. CASE reply[u] = None
  BY <1>1, <1>3, NewlyTold DEF Told, ToldTo, Receipts, Cancels
<1>4. CASE reply[t] # None /\ reply[u] # None
  <2>1. /\ reply'[t] = reply[t] /\ reply'[u] = reply[u]
        /\ req'[t] = req[t] /\ req'[u] = req[u]
    BY <1>4, BegunStep
  <2>2. Receipts(t) /\ Receipts(u)
    BY <2>1 DEF Receipts
  <2>3. req'[reply[t].of] = req[reply[t].of] /\ req'[reply[u].of] = req[reply[u].of]
    BY <2>2, BegunStep DEF Inv, Naming
  <2>4. Whole /\ SameIDSameReceipt
    BY WholeFiles DEF Inv
  <2> QED
    BY <2>1, <2>2, <2>3, <2>4 DEF SameIDSameReceipt, Cancels, Whole
<1> QED
  BY <1>2, <1>3, <1>4

LEMMA InvStep == Inv /\ [Next]_vars => Inv'
<1> SUFFICES ASSUME Inv, [Next]_vars PROVE Inv'
  OBVIOUS
<1>1. TypeOK' /\ Effect
  BY TypeStep, StepEffect
<1>2. Durable'
  <2> SUFFICES ASSUME Whole' PROVE (alive' => InMemory') /\ InFiles'
    BY DEF Durable
  <2>1. alive' => InMemory'
    BY <1>1, ToldStep, NotedStep, NotesInMemory, RevocationStep DEF InMemory
  <2>2. InFiles'
    BY <1>1, ToldStep, NotedStep, NotesInFile, RevocationStep DEF InFiles
  <2> QED
    BY <2>1, <2>2
<1> QED
  BY <1>1, <1>2, LockingStep, NamingStep, OrderStep, InHandStep, SameIDStep, LastingStep DEF Inv

---------------------------------------------------------------------------
\* The inductive invariant holds of every reachable state of the command boundary.
THEOREM Inductive == Spec => []Inv
BY InitInv, InvStep, PTL DEF Spec

\* Whatever connections come, however often a command ID is used again and wherever the
\* service exits: what a client was told is in the files, or in the memory of a service
\* whose write failed (main.swift dispatch and persist), but for a note whose service
\* exited between the two writes; until an exit loses a failed write or cuts a file short.
THEOREM AnswersDurable == Spec => []AnswersAreDurable
<1>1. Inv => AnswersAreDurable
  <2> SUFFICES ASSUME Inv, Whole PROVE GrantIsDurable /\ NoteHasReceipt /\ ReceiptIsDurable
    BY DEF Inv, AnswersAreDurable, Whole
  <2>1. unsaved # {} => alive
    BY DEF Inv, Locking
  <2>2. /\ "state" \in unsaved => InMemory
        /\ InFiles
        /\ "attempts" \in unsaved => InMemory
    BY <2>1 DEF Inv, Durable
  <2>3. Told(KeptState)
    BY <2>2 DEF KeptState, InMemory, InFiles
  <2>4. GrantIsDurable
    BY <2>3 DEF Told, ToldTo, GrantIsDurable
  <2>5. NoteHasReceipt
    BY <2>2 DEF KeptState, InMemory, InFiles, Noted, NoteHasReceipt
  <2>6. ASSUME NEW t \in Connections, Receipts(t)
        PROVE  LET first == reply[t].of IN
               /\ KeptState.receipts[req[t].id] # None
               /\ req[first].command = "attemptWrite" /\ req[first].target \in Leases(KeptAttempts)
                    => first \in KeptAttempts.notes \cup half
               /\ req[first].command = "revokeSession" =>
                    KeptState.sessions[req[first].target] = "revoked"
    <3> DEFINE first == reply[t].of
    <3>1. KeptState.receipts[req[t].id] # None
      BY <2>3, <2>6 DEF Told, ToldTo
    <3>2. first \in Connections /\ Named(first) /\ pc[first] = "done"
      BY <2>6 DEF Inv, Naming, Named, ToldOf, Order
    <3>3. KeepsNote(first, KeptAttempts)
      BY <2>2, <3>2 DEF KeptAttempts, InMemory, InFiles, Saving
    <3>4. KeepsRevocation(first, KeptState)
      BY <2>2, <3>2 DEF KeptState, InMemory, InFiles
    <3> QED
      BY <3>1, <3>3, <3>4 DEF KeepsNote, KeepsRevocation
  <2> QED
    BY <2>4, <2>5, <2>6 DEF ReceiptIsDurable
<1> QED
  BY <1>1, Inductive, PTL

\* A pairing request gives at most one session, among any connections that approve it
\* (main.swift, approvePairing).
THEOREM OneSession == Spec => []OneSessionPerRequest
<1>1. Inv => OneSessionPerRequest
  BY DEF Inv, Naming, NamesInState, OneSessionPerRequest
<1> QED
  BY <1>1, Inductive, PTL

\* Any number of clients that use one command ID get one receipt, but for a cancel's
\* (main.swift, the receipts that dispatch looks up), until an exit loses a failed write
\* or cuts a file short.
THEOREM SameReceipt == Spec => []SameIDSameReceipt
<1>1. Inv => SameIDSameReceipt
  BY DEF Inv
<1> QED
  BY <1>1, Inductive, PTL

\* After the receipt of a revocation no command of the session takes effect, however
\* many connections hold its token and whatever files are cut short, until an exit loses
\* a failed write.
THEOREM RevokedOutForGood == Spec => RevokedStaysOut
<1>1. Inv /\ [Next]_vars =>
        [~ stale => \A a \in Connections, t \in acts' \ acts :
            Receipts(a) /\ reply[a].of = a /\ req[a].command = "revokeSession" =>
                req'[t].who # req[a].target]_vars
  <2> SUFFICES ASSUME Inv, [Next]_vars, ~ stale, NEW a \in Connections, NEW t \in acts' \ acts,
                      Receipts(a), reply[a].of = a, req[a].command = "revokeSession"
               PROVE  req'[t].who # req[a].target
    OBVIOUS
  <2>1. req[a].target \in Names /\ persisted.sessions[req[a].target] # "active"
    BY DEF Inv, Order, Named, ToldOf, Known, Lasting, RevokedOut, Own
  <2>2. PICK r \in Request : Admitted(r) /\ req' = [req EXCEPT ![t] = r] /\ t \in Connections
    <3>1. ASSUME NEW u \in Connections, NEW r \in Requests, Arrives(u, r)
          PROVE  r \in Request /\ Admitted(r) /\ req' = [req EXCEPT ![u] = r] /\ u = t
      BY <3>1 DEF Arrives, Reject, Replay, RequestPairing, ApprovePairing, RevokeSession,
         GrantFixture, DescribeFixture, StartAttempt, CancelAttempt, CancelMismatch, AttemptWrite,
         Executes, Brings, Requests
    <3> QED
      BY <3>1 DEF Next, vars, Continues, InnerSaved, SaveState, SaveAttempts, CancelReturns,
         SignalGrant, PairingReply, PairingWakes, HelperEnds, ServiceStart, ServiceExit, SplitExit,
         UnansweredExit, TornExit, TornStart, ExitWith
  <2> QED
    BY <2>1, <2>2, NamesAssumption DEF Admitted, Names, Inv, TypeOK
<1> QED
  BY <1>1, Inductive, PTL DEF Spec, RevokedStaysOut
=============================================================================
