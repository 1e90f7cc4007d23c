---------------------------- MODULE HelperLease ----------------------------
(***************************************************************************)
(* The helper attempts of the app-owned service: proofs/native-boundary,   *)
(* ProofService/main.swift, with the process table it probes and signals.  *)
(*                                                                         *)
(* The service runs at most one leased helper process.  A start holds the  *)
(* service lock from the spawn until the helper's handshake has been       *)
(* checked and recorded; a cancel releases the lock while it waits for the *)
(* exit; the exit is reported by a termination handler on another thread.  *)
(* The attempt store is kept in memory and in attempts.json.  The service  *)
(* may exit at any moment (crash, SIGTERM, shutdown command, idle watcher) *)
(* and leaves its helper running; the next service loads the file and      *)
(* reconciles the attempt it finds there.                                  *)
(*                                                                         *)
(* A start-time stamp is modelled by the identity of the process that      *)
(* holds a pid: two processes never share both pid and start time, so      *)
(* "the live stamp equals the recorded one" is slot[pid] = lease.  A       *)
(* probe and the signal it guards are one step (README, "Bounds").         *)
(***************************************************************************)
EXTENDS FiniteSets

CONSTANTS
    Leases,       \* lease UUIDs; each names the one helper launched under it
    Pids,         \* the kernel's process identifiers
    OldLeases, OldPids,  \* the leases and pids an earlier service may have left
    Foreigners,   \* processes the service did not launch
    Threads,      \* connection threads that can be waiting inside cancel()
    Notes,        \* note texts of attemptWrite
    None,         \* absence: no process, no attempt, no lease
    LateHandler,  \* may a handler set after the exit still be called?
    TornWrites,   \* may an exit leave attempts.json half written?
    WritesFail    \* may a write of attempts.json fail?

Processes == Leases \cup Foreigners

Attempt == [lease: Leases,
            state: {"running", "cancelled", "completed", "interrupted"},
            verified: BOOLEAN,    \* handshake equals lease and stamp
            cancelReq: BOOLEAN,   \* cancelRequestedAt # nil
            exited: BOOLEAN,      \* exitedAt # nil
            notes: SUBSET Notes]

Reconcile == [lease: Leases,
              class: {"unverified", "alive", "gone", "reused"},
              signalled: BOOLEAN]

Store == [current: Attempt \cup {None},
          history: SUBSET Attempt,
          reconciles: SUBSET Reconcile]

EmptyStore == [current |-> None, history |-> {}, reconciles |-> {}]

\* A cancel receipt: the lease asked for, the one its text describes, and how.
Answer == [asked: Leases, about: Leases,
           outcome: {"exit", "timeout", "notSignalled"}]

ASSUME LeasesAssumption == Leases \cap Foreigners = {}
ASSUME OldAssumption == OldLeases \subseteq Leases /\ OldPids \subseteq Pids
ASSUME NoneAssumption == /\ None \notin Processes
                         /\ None \notin Pids
                         /\ None \notin Attempt
                         /\ None \notin Answer
ASSUME FlagAssumption == /\ LateHandler \in (SUBSET BOOLEAN) \ {{}}
                         /\ TornWrites \in BOOLEAN
                         /\ WritesFail \in BOOLEAN

VARIABLES
    slot,      \* the process holding each pid (a zombie holds it too)
    proc,      \* life of the helper of each lease
    pidOf,     \* pid given to the helper of each lease
    line,      \* the handshake line the helper wrote to its pipe
    sig,       \* live helpers with a SIGTERM delivered
    struck,    \* foreign processes signalled, and by which path
    phase,     \* life of the service process
    mem, disk, \* AttemptStore in memory, attempts.json
    written,   \* what the last write stored: all that memory holds, all but later
               \* helperEvents of the record, or the write failed
    launch,    \* startAttempt in progress: it holds the service lock
    handlers,  \* leases whose Process object has a termination handler
    notices,   \* termination handlers called and waiting for the lock
    cancels,   \* lease each thread is waiting for inside cancel()
    answers,   \* last cancel receipt each thread's client received
    lost       \* history: live helpers an exit left without a record

procVars == <<slot, proc, pidOf, line, sig, struck>>
clientVars == <<cancels, answers>>
vars == <<procVars, phase, mem, disk, written, launch, handlers, notices, clientVars,
          lost>>

NoLaunch == [step |-> "idle", lease |-> None, stamp |-> None]

TypeOK ==
    /\ slot \in [Pids -> Processes \cup {None}]
    /\ proc \in [Leases -> {"unborn", "booting", "running", "exited", "gone"}]
    /\ pidOf \in [Leases -> Pids \cup {None}]
    /\ line \in [Leases -> {"none", "good", "bad"}]
    /\ sig \in SUBSET Leases
    /\ struck \in SUBSET (Foreigners \X {"checked", "unchecked"})
    /\ phase \in {"down", "reconciled", "up"}
    /\ mem \in Store
    /\ disk \in Store
    /\ written \in {"all", "butEvents", "failed"}
    /\ launch \in [step: {"idle", "spawned", "stamped", "recorded"},
                   lease: Leases \cup {None}, stamp: Processes \cup {None}]
    /\ handlers \in SUBSET Leases
    /\ notices \in SUBSET Leases
    /\ cancels \in [Threads -> Leases \cup {None}]
    /\ answers \in [Threads -> Answer \cup {None}]
    /\ lost \in SUBSET Leases

----------------------------------------------------------------------------
(* Reading the state.                                                      *)

Alive(l) == proc[l] \in {"booting", "running"}

RunningIn(store, l) ==
    /\ store.current # None
    /\ store.current.lease = l
    /\ store.current.state = "running"

\* The attempts a store knows, current or reconciled.
Known(store) == store.history \cup ({store.current} \ {None})

AnyRunningIn(store) == \E l \in Leases : RunningIn(store, l)

\* Mutant: cancel() keeps the lock while it waits for the exit.
MutLockHeldByCancel ==
    phase = "up" /\ launch.step = "idle" /\ \A t \in Threads : cancels[t] = None

\* The service is serving and its lock is free.
LockFree == phase = "up" /\ launch.step = "idle"

\* persist(): attempts.json becomes what memory is after the step.  A write that fails
\* tells nobody; it leaves the file as it was, or a part that does not decode.
Persist ==
    \/ disk' = mem' /\ written' = "all"
    \/ WritesFail /\ disk' \in {disk, EmptyStore} /\ written' = "failed"

\* kill(p, SIGTERM), from a path that compared stamps or from one that did not.
Signal(p, path) ==
    /\ sig' = sig \cup {l \in Leases : slot[p] = l /\ Alive(l)}
    /\ struck' = struck \cup ({f \in Foreigners : slot[p] = f} \X {path})

----------------------------------------------------------------------------
(* Initial states: a first start, or an attempts.json left by an earlier   *)
(* service or by proofctl inject-stale-attempt, whose helper is still      *)
(* running, or gone with its pid free or taken by another process.         *)

FreshAttempt(l) == [lease |-> l, state |-> "running", verified |-> TRUE,
                    cancelReq |-> FALSE, exited |-> FALSE, notes |-> {}]

CleanInit ==
    /\ slot = [p \in Pids |-> None]
    /\ proc = [l \in Leases |-> "unborn"]
    /\ pidOf = [l \in Leases |-> None]
    /\ line = [l \in Leases |-> "none"]
    /\ disk = EmptyStore

LeftoverInit ==
    \E l \in OldLeases, p \in OldPids, alive, ok \in BOOLEAN,
       other \in Foreigners \cup {None} :
        /\ slot = [q \in Pids |-> IF q # p THEN None
                                  ELSE IF alive THEN l ELSE other]
        /\ proc = [k \in Leases |-> IF k # l THEN "unborn"
                                    ELSE IF alive THEN "running" ELSE "gone"]
        /\ pidOf = [k \in Leases |-> IF k = l THEN p ELSE None]
        /\ line = [k \in Leases |-> IF k = l THEN "good" ELSE "none"]
        /\ disk = [EmptyStore EXCEPT
                     !.current = [FreshAttempt(l) EXCEPT !.verified = ok]]

Init ==
    /\ CleanInit \/ LeftoverInit
    /\ sig = {}
    /\ struck = {}
    /\ phase = "down"
    /\ mem = EmptyStore
    /\ written = "all"
    /\ launch = NoLaunch
    /\ handlers = {}
    /\ notices = {}
    /\ cancels = [t \in Threads |-> None]
    /\ answers = [t \in Threads |-> None]
    /\ lost = {}

----------------------------------------------------------------------------
(* Processes and the kernel.                                               *)

\* The helper installs its SIGTERM flag, then writes the "started" line; the
\* line carries -1 for its start time when it cannot read its own stamp.
HelperAnnounce(l) ==
    /\ proc[l] = "booting"
    /\ proc' = [proc EXCEPT ![l] = "running"]
    /\ \E text \in {"good", "bad"} : line' = [line EXCEPT ![l] = text]
    /\ UNCHANGED <<slot, pidOf, sig, struck, phase, mem, disk, written, launch,
                   handlers, notices, clientVars, lost>>

\* It ends: its seconds are over, it saw the SIGTERM flag, or it crashed.
HelperExit(l) ==
    /\ Alive(l)
    /\ proc' = [proc EXCEPT ![l] = "exited"]
    /\ sig' = sig \ {l}
    /\ lost' = lost \ {l}
    /\ UNCHANGED <<slot, pidOf, line, struck, phase, mem, disk, written, launch,
                   handlers, notices, clientVars>>

\* The parent, or launchd once the parent is dead, reaps it.  Only then is its
\* pid free, and only then does Foundation call a handler the parent has set.
Reap(l) ==
    /\ proc[l] = "exited"
    /\ proc' = [proc EXCEPT ![l] = "gone"]
    /\ slot' = [slot EXCEPT ![pidOf[l]] = None]
    /\ notices' = notices \cup ({l} \cap handlers)
    /\ UNCHANGED <<pidOf, line, sig, struck, phase, mem, disk, written, launch,
                   handlers, clientVars, lost>>

ForeignStart(f, p) ==
    /\ slot[p] = None
    /\ \A q \in Pids : slot[q] # f
    /\ slot' = [slot EXCEPT ![p] = f]
    /\ UNCHANGED <<proc, pidOf, line, sig, struck, phase, mem, disk, written, launch,
                   handlers, notices, clientVars, lost>>

ForeignExit(f, p) ==
    /\ slot[p] = f
    /\ slot' = [slot EXCEPT ![p] = None]
    /\ UNCHANGED <<proc, pidOf, line, sig, struck, phase, mem, disk, written, launch,
                   handlers, notices, clientVars, lost>>

----------------------------------------------------------------------------
(* startAttempt: the lock is held from the spawn to the reply.             *)

\* The lease is a new UUID; which of those not yet in use does not matter.
StartSpawn(l, p) ==
    /\ LockFree
    /\ ~ AnyRunningIn(mem)
    /\ proc[l] = "unborn" /\ l = CHOOSE k \in Leases : proc[k] = "unborn"
    /\ slot[p] = None
    /\ slot' = [slot EXCEPT ![p] = l]
    /\ proc' = [proc EXCEPT ![l] = "booting"]
    /\ pidOf' = [pidOf EXCEPT ![l] = p]
    /\ launch' = [step |-> "spawned", lease |-> l, stamp |-> None]
    /\ UNCHANGED <<line, sig, struck, phase, mem, disk, written, handlers, notices,
                   clientVars, lost>>

\* The service reads the start time behind the pid it was given; when there is
\* no such process any more it answers helperFailed and signals nothing.
StartStamp ==
    /\ launch.step = "spawned"
    /\ LET seen == slot[pidOf[launch.lease]]
       IN launch' = IF seen = None THEN NoLaunch
                    ELSE [launch EXCEPT !.step = "stamped", !.stamp = seen]
    /\ UNCHANGED <<procVars, phase, mem, disk, written, handlers, notices, clientVars,
                   lost>>

HandshakeMatches(l) == line[l] = "good" /\ launch.stamp = l

\* readHelperLine meets the end of the pipe, or the line names something else.
HandshakeFails(l) ==
    \/ line[l] = "none" /\ ~ Alive(l)
    \/ line[l] # "none" /\ ~ HandshakeMatches(l)

\* The line names this lease, this pid and the stamp the service has read: the
\* attempt is recorded as running over whatever attempt came before, and saved.
StartRecord ==
    /\ launch.step = "stamped"
    /\ HandshakeMatches(launch.lease)
    /\ mem' = [mem EXCEPT !.current = FreshAttempt(launch.lease)]
    /\ Persist
    /\ launch' = [launch EXCEPT !.step = "recorded"]
    /\ UNCHANGED <<procVars, phase, handlers, notices, clientVars, lost>>

\* The pipe closes with no line, or the line does not match: the pid is
\* signalled without another look at its start time, and the start fails.
StartRefuse ==
    /\ launch.step = "stamped"
    /\ LET l == launch.lease
       IN /\ HandshakeFails(l)
          /\ Signal(pidOf[l], "unchecked")
    /\ launch' = NoLaunch
    /\ UNCHANGED <<slot, proc, pidOf, line, phase, mem, disk, written, handlers,
                   notices, clientVars, lost>>

\* The handlers of the pipe and of the exit are set only now, after the process was run
\* and recorded; then dispatch saves the receipt and the lock is released.
StartReply ==
    /\ launch.step = "recorded"
    /\ LET l == launch.lease
       IN /\ handlers' = handlers \cup {l}
          /\ \E called \in LateHandler :
                notices' = IF proc[l] = "gone" /\ called
                           THEN notices \cup {l} ELSE notices
    /\ UNCHANGED mem
    /\ Persist
    /\ launch' = NoLaunch
    /\ UNCHANGED <<procVars, phase, clientVars, lost>>

----------------------------------------------------------------------------
(* The termination handler, cancel and attemptWrite.                       *)

\* Mutant: the handler ends the record captured at launch, not the current one.
MutEndedCaptured(a) == [FreshAttempt(a.lease) EXCEPT
                          !.exited = TRUE, !.cancelReq = a.cancelReq,
                          !.state = IF a.cancelReq THEN "cancelled"
                                    ELSE "completed"]

Ended(a) == [a EXCEPT !.exited = TRUE,
                      !.state = IF a.cancelReq THEN "cancelled"
                                ELSE "completed"]

\* Mutant: the handler updates memory and does not save.
MutTerminationHandler(l) ==
    /\ LockFree
    /\ l \in notices
    /\ notices' = notices \ {l}
    /\ IF mem.current # None /\ mem.current.lease = l
       THEN mem' = [mem EXCEPT !.current = Ended(mem.current)]
       ELSE UNCHANGED mem
    /\ UNCHANGED <<procVars, phase, disk, written, launch, handlers, clientVars, lost>>

TerminationHandler(l) ==
    /\ LockFree
    /\ l \in notices
    /\ notices' = notices \ {l}
    /\ IF mem.current # None /\ mem.current.lease = l
       THEN /\ mem' = [mem EXCEPT !.current = Ended(mem.current)]
            /\ Persist
       ELSE UNCHANGED <<mem, disk, written>>
    /\ UNCHANGED <<procVars, phase, launch, handlers, clientVars, lost>>

\* The handler of the pipe adds what the helper writes to the record of its attempt, also
\* after the exit was reported, and does not save it.
ReadabilityHandler(l) ==
    /\ LockFree
    /\ l \in handlers
    /\ mem.current # None /\ mem.current.lease = l
    /\ written = "all" /\ written' = "butEvents"
    /\ UNCHANGED <<procVars, phase, mem, disk, launch, handlers, notices, clientVars, lost>>

\* The guards of cancel() that precede the probe.
Cancellable(t, l) ==
    /\ LockFree
    /\ cancels[t] = None
    /\ RunningIn(mem, l)
    /\ mem.current.verified

\* The pid no longer has the recorded start time: nothing is signalled.
CancelMismatch(t, l) ==
    /\ Cancellable(t, l)
    /\ slot[pidOf[l]] # l
    /\ mem' = [mem EXCEPT !.current.state = "interrupted"]
    /\ Persist
    /\ answers' = [answers EXCEPT ![t] = [asked |-> l, about |-> l,
                                          outcome |-> "notSignalled"]]
    /\ UNCHANGED <<procVars, phase, launch, handlers, notices, cancels, lost>>

\* The request is noted in memory only, the helper is signalled and the lock is
\* released for the wait.
CancelSignal(t, l) ==
    /\ Cancellable(t, l)
    /\ slot[pidOf[l]] = l
    /\ mem' = [mem EXCEPT !.current.cancelReq = TRUE]
    /\ Signal(pidOf[l], "checked")
    /\ cancels' = [cancels EXCEPT ![t] = l]
    /\ answers' = [answers EXCEPT ![t] = None]
    /\ UNCHANGED <<slot, proc, pidOf, line, phase, disk, written, launch, handlers,
                   notices, lost>>

\* Mutant: the text reports an exit whether or not one was seen.
MutWaitOutcome == IF mem.current.cancelReq THEN "exit" ELSE "timeout"

\* "SIGTERM to exit N ms" needs the record's cancelToExitMs, which only the
\* handler of a cancelled attempt sets; without it the text says "timeout".
WaitOutcome == IF mem.current.exited /\ mem.current.cancelReq
               THEN "exit" ELSE "timeout"

\* The wait ends when the current attempt, whichever that is by now, has an
\* exit date, or after five seconds.  The receipt describes that attempt.
CancelReply(t) ==
    /\ LockFree
    /\ cancels[t] # None
    /\ UNCHANGED mem
    /\ Persist
    /\ answers' = [answers EXCEPT ![t] =
         [asked |-> cancels[t], about |-> mem.current.lease,
          outcome |-> WaitOutcome]]
    /\ cancels' = [cancels EXCEPT ![t] = None]
    /\ UNCHANGED <<procVars, phase, launch, handlers, notices, lost>>

AttemptWrite(l, n) ==
    /\ LockFree
    /\ RunningIn(mem, l)
    /\ mem' = [mem EXCEPT !.current.notes = @ \cup {n}]
    /\ Persist
    /\ UNCHANGED <<procVars, phase, launch, handlers, notices, clientVars,
                   lost>>

\* status, and every other command that is not answered from an earlier receipt: its own
\* receipt is saved, and both files with it.
OtherCommand ==
    /\ LockFree
    /\ UNCHANGED mem
    /\ Persist
    /\ UNCHANGED <<procVars, phase, launch, handlers, notices, clientVars, lost>>

----------------------------------------------------------------------------
(* The service process ends and the next one reconciles.                   *)

ReportedUnverified(store, l) ==
    \E r \in store.reconciles : r.lease = l /\ r.class = "unverified"

\* A store from which a later service, or a reader, learns of a live helper.
TellsOf(store, l) == RunningIn(store, l) \/ ReportedUnverified(store, l)

\* A helper no record tells of after an exit that leaves this file: it had been spawned
\* and not yet recorded, or its record was in memory only, or in a file that is gone.
Forgotten(l, file) ==
    \/ launch.lease = l /\ launch.step # "recorded"
    \/ (TellsOf(mem, l) \/ TellsOf(disk, l)) /\ ~ TellsOf(file, l)

\* Memory, threads and handlers are gone; the helpers and the file stay.
ExitWith(file) ==
    /\ phase # "down"
    /\ phase' = "down"
    /\ mem' = EmptyStore
    /\ disk' = file
    /\ written' = IF written = "butEvents" THEN "all" ELSE written
    /\ launch' = NoLaunch
    /\ handlers' = {}
    /\ notices' = {}
    /\ cancels' = [t \in Threads |-> None]
    /\ lost' = lost \cup {l \in Leases : Alive(l) /\ Forgotten(l, file)}
    /\ UNCHANGED <<procVars, answers>>

ServiceExit == ExitWith(disk)

\* persist() writes the file in place: an exit in the middle leaves a file
\* that does not decode, which load() takes for an empty store.
TornExit == TornWrites /\ ExitWith(EmptyStore)

\* Mutant: a live pid is enough, its start time is not compared.
MutClassifyByPid(a) ==
    IF ~ a.verified THEN "unverified"
    ELSE IF slot[pidOf[a.lease]] # None THEN "alive" ELSE "gone"

\* Mutant: the comparison is inverted.
MutClassifyInverted(a) ==
    LET live == slot[pidOf[a.lease]]
    IN CASE ~ a.verified  -> "unverified"
         [] a.verified /\ live = None -> "gone"
         [] a.verified /\ live = a.lease -> "reused"
         [] OTHER         -> "alive"

Classify(a) ==
    LET live == slot[pidOf[a.lease]]
    IN CASE ~ a.verified     -> "unverified"
         [] a.verified /\ live = a.lease -> "alive"
         [] a.verified /\ live = None    -> "gone"
         [] OTHER            -> "reused"

Reconciled(store, class) ==
    LET a == [store.current EXCEPT !.state = "interrupted"]
    IN [current |-> None,
        history |-> store.history \cup {a},
        reconciles |-> store.reconciles
                       \cup {[lease |-> a.lease, class |-> class,
                              signalled |-> class = "alive"]}]

\* load() when the file holds no running attempt: nothing to reconcile.
ServiceStart ==
    /\ phase = "down"
    /\ ~ AnyRunningIn(disk)
    /\ mem' = disk
    /\ phase' = "up"
    /\ UNCHANGED <<procVars, disk, written, launch, handlers, notices, clientVars, lost>>

\* load() and reconcile() up to the save: the orphan is classified, signalled
\* when its stamp is still live, and moved to history.
ServiceReconcile ==
    /\ phase = "down"
    /\ AnyRunningIn(disk)
    /\ LET a == disk.current
           class == Classify(a)
       IN /\ IF class = "alive" THEN Signal(pidOf[a.lease], "checked")
             ELSE UNCHANGED <<sig, struck>>
          /\ mem' = Reconciled(disk, class)
    /\ phase' = "reconciled"
    /\ UNCHANGED <<slot, proc, pidOf, line, disk, written, launch, handlers, notices,
                   clientVars, lost>>

ReconcileSave ==
    /\ phase = "reconciled"
    /\ UNCHANGED mem
    /\ Persist
    /\ phase' = "up"
    /\ UNCHANGED <<procVars, launch, handlers, notices, clientVars, lost>>

----------------------------------------------------------------------------

HelperStep(l) == HelperAnnounce(l) \/ HelperExit(l) \/ Reap(l)

StartStep == StartStamp \/ StartRecord \/ StartRefuse \/ StartReply

BootStep == ServiceStart \/ ServiceReconcile \/ ReconcileSave

Next ==
    \/ \E l \in Leases : HelperStep(l) \/ ReadabilityHandler(l) \/ TerminationHandler(l)
    \/ \E f \in Foreigners, p \in Pids : ForeignStart(f, p) \/ ForeignExit(f, p)
    \/ \E l \in Leases, p \in Pids : StartSpawn(l, p)
    \/ StartStep
    \/ \E t \in Threads, l \in Leases : CancelMismatch(t, l) \/ CancelSignal(t, l)
    \/ \E t \in Threads : CancelReply(t)
    \/ \E l \in Leases, n \in Notes : AttemptWrite(l, n)
    \/ OtherCommand
    \/ ServiceExit
    \/ TornExit
    \/ BootStep

Spec == Init /\ [][Next]_vars

\* A helper runs for a given number of seconds and the kernel and Foundation
\* report its exit; a thread inside startAttempt, cancel or a handler runs on;
\* the app relaunches a service it cannot reach.  Clients and exits are free.
Fairness ==
    /\ \A l \in Leases : /\ WF_vars(HelperAnnounce(l) \/ HelperExit(l))
                         /\ WF_vars(HelperExit(l) /\ proc[l] = "running")
                         /\ WF_vars(Reap(l))
                         /\ WF_vars(TerminationHandler(l))
    /\ WF_vars(StartStep)
    /\ \A t \in Threads : WF_vars(CancelReply(t))
    /\ WF_vars(BootStep)

FairSpec == Spec /\ Fairness

----------------------------------------------------------------------------
(* Properties.                                                             *)

\* A live helper that nobody has signalled is either the one being started, or
\* the running attempt of attempts.json, where the next service will find it:
\* no exit of the service, at any point, leaves a helper nobody will ever stop,
\* except one it had spawned and not yet recorded, one whose record was in a
\* file that was cut short or could not be written, and one whose record carries no
\* verified handshake, which a reconcile record reports (startAttempt, cancel,
\* reconcile).  While writes fail it is memory that tells of it.
HelperAccounted ==
    \A l \in Leases : Alive(l) /\ l \notin sig =>
        \/ launch.lease = l
        \/ TellsOf(disk, l)
        \/ l \in lost
        \/ written = "failed" /\ phase = "up" /\ TellsOf(mem, l)

\* The signals sent after a start-time comparison (reconcile, cancel) never
\* reach a process the service did not launch, however pids are recycled.
CheckedSignalsHitHelpers ==
    \A f \in Foreigners : <<f, "checked">> \notin struck

\* Two stores hold the same attempts, apart from a pending cancel request.
SameButRequest(m, d) ==
    /\ m.history = d.history
    /\ m.reconciles = d.reconciles
    /\ (m.current = None) <=> (d.current = None)
    /\ m.current # None =>
         m.current = [d.current EXCEPT !.cancelReq = m.current.cancelReq]

\* While the lock is free a restart would load what the service goes by: every change
\* but a pending cancel request is in attempts.json already, unless the last write
\* failed; of the helper's events it need not have the last (main.swift:91-94, 342-406).
VisibleIsDurable == LockFree /\ written # "failed" => SameButRequest(mem, disk)

\* An attempt is reconciled once: history and reconcile records name the same
\* leases, one record each, and none of them is the current attempt again.
ReconciledOnce ==
    \A s \in {mem, disk} :
        /\ {h.lease : h \in s.history} = {r.lease : r \in s.reconciles}
        /\ \A g, h \in s.history : g.lease = h.lease => g = h
        /\ \A r, q \in s.reconciles : r.lease = q.lease => r = q
        /\ s.current # None => \A h \in s.history : h.lease # s.current.lease

\* A receipt that reports the exit of the helper, or that none was signalled,
\* is true and stays true over a restart: the process has ended and the file, if its
\* last write did not fail, does not call the attempt running.
AnswersStayTrue ==
    \A t \in Threads :
        answers[t] # None /\ answers[t].outcome # "timeout" =>
            /\ ~ Alive(answers[t].about)
            /\ written # "failed" => ~ RunningIn(disk, answers[t].about)

\* An attempt whose end is in attempts.json is never reopened: neither made
\* running again nor, by a later restart, reclassified as an interrupted orphan.
EndedStaysEnded ==
    [][\A l \in Leases :
         /\ disk.current # None
         /\ disk.current.lease = l
         /\ disk.current.state # "running"
         => /\ ~ RunningIn(disk', l)
            /\ \A h \in disk'.history : h.lease # l]_vars

\* A note acknowledged for an attempt is in the file for as long as the file
\* knows the attempt, as current or in history: no handler writes back a copy
\* of the record it took before it released the lock.
NotesKept ==
    [][\A a \in Known(disk), b \in Known(disk') :
         a.lease = b.lease => a.notes \subseteq b.notes]_vars

\* Commands are answered, unless the service dies first: the lock a start holds
\* over the handshake is released, because a booting helper writes its line or
\* dies, and a cancel that waits without the lock gets it back and replies.
CommandsAnswered ==
    /\ launch.step # "idle" ~> launch.step = "idle"
    /\ \A t \in Threads : cancels[t] # None ~> cancels[t] = None

\* A running attempt does not stay running: the termination handler, or the
\* reconcile of a service that comes back, ends it, if the file can be written.
AttemptEnds ==
    []<>(phase = "up" /\ written # "failed") =>
        \A l \in Leases : RunningIn(disk, l) ~> ~ RunningIn(disk, l)

\* The store is well formed: it has its type, the file holds what memory shows
\* whenever the lock is free, and no restart reconciles an attempt twice.
StoreIsSound == TypeOK /\ VisibleIsDurable /\ ReconciledOnce

\* The file never goes back on an attempt: neither on its end nor on its notes.
AttemptsStand == EndedStaysEnded /\ NotesKept

\* Neither a command nor an attempt goes on for ever.
CommandsAndAttemptsEnd == CommandsAnswered /\ AttemptEnds

----------------------------------------------------------------------------
(* The inductive invariant of HelperProofs.                                *)

\* A helper that has been spawned and not reaped holds its pid, and no helper
\* holds a pid otherwise; a handler is called only for a reaped helper.
ProcessTable ==
    /\ \A l \in Leases : proc[l] # "unborn" => pidOf[l] \in Pids
    /\ \A l \in Leases : proc[l] \in {"booting", "running", "exited"} =>
                            slot[pidOf[l]] = l
    /\ \A l \in Leases, p \in Pids : slot[p] = l =>
                            /\ pidOf[l] = p
                            /\ proc[l] \in {"booting", "running", "exited"}
    /\ \A l \in notices : proc[l] = "gone"

\* What holds while startAttempt holds the lock.
LaunchInProgress ==
    /\ launch.step = "idle" => launch.lease = None
    /\ launch.step # "idle" => /\ phase = "up"
                               /\ launch.lease \in Leases
                               /\ proc[launch.lease] # "unborn"
    /\ launch.step \in {"spawned", "stamped"} => ~ AnyRunningIn(mem)
    /\ launch.step = "recorded" => RunningIn(mem, launch.lease)

\* A reconciled orphan that is still alive has been signalled or reported.
ReconcileInProgress ==
    phase = "reconciled" =>
        /\ mem.current = None
        /\ disk.reconciles \subseteq mem.reconciles
        /\ \A l \in Leases : RunningIn(disk, l) /\ Alive(l) /\ l \notin sig =>
                               ReportedUnverified(mem, l)

\* A thread waits inside cancel() for the exit of a current attempt.
CancelInProgress ==
    \A t \in Threads : cancels[t] # None => phase = "up" /\ mem.current # None

\* The stores agree in every phase in which the lock can be free.
StoresAgree == phase = "up" /\ written # "failed" => SameButRequest(mem, disk)

ServiceInv ==
    /\ TypeOK
    /\ ProcessTable
    /\ LaunchInProgress
    /\ ReconcileInProgress
    /\ CancelInProgress
    /\ StoresAgree

\* While the service is up its memory tells of every live helper, but for one that is
\* not recorded yet and those an earlier exit forgot.
MemoryTells ==
    phase = "up" => \A l \in Leases : Alive(l) /\ l \notin sig =>
        \/ launch.lease = l /\ launch.step # "recorded"
        \/ TellsOf(mem, l)
        \/ l \in lost

\* A lease nobody has referred to yet: unborn, or still being launched.
NotYetRecorded(l) ==
    proc[l] = "unborn" \/ (launch.lease = l /\ launch.step # "recorded")

\* What a store says of its attempts: none of them is unborn, one that is not
\* running has been reaped, and one with an exit date is not running.
StoreTrue(s) ==
    /\ \A l \in Leases : NotYetRecorded(l) => \A a \in Known(s) : a.lease # l
    /\ s.current # None /\ s.current.state # "running" =>
           proc[s.current.lease] = "gone"
    /\ s.current # None /\ s.current.exited => s.current.state # "running"

RecordInv ==
    /\ StoreTrue(mem)
    /\ StoreTrue(disk)
    /\ \A l \in Leases : NotYetRecorded(l) =>
         \A t \in Threads : answers[t] # None => answers[t].about # l
=============================================================================
