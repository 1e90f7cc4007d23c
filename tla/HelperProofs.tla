---------------------------- MODULE HelperProofs ----------------------------
(***************************************************************************)
(* Proofs about the attempts of the native service.  The first part is      *)
(* about HelperLease, one service, for any sets of leases, pids, threads,   *)
(* notes and foreign processes; the second is about ServiceRelaunch, the    *)
(* services that follow each other, for any number of them.  The modules    *)
(* share no state: each part is about its own.                              *)
(***************************************************************************)
EXTENDS HelperLease, ServiceRelaunch, TLAPS

LEMMA EmptyStoreType == EmptyStore \in Store
  BY NoneAssumption DEF EmptyStore, Store

LEMMA FreshAttemptType ==
  ASSUME NEW l \in Leases
  PROVE  FreshAttempt(l) \in Attempt
  BY DEF FreshAttempt, Attempt

LEMMA NoLaunchType ==
  NoLaunch \in [step: {"idle", "spawned", "stamped", "recorded"},
                lease: Leases \cup {None}, stamp: Processes \cup {None}]
  BY DEF NoLaunch

\* Replacing the current attempt of a store by another gives a store.
LEMMA SetCurrentType ==
  ASSUME NEW s \in Store, NEW a \in Attempt
  PROVE  [s EXCEPT !.current = a] \in Store
  BY DEF Store

LEMMA EndedType ==
  ASSUME NEW a \in Attempt
  PROVE  Ended(a) \in Attempt
  BY DEF Ended, Attempt

LEMMA ReconciledType ==
  ASSUME NEW s \in Store, s.current # None,
         NEW class \in {"unverified", "alive", "gone", "reused"}
  PROVE  Reconciled(s, class) \in Store
<1> DEFINE a == [s.current EXCEPT !.state = "interrupted"]
<1>1. a \in Attempt
  BY DEF Store, Attempt
<1>2. [lease |-> a.lease, class |-> class, signalled |-> class = "alive"]
        \in Reconcile
  BY <1>1 DEF Attempt, Reconcile
<1>3. QED
  BY <1>1, <1>2 DEF Reconciled, Store

LEMMA ClassifyType ==
  ASSUME NEW a
  PROVE  Classify(a) \in {"unverified", "alive", "gone", "reused"}
  BY DEF Classify

LEMMA SignalType ==
  ASSUME TypeOK, NEW p, NEW way \in {"checked", "unchecked"},
         Signal(p, way)
  PROVE  /\ sig' \in SUBSET Leases
         /\ struck' \in SUBSET (Foreigners \X {"checked", "unchecked"})
  BY DEF TypeOK, Signal

(***************************************************************************)
(* The service invariant: initially, then part by part.                    *)
(***************************************************************************)

LEMMA InitType == Init => TypeOK
<1> SUFFICES ASSUME Init PROVE TypeOK
  OBVIOUS
<1>1. CASE CleanInit
  BY <1>1, EmptyStoreType, NoLaunchType DEF Init, CleanInit, TypeOK
<1>2. CASE LeftoverInit
  <2>1. PICK l \in OldLeases, p \in OldPids, alive \in BOOLEAN, ok \in BOOLEAN,
             other \in Foreigners \cup {None} :
          /\ slot = [q \in Pids |-> IF q # p THEN None
                                    ELSE IF alive THEN l ELSE other]
          /\ proc = [k \in Leases |-> IF k # l THEN "unborn"
                                      ELSE IF alive THEN "running" ELSE "gone"]
          /\ pidOf = [k \in Leases |-> IF k = l THEN p ELSE None]
          /\ line = [k \in Leases |-> IF k = l THEN "good" ELSE "none"]
          /\ disk = [EmptyStore EXCEPT
                       !.current = [FreshAttempt(l) EXCEPT !.verified = ok]]
    BY <1>2 DEF LeftoverInit
  <2>2. [FreshAttempt(l) EXCEPT !.verified = ok] \in Attempt /\ l \in Leases /\ p \in Pids
    BY FreshAttemptType, OldAssumption DEF Attempt
  <2>3. disk \in Store
    BY <2>1, <2>2, EmptyStoreType, SetCurrentType
  <2>4. QED
    BY <2>1, <2>2, <2>3, EmptyStoreType, NoLaunchType DEF Init, TypeOK, Processes
<1>3. QED
  BY <1>1, <1>2 DEF Init

LEMMA InitTable == Init => ProcessTable
<1> SUFFICES ASSUME Init PROVE ProcessTable
  OBVIOUS
<1> USE NoneAssumption, LeasesAssumption DEF Processes
<1>1. CASE CleanInit
  BY <1>1 DEF Init, CleanInit, ProcessTable
<1>2. CASE LeftoverInit
  BY <1>2, OldAssumption DEF Init, LeftoverInit, ProcessTable
<1>3. QED
  BY <1>1, <1>2 DEF Init

LEMMA InitService == Init => ServiceInv
<1> SUFFICES ASSUME Init PROVE ServiceInv
  OBVIOUS
<1>1. TypeOK /\ ProcessTable
  BY InitType, InitTable
<1>2. LaunchInProgress
  BY DEF Init, LaunchInProgress, NoLaunch
<1>3. ReconcileInProgress /\ CancelInProgress /\ StoresAgree
  BY DEF Init, ReconcileInProgress, CancelInProgress, StoresAgree
<1>4. QED
  BY <1>1, <1>2, <1>3 DEF ServiceInv

LEMMA TypeStep ==
  ASSUME ServiceInv, [Next]_vars
  PROVE  TypeOK'
<1> USE DEF procVars, clientVars
<1>0. TypeOK
  BY DEF ServiceInv
\* A save leaves the file typed when memory is.
<1>0a. ASSUME Persist, mem' \in Store
      PROVE  disk' \in Store /\ written' \in {"all", "butEvents", "failed"}
  BY <1>0, <1>0a, EmptyStoreType DEF Persist, TypeOK
<1>1. ASSUME NEW l \in Leases, HelperStep(l) PROVE TypeOK'
  BY <1>0, <1>1 DEF TypeOK, HelperStep, HelperAnnounce, HelperExit, Reap
<1>2. ASSUME NEW l \in Leases, TerminationHandler(l) PROVE TypeOK'
  <2>1. CASE mem.current # None /\ mem.current.lease = l
    <3>1. mem.current \in Attempt
      BY <1>0, <2>1 DEF TypeOK, Store
    <3>2. mem' \in Store
      BY <1>0, <1>2, <2>1, <3>1, EndedType, SetCurrentType
         DEF TerminationHandler, TypeOK
    <3>3. QED
      BY <1>0, <1>2, <1>0a, <2>1, <3>2 DEF TypeOK, TerminationHandler
  <2>2. CASE ~ (mem.current # None /\ mem.current.lease = l)
    BY <1>0, <1>2, <2>2 DEF TypeOK, TerminationHandler
  <2>3. QED
    BY <2>1, <2>2
<1>3. ASSUME NEW f \in Foreigners, NEW p \in Pids,
             ForeignStart(f, p) \/ ForeignExit(f, p)
      PROVE  TypeOK'
  BY <1>0, <1>3 DEF TypeOK, ForeignStart, ForeignExit, Processes
<1>4. ASSUME NEW l \in Leases, NEW p \in Pids, StartSpawn(l, p)
      PROVE  TypeOK'
  BY <1>0, <1>4 DEF TypeOK, StartSpawn, Processes
<1>5. ASSUME StartStamp PROVE TypeOK'
  <2> DEFINE seen == slot[pidOf[launch.lease]]
  <2>1. launch.lease \in Leases /\ pidOf[launch.lease] \in Pids
    BY <1>5 DEF ServiceInv, LaunchInProgress, ProcessTable, StartStamp
  <2>2. seen \in Processes \cup {None}
    BY <1>0, <2>1 DEF TypeOK
  <2>3. launch' \in [step: {"idle", "spawned", "stamped", "recorded"},
                     lease: Leases \cup {None}, stamp: Processes \cup {None}]
    <3>1. CASE seen = None
      BY <1>5, <3>1, NoLaunchType DEF StartStamp
    <3>2. CASE seen # None
      BY <1>0, <1>5, <2>2, <3>2 DEF StartStamp, TypeOK
    <3>3. QED
      BY <3>1, <3>2
  <2>4. QED
    BY <1>0, <1>5, <2>3 DEF TypeOK, StartStamp
<1>6. ASSUME StartRecord PROVE TypeOK'
  <2>1. launch.lease \in Leases
    BY <1>6 DEF ServiceInv, LaunchInProgress, StartRecord
  <2>2. mem' \in Store
    BY <1>0, <1>6, <2>1, FreshAttemptType, SetCurrentType
       DEF TypeOK, StartRecord
  <2>3. QED
    BY <1>0, <1>6, <1>0a, <2>2 DEF TypeOK, StartRecord
<1>7. ASSUME StartRefuse PROVE TypeOK'
  BY <1>0, <1>7, NoLaunchType, SignalType DEF TypeOK, StartRefuse
<1>8. ASSUME StartReply PROVE TypeOK'
  <2>1. launch.lease \in Leases
    BY <1>8 DEF ServiceInv, LaunchInProgress, StartReply
  <2>2. handlers' \in SUBSET Leases /\ notices' \in SUBSET Leases
    BY <1>0, <1>8, <2>1 DEF TypeOK, StartReply
  <2>3. disk' \in Store /\ written' \in {"all", "butEvents", "failed"}
    BY <1>0, <1>8, <1>0a DEF TypeOK, StartReply
  <2>4. QED
    BY <1>0, <1>8, <2>2, <2>3, NoLaunchType DEF TypeOK, StartReply
<1>9. ASSUME NEW t \in Threads, NEW l \in Leases,
             CancelMismatch(t, l) \/ CancelSignal(t, l)
      PROVE  TypeOK'
  <2>1. mem.current \in Attempt
    BY <1>0, <1>9 DEF TypeOK, Store, CancelMismatch, CancelSignal, Cancellable,
                      RunningIn
  <2>2. CASE CancelMismatch(t, l)
    <3>1. [mem.current EXCEPT !.state = "interrupted"] \in Attempt
      BY <2>1 DEF Attempt
    <3>2. mem' = [mem EXCEPT !.current =
                    [mem.current EXCEPT !.state = "interrupted"]]
      BY <1>0, <2>2 DEF CancelMismatch, TypeOK, Store
    <3>3. mem' \in Store
      BY <1>0, <3>1, <3>2, SetCurrentType DEF TypeOK
    <3>4. answers' \in [Threads -> Answer \cup {None}]
      BY <1>0, <2>2 DEF TypeOK, CancelMismatch, Answer
    <3>5. QED
      BY <1>0, <1>0a, <2>2, <3>3, <3>4 DEF TypeOK, CancelMismatch
  <2>3. CASE CancelSignal(t, l)
    <3>1. [mem.current EXCEPT !.cancelReq = TRUE] \in Attempt
      BY <2>1 DEF Attempt
    <3>2. mem' = [mem EXCEPT !.current =
                    [mem.current EXCEPT !.cancelReq = TRUE]]
      BY <1>0, <2>3 DEF CancelSignal, TypeOK, Store
    <3>3. mem' \in Store
      BY <1>0, <3>1, <3>2, SetCurrentType DEF TypeOK
    <3>4. QED
      BY <1>0, <2>3, <3>3, SignalType DEF TypeOK, CancelSignal
  <2>4. QED
    BY <1>9, <2>2, <2>3
<1>10. ASSUME NEW t \in Threads, CancelReply(t) PROVE TypeOK'
  <2>1. mem.current \in Attempt
    BY <1>0, <1>10 DEF ServiceInv, CancelInProgress, CancelReply, TypeOK, Store
  <2>2. [asked |-> cancels[t], about |-> mem.current.lease,
         outcome |-> WaitOutcome] \in Answer
    BY <1>0, <1>10, <2>1 DEF Answer, Attempt, WaitOutcome, CancelReply, TypeOK
  <2>3. disk' \in Store /\ written' \in {"all", "butEvents", "failed"}
    BY <1>0, <1>10, <1>0a DEF TypeOK, CancelReply
  <2>4. QED
    BY <1>0, <1>10, <2>2, <2>3 DEF TypeOK, CancelReply
<1>11. ASSUME NEW l \in Leases, NEW n \in Notes, AttemptWrite(l, n)
       PROVE  TypeOK'
  <2>1. mem.current \in Attempt
    BY <1>0, <1>11 DEF TypeOK, Store, AttemptWrite, RunningIn
  <2>2. [mem.current EXCEPT !.notes = @ \cup {n}] \in Attempt
    BY <2>1 DEF Attempt
  <2>3. mem' = [mem EXCEPT !.current =
                  [mem.current EXCEPT !.notes = @ \cup {n}]]
    BY <1>0, <1>11 DEF AttemptWrite, TypeOK, Store
  <2>4. mem' \in Store
    BY <1>0, <2>2, <2>3, SetCurrentType DEF TypeOK
  <2>5. QED
    BY <1>0, <1>11, <1>0a, <2>4 DEF TypeOK, AttemptWrite
<1>11a. ASSUME OtherCommand PROVE TypeOK'
  BY <1>0, <1>11a, <1>0a DEF TypeOK, OtherCommand
<1>11b. ASSUME NEW l \in Leases, ReadabilityHandler(l) PROVE TypeOK'
  BY <1>0, <1>11b DEF TypeOK, ReadabilityHandler
<1>12. ASSUME NEW file \in Store, ExitWith(file) PROVE TypeOK'
  BY <1>0, <1>12, EmptyStoreType, NoLaunchType DEF TypeOK, ExitWith
<1>13. ASSUME BootStep PROVE TypeOK'
  <2>1. CASE ServiceStart
    BY <1>0, <2>1 DEF TypeOK, ServiceStart
  <2>2. CASE ServiceReconcile
    <3> DEFINE a == disk.current
    <3>1. mem' \in Store
      BY <1>0, <2>2, ReconciledType, ClassifyType
         DEF TypeOK, ServiceReconcile, AnyRunningIn, RunningIn
    <3>2. sig' \in SUBSET Leases
          /\ struck' \in SUBSET (Foreigners \X {"checked", "unchecked"})
      BY <1>0, <2>2, SignalType DEF TypeOK, ServiceReconcile
    <3>3. QED
      BY <1>0, <2>2, <3>1, <3>2 DEF TypeOK, ServiceReconcile
  <2>3. CASE ReconcileSave
    BY <1>0, <1>0a, <2>3 DEF TypeOK, ReconcileSave
  <2>4. QED
    BY <1>13, <2>1, <2>2, <2>3 DEF BootStep
<1>14. CASE UNCHANGED vars
  BY <1>0, <1>14 DEF TypeOK, vars
<1>15. QED
  <2>1. disk \in Store /\ EmptyStore \in Store
    BY <1>0, EmptyStoreType DEF TypeOK
  <2>2. (ServiceExit \/ TornExit) => TypeOK'
    BY <1>12, <2>1 DEF ServiceExit, TornExit
  <2>3. StartStep => TypeOK'
    BY <1>5, <1>6, <1>7, <1>8 DEF StartStep
  <2>4. QED
    BY <1>1, <1>2, <1>3, <1>4, <1>9, <1>10, <1>11, <1>13, <1>14, <1>11a, <1>11b, <2>2, <2>3
       DEF Next

\* Only a spawn, a reap and the foreign processes touch the process table.
LEMMA TableStep ==
  ASSUME ServiceInv, [Next]_vars
  PROVE  ProcessTable'
<1> USE LeasesAssumption, NoneAssumption
    DEF procVars, clientVars, Processes, ProcessTable
<1>0. TypeOK /\ ProcessTable
  BY DEF ServiceInv
<1>1. ASSUME NEW l \in Leases, HelperAnnounce(l) \/ HelperExit(l)
      PROVE  ProcessTable'
  BY <1>0, <1>1 DEF TypeOK, HelperAnnounce, HelperExit, Alive
<1>2. ASSUME NEW l \in Leases, Reap(l) PROVE ProcessTable'
  <2>1. /\ pidOf[l] \in Pids /\ slot[pidOf[l]] = l
        /\ UNCHANGED pidOf
        /\ slot' = [slot EXCEPT ![pidOf[l]] = None]
        /\ proc' = [proc EXCEPT ![l] = "gone"]
        /\ notices' \subseteq notices \cup {l}
    BY <1>0, <1>2 DEF TypeOK, Reap
  <2>2. \A k \in Leases : k # l /\ proc[k] \in {"booting", "running", "exited"}
                           => pidOf[k] # pidOf[l]
    BY <1>0, <2>1
  <2>3. \A k \in Leases : proc'[k] \in {"booting", "running", "exited"} =>
                            slot'[pidOf'[k]] = k
    BY <1>0, <2>1, <2>2 DEF TypeOK
  <2>4. \A k \in Leases, p \in Pids : slot'[p] = k =>
                            /\ pidOf'[k] = p
                            /\ proc'[k] \in {"booting", "running", "exited"}
    BY <1>0, <2>1 DEF TypeOK
  <2>5. \A k \in Leases : proc'[k] # "unborn" => pidOf'[k] \in Pids
    BY <1>0, <2>1 DEF TypeOK
  <2>6. \A k \in notices' : proc'[k] = "gone"
    BY <1>0, <2>1 DEF TypeOK
  <2>7. QED
    BY <2>3, <2>4, <2>5, <2>6
<1>3. ASSUME NEW f \in Foreigners, NEW p \in Pids,
             ForeignStart(f, p) \/ ForeignExit(f, p)
      PROVE  ProcessTable'
  BY <1>0, <1>3 DEF TypeOK, ForeignStart, ForeignExit
<1>4. ASSUME NEW l \in Leases, NEW p \in Pids, StartSpawn(l, p)
      PROVE  ProcessTable'
  BY <1>0, <1>4 DEF TypeOK, StartSpawn
<1>5. ASSUME StartReply PROVE ProcessTable'
  BY <1>0, <1>5 DEF TypeOK, StartReply
<1>6. ASSUME UNCHANGED <<slot, proc, pidOf>>, notices' \subseteq notices
      PROVE  ProcessTable'
  BY <1>0, <1>6
<1>7. ASSUME NEW l \in Leases, TerminationHandler(l) \/ ReadabilityHandler(l)
      PROVE  ProcessTable'
  BY <1>6, <1>7 DEF TerminationHandler, ReadabilityHandler
<1>8. CASE StartStamp \/ StartRecord \/ StartRefuse
  BY <1>6, <1>8 DEF StartStamp, StartRecord, StartRefuse
<1>9. ASSUME NEW t \in Threads, NEW l \in Leases,
             CancelMismatch(t, l) \/ CancelSignal(t, l)
      PROVE  ProcessTable'
  BY <1>6, <1>9 DEF CancelMismatch, CancelSignal
<1>10. ASSUME NEW t \in Threads, CancelReply(t) PROVE ProcessTable'
  BY <1>6, <1>10 DEF CancelReply
<1>11. ASSUME NEW l \in Leases, NEW n \in Notes, AttemptWrite(l, n)
       PROVE  ProcessTable'
  BY <1>6, <1>11 DEF AttemptWrite
<1>12. CASE OtherCommand \/ ServiceExit \/ TornExit
  BY <1>6, <1>12 DEF OtherCommand, ServiceExit, TornExit, ExitWith
<1>13. CASE BootStep
  BY <1>6, <1>13 DEF BootStep, ServiceStart, ServiceReconcile, ReconcileSave
<1>14. CASE UNCHANGED vars
  BY <1>6, <1>14 DEF vars
<1>15. QED
  BY <1>1, <1>2, <1>3, <1>4, <1>5, <1>7, <1>8, <1>9, <1>10, <1>11, <1>12,
     <1>13, <1>14 DEF Next, HelperStep, StartStep

\* While a start holds the lock the attempt store stands still.
LEMMA LaunchStep ==
  ASSUME ServiceInv, [Next]_vars
  PROVE  LaunchInProgress'
<1> USE NoneAssumption DEF procVars, clientVars, LaunchInProgress, AnyRunningIn,
                           RunningIn
<1>0. TypeOK /\ LaunchInProgress
  BY DEF ServiceInv
<1>1. ASSUME UNCHANGED <<phase, mem, launch>>,
             \A l \in Leases : proc[l] # "unborn" => proc'[l] # "unborn"
      PROVE  LaunchInProgress'
  BY <1>0, <1>1
<1>2. ASSUME launch' = NoLaunch PROVE LaunchInProgress'
  BY <1>2 DEF NoLaunch
<1>3. ASSUME launch.step = "idle", UNCHANGED launch PROVE LaunchInProgress'
  BY <1>0, <1>3
<1>4. ASSUME NEW l \in Leases, HelperStep(l) PROVE LaunchInProgress'
  BY <1>0, <1>1, <1>4 DEF TypeOK, HelperStep, HelperAnnounce, HelperExit, Reap
<1>5. ASSUME NEW f \in Foreigners, NEW p \in Pids,
             ForeignStart(f, p) \/ ForeignExit(f, p)
      PROVE  LaunchInProgress'
  BY <1>1, <1>5 DEF ForeignStart, ForeignExit
<1>6. ASSUME NEW l \in Leases, NEW p \in Pids, StartSpawn(l, p)
      PROVE  LaunchInProgress'
  BY <1>0, <1>6 DEF TypeOK, StartSpawn, LockFree
<1>7. CASE StartStamp
  <2>1. CASE slot[pidOf[launch.lease]] = None
    BY <1>2, <1>7, <2>1 DEF StartStamp
  <2>2. CASE slot[pidOf[launch.lease]] # None
    BY <1>0, <1>7, <2>2 DEF TypeOK, StartStamp
  <2>3. QED
    BY <2>1, <2>2
<1>8. CASE StartRecord
  <2>1. /\ launch'.step = "recorded" /\ launch'.lease = launch.lease
        /\ launch.step # "idle" /\ UNCHANGED <<phase, proc>>
        /\ mem'.current = FreshAttempt(launch.lease)
    BY <1>0, <1>8 DEF TypeOK, Store, StartRecord, procVars
  <2>2. mem'.current # None
    BY <1>0, <2>1, FreshAttemptType
  <2>3. RunningIn(mem, launch.lease)'
    BY <2>1, <2>2 DEF FreshAttempt
  <2>4. QED
    BY <1>0, <2>1, <2>3
<1>9. CASE StartRefuse \/ StartReply \/ ServiceExit \/ TornExit
  BY <1>2, <1>9 DEF StartRefuse, StartReply, ServiceExit, TornExit, ExitWith
<1>10. ASSUME NEW l \in Leases, TerminationHandler(l) \/ ReadabilityHandler(l)
       PROVE  LaunchInProgress'
  BY <1>3, <1>10 DEF TerminationHandler, ReadabilityHandler, LockFree
<1>11. ASSUME NEW t \in Threads, NEW l \in Leases,
              CancelMismatch(t, l) \/ CancelSignal(t, l)
       PROVE  LaunchInProgress'
  BY <1>3, <1>11 DEF CancelMismatch, CancelSignal, Cancellable, LockFree
<1>12. ASSUME NEW t \in Threads, CancelReply(t) PROVE LaunchInProgress'
  BY <1>3, <1>12 DEF CancelReply, LockFree
<1>13. ASSUME NEW l \in Leases, NEW n \in Notes, AttemptWrite(l, n)
       PROVE  LaunchInProgress'
  BY <1>3, <1>13 DEF AttemptWrite, LockFree
<1>13a. CASE OtherCommand
  BY <1>3, <1>13a DEF OtherCommand, LockFree
<1>14. CASE BootStep
  <2>1. launch.step = "idle"
    BY <1>0, <1>14 DEF TypeOK, BootStep, ServiceStart, ServiceReconcile,
                       ReconcileSave
  <2>2. QED
    BY <1>3, <1>14, <2>1 DEF BootStep, ServiceStart, ServiceReconcile,
                             ReconcileSave
<1>15. CASE UNCHANGED vars
  BY <1>1, <1>15 DEF vars
<1>16. QED
  BY <1>4, <1>5, <1>6, <1>7, <1>8, <1>9, <1>10, <1>11, <1>12, <1>13, <1>13a, <1>14,
     <1>15 DEF Next, StartStep

\* Only load(), reconcile() and the helpers run between the two saves.
LEMMA ReconcileStep ==
  ASSUME ServiceInv, [Next]_vars
  PROVE  ReconcileInProgress'
<1> USE NoneAssumption DEF procVars, clientVars, ReconcileInProgress
<1>0. TypeOK /\ ProcessTable /\ LaunchInProgress /\ ReconcileInProgress
      /\ CancelInProgress
  BY DEF ServiceInv
<1>1. ASSUME UNCHANGED <<phase, mem, disk>>,
             \A l \in Leases : Alive(l)' /\ l \notin sig' => Alive(l) /\ l \notin sig
      PROVE  ReconcileInProgress'
  BY <1>0, <1>1 DEF RunningIn, ReportedUnverified
<1>2. ASSUME phase' # "reconciled" PROVE ReconcileInProgress'
  BY <1>2
<1>3. ASSUME NEW l \in Leases, HelperStep(l) PROVE ReconcileInProgress'
  BY <1>0, <1>1, <1>3 DEF TypeOK, HelperStep, HelperAnnounce, HelperExit, Reap,
                          Alive
<1>4. ASSUME NEW f \in Foreigners, NEW p \in Pids,
             ForeignStart(f, p) \/ ForeignExit(f, p)
      PROVE  ReconcileInProgress'
  BY <1>1, <1>4 DEF ForeignStart, ForeignExit, Alive
<1>5. ASSUME LockFree, UNCHANGED phase PROVE ReconcileInProgress'
  BY <1>2, <1>5 DEF LockFree
<1>6. CASE StartStep
  <2>1. phase = "up" /\ UNCHANGED phase
    BY <1>0, <1>6 DEF StartStep, StartStamp, StartRecord, StartRefuse,
                      StartReply, LaunchInProgress
  <2>2. QED
    BY <1>2, <2>1
<1>7. ASSUME NEW l \in Leases, NEW p \in Pids, StartSpawn(l, p)
      PROVE  ReconcileInProgress'
  BY <1>5, <1>7 DEF StartSpawn
<1>8. ASSUME NEW l \in Leases, TerminationHandler(l) \/ ReadabilityHandler(l)
      PROVE  ReconcileInProgress'
  BY <1>5, <1>8 DEF TerminationHandler, ReadabilityHandler
<1>9. ASSUME NEW t \in Threads, NEW l \in Leases,
             CancelMismatch(t, l) \/ CancelSignal(t, l)
      PROVE  ReconcileInProgress'
  BY <1>5, <1>9 DEF CancelMismatch, CancelSignal, Cancellable
<1>10. ASSUME NEW t \in Threads, CancelReply(t) PROVE ReconcileInProgress'
  BY <1>5, <1>10 DEF CancelReply
<1>11. ASSUME NEW l \in Leases, NEW n \in Notes, AttemptWrite(l, n)
       PROVE  ReconcileInProgress'
  BY <1>5, <1>11 DEF AttemptWrite
<1>11a. CASE OtherCommand
  BY <1>5, <1>11a DEF OtherCommand
<1>12. CASE ServiceExit \/ TornExit \/ ServiceStart \/ ReconcileSave
  BY <1>2, <1>12 DEF ServiceExit, TornExit, ExitWith, ServiceStart,
                     ReconcileSave
<1>13. CASE ServiceReconcile
  <2> DEFINE a == disk.current
             class == Classify(a)
  <2>1. /\ a \in Attempt /\ a # None /\ UNCHANGED <<disk, proc>>
        /\ mem' = Reconciled(disk, class)
        /\ class = "alive" => Signal(pidOf[a.lease], "checked")
        /\ class # "alive" => UNCHANGED sig
    BY <1>0, <1>13 DEF TypeOK, Store, ServiceReconcile, AnyRunningIn, RunningIn
  <2>2. mem'.current = None /\ disk'.reconciles \subseteq mem'.reconciles
    BY <2>1 DEF Reconciled
  <2>3. ASSUME NEW l \in Leases, RunningIn(disk, l)', Alive(l)', l \notin sig'
        PROVE  ReportedUnverified(mem, l)'
    <3>1. a.lease = l /\ Alive(l) /\ slot[pidOf[l]] = l
      BY <1>0, <2>1, <2>3 DEF RunningIn, Alive, ProcessTable
    <3>2. class # "alive"
      BY <2>1, <2>3, <3>1 DEF Signal
    <3>3. class = "unverified"
      BY <2>1, <3>1, <3>2 DEF Classify, Attempt, Processes
    <3> DEFINE r == [lease |-> a.lease, class |-> class,
                     signalled |-> class = "alive"]
    <3>4. r \in mem'.reconciles
      BY <2>1 DEF Reconciled
    <3>5. r.lease = l /\ r.class = "unverified"
      BY <3>1, <3>3
    <3> HIDE DEF r
    <3>6. QED
      BY <3>4, <3>5 DEF ReportedUnverified
  <2>4. QED
    BY <2>2, <2>3
<1>14. CASE UNCHANGED vars
  BY <1>1, <1>14 DEF vars, Alive
<1>15. QED
  BY <1>3, <1>4, <1>6, <1>7, <1>8, <1>9, <1>10, <1>11, <1>11a, <1>12, <1>13, <1>14
     DEF Next, BootStep

LEMMA CancelStep ==
  ASSUME ServiceInv, [Next]_vars
  PROVE  CancelInProgress'
<1> USE NoneAssumption DEF procVars, clientVars, CancelInProgress
<1>0. TypeOK /\ LaunchInProgress /\ CancelInProgress
  BY DEF ServiceInv
<1>1. ASSUME UNCHANGED <<phase, mem, cancels>> PROVE CancelInProgress'
  BY <1>0, <1>1
<1>2. ASSUME NEW l \in Leases, HelperStep(l) PROVE CancelInProgress'
  BY <1>1, <1>2 DEF HelperStep, HelperAnnounce, HelperExit, Reap
<1>3. ASSUME NEW f \in Foreigners, NEW p \in Pids,
             ForeignStart(f, p) \/ ForeignExit(f, p)
      PROVE  CancelInProgress'
  BY <1>1, <1>3 DEF ForeignStart, ForeignExit
<1>4. ASSUME NEW l \in Leases, NEW p \in Pids, StartSpawn(l, p)
      PROVE  CancelInProgress'
  BY <1>1, <1>4 DEF StartSpawn
<1>5. CASE StartStamp \/ StartRefuse \/ StartReply
  BY <1>1, <1>5 DEF StartStamp, StartRefuse, StartReply
<1>6. CASE StartRecord
  <2>1. FreshAttempt(launch.lease) # None
    BY <1>0, <1>6, FreshAttemptType DEF StartRecord, LaunchInProgress
  <2>2. QED
    BY <1>0, <1>6, <2>1 DEF TypeOK, Store, StartRecord
<1>7. ASSUME NEW l \in Leases, TerminationHandler(l) PROVE CancelInProgress'
  <2>1. mem'.current = mem.current
        \/ (mem.current # None /\ mem'.current = Ended(mem.current))
    BY <1>0, <1>7 DEF TypeOK, Store, TerminationHandler
  <2>2. mem.current # None => mem'.current # None
    BY <1>0, <2>1, EndedType DEF TypeOK, Store
  <2>3. QED
    BY <1>0, <1>7, <2>2 DEF TerminationHandler
<1>8. ASSUME NEW t \in Threads, NEW l \in Leases,
             CancelMismatch(t, l) \/ CancelSignal(t, l)
      PROVE  CancelInProgress'
  <2>1. mem.current \in Attempt /\ phase = "up" /\ UNCHANGED phase
    BY <1>0, <1>8 DEF TypeOK, Store, CancelMismatch, CancelSignal, Cancellable,
                      RunningIn, LockFree
  <2>2. mem'.current = [mem.current EXCEPT !.state = "interrupted"]
        \/ mem'.current = [mem.current EXCEPT !.cancelReq = TRUE]
    BY <1>0, <1>8 DEF TypeOK, Store, CancelMismatch, CancelSignal
  <2>3. mem'.current \in Attempt
    BY <2>1, <2>2 DEF Attempt
  <2>4. QED
    BY <2>1, <2>3
<1>9. ASSUME NEW t \in Threads, CancelReply(t) PROVE CancelInProgress'
  BY <1>0, <1>9 DEF TypeOK, CancelReply
<1>10. ASSUME NEW l \in Leases, NEW n \in Notes, AttemptWrite(l, n)
       PROVE  CancelInProgress'
  <2>1. mem.current \in Attempt
    BY <1>0, <1>10 DEF TypeOK, Store, AttemptWrite, RunningIn
  <2>2. mem'.current \in Attempt
    BY <1>0, <1>10, <2>1 DEF TypeOK, Store, Attempt, AttemptWrite
  <2>3. QED
    BY <1>0, <1>10, <2>2 DEF AttemptWrite
<1>10a. ASSUME NEW l \in Leases, ReadabilityHandler(l) PROVE CancelInProgress'
  BY <1>1, <1>10a DEF ReadabilityHandler
<1>10b. CASE OtherCommand
  BY <1>1, <1>10b DEF OtherCommand
<1>11. CASE ServiceExit \/ TornExit
  BY <1>11 DEF ServiceExit, TornExit, ExitWith
<1>12. CASE BootStep
  <2>1. phase # "up" /\ UNCHANGED cancels
    BY <1>12 DEF BootStep, ServiceStart, ServiceReconcile, ReconcileSave
  <2>2. QED
    BY <1>0, <2>1
<1>13. CASE UNCHANGED vars
  BY <1>1, <1>13 DEF vars
<1>14. QED
  BY <1>2, <1>3, <1>4, <1>5, <1>6, <1>7, <1>8, <1>9, <1>10, <1>10a, <1>10b, <1>11,
     <1>12, <1>13 DEF Next, StartStep

LEMMA SameStore ==
  ASSUME NEW s \in Store
  PROVE  SameButRequest(s, s)
BY DEF SameButRequest, Store, Attempt

\* Every handler saves what it changed, or fails to, except the note of a cancel request.
LEMMA StoresStep ==
  ASSUME ServiceInv, [Next]_vars
  PROVE  StoresAgree'
<1> USE NoneAssumption DEF procVars, clientVars, StoresAgree
<1>0. TypeOK /\ LaunchInProgress /\ StoresAgree /\ TypeOK'
  BY TypeStep DEF ServiceInv
<1>1. ASSUME UNCHANGED <<phase, mem, disk, written>> PROVE StoresAgree'
  BY <1>0, <1>1
<1>2. ASSUME Persist PROVE StoresAgree'
  BY <1>0, <1>2, SameStore DEF Persist, TypeOK
<1>3. ASSUME phase' # "up" PROVE StoresAgree'
  BY <1>3
<1>4. ASSUME NEW l \in Leases, HelperStep(l) PROVE StoresAgree'
  BY <1>1, <1>4 DEF HelperStep, HelperAnnounce, HelperExit, Reap
<1>5. ASSUME NEW f \in Foreigners, NEW p \in Pids,
             ForeignStart(f, p) \/ ForeignExit(f, p)
      PROVE  StoresAgree'
  BY <1>1, <1>5 DEF ForeignStart, ForeignExit
<1>6. ASSUME NEW l \in Leases, NEW p \in Pids, StartSpawn(l, p)
      PROVE  StoresAgree'
  BY <1>1, <1>6 DEF StartSpawn
<1>7. CASE StartStep
  BY <1>1, <1>2, <1>7 DEF StartStep, StartStamp, StartRecord, StartRefuse,
                          StartReply
<1>8. ASSUME NEW l \in Leases, TerminationHandler(l) PROVE StoresAgree'
  BY <1>1, <1>2, <1>8 DEF TerminationHandler
<1>9. ASSUME NEW t \in Threads, NEW l \in Leases, CancelMismatch(t, l)
      PROVE  StoresAgree'
  BY <1>2, <1>9 DEF CancelMismatch
<1>10. ASSUME NEW t \in Threads, NEW l \in Leases, CancelSignal(t, l)
       PROVE  StoresAgree'
  <2> SUFFICES ASSUME written # "failed" PROVE StoresAgree'
    BY <1>10 DEF CancelSignal
  <2>1. /\ phase = "up" /\ UNCHANGED <<phase, disk>>
        /\ mem.current # None
        /\ mem' = [mem EXCEPT !.current =
                     [mem.current EXCEPT !.cancelReq = TRUE]]
    BY <1>0, <1>10 DEF TypeOK, Store, CancelSignal, Cancellable, RunningIn,
                       LockFree
  <2>2. SameButRequest(mem, disk)
    BY <1>0, <2>1
  <2>3. disk.current \in Attempt /\ mem.current \in Attempt
    BY <1>0, <2>1, <2>2 DEF SameButRequest, TypeOK, Store
  <2>4. [mem.current EXCEPT !.cancelReq = TRUE]
          = [disk.current EXCEPT !.cancelReq = TRUE]
    BY <2>1, <2>2, <2>3 DEF SameButRequest, Attempt
  <2>5. /\ mem'.current = [disk.current EXCEPT !.cancelReq = TRUE]
        /\ mem'.history = mem.history
        /\ mem'.reconciles = mem.reconciles
    BY <1>0, <2>1, <2>4 DEF TypeOK, Store
  <2>6. mem'.current # None /\ disk.current # None
        /\ mem'.current.cancelReq = TRUE
    BY <2>3, <2>5 DEF Attempt
  <2>7. QED
    BY <2>1, <2>2, <2>5, <2>6 DEF SameButRequest
<1>11. ASSUME NEW t \in Threads, CancelReply(t) PROVE StoresAgree'
  BY <1>2, <1>11 DEF CancelReply
<1>12. ASSUME NEW l \in Leases, NEW n \in Notes, AttemptWrite(l, n)
       PROVE  StoresAgree'
  BY <1>2, <1>12 DEF AttemptWrite
<1>13. CASE ServiceExit \/ TornExit \/ ServiceReconcile
  BY <1>3, <1>13 DEF ServiceExit, TornExit, ExitWith, ServiceReconcile
<1>14. CASE OtherCommand \/ ReconcileSave
  BY <1>2, <1>14 DEF OtherCommand, ReconcileSave
<1>15. CASE ServiceStart
  BY <1>0, <1>15, SameStore DEF ServiceStart, TypeOK
<1>16. ASSUME NEW l \in Leases, ReadabilityHandler(l) PROVE StoresAgree'
  BY <1>0, <1>16 DEF ReadabilityHandler
<1>17. CASE UNCHANGED vars
  BY <1>1, <1>17 DEF vars
<1>18. QED
  BY <1>4, <1>5, <1>6, <1>7, <1>8, <1>9, <1>10, <1>11, <1>12, <1>13, <1>14,
     <1>15, <1>16, <1>17 DEF Next, BootStep

\* The service invariant: types, the process table, the start, the cancel and
\* the reconcile in progress, and memory against the file.
THEOREM ServiceInvariant == Spec => []ServiceInv
<1>1. Init => ServiceInv
  BY InitService
<1>2. ServiceInv /\ [Next]_vars => ServiceInv'
  BY TypeStep, TableStep, LaunchStep, ReconcileStep, CancelStep, StoresStep
     DEF ServiceInv
<1>3. QED
  BY <1>1, <1>2, PTL DEF Spec

\* Every variable keeps its type through every order of exits, restarts,
\* signals and pid reuse; in particular a cancel that has waited still finds a
\* current attempt to describe.
THEOREM TypeCorrect == Spec => []TypeOK
<1>1. ServiceInv => TypeOK
  BY DEF ServiceInv
<1>2. QED
  BY <1>1, ServiceInvariant, PTL

\* Whenever the lock is free and the last write did not fail, attempts.json holds all
\* that status reports but a pending cancel request and the helper's last events: every
\* other change is saved before the lock is released (persist after every change).
THEOREM StatusIsDurable == Spec => []VisibleIsDurable
<1>1. ServiceInv => VisibleIsDurable
  BY DEF ServiceInv, StoresAgree, VisibleIsDurable, LockFree
<1>2. QED
  BY <1>1, ServiceInvariant, PTL

(***************************************************************************)
(* No helper is forgotten.                                                 *)
(***************************************************************************)

\* What a step does to the file: it writes memory, or fails to, or leaves the file as
\* it is, or exits and may leave a file cut short.
LEMMA DiskStep ==
  ASSUME ServiceInv, [Next]_vars
  PROVE  \/ phase' = "up" /\ Persist
         \/ /\ disk' \in {disk, EmptyStore}
            /\ (written' = "failed") <=> (written = "failed")
            /\ \A t \in Threads : answers'[t] \in {answers[t], None}
<1> USE DEF procVars, clientVars
<1> DEFINE Same == UNCHANGED <<disk, written, answers>>
           Saves == phase' = "up" /\ Persist
<1>0. TypeOK /\ LaunchInProgress
  BY DEF ServiceInv
<1>1. ASSUME NEW l \in Leases, HelperStep(l) PROVE Same
  BY <1>1 DEF HelperStep, HelperAnnounce, HelperExit, Reap
<1>2. ASSUME NEW l \in Leases, TerminationHandler(l)
      PROVE  Saves \/ Same
  BY <1>2 DEF TerminationHandler, LockFree
<1>3. ASSUME NEW f \in Foreigners, NEW p \in Pids, ForeignStart(f, p) \/ ForeignExit(f, p)
      PROVE  Same
  BY <1>3 DEF ForeignStart, ForeignExit
<1>4. ASSUME NEW l \in Leases, NEW p \in Pids, StartSpawn(l, p)
      PROVE  Same
  BY <1>4 DEF StartSpawn
<1>5. ASSUME StartStep PROVE Saves \/ Same
  BY <1>0, <1>5 DEF LaunchInProgress, StartStep, StartStamp, StartRecord, StartRefuse,
                    StartReply
<1>6. ASSUME NEW t \in Threads, NEW l \in Leases, CancelMismatch(t, l) PROVE Saves
  BY <1>6 DEF CancelMismatch, Cancellable, LockFree
<1>6a. ASSUME NEW t \in Threads, NEW l \in Leases, CancelSignal(t, l)
       PROVE  /\ UNCHANGED <<disk, written>>
              /\ \A u \in Threads : answers'[u] \in {answers[u], None}
  BY <1>0, <1>6a DEF TypeOK, CancelSignal
<1>7. ASSUME NEW t \in Threads, CancelReply(t) PROVE Saves
  BY <1>7 DEF CancelReply, LockFree
<1>8. ASSUME NEW l \in Leases, NEW n \in Notes, AttemptWrite(l, n) PROVE Saves
  BY <1>8 DEF AttemptWrite, LockFree
<1>9. ASSUME OtherCommand \/ BootStep PROVE Saves \/ Same
  BY <1>9 DEF OtherCommand, LockFree, BootStep, ServiceStart, ServiceReconcile, ReconcileSave
<1>10. ASSUME NEW l \in Leases, ReadabilityHandler(l)
       PROVE  UNCHANGED <<disk, answers>> /\ written = "all" /\ written' = "butEvents"
  BY <1>10 DEF ReadabilityHandler
<1>11. ASSUME NEW file, file \in {disk, EmptyStore}, ExitWith(file)
       PROVE  /\ disk' \in {disk, EmptyStore} /\ UNCHANGED answers
              /\ (written' = "failed") <=> (written = "failed")
  BY <1>11 DEF ExitWith
<1>12. CASE ServiceExit \/ TornExit
  BY <1>11, <1>12 DEF ServiceExit, TornExit
<1>13. ASSUME UNCHANGED vars PROVE Same
  BY <1>13 DEF vars
<1>14. QED
  BY <1>1, <1>2, <1>3, <1>4, <1>5, <1>6, <1>6a, <1>7, <1>8, <1>9, <1>10, <1>12, <1>13
     DEF Next

\* A live helper holds the pid it was given.
LEMMA AliveHoldsPid ==
  ASSUME ServiceInv, NEW l \in Leases, Alive(l)
  PROVE  pidOf[l] \in Pids /\ slot[pidOf[l]] = l
BY DEF ServiceInv, ProcessTable, Alive

\* The memory of a service that is up tells of every live helper: what it loaded does,
\* and no handler drops a helper that has not ended.
LEMMA TellsStep ==
  ASSUME ServiceInv, HelperAccounted, MemoryTells, [Next]_vars
  PROVE  MemoryTells'
<1> USE NoneAssumption DEF procVars, clientVars, Processes
<1>0. TypeOK /\ LaunchInProgress /\ ReconcileInProgress /\ ProcessTable
  BY DEF ServiceInv
\* The steps that leave each helper to what told of it.
<1>1. ASSUME phase = "up", lost \cap Leases \subseteq lost' \cup {l \in Leases : ~ Alive(l)'},
             \A l \in Leases : Alive(l)' /\ l \notin sig' => Alive(l) /\ l \notin sig,
             \A l \in Leases : launch.lease = l /\ launch.step # "recorded" /\ Alive(l)' =>
                \/ launch'.lease = l /\ launch'.step # "recorded"
                \/ l \in sig' \/ RunningIn(mem, l)',
             mem.reconciles \subseteq mem'.reconciles,
             \A l \in Leases : RunningIn(mem, l) /\ Alive(l)' => RunningIn(mem, l)'
      PROVE  MemoryTells'
  <2> SUFFICES ASSUME NEW l \in Leases, Alive(l)', l \notin sig'
               PROVE  \/ launch'.lease = l /\ launch'.step # "recorded"
                      \/ TellsOf(mem, l)' \/ l \in lost'
    BY DEF MemoryTells
  <2>1. CASE launch.lease = l /\ launch.step # "recorded"
    BY <1>1, <2>1 DEF TellsOf
  <2>2. CASE TellsOf(mem, l)
    BY <1>1, <2>2 DEF TellsOf, ReportedUnverified
  <2>3. CASE l \in lost
    BY <1>1, <2>3
  <2>4. QED
    BY <1>1, <2>1, <2>2, <2>3 DEF MemoryTells
<1>2. ASSUME UNCHANGED <<proc, lost, launch, mem>>, sig \subseteq sig', phase' = phase
      PROVE  MemoryTells'
  BY <1>2 DEF MemoryTells, TellsOf, ReportedUnverified, Alive, RunningIn
<1>3. ASSUME NEW l \in Leases, HelperStep(l) PROVE MemoryTells'
  <2>1. /\ \A k \in Leases : Alive(k)' /\ k \notin sig' => Alive(k) /\ k \notin sig
        /\ lost \subseteq lost' \cup {k \in Leases : ~ Alive(k)'}
        /\ UNCHANGED <<phase, launch, mem>>
    BY <1>0, <1>3 DEF TypeOK, HelperStep, HelperAnnounce, HelperExit, Reap, Alive
  <2>2. QED
    BY <2>1 DEF MemoryTells, TellsOf, ReportedUnverified, RunningIn
<1>4. ASSUME NEW f \in Foreigners, NEW p \in Pids,
             ForeignStart(f, p) \/ ForeignExit(f, p)
      PROVE  MemoryTells'
  BY <1>2, <1>4 DEF ForeignStart, ForeignExit
<1>5. ASSUME NEW l \in Leases, NEW p \in Pids, StartSpawn(l, p)
      PROVE  MemoryTells'
  <2>1. /\ launch.lease = None /\ launch'.lease = l /\ launch'.step = "spawned"
        /\ \A k \in Leases : Alive(k)' => Alive(k) \/ k = l
        /\ UNCHANGED <<phase, sig, lost, mem>>
    BY <1>0, <1>5 DEF TypeOK, StartSpawn, LockFree, LaunchInProgress, Alive
  <2>2. QED
    BY <2>1 DEF MemoryTells, TellsOf, ReportedUnverified, RunningIn
\* A start that ends: the helper has exited, is signalled, or is recorded.
<1>6. CASE StartStamp
  <2> DEFINE k == launch.lease
  <2>1. k \in Leases /\ phase = "up" /\ UNCHANGED <<phase, proc, sig, lost, mem>>
    BY <1>0, <1>6 DEF StartStamp, LaunchInProgress
  <2>2. slot[pidOf[k]] = None => ~ Alive(k)
    BY <2>1, AliveHoldsPid
  <2>3. slot[pidOf[k]] # None => launch'.lease = k /\ launch'.step = "stamped"
    BY <1>0, <1>6 DEF TypeOK, StartStamp
  <2>4. QED
    BY <2>1, <2>2, <2>3 DEF MemoryTells, TellsOf, ReportedUnverified, Alive, RunningIn
<1>7. CASE StartRefuse
  <2>1. /\ launch.lease \in Leases /\ UNCHANGED <<phase, proc, lost, mem>>
        /\ sig \subseteq sig' /\ Signal(pidOf[launch.lease], "unchecked")
    BY <1>0, <1>7 DEF StartRefuse, LaunchInProgress, Signal
  <2>2. Alive(launch.lease) => launch.lease \in sig'
    BY <2>1, AliveHoldsPid DEF Signal
  <2>3. QED
    BY <2>1, <2>2 DEF MemoryTells, TellsOf, ReportedUnverified, Alive, RunningIn
<1>8. CASE StartRecord
  <2> DEFINE k == launch.lease
  <2>1. /\ phase = "up" /\ k \in Leases /\ ~ AnyRunningIn(mem)
        /\ UNCHANGED <<proc, sig, lost>>
        /\ mem'.reconciles = mem.reconciles /\ mem'.current = FreshAttempt(k)
        /\ launch'.lease = launch.lease
    BY <1>0, <1>8 DEF TypeOK, Store, StartRecord, LaunchInProgress
  <2>2. FreshAttempt(k) # None /\ FreshAttempt(k).lease = k /\ FreshAttempt(k).state = "running"
    BY <2>1, FreshAttemptType DEF FreshAttempt
  <2>3. \A l \in Leases : ~ RunningIn(mem, l)
    BY <2>1 DEF AnyRunningIn
  <2>4. \A l \in Leases : launch.lease = l => RunningIn(mem, l)'
    BY <2>1, <2>2 DEF RunningIn
  <2>5. QED
    BY <1>1, <2>1, <2>3, <2>4 DEF Alive
<1>9. CASE StartReply
  <2>1. RunningIn(mem, launch.lease) /\ launch.step = "recorded"
        /\ UNCHANGED <<phase, proc, sig, lost, mem>>
    BY <1>0, <1>9 DEF StartReply, LaunchInProgress
  <2>2. QED
    BY <2>1 DEF MemoryTells, TellsOf, ReportedUnverified, Alive, RunningIn
\* The handlers that change the state of the current attempt do so only once its
\* helper has exited.
<1>10. ASSUME phase = "up", UNCHANGED <<proc, sig, lost, launch>>,
              mem'.reconciles = mem.reconciles,
              \A l \in Leases : RunningIn(mem, l) /\ Alive(l) => RunningIn(mem, l)'
       PROVE  MemoryTells'
  BY <1>1, <1>10 DEF Alive
<1>11. ASSUME NEW k \in Leases, TerminationHandler(k) PROVE MemoryTells'
  <2>1. phase = "up" /\ ~ Alive(k) /\ UNCHANGED <<proc, sig, lost, launch>>
    BY <1>0, <1>11 DEF TerminationHandler, LockFree, ProcessTable, Alive
  <2>2. mem'.reconciles = mem.reconciles
    BY <1>0, <1>11 DEF TypeOK, Store, TerminationHandler
  <2>3. ASSUME NEW l \in Leases, RunningIn(mem, l), Alive(l) PROVE RunningIn(mem, l)'
    <3>1. UNCHANGED mem
      BY <1>11, <2>1, <2>3 DEF TerminationHandler, RunningIn
    <3>2. QED
      BY <2>3, <3>1 DEF RunningIn
  <2>4. QED
    BY <1>10, <2>1, <2>2, <2>3
<1>12. ASSUME NEW t \in Threads, NEW k \in Leases, CancelMismatch(t, k)
       PROVE  MemoryTells'
  <2>1. /\ phase = "up" /\ RunningIn(mem, k) /\ ~ Alive(k)
        /\ UNCHANGED <<proc, sig, lost, launch>>
    BY <1>12, AliveHoldsPid DEF CancelMismatch, Cancellable, LockFree
  <2>2. mem'.reconciles = mem.reconciles
    BY <1>0, <1>12 DEF TypeOK, Store, CancelMismatch
  <2>3. \A l \in Leases : RunningIn(mem, l) => l = k
    BY <2>1 DEF RunningIn
  <2>4. QED
    BY <1>10, <2>1, <2>2, <2>3
\* Those that keep its state: a cancel request, a note, a reply.
<1>13. ASSUME phase = "up", phase' = "up", UNCHANGED <<proc, lost, launch>>,
              sig \subseteq sig', mem.current \in Attempt, mem'.current \in Attempt,
              mem'.reconciles = mem.reconciles,
              mem'.current.lease = mem.current.lease,
              mem'.current.state = mem.current.state
       PROVE  MemoryTells'
  BY <1>1, <1>13 DEF Alive, RunningIn
<1>14. ASSUME NEW t \in Threads, NEW k \in Leases, CancelSignal(t, k) PROVE MemoryTells'
  <2>1. /\ mem.current \in Attempt /\ phase = "up" /\ phase' = "up" /\ sig \subseteq sig'
        /\ mem'.current = [mem.current EXCEPT !.cancelReq = TRUE]
        /\ mem'.reconciles = mem.reconciles /\ UNCHANGED <<proc, lost, launch>>
    BY <1>0, <1>14 DEF TypeOK, Store, CancelSignal, Cancellable, RunningIn, LockFree, Signal
  <2>2. /\ mem'.current \in Attempt /\ mem'.current.lease = mem.current.lease
        /\ mem'.current.state = mem.current.state
    BY <2>1 DEF Attempt
  <2>3. QED
    BY <1>13, <2>1, <2>2
<1>15. ASSUME NEW k \in Leases, NEW n \in Notes, AttemptWrite(k, n) PROVE MemoryTells'
  <2>1. /\ mem.current \in Attempt /\ phase = "up" /\ phase' = "up"
        /\ mem'.current = [mem.current EXCEPT !.notes = @ \cup {n}]
        /\ mem'.reconciles = mem.reconciles /\ UNCHANGED <<proc, sig, lost, launch>>
    BY <1>0, <1>15 DEF TypeOK, Store, AttemptWrite, RunningIn, LockFree
  <2>2. /\ mem'.current \in Attempt /\ mem'.current.lease = mem.current.lease
        /\ mem'.current.state = mem.current.state
    BY <2>1 DEF Attempt
  <2>3. QED
    BY <1>13, <2>1, <2>2
<1>16. ASSUME NEW t \in Threads, CancelReply(t) PROVE MemoryTells'
  BY <1>2, <1>16 DEF CancelReply
<1>17. ASSUME NEW l \in Leases, ReadabilityHandler(l) PROVE MemoryTells'
  BY <1>2, <1>17 DEF ReadabilityHandler
<1>18. CASE OtherCommand
  BY <1>2, <1>18 DEF OtherCommand
<1>19. CASE ServiceExit \/ TornExit \/ ServiceReconcile
  BY <1>19 DEF ServiceExit, TornExit, ExitWith, ServiceReconcile, MemoryTells
\* A service that comes up tells of what the file did, or has judged it.
<1>20. CASE ServiceStart
  <2>1. /\ phase = "down" /\ launch.lease = None /\ mem' = disk
        /\ UNCHANGED <<proc, sig, lost>>
    BY <1>0, <1>20 DEF TypeOK, ServiceStart, LaunchInProgress
  <2>2. QED
    BY <2>1 DEF HelperAccounted, MemoryTells, TellsOf, ReportedUnverified, Alive, RunningIn
<1>21. CASE ReconcileSave
  <2>1. /\ phase = "reconciled" /\ launch.lease = None
        /\ UNCHANGED <<proc, sig, lost, mem>>
    BY <1>0, <1>21 DEF TypeOK, ReconcileSave, LaunchInProgress
  <2>2. \A l \in Leases : Alive(l) /\ l \notin sig /\ TellsOf(disk, l) => TellsOf(mem, l)
    BY <1>0, <2>1 DEF ReconcileInProgress, TellsOf, ReportedUnverified
  <2>3. QED
    BY <2>1, <2>2 DEF HelperAccounted, MemoryTells, TellsOf, ReportedUnverified, Alive,
                      RunningIn
<1>22. CASE UNCHANGED vars
  BY <1>2, <1>22 DEF vars
<1>23. QED
  BY <1>3, <1>4, <1>5, <1>6, <1>7, <1>8, <1>9, <1>11, <1>12, <1>14, <1>15, <1>16,
     <1>17, <1>18, <1>19, <1>20, <1>21, <1>22 DEF Next, StartStep, BootStep

\* An exit forgets a helper of a start that had not recorded it, and those the file
\* it leaves does not tell of; all others the file tells of.
LEMMA ExitAccounts ==
  ASSUME ServiceInv, HelperAccounted, NEW file, ExitWith(file)
  PROVE  HelperAccounted'
<1>1. /\ UNCHANGED <<proc, sig>> /\ disk' = file
      /\ lost' = lost \cup {l \in Leases : Alive(l) /\ Forgotten(l, file)}
  BY DEF ExitWith, procVars
<1>2. \A l \in Leases : launch.lease = l => Forgotten(l, file) \/ TellsOf(file, l)
  BY NoneAssumption DEF ServiceInv, LaunchInProgress, TypeOK, Processes, Forgotten, TellsOf
<1>3. \A l \in Leases : TellsOf(disk, l) \/ TellsOf(mem, l) =>
                          Forgotten(l, file) \/ TellsOf(file, l)
  BY DEF Forgotten
<1>4. QED
  BY <1>1, <1>2, <1>3
     DEF HelperAccounted, TellsOf, ReportedUnverified, Alive, RunningIn

LEMMA AccountedStep ==
  ASSUME ServiceInv, HelperAccounted, MemoryTells, [Next]_vars
  PROVE  HelperAccounted'
<1> USE NoneAssumption DEF procVars, clientVars, Processes
<1>0. /\ TypeOK /\ LaunchInProgress /\ ReconcileInProgress /\ ProcessTable
      /\ MemoryTells'
  BY TellsStep DEF ServiceInv
\* A service that is up saves what its memory tells of, or fails to.
<1>1. ASSUME phase' = "up", Persist PROVE HelperAccounted'
  <2>1. disk' = mem' \/ written' = "failed"
    BY <1>1 DEF Persist
  <2>2. QED
    BY <1>0, <1>1, <2>1
       DEF HelperAccounted, MemoryTells, TellsOf, ReportedUnverified, RunningIn, Alive
\* The steps that leave the file and its account of each helper.
<1>2. ASSUME UNCHANGED disk, (written' = "failed") <=> (written = "failed"),
             phase = "up" => phase' = "up",
             lost \subseteq lost' \cup {l \in Leases : ~ Alive(l)'},
             \A l \in Leases : Alive(l)' /\ l \notin sig' /\ launch'.lease # l =>
                Alive(l) /\ l \notin sig /\ launch.lease # l
      PROVE  HelperAccounted'
  <2> SUFFICES ASSUME NEW l \in Leases, Alive(l)', l \notin sig', launch'.lease # l
               PROVE  \/ TellsOf(disk, l)' \/ l \in lost'
                      \/ written' = "failed" /\ phase' = "up" /\ TellsOf(mem, l)'
    BY DEF HelperAccounted
  <2>1. CASE TellsOf(disk, l)
    BY <1>2, <2>1 DEF TellsOf, RunningIn, ReportedUnverified
  <2>2. CASE l \in lost
    BY <1>2, <2>2
  <2>3. CASE written = "failed" /\ phase = "up"
    BY <1>0, <1>2, <2>3 DEF MemoryTells, TellsOf
  <2>4. QED
    BY <1>2, <2>1, <2>2, <2>3 DEF HelperAccounted
<1>3. ASSUME UNCHANGED <<disk, written, phase, launch, lost, proc>>, sig \subseteq sig'
      PROVE  HelperAccounted'
  BY <1>2, <1>3 DEF Alive
<1>4. ASSUME NEW l \in Leases, HelperStep(l) PROVE HelperAccounted'
  <2>1. /\ \A k \in Leases : Alive(k)' /\ k \notin sig' => Alive(k) /\ k \notin sig
        /\ lost \subseteq lost' \cup {k \in Leases : ~ Alive(k)'}
        /\ UNCHANGED <<phase, launch, disk, written>>
    BY <1>0, <1>4 DEF TypeOK, HelperStep, HelperAnnounce, HelperExit, Reap, Alive
  <2>2. QED
    BY <1>2, <2>1
<1>5. ASSUME NEW f \in Foreigners, NEW p \in Pids,
             ForeignStart(f, p) \/ ForeignExit(f, p)
      PROVE  HelperAccounted'
  BY <1>3, <1>5 DEF ForeignStart, ForeignExit
<1>6. ASSUME NEW l \in Leases, NEW p \in Pids, StartSpawn(l, p)
      PROVE  HelperAccounted'
  <2>1. /\ launch.lease = None /\ launch'.lease = l
        /\ \A k \in Leases : Alive(k)' => Alive(k) \/ k = l
        /\ UNCHANGED <<phase, sig, lost, disk, written>>
    BY <1>0, <1>6 DEF TypeOK, StartSpawn, LockFree, LaunchInProgress, Alive
  <2>2. QED
    BY <1>2, <2>1
<1>7. CASE StartStamp \/ StartRefuse
  <2> DEFINE k == launch.lease
  <2>1. /\ k \in Leases /\ sig \subseteq sig'
        /\ UNCHANGED <<phase, proc, lost, disk, written>>
    BY <1>0, <1>7 DEF StartStamp, StartRefuse, LaunchInProgress, Signal
  <2>2. launch'.lease # k => ~ Alive(k) \/ k \in sig'
    <3>1. ASSUME StartStamp, Alive(k) PROVE launch'.lease = k
      BY <1>0, <2>1, <3>1, AliveHoldsPid DEF TypeOK, StartStamp, Processes
    <3>2. ASSUME StartRefuse, Alive(k) PROVE k \in sig'
      BY <2>1, <3>2, AliveHoldsPid DEF StartRefuse, Signal
    <3>3. QED
      BY <1>7, <3>1, <3>2
  <2>3. QED
    BY <1>2, <2>1, <2>2 DEF Alive
<1>8. ASSUME NEW k \in Leases, TerminationHandler(k) PROVE HelperAccounted'
  <2>1. CASE Persist
    BY <1>1, <1>8, <2>1 DEF TerminationHandler, LockFree
  <2>2. CASE UNCHANGED <<disk, written>>
    BY <1>3, <1>8, <2>2 DEF TerminationHandler
  <2>3. QED
    BY <1>8, <2>1, <2>2 DEF TerminationHandler
<1>9. ASSUME NEW k \in Leases, ReadabilityHandler(k) PROVE HelperAccounted'
  BY <1>2, <1>9 DEF ReadabilityHandler, Alive
<1>10. ASSUME NEW t \in Threads, NEW k \in Leases, CancelMismatch(t, k)
       PROVE  HelperAccounted'
  BY <1>1, <1>10 DEF CancelMismatch, Cancellable, LockFree
<1>11. ASSUME NEW t \in Threads, NEW k \in Leases, CancelSignal(t, k)
       PROVE  HelperAccounted'
  BY <1>3, <1>11 DEF CancelSignal, Signal
<1>12. ASSUME NEW t \in Threads, CancelReply(t) PROVE HelperAccounted'
  BY <1>1, <1>12 DEF CancelReply, LockFree
<1>13. ASSUME NEW k \in Leases, NEW n \in Notes, AttemptWrite(k, n)
       PROVE  HelperAccounted'
  BY <1>1, <1>13 DEF AttemptWrite, LockFree
<1>14. CASE OtherCommand \/ StartRecord \/ StartReply \/ ReconcileSave
  BY <1>0, <1>1, <1>14 DEF OtherCommand, StartRecord, StartReply, ReconcileSave, LockFree,
                           LaunchInProgress
<1>15. CASE ServiceExit \/ TornExit
  BY <1>15, ExitAccounts DEF ServiceExit, TornExit
<1>16. CASE ServiceStart \/ ServiceReconcile
  BY <1>2, <1>16 DEF ServiceStart, ServiceReconcile, Signal, Alive
<1>17. CASE UNCHANGED vars
  BY <1>3, <1>17 DEF vars
<1>18. QED
  BY <1>4, <1>5, <1>6, <1>7, <1>8, <1>9, <1>10, <1>11, <1>12, <1>13, <1>14, <1>15,
     <1>16, <1>17 DEF Next, StartStep, BootStep

LEMMA AccountedInit == Init => HelperAccounted
<1> SUFFICES ASSUME Init PROVE HelperAccounted
  OBVIOUS
<1>1. CASE CleanInit
  BY <1>1 DEF CleanInit, HelperAccounted, Alive
<1>2. CASE LeftoverInit
  <2>1. PICK l \in Leases, ok \in BOOLEAN :
          /\ \A k \in Leases : k # l => proc[k] = "unborn"
          /\ disk = [EmptyStore EXCEPT
                       !.current = [FreshAttempt(l) EXCEPT !.verified = ok]]
    BY <1>2, OldAssumption DEF LeftoverInit
  <2>2. /\ disk.current.lease = l /\ disk.current.state = "running"
        /\ disk.current \in Attempt
    BY <2>1 DEF EmptyStore, FreshAttempt, Attempt
  <2>3. QED
    BY <2>1, <2>2, NoneAssumption DEF HelperAccounted, Alive, TellsOf, RunningIn
<1>3. QED
  BY <1>1, <1>2 DEF Init

\* No order of exits, restarts, cancels and late handlers leaves a live helper
\* that nobody has signalled and no attempt record, start or reconcile record
\* names, but for those an exit forgets.
THEOREM HelpersStayAccounted == Spec => []HelperAccounted
<1>1. Init => HelperAccounted
  BY AccountedInit
<1>2. Init => MemoryTells
  BY DEF Init, MemoryTells
<1>3. ServiceInv /\ HelperAccounted /\ MemoryTells /\ [Next]_vars
        => HelperAccounted' /\ MemoryTells'
  BY TellsStep, AccountedStep
<1>4. QED
  BY <1>1, <1>2, <1>3, ServiceInvariant, PTL DEF Spec

(***************************************************************************)
(* Signals sent after a comparison of start times.                         *)
(***************************************************************************)

\* A signal to a pid that a helper holds reaches no other process.
LEMMA SignalHelper ==
  ASSUME NEW l \in Leases, NEW p, NEW way, slot[p] = l, Signal(p, way)
  PROVE  struck' = struck
BY LeasesAssumption DEF Signal

LEMMA CheckedStep ==
  ASSUME ServiceInv, CheckedSignalsHitHelpers, [Next]_vars
  PROVE  CheckedSignalsHitHelpers'
<1> USE NoneAssumption DEF procVars, clientVars, Processes
<1>0. TypeOK /\ ProcessTable /\ LaunchInProgress
  BY DEF ServiceInv
<1>1. ASSUME UNCHANGED struck PROVE CheckedSignalsHitHelpers'
  BY <1>1 DEF CheckedSignalsHitHelpers
\* The failure path of a start signals without looking, and says so.
<1>2. CASE StartRefuse
  BY <1>2 DEF StartRefuse, Signal, CheckedSignalsHitHelpers
<1>3. ASSUME NEW t \in Threads, NEW l \in Leases, CancelSignal(t, l)
      PROVE  CheckedSignalsHitHelpers'
  BY <1>1, <1>3, SignalHelper DEF CancelSignal
<1>4. CASE ServiceReconcile
  <2> DEFINE a == disk.current
  <2>1. a \in Attempt
    BY <1>0, <1>4 DEF TypeOK, Store, ServiceReconcile, AnyRunningIn, RunningIn
  <2>2. CASE Classify(a) = "alive"
    <3>1. Signal(pidOf[a.lease], "checked")
      BY <1>4, <2>2 DEF ServiceReconcile
    <3>2. a.lease \in Leases /\ slot[pidOf[a.lease]] = a.lease
      BY <2>1, <2>2 DEF Classify, Attempt
    <3>3. QED
      BY <1>1, <3>1, <3>2, SignalHelper
  <2>3. CASE Classify(a) # "alive"
    BY <1>1, <1>4, <2>3 DEF ServiceReconcile
  <2>4. QED
    BY <2>2, <2>3
<1>5. ASSUME NEW l \in Leases,
             HelperStep(l) \/ TerminationHandler(l) \/ ReadabilityHandler(l)
      PROVE  CheckedSignalsHitHelpers'
  BY <1>1, <1>5 DEF HelperStep, HelperAnnounce, HelperExit, Reap,
                    TerminationHandler, ReadabilityHandler
<1>6. ASSUME NEW f \in Foreigners, NEW p \in Pids,
             ForeignStart(f, p) \/ ForeignExit(f, p)
      PROVE  CheckedSignalsHitHelpers'
  BY <1>1, <1>6 DEF ForeignStart, ForeignExit
<1>7. ASSUME NEW l \in Leases, NEW p \in Pids, StartSpawn(l, p)
      PROVE  CheckedSignalsHitHelpers'
  BY <1>1, <1>7 DEF StartSpawn
<1>8. CASE StartStamp \/ StartRecord \/ StartReply
  BY <1>1, <1>8 DEF StartStamp, StartRecord, StartReply
<1>9. ASSUME NEW t \in Threads, NEW l \in Leases, CancelMismatch(t, l)
      PROVE  CheckedSignalsHitHelpers'
  BY <1>1, <1>9 DEF CancelMismatch
<1>10. ASSUME NEW t \in Threads, CancelReply(t)
       PROVE  CheckedSignalsHitHelpers'
  BY <1>1, <1>10 DEF CancelReply
<1>11. ASSUME NEW l \in Leases, NEW n \in Notes, AttemptWrite(l, n)
       PROVE  CheckedSignalsHitHelpers'
  BY <1>1, <1>11 DEF AttemptWrite
<1>12. CASE OtherCommand \/ ServiceExit \/ TornExit \/ ServiceStart \/ ReconcileSave
  BY <1>1, <1>12 DEF OtherCommand, ServiceExit, TornExit, ExitWith, ServiceStart,
                     ReconcileSave
<1>13. CASE UNCHANGED vars
  BY <1>1, <1>13 DEF vars
<1>14. QED
  BY <1>2, <1>3, <1>4, <1>5, <1>6, <1>7, <1>8, <1>9, <1>10, <1>11, <1>12,
     <1>13 DEF Next, StartStep, BootStep

\* cancel() and reconcile() signal a pid only when its start time is the one on
\* record: they never reach a process the service did not launch, for any
\* number of processes and any recycling of pids, torn files included.
THEOREM CheckedSignalsAreSafe == Spec => []CheckedSignalsHitHelpers
<1>1. Init => CheckedSignalsHitHelpers
  BY DEF Init, CheckedSignalsHitHelpers
<1>2. ServiceInv /\ CheckedSignalsHitHelpers /\ [Next]_vars
        => CheckedSignalsHitHelpers'
  BY CheckedStep
<1>3. QED
  BY <1>1, <1>2, ServiceInvariant, PTL DEF Spec

(***************************************************************************)
(* What the attempt records and the receipts say is true.                  *)
(***************************************************************************)

LEMMA RecordInit == Init => RecordInv
<1> SUFFICES ASSUME Init PROVE RecordInv
  OBVIOUS
<1> USE NoneAssumption DEF NotYetRecorded, Known, StoreTrue, RecordInv
<1>1. /\ mem.current = None /\ mem.history = {} /\ launch.lease = None
      /\ \A t \in Threads : answers[t] = None
  BY DEF Init, EmptyStore, NoLaunch
<1>2. CASE CleanInit
  BY <1>1, <1>2 DEF CleanInit, EmptyStore, Processes
<1>3. CASE LeftoverInit
  <2>1. PICK l \in Leases, ok \in BOOLEAN :
          /\ proc[l] # "unborn"
          /\ disk = [EmptyStore EXCEPT
                       !.current = [FreshAttempt(l) EXCEPT !.verified = ok]]
    BY <1>3, OldAssumption DEF LeftoverInit
  <2>2. /\ disk.current.lease = l /\ disk.current.state = "running"
        /\ disk.current.exited = FALSE /\ disk.history = {}
    BY <2>1 DEF EmptyStore, FreshAttempt
  <2>3. QED
    BY <1>1, <2>1, <2>2 DEF Processes
<1>4. QED
  BY <1>2, <1>3 DEF Init

LEMMA RecordStep ==
  ASSUME ServiceInv, RecordInv, [Next]_vars
  PROVE  RecordInv'
<1> USE NoneAssumption DEF procVars, clientVars, Processes
<1>0. /\ TypeOK /\ LaunchInProgress /\ ReconcileInProgress /\ ProcessTable
      /\ CancelInProgress
  BY DEF ServiceInv
\* The steps after which every store and receipt that was true still is.
<1> DEFINE Kept == /\ \A l \in Leases : NotYetRecorded(l)' => NotYetRecorded(l)
                   /\ \A l \in Leases : proc[l] = "gone" => proc'[l] = "gone"
<1>1. ASSUME Kept
      PROVE  \A s \in Store : StoreTrue(s) => StoreTrue(s)'
  <2> SUFFICES ASSUME NEW s \in Store, StoreTrue(s) PROVE StoreTrue(s)'
    OBVIOUS
  <2>1. s.current # None => s.current.lease \in Leases
    BY DEF Store, Attempt
  <2>2. QED
    BY <1>1, <2>1 DEF StoreTrue, Known
<1>2. EmptyStore \in Store /\ StoreTrue(EmptyStore)'
  BY EmptyStoreType DEF StoreTrue, Known, EmptyStore
\* The file is then as true as memory, whatever became of the save.
<1>1a. ASSUME Kept, StoreTrue(mem)' PROVE StoreTrue(disk)'
  <2>1. disk' \in {mem', disk, EmptyStore}
    BY <1>0, DiskStep DEF Persist
  <2>2. StoreTrue(disk) /\ disk \in Store
    BY <1>0 DEF RecordInv, TypeOK
  <2>3. QED
    BY <1>1, <1>2, <1>1a, <2>1, <2>2 DEF StoreTrue
<1>3. ASSUME Kept, UNCHANGED <<mem, answers>>
      PROVE  RecordInv'
  <2>1. StoreTrue(mem)'
    BY <1>0, <1>1, <1>3 DEF RecordInv, TypeOK
  <2>2. QED
    BY <1>1a, <1>3, <2>1 DEF RecordInv
<1>4. ASSUME NEW l \in Leases, HelperStep(l) PROVE RecordInv'
  <2>1. Kept
    BY <1>0, <1>4 DEF TypeOK, HelperStep, HelperAnnounce, HelperExit, Reap,
                      Alive, NotYetRecorded
  <2>2. QED
    BY <1>3, <1>4, <2>1 DEF HelperStep, HelperAnnounce, HelperExit, Reap
<1>5. ASSUME NEW f \in Foreigners, NEW p \in Pids,
             ForeignStart(f, p) \/ ForeignExit(f, p)
      PROVE  RecordInv'
  BY <1>3, <1>5 DEF ForeignStart, ForeignExit, NotYetRecorded
<1>6. ASSUME NEW l \in Leases, NEW p \in Pids, StartSpawn(l, p)
      PROVE  RecordInv'
  <2>1. Kept
    BY <1>0, <1>6 DEF TypeOK, StartSpawn, NotYetRecorded
  <2>2. QED
    BY <1>3, <1>6, <2>1 DEF StartSpawn
<1>7. CASE StartStamp \/ StartRefuse
  <2>1. /\ UNCHANGED proc /\ launch.step # "recorded"
        /\ launch' = NoLaunch \/ launch'.lease = launch.lease
    BY <1>0, <1>7 DEF TypeOK, StartStamp, StartRefuse
  <2>2. Kept
    BY <2>1 DEF NoLaunch, NotYetRecorded
  <2>3. QED
    BY <1>3, <1>7, <2>2 DEF StartStamp, StartRefuse
<1>8. CASE StartReply
  <2>1. Kept
    BY <1>0, <1>8 DEF StartReply, NoLaunch, NotYetRecorded
  <2>2. QED
    BY <1>3, <1>8, <2>1 DEF StartReply
\* A handler that saves what it makes true of memory.
<1>9. ASSUME StoreTrue(mem)', UNCHANGED <<proc, launch>>,
             \A t \in Threads : answers'[t] = answers[t]
                \/ (mem.current # None /\ answers'[t].about = mem.current.lease)
      PROVE  RecordInv'
  <2>1. StoreTrue(disk)'
    BY <1>1a, <1>9 DEF NotYetRecorded
  <2>2. \A l \in Leases : NotYetRecorded(l)' => NotYetRecorded(l)
    BY <1>9 DEF NotYetRecorded
  <2>3. mem.current # None =>
          \A l \in Leases : NotYetRecorded(l) => mem.current.lease # l
    BY DEF RecordInv, StoreTrue, Known
  <2>4. QED
    BY <1>9, <2>1, <2>2, <2>3 DEF RecordInv
\* It makes memory true when it changes the current attempt and keeps its lease.
<1>10. ASSUME UNCHANGED <<proc, launch>>, mem'.history = mem.history,
              mem.current \in Attempt, mem'.current \in Attempt,
              mem'.current.lease = mem.current.lease,
              mem'.current.state # "running" => proc[mem.current.lease] = "gone",
              mem'.current.exited => mem'.current.state # "running"
       PROVE  StoreTrue(mem)'
  BY <1>10 DEF RecordInv, StoreTrue, Known, NotYetRecorded
<1>11. CASE StartRecord
  <2> DEFINE k == launch.lease
  <2>1. /\ k \in Leases /\ mem'.current = FreshAttempt(k)
        /\ mem'.history = mem.history /\ launch'.step = "recorded"
        /\ launch'.lease = k /\ UNCHANGED <<proc, answers>>
        /\ proc[k] # "unborn"
    BY <1>0, <1>11 DEF TypeOK, Store, StartRecord, LaunchInProgress
  <2>2. mem'.current.lease = k /\ mem'.current.state = "running"
        /\ mem'.current.exited = FALSE
    BY <2>1 DEF FreshAttempt
  <2>3. \A l \in Leases : NotYetRecorded(l)' => NotYetRecorded(l) /\ l # k
    BY <2>1 DEF NotYetRecorded
  <2>4. StoreTrue(mem)'
    BY <2>1, <2>2, <2>3 DEF RecordInv, StoreTrue, Known
  <2>5. StoreTrue(disk)'
    BY <1>1a, <2>1, <2>3, <2>4
  <2>6. QED
    BY <2>1, <2>3, <2>4, <2>5 DEF RecordInv
<1>12. ASSUME NEW l \in Leases, TerminationHandler(l) PROVE RecordInv'
  <2>1. CASE mem.current # None /\ mem.current.lease = l
    <3>1. /\ mem.current \in Attempt /\ proc[l] = "gone"
          /\ mem'.current = Ended(mem.current) /\ mem'.history = mem.history
      BY <1>0, <1>12, <2>1 DEF TypeOK, Store, TerminationHandler, ProcessTable
    <3>2. /\ mem'.current \in Attempt
          /\ mem'.current.lease = mem.current.lease
          /\ mem'.current.state # "running"
      BY <3>1 DEF Ended, Attempt
    <3>3. StoreTrue(mem)'
      BY <1>10, <1>12, <2>1, <3>1, <3>2 DEF TerminationHandler
    <3>4. QED
      BY <1>9, <1>12, <2>1, <3>3 DEF TerminationHandler
  <2>2. CASE ~ (mem.current # None /\ mem.current.lease = l)
    BY <1>3, <1>12, <2>2 DEF TerminationHandler, NotYetRecorded
  <2>3. QED
    BY <2>1, <2>2
\* A helper whose pid shows another start time, or none, has been reaped.
<1>13. ASSUME NEW t \in Threads, NEW l \in Leases, CancelMismatch(t, l)
       PROVE  RecordInv'
  <2>1. /\ mem.current \in Attempt /\ mem.current.lease = l
        /\ mem'.current = [mem.current EXCEPT !.state = "interrupted"]
        /\ mem'.history = mem.history
        /\ UNCHANGED <<proc, launch>>
    BY <1>0, <1>13 DEF TypeOK, Store, CancelMismatch, Cancellable, RunningIn
  <2>2. proc[l] # "unborn"
    BY <2>1 DEF RecordInv, StoreTrue, Known, NotYetRecorded
  <2>3. proc[l] = "gone"
    BY <1>0, <1>13, <2>2 DEF TypeOK, CancelMismatch, ProcessTable
  <2>4. /\ mem'.current \in Attempt /\ mem'.current.lease = mem.current.lease
        /\ mem'.current.state = "interrupted"
    BY <2>1 DEF Attempt
  <2>5. StoreTrue(mem)'
    BY <1>10, <2>1, <2>3, <2>4
  <2>6. \A u \in Threads : answers'[u] = answers[u]
           \/ (mem.current # None /\ answers'[u].about = mem.current.lease)
    BY <1>0, <1>13, <2>1 DEF TypeOK, CancelMismatch
  <2>7. QED
    BY <1>9, <2>1, <2>5, <2>6
<1>14. ASSUME NEW t \in Threads, NEW l \in Leases, CancelSignal(t, l)
       PROVE  RecordInv'
  <2>1. /\ mem.current \in Attempt /\ mem.current.state = "running"
        /\ mem'.current = [mem.current EXCEPT !.cancelReq = TRUE]
        /\ mem'.history = mem.history
        /\ UNCHANGED <<proc, launch, disk>>
        /\ mem.current # None
    BY <1>0, <1>14 DEF TypeOK, Store, CancelSignal, Cancellable, RunningIn
  <2>2. /\ mem'.current \in Attempt /\ mem'.current.lease = mem.current.lease
        /\ mem'.current.state = "running"
        /\ mem'.current.exited = mem.current.exited
    BY <2>1 DEF Attempt
  <2>3. ~ mem.current.exited
    BY <2>1 DEF RecordInv, StoreTrue
  <2>4. StoreTrue(mem)'
    BY <1>10, <2>1, <2>2, <2>3
  <2>5. StoreTrue(disk)'
    BY <2>1 DEF RecordInv, StoreTrue, NotYetRecorded
  <2>6. \A u \in Threads : answers'[u] = answers[u] \/ answers'[u] = None
    BY <1>0, <1>14 DEF TypeOK, CancelSignal
  <2>7. QED
    BY <2>1, <2>4, <2>5, <2>6 DEF RecordInv, NotYetRecorded
<1>15. ASSUME NEW t \in Threads, CancelReply(t) PROVE RecordInv'
  <2>1. mem.current # None /\ UNCHANGED <<mem, proc, launch>>
    BY <1>0, <1>15 DEF CancelInProgress, CancelReply
  <2>2. StoreTrue(mem)'
    BY <2>1 DEF RecordInv, StoreTrue, NotYetRecorded
  <2>3. \A u \in Threads : answers'[u] = answers[u]
           \/ answers'[u].about = mem.current.lease
    BY <1>0, <1>15 DEF TypeOK, CancelReply
  <2>4. QED
    BY <1>9, <1>15, <2>1, <2>2, <2>3 DEF CancelReply
<1>16. ASSUME NEW l \in Leases, NEW n \in Notes, AttemptWrite(l, n)
       PROVE  RecordInv'
  <2>1. /\ mem.current \in Attempt /\ mem.current.state = "running"
        /\ mem'.current = [mem.current EXCEPT !.notes = @ \cup {n}]
        /\ mem'.history = mem.history
        /\ UNCHANGED <<proc, launch>>
        /\ mem.current # None
    BY <1>0, <1>16 DEF TypeOK, Store, AttemptWrite, RunningIn
  <2>2. /\ mem'.current \in Attempt /\ mem'.current.lease = mem.current.lease
        /\ mem'.current.state = "running"
        /\ mem'.current.exited = mem.current.exited
    BY <2>1 DEF Attempt
  <2>3. ~ mem.current.exited
    BY <2>1 DEF RecordInv, StoreTrue
  <2>4. StoreTrue(mem)'
    BY <1>10, <2>1, <2>2, <2>3
  <2>5. QED
    BY <1>9, <1>16, <2>4 DEF AttemptWrite
<1>17. CASE ServiceExit \/ TornExit
  <2>1. /\ Kept /\ mem' = EmptyStore /\ (disk' = disk \/ disk' = EmptyStore)
        /\ UNCHANGED answers
    BY <1>0, <1>17 DEF ServiceExit, TornExit, ExitWith, NoLaunch,
                       NotYetRecorded
  <2>2. StoreTrue(mem)'
    BY <1>2, <2>1 DEF StoreTrue
  <2>3. StoreTrue(disk)'
    BY <1>0, <1>1, <1>2, <2>1 DEF RecordInv, TypeOK, StoreTrue
  <2>4. QED
    BY <2>1, <2>2, <2>3 DEF RecordInv
<1>18. CASE ServiceStart
  <2>1. StoreTrue(mem)' /\ StoreTrue(disk)'
    BY <1>18 DEF ServiceStart, RecordInv, StoreTrue, NotYetRecorded
  <2>2. QED
    BY <1>18, <2>1 DEF ServiceStart, RecordInv, NotYetRecorded
<1>19. CASE ServiceReconcile
  <2> DEFINE b == [disk.current EXCEPT !.state = "interrupted"]
  <2>1. /\ mem'.current = None /\ mem'.history = disk.history \cup {b}
        /\ disk.current # None /\ disk.current \in Attempt
        /\ UNCHANGED <<proc, disk, launch, answers>>
    BY <1>0, <1>19 DEF TypeOK, Store, ServiceReconcile, Reconciled,
                       AnyRunningIn, RunningIn
  <2>2. b.lease = disk.current.lease
    BY <2>1 DEF Attempt
  <2>3. StoreTrue(mem)'
    BY <2>1, <2>2 DEF RecordInv, StoreTrue, Known, NotYetRecorded
  <2>4. StoreTrue(disk)'
    BY <2>1 DEF RecordInv, StoreTrue, NotYetRecorded
  <2>5. QED
    BY <2>1, <2>3, <2>4 DEF RecordInv, NotYetRecorded
<1>20. CASE OtherCommand \/ ReconcileSave
  BY <1>3, <1>20 DEF OtherCommand, ReconcileSave, NotYetRecorded
<1>20a. ASSUME NEW l \in Leases, ReadabilityHandler(l) PROVE RecordInv'
  BY <1>3, <1>20a DEF ReadabilityHandler, NotYetRecorded
<1>21. CASE UNCHANGED vars
  BY <1>3, <1>21 DEF vars, NotYetRecorded
<1>22. QED
  BY <1>4, <1>5, <1>6, <1>7, <1>8, <1>11, <1>12, <1>13, <1>14, <1>15, <1>16,
     <1>17, <1>18, <1>19, <1>20, <1>20a, <1>21 DEF Next, StartStep, BootStep

\* The records are true of the processes: nothing marked ended is alive, and no
\* store or receipt speaks of a lease before its helper is recorded.
THEOREM RecordsTrue == Spec => []RecordInv
<1>1. ServiceInv /\ RecordInv /\ [Next]_vars => RecordInv'
  BY RecordStep
<1>2. QED
  BY <1>1, RecordInit, ServiceInvariant, PTL DEF Spec

\* A receipt that is not a timeout speaks of a helper that has ended and of an attempt
\* that memory does not call running.
AnswersFinal ==
    \A t \in Threads : answers[t] # None /\ answers[t].outcome # "timeout" =>
        ~ Alive(answers[t].about) /\ ~ RunningIn(mem, answers[t].about)

LEMMA FinalStep ==
  ASSUME ServiceInv, RecordInv, AnswersFinal, [Next]_vars
  PROVE  AnswersFinal'
<1> USE NoneAssumption DEF procVars, clientVars, Processes
<1>0. /\ TypeOK /\ LaunchInProgress /\ ReconcileInProgress /\ ProcessTable
      /\ CancelInProgress
  BY DEF ServiceInv
\* A recorded helper that has ended does not come back to life, and memory does not
\* reopen an attempt.
<1> DEFINE Final == \A l \in Leases : ~ NotYetRecorded(l) =>
                      /\ Alive(l)' => Alive(l)
                      /\ RunningIn(mem, l)' => RunningIn(mem, l)
           Holds(t) == answers[t] # None /\ answers[t].outcome # "timeout" =>
                        ~ Alive(answers[t].about) /\ ~ RunningIn(mem, answers[t].about)
<1>1. ASSUME Final, NEW t \in Threads,
             answers'[t] = answers[t] \/ answers'[t] = None
      PROVE  Holds(t)'
  <2>1. answers[t] # None => /\ answers[t].about \in Leases
                             /\ ~ NotYetRecorded(answers[t].about)
    BY <1>0 DEF TypeOK, Answer, RecordInv
  <2>2. Holds(t)
    BY DEF AnswersFinal
  <2>3. QED
    BY <1>1, <2>1, <2>2
<1>2. ASSUME Final, UNCHANGED answers PROVE AnswersFinal'
  BY <1>1, <1>2 DEF AnswersFinal
<1>3. ASSUME UNCHANGED <<proc, mem>> PROVE Final
  BY <1>3 DEF Alive, RunningIn
<1>4. ASSUME NEW l \in Leases, HelperStep(l) PROVE AnswersFinal'
  <2>1. Final /\ UNCHANGED answers
    BY <1>0, <1>4 DEF TypeOK, HelperStep, HelperAnnounce, HelperExit, Reap,
                      Alive, RunningIn
  <2>2. QED
    BY <1>2, <2>1
<1>5. ASSUME NEW f \in Foreigners, NEW p \in Pids,
             ForeignStart(f, p) \/ ForeignExit(f, p)
      PROVE  AnswersFinal'
  BY <1>2, <1>3, <1>5 DEF ForeignStart, ForeignExit
<1>6. ASSUME NEW l \in Leases, NEW p \in Pids, StartSpawn(l, p)
      PROVE  AnswersFinal'
  <2>1. Final /\ UNCHANGED answers
    BY <1>0, <1>6 DEF TypeOK, StartSpawn, Alive, RunningIn, NotYetRecorded
  <2>2. QED
    BY <1>2, <2>1
<1>7. CASE StartStamp \/ StartRefuse \/ StartReply
  BY <1>2, <1>3, <1>7 DEF StartStamp, StartRefuse, StartReply
<1>8. CASE StartRecord
  <2> DEFINE k == launch.lease
  <2>1. /\ mem'.current = FreshAttempt(k) /\ UNCHANGED <<proc, answers>>
        /\ k \in Leases /\ launch.step = "stamped"
    BY <1>0, <1>8 DEF TypeOK, Store, StartRecord, LaunchInProgress
  <2>2. Final
    BY <2>1 DEF NotYetRecorded, RunningIn, FreshAttempt, Alive
  <2>3. QED
    BY <1>2, <2>1, <2>2
<1>9. ASSUME NEW l \in Leases, ReadabilityHandler(l) PROVE AnswersFinal'
  BY <1>2, <1>3, <1>9 DEF ReadabilityHandler
<1>10. ASSUME NEW l \in Leases, TerminationHandler(l) PROVE AnswersFinal'
  <2>1. CASE mem.current # None /\ mem.current.lease = l
    <3>1. mem.current \in Attempt /\ mem'.current = Ended(mem.current)
          /\ UNCHANGED <<proc, answers>>
      BY <1>0, <1>10, <2>1 DEF TypeOK, Store, TerminationHandler
    <3>2. mem'.current.state # "running"
      BY <3>1 DEF Ended, Attempt
    <3>3. QED
      BY <1>2, <3>1, <3>2 DEF Alive, RunningIn
  <2>2. CASE ~ (mem.current # None /\ mem.current.lease = l)
    BY <1>2, <1>3, <1>10, <2>2 DEF TerminationHandler
  <2>3. QED
    BY <2>1, <2>2
<1>11. ASSUME NEW t \in Threads, NEW l \in Leases, CancelMismatch(t, l)
       PROVE  AnswersFinal'
  <2>1. /\ mem.current \in Attempt /\ mem.current.lease = l
        /\ mem'.current = [mem.current EXCEPT !.state = "interrupted"]
        /\ UNCHANGED proc
    BY <1>0, <1>11 DEF TypeOK, Store, CancelMismatch, Cancellable, RunningIn
  <2>2. mem'.current.state = "interrupted"
    BY <2>1 DEF Attempt
  <2>3. \A k \in Leases : ~ RunningIn(mem, k)'
    BY <2>2 DEF RunningIn
  <2>4. ~ Alive(l)'
    BY <1>11, <2>1, AliveHoldsPid DEF CancelMismatch, Alive
  <2>5. ASSUME NEW u \in Threads PROVE Holds(u)'
    <3>1. CASE u = t
      <4>1. answers'[u].about = l
        BY <1>0, <1>11, <3>1 DEF TypeOK, CancelMismatch
      <4>2. QED
        BY <2>3, <2>4, <4>1
    <3>2. CASE u # t
      <4>1. answers'[u] = answers[u]
        BY <1>0, <1>11, <3>2 DEF TypeOK, CancelMismatch
      <4>2. QED
        BY <1>1, <2>1, <2>3, <4>1 DEF Alive
    <3>3. QED
      BY <3>1, <3>2
  <2>6. QED
    BY <2>5 DEF AnswersFinal
<1>12. ASSUME NEW t \in Threads, NEW l \in Leases, CancelSignal(t, l)
       PROVE  AnswersFinal'
  <2>1. /\ mem.current \in Attempt /\ mem.current # None /\ UNCHANGED proc
        /\ mem'.current = [mem.current EXCEPT !.cancelReq = TRUE]
    BY <1>0, <1>12 DEF TypeOK, Store, CancelSignal, Cancellable, RunningIn
  <2>2. /\ mem'.current.lease = mem.current.lease
        /\ mem'.current.state = mem.current.state
    BY <2>1 DEF Attempt
  <2>3. Final
    BY <2>1, <2>2 DEF RunningIn, Alive
  <2>4. \A u \in Threads : answers'[u] = answers[u] \/ answers'[u] = None
    BY <1>0, <1>12 DEF TypeOK, CancelSignal
  <2>5. QED
    BY <1>1, <2>3, <2>4 DEF AnswersFinal
\* The receipt reports an exit only when the record has an exit date.
<1>13. ASSUME NEW t \in Threads, CancelReply(t) PROVE AnswersFinal'
  <2>1. /\ phase = "up" /\ mem.current # None
        /\ UNCHANGED <<mem, proc>> /\ mem.current.lease \in Leases
    BY <1>0, <1>13 DEF CancelInProgress, CancelReply, LockFree, TypeOK, Store, Attempt
  <2>2. Final
    BY <1>3, <2>1
  <2>3. ASSUME NEW u \in Threads PROVE Holds(u)'
    <3>1. CASE u = t
      <4>1. answers'[u].about = mem.current.lease
            /\ answers'[u].outcome = WaitOutcome
        BY <1>0, <1>13, <3>1 DEF TypeOK, CancelReply
      <4>2. ASSUME WaitOutcome # "timeout"
            PROVE  proc[mem.current.lease] = "gone"
                   /\ mem.current.state # "running"
        BY <2>1, <4>2 DEF WaitOutcome, RecordInv, StoreTrue
      <4>3. QED
        BY <2>1, <4>1, <4>2 DEF Alive, RunningIn
    <3>2. CASE u # t
      <4>1. answers'[u] = answers[u]
        BY <1>0, <1>13, <3>2 DEF TypeOK, CancelReply
      <4>2. QED
        BY <1>1, <2>2, <4>1
    <3>3. QED
      BY <3>1, <3>2
  <2>4. QED
    BY <2>3 DEF AnswersFinal
<1>14. ASSUME NEW l \in Leases, NEW n \in Notes, AttemptWrite(l, n)
       PROVE  AnswersFinal'
  <2>1. /\ mem.current \in Attempt /\ mem.current # None
        /\ mem'.current = [mem.current EXCEPT !.notes = @ \cup {n}]
        /\ UNCHANGED <<proc, answers>>
    BY <1>0, <1>14 DEF TypeOK, Store, AttemptWrite, RunningIn
  <2>2. /\ mem'.current.lease = mem.current.lease
        /\ mem'.current.state = mem.current.state
    BY <2>1 DEF Attempt
  <2>3. Final
    BY <2>1, <2>2 DEF RunningIn, Alive
  <2>4. QED
    BY <1>2, <2>1, <2>3
<1>15. CASE OtherCommand \/ ReconcileSave
  BY <1>2, <1>3, <1>15 DEF OtherCommand, ReconcileSave
\* A service that ends, and one that loads, run no attempt in memory.
<1>16. CASE ServiceExit \/ TornExit \/ ServiceStart \/ ServiceReconcile
  <2>1. UNCHANGED <<proc, answers>> /\ \A l \in Leases : ~ RunningIn(mem, l)'
    BY <1>16 DEF ServiceExit, TornExit, ExitWith, EmptyStore, ServiceStart,
                 ServiceReconcile, Reconciled, AnyRunningIn, RunningIn
  <2>2. QED
    BY <1>2, <2>1 DEF Alive
<1>17. CASE UNCHANGED vars
  BY <1>2, <1>3, <1>17 DEF vars
<1>18. QED
  BY <1>4, <1>5, <1>6, <1>7, <1>8, <1>9, <1>10, <1>11, <1>12, <1>13, <1>14,
     <1>15, <1>16, <1>17 DEF Next, StartStep, BootStep

\* What memory does not call running, no save makes the file call running.
LEMMA AnswersStep ==
  ASSUME ServiceInv, AnswersStayTrue, AnswersFinal', [Next]_vars
  PROVE  AnswersStayTrue'
<1> SUFFICES ASSUME NEW t \in Threads, answers'[t] # None,
                    answers'[t].outcome # "timeout"
             PROVE  /\ ~ Alive(answers[t].about)'
                    /\ written' # "failed" => ~ RunningIn(disk', answers'[t].about)
  BY DEF AnswersStayTrue, RunningIn
<1>1. ~ Alive(answers[t].about)' /\ ~ RunningIn(mem', answers'[t].about)
  BY DEF AnswersFinal, RunningIn
<1>2. CASE Persist
  BY <1>1, <1>2 DEF Persist
<1>3. ASSUME answers'[t] \in {answers[t], None}, disk' \in {disk, EmptyStore},
             written' # "failed", written # "failed"
      PROVE  ~ RunningIn(disk', answers'[t].about)
  BY <1>3 DEF AnswersStayTrue, RunningIn, EmptyStore
<1>4. QED
  BY <1>1, <1>2, <1>3, DiskStep

\* A cancel receipt that reports an exit, or that nothing was signalled, is true
\* when it is given and stays true through every later start, exit and restart.
THEOREM ReceiptsStayTrue == Spec => []AnswersStayTrue
<1>1. Init => AnswersFinal /\ AnswersStayTrue
  BY DEF Init, AnswersFinal, AnswersStayTrue
<1>2. ServiceInv /\ RecordInv /\ AnswersFinal /\ AnswersStayTrue /\ [Next]_vars
        => AnswersFinal' /\ AnswersStayTrue'
  BY FinalStep, AnswersStep
<1>3. QED
  BY <1>1, <1>2, ServiceInvariant, RecordsTrue, PTL DEF Spec

(***************************************************************************)
(* The stores of attempts: each is reconciled once, and neither its end nor *)
(* its notes are taken back.                                               *)
(***************************************************************************)

OnceIn(s) ==
    /\ {h.lease : h \in s.history} = {r.lease : r \in s.reconciles}
    /\ \A g, h \in s.history : g.lease = h.lease => g = h
    /\ \A r, q \in s.reconciles : r.lease = q.lease => r = q
    /\ s.current # None => \A h \in s.history : h.lease # s.current.lease

\* Store e does not go back on what store d says of its attempts: neither on the end of
\* one nor on the notes of one that it knows.
StandsBy(d, e) ==
    /\ \A l \in Leases :
         /\ d.current # None
         /\ d.current.lease = l
         /\ d.current.state # "running"
         => /\ ~ RunningIn(e, l)
            /\ \A h \in e.history : h.lease # l
    /\ \A a \in Known(d), b \in Known(e) : a.lease = b.lease => a.notes \subseteq b.notes

\* Store e is d with its current attempt edited, begun or moved to history: an
\* edit keeps the lease and the notes, and a running attempt is all it may end.
Edited(d, e) ==
    /\ d.current # None /\ e.current # None
    /\ e.history = d.history /\ e.reconciles = d.reconciles
    /\ e.current.lease = d.current.lease
    /\ d.current.notes \subseteq e.current.notes
    /\ d.current.state # "running" => e.current.state # "running"

Begun(d, e, l) ==
    /\ \A a \in Known(d) : a.lease # l
    /\ e.history = d.history /\ e.reconciles = d.reconciles
    /\ e.current # None /\ e.current.lease = l

Moved(d, e) ==
    /\ d.current # None /\ d.current.state = "running"
    /\ \E class \in {"unverified", "alive", "gone", "reused"} : e = Reconciled(d, class)

\* Memory may be many saves ahead of the file; it stands by what the file says.
OnceInv == OnceIn(mem) /\ OnceIn(disk) /\ (phase # "down" => StandsBy(disk, mem))

LEMMA OnceMoved ==
  ASSUME NEW d \in Store, NEW e, Moved(d, e), OnceIn(d)
  PROVE  OnceIn(e) /\ StandsBy(d, e)
<1> USE NoneAssumption
<1> DEFINE a == [d.current EXCEPT !.state = "interrupted"]
<1>1. PICK class \in {"unverified", "alive", "gone", "reused"} : e = Reconciled(d, class)
  BY DEF Moved
<1>2. /\ d.current # None /\ d.current.state = "running"
      /\ a.lease = d.current.lease /\ a.notes = d.current.notes
  BY DEF Moved, Store, Attempt
<1> DEFINE r == [lease |-> a.lease, class |-> class, signalled |-> class = "alive"]
<1>3. /\ e.current = None /\ e.history = d.history \cup {a}
      /\ e.reconciles = d.reconciles \cup {r} /\ r.lease = a.lease
  BY <1>1 DEF Reconciled
<1> HIDE DEF a, r
<1>4. \A h \in d.history : h.lease # a.lease
  BY <1>2 DEF OnceIn
<1>5. \A q \in d.reconciles : q.lease # a.lease
  BY <1>4 DEF OnceIn
<1>6. {h.lease : h \in e.history} = {q.lease : q \in e.reconciles}
  BY <1>3 DEF OnceIn
<1>7. \A g, h \in e.history : g.lease = h.lease => g = h
  BY <1>3, <1>4 DEF OnceIn
<1>8. \A p, q \in e.reconciles : p.lease = q.lease => p = q
  BY <1>3, <1>5 DEF OnceIn
<1>9. OnceIn(e)
  BY <1>3, <1>6, <1>7, <1>8 DEF OnceIn
<1>10. StandsBy(d, e)
  BY <1>2, <1>3, <1>4 DEF OnceIn, Known, RunningIn, StandsBy
<1>11. QED
  BY <1>9, <1>10

\* Every store stands by itself, and by the store that knows nothing.
LEMMA StandsSame ==
  ASSUME NEW s, OnceIn(s)
  PROVE  StandsBy(s, s)
BY DEF OnceIn, StandsBy, Known, RunningIn

LEMMA StandsEmpty ==
  ASSUME NEW s
  PROVE  StandsBy(EmptyStore, s) /\ StandsBy(s, EmptyStore) /\ OnceIn(EmptyStore)
BY NoneAssumption DEF EmptyStore, StandsBy, OnceIn, Known, RunningIn

\* Editing the current attempt, or beginning one that neither store knows, leaves a
\* store standing by what it stood by.
LEMMA StandsOn ==
  ASSUME NEW d, NEW m, NEW e, OnceIn(m), StandsBy(d, m),
         \/ Edited(m, e)
         \/ \E l \in Leases : Begun(m, e, l) /\ \A a \in Known(d) : a.lease # l
  PROVE  OnceIn(e) /\ StandsBy(d, e)
<1>1. CASE Edited(m, e)
  <2>1. OnceIn(e)
    BY <1>1 DEF Edited, OnceIn
  <2>2. \A b \in Known(e) : \E c \in Known(m) : c.lease = b.lease /\ c.notes \subseteq b.notes
    BY <1>1 DEF Edited, Known
  <2>3. \A a \in Known(d), b \in Known(e) : a.lease = b.lease => a.notes \subseteq b.notes
    BY <2>2 DEF StandsBy
  <2>4. QED
    BY <1>1, <2>1, <2>3 DEF Edited, StandsBy, RunningIn
<1>2. ASSUME NEW l \in Leases, Begun(m, e, l), \A a \in Known(d) : a.lease # l
      PROVE  OnceIn(e) /\ StandsBy(d, e)
  <2>1. OnceIn(e)
    BY <1>2 DEF Begun, OnceIn, Known
  <2>2. d.current # None => d.current.lease # l
    BY <1>2 DEF Known
  <2>3. \A a \in Known(d), b \in Known(e) : a.lease = b.lease => a.notes \subseteq b.notes
    BY <1>2 DEF Begun, Known, StandsBy
  <2>4. QED
    BY <1>2, <2>1, <2>2, <2>3 DEF Begun, StandsBy, RunningIn
<1>3. QED
  BY <1>1, <1>2

\* What each step makes of memory: a service that is up edits or begins its current
\* attempt; one that boots takes the file, or moves its orphan to history.
LEMMA MemoryStep ==
  ASSUME ServiceInv, RecordInv, [Next]_vars
  PROVE  \/ UNCHANGED mem /\ (phase' # "down" => phase # "down")
         \/ phase = "up" /\ phase' = "up" /\ Edited(mem, mem')
         \/ /\ phase = "up" /\ phase' = "up"
            /\ \E l \in Leases : /\ Begun(mem, mem', l)
                                 /\ \A a \in Known(disk) : a.lease # l
         \/ phase' = "down" /\ mem' = EmptyStore
         \/ phase = "down" /\ UNCHANGED disk /\ (mem' = disk \/ Moved(disk, mem'))
<1> USE NoneAssumption DEF procVars, clientVars
<1>0. TypeOK /\ LaunchInProgress /\ mem \in Store
  BY DEF ServiceInv, TypeOK
<1> DEFINE Still == UNCHANGED mem /\ (phase' # "down" => phase # "down")
           Edits == phase = "up" /\ phase' = "up" /\ Edited(mem, mem')
<1>1. ASSUME NEW a \in Attempt, mem.current # None, mem' = [mem EXCEPT !.current = a],
             a.lease = mem.current.lease, mem.current.notes \subseteq a.notes,
             mem.current.state # "running" => a.state # "running"
      PROVE  Edited(mem, mem')
  BY <1>0, <1>1 DEF Edited, Store
<1>2. ASSUME NEW l \in Leases, HelperStep(l) \/ ReadabilityHandler(l) PROVE Still
  BY <1>2 DEF HelperStep, HelperAnnounce, HelperExit, Reap, ReadabilityHandler
<1>3. ASSUME NEW f \in Foreigners, NEW p \in Pids,
             ForeignStart(f, p) \/ ForeignExit(f, p)
      PROVE  Still
  BY <1>3 DEF ForeignStart, ForeignExit
<1>4. ASSUME NEW l \in Leases, NEW p \in Pids, StartSpawn(l, p) PROVE Still
  BY <1>4 DEF StartSpawn
<1>5. ASSUME StartStamp \/ StartRefuse \/ StartReply PROVE Still
  BY <1>5 DEF StartStamp, StartRefuse, StartReply
<1>6. ASSUME StartRecord
      PROVE  /\ phase = "up" /\ phase' = "up"
             /\ \E l \in Leases : /\ Begun(mem, mem', l)
                                  /\ \A a \in Known(disk) : a.lease # l
  <2> DEFINE l == launch.lease
  <2>1. /\ l \in Leases /\ phase = "up" /\ phase' = "up"
        /\ mem' = [mem EXCEPT !.current = FreshAttempt(l)]
        /\ launch.step = "stamped"
    BY <1>0, <1>6 DEF StartRecord, LaunchInProgress
  <2>2. \A a \in Known(mem) \cup Known(disk) : a.lease # l
    BY <2>1 DEF RecordInv, StoreTrue, NotYetRecorded
  <2>3. FreshAttempt(l) \in Attempt /\ FreshAttempt(l).lease = l
    BY <2>1 DEF FreshAttempt, Attempt
  <2>4. Begun(mem, mem', l)
    BY <1>0, <2>1, <2>2, <2>3 DEF Begun, Store
  <2>5. QED
    BY <2>1, <2>2, <2>4
<1>7. ASSUME NEW l \in Leases, TerminationHandler(l) PROVE Still \/ Edits
  <2>1. CASE mem.current # None /\ mem.current.lease = l
    <3>1. /\ mem.current \in Attempt /\ phase = "up" /\ phase' = "up"
          /\ mem' = [mem EXCEPT !.current = Ended(mem.current)]
      BY <1>0, <1>7, <2>1 DEF Store, TerminationHandler, LockFree
    <3>2. /\ Ended(mem.current) \in Attempt
          /\ Ended(mem.current).lease = mem.current.lease
          /\ Ended(mem.current).notes = mem.current.notes
          /\ Ended(mem.current).state # "running"
      BY <3>1 DEF Ended, Attempt
    <3>3. QED
      BY <1>1, <2>1, <3>1, <3>2
  <2>2. CASE ~ (mem.current # None /\ mem.current.lease = l)
    BY <1>7, <2>2 DEF TerminationHandler
  <2>3. QED
    BY <2>1, <2>2
<1>8. ASSUME NEW t \in Threads, NEW l \in Leases, CancelMismatch(t, l) PROVE Edits
  <2> DEFINE a == [mem.current EXCEPT !.state = "interrupted"]
  <2>1. /\ mem.current \in Attempt /\ mem.current # None /\ phase = "up" /\ phase' = "up"
        /\ mem' = [mem EXCEPT !.current = a]
    BY <1>0, <1>8 DEF Store, CancelMismatch, Cancellable, RunningIn, LockFree
  <2>2. /\ a \in Attempt /\ a.lease = mem.current.lease
        /\ a.notes = mem.current.notes /\ a.state # "running"
    BY <2>1 DEF Attempt
  <2>3. QED
    BY <1>1, <2>1, <2>2
<1>9. ASSUME NEW t \in Threads, NEW l \in Leases, CancelSignal(t, l) PROVE Edits
  <2> DEFINE a == [mem.current EXCEPT !.cancelReq = TRUE]
  <2>1. /\ mem.current \in Attempt /\ mem.current # None /\ phase = "up" /\ phase' = "up"
        /\ mem' = [mem EXCEPT !.current = a]
    BY <1>0, <1>9 DEF Store, CancelSignal, Cancellable, RunningIn, LockFree
  <2>2. /\ a \in Attempt /\ a.lease = mem.current.lease
        /\ a.notes = mem.current.notes /\ a.state = mem.current.state
    BY <2>1 DEF Attempt
  <2>3. QED
    BY <1>1, <2>1, <2>2
<1>10. ASSUME NEW t \in Threads, CancelReply(t) PROVE Still
  BY <1>10 DEF CancelReply
<1>11. ASSUME NEW l \in Leases, NEW n \in Notes, AttemptWrite(l, n) PROVE Edits
  <2> DEFINE a == [mem.current EXCEPT !.notes = @ \cup {n}]
  <2>1. /\ mem.current \in Attempt /\ mem.current # None /\ phase = "up" /\ phase' = "up"
        /\ mem' = [mem EXCEPT !.current = a]
    BY <1>0, <1>11 DEF Store, AttemptWrite, RunningIn, LockFree
  <2>2. /\ a \in Attempt /\ a.lease = mem.current.lease
        /\ mem.current.notes \subseteq a.notes /\ a.state = mem.current.state
    BY <2>1 DEF Attempt
  <2>3. QED
    BY <1>1, <2>1, <2>2
<1>12. ASSUME OtherCommand \/ ReconcileSave PROVE Still
  BY <1>12 DEF OtherCommand, ReconcileSave
<1>13. ASSUME ServiceExit \/ TornExit PROVE phase' = "down" /\ mem' = EmptyStore
  BY <1>13 DEF ServiceExit, TornExit, ExitWith
<1>14. ASSUME ServiceStart \/ ServiceReconcile
       PROVE  phase = "down" /\ UNCHANGED disk /\ (mem' = disk \/ Moved(disk, mem'))
  <2>1. CASE ServiceStart
    BY <2>1 DEF ServiceStart
  <2>2. CASE ServiceReconcile
    BY <2>2, ClassifyType DEF ServiceReconcile, AnyRunningIn, RunningIn, Moved
  <2>3. QED
    BY <1>14, <2>1, <2>2
<1>15. ASSUME UNCHANGED vars PROVE Still
  BY <1>15 DEF vars
<1>16. QED
  BY <1>2, <1>3, <1>4, <1>5, <1>6, <1>7, <1>8, <1>9, <1>10, <1>11, <1>12, <1>13, <1>14,
     <1>15 DEF Next, StartStep, BootStep

LEMMA OnceInit == Init => OnceInv
<1> SUFFICES ASSUME Init PROVE OnceInv
  OBVIOUS
<1> USE NoneAssumption DEF Init, EmptyStore, OnceIn
<1>1. disk.history = {} /\ disk.reconciles = {}
  BY DEF CleanInit, LeftoverInit
<1>2. QED
  BY <1>1 DEF OnceInv

\* Memory stands by the file, and what a save makes of the file stands by it too.
LEMMA OnceStep ==
  ASSUME ServiceInv, RecordInv, OnceInv, [Next]_vars
  PROVE  OnceInv' /\ StandsBy(disk, disk')
<1>0. mem \in Store /\ disk \in Store /\ OnceIn(mem) /\ OnceIn(disk)
  BY DEF ServiceInv, TypeOK, OnceInv
<1>1. OnceIn(mem') /\ (phase' # "down" => StandsBy(disk, mem'))
  <2>1. CASE UNCHANGED mem /\ (phase' # "down" => phase # "down")
    BY <1>0, <2>1 DEF OnceInv
  <2>2. CASE \/ phase = "up" /\ phase' = "up" /\ Edited(mem, mem')
             \/ /\ phase = "up" /\ phase' = "up"
                /\ \E l \in Leases : /\ Begun(mem, mem', l)
                                     /\ \A a \in Known(disk) : a.lease # l
    BY <1>0, <2>2, StandsOn DEF OnceInv
  <2>3. CASE phase' = "down" /\ mem' = EmptyStore
    BY <2>3, StandsEmpty
  <2>4. CASE phase = "down" /\ UNCHANGED disk /\ (mem' = disk \/ Moved(disk, mem'))
    BY <1>0, <2>4, OnceMoved, StandsSame
  <2>5. QED
    BY <2>1, <2>2, <2>3, <2>4, MemoryStep
<1>2. (phase' = "up" /\ disk' = mem') \/ disk' \in {disk, EmptyStore}
  BY DiskStep DEF Persist
<1>3. OnceIn(disk') /\ (phase' # "down" => StandsBy(disk', mem'))
  BY <1>0, <1>1, <1>2, StandsSame, StandsEmpty
<1>4. StandsBy(disk, disk')
  <2>1. CASE disk' \in {disk, EmptyStore}
    BY <1>0, <2>1, StandsSame, StandsEmpty
  <2>2. CASE phase' = "up" /\ disk' = mem'
    BY <1>1, <2>2
  <2>3. QED
    BY <1>2, <2>1, <2>2
<1>5. QED
  BY <1>1, <1>3, <1>4 DEF OnceInv, OnceIn, StandsBy, Known, RunningIn

\* In the file and in memory alike every lease is in history at most once and the
\* reconciliations name the leases of history; and memory goes back on nothing the file
\* says, however many saves have failed (main.swift reconcile, load, persist).
THEOREM AttemptsOnce == Spec => []OnceInv
<1>1. ServiceInv /\ RecordInv /\ OnceInv /\ [Next]_vars => OnceInv'
  BY OnceStep
<1>2. QED
  BY <1>1, OnceInit, ServiceInvariant, RecordsTrue, PTL DEF Spec

\* The store is sound, whatever exits, cancels and restarts come: typed, in the file
\* whenever the lock is free and the last write did not fail, but for a cancel request
\* and the helper's last events, and no attempt is reconciled twice (main.swift persist,
\* load and reconcile).
THEOREM StoresSound == Spec => []StoreIsSound
<1>1. ServiceInv /\ OnceInv => StoreIsSound
  <2> SUFFICES ASSUME ServiceInv, OnceInv PROVE StoreIsSound
    OBVIOUS
  <2>1. TypeOK /\ VisibleIsDurable
    BY DEF ServiceInv, StoresAgree, VisibleIsDurable, LockFree
  <2>2. ReconciledOnce
    BY DEF OnceInv, OnceIn, ReconciledOnce
  <2>3. QED
    BY <2>1, <2>2 DEF StoreIsSound
<1>2. QED
  BY <1>1, ServiceInvariant, AttemptsOnce, PTL

\* No step goes back on what attempts.json says of an attempt: one that has ended is
\* never running again nor moved to history as an orphan, and a note is kept for as
\* long as the attempt is known (main.swift reconcile, cancel, the handler, persist).
THEOREM FileStands == Spec => AttemptsStand
<1>1. ServiceInv /\ RecordInv /\ OnceInv /\ [Next]_vars =>
        /\ [\A l \in Leases :
              /\ disk.current # None
              /\ disk.current.lease = l
              /\ disk.current.state # "running"
              => /\ ~ RunningIn(disk', l)
                 /\ \A h \in disk'.history : h.lease # l]_vars
        /\ [\A a \in Known(disk), b \in Known(disk') :
              a.lease = b.lease => a.notes \subseteq b.notes]_vars
  <2> SUFFICES ASSUME ServiceInv, RecordInv, OnceInv, [Next]_vars
               PROVE  StandsBy(disk, disk')
    BY DEF StandsBy
  <2>1. QED
    BY OnceStep
<1>2. QED
  BY <1>1, ServiceInvariant, RecordsTrue, AttemptsOnce, PTL
     DEF AttemptsStand, EndedStaysEnded, NotesKept, Spec

----------------------------------------------------------------------------
(* Services that follow each other.                                        *)

Live(s) == stage[s] # "none"

\* While services do not overlap the one that has loaded the file knows what it says,
\* unless a save of its attempt has failed, and only one that listens has handlers.
OneStore ==
    /\ \A s, t \in Services : Live(s) /\ Live(t) => s = t
    /\ \A s \in Services : stage[s] \notin {"none", "booting"} /\ inMemory[s].attempt \notin unsaved =>
          inMemory[s] = inFile
    /\ \A s \in Services : stage[s] # "listening" => watched[s] = {}

\* An attempt that runs in the file, or is still to be started, has no final state, and
\* one whose handler is to run has none from reconcile.
Unjudged ==
    /\ inFile.attempt <= started
    /\ \A s \in Services : inMemory[s].attempt <= started /\
          (inMemory[s].state = "running" => inMemory[s].attempt \in Attempts)
    /\ inFile.state = "running" =>
          inFile.attempt \in Attempts /\ (inFile.attempt \notin unsaved => verdicts[inFile.attempt] = {})
    /\ \A a \in Attempts : a > started => verdicts[a] = {}
    /\ \A s \in Services : \A a \in watched[s] \ unsaved : "interrupted" \notin verdicts[a]
    /\ \A a \in Attempts \ unsaved : "interrupted" \in verdicts[a] => verdicts[a] = {"interrupted"}

RelaunchInv == RelaunchTypeOK /\ (~ overlapped => OneStore /\ Unjudged)

LEMMA RelaunchTypes == RelaunchTypeOK /\ [RelaunchNext]_relaunchVars => RelaunchTypeOK'
<1> SUFFICES ASSUME RelaunchTypeOK, [RelaunchNext]_relaunchVars
             PROVE  RelaunchTypeOK'
  OBVIOUS
<1> USE BoundsAssumption DEF RelaunchTypeOK, Record, Attempts, Verdicts
<1>1. ASSUME NEW p \in Polls, NEW s \in Services, Launch(p, s)
      PROVE  RelaunchTypeOK'
  BY <1>1 DEF Launch, attempts, Stages
<1>2. ASSUME NEW p \in Polls, Ready(p) \/ GiveUp(p)
      PROVE  RelaunchTypeOK'
  BY <1>2 DEF Ready, GiveUp, services, attempts
<1>3. NoRecord \in Record
  BY DEF NoRecord
<1>4. ASSUME NEW r \in Record, Save(r)
      PROVE  inFile' \in Record /\ unsaved' \subseteq 0 .. MaxAttempts
  BY <1>3, <1>4 DEF Save
<1>5. ASSUME NEW s \in Services, Boot(s)
      PROVE  RelaunchTypeOK'
  <2>1. stage' \in [Services -> Stages] /\ UNCHANGED <<path, kills, task, started, watched, overlapped>>
    BY <1>5 DEF Boot, Advance, Stages
  <2>2. CASE inFile.state = "running"
    <3>1. Settled(inFile) \in Record
      BY DEF Settled
    <3>2. /\ inMemory' = [inMemory EXCEPT ![s] = Settled(inFile)] /\ helper' = helper \ {inFile.attempt}
          /\ verdicts' = [verdicts EXCEPT ![inFile.attempt] = @ \cup {"interrupted"}]
          /\ Save(inMemory'[s])
      BY <1>5, <2>2 DEF Boot, Interrupted
    <3>3. inMemory' \in [Services -> Record] /\ inMemory'[s] \in Record
      BY <3>1, <3>2
    <3>4. inFile' \in Record /\ unsaved' \subseteq 0 .. MaxAttempts
      BY <1>4, <3>2, <3>3
    <3>5. verdicts' \in [Attempts -> SUBSET Verdicts] /\ helper' \subseteq Attempts
      BY <3>2
    <3>6. QED
      BY <2>1, <3>3, <3>4, <3>5
  <2>3. CASE inFile.state # "running"
    <3>1. inMemory' = [inMemory EXCEPT ![s] = inFile] /\ UNCHANGED <<verdicts, helper, inFile, unsaved>>
      BY <1>5, <2>3 DEF Boot
    <3>2. QED
      BY <2>1, <3>1
  <2>4. QED
    BY <2>2, <2>3
<1>6. ASSUME NEW s \in Services, Unlink(s) \/ Bind(s) \/ Listen(s)
      PROVE  RelaunchTypeOK'
  BY <1>6 DEF Unlink, Unlinked, Bind, Listen, Advance, attempts, Stages
<1>7. ASSUME NEW s \in Services, StartAttempt(s)
      PROVE  RelaunchTypeOK'
  <2>1. started + 1 \in Attempts /\ started' = started + 1 /\ helper' = helper \cup {started + 1}
    BY <1>7 DEF StartAttempt
  <2>2. inMemory' \in [Services -> Record] /\ watched' \in [Services -> SUBSET Attempts]
    BY <1>7, <2>1 DEF StartAttempt
  <2>3. inFile' \in Record /\ unsaved' \subseteq 0 .. MaxAttempts
    BY <1>4, <1>7, <2>2 DEF StartAttempt
  <2>4. QED
    BY <1>7, <2>1, <2>2, <2>3 DEF StartAttempt, services
<1>8. ASSUME NEW s \in Services, NEW v \in Verdicts, Judge(s, v), watched' \in [Services -> SUBSET Attempts]
      PROVE  RelaunchTypeOK'
  <2>1. inMemory' \in [Services -> Record]
    BY <1>8 DEF Judge, Settled
  <2>2. inFile' \in Record /\ unsaved' \subseteq 0 .. MaxAttempts
    BY <1>4, <1>8, <2>1 DEF Judge
  <2>3. verdicts' \in [Attempts -> SUBSET Verdicts]
    BY <1>8 DEF Judge
  <2>4. QED
    BY <1>8, <2>1, <2>2, <2>3 DEF Judge, services
<1>9. ASSUME NEW s \in Services, CancelRefused(s)
      PROVE  RelaunchTypeOK'
  BY <1>8, <1>9 DEF CancelRefused
<1>10. ASSUME NEW s \in Services, NEW a \in Attempts, HandleExit(s, a)
      PROVE  RelaunchTypeOK'
  <2>1. watched' \in [Services -> SUBSET Attempts]
    BY <1>10 DEF HandleExit
  <2>2. CASE Judge(s, "completed")
    BY <1>8, <2>1, <2>2
  <2>3. CASE UNCHANGED <<services, task, inMemory, inFile, helper, started, verdicts, unsaved,
                         overlapped>>
    BY <1>10, <2>1, <2>3 DEF services, HandleExit, RelaunchTypeOK
  <2>4. QED
    BY <1>10, <2>2, <2>3 DEF HandleExit
<1>11. ASSUME NEW s \in Services, Kill(s) \/ Idle(s) \/ BindFails(s)
      PROVE  RelaunchTypeOK'
  <2>1. Ends(s) /\ (kills' = kills \/ (kills < MaxKills /\ kills' = kills + 1))
    BY <1>11 DEF Kill, Idle, BindFails
  <2>2. kills' \in 0 .. MaxKills
    BY <2>1
  <2>3. QED
    BY <1>3, <2>1, <2>2 DEF Ends, Stages
<1>12. ASSUME NEW a \in Attempts, HelperEnds(a)
      PROVE  RelaunchTypeOK'
  BY <1>12 DEF HelperEnds, services
<1>13. CASE UNCHANGED relaunchVars
  BY <1>13 DEF relaunchVars, services, attempts
<1>14. QED
  BY <1>1, <1>2, <1>5, <1>6, <1>7, <1>9, <1>10, <1>11, <1>12, <1>13 DEF RelaunchNext, ComesUp

LEMMA RelaunchStep == RelaunchInv /\ [RelaunchNext]_relaunchVars => RelaunchInv'
<1> SUFFICES ASSUME RelaunchInv, [RelaunchNext]_relaunchVars, ~ overlapped'
             PROVE  OneStore' /\ Unjudged'
  BY RelaunchTypes DEF RelaunchInv
<1>1. RelaunchTypeOK /\ RelaunchTypeOK' /\ (~ overlapped => OneStore /\ Unjudged)
  BY RelaunchTypes DEF RelaunchInv
<1> USE BoundsAssumption DEF RelaunchTypeOK, Record, OneStore, Live
<1>2. ASSUME NEW p \in Polls, NEW s \in Services, Launch(p, s)
      PROVE  OneStore' /\ Unjudged'
  <2>1. ~ overlapped /\ \A q \in Services : stage[q] = "none"
    BY <1>2 DEF Launch
  <2>2. OneStore /\ Unjudged /\ stage' = [stage EXCEPT ![s] = "booting"]
        /\ UNCHANGED <<inMemory, inFile, started, watched, verdicts, unsaved>>
    BY <1>1, <1>2, <2>1 DEF Launch, attempts
  <2>3. OneStore'
    BY <1>1, <2>1, <2>2
  <2>4. QED
    BY <2>2, <2>3 DEF Unjudged
<1>3. ~ overlapped \/ \E p \in Polls, s \in Services : Launch(p, s)
  BY DEF RelaunchNext, Ready, GiveUp, ComesUp, Boot, Unlink, Bind, BindFails, Listen, StartAttempt,
         CancelRefused, HandleExit, Judge, Kill, Idle, Ends, HelperEnds, relaunchVars
<1>4. CASE ~ overlapped
  <2>1. OneStore /\ Unjudged
    BY <1>1, <1>4
  <2>2. ASSUME NEW s \in Services, Boot(s)
        PROVE  OneStore' /\ Unjudged'
    <3>1. stage[s] = "booting" /\ stage' = [stage EXCEPT ![s] = "loaded"]
          /\ started' = started /\ watched' = watched
      BY <2>2 DEF Boot, Advance
    <3>2. \A t \in Services : watched[t] = {}
      BY <2>1, <3>1
    <3>3. CASE inFile.state = "running"
      <4> DEFINE n == inFile.attempt  r == Settled(inFile)
      <4>1. inMemory' = [inMemory EXCEPT ![s] = r] /\ verdicts' = Interrupted(n) /\ Save(r)
        BY <1>1, <2>2, <3>3 DEF Boot
      <4>2. r \in Record /\ r.state = "ended" /\ r.attempt = n /\ n \in Attempts /\ n <= started
        BY <1>1, <2>1, <3>3 DEF Settled, Unjudged
      <4> HIDE DEF r
      <4>3. \A a \in Attempts : verdicts'[a] = IF a = n THEN verdicts[a] \cup {"interrupted"} ELSE verdicts[a]
        BY <1>1, <4>1 DEF Interrupted
      <4>4. /\ unsaved \subseteq unsaved'
            /\ \/ inFile' = r
               \/ n \in unsaved' /\ (inFile' = inFile \/ inFile' = NoRecord)
        BY <4>1, <4>2 DEF Save
      <4>5. OneStore'
        BY <1>1, <2>1, <3>1, <3>2, <4>1, <4>2, <4>4
      <4>6. inFile'.attempt <= started' /\ (inFile'.state = "running" => inFile'.attempt = n /\ n \in unsaved')
        BY <1>1, <3>1, <4>2, <4>4 DEF NoRecord
      <4>7. \A a \in Attempts : a > started' => verdicts'[a] = {}
        BY <1>1, <2>1, <3>1, <4>2, <4>3 DEF Unjudged, Attempts
      <4>8. n \notin unsaved => verdicts[n] = {}
        BY <2>1, <3>3 DEF Unjudged
      <4>9. \A a \in Attempts \ unsaved' : "interrupted" \in verdicts'[a] => verdicts'[a] = {"interrupted"}
        BY <2>1, <4>3, <4>4, <4>8 DEF Unjudged
      <4>10. \A t \in Services : inMemory'[t].attempt <= started /\
               (inMemory'[t].state = "running" => inMemory'[t].attempt \in Attempts)
        BY <1>1, <2>1, <4>1, <4>2 DEF Unjudged
      <4>11. QED
        BY <3>1, <3>2, <4>2, <4>5, <4>6, <4>7, <4>9, <4>10 DEF Unjudged
    <3>4. CASE inFile.state # "running"
      <4>1. inMemory' = [inMemory EXCEPT ![s] = inFile] /\ UNCHANGED <<inFile, verdicts, unsaved>>
        BY <2>2, <3>4 DEF Boot
      <4>2. OneStore'
        BY <1>1, <2>1, <3>1, <3>2, <4>1
      <4>3. QED
        BY <1>1, <2>1, <3>1, <3>4, <4>1, <4>2 DEF Unjudged
    <3>5. QED
      BY <3>3, <3>4
  <2>3. ASSUME NEW s \in Services, StartAttempt(s)
        PROVE  OneStore' /\ Unjudged'
    <3> DEFINE n == started + 1  r == [attempt |-> n, state |-> "running"]
    <3>1. stage[s] = "listening" /\ stage' = stage /\ inMemory' = [inMemory EXCEPT ![s] = r]
          /\ watched' = [watched EXCEPT ![s] = @ \cup {n}] /\ verdicts' = verdicts
          /\ started' = n /\ started < MaxAttempts /\ Save(r)
      BY <1>1, <2>3 DEF StartAttempt, Serves, services
    <3>2. n \in Attempts /\ started \in Nat /\ n > started
      BY <1>1, <3>1 DEF Attempts
    <3>3. r.attempt = n /\ r.state = "running"
      OBVIOUS
    <3>4. verdicts[n] = {} /\ inFile.attempt < n
      BY <1>1, <2>1, <3>2 DEF Unjudged
    <3> HIDE DEF r, n
    <3>5. /\ unsaved \subseteq unsaved'
          /\ \/ inFile' = r
             \/ n \in unsaved' /\ (inFile' = inFile \/ inFile' = NoRecord)
      BY <3>1, <3>3 DEF Save
    <3>6. OneStore'
      BY <1>1, <2>1, <3>1, <3>3, <3>5
    <3>7. inFile'.attempt <= started'
      BY <1>1, <3>1, <3>2, <3>3, <3>4, <3>5 DEF NoRecord
    <3>8. inFile'.state = "running" =>
             inFile'.attempt \in Attempts /\ (inFile'.attempt \notin unsaved' => verdicts[inFile'.attempt] = {})
      <4>1. CASE inFile' = r
        BY <2>1, <3>2, <3>3, <3>4, <4>1
      <4>2. CASE n \in unsaved' /\ inFile' = inFile
        BY <2>1, <3>1, <3>5, <4>2 DEF Unjudged
      <4>3. CASE n \in unsaved' /\ inFile' = NoRecord
        BY <4>3 DEF NoRecord
      <4>4. QED
        BY <3>5, <4>1, <4>2, <4>3
    <3>9. \A a \in Attempts : a > started' => verdicts[a] = {}
      <4>1. \A a \in Attempts : a > n => a > started
        BY <3>2 DEF n, Attempts
      <4>2. QED
        BY <2>1, <3>1, <4>1 DEF Unjudged
    <3>10. \A t \in Services : \A a \in watched'[t] \ unsaved' : "interrupted" \notin verdicts[a]
      BY <1>1, <2>1, <3>1, <3>4, <3>5 DEF Unjudged
    <3>11. \A a \in Attempts \ unsaved' : "interrupted" \in verdicts[a] => verdicts[a] = {"interrupted"}
      BY <2>1, <3>5 DEF Unjudged
    <3>12. \A t \in Services : inMemory'[t].attempt <= started' /\
             (inMemory'[t].state = "running" => inMemory'[t].attempt \in Attempts)
      BY <1>1, <2>1, <3>1, <3>2, <3>3 DEF Unjudged
    <3>13. QED
      BY <3>1, <3>6, <3>7, <3>8, <3>9, <3>10, <3>11, <3>12 DEF Unjudged
  <2>4. ASSUME NEW s \in Services, NEW v \in {"completed", "refused"}, Judge(s, v),
               watched' \in [Services -> SUBSET Attempts],
               \A t \in Services : watched'[t] \subseteq watched[t],
               inMemory[s].attempt \in Attempts,
               inMemory[s].attempt \notin unsaved => "interrupted" \notin verdicts[inMemory[s].attempt]
        PROVE  OneStore' /\ Unjudged'
    <3> DEFINE n == inMemory[s].attempt  r == Settled(inMemory[s])
    <3>1. stage[s] = "listening" /\ stage' = stage /\ inMemory' = [inMemory EXCEPT ![s] = r]
          /\ Save(r) /\ started' = started
          /\ verdicts' = [verdicts EXCEPT ![n] = @ \cup {v}]
      BY <1>1, <2>4 DEF Judge, services
    <3>2. r \in Record /\ r.attempt = n /\ r.state = "ended"
      BY <1>1 DEF Settled
    <3> HIDE DEF r
    <3>3. /\ unsaved \subseteq unsaved'
          /\ \/ inFile' = r /\ unsaved' = unsaved
             \/ n \in unsaved' /\ (inFile' = inFile \/ inFile' = NoRecord)
      BY <3>1, <3>2 DEF Save
    <3>4. OneStore'
      BY <1>1, <2>1, <2>4, <3>1, <3>2, <3>3
    <3>5. \A a \in Attempts : verdicts'[a] = IF a = n THEN verdicts[a] \cup {v} ELSE verdicts[a]
      BY <1>1, <3>1
    <3>6. n \in Attempts /\ (n \notin unsaved => "interrupted" \notin verdicts[n])
      BY <2>4
    <3>7. n <= started
      BY <2>1 DEF Unjudged
    <3>8. inFile'.attempt <= started'
      BY <1>1, <2>1, <3>1, <3>2, <3>3, <3>7 DEF Unjudged, NoRecord
    <3>9. inFile'.state = "running" =>
             inFile'.attempt \in Attempts /\ (inFile'.attempt \notin unsaved' => verdicts'[inFile'.attempt] = {})
      <4>1. CASE inFile' = r \/ inFile' = NoRecord
        BY <3>2, <4>1 DEF NoRecord
      <4>2. CASE inFile' = inFile /\ n \in unsaved'
        <5>1. inFile.state = "running" => inFile.attempt \in Attempts
                 /\ (inFile.attempt \notin unsaved => verdicts[inFile.attempt] = {})
          BY <2>1 DEF Unjudged
        <5>2. QED
          BY <3>3, <3>5, <4>2, <5>1
      <4>3. QED
        BY <3>3, <4>1, <4>2
    <3>10. \A a \in Attempts : a > started' => verdicts'[a] = {}
      BY <1>1, <2>1, <3>1, <3>5, <3>6, <3>7 DEF Unjudged, Attempts
    <3>11. \A a \in Attempts : "interrupted" \in verdicts'[a] <=> "interrupted" \in verdicts[a]
      <4>1. v # "interrupted"
        OBVIOUS
      <4>2. QED
        BY <3>5, <4>1
    <3>12. \A t \in Services : \A a \in watched'[t] \ unsaved' : "interrupted" \notin verdicts'[a]
      <4>1. \A t \in Services : \A a \in watched[t] \ unsaved : "interrupted" \notin verdicts[a]
        BY <2>1 DEF Unjudged
      <4>2. \A t \in Services : watched[t] \subseteq Attempts /\ watched'[t] \subseteq watched[t]
        BY <1>1, <2>4
      <4>3. QED
        BY <3>3, <3>11, <4>1, <4>2
    <3>13. \A a \in Attempts \ unsaved' : "interrupted" \in verdicts'[a] => verdicts'[a] = {"interrupted"}
      <4>1. \A a \in Attempts \ unsaved : "interrupted" \in verdicts[a] => verdicts[a] = {"interrupted"}
        BY <2>1 DEF Unjudged
      <4>2. QED
        BY <3>3, <3>5, <3>6, <3>11, <4>1
    <3>14. \A t \in Services : inMemory'[t].attempt <= started /\
             (inMemory'[t].state = "running" => inMemory'[t].attempt \in Attempts)
      BY <1>1, <2>1, <3>1, <3>2, <3>7 DEF Unjudged
    <3>15. QED
      BY <3>1, <3>4, <3>8, <3>9, <3>10, <3>12, <3>13, <3>14 DEF Unjudged
  <2>5. ASSUME NEW s \in Services, CancelRefused(s)
        PROVE  OneStore' /\ Unjudged'
    <3>1. /\ Judge(s, "refused") /\ watched' = watched
          /\ inMemory[s].state = "running" /\ stage[s] = "listening"
      BY <2>5 DEF CancelRefused, Judge
    <3>2. inMemory[s].attempt \in Attempts
      BY <2>1, <3>1 DEF Unjudged
    <3>3. inMemory[s].attempt \notin unsaved => verdicts[inMemory[s].attempt] = {}
      BY <2>1, <3>1 DEF Unjudged
    <3>4. QED
      BY <1>1, <2>4, <3>1, <3>2, <3>3
  <2>6. ASSUME NEW s \in Services, NEW a \in Attempts, HandleExit(s, a)
        PROVE  OneStore' /\ Unjudged'
    <3>1. a \in watched[s] /\ watched' = [watched EXCEPT ![s] = @ \ {a}]
      BY <2>6 DEF HandleExit
    <3>2. watched' \in [Services -> SUBSET Attempts] /\ \A t \in Services : watched'[t] \subseteq watched[t]
      BY <1>1, <3>1
    <3>3. CASE inMemory[s].attempt = a /\ Judge(s, "completed")
      BY <2>1, <2>4, <3>1, <3>2, <3>3 DEF Unjudged
    <3>4. CASE UNCHANGED <<stage, inMemory, inFile, started, verdicts, unsaved>>
      <4>1. OneStore'
        BY <2>1, <3>2, <3>4
      <4>2. QED
        BY <2>1, <3>2, <3>4, <4>1 DEF Unjudged
    <3>5. QED
      BY <2>6, <3>3, <3>4 DEF HandleExit, services
  <2>7. ASSUME NEW s \in Services,
               Unlink(s) \/ Bind(s) \/ BindFails(s) \/ Listen(s) \/ Kill(s) \/ Idle(s)
        PROVE  OneStore' /\ Unjudged'
    <3>1. UNCHANGED <<inFile, started, verdicts, unsaved>>
      BY <2>7 DEF Unlink, Bind, BindFails, Listen, Kill, Idle, Ends, attempts
    <3>2. CASE Ends(s)
      <4>1. /\ stage' = [stage EXCEPT ![s] = "none"] /\ inMemory' = [inMemory EXCEPT ![s] = NoRecord]
            /\ watched' = [watched EXCEPT ![s] = {}]
        BY <3>2 DEF Ends
      <4>2. OneStore'
        BY <1>1, <2>1, <3>1, <4>1
      <4>3. \A t \in Services : inMemory'[t].attempt <= started /\
               (inMemory'[t].state = "running" => inMemory'[t].attempt \in Attempts)
        BY <1>1, <2>1, <4>1 DEF Unjudged, NoRecord
      <4>4. \A t \in Services : watched'[t] \subseteq watched[t]
        BY <1>1, <4>1
      <4>5. QED
        BY <2>1, <3>1, <4>2, <4>3, <4>4 DEF Unjudged
    <3>3. CASE Unlink(s) \/ Bind(s) \/ Listen(s)
      <4>1. inMemory' = inMemory /\ watched' = watched
        BY <3>3 DEF Unlink, Bind, Listen, attempts
      <4>2. stage[s] \notin {"none", "booting", "listening"}
            /\ \E to \in Stages : stage' = [stage EXCEPT ![s] = to]
        BY <3>3 DEF Unlink, Bind, Listen, Advance, Stages
      <4>3. \A t \in Services \ {s} : stage'[t] = stage[t]
        BY <1>1, <4>2
      <4>4. OneStore'
        BY <2>1, <3>1, <4>1, <4>2, <4>3
      <4>5. QED
        BY <2>1, <3>1, <4>1, <4>4 DEF Unjudged
    <3>4. QED
      BY <2>7, <3>2, <3>3 DEF BindFails, Kill, Idle
  <2>8. CASE UNCHANGED <<stage, inMemory, inFile, started, watched, verdicts, unsaved>>
    BY <2>1, <2>8 DEF Unjudged
  <2>9. QED
    BY <1>2, <2>2, <2>3, <2>5, <2>6, <2>7, <2>8
       DEF RelaunchNext, ComesUp, Ready, GiveUp, HelperEnds, services, attempts, relaunchVars
<1>5. QED
  BY <1>2, <1>3, <1>4

\* Where no service is launched while another is there and the saves of an attempt do not
\* fail, its final states come from one service: what reconcile says stands alone, at
\* whatever stage services are killed and whatever socket they find, and only the
\* termination handler takes back what a cancel has said (ProofApp ensureService,
\* main.swift reconcile, cancel and the termination handler).
THEOREM VerdictsAreFinal == RelaunchSpec => []OneVerdict
<1>1. RelaunchInit => RelaunchInv
  <2> SUFFICES ASSUME RelaunchInit
               PROVE  RelaunchTypeOK /\ OneStore /\ Unjudged
    BY DEF RelaunchInv
  <2>1. RelaunchTypeOK
    <3>1. NoRecord \in Record
      BY BoundsAssumption DEF NoRecord, Record
    <3>2. /\ stage \in [Services -> Stages] /\ path \in Services \cup {NoOne}
          /\ task \in [Polls -> {"idle", "waiting"}] /\ helper \subseteq Attempts
          /\ verdicts \in [Attempts -> SUBSET Verdicts] /\ unsaved \subseteq 0 .. MaxAttempts
          /\ watched \in [Services -> SUBSET Attempts]
      BY DEF RelaunchInit, Stages
    <3>3. inMemory \in [Services -> Record] /\ inFile \in Record
      BY <3>1 DEF RelaunchInit
    <3>4. started \in 0 .. MaxAttempts /\ kills \in 0 .. MaxKills
      <4>1. started = 0 /\ kills = 0
        BY DEF RelaunchInit
      <4>2. QED
        BY <4>1, BoundsAssumption
    <3>5. overlapped \in BOOLEAN
      BY DEF RelaunchInit
    <3>6. QED
      BY <3>2, <3>3, <3>4, <3>5 DEF RelaunchTypeOK
  <2>2. OneStore
    BY DEF RelaunchInit, OneStore, Live
  <2>3. Unjudged
    BY DEF RelaunchInit, Unjudged, NoRecord
  <2>4. QED
    BY <2>1, <2>2, <2>3
<1>2. RelaunchInv => OneVerdict
  BY DEF RelaunchInv, OneVerdict, Unjudged
<1>3. QED
  BY <1>1, <1>2, RelaunchStep, PTL DEF RelaunchSpec
=============================================================================
