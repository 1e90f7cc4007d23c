------------------------------ MODULE RenderAttempts ------------------------------
(***************************************************************************)
(* comparisons/hyperframes/adapter.mjs with the attempt functions of       *)
(* comparisons/common/index.mjs: one HyperframesAdapter whose caller       *)
(* starts, cancels and restarts attempts.  restart aborts the attempt it   *)
(* replaces and starts the next one without waiting for it, so calls of    *)
(* start overlap; each has an attempt root, and its id is the root's name. *)
(*                                                                         *)
(* Abstracted: the snapshot, the media manifest, the storage and the       *)
(* renderer are the choice whether they fail; a file's bytes are the call  *)
(* that wrote them and whether it had finished; a root is not replaced.    *)
(***************************************************************************)
EXTENDS Naturals

CONSTANTS
    Calls,      \* the calls of start
    Roots, Ids,
    IdOf,       \* [Roots -> Ids]: basename(attemptRoot)
    None

ASSUME NamesAssumption ==
    /\ IdOf \in [Roots -> Ids]
    /\ None \notin Calls \cup Roots \cup Ids \cup {"completed", "failed", "interrupted"}

VARIABLES
    at,          \* [Calls -> the stage]
    root,        \* [Calls -> None or a root]: attemptRoot
    project,     \* [Roots -> None or the call whose links are in project/media]
    output,      \* [Roots -> None or [by, whole]]: output/M.mp4
    receipt,     \* [Roots -> None or [by, status]]: receipt.json
    controllers, \* [Ids -> None or a call]: this.controllers
    aborted,     \* [Calls -> BOOLEAN]: controller.signal.aborted
    complete,    \* [Calls -> BOOLEAN]: job.status is complete
    hashed,      \* [Calls -> None or an output]: outputReceipt
    verdict,     \* [Calls -> None or the status of the last finishAttempt]
    settled,     \* [Calls -> "pending", "resolved" or "rejected"]: the promise
    replaces,    \* [Calls -> None or previousAttemptId]: how the call was made
    sampling,    \* the calls whose interval is set, or has a last walk under way
    up           \* the process runs

vars == <<at, root, project, output, receipt, controllers, aborted, complete, hashed,
          verdict, settled, replaces, sampling, up>>

Stages == {"idle", "prepare", "lock", "register", "render", "finish", "cleanup",
           "receipt", "catch-finish", "catch-cleanup", "catch-receipt", "settled"}
Outputs == [by : Calls, whole : BOOLEAN]
Statuses == {"completed", "failed", "interrupted"}

Id(c) == IdOf[root[c]]

Init ==
    /\ at = [c \in Calls |-> "idle"]
    /\ root = [c \in Calls |-> None]
    /\ project = [r \in Roots |-> None]
    /\ output = [r \in Roots |-> None]
    /\ receipt = [r \in Roots |-> None]
    /\ controllers = [i \in Ids |-> None]
    /\ aborted = [c \in Calls |-> FALSE]
    /\ complete = [c \in Calls |-> FALSE]
    /\ hashed = [c \in Calls |-> None]
    /\ verdict = [c \in Calls |-> None]
    /\ settled = [c \in Calls |-> "pending"]
    /\ replaces = [c \in Calls |-> None]
    /\ sampling = {} /\ up = TRUE

Goto(c, stage) ==
    at' = [at EXCEPT ![c] = stage] /\ UNCHANGED <<settled, controllers, sampling>>

\* A rejection outside the try: the finally block does not run.
Reject(c) ==
    /\ at' = [at EXCEPT ![c] = "settled"]
    /\ settled' = [settled EXCEPT ![c] = "rejected"]

\* The finally block clears the interval, but a callback that has begun goes on; and
\* it removes whatever controller has the id.
Finally(c, how) ==
    /\ sampling' \in {sampling, sampling \ {c}}
    /\ at' = [at EXCEPT ![c] = "settled"]
    /\ settled' = [settled EXCEPT ![c] = how]
    /\ controllers' = [controllers EXCEPT ![Id(c)] = None]

----------------------------------------------------------------------------------
(* The caller.                                                                *)

\* Mutant: a restart may keep the attempt ID.
MutAnyRoot(r, previous) == TRUE

\* restart wants another id than the attempt's before it.
NewID(r, previous) == IdOf[r] # previous

Begin(c, r) ==
    /\ at[c] = "idle"
    /\ Goto(c, "prepare")
    /\ root' = [root EXCEPT ![c] = r]

Start(c, r) ==
    /\ Begin(c, r)
    /\ UNCHANGED <<project, output, receipt, aborted, complete, hashed, verdict, replaces>>

Restart(c, r, previous) ==
    /\ NewID(r, previous)
    /\ Begin(c, r)
    /\ replaces' = [replaces EXCEPT ![c] = previous]
    /\ aborted' = IF controllers[previous] = None THEN aborted
                  ELSE [aborted EXCEPT ![controllers[previous]] = TRUE]
    /\ UNCHANGED <<project, output, receipt, complete, hashed, verdict>>

Cancel(id) ==
    /\ controllers[id] # None
    /\ aborted' = [aborted EXCEPT ![controllers[id]] = TRUE]
    /\ UNCHANGED <<root, at, project, output, receipt, controllers, complete, hashed,
                   verdict, settled, replaces, sampling>>

----------------------------------------------------------------------------------
(* start before its try block.                                                *)

\* The snapshot, the media manifest, the directories and the storage.
Prepare(c) ==
    /\ at[c] = "prepare"
    /\ \/ Goto(c, "lock")
       \/ Reject(c) /\ UNCHANGED <<controllers, sampling>>
    /\ UNCHANGED <<root, project, output, receipt, aborted, complete, hashed, verdict, replaces>>

Unlocked(c) == project[root[c]] = None

WriteProject(c) ==
    /\ at[c] = "lock"
    /\ \/ Unlocked(c) /\ project' = [project EXCEPT ![root[c]] = c] /\ Goto(c, "register")
       \/ Unlocked(c) /\ project' = [project EXCEPT ![root[c]] = c]
          /\ Reject(c) /\ UNCHANGED <<controllers, sampling>>
       \/ UNCHANGED project /\ Reject(c) /\ UNCHANGED <<controllers, sampling>>
    /\ UNCHANGED <<root, output, receipt, aborted, complete, hashed, verdict, replaces>>

\* The producer is imported, and then without an await the controller is registered,
\* the interval set and the job created, which may throw: then the controller stays in
\* the map and the interval is never cleared.
Register(c) ==
    /\ at[c] = "register"
    /\ \/ Reject(c) /\ UNCHANGED <<controllers, sampling>>
       \/ /\ \/ Reject(c)
             \/ at' = [at EXCEPT ![c] = "render"] /\ UNCHANGED settled
          /\ controllers' = [controllers EXCEPT ![Id(c)] = c]
          /\ sampling' = sampling \cup {c}
    /\ UNCHANGED <<root, project, output, receipt, aborted, complete, hashed, verdict, replaces>>

----------------------------------------------------------------------------------
(* The try block and its catch.                                               *)

Writes(c, whole) == output' = [output EXCEPT ![root[c]] = [by |-> c, whole |-> whole]]

RenderGoesOn(c) ==
    /\ at[c] = "render"
    /\ Writes(c, FALSE)
    /\ UNCHANGED <<root, at, project, receipt, controllers, aborted, complete, hashed,
                   verdict, settled, replaces, sampling>>

\* The job is complete and its output whole, or it only returned.
RenderReturns(c) ==
    /\ at[c] = "render"
    /\ \/ Writes(c, TRUE) /\ complete' = [complete EXCEPT ![c] = TRUE]
       \/ UNCHANGED <<output, complete>>
    /\ Goto(c, "finish")
    /\ UNCHANGED <<root, project, receipt, aborted, hashed, verdict, replaces>>

RenderThrows(c) ==
    /\ at[c] = "render"
    /\ Goto(c, "catch-finish")
    /\ UNCHANGED <<root, project, output, receipt, aborted, complete, hashed, verdict, replaces>>

\* Mutant: the render is not given the signal.
MutNoSignal(c) == FALSE

\* The renderer heeds the signal it was given.
Heeds(c) == aborted[c]

RenderAborts(c) == Heeds(c) /\ RenderThrows(c)

\* finishAttempt: the inventory, and for a completed attempt the hash of its output.
Finished(c, status) ==
    /\ verdict' = [verdict EXCEPT ![c] = status]
    /\ hashed' = [hashed EXCEPT ![c] = IF status = "completed" THEN output[root[c]] ELSE None]

Finish(c) ==
    /\ at[c] = "finish"
    /\ \/ /\ complete[c] => output[root[c]] # None
          /\ Finished(c, IF complete[c] THEN "completed" ELSE "failed")
          /\ Goto(c, "cleanup")
       \/ Goto(c, "catch-finish") /\ UNCHANGED <<verdict, hashed>>
    /\ UNCHANGED <<root, project, output, receipt, aborted, complete, replaces>>

\* Mutant: an error keeps the verdict there is.
MutKeepsVerdict(c) == IF verdict[c] = None THEN "failed" ELSE verdict[c]

\* The catch finishes the attempt again: the verdict of the try does not stand.
Caught(c) == IF aborted[c] THEN "interrupted" ELSE "failed"

CatchFinish(c) ==
    /\ at[c] = "catch-finish"
    /\ \/ Finished(c, Caught(c)) /\ Goto(c, "catch-cleanup")
       \/ Finally(c, "rejected") /\ UNCHANGED <<verdict, hashed>>
    /\ UNCHANGED <<root, project, output, receipt, aborted, complete, replaces>>

\* cleanupAttemptScratch removes the paths project and work, whoever wrote them; it
\* may fail before it, or after a part of it.
Cleanup(c) ==
    /\ at[c] \in {"cleanup", "catch-cleanup"}
    /\ project' \in {project, [project EXCEPT ![root[c]] = None]}
    /\ \/ /\ project'[root[c]] = None
          /\ Goto(c, IF at[c] = "cleanup" THEN "receipt" ELSE "catch-receipt")
       \/ IF at[c] = "cleanup" THEN Goto(c, "catch-finish") ELSE Finally(c, "rejected")
    /\ UNCHANGED <<root, output, receipt, aborted, complete, hashed, verdict, replaces>>

\* A file that could not be written whole is no receipt.
WriteReceipt(c) ==
    /\ at[c] \in {"receipt", "catch-receipt"}
    /\ \/ /\ receipt' = [receipt EXCEPT ![root[c]] = [by |-> c, status |-> verdict[c]]]
          /\ Finally(c, "resolved")
       \/ /\ receipt' \in {receipt, [receipt EXCEPT ![root[c]] = None]}
          /\ IF at[c] = "receipt" THEN Goto(c, "catch-finish") ELSE Finally(c, "rejected")
    /\ UNCHANGED <<root, project, output, aborted, complete, hashed, verdict, replaces>>

Terminal(c) == Finish(c) \/ CatchFinish(c) \/ Cleanup(c) \/ WriteReceipt(c)

\* The interval's callback is an async function whose rejection nobody handles, and that
\* ends Node: it walks the root while files are removed from it, by the renderer or by a
\* cleanup, and reads started, which is never set when createRenderJob threw.
SamplerThrows(c) ==
    /\ up /\ c \in sampling
    /\ up' = FALSE
    /\ UNCHANGED <<at, root, project, output, receipt, controllers, aborted, complete, hashed,
                   verdict, settled, replaces, sampling>>

\* Everything but that happens in a process that runs on.
RunsOn == up /\ up' = up

Next ==
    \/ RunsOn /\ \E c \in Calls :
        \/ \E r \in Roots : Start(c, r) \/ \E previous \in Ids : Restart(c, r, previous)
        \/ Prepare(c) \/ WriteProject(c) \/ Register(c)
        \/ RenderGoesOn(c) \/ RenderReturns(c) \/ RenderThrows(c)
        \/ Terminal(c)
    \/ RunsOn /\ \E id \in Ids : Cancel(id)
    \/ \E c \in Calls : SamplerThrows(c)

Spec == Init /\ [][Next]_vars

\* File operations return, and a renderer that was aborted stops.
FairSpec ==
    /\ Spec
    /\ \A c \in Calls : WF_vars(RunsOn /\ RenderAborts(c)) /\ WF_vars(RunsOn /\ Terminal(c))

----------------------------------------------------------------------------------
(* Properties *)

TypeOK ==
    /\ at \in [Calls -> Stages]
    /\ root \in [Calls -> Roots \cup {None}]
    /\ \A c \in Calls : at[c] # "idle" => root[c] \in Roots
    /\ project \in [Roots -> Calls \cup {None}]
    /\ output \in [Roots -> Outputs \cup {None}]
    /\ receipt \in [Roots -> [by : Calls, status : Statuses] \cup {None}]
    /\ controllers \in [Ids -> Calls \cup {None}]
    /\ aborted \in [Calls -> BOOLEAN] /\ complete \in [Calls -> BOOLEAN]
    /\ hashed \in [Calls -> Outputs \cup {None}]
    /\ verdict \in [Calls -> Statuses \cup {None}]
    /\ settled \in [Calls -> {"pending", "resolved", "rejected"}]
    /\ replaces \in [Calls -> Ids \cup {None}]
    /\ sampling \in SUBSET Calls /\ up \in BOOLEAN

\* One call has been finished in the root of this one and another is made in it: the
\* first, whose receipt could not be written, may clean up again under this one and so
\* let the other in.
Crowded(c) ==
    \E d, e \in Calls \ {c} :
        d # e /\ root[d] = root[c] /\ verdict[d] # None /\ root[e] = root[c]

\* "A renderer attempt can complete only after the output file is inventoried and
\* hashed" (comparisons/README.md:36): the hash of a completed attempt is that of the
\* file its own render wrote to the end, also where another call is made in its root
\* while it runs, and of some output in a crowded root; one not completed has none.
HashIsOfOwnOutput ==
    \A c \in Calls :
        IF verdict[c] = "completed"
        THEN hashed[c] # None /\ (~Crowded(c) => hashed[c] = [by |-> c, whole |-> TRUE])
        ELSE hashed[c] = None

\* A receipt is the last word of the call that wrote it, and an error takes a completed
\* verdict back: an attempt whose cleanup or receipt failed after its output was hashed
\* is finished a second time, as failed or interrupted (adapter.mjs:198-211).
ReceiptIsLastWord ==
    /\ \A c \in Calls : at[c] \in {"catch-cleanup", "catch-receipt"} => verdict[c] # "completed"
    /\ \A r \in Roots : receipt[r] # None =>
        /\ settled[receipt[r].by] = "resolved"
        /\ receipt[r].status = verdict[receipt[r].by]

\* An attempt begun by restart can be cancelled as long as it renders, whatever the one
\* it replaces still does to the map when it ends (adapter.mjs:184, 212-228).
RestartIsReachable ==
    \A c \in Calls :
        /\ at[c] = "render" /\ replaces[c] # None
        /\ \A d \in Calls \ {c} : at[d] # "idle" => Id(d) = replaces[c]
        => controllers[Id(c)] = c

\* An attempt that was aborted while it rendered settles, through every failure of its
\* end, unless a sampler of its own or of another attempt has ended the process
\* (adapter.mjs:189-215, 218-228).
AbortedAttemptsSettle ==
    \A c \in Calls : aborted[c] /\ at[c] = "render" ~> settled[c] # "pending" \/ ~up

\* What a receipt says of an attempt is so, of its output and of its end.
ReceiptsAreTrue == TypeOK /\ HashIsOfOwnOutput /\ ReceiptIsLastWord
==================================================================================
