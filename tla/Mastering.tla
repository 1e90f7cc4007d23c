-------------------------------- MODULE Mastering --------------------------------
(***************************************************************************)
(* comparisons/audio-mastering/master.mjs: masterArtifact runs a fixed     *)
(* list of children over a raw artifact, writes a partial file in its      *)
(* attempt root, measures it again and links it to the output path, which  *)
(* other masterings and other programs may take first.  The caller may     *)
(* abort at any time.                                                      *)
(*                                                                         *)
(* Abstracted: what a child prints is the choice whether the checks on it  *)
(* pass; every file operation may fail.  Two masterings share the output   *)
(* path and no attempt root.                                               *)
(***************************************************************************)
EXTENDS Naturals

CONSTANTS
    Attempts,   \* calls of masterArtifact for one output path
    Other,      \* a program that writes the output path itself
    None

ASSUME NamesAssumption ==
    /\ None \notin Attempts \cup {Other, "succeeded", "cancelled", "failed"}
    /\ Other \notin Attempts

VARIABLES
    output,     \* whose file is at outputPath: None, an attempt or Other
    partial,    \* [Attempts -> absent, written, measured]: master.partial.mp4
    at,         \* [Attempts -> the stage]
    child,      \* [Attempts -> none, running, killed]: the child waited for
    aborted,    \* [Attempts -> BOOLEAN]: the caller's signal
    status,     \* [Attempts -> receipt.status]
    receipt,    \* [Attempts -> None or the status in terminal-receipt.json]
    settled     \* [Attempts -> pending, resolved, rejected]: the promise

masteringVars == <<output, partial, at, child, aborted, status, receipt, settled>>

Commands == {"ffmpeg-version", "probe", "audio-health", "measure-raw", "master",
             "probe-mastered", "video-sample", "measure-mastered"}
\* The children that are given the signal.
Signalled == {"audio-health", "measure-raw", "master", "measure-mastered"}
Stages == Commands \cup {"begin", "hook", "link", "unlink", "hash", "rm", "receipt", "done"}

Following(stage) ==
    CASE stage = "ffmpeg-version" -> "probe"
      [] stage = "probe"          -> "audio-health"
      [] stage = "audio-health"   -> "measure-raw"
      [] stage = "measure-raw"    -> "master"
      [] stage = "master"         -> "probe-mastered"
      [] stage = "probe-mastered" -> "video-sample"
      [] stage = "video-sample"   -> "measure-mastered"
      [] stage = "measure-mastered" -> "hook"

MasteringInit ==
    /\ output \in {None, Other}
    /\ partial = [a \in Attempts |-> "absent"]
    /\ at = [a \in Attempts |-> "begin"]
    /\ child = [a \in Attempts |-> "none"]
    /\ aborted \in [Attempts -> BOOLEAN]
    /\ status = [a \in Attempts |-> "started"]
    /\ receipt = [a \in Attempts |-> None]
    /\ settled = [a \in Attempts |-> "pending"]

----------------------------------------------------------------------------------
(* The try block: an error goes to the catch, which sets the status, and then *)
(* to the finally.                                                            *)

Goto(a, stage) == at' = [at EXCEPT ![a] = stage] /\ UNCHANGED status

Throw(a, verdict) ==
    /\ status' = [status EXCEPT ![a] = verdict]
    /\ at' = [at EXCEPT ![a] = "rm"]

\* The directory, the output that must not exist yet, the raw file.
Begin(a) ==
    /\ at[a] = "begin"
    /\ \/ output = None /\ Goto(a, "ffmpeg-version")
       \/ Throw(a, "failed")
    /\ UNCHANGED <<output, partial, child, aborted, receipt, settled>>

\* Mutant: a signal that came before the child is forgotten.
MutForgetEarlier(a) == "running"

\* A signal that came before the child is passed on at once.
Heeds(a) == IF aborted[a] /\ at[a] \in Signalled THEN "killed" ELSE "running"

Spawn(a) ==
    /\ at[a] \in Commands /\ child[a] = "none"
    /\ child' = [child EXCEPT ![a] = Heeds(a)]
    /\ partial' = IF at[a] = "master" THEN [partial EXCEPT ![a] = "written"] ELSE partial
    /\ UNCHANGED <<output, at, aborted, status, receipt, settled>>

\* The listener is removed when the child has closed, not when it has ended.
Abort(a) ==
    /\ ~aborted[a]
    /\ aborted' = [aborted EXCEPT ![a] = TRUE]
    /\ child' = IF child[a] = "running" /\ at[a] \in Signalled
                THEN [child EXCEPT ![a] = "killed"] ELSE child
    /\ UNCHANGED <<output, partial, at, status, receipt, settled>>

\* The child has closed and its result is checked; cancelled wins over the exit
\* code, not over an error of the spawn.  After measure-mastered the partial file
\* has passed every check.
Close(a) ==
    /\ child[a] # "none"
    /\ child' = [child EXCEPT ![a] = "none"]
    /\ \/ /\ child[a] = "running"
          /\ Goto(a, Following(at[a]))
          /\ partial' = IF at[a] = "measure-mastered"
                        THEN [partial EXCEPT ![a] = "measured"] ELSE partial
       \/ child[a] = "killed" /\ Throw(a, "cancelled") /\ UNCHANGED partial
       \/ Throw(a, "failed") /\ UNCHANGED partial
    /\ UNCHANGED <<output, aborted, receipt, settled>>

LastLook(a) == IF aborted[a] THEN Throw(a, "cancelled") ELSE Goto(a, "link")

Hook(a) ==
    /\ at[a] = "hook"
    /\ LastLook(a) \/ Throw(a, "failed")
    /\ UNCHANGED <<output, partial, child, aborted, receipt, settled>>

\* Mutant: the publication replaces what is there.
MutReplace == TRUE

\* link(2) does not replace: EEXIST, EXDEV and the rest are errors.
Linkable == output = None

Link(a) ==
    /\ at[a] = "link"
    /\ \/ Linkable /\ output' = a /\ Goto(a, "unlink")
       \/ Throw(a, "failed") /\ UNCHANGED output
    /\ UNCHANGED <<partial, child, aborted, receipt, settled>>

\* Mutant: the temporary name stays.
MutUnlinkKeeps(a) == partial

Unlinked(a) == [partial EXCEPT ![a] = "absent"]

Unlink(a) ==
    /\ at[a] = "unlink"
    /\ \/ partial' = Unlinked(a) /\ Goto(a, "hash")
       \/ Throw(a, "failed") /\ UNCHANGED partial
    /\ UNCHANGED <<output, child, aborted, receipt, settled>>

\* The hash of the published file; only then the mastering has succeeded.
Hash(a) ==
    /\ at[a] = "hash"
    /\ Throw(a, "succeeded") \/ Throw(a, "failed")
    /\ UNCHANGED <<output, partial, child, aborted, receipt, settled>>

----------------------------------------------------------------------------------
(* The finally block: an error in it leaves no receipt, and replaces a result. *)

Fails(a) ==
    /\ at' = [at EXCEPT ![a] = "done"]
    /\ settled' = [settled EXCEPT ![a] = "rejected"]

RemovePartial(a) ==
    /\ at[a] = "rm"
    /\ \/ /\ partial' = Unlinked(a)
          /\ at' = [at EXCEPT ![a] = "receipt"]
          /\ UNCHANGED settled
       \/ Fails(a) /\ UNCHANGED partial
    /\ UNCHANGED <<output, child, aborted, status, receipt>>

WriteReceipt(a) ==
    /\ at[a] = "receipt"
    /\ \/ /\ receipt' = [receipt EXCEPT ![a] = status[a]]
          /\ at' = [at EXCEPT ![a] = "done"]
          /\ settled' = [settled EXCEPT ![a] =
                            IF status[a] = "succeeded" THEN "resolved" ELSE "rejected"]
       \/ Fails(a) /\ UNCHANGED receipt
    /\ UNCHANGED <<output, partial, child, aborted, status>>

OtherWrites ==
    /\ output = None
    /\ output' = Other
    /\ UNCHANGED <<partial, at, child, aborted, status, receipt, settled>>

Work(a) ==
    \/ Begin(a) \/ Spawn(a) \/ Hook(a) \/ Link(a) \/ Unlink(a) \/ Hash(a)
    \/ RemovePartial(a) \/ WriteReceipt(a)

MasteringNext == OtherWrites \/ \E a \in Attempts : Work(a) \/ Abort(a) \/ Close(a)

MasteringSpec == MasteringInit /\ [][MasteringNext]_masteringVars

\* The event loop goes on.  A child that was sent SIGTERM closes, and so does
\* one that is given no signal, which there is no way to stop; one that could be
\* stopped and is not may run for ever.
CloseStopped(a) == (child[a] = "killed" \/ at[a] \notin Signalled) /\ Close(a)

FairMastering ==
    MasteringSpec /\ \A a \in Attempts :
        WF_masteringVars(Work(a)) /\ WF_masteringVars(CloseStopped(a))

----------------------------------------------------------------------------------
MasteringTypeOK ==
    /\ output \in Attempts \cup {None, Other}
    /\ partial \in [Attempts -> {"absent", "written", "measured"}]
    /\ at \in [Attempts -> Stages]
    /\ child \in [Attempts -> {"none", "running", "killed"}]
    /\ aborted \in [Attempts -> BOOLEAN]
    /\ status \in [Attempts -> {"started", "succeeded", "cancelled", "failed"}]
    /\ receipt \in [Attempts -> {None, "succeeded", "cancelled", "failed"}]
    /\ settled \in [Attempts -> {"pending", "resolved", "rejected"}]

\* What a mastering says of itself is what is at the output path: a result or a
\* receipt that says succeeded names its own file, published from a partial file
\* that had passed every check and is gone; one that says cancelled published
\* nothing and left nothing, though the signal may come at any time and another
\* program may take the path after it was found free.
VerdictMatchesOutput ==
    \A a \in Attempts :
        /\ settled[a] = "resolved" \/ receipt[a] = "succeeded" =>
               output = a /\ partial[a] = "absent"
        /\ receipt[a] = "cancelled" => output # a /\ partial[a] = "absent"

\* Nothing is published that was not measured, and nothing is replaced: the
\* step that puts the file of a mastering at the output path links a partial file
\* that passed every check, to a path that was free, whatever was seen there when
\* the mastering began.
OnlyMeasuredIsPublished ==
    [][\A a \in Attempts : output' = a /\ output # a =>
           partial[a] = "measured" /\ output = None]_masteringVars

\* A signal that comes while a child is at work, or until the last look before
\* the link, is heeded: that mastering publishes nothing any more.
EarlyAbortPublishesNothing ==
    \A a \in Attempts :
        [](aborted[a] /\ at[a] \in Commands \cup {"begin", "hook"} => [](output # a))

\* Once the caller has aborted, the promise settles, even when the child at work
\* would not have ended by itself.
AbortSettles == \A a \in Attempts : aborted[a] ~> settled[a] # "pending"

\* An abort has its effect, on the promise and, while it is in time, on the output.
AbortsAreHeeded == EarlyAbortPublishesNothing /\ AbortSettles
==================================================================================
