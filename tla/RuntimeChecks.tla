------------------------------ MODULE RuntimeChecks ------------------------------
(***************************************************************************)
(* comparisons/runtime: two programs that run other programs for a bounded *)
(* time.  browser/probe.mjs runs browser/sdk-probe.mjs once for each SDK   *)
(* through runBounded (runner.mjs), which owns the child's process group.  *)
(* doctor.mjs asks ffmpeg and a browser for their versions through         *)
(* command, which owns the child only.  Init chooses the program.          *)
(*                                                                         *)
(* A child may start a helper (the browser) and helpers may start more, in *)
(* the group of the process that starts them or in one of their own, with  *)
(* its output open or not.  A SIGTERM ends any subset of the processes it  *)
(* reaches, a SIGKILL ends them all.                                       *)
(* Abstracted: a result is its status; the files the programs make and     *)
(* remove themselves are not lost; a group number is not used again.       *)
(***************************************************************************)
EXTENDS Naturals, Sequences

CONSTANTS
    Helpers,    \* the processes a check may start beside its child, each of them once
    Null

ASSUME HelpersAssumption == Helpers # {} /\ "child" \notin Helpers

ASSUME NullAssumption ==
    Null \notin {"ok", "error", "protocol-error", "timeout", "garbled"}

VARIABLES
    program,    \* "probe" or "doctor"
    options,    \* the doctor's: [browser |-> BOOLEAN, bootstrap |-> BOOLEAN]
    check,      \* the check at hand, or "done": the results are printed
    results,    \* [Checks -> Null or the answer]
    scratch,    \* the check's scratch directory exists
    captures,   \* the SDKs whose capture this program has retained
    spare,      \* the helpers of this check that have not been started
    alive,      \* the processes of this check that run
    group,      \* those in the child's process group
    piped,      \* those that hold the child's output open
    script,     \* what sdk-probe has done in the child
    out, code,  \* what the child has printed and its exit code
    wait,       \* the promise of runBounded or command, with its timers
    stray,      \* the output of an earlier check's child is still held open
    ended       \* the program itself has ended

files == <<program, options, check, results, scratch, stray, ended>>
checksVars == <<files, captures, spare, alive, group, piped, script, out, code, wait>>
processes == <<spare, alive, group, piped>>

SDKs == {"remotion", "hyperframes"}
Commands == {"ffmpeg", "version"}
Checks == SDKs \cup Commands \cup {"setup", "renderer", "bootstrap"}
Spawning == check \in SDKs \cup Commands

Idle == [stage |-> "idle", timedOut |-> FALSE, limit |-> FALSE, grace |-> <<>>,
         closed |-> FALSE, heard |-> Null, value |-> Null]

ChecksInit ==
    /\ program \in {"probe", "doctor"}
    /\ options \in [browser : BOOLEAN, bootstrap : BOOLEAN]
    /\ program = "probe" => ~options.browser /\ ~options.bootstrap
    /\ check = IF program = "probe" THEN "remotion" ELSE "setup"
    /\ results = [c \in Checks |-> Null]
    /\ scratch = FALSE
    /\ captures = {} /\ spare = {} /\ alive = {} /\ group = {} /\ piped = {}
    /\ script = [phase |-> 1, open |-> <<>>, left |-> {}, outcome |-> Null]
    /\ out = Null /\ code = Null
    /\ wait = Idle
    /\ stray = FALSE /\ ended = FALSE

----------------------------------------------------------------------------------
(* sdk-probe.mjs in the child: the phases in order, what each one opens, and  *)
(* the finally blocks that close it, last first.                              *)

Phases ==
    [remotion |-> <<"startup", "launch", "page", "navigate", "capture">>,
     hyperframes |-> <<"startup", "composition-server", "create-session",
                       "initialize", "capture">>]

Opens ==
    [p \in {"launch", "page", "composition-server", "create-session"} |->
        CASE p = "launch" -> "browser"
          [] p = "page" -> "page"
          [] p = "composition-server" -> "server"
          [] p = "create-session" -> "session"]

Running == check \in SDKs /\ "child" \in alive /\ script.outcome = Null
Unwinding == check \in SDKs /\ "child" \in alive /\ script.outcome # Null

\* A process has the group and the output of the one that starts it, or others.
Starts(p, h) ==
    /\ p \in alive /\ h \in spare
    /\ spare' = spare \ {h}
    /\ alive' = alive \cup {h}
    /\ group' \in {group, IF p \in group THEN group \cup {h} ELSE group}
    /\ piped' \in {piped, IF p \in piped THEN piped \cup {h} ELSE piped}

Phase ==
    /\ Running
    /\ LET phase == Phases[check][script.phase] IN
       /\ script' = [script EXCEPT
            !.open = IF phase \in DOMAIN Opens THEN <<Opens[phase]>> \o @ ELSE @,
            !.phase = IF phase = "capture" THEN @ ELSE @ + 1,
            !.outcome = IF phase = "capture" THEN "ok" ELSE Null]
       /\ captures' = IF phase = "capture" THEN captures \cup {check} ELSE captures
       /\ IF phase \in {"launch", "create-session"} THEN \E h \in Helpers : Starts("child", h)
          ELSE UNCHANGED processes
    /\ UNCHANGED <<files, out, code, wait>>

PhaseFails ==
    /\ Running
    /\ script' = [script EXCEPT !.outcome = "error"]
    /\ UNCHANGED <<files, captures, processes, out, code, wait>>

\* A close that succeeds may end any of the helpers.  remotion closes the browser when
\* the page did not close; hyperframes closes nothing after a close that failed.
CloseOne ==
    /\ Unwinding /\ script.open # <<>>
    /\ LET closing == Head(script.open) IN
       \/ /\ script' = [script EXCEPT !.open = Tail(@)]
          /\ IF closing \in {"browser", "session"}
             THEN \E ends \in SUBSET (alive \cap Helpers) : alive' = alive \ ends
             ELSE UNCHANGED alive
       \/ /\ closing # "server"
          /\ script' = [script EXCEPT
               !.open = IF check = "remotion" THEN Tail(@) ELSE <<>>,
               !.left = IF check = "remotion" THEN @ \cup {closing}
                        ELSE {script.open[i] : i \in DOMAIN script.open}]
          /\ UNCHANGED alive
    /\ UNCHANGED <<files, captures, spare, group, piped, out, code, wait>>

\* The SDK may have printed lines of its own.
PrintResult ==
    /\ Unwinding /\ script.open = <<>> /\ out = Null
    /\ out' \in {script.outcome, "garbled"}
    /\ UNCHANGED <<files, captures, processes, script, code, wait>>

\* Node ends when nothing is open: a listening server keeps it running.
ProbeExits ==
    /\ Unwinding /\ out # Null /\ "server" \notin script.left
    /\ alive' = alive \ {"child"}
    /\ code' = IF script.outcome = "ok" THEN 0 ELSE 1
    /\ UNCHANGED <<files, captures, spare, group, piped, script, out, wait>>

(* Any child may end by itself; the doctor's children are programs of others. *)
ChildEnds ==
    /\ "child" \in alive
    /\ alive' = alive \ {"child"}
    /\ code' \in IF check \in SDKs THEN {1} ELSE {0, 1}
    /\ UNCHANGED <<files, captures, spare, group, piped, script, out, wait>>

StartsHelper(p, h) ==
    /\ check \in Commands \/ p # "child"
    /\ Starts(p, h)
    /\ UNCHANGED <<files, captures, script, out, code, wait>>

HelperEnds(h) ==
    /\ h \in alive
    /\ alive' = alive \ {h}
    /\ UNCHANGED <<files, captures, spare, group, piped, script, out, code, wait>>

\* The processes that held the output of earlier checks have ended.
StraysEnd ==
    /\ stray
    /\ stray' = FALSE
    /\ UNCHANGED <<program, options, check, results, scratch, ended, captures, processes,
                   script, out, code, wait>>

----------------------------------------------------------------------------------
(* Waiting for the child.  The timers of the grace period have one length, so *)
(* they fire in the order they were set; any timer set may fire at any time.  *)

Waiting == wait.stage = "waiting"

Settled(w, value) == [w EXCEPT !.stage = "settled", !.limit = FALSE, !.grace = <<>>,
                               !.value = value]

Reached == IF program = "probe" THEN group \cap alive ELSE {"child"} \cap alive

\* A process that a signal ends has no exit code 0.
Ended(ends) ==
    /\ alive' = alive \ ends
    /\ code' = IF "child" \in ends THEN 1 ELSE code

Terminated == \E ends \in SUBSET Reached : Ended(ends)
Killed == Ended(Reached)

\* The child's output is held open; Node runs on as long as any such pipe is open,
\* for neither program destroys its end or calls process.exit.
Held == piped \cap alive # {}

\* mkdtemp, spawn and the timer; spawn may fail.
Spawn ==
    /\ Spawning /\ wait.stage = "idle" /\ ~ended
    /\ stray' = (stray \/ Held)
    /\ scratch' = (program = "probe")
    /\ script' = [phase |-> 1, open |-> <<>>, left |-> {}, outcome |-> Null]
    /\ out' = Null /\ code' = Null
    /\ spare' = Helpers /\ group' = {"child"} /\ piped' = {"child"}
    /\ \/ alive' = {"child"} /\ wait' = [Idle EXCEPT !.stage = "waiting", !.limit = TRUE]
       \/ alive' = {} /\ wait' = Settled(Idle, "error")
    /\ UNCHANGED <<program, options, check, results, captures, ended>>

Verdict ==
    IF out \notin {"ok", "error"} \/ (code # 0 /\ out = "ok") THEN "protocol-error" ELSE out

\* Mutant: a group is not waited for.
MutFinishAtOnce(w) == wait' = Settled(w, w.heard) /\ UNCHANGED <<alive, code>>

\* reapGroup: a group that cannot be signalled is gone.
ReapGroup(w) ==
    IF group \cap alive = {}
    THEN wait' = Settled(w, w.heard) /\ UNCHANGED <<alive, code>>
    ELSE Terminated /\ wait' = [w EXCEPT !.grace = Append(@, "reap")]

\* Mutant: a close after the limit counts too.
MutCloseAlways == ReapGroup([wait EXCEPT !.closed = TRUE, !.heard = Verdict])

\* 'close': the child has been reaped and nobody holds its output.
RunnerCloses ==
    IF wait.timedOut THEN wait' = [wait EXCEPT !.closed = TRUE] /\ UNCHANGED <<alive, code>>
    ELSE ReapGroup([wait EXCEPT !.closed = TRUE, !.heard = Verdict])

CommandCloses ==
    /\ wait' = [Settled(wait, IF wait.timedOut THEN "timeout"
                              ELSE IF code = 0 THEN "ok" ELSE "error")
                EXCEPT !.closed = TRUE]
    /\ UNCHANGED <<alive, code>>

Close ==
    /\ Waiting /\ ~wait.closed
    /\ "child" \notin alive /\ ~Held
    /\ IF program = "probe" THEN RunnerCloses ELSE CommandCloses
    /\ UNCHANGED <<files, captures, spare, group, piped, script, out>>

AtLimit(w) == [w EXCEPT !.timedOut = TRUE, !.limit = FALSE, !.grace = Append(@, "kill")]

Limit ==
    /\ Waiting /\ wait.limit
    /\ Terminated
    /\ wait' = AtLimit(wait)
    /\ UNCHANGED <<files, captures, spare, group, piped, script, out>>

\* Mutant: after SIGKILL the close is awaited.
MutAwaitClose(w) == [w EXCEPT !.grace = Tail(@)]

\* SIGKILL.  The runner does not wait for the close; command waits for nothing else.
AfterKill(w) ==
    IF program = "doctor" THEN [w EXCEPT !.grace = Tail(@)]
    ELSE Settled(w, IF Head(w.grace) = "reap" THEN w.heard ELSE "timeout")

Grace ==
    /\ Waiting /\ wait.grace # <<>>
    /\ Killed
    /\ wait' = AfterKill(wait)
    /\ UNCHANGED <<files, captures, spare, group, piped, script, out>>

----------------------------------------------------------------------------------
(* The programs.                                                              *)

Following ==
    CASE check = "remotion" -> "hyperframes"
      [] check = "hyperframes" -> "done"
      [] check = "setup" -> "renderer"
      [] check = "renderer" -> "ffmpeg"
      [] check = "ffmpeg" -> IF options.browser THEN "version" ELSE "done"
      [] check = "version" -> IF options.bootstrap THEN "bootstrap" ELSE "done"
      [] check = "bootstrap" -> "done"

Answer(value) ==
    /\ results' = [results EXCEPT ![check] = value]
    /\ check' = Following
    /\ wait' = Idle

\* The awaited promise; the probe removes its scratch directory in the finally.
Proceed ==
    /\ wait.stage = "settled"
    /\ Answer(wait.value)
    /\ scratch' = FALSE
    /\ UNCHANGED <<program, options, captures, processes, script, out, code, stray, ended>>

\* mkdtemp, spawn or rm throws: the error ends Node at once, and no results are printed.
ProbeThrows ==
    /\ program = "probe" /\ check \in SDKs /\ wait.stage \in {"idle", "settled"} /\ ~ended
    /\ ended' = TRUE /\ wait' = Idle
    /\ UNCHANGED <<program, options, check, results, scratch, captures, processes, script, out,
                   code, stray>>

\* Nothing is left to be done and every pipe is closed.
Exit ==
    /\ check = "done" /\ ~ended /\ ~stray /\ ~Held
    /\ ended' = TRUE
    /\ UNCHANGED <<program, options, check, results, scratch, captures, processes, script, out,
                   code, wait, stray>>

\* The doctor's own checks: runtime, Node, packages and the HyperFrames import
\* (setup), the Remotion import (renderer) and the bootstrap, which is tried only
\* after a version and an import that are right.
Bootstraps ==
    IF results["version"] = "ok" /\ results["renderer"] = "ok" THEN {"ok", "error"}
    ELSE {"error"}

DoctorChecks ==
    /\ check \in {"setup", "renderer", "bootstrap"}
    /\ \E value \in IF check = "bootstrap" THEN Bootstraps ELSE {"ok", "error"} : Answer(value)
    /\ UNCHANGED <<program, options, scratch, captures, processes, script, out, code, stray, ended>>

DoctorOK ==
    /\ \A c \in {"setup", "renderer", "ffmpeg"} : results[c] = "ok"
    /\ results["version"] \in {Null, "ok"}
    /\ results["bootstrap"] \in {Null, "ok"}

ChildSteps ==
    \/ Phase \/ PhaseFails \/ CloseOne \/ PrintResult \/ ProbeExits \/ ChildEnds
    \/ \E p \in Helpers \cup {"child"}, h \in Helpers : StartsHelper(p, h)
    \/ \E h \in Helpers : HelperEnds(h)
    \/ StraysEnd
WaiterSteps ==
    Spawn \/ Close \/ Limit \/ Grace \/ Proceed \/ DoctorChecks \/ ProbeThrows \/ Exit

ChecksNext == ChildSteps \/ WaiterSteps

ChecksSpec == ChecksInit /\ [][ChecksNext]_checksVars

\* Timers fire and events are delivered.  What the children do is up to them; the
\* doctor's helpers, which nobody kills, are assumed to end.
ChecksFairSpec ==
    /\ ChecksSpec
    /\ WF_checksVars(WaiterSteps)
    /\ WF_checksVars(program = "doctor" /\ \E h \in Helpers : HelperEnds(h))

----------------------------------------------------------------------------------
(* Properties *)

Answers == {"ok", "error", "protocol-error", "timeout"}

\* The timers are armed at most once each, and never after the promise settles.
ChecksTypeOK ==
    /\ program \in {"probe", "doctor"}
    /\ options \in [browser : BOOLEAN, bootstrap : BOOLEAN]
    /\ check \in Checks \cup {"done"}
    /\ results \in [Checks -> Answers \cup {Null}]
    /\ scratch \in BOOLEAN /\ captures \in SUBSET SDKs
    /\ spare \in SUBSET Helpers /\ alive \in SUBSET (Helpers \cup {"child"})
    /\ group \in SUBSET (Helpers \cup {"child"}) /\ piped \in SUBSET (Helpers \cup {"child"})
    /\ script.phase \in 1..5 /\ script.outcome \in {Null, "ok", "error"}
    /\ out \in {Null, "ok", "error", "garbled"} /\ code \in {Null, 0, 1}
    /\ wait.stage \in {"idle", "waiting", "settled"}
    /\ wait.grace \in {<<>>, <<"reap">>, <<"kill">>, <<"reap", "kill">>}
    /\ ~Waiting => wait.grace = <<>> /\ ~wait.limit
    /\ wait.heard \in Answers \cup {Null} /\ wait.value \in Answers \cup {Null}
    /\ stray \in BOOLEAN /\ ended \in BOOLEAN

\* Whichever of close, the limit and the grace periods comes last, a promise that has
\* settled leaves no child behind, and the runner's leaves nothing of the child's group;
\* so nothing of it uses a scratch directory that is removed (runner.mjs:18-83,
\* probe.mjs:27-34, doctor.mjs:107-124).
SettledMeansReaped ==
    Reached # {} => Waiting /\ (program = "probe" => scratch)

\* The runner's race of a late answer with the limit: an answer whose close came first
\* is the one returned, though the limit passes while the group is reaped; after the
\* limit a close changes nothing, and the answer is the timeout (runner.mjs:52-82).
FirstVerdictStands ==
    program = "probe" /\ wait.stage = "settled" /\ (wait.closed \/ wait.timedOut) =>
        wait.value = IF wait.heard # Null THEN wait.heard ELSE "timeout"

\* An answer ok of the runner is of a child that printed it, ended by itself with code 0
\* and retained its capture (runner.mjs:56-71, sdk-probe.mjs:98-123, 135-161).
OkMeansCaptured ==
    check \in SDKs /\ wait.stage = "settled" /\ wait.value = "ok" =>
        out = "ok" /\ code = 0 /\ check \in captures

\* A doctor that reports ok has had a right answer to every check of an executable that
\* was given, and bootstraps a browser only through a renderer and a browser it found
\* right (doctor.mjs:217-258, 293-306).
DoctorOKMeansChecked ==
    program = "doctor" /\ check = "done" /\ DoctorOK =>
        /\ options.browser => results["version"] = "ok"
        /\ options.browser /\ options.bootstrap => results["bootstrap"] = "ok"

\* Both programs come to their results, or the probe ends with an error, whatever the
\* children do: one that ignores SIGTERM, one that has printed its result and stays, one
\* whose helper holds the output for good (under the runner only).  And they end, unless
\* such a helper never lets go: after the results the probe still reads the pipes of
\* children it has given up (runner.mjs:42-50, 73-82, probe.mjs:26-36, doctor.mjs:107-124).
ProgramsEnd ==
    /\ <>(check = "done" \/ ended)
    /\ []<>(~stray /\ ~Held) => <>ended

\* What the programs report is what became of the children.
ReportsAreTrue ==
    ChecksTypeOK /\ FirstVerdictStands /\ OkMeansCaptured /\ DoctorOKMeansChecked
==================================================================================
