# A verification project for Takeform

Takeform is a macOS video tool under construction. The repository holds its
first product code (a media probe, a tool doctor, an app shell), the comparison
harness that pits renderers against each other, and the *proofs*: small real
programs that settle how the product will be built. The state, the concurrency
and the failures are in the proofs, above all in `proofs/native-boundary` (an
app, a service it owns and the helper processes the service leases) and
`proofs/codex-mcp` (a proposal store behind an MCP server, and a client of the
Codex app-server). This project models those first.

All paths below are relative to `src/`.

## 1. Inventory

### The native boundary (`proofs/native-boundary/Sources`)

| Part | State it keeps | Operations | Talks to |
|---|---|---|---|
| **ProofService**, helper attempts (`ProofService/main.swift` 98-124, 276-424) | `attempts` (current, history, reconciles) in memory and in `attempts.json`; the `Process` of the helper; one lock | start with a handshake, cancel with a wait, attempt notes, termination handler, reconcile at start, idle exit | helpers by pipe, pid and signal |
| **ProofService**, command boundary (125-275) | `persisted` (sessions, receipts, fixture) in memory and in `service-state.json`; pending pairings with a semaphore each | dispatch: authenticate, authorise, answer from a receipt or execute, save, reply; pairing, approval, revocation | clients by socket, one request per connection |
| **ProofHelper** | none | announce lease and stamp, run, end on SIGTERM or by itself | the service by pipe |
| **ProofWire** | none | records, JSON lines, `UnixSocket.listen/connect`, process stamps, code identity | everyone |
| **ProofApp** | whether a service answers, spawns, relaunches | `ensureService`, `poll` on a timer, creator commands | the service |
| **proofctl** | a token in the Keychain | client commands, `inject-stale-attempt` | the service, `attempts.json` |

What is hard: the lock is held over a blocking read of the handshake and given
up in the middle of `cancel` and of `requestPairing`; handlers of Foundation run
when they like; pids are recycled; the service can end between any two steps,
and also in the middle of a file; the app relaunches it, perhaps twice; clients
send a command again when they lost the answer.

Correct is: no helper lives on that nobody will stop; no signal reaches a
process that is not a helper; the file says what memory says whenever anyone
can look, as far as it can be written; an attempt ends for good; a receipt is
true, durable and the first one for its command ID; a pairing request makes one session; a revoked
session stays out; the app gets connected again.

### The Codex proofs (`proofs/codex-mcp`)

| Part | State it keeps | Operations |
|---|---|---|
| **Proposal store and server** (`src/protocol.mjs`, `src/server.mjs`) | revision, scenes, proposals, accepted commands; an event file | snapshot, inspect, submit, accept |
| **App-server client** (`src/app-server-client.mjs` 119-290) | pending requests and waiters with their timers, a bounded buffer of notifications, the child | request, notify, waitFor, close; lines, timers and the exit of the child |
| **Approval policy** (57-117) | the active turn, the position in the expected calls, eight evaluations | judge a request for approval |
| **Scripts** (`scripts/*.mjs`) | a receipt | drive the client through a turn |

What is hard: agents act on snapshots that have grown old and send proposals
again; acceptances are retried; lines, timers, the exit event and the callers of
the client interleave; the policy is asked before the driver has learnt which
turn it is in.

### The comparison harness (`comparisons`)

| Part | State it keeps | Operations |
|---|---|---|
| **Frame state** (`common/frame-state.mjs`; `common/index.mjs` 77-296) | none: a manifest is accepted and frozen, and then every frame is a function of it | accept; layers, captions, music level, transitions and chapter of a frame |
| **Fixture support** (`hyperframes/fixture-support.mjs`) | runs, captions, chapters and crossfades open at the frame being scanned | scan all frames into tracks for a producer |
| **Hyperframes adapter** (`hyperframes/adapter.mjs`; `common/index.mjs` 354-439) | a controller per attempt id; the attempt's directory | start, cancel, restart; finish, inventory, clean up, receipt |
| **Mastering** (`audio-mastering/master.mjs`) | a receipt; a partial file and the output path | run children, check, publish by a link, always write the receipt |
| **Runtime checks** (`runtime/browser/*.mjs`, `runtime/doctor.mjs`) | a child with its process group, two timers, a result | run bounded, reap; the phases in the child; the doctor's checks |
| **Media preparation** (`media-prep`) | a derivative directory | run children, write a hashed manifest |

What is hard: attempts overlap, since a restart does not wait for the attempt it
replaces; an output path is seen free long before it is taken; a signal may come
before, between or after the children that are given it; an answer races a
timeout while a group is being reaped; verdicts are given and taken back; edits
are at rational times between frames, with retimes, and an error in one formula
shows in a few frames of one cut.

Correct is: a receipt says what is at the path; nothing is replaced; whatever
can be aborted can still be reached; a promise settles with nothing left behind;
what was accepted can be shown, every frame of it; what is reported of the
frames is what they are.

### Product code (`Sources`) and the rest

`TakeformMedia/MediaProbe.swift`: `inspect` hashes a file, reads it as an image
or as the tracks of a movie and scans the presentation times of its video; it
keeps no state between calls, but may be cancelled at any point of one, and its
verdict on the frame rate must follow from what the samples say and not from
what it stored of them. Beside it tool look-ups, constants and a window. Fixtures, schemas, receipts, documentation,
packaging and UI tests are data or scripts.

## 2. Modules

```
HelperLease        <- MCHelperLease        <- (proofs) HelperProofs
CommandAuthority   <- MCCommandAuthority   <- (proofs) CommandAuthorityProofs
ServiceRelaunch    <- MCServiceRelaunch    <- (proofs) HelperProofs
ProjectHistory, refined by
ProposalStore      <- MCProposalStore      <- (proofs) ProposalStoreProofs
  composed in
  ProbeRun         <- MCProbeRun           <- (proofs) ProbeRunProofs
AppServerClient    <- MCAppServerClient    <- (proofs) AppServerProofs
TurnApproval       <- MCTurnApproval       <- (proofs) AppServerProofs
MediaProbe         <- MCMediaProbe         <- (proofs) MediaProbeProofs
Rational, extended by
FrameState         <- MCFrameState         <- (proofs) ComparisonProofs
RenderAttempts     <- MCRenderAttempts     <- (proofs) HarnessProofs
Mastering          <- MCMastering          <- (proofs) ComparisonProofs
RuntimeChecks      <- MCRuntimeChecks      <- (proofs) HarnessProofs
```

`HelperLease`, `CommandAuthority` and `ServiceRelaunch` show the same service at three levels. `HelperLease`
has the life of an attempt in full and knows of commands only that they may come;
`CommandAuthority` has the commands in full and of an attempt only whether it
runs; `ServiceRelaunch` has several services at a time and of an attempt only
what final state it was given. `AppServerClient` and `TurnApproval` divide
`AppServer` in the same way: the first leaves out the requests of the server,
the second leaves out everything else.

Definitions that begin with `Mut` are deliberate mistakes. Each names a way in
which the code could be wrong that some property would notice; nothing else
uses them. A property that a run checks may be a conjunction of named parts,
each with a comment of its own: the parts belong to one question and are broken
by one kind of mistake, and the type invariant of a module is one of them.

### HelperLease

| Model | Code |
|---|---|
| `proc`, `slot`, `pidOf`, `sig`, `struck` | the kernel: processes, who holds which pid, who was signalled by which path |
| `line` | what the helper wrote to its pipe |
| `mem`, `disk` | `attempts`, `attempts.json` |
| `written` | how the last `persist` went: all of memory is in the file, all but `helperEvents`, or the write failed |
| `phase` | the service is down, has reconciled and not saved, is up |
| `launch` | the locals of `startAttempt`, which holds the lock throughout |
| `handlers`, `notices` | termination handlers that are set, and called and waiting for the lock |
| `cancels`, `answers` | threads in the wait of `cancel`, and the receipts it made |
| `StartSpawn` .. `StartReply` | `startAttempt`, cut where the outside world can act: launch, stamp, handshake, save, handlers and reply |
| `CancelMismatch`, `CancelSignal`, `CancelReply` | `cancel` before the wait, two ways, and after it |
| `TerminationHandler`, `AttemptWrite` | the handler, `attemptWrite` |
| `ReadabilityHandler` | the handler of the helper's pipe, which changes memory and does not save |
| `OtherCommand` | `dispatch` of any other command, which saves both files with its receipt |
| `ServiceExit`, `TornExit` | any end of the service; one that leaves `attempts.json` cut short, which `load` takes for an empty store |
| `ServiceStart`, `ServiceReconcile`, `ReconcileSave` | `load`, `reconcile` up to its save, the save |

A process is its own start time: a stamp is the identity of the process that
holds the pid, so equal stamps mean the same process. A probe and the `kill`
that follows it are one step; split, nothing that signals by pid would be safe,
and the code does not claim to be. `persist` writes with `try?`: `Persist` stores
memory, or leaves the file as it was or cut, and tells nobody. What a helper
writes to its pipe after the handshake is not modelled as text; that memory has
more of it than the file is `written = "butEvents"`. The exit of a service takes its threads and
handlers with it and leaves the helpers.

### CommandAuthority

A connection brings one request (`Next` lets every client bring any request it
has the means for). `Arrives` is `dispatch` up to the point where the effect is
in memory; `SaveState` and `SaveAttempts` are the two writes of its `persist`, with
the lock held; `CancelReturns`, `PairingWakes` and `PairingReply` are what
happens after the lock was given up. `InnerSaved` is the save that `startAttempt`
and `cancel` make before `dispatch` has a receipt. Any write may fail unnoticed
(`Written`), and the service may exit with whole files between two saves
(`ServiceExit`), between the two files of one (`SplitExit`, and `ServiceExit` at
`saveAttempts`), after a save and before the answer (`UnansweredExit`), and in the
middle of a file (`TornExit`, `TornStart`), in every place that calls `persist`.
`unsaved` names the files whose last write failed; `torn`, `stale` and `half`
remember that an exit cut a file, came after a failed write, or fell between the
receipt of a note and the note. Sessions, receipts and leases are named by the
connection whose command made them.

### ProjectHistory and ProposalStore

`ProjectHistory` is what the store promises: a sequence of edits, each made
against the revision before it, once per command. `ProposalStore` has the
revision, scenes, proposals and accepted commands of `protocol.mjs`, what each
agent and creator has read, and the last answer. It implements the history with
`History`, the accepted proposals in the order of their revisions.

### AppServerClient

A step is one event of the event loop or one call of the application. `child`,
`stdout`, `asked`, `answered` are the child and the pipes; `pending`, `ring`,
`waiters`, `timers` are the client's fields; `outcome` and `wait` are what
became of the promises. A line may be an answer, a notification, something that
is not JSON, or `null`, which ends the client as an uncaught exception, as a
write to a dead child does. The exit event may come while lines are unread.

### TurnApproval

The policy with the driver around it: `Continue` is the continuation of the
`await` on `turn/start`, so the policy may be asked between the arrival of the
answer and the driver's assignment of `turnId`. All checks of a request except
turn and parameters are one Boolean, `exact`.

### ServiceRelaunch

`Launch`, `Ready` and `GiveUp` are `ensureService`, entered from `poll` or
`runStartup`; several polls may be in it, since the timer does not wait for
them. `Boot`, `Unlink`, `Bind`, `Listen` are a service on its way up. `GiveUp`
assumes that ten seconds are enough for a service that comes up at all.
`overlapped` remembers that a service was launched while another was there,
`unsaved` the attempts of which a save has failed. A final state comes from three
places: `HandleExit` is the termination handler, which asks only whether the attempt
is still the current one; `CancelRefused` is a `cancel` that finds another stamp, or
none, under the pid; `Boot` has the one of `reconcile`. Services are numbered and take
the first number that is free, since nothing tells two processes apart.

### MediaProbe

One call of `inspect`. `stage` is the place in the code; `hashed`, `begun` and
`read` count what has been done to the file, whose content is chosen as it is
read; `timing` holds the locals of `scanPresentationTimes`, `Scanned` its loop
body. `Cancel` is `Task.cancel` from outside and may come between any two steps.
A chunk takes three steps (`HashCheck`, `HashRead`, `HashChunk`), because a
cancellation after the second check does not keep the chunk from being digested.
`Cancelled` is a `Task.checkCancellation` that throws, or an `await` of
AVFoundation that does, which it need not. A presentation time is a number or
invalid; the width of `CMTime` and its infinities are left out.

### Rational and FrameState

`Rational` is the exact arithmetic of `frame-state.mjs` with times in lowest
terms. `FrameState` has three layers. `freezeSnapshot` is the acceptance of a
manifest; `frameState` is one frame of it; the actions are the scan of
`fixture-support.mjs`, one frame a step, which turns frames into runs of audio,
captions, chapters and crossfades, and at the end into tracks with a volume
automation. `Init` chooses a manifest from `Plans`, and `Freeze` refuses it or
not, so the properties are about all manifests the code accepts and not about a
choice of good ones. A gain is the rational the code computes before it takes a
cosine or a decibel of it.

### RenderAttempts

One `HyperframesAdapter`. A call of `start` has a root and an id that is the
root's last name, so calls may share both, or the id only. `Prepare`,
`WriteProject` and `Register` are `start` up to its `try`, where an error leaves
things behind; `RenderReturns` to `WriteReceipt` are the `try`, its `catch`, which
finishes the attempt a second time, and its `finally`, which removes whatever
controller has the id. `sampling` has the calls whose `setInterval` is set, or whose
last callback is still walking the directories when the interval is cleared:
`SamplerThrows` is a rejection of that callback, which nobody handles and which
ends the process (`up`). The bytes of the output are the call that wrote them.
A call whose cleanup or receipt failed cleans its root up a second time. By then
another may have entered the root, which loses its links and no longer keeps a
third out: the root is `Crowded`, the third overwrites the output of the second,
and the hash of the second, though of some output, may not be of its own.
`HashIsOfOwnOutput` is exact about this. The only caller in the repository makes
one call.

### Mastering

`at` is the place in `masterArtifact`; a child that is given the signal is
killed by it, one that is not runs on. `output` is one path for several
masterings and another program. Every file operation may fail, those of the
`finally` block included.

### RuntimeChecks

One check after another, of the browser probe or of the doctor, each with a
child that may start a helper, which may start more, in the process group of the
one that starts it or outside and with its output pipe or without; each helper is
started once in a check (`spare`). `Phase` to `ProbeExits` are `sdk-probe.mjs` in the child;
`wait` is the promise of `runBounded` or `command` with its limit, its grace
timers in the order they were set, and what it has heard. `check = "done"` says that
the results are printed; the program itself ends by `Exit`, when every pipe of its
children is closed (`stray`, `Held`), or by an error of `mkdtemp`, `spawn` or `rm`
(`ProbeThrows`).

### ProbeRun

`run-probe.mjs` as a client of `ProposalStore`, whose actions it instantiates:
every call of the driver is sent, handled, and answered or given up, so a call may
be handled after the driver has gone on to its `catch`. The model calls what it
likes while a turn runs. `NextPage` is a list that goes on; `DriverDies` an exception
outside of every call, which AppServerClient has as `TakeNull` and `BrokenPipe`, and
after which neither `catch` nor `finally` runs. `events` is the file both sides share, `cursor` what the
driver has skipped of it.

## 3. Runs

| Run | Bounds | What it shows |
|---|---|---|
| `helper_attempts` | 2 leases, 2 pids, 1 foreign process, 1 client in cancel, 1 note, whole, cut and unwritten files, fair | all of HelperLease, safety and liveness |
| `command_safety` | 3 connections, 2 command IDs, one spell of failing writes or one file cut short | receipts, notes and sessions agree with each other and with what clients were told; a revoked session stays out |
| `proposal_safety` | 3 commands, 2 scenes, 2 texts, 2 agents, 1 creator, 2 revisions | the store implements the history |
| `appserver_settles` | 2 requests, 2 waiters, 2 kinds, a buffer of 1, 2 lines, fair | nobody is left behind, nothing is missed, promises settle, `close` returns |
| `approval_safety` | 2 turns, 2 calls, 3 requests, 2 evaluations kept | approvals follow the expected calls in every turn |
| `relaunch_restart` | 3 services, 2 polls, 1 attempt, 1 kill, fair | the app is connected again; orphans end; attempts are judged by one service |
| `media_scan` | 2 chunks, 2 tracks, 4 samples at times 0 to 4, 2 times stored | a cancelled probe stops; what it reports of the cadence is what the samples say |
| `frame_edits` | edits of 6 to 9 frames: 2 pictures, 2 takes with up to 2 words each, 3 chapters with 2 fades | accepted edits render; music, chapters, tracks and captions follow the frames |
| `mastering_publish` | 2 masterings, 1 other program, one path, fair | receipts tell what is there; nothing is replaced; aborts are heeded |
| `render_overlap` | 2 calls in 3 roots with 2 ids, fair | receipts are about the attempt's own output; a restart can be reached; aborted attempts settle |
| `runtime_bounded` | both programs, 2 helpers, all children's behaviours, fair | promises settle with nothing left; reports are true; both programs come to their results, and end when nobody holds a pipe |
| `probe_roundtrip` | 4 proposals of the model, 3 calls of it, 2 scenes, fair | a passed run shows the round trip; nothing else is accepted; the run ends |

Why these are enough. A lease and its successor are enough for every confusion
of two attempts, two pids for one to be recycled while the other is in use, and
one foreign process to recycle it. One creator, one requester and one
competitor are enough for the races of the command boundary, two IDs for a
repeated and a fresh command. One loss (`MaxLosses`) is one spell of failing writes
or one file cut short; with two the states are too many for a run, and the theorems
are for any number. The attempt an earlier service may have left is one lease under one pid
(`OldLeases`, `OldPids`), the others being alike. Two revisions make a proposal stale; three
commands make two of them race while a third is retried. A buffer of one and
two lines overflow the buffer, as 257 do a buffer of 256; two evaluations are
to three requests what eight are to nine. Three services and one kill let one
take the path from another while a third comes up. Four samples give three intervals,
enough for an invalid time or a boundary between two that agree and for more
times than are stored; two tracks for one that is described and one that a
cancelled probe must not begin. The edits have cuts on, before and after words,
starts between frames, retimes to either side of one, fades with and without
room, touching fades, two boundaries at one time, a still of a source with a
duration, a sound that stands still, a picture over the end of a fade and an uncovered
frame; what the code does in a frame
depends on no more than two neighbours of each kind. Two masterings and a third
program let the path be taken by either kind before and after a look at it. Two
calls share a root, only an id, or nothing; three in one root are too many states for
a run with restarts and cancels, and are in the proofs. Two helpers are a browser
and a process of its, which may outlive it and leave the group. Three calls of the model are one more
than a good run has, and the four proposals are wrong in each field that matters.

Constants that bound a behaviour and are not in the code: `MaxRevision`,
`MaxRequests`, `MaxLines`, `MaxTurns`, `MaxAsks`, `MaxAttempts`, `MaxKills`,
`MaxChunks`, `MaxTracks`, `MaxSamples`, `MaxTime`, `MaxCalls`, `MaxLosses`; `Plans`,
`ModelProposals` and the sets of names are the instances' choice.
`TransitionFrames`, `ChapterCount`, `Attack` and `Release` are constants of the
code, made smaller.
`CHECK_DEADLOCK FALSE` stands in every configuration, because these systems may
stop: clients need not send anything, programs end, and every bound is reached in
the end. Symmetry is used only in runs that check no liveness.

### Fairness

Weak fairness only. *HelperLease*: helpers announce themselves or end, run for a
given time and are reaped; handlers and the threads inside a start or a cancel
run on; the app relaunches a service that is gone. No fairness for clients or
exits. The code gives `readHelperLine` no timeout, so a helper that lives and
stays silent would block the service for good; `ProofHelper` announces itself
before anything else, which is the assumption. That an attempt ends is
checked under the condition that files can be written again and again, for without
it no file says so. *AppServerClient*: timers and the
exit event are delivered and SIGKILL kills; the child owes nothing else.
*ServiceRelaunch*: the timer fires, launched services come up unless killed,
helpers end, handlers and the idle watcher run. *Mastering*: the event loop goes
on, and a child closes that was sent SIGTERM or that nothing can stop; one that
could be stopped and was not may run for ever. *RenderAttempts*: file operations
return and a renderer that was aborted stops, in a process that is up; nothing makes
one that was not aborted end. *RuntimeChecks*: timers and events only, and that a helper of the
doctor's children, which nobody kills, ends; one of the probe's need not. *ProbeRun*:
the driver and its timers; neither the server nor the model need answer, and a
server may go on with its lists. CommandAuthority, ProposalStore,
TurnApproval, MediaProbe and FrameState are checked for safety only.

## 4. Theorems

TLAPS proves the following for all values of the constants, from the named
assumptions in the modules (disjointness of names, bounds that are natural
numbers).

**HelperProofs, HelperLease.** The inductive invariant is `ServiceInv`: type
correctness; `ProcessTable` (a helper that was spawned and not reaped holds its
pid, and nobody else does); `LaunchInProgress`, `ReconcileInProgress`,
`CancelInProgress` (what holds while a start, a reconcile or a cancel is under
way); `StoresAgree`. None of the properties is inductive alone: whether a
signal hits depends on the pid table, whether a helper is accounted for on what
the start in progress has recorded, whether the file agrees with memory on who
holds the lock. From it follow `StatusIsDurable` (the file agrees with memory
whenever the lock is free and the last write did not fail, but for a cancel request
and the helper's last events), `HelpersStayAccounted` (no helper is forgotten but
those an exit forgets; inductive with `MemoryTells`, since while writes fail it is
memory that tells of a helper) and `CheckedSignalsAreSafe`. `ReceiptsStayTrue` needs
`RecordInv` as well, which says that what a store tells of its attempts is true
of the processes. `StoresSound` and `FileStands` are about the stores: they need
`OnceInv` (history and reconciliations name the same leases, each once, and an
orphan that is reconciled in memory alone is still what the file has as current):
memory may be many saves ahead of the file, and it `StandsBy` what the file says. A
step edits the current attempt of memory, begins one or moves it to history
(`Edited`, `Begun`, `Moved`), and what it saves is that or nothing. Without the part
about what is in memory alone a crash between the signal and the save could reconcile
one attempt twice, and that is what `OnceInv` is about.

**HelperProofs, ServiceRelaunch.** `OneVerdict` is conditional on services that do
not overlap and on saves that do not fail, and not inductive: `RelaunchInv` adds,
under the same conditions, that all services but one are gone and the one knows what
the file knows (`OneStore`), that the attempt the file has running, and every attempt
still to come, has no verdict yet, and that one whose handler is to run has none from
`reconcile` (`Unjudged`). What it does not say is that an attempt has one verdict:
section 5.

**CommandAuthorityProofs.** The properties speak of what a client was told and of a
file; between the two stand the store in memory, a write that may have failed and the
command that holds the lock, so none of them is inductive alone. `Inv` adds to the
types: `Locking` (one command at work) and `Saved` (the file is what is in memory, but
while a command is saving or after a write that failed); `InHand` (what that command
has done before its save); `Naming` (no store names a connection still to come, and no
two sessions are of one request); `Order` (a connection is named in memory once its
command has its receipt, in the file once that is written, and to clients when both
files are); `Durable` (what was told, by a first receipt or a replayed one, is in
memory, and in every file whose last write did not fail, until an exit cuts a file
short or loses a write); and `Lasting` (what holds even after a cut, because a file
that is cut short is read as empty: a session that was revoked is not active). Every
action is first reduced to an `Effect`, what it does to one command, one answer and
the stores, and the parts of `Inv` are proved of effects. From it follow
`AnswersAreDurable`, `OneSessionPerRequest`, `SameIDSameReceipt` and the action
property `RevokedStaysOut`. The proofs need that the names of callers without a
session are not names of connections (`NamesAssumption`).

**ProposalStoreProofs.** The invariant says that the accepted commands and the
revisions they made are in one-to-one correspondence, that each accepted
proposal expected the revision before its own, and that scenes read as the
history says. `StoreIsHistory` proves the refinement: initial states map to
initial states, the first acceptance appends one edit, every other step
stutters.

**AppServerProofs, AppServerClient.** `ClientInv`: types; `RequestsKept` (a
promise is open for every key of the map and no other, and only what was requested
has reached the child); `AnswersOnce` (the lines in the pipe answer each request
once, and none that was answered before); `WaitersKept` (the waiters in the list
are those that wait, each there once, with its timer) and `ExitSettles` (when the
exit is seen, no key of the map is of a request the child had). `NobodyLeftBehind` follows from it;
`NothingMissed` is inductive only with `WaitersKept`, because a waiter that was
taken from the list without its promise being settled would wait for what the
buffer holds. What `splice` and `filter` leave of a list is stated as lemmas about
`Without` and about the places of its members.

**AppServerProofs, TurnApproval.** `ApprovalInv`: types, `Protocol` (turns start, are
answered and are learnt in order), `Position` (`nextCall` is one more than the
approvals of the turn it counts for, and later turns have none), and the
sequence property itself. `NextCallIsApproved` is an action property that
follows from `Position`: without it `nextCall` could be behind or ahead of the
turn's approvals.

**MediaProbeProofs.** `ProbeInv` adds to the types and to `CancelStopsTheProbe`
where a cancelled probe can be (`WhereCancelled`): a success must be traced back
to a cancellation after the last check, and a chunk digested after a cancellation to
one that had been asked about, which the property alone does not remember. `FactsFollowSamples` compares a loop with sets of samples. `FactsInv` says
of every point of the loop what its locals say of the samples read so far:
`CountInv` and `StoredInv` of the counters and the times that are stored,
`DeltaInv` of the first interval and of the flag that another differed, and
`CadenceInv` of samples in the order of their display: they have one time more than
intervals, and while no interval differed their times lie at the steps from the
first to the last. That a flag about neighbours decides whether all times are
evenly spaced is proved in both directions (`EvenMeansConstant`,
`ConstantMeansEven`).

**ProbeRunProofs.** `RunInv` adds to the types that one call is made at a time and a
late one is handled only while the driver closes (`Calling`), that the turn of the
model is over before anything is inspected (`Turns`), what the store holds before
and after the call of each step (`StoreInv`), and that from the cursor on the
events are those of the model (`EventsInv`). So a passed run has seen the store
go through all its states, and the only acceptance is the driver's, whether its
answer came in time or not.

**ComparisonProofs, FrameState.** Nothing changes but the place of the scan, so the
invariant `ScanInv` is short: the types, where the scan can be, and that it
fails at a frame that throws (`ScanInvariant`). The rest is arithmetic, about
any accepted manifest. Times are quotients in lowest terms, so the lemmas speak
of numerators: `Val(x, n, d)` says that the time x is n / d, one lemma for each
operation of Rational says what it does to numerators over one denominator, and
`CommonDenominator` brings any finite set of times to one. That `gcd` ends and
divides both its arguments is proved with a least counterexample, since the
recursion is a function; so is what `filtered` keeps (`Ranks`). From these
follow, for any plans, rates and envelope: `AcceptedPlansAreRendered`: the
half frame of a handle and the inverse retime of an occurrence stay inside the
source (`HandleWithin`, `ClipWithin`). `MusicIsDucked`: the projection of a word
to the film and the source time of a frame are inverse to each other, with the
same bounds at both ends (`FilmTimeInverse`, `ClipNumbers`). `ChaptersGoOn`: the
handle and the layer of the chapter differ by the time since the boundary
(`HandleMeets`). `MusicMovesGradually`: the gain of a frame is the greatest of the
levels that each range of speech asks for alone (`GainIsALevel`, which is where
`EndsInOrder` is needed), each level moves no further than the steeper ramp
(`LevelMoves`), and so does the greatest of them. The hypothesis on plans is what the
schemas of a manifest and of a word file say (`PlansAssumption`).

`ReportsFollowTheFrames` is about what the scan keeps, which `RecordInv` describes as
if the scan ended at the present frame. `RunsSoFar`: each run holds one sample of its
role for each frame from its first to its end, runs of one key lie apart, and every
role of every frame is in one. `RunsStep` takes a frame further, role by role,
because no two roles of a frame have the same key (`RolesSound`), so that the search
for the prior run finds the run of the frame before or none. `CaptionsSoFar` and
`ChaptersSoFar`: a list covers the frames that show something, in entries that do not
overlap, of which only the last may be open; `FadesSoFar`: a crossfade spans the
frames of one transition, because two successive frames of transitions that lie
`Apart` are in the same one (`SameTransition`). From the runs follows what a producer
makes of them: the samples that `compactGainSamples` keeps are enough to interpolate
the others, which were dropped only where the gain stood (`KeptPlays`), and two
neighbours of a run give the rate of the occurrence (`RateVal`).

**ComparisonProofs, Mastering.** `Standing` says of every mastering what it
has seen and made when it stands at a given place of the code, and whose file is
at the path. From it follow `VerdictMatchesOutput` (a receipt or result that says
succeeded names its own file, one that says cancelled has published nothing) and
the action property `OnlyMeasuredIsPublished`, for any number of masterings.
`EarlyAbortSafety` is the first half of `AbortsAreHeeded`: a mastering that is aborted
before its last look is `Doomed`, and no step leads from there to the link.

**HarnessProofs, RenderAttempts.** For any number of calls. `Inv` adds to
`ReceiptsAreTrue` what the stage of a call says of its output, its verdict and its
promise (`Record`), that a call in possession of its root finds its own links there,
unless another call of the root, finished, is on its way out (`Holds`), that two
calls are in possession of one root only then (`Exclusive`), and whose controller the
map has (`Mapped`). The links are a lock that its owner may lose: only a cleanup
removes them (`LinksGo`), so a call that enters a root another has must find a third
that has been finished there (`Enters`), and this makes the root `Crowded`, which it
remains. `ReceiptsTrue` excepts the hash, not the verdict, in a crowded root;
`OneRenderPerRoot` is `Exclusive` itself.

**HarnessProofs, RuntimeChecks.** For any number of helpers. `ChecksInv` adds to
the properties what the timers that are set say of the past (`TimersSound`: the
limit is set until it has passed, a timer of the grace period stands for a signal
sent, and an answer has been heard exactly where the group is being reaped), what
an answer that was heard, or a grace period that is over, says of the child
(`VerdictSound`), that a child that runs is in its group, a helper not yet started
in none, and a script that ended well has retained its capture (`ScriptSound`), and
which answers are there at each check (`OrderSound`). `NothingIsLeft` rests on two
facts: only a process of the group starts another in it, so a group that has been
found empty, or was killed, stays empty whatever its former members' helpers do
(`StartsInGroup`, `EndsLeaveNobody`), and a close comes only after the child has
ended. `ReportsTrue` is the race of the answer with the limit: the two change
`wait` in different ways that neither takes back. `NobodyWaitsInVain` is the safety
half of `ProgramsEnd`: a timer is set that will end the wait, but for the doctor's,
which after its SIGKILL has only the close to wait for.

Only model-checked: liveness, `AbortsAreHeeded` in its second half included, which is
out of the prover's reach together with ENABLED. Every invariant a run checks is a
theorem.

## 5. What the code does and its documents do not say

- After the wait, `cancel` describes whatever attempt is current by then, which
  may be one started after the cancelled one ended (`ProofService/main.swift:405`);
  `INTERACTION.md:66` has "Expect a receipt that reports `SIGTERM to exit` with a
  measured duration".
- `persist` writes `service-state.json` and then `attempts.json`
  (`ProofService/main.swift:92-93`). An exit between the two leaves the receipt of a
  note without the note, and a client that sends the command ID again gets that
  receipt for a note that is nowhere; `AnswersAreDurable` excepts exactly these
  commands (`half`).
- Both writes are made with `try?`, and what they answer is not looked at: a receipt, a
  session or a revocation may be answered that no file has, and the next exit loses
  it. The properties are conditional on no exit coming after a failed write
  (`stale`, `written`, `unsaved`).
- The lines a helper writes after its handshake are shown by `status` before anything
  saves them (`:343-354`); `VisibleIsDurable` is about the rest of the record.
- A `cancel` that finds another stamp under the pid, or none because the helper has
  just ended, records "interrupted", and the termination handler of the same service
  then "completed" over it, since it does not look at the state (`:358-371`,
  `:385-390`): one attempt, two final states, and a receipt that tells of the first.
- A helper that was launched and whose attempt was not yet recorded is forgotten when
  the service exits (`:316-342`); one that lives and writes nothing blocks the service,
  which reads its handshake with the lock held (`:322`).
- Two cancels under one command ID both execute, and the receipt of the later
  replaces the first (`ProofService/main.swift:236`); `INTERACTION.md:77` has "the
  service returns the first receipt for a repeated command ID".
- The evaluations of approvals are numbered by the length of a list that is cut
  to eight, so from the ninth on each is number 9
  (`src/app-server-client.mjs:90`, `:110`; the receipts number them in order).
- `submit` answers "pending" for a proposal accepted before, which is then not
  pending (`src/protocol.mjs:73`), and compares proposals as JSON text, so key
  order matters (`:69`).
- A record of an event that cannot be appended answers a submission with an error though
  the proposal is stored (`src/server.mjs:63`).
- The exit event of the app-server may overtake answers that are still in the
  pipe; their requests are rejected as not completed
  (`src/app-server-client.mjs:147`).
- A line `null` from the app-server, or a write to one that has died, is an exception
  nobody catches (`src/app-server-client.mjs:163`, `:174`): run-probe is gone without a
  receipt and leaves the app-server behind. `listAll` asks for as long as the server
  returns a `nextCursor` (`run-probe.mjs:81-90`). `RunsEnd` allows both.
- A `turn/start` that times out is reported as "not_started", though the turn may
  have begun (`run-probe.mjs:293`); after a failure later than the events step the
  driver's own calls are listed among the model's (`:296`).
- Polls that overlap launch several services, which then reconcile each other's
  attempts (`ProofApp.swift:170`); `OneVerdict` and `AttemptsAreJudged` are
  conditional on this not happening.
- Samples are scanned in the order of decoding, so a stream with reordered
  frames is reported as variable though it is displayed at even intervals
  (`MediaProbe.swift:459`); a track without a numeric time range ends the process
  by a forced unwrap (`:392`, `:407`); a probe cancelled after the last check
  still reports success (`:239`).
- The music releases from the speech that started last, which is not the one that
  ended last when a measured word lies within another (`frame-state.mjs:148`;
  `index.mjs:218` lets it). `MusicIsGradual` is conditional on `EndsInOrder`.
- Two crossfades that touch are reported as one (`fixture-support.mjs:185`);
  `ListsMatchTheFrames` is conditional on `Apart`. Acceptance checks neither that
  chapters cover the film, for want of which the scan throws
  (`frame-state.mjs:225`), nor that a chapter starts at its boundary, nor that it
  is not retimed, though its fade shows it at normal speed;
  `ChaptersGoOnWhereTheyFadedIn` is conditional on both.
- Acceptance looks for any boundary at the time of a transition that is not
  clean (`index.mjs:246`), a frame for the first boundary at that time, and throws
  when this one is clean (`frame-state.mjs:181`); `EveryFrameRenders` excepts two
  boundaries at one time.
- A source range without length at the very end of a source is accepted and shown,
  though the source has no frame there; `HandlesSuffice` is about sources whose
  occurrences do not stand still, or that have no duration. A dialogue that stands
  still within a word ducks nothing; `DuckedWhileHeard` excepts it. The rate of a
  sound that stands still is reported as 0 (`fixture-support.mjs:51`), whatever its
  retime factor; `TracksPlayTheFrames` excepts it.
- Mastering reports "failed" when the hash of an output that is already linked
  cannot be taken, and an error in its `finally` leaves no receipt and rejects
  even after a success (`master.mjs:123`, `:167`, `:173`). Its version, probe and
  frame-sample children are not given the signal.
- A session of HyperFrames that does not close skips the close of the server, so
  the child stays after it has printed "ok" until the timeout turns the result
  into an error (`sdk-probe.mjs:153`); its errors always report phase "cleanup"
  (`:151`, `:170`). `--bootstrap-browser` without `--browser` bootstraps nothing and
  reports ok (`doctor.mjs:226`). `runBounded` neither destroys nor unrefs the pipes of
  a child (`runner.mjs:42-50`), and the probe does not call `process.exit`
  (`probe.mjs:36`): a helper outside the group that holds the output keeps the probe
  from ending after its results are printed, which `ProgramsEnd` allows for. An error
  of `mkdtemp` or `rm` ends the probe without results (`probe.mjs:27`, `:33`).
- The sampler of an attempt is an `async` callback of `setInterval` that nobody awaits
  (`adapter.mjs:189-194`). It walks the attempt's directories while `executeRenderJob`,
  `finishAttempt` and the cleanup work on them, and a file that is gone between listing
  and `stat` is a rejection that ends Node: no receipt, and every other attempt of the
  process with it. An error of `createRenderJob` (`:196`) leaves the interval set for
  good, and its callback throws on `started`, which is declared after it (`:197`), a
  second later. `AbortedAttemptsSettle` excepts a process that was so ended.
- An error between the registration of a controller and the `try` also leaves the
  controller behind (`adapter.mjs:184-198`); one after
  the first link leaves a root that no later attempt can use, without a receipt
  (`:143`); a restart during preparation aborts nothing (`:226`); the `finally`
  removes the controller of another attempt of the same name (`:214`). The second
  cleanup of a call that failed (`:208`) removes the links of another that has
  entered its root since, so that a third may enter and write over the second's
  output before it is hashed; `comparisons/README.md:36` has that an attempt "owns
  one absolute attempt root" and "can complete only after the output file is
  inventoried and hashed", and `HashIsOfOwnOutput` excepts a crowded root. Both
  attempts reserve the storage they found free (`:177-179`).

## 6. Not modelled

- Code identity and the Keychain (calls into the system), line framing, the
  views, metrics and receipts of the scripts, packaging, fixtures.
- The provider proposal adapter: one request raced against a timeout, without
  state between requests. Media preparation: one pass over a list of sources.
- In the harness, path ownership, canonical JSON, hashes and the storage sum; the
  geometry and the curves of a frame; the text of a project.
- Widths: presentation times, BigInt rationals and durations are integers here;
  the code's range errors are not modelled.
- Group numbers that are used again by the system, and a root replaced between two
  looks at it.

What would come next: media preparation and the provider proposal adapter as modules
of their own.
