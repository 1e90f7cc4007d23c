----------------------------- MODULE MediaProbe -----------------------------
(***************************************************************************)
(* MediaProbe.inspect of Sources/TakeformMedia/MediaProbe.swift: one task  *)
(* hashes a file, reads it as an image or, track by track, as a movie, and *)
(* scans the presentation times of the first video track.  The content of  *)
(* the file is chosen as it is read.  The task may be cancelled between    *)
(* any two steps; inspect asks only at its calls of checkCancellation, and *)
(* where it awaits AVFoundation a cancelled task may be told or not.       *)
(***************************************************************************)
EXTENDS Integers, Sequences, FiniteSets

CONSTANTS
    MaxStored,     \* maximumStoredPresentationTimestamps
    MaxChunks,     \* bound on the chunks of a file
    MaxTracks,     \* bound on its tracks
    MaxSamples,    \* bound on the sample buffers of a video track
    MaxTime,       \* bound on presentation times
    None           \* an absent value, and an invalid CMTime

ASSUME StoredAssumption == MaxStored \in Nat /\ MaxStored > 1
ASSUME BoundsAssumption ==
    /\ MaxChunks \in Nat /\ MaxTracks \in Nat
    /\ MaxSamples \in Nat /\ MaxTime \in Nat
ASSUME NoneAssumption == None \notin Int \cup BOOLEAN

Times == 0 .. MaxTime

\* A sample buffer: whether it holds samples or only marks a boundary, and its
\* presentation time, which nobody asks of a boundary.  Times that are valid
\* without being numbers are left out.
Sample == [shown: {TRUE}, pts: Times \cup {None}]
              \cup [shown: {FALSE}, pts: {None}]

Stage == {"start", "hash", "read", "digest", "image", "load", "tracks", "audio",
          "scan", "facts", "metadata", "done"}

Result == {"none", "success", "cancelled", "unreadable", "corrupt", "trapped"}

VARIABLES
    stage,        \* where inspect is
    result,       \* how it ended
    asked,        \* the progress made when the task was cancelled, or None
    hashed,       \* chunks digested
    begun,        \* tracks looked at
    audio,        \* audio tracks described
    video,        \* VideoFacts, or None
    read,         \* the sample buffers copied from the video track
    timing        \* the locals of scanPresentationTimes

vars == <<stage, result, asked, hashed, begun, audio, video, read, timing>>
progress == <<hashed, begun, audio, video, read, timing>>

cancelled == asked # None

Timing == [stored: Seq(Times), previous: Times \cup {None},
           firstDelta: Times \cup {None}, hasVariableDeltas: BOOLEAN,
           deltaCount: Nat, scannedCount: Nat]

NoTiming == [stored |-> <<>>, previous |-> None, firstDelta |-> None,
             hasVariableDeltas |-> FALSE, deltaCount |-> 0, scannedCount |-> 0]

VideoFacts == [presentationTimestamps: Seq(Times), deltaCount: Nat,
               isVariableFrameRate: BOOLEAN \cup {None}]

Progress == [stage: Stage, hashed: Nat, begun: Nat, scanned: Nat]

TypeOK ==
    /\ stage \in Stage
    /\ result \in Result
    /\ stage = "done" <=> result # "none"
    /\ asked \in Progress \cup {None}
    /\ hashed \in 0 .. MaxChunks
    /\ stage = "digest" => hashed < MaxChunks
    /\ begun \in 0 .. MaxTracks
    /\ audio \in Nat
    /\ video \in VideoFacts \cup {None}
    /\ read \in Seq(Sample)
    /\ timing \in Timing
    /\ Len(timing.stored) <= MaxStored

-----------------------------------------------------------------------------
(* The scan of presentation times.                                         *)

\* The interval from the previous sample, None unless it is valid and positive.
Delta(t, pts) ==
    IF t.previous # None /\ pts # None /\ pts > t.previous
    THEN pts - t.previous
    ELSE None

\* Is the frame rate known to be variable with one more interval?
Varies(t, delta) ==
    \/ t.hasVariableDeltas
    \/ delta # None /\ t.firstDelta # None /\ delta # t.firstDelta

\* The times stored, up to the limit.
Store(stored, pts) ==
    IF pts # None /\ Len(stored) < MaxStored THEN Append(stored, pts) ELSE stored

\* An invalid time is passed over, and the next interval spans it.
MutScanned(t, pts) ==
    LET delta == Delta(t, pts)
    IN [stored |-> Store(t.stored, pts),
        previous |-> IF pts = None THEN t.previous ELSE pts,
        firstDelta |-> IF t.firstDelta = None THEN delta ELSE t.firstDelta,
        hasVariableDeltas |-> Varies(t, delta),
        deltaCount |-> t.deltaCount + (IF delta # None THEN 1 ELSE 0),
        scannedCount |-> t.scannedCount + 1]

\* What one sample does to the locals of the scan.
Scanned(t, pts) ==
    LET delta == Delta(t, pts)
    IN [stored |-> Store(t.stored, pts),
        previous |-> pts,
        firstDelta |-> IF t.firstDelta = None THEN delta ELSE t.firstDelta,
        hasVariableDeltas |-> Varies(t, delta),
        deltaCount |-> t.deltaCount + (IF delta # None THEN 1 ELSE 0),
        scannedCount |-> t.scannedCount + 1]

-----------------------------------------------------------------------------
(* inspect.                                                                *)

Init ==
    /\ stage = "start" /\ result = "none" /\ asked = None
    /\ hashed = 0 /\ begun = 0 /\ audio = 0
    /\ video = None /\ read = <<>> /\ timing = NoTiming

\* Task.cancel, by whoever started the probe.
Cancel ==
    /\ stage # "done" /\ ~ cancelled
    /\ asked' = [stage |-> stage, hashed |-> hashed, begun |-> begun,
                 scanned |-> timing.scannedCount]
    /\ UNCHANGED <<stage, result, progress>>

End(how) ==
    /\ stage' = "done" /\ result' = how
    /\ UNCHANGED <<asked, progress>>

Goto(next) == stage' = next /\ UNCHANGED <<result, asked>>

\* A check that finds the task cancelled, and an await that tells it so.
Checked ==
    \/ stage \in {"start", "hash", "read"}
    \/ stage = "tracks" /\ begun < MaxTracks
Told == stage \in {"load", "audio", "facts", "metadata"}
Cancelled == cancelled /\ (Checked \/ Told) /\ End("cancelled")

\* An error of the file system or of the frameworks.
Unreadable == stage = "start" /\ ~ cancelled /\ End("unreadable")
Corrupt ==
    /\ stage \in {"read", "image", "load", "audio", "scan", "facts", "metadata"}
    /\ End("corrupt")

\* A track without a numeric time range is not an error but the end of the
\* process: makeVideoFacts and makeAudioFacts unwrap it by force.
Trapped == stage \in {"audio", "facts"} /\ End("trapped")

OpenFile ==
    /\ stage = "start" /\ ~ cancelled
    /\ Goto("hash") /\ UNCHANGED progress

\* Before a chunk is read and before it is digested inspect asks.
HashCheck ==
    /\ stage = "hash" /\ ~ cancelled
    /\ Goto("read") /\ UNCHANGED progress

HashRead ==
    /\ stage = "read" /\ ~ cancelled /\ hashed < MaxChunks
    /\ Goto("digest") /\ UNCHANGED progress

HashChunk ==
    /\ stage = "digest"
    /\ hashed' = hashed + 1
    /\ Goto("hash")
    /\ UNCHANGED <<begun, audio, video, read, timing>>

\* The end of the file, and the check after it.
HashEnd ==
    /\ stage = "read" /\ ~ cancelled
    /\ \E next \in {"image", "load"} : Goto(next)
    /\ UNCHANGED progress

ImageFacts == stage = "image" /\ End("success")

LoadTracks == stage = "load" /\ Goto("tracks") /\ UNCHANGED progress

\* The next track, begun without a check.
MutNextTrack ==
    /\ stage = "tracks" /\ begun < MaxTracks
    /\ begun' = begun + 1
    /\ \/ Goto("audio")
       \/ video = None /\ Goto("scan")
       \/ Goto("tracks")
    /\ UNCHANGED <<hashed, audio, video, read, timing>>

\* The next track: audio is described, the first video track is scanned, any
\* other is passed over.  A reader that cannot be set up ends the probe.
NextTrack ==
    /\ stage = "tracks" /\ ~ cancelled /\ begun < MaxTracks
    /\ begun' = begun + 1
    /\ \/ Goto("audio")
       \/ video = None /\ Goto("scan")
       \/ Goto("tracks")
    /\ UNCHANGED <<hashed, audio, video, read, timing>>

AudioFacts ==
    /\ stage = "audio"
    /\ audio' = audio + 1
    /\ Goto("tracks")
    /\ UNCHANGED <<hashed, begun, video, read, timing>>

\* copyNextSampleBuffer returns one more: a boundary is skipped unchecked.
ReadSample ==
    /\ stage = "scan" /\ Len(read) < MaxSamples
    /\ \E s \in Sample :
          /\ read' = Append(read, s)
          /\ \/ /\ ~ s.shown
                /\ UNCHANGED <<stage, result, timing>>
             \/ /\ s.shown /\ ~ cancelled
                /\ timing' = Scanned(timing, s.pts)
                /\ UNCHANGED <<stage, result>>
             \/ /\ s.shown /\ cancelled
                /\ stage' = "done" /\ result' = "cancelled"
                /\ UNCHANGED timing
    /\ UNCHANGED <<asked, hashed, begun, audio, video>>

\* There is no further sample, and the reader has completed.
ScanEnd == stage = "scan" /\ Goto("facts") /\ UNCHANGED progress

MakeVideoFacts ==
    /\ stage = "facts"
    /\ video' = [presentationTimestamps |-> timing.stored,
                 deltaCount |-> timing.deltaCount,
                 isVariableFrameRate |->
                     IF timing.deltaCount = 0 THEN None
                     ELSE timing.hasVariableDeltas]
    /\ Goto("tracks")
    /\ UNCHANGED <<hashed, begun, audio, read, timing>>

\* The loop over the tracks ends without a check.
TracksEnd ==
    /\ stage = "tracks" /\ begun > 0
    /\ Goto("metadata")
    /\ UNCHANGED progress

\* An error of a metadata item is swallowed, its cancellation too.
Metadata == stage = "metadata" /\ End("success")

Inspect ==
    \/ Cancelled \/ Unreadable \/ Corrupt \/ Trapped
    \/ OpenFile \/ HashCheck \/ HashRead \/ HashChunk \/ HashEnd \/ ImageFacts
    \/ LoadTracks \/ NextTrack \/ AudioFacts \/ ReadSample \/ ScanEnd
    \/ MakeVideoFacts \/ TracksEnd \/ Metadata

Next == Cancel \/ Inspect

Spec == Init /\ [][Next]_vars

-----------------------------------------------------------------------------
(* Properties.                                                             *)

\* The samples that are displayed, by their place among the buffers read, those
\* with a time, and the time of one.
Shown == {n \in DOMAIN read : read[n].shown}
Numeric == {n \in Shown : read[n].pts # None}
PTS(n) == read[n].pts

Consecutive(m, n) == m < n /\ \A k \in Shown : k <= m \/ n <= k

\* The pairs <<m, n>> of which n is displayed some time after m, the sample read
\* before it.
Later == {p \in Numeric \X Numeric : Consecutive(p[1], p[2]) /\ PTS(p[2]) > PTS(p[1])}
Interval(p) == PTS(p[2]) - PTS(p[1])

\* The first times in the order of reading, the number of samples and of
\* intervals, and a verdict on the frame rate that takes in all samples, stored
\* or not.
SamplesAreCounted ==
    /\ Len(video.presentationTimestamps) =
           IF Cardinality(Numeric) < MaxStored THEN Cardinality(Numeric) ELSE MaxStored
    /\ \A n \in Numeric :
           LET rank == Cardinality(Numeric \cap 1 .. n)
           IN  rank <= MaxStored => video.presentationTimestamps[rank] = PTS(n)
    /\ timing.scannedCount = Cardinality(Shown)
    /\ video.deltaCount = Cardinality(Later)
    /\ video.isVariableFrameRate =
           IF Later = {} THEN None
           ELSE \E p, q \in Later : Interval(p) # Interval(q)

\* The times are spaced evenly: in steps of one length from the first.
Even(times) ==
    \E first \in times, step \in 1 .. MaxTime :
        times = {first + step * n : n \in 0 .. (Cardinality(times) - 1)}

\* The samples come in the order of their display.
Ordered ==
    /\ Shown = Numeric
    /\ \A m, n \in Shown : m <= n => PTS(m) <= PTS(n)

Displayed == {PTS(n) : n \in Shown}

\* Of samples that come in the order of their display, the frame rate is
\* variable if and only if the times of display are not spaced evenly, also when
\* the same time comes twice.
CadenceIsTrue ==
    Ordered /\ Cardinality(Displayed) > 1 =>
        video.isVariableFrameRate = ~ Even(Displayed)

\* What is reported of a video track is what its samples say, invalid times,
\* boundaries and the limit on what is stored notwithstanding.
FactsFollowSamples == video # None => SamplesAreCounted /\ CadenceIsTrue

\* A cancelled probe does no more than it was doing: it digests no chunk but one
\* it had already read and asked about, begins no further track and counts no
\* further sample, and it reports success only if it was past the loading of the
\* tracks, or reading an image.
CancelStopsTheProbe ==
    cancelled =>
        /\ \/ hashed = asked.hashed
           \/ asked.stage = "digest" /\ hashed = asked.hashed + 1
        /\ begun = asked.begun
        /\ timing.scannedCount = asked.scanned
        /\ result = "success" => asked.stage \notin {"start", "hash", "read", "digest", "load"}
=============================================================================
