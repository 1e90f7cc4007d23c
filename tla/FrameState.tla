------------------------------- MODULE FrameState -------------------------------
(***************************************************************************)
(* The edit a comparison renders: an accepted manifest, what one frame of  *)
(* it shows and plays (comparisons/common/frame-state.mjs), the checks     *)
(* that accept it (comparisons/common/index.mjs), and the scan over all    *)
(* frames that turns it into tracks, captions and crossfades for a         *)
(* producer (comparisons/hyperframes/fixture-support.mjs).                 *)
(*                                                                         *)
(* Abstracted: ids, labels and texts are members of small sets, and the    *)
(* id prefix 'ochapter' is the field `chapter`; the geometry of a panel is *)
(* left out.  A gain is a rational: for music 1 at the level under speech  *)
(* and 0 at the level of a gap (linear in decibels between them), for a    *)
(* crossfade the progress whose cosine or sine the code takes, of which    *)
(* only equality counts.                                                   *)
(***************************************************************************)
EXTENDS Rational, Sequences, FiniteSets, SequencesExt

CONSTANTS
    Plans,              \* manifests with their word files, one per fixture id
    Expected,           \* [M, T, L -> [frameCount, rate]], EXPECTED_FIXTURES
    Attack, Release,    \* times of the music envelope
    TransitionFrames,   \* frames of a crossfade: 24 in the code
    ChapterCount,       \* chapters of the long film: 15 in the code
    Null                \* null or undefined

ASSUME EnvelopeAssumption ==
    /\ Attack \in Time /\ Attack.ticks > 0
    /\ Release \in Time /\ Release.ticks > 0
\* What null cannot be taken for: a time, a frame, an open crossfade.
SourceIds == UNION { DOMAIN p.sources : p \in Plans }
Crossfade == [pair : [pictures : Seq(SourceIds), sounds : Seq(SourceIds)],
              startFrame : Nat, endFrame : Nat]
ASSUME NullAssumption == Null \notin Time \cup Nat \cup Crossfade

IsSequence(s) == Len(s) \in Nat /\ DOMAIN s = 1 .. Len(s)

\* What the schema of a manifest and of a word file says of it.
ASSUME PlansAssumption ==
    \A p \in Plans :
        /\ p.fixture \in {"M", "T", "L"} /\ p.rate \in Rate
        /\ p.outputDuration \in Time /\ p.frameCount \in Nat
        /\ \A id \in DOMAIN p.sources : p.sources[id] \in Time \cup {Null}
        /\ IsSequence(p.occurrences)
        /\ \A i \in DOMAIN p.occurrences :
               /\ p.occurrences[i].sourceRange \in TimeRange
               /\ p.occurrences[i].outputRange \in TimeRange
               /\ p.occurrences[i].retimeFactor \in Rate
               /\ p.occurrences[i].chapter \in BOOLEAN
               /\ p.occurrences[i].role \notin {"transition-outgoing", "transition-incoming"}
        /\ IsSequence(p.boundaries)
        /\ \A i \in DOMAIN p.boundaries :
               p.boundaries[i].outputTime \in Time /\ p.boundaries[i].clean \in BOOLEAN
        /\ IsSequence(p.captions)
        /\ \A i \in DOMAIN p.captions :
               p.captions[i] # Null /\ p.captions[i].outputRange \in TimeRange
        /\ IsFiniteSet(DOMAIN p.words)
        /\ \A id \in DOMAIN p.words :
               /\ IsSequence(p.words[id])
               /\ \A i \in DOMAIN p.words[id] :
                      p.words[id][i].start \in Time /\ p.words[id][i].end \in Time

VARIABLES
    plan,       \* the manifest offered
    stage,      \* offered, scanning, reported; rejected, failed
    frame,      \* the next frame of the scan
    runs,       \* audioRuns: [key, first, endFrame, frames]
    captions,   \* [caption, startFrame, endFrame], endFrame Null while open
    chapters,   \* [label, startFrame, endFrame], likewise
    crossfades, \* those closed
    crossfade,  \* currentCrossfade or Null
    tracks      \* producerAudioTracks, one per run

vars == <<plan, stage, frame, runs, captions, chapters, crossfades, crossfade, tracks>>

OfRole(p, role) == { o \in ToSet(p.occurrences) : o.role = role }
InTime(p, time) == { i \in DOMAIN p.occurrences : active(time, p.occurrences[i].outputRange) }

\* Array.find and Array.filter: the first member, or all, of those at the places P.
nth(P, k)      == CHOOSE i \in P : Cardinality(P \cap 1 .. i) = k
found(s, P)    == IF P = {} THEN Null ELSE s[Min(P)]
filtered(s, P) == [k \in 1 .. Cardinality(P) |-> s[nth(P, k)]]

---------------------------------------------------------------------------------
(* Acceptance: freezeSnapshot and the checks it calls.                      *)

ValidRange(p, o) ==
    LET length == p.sources[o.sourceId]
    IN  /\ o.sourceRange.start.ticks >= 0 /\ o.sourceRange.duration.ticks >= 0
        /\ o.outputRange.start.ticks >= 0 /\ o.outputRange.duration.ticks >= 1
        /\ compare(rangeEnd(o.outputRange), p.outputDuration) <= 0
        /\ length # Null => compare(rangeEnd(o.sourceRange), length) <= 0
        /\ o.sourceRange.duration.ticks > 0 =>
               compare(multiply(o.outputRange.duration, o.retimeFactor),
                       o.sourceRange.duration) = 0

validateOccurrences(p) ==
    /\ \A i, j \in DOMAIN p.occurrences :
           p.occurrences[i].id = p.occurrences[j].id => i = j
    /\ \A i \in DOMAIN p.occurrences :
           /\ p.occurrences[i].sourceId \in DOMAIN p.sources
           /\ ValidRange(p, p.occurrences[i])

validateManifestMeaning(p) ==
    /\ p.frameCount = Expected[p.fixture].frameCount
    /\ asRate(p.rate) = asRate(Expected[p.fixture].rate)
    /\ frameCountForDuration(p.outputDuration, p.rate) = p.frameCount
    /\ validateOccurrences(p)

\* The cut list repeats the dialogue; a caption lies within its occurrence.
validateTalkManifest(p) ==
    LET dialogue == OfRole(p, "dialogue")
    IN  /\ dialogue # {}
        /\ Len(p.cutList) = Cardinality(dialogue)
        /\ ToSet(p.cutList) = dialogue
        /\ \A c \in ToSet(p.captions) : \E o \in dialogue :
               /\ o.id = c.occurrenceId
               /\ compare(c.outputRange.start, o.outputRange.start) >= 0
               /\ compare(rangeEnd(c.outputRange), rangeEnd(o.outputRange)) <= 0
        /\ Cardinality(OfRole(p, "music")) = 1

\* loadSpeechData: measured words come in the order of their starts.
validWords(p) ==
    \A o \in OfRole(p, "dialogue") :
        LET words == p.words[o.sourceId]
        IN  /\ o.sourceId \in DOMAIN p.words /\ words # <<>>
            /\ \A i \in DOMAIN words :
                   /\ compare(words[i].end, words[i].start) > 0
                   /\ i > 1 => compare(words[i].start, words[i - 1].start) >= 0

\* Mutant: the handle starts where the chapter does.
MutLateHandle(incoming, transition) ==
    [start |-> incoming.sourceRange.start, duration |-> transition.outputRange.duration]

\* The source range a chapter starts with when it is faded in.
incomingHandle(incoming, transition) ==
    [start |-> subtract(incoming.sourceRange.start,
                        multiply(transition.outputRange.duration, Half)),
     duration |-> transition.outputRange.duration]

boundaryTime(transition) ==
    add(transition.outputRange.start, multiply(transition.outputRange.duration, Half))

\* Mutant: the boundary need not be named and faded.
MutAnyBoundary(p, i) ==
    LET handle == incomingHandle(p.occurrences[i + 1], p.occurrences[i])
    IN  /\ handle.start.ticks >= 0
        /\ p.sources[p.occurrences[i + 1].sourceId] # Null
        /\ compare(rangeEnd(handle), p.sources[p.occurrences[i + 1].sourceId]) <= 0

\* compare throws on a source without a duration.
BoundedHandles(p, i) ==
    LET transition == p.occurrences[i]
        handle == incomingHandle(p.occurrences[i + 1], transition)
    IN  /\ \E b \in ToSet(p.boundaries) :
               compare(b.outputTime, boundaryTime(transition)) = 0 /\ ~b.clean
        /\ handle.start.ticks >= 0
        /\ p.sources[p.occurrences[i + 1].sourceId] # Null
        /\ compare(rangeEnd(handle), p.sources[p.occurrences[i + 1].sourceId]) <= 0

validateLongTransitions(p) ==
    /\ Cardinality({ o \in OfRole(p, "picture") : o.chapter }) = ChapterCount
    /\ Cardinality(OfRole(p, "transition")) = ChapterCount - 1
    /\ Len(p.boundaries) = ChapterCount + 1
    /\ \A i \in DOMAIN p.occurrences : p.occurrences[i].role = "transition" =>
           /\ i > 1 /\ p.occurrences[i - 1].chapter
           /\ p.occurrences[i].sourceId = p.occurrences[i - 1].sourceId
           /\ i < Len(p.occurrences) /\ p.occurrences[i + 1].chapter
           /\ frameCountForDuration(p.occurrences[i].outputRange.duration, p.rate)
                  = TransitionFrames
           /\ BoundedHandles(p, i)

freezeSnapshot(p) ==
    /\ validateManifestMeaning(p)
    /\ p.fixture = "T" => validateTalkManifest(p) /\ validWords(p)
    /\ p.fixture = "L" => validateLongTransitions(p)

---------------------------------------------------------------------------------
(* Speech: where the words of the takes are heard in the film.              *)

\* The time in the film at which an occurrence plays a time of its source.
filmTime(o, t) ==
    add(o.outputRange.start,
        multiply(subtract(t, o.sourceRange.start),
                 [num |-> o.retimeFactor.den, den |-> o.retimeFactor.num]))

\* Mutant: words are not cut to what the occurrence plays.
MutUnclipped(o, word) ==
    [start |-> filmTime(o, word.start),
     duration |-> subtract(filmTime(o, word.end), filmTime(o, word.start))]

\* The part of a word that an occurrence plays.
projected(o, word) ==
    LET from == filmTime(o, maxRational(word.start, o.sourceRange.start))
        to   == filmTime(o, minRational(word.end, rangeEnd(o.sourceRange)))
    IN  [start |-> from, duration |-> subtract(to, from)]

Heard(o, word) ==
    /\ compare(word.end, o.sourceRange.start) > 0
    /\ compare(word.start, rangeEnd(o.sourceRange)) < 0

\* The code sorts them by start; words of equal start are not in the plans.
projectSpeechRanges(p) ==
    UNION { { projected(o, word) : word \in { w \in ToSet(p.words[o.sourceId]) : Heard(o, w) } } :
            o \in OfRole(p, "dialogue") }

---------------------------------------------------------------------------------
(* One frame.                                                               *)

\* Mutant: the release counts from the start of the speech.
MutReleaseFromStart(ranges, time) ==
    LET ended    == { r \in ranges : compare(rangeEnd(r), time) <= 0 }
        previous == CHOOSE r \in ended : \A o \in ended : compare(o.start, r.start) <= 0
    IN  IF ended = {} THEN Zero
        ELSE subtract(One, clamp(ratioNumber(subtract(time, previous.start), Release)))

\* The music level on the ramp after the speech that ended, which is the last
\* in order of starts, and on the ramp before the speech that comes next.
releaseGain(ranges, time) ==
    LET ended    == { r \in ranges : compare(rangeEnd(r), time) <= 0 }
        previous == CHOOSE r \in ended : \A o \in ended : compare(o.start, r.start) <= 0
    IN  IF ended = {} THEN Zero
        ELSE subtract(One, clamp(ratioNumber(subtract(time, rangeEnd(previous)), Release)))

attackGain(ranges, time) ==
    LET ahead == { r \in ranges : compare(r.start, time) > 0 }
        next  == CHOOSE r \in ahead : \A o \in ahead : compare(r.start, o.start) <= 0
    IN  IF ahead = {} THEN Zero
        ELSE clamp(ratioNumber(subtract(time, subtract(next.start, Attack)), Attack))

musicGain(ranges, time) ==
    IF \E r \in ranges : active(time, r) THEN [gain |-> One, speech |-> TRUE]
    ELSE [gain |-> maxRational(releaseGain(ranges, time), attackGain(ranges, time)),
          speech |-> FALSE]

\* A still stays at its start.  localFrame drives the entrance of a panel.
layerFor(p, o, f, time) ==
    [occurrenceId |-> o.id, sourceId |-> o.sourceId, role |-> o.role, retime |-> o.retimeFactor,
     sourceTime |-> IF o.sourceRange.duration.ticks = 0 THEN asRational(o.sourceRange.start)
                    ELSE add(o.sourceRange.start,
                             multiply(subtract(time, o.outputRange.start), o.retimeFactor)),
     localFrame |-> f - ceilFrame(o.outputRange.start, p.rate),
     gain |-> Zero]

captionState(p, time) ==
    found(p.captions, { i \in DOMAIN p.captions : active(time, p.captions[i].outputRange) })

\* The transition of a time, if any: its two layers, or what it throws on.
Live(p, role, time) == { i \in InTime(p, time) : p.occurrences[i].role = role }
Transitions(p, time) == Live(p, "transition", time)

TransitionIndex(p, time) == Min(Transitions(p, time))

TransitionThrows(p, time) ==
    LET i == TransitionIndex(p, time)
        named == { b \in DOMAIN p.boundaries :
                     compare(p.boundaries[b].outputTime, boundaryTime(p.occurrences[i])) = 0 }
    IN  \/ i = Len(p.occurrences) \/ ~p.occurrences[i + 1].chapter
        \/ named = {} \/ p.boundaries[Min(named)].clean

lTransition(p, f, time) ==
    LET transition == p.occurrences[TransitionIndex(p, time)]
        chapter    == p.occurrences[TransitionIndex(p, time) + 1]
        elapsed    == subtract(time, transition.outputRange.start)
        progress   == clamp(ratioNumber(elapsed, transition.outputRange.duration))
    IN  <<[layerFor(p, transition, f, time) EXCEPT
               !.role = "transition-outgoing", !.gain = subtract(One, progress)],
          [occurrenceId |-> chapter.id, sourceId |-> chapter.sourceId,
           role |-> "transition-incoming", retime |-> [num |-> 1, den |-> 1],
           sourceTime |-> add(incomingHandle(chapter, transition).start, elapsed),
           localFrame |-> 0, gain |-> progress]>>

Layers(p, role, f, time) ==
    [i \in DOMAIN filtered(p.occurrences, Live(p, role, time)) |->
        layerFor(p, filtered(p.occurrences, Live(p, role, time))[i], f, time)]

frameThrows(p, f) ==
    LET time == outputTime(f, p.rate)
    IN  /\ p.fixture = "L"
        /\ IF Transitions(p, time) # {} THEN TransitionThrows(p, time)
           ELSE ~\E i \in InTime(p, time) : p.occurrences[i].chapter

frameState(p, f) ==
    LET time    == outputTime(f, p.rate)
        chapter == found(p.occurrences, { i \in InTime(p, time) : p.occurrences[i].chapter })
        fade    == lTransition(p, f, time)
        music   == Layers(p, "music", f, time)
        level   == musicGain(projectSpeechRanges(p), time)
        fading  == p.fixture = "L" /\ Transitions(p, time) # {}
    IN  [pictureLayers |-> IF fading THEN fade ELSE Layers(p, "picture", f, time),
         roles |-> CASE p.fixture = "T" ->
                          Layers(p, "dialogue", f, time)
                              \o [i \in DOMAIN music |-> [music[i] EXCEPT !.gain = level.gain]]
                              \o Layers(p, "sfx", f, time)
                     [] p.fixture = "L" ->
                          IF fading THEN fade
                          ELSE <<[layerFor(p, chapter, f, time) EXCEPT !.gain = One]>>
                     [] p.fixture = "M" -> <<>>,
         caption |-> IF p.fixture = "T" THEN captionState(p, time) ELSE Null,
         label |-> IF p.fixture = "L" /\ chapter # Null THEN chapter.sourceId ELSE Null]

---------------------------------------------------------------------------------
(* The scan of fixture-support: every frame once, in order.                 *)

audioKey(role) == <<role.occurrenceId, role.role>>

\* The runs of the key of a role that ended just before this frame.
prior(rs, f, role) == { i \in DOMAIN rs : rs[i].key = audioKey(role) /\ rs[i].endFrame = f }

Sample(f, role) == [frame |-> f, gain |-> role.gain, sourceTime |-> role.sourceTime]

\* recordAudioFrame for each role of a frame, whose keys are not the same: the
\* last prior run of a role goes on; a role without one starts a new run.
recordAudioFrame(rs, f, roles) ==
    LET goesOn(i) == { k \in DOMAIN roles :
                         i \in prior(rs, f, roles[k]) /\ i = Max(prior(rs, f, roles[k])) }
        starting  == filtered(roles, { k \in DOMAIN roles : prior(rs, f, roles[k]) = {} })
    IN  [i \in DOMAIN rs |->
            IF goesOn(i) = {} THEN rs[i]
            ELSE [rs[i] EXCEPT !.endFrame = f + 1,
                               !.frames = Append(@, Sample(f, roles[Min(goesOn(i))]))]]
        \o [k \in DOMAIN starting |->
               [key |-> audioKey(starting[k]), first |-> starting[k],
                endFrame |-> f + 1, frames |-> <<Sample(f, starting[k])>>]]

closed(list, f) ==
    IF list = <<>> \/ Last(list).endFrame # Null THEN list
    ELSE ReplaceAt(list, Len(list), [Last(list) EXCEPT !.endFrame = f])

\* compactGainSamples: both ends, and the two samples of every change.
changes(samples) == { i \in 2 .. Len(samples) : samples[i].gain # samples[i - 1].gain }

\* Mutant: the sample before a change is left out.
MutNoHold(samples) == {1, Len(samples)} \cup changes(samples)

kept(samples) == {1, Len(samples)} \cup changes(samples) \cup { i - 1 : i \in changes(samples) }

compactGainSamples(samples) == filtered(samples, kept(samples))

\* A constant gain is a volume; anything else is automation.  The rate comes
\* from the first two frames.
producerTrack(run, rate) ==
    LET points == compactGainSamples(run.frames)
    IN  [points |-> IF Len(points) > 2 \/ points[1].gain # Last(points).gain
                    THEN points ELSE <<points[1]>>,
         sourceRate |-> IF Len(run.frames) = 1 THEN Null
                        ELSE ratioNumber(subtract(run.frames[2].sourceTime, run.frames[1].sourceTime),
                                         outputTime(1, rate))]

---------------------------------------------------------------------------------
Init ==
    /\ plan \in Plans
    /\ stage = "offered" /\ frame = 0
    /\ runs = <<>> /\ captions = <<>> /\ chapters = <<>>
    /\ crossfades = <<>> /\ crossfade = Null /\ tracks = <<>>

Freeze ==
    /\ stage = "offered"
    /\ stage' = IF freezeSnapshot(plan) THEN "scanning" ELSE "rejected"
    /\ UNCHANGED <<plan, frame, runs, captions, chapters, crossfades, crossfade, tracks>>

\* One turn of the loop of talkingHeadSupport; framePayload, which only takes
\* the layers of M, is the same scan with nothing to play.
ScanTalk ==
    /\ stage = "scanning" /\ frame < plan.frameCount /\ plan.fixture \in {"M", "T"}
    /\ \E state \in {frameState(plan, frame)} :
       LET same == IF captions = <<>> \/ Last(captions).endFrame # Null
                   THEN state.caption = Null ELSE Last(captions).caption = state.caption
       IN  /\ runs' = recordAudioFrame(runs, frame, state.roles)
           /\ captions' = IF same THEN captions
                          ELSE closed(captions, frame) \o
                               IF state.caption = Null THEN <<>>
                               ELSE <<[caption |-> state.caption, startFrame |-> frame,
                                       endFrame |-> Null]>>
    /\ frame' = frame + 1
    /\ UNCHANGED <<plan, stage, chapters, crossfades, crossfade, tracks>>

\* One turn of the loop of longFilmSupport; an error ends the whole scan.
ScanFilm ==
    /\ stage = "scanning" /\ frame < plan.frameCount /\ plan.fixture = "L"
    /\ ~frameThrows(plan, frame)
    /\ \E state \in {frameState(plan, frame)} :
       LET pair   == [pictures |-> [i \in DOMAIN state.pictureLayers |-> state.pictureLayers[i].sourceId],
                      sounds |-> [i \in DOMAIN state.roles |-> state.roles[i].sourceId]]
           double == Len(pair.pictures) = 2 /\ Len(pair.sounds) = 2
       IN  /\ runs' = recordAudioFrame(runs, frame, state.roles)
           /\ chapters' = IF chapters # <<>> /\ Last(chapters).label = state.label THEN chapters
                          ELSE Append(closed(chapters, frame),
                                      [label |-> state.label, startFrame |-> frame, endFrame |-> Null])
           /\ crossfade' = IF ~double THEN Null
                           ELSE IF crossfade = Null
                                THEN [pair |-> pair, startFrame |-> frame, endFrame |-> frame + 1]
                                ELSE [crossfade EXCEPT !.endFrame = frame + 1]
           /\ crossfades' = IF ~double /\ crossfade # Null THEN Append(crossfades, crossfade)
                            ELSE crossfades
    /\ frame' = frame + 1
    /\ UNCHANGED <<plan, stage, captions, tracks>>

ScanThrows ==
    /\ stage = "scanning" /\ frame < plan.frameCount
    /\ frameThrows(plan, frame)
    /\ stage' = "failed"
    /\ UNCHANGED <<plan, frame, runs, captions, chapters, crossfades, crossfade, tracks>>

\* What is still open at the last frame ends there.
Report ==
    /\ stage = "scanning" /\ frame = plan.frameCount
    /\ stage' = "reported"
    /\ captions' = closed(captions, frame) /\ chapters' = closed(chapters, frame)
    /\ crossfades' = IF crossfade = Null THEN crossfades ELSE Append(crossfades, crossfade)
    /\ tracks' = [i \in DOMAIN runs |-> producerTrack(runs[i], plan.rate)]
    /\ UNCHANGED <<plan, frame, runs, crossfade>>

Next == Freeze \/ ScanTalk \/ ScanFilm \/ ScanThrows \/ Report

Spec == Init /\ [][Next]_vars

---------------------------------------------------------------------------------
TypeOK ==
    /\ stage \in {"offered", "scanning", "reported", "rejected", "failed"}
    /\ frame \in 0 .. plan.frameCount
    /\ \A i \in DOMAIN runs : runs[i].endFrame \in 1 .. frame
    /\ Len(tracks) \in {0, Len(runs)}

\* The frame that is scanned next, when there is one.
Scanned == stage = "scanning" /\ frame < plan.frameCount /\ ~frameThrows(plan, frame)
Shown(f) == ToSet(frameState(plan, f).pictureLayers) \cup ToSet(frameState(plan, f).roles)

\* No frame of an accepted manifest reads outside the source it shows or
\* plays, faded-in chapters and retimed occurrences included, unless it shows
\* what stands still in a source with a duration: what validateOccurrences and
\* validateLongTransitions are there to ensure for layerFor and lTransition.
Still(o) == o.sourceRange.duration.ticks = 0

HandlesSuffice ==
    Scanned => \A layer \in Shown(frame) :
        (\A o \in ToSet(plan.occurrences) :
            o.id = layer.occurrenceId /\ Still(o) => plan.sources[o.sourceId] = Null)
        => /\ layer.sourceTime.ticks >= 0
           /\ LET length == plan.sources[layer.sourceId]
              IN  length # Null => compare(layer.sourceTime, length) < 0

\* The scan of an accepted film gets through, unless its chapters leave a frame
\* uncovered or two of its boundaries are at the same time: no transition that
\* passed validateLongTransitions makes frameState throw for want of a chapter or
\* of its boundary.
Covered(p, f) == \E i \in InTime(p, outputTime(f, p.rate)) : p.occurrences[i].chapter

EveryFrameRenders ==
    stage = "failed" =>
        \/ \E f \in 0 .. plan.frameCount - 1 : ~Covered(plan, f)
        \/ \E i, j \in DOMAIN plan.boundaries :
              /\ i # j
              /\ compare(plan.boundaries[i].outputTime, plan.boundaries[j].outputTime) = 0

\* A panel of the montage enters on the first frame that shows it: layerFor
\* counts from ceilFrame of a start that need not be on a frame.
PanelsEnterOnTheirFirstFrame ==
    Scanned /\ plan.fixture = "M" =>
        \A layer \in Shown(frame) :
            layer.localFrame = Cardinality({ g \in 0 .. frame - 1 :
                \E before \in Shown(g) : before.occurrenceId = layer.occurrenceId })

\* The music is at its level for speech in exactly the frames in which a
\* dialogue plays a part of a measured word: projectSpeechRanges and the
\* source time of the dialogue agree, whatever the cut and the retime, if no
\* dialogue stands still.
DuckedWhileHeard ==
    Scanned /\ plan.fixture = "T" /\ (\A o \in OfRole(plan, "dialogue") : ~Still(o)) =>
        (musicGain(projectSpeechRanges(plan), outputTime(frame, plan.rate)).speech <=>
         \E role \in ToSet(frameState(plan, frame).roles) :
             /\ role.role = "dialogue"
             /\ \E word \in ToSet(plan.words[role.sourceId]) :
                    /\ compare(role.sourceTime, word.start) >= 0
                    /\ compare(role.sourceTime, word.end) < 0)

\* Between two frames the music moves no further than the steeper of its
\* ramps does in that time (linear-db), provided that speech which starts
\* later does not end earlier: musicGain releases from the last start.
EndsInOrder(ranges) ==
    \A r, q \in ranges :
        compare(r.start, q.start) <= 0 => compare(rangeEnd(r), rangeEnd(q)) <= 0

MusicIsGradual ==
    Scanned /\ plan.fixture = "T" /\ frame > 0 =>
        LET ranges  == projectSpeechRanges(plan)
            now     == musicGain(ranges, outputTime(frame, plan.rate)).gain
            before  == musicGain(ranges, outputTime(frame - 1, plan.rate)).gain
            steeper == ratioNumber(outputTime(1, plan.rate), minRational(Attack, Release))
        IN  EndsInOrder(ranges) =>
                /\ compare(subtract(now, before), steeper) <= 0
                /\ compare(subtract(before, now), steeper) <= 0

\* A chapter that is faded in goes on, when the transition is over, where its
\* last faded frame left it, if it starts in the film at the boundary and is
\* not retimed, which its fade does not follow: the handle of lTransition and the
\* layer of the chapter itself meet.
ChaptersGoOnWhereTheyFadedIn ==
    Scanned /\ plan.fixture = "L" /\ frame > 0 =>
        \A faded \in ToSet(frameState(plan, frame - 1).pictureLayers),
           layer \in ToSet(frameState(plan, frame).pictureLayers),
           i \in DOMAIN plan.occurrences :
            /\ faded.role = "transition-incoming" /\ layer.role = "picture"
            /\ faded.occurrenceId = layer.occurrenceId
            /\ plan.occurrences[i].role = "transition"
            /\ plan.occurrences[i + 1].id = layer.occurrenceId
            /\ layer.retime.num = layer.retime.den /\ ~Still(plan.occurrences[i + 1])
            /\ compare(plan.occurrences[i + 1].outputRange.start,
                       boundaryTime(plan.occurrences[i])) = 0
            => compare(subtract(layer.sourceTime, faded.sourceTime),
                       outputTime(1, plan.rate)) = 0

\* What the producer plays of a track in a frame: between two points of the
\* automation the gain is interpolated.
Played(track, f) ==
    LET before == { k \in DOMAIN track.points : track.points[k].frame <= f }
        left   == track.points[Max(before)]
        right  == track.points[Max(before) + 1]
        part   == reduced(f - left.frame, right.frame - left.frame)
    IN  IF Max(before) = Len(track.points) THEN left.gain
        ELSE add(left.gain, reduced(part.ticks * subtract(right.gain, left.gain).ticks,
                                    part.timescale * subtract(right.gain, left.gain).timescale))

\* The tracks play the edit: every role of every frame is in exactly one run,
\* no run plays a frame its role is not in, the automation gives back the gain
\* of each of its frames although most samples are dropped, and the rate taken
\* from the first two frames is that of the occurrence, if it does not stand still.
TracksPlayTheFrames ==
    stage = "reported" =>
        /\ \A f \in 0 .. plan.frameCount - 1 : \A role \in ToSet(frameState(plan, f).roles) :
               Cardinality({ i \in DOMAIN runs : runs[i].key = audioKey(role)
                               /\ f \in runs[i].frames[1].frame .. runs[i].endFrame - 1 }) = 1
        /\ \A i \in DOMAIN runs :
               /\ \A f \in runs[i].frames[1].frame .. runs[i].endFrame - 1 :
                      \E role \in ToSet(frameState(plan, f).roles) :
                          audioKey(role) = runs[i].key /\ compare(role.gain, Played(tracks[i], f)) = 0
               /\ tracks[i].sourceRate # Null
                  /\ (\A o \in ToSet(plan.occurrences) :
                          o.id = runs[i].first.occurrenceId => ~Still(o)) =>
                      compare(tracks[i].sourceRate,
                              reduced(runs[i].first.retime.num, runs[i].first.retime.den)) = 0

\* The captions and chapters reported are those of the frames they span, and
\* no other frame has one; so are the crossfades, as long as a frame without a
\* transition lies between any two.
Apart(p) ==
    \A i, j \in DOMAIN p.occurrences :
        /\ p.occurrences[i].role = "transition" /\ p.occurrences[j].role = "transition"
        /\ i < j
        => \E f \in 0 .. p.frameCount - 1 :
               /\ compare(outputTime(f, p.rate), rangeEnd(p.occurrences[i].outputRange)) >= 0
               /\ compare(outputTime(f, p.rate), p.occurrences[j].outputRange.start) < 0

Covering(list, f) == { k \in DOMAIN list : f \in list[k].startFrame .. list[k].endFrame - 1 }

ListsMatchTheFrames ==
    stage = "reported" =>
        \A f \in 0 .. plan.frameCount - 1 : \A state \in {frameState(plan, f)} :
                /\ { captions[k].caption : k \in Covering(captions, f) } = {state.caption} \ {Null}
                /\ Cardinality(Covering(captions, f)) <= 1
                /\ plan.fixture = "L" =>
                       /\ { chapters[k].label : k \in Covering(chapters, f) } = {state.label}
                       /\ Apart(plan) =>
                              { crossfades[k].pair.pictures : k \in Covering(crossfades, f) } =
                              IF Transitions(plan, outputTime(f, plan.rate)) = {} THEN {}
                              ELSE {[i \in DOMAIN state.pictureLayers |->
                                         state.pictureLayers[i].sourceId]}

\* What an accepted manifest says of a frame can be shown: every layer of it has
\* its source, the scan gets through, and panels enter when they are first seen.
AcceptedPlansRender ==
    TypeOK /\ HandlesSuffice /\ EveryFrameRenders /\ PanelsEnterOnTheirFirstFrame

\* What the adapter reports of a project is what its frames are.
ReportFollowsFrames == TracksPlayTheFrames /\ ListsMatchTheFrames
=================================================================================
