-------------------------- MODULE MediaProbeProofs --------------------------
(***************************************************************************)
(* Proofs about MediaProbe, for any limits and any content of the file:    *)
(* types, that a cancelled probe stops, and that the facts of a video      *)
(* track are those of its samples.  The last rests on what the locals of   *)
(* the scan say of the samples read so far (ScanInv).                      *)
(***************************************************************************)
EXTENDS MediaProbe, FiniteSetTheorems, SequenceTheorems, TLAPS

(***************************************************************************)
(* Types.  Only the step of the scan needs an argument.                    *)
(***************************************************************************)
LEMMA DeltaType ==
    ASSUME NEW t \in Timing, NEW pts \in Times \cup {None}
    PROVE  Delta(t, pts) \in Times \cup {None}
<1> t.previous \in Times \cup {None}
  BY DEF Timing
<1>1. CASE t.previous # None /\ pts # None /\ pts > t.previous
  <2> t.previous \in Times /\ pts \in Times
    BY <1>1
  <2> pts - t.previous \in Times
    BY <1>1, BoundsAssumption DEF Times
  <2> QED
    BY <1>1 DEF Delta
<1>2. CASE ~ (t.previous # None /\ pts # None /\ pts > t.previous)
  BY <1>2 DEF Delta
<1> QED
  BY <1>1, <1>2

LEMMA StoreType ==
    ASSUME NEW stored \in Seq(Times), Len(stored) <= MaxStored,
           NEW pts \in Times \cup {None}
    PROVE  /\ Store(stored, pts) \in Seq(Times)
           /\ Len(Store(stored, pts)) <= MaxStored
<1>1. CASE pts # None /\ Len(stored) < MaxStored
  <2> pts \in Times
    BY <1>1
  <2> /\ Append(stored, pts) \in Seq(Times)
      /\ Len(Append(stored, pts)) = Len(stored) + 1
    OBVIOUS
  <2> QED
    BY <1>1, StoredAssumption DEF Store
<1>2. CASE ~ (pts # None /\ Len(stored) < MaxStored)
  BY <1>2 DEF Store
<1> QED
  BY <1>1, <1>2

LEMMA ScannedType ==
    ASSUME NEW t \in Timing, Len(t.stored) <= MaxStored,
           NEW pts \in Times \cup {None}
    PROVE  /\ Scanned(t, pts) \in Timing
           /\ Len(Scanned(t, pts).stored) <= MaxStored
           /\ Scanned(t, pts).scannedCount = t.scannedCount + 1
<1> DEFINE delta == Delta(t, pts)
           stored == Store(t.stored, pts)
           firstDelta == IF t.firstDelta = None THEN delta ELSE t.firstDelta
           varies == Varies(t, delta)
           count == t.deltaCount + (IF delta # None THEN 1 ELSE 0)
<1>1. /\ t.stored \in Seq(Times)
      /\ t.firstDelta \in Times \cup {None}
      /\ t.hasVariableDeltas \in BOOLEAN
      /\ t.deltaCount \in Nat
      /\ t.scannedCount \in Nat
  BY DEF Timing
<1>2. delta \in Times \cup {None}
  BY DeltaType
<1>3. stored \in Seq(Times) /\ Len(stored) <= MaxStored
  BY <1>1, StoreType
<1>4. firstDelta \in Times \cup {None} /\ count \in Nat
  BY <1>1, <1>2
<1>5. varies \in BOOLEAN
  BY <1>1, Zenon DEF Varies
<1>6. Scanned(t, pts) =
        [stored |-> stored, previous |-> pts, firstDelta |-> firstDelta,
         hasVariableDeltas |-> varies, deltaCount |-> count,
         scannedCount |-> t.scannedCount + 1]
  BY DEF Scanned
<1> HIDE DEF delta, stored, firstDelta, varies, count
<1> QED
  BY <1>1, <1>3, <1>4, <1>5, <1>6 DEF Timing

LEMMA NoTimingType == NoTiming \in Timing /\ Len(NoTiming.stored) = 0
  BY DEF NoTiming, Timing

\* What cancellation is measured by: where the task was when it was cancelled
\* bounds where it can be now.
WhereCancelled ==
    /\ stage \in {"start", "hash", "read", "digest", "image", "load"} => begun = 0
    /\ cancelled =>
        /\ asked.stage = "start" => stage \in {"start", "done"}
        /\ asked.stage \in {"hash", "read"} => stage \in {asked.stage, "done"}
        /\ asked.stage = "digest" => stage \in {"digest", "hash", "done"}
        /\ stage = "digest" => asked.stage = "digest" /\ hashed = asked.hashed
        /\ asked.stage = "load" =>
             /\ asked.begun = 0
             /\ stage \in {"load", "tracks", "done"}

ProbeInv == TypeOK /\ WhereCancelled /\ CancelStopsTheProbe

LEMMA InitInv == Init => ProbeInv
<1> SUFFICES ASSUME Init PROVE ProbeInv
  OBVIOUS
<1> USE NoTimingType, BoundsAssumption, StoredAssumption, NoneAssumption DEF Init
<1>1. TypeOK
  BY DEF TypeOK, Stage, Result
<1>2. WhereCancelled /\ CancelStopsTheProbe
  BY DEF WhereCancelled, CancelStopsTheProbe, cancelled
<1> QED
  BY <1>1, <1>2 DEF ProbeInv

(***************************************************************************)
(* The types are preserved, action by action.                              *)
(***************************************************************************)
LEMMA NextTypes == TypeOK /\ [Next]_vars => TypeOK'
<1> SUFFICES ASSUME TypeOK, [Next]_vars PROVE TypeOK'
  OBVIOUS
<1> USE BoundsAssumption DEF TypeOK, progress, Goto, End
<1>1. CASE Cancel
  <2> asked' \in Progress
    BY <1>1 DEF Cancel, Progress, Timing
  <2> QED
    BY <1>1 DEF Cancel
<1>2. CASE Cancelled \/ Unreadable \/ Corrupt \/ ImageFacts \/ Metadata
  BY <1>2 DEF Cancelled, Unreadable, Corrupt, ImageFacts, Metadata,
              Checked, Told, Stage, Result
<1>3. CASE Trapped
  BY <1>3 DEF Trapped, Stage, Result
<1>4. CASE OpenFile \/ HashEnd \/ LoadTracks \/ ScanEnd \/ TracksEnd
  BY <1>4 DEF OpenFile, HashEnd, LoadTracks, ScanEnd, TracksEnd, Stage
<1>5. CASE HashCheck \/ HashRead \/ HashChunk
  BY <1>5 DEF HashCheck, HashRead, HashChunk, Stage
<1>6. CASE NextTrack
  BY <1>6 DEF NextTrack, Stage
<1>7. CASE AudioFacts
  BY <1>7 DEF AudioFacts, Stage
<1>8. CASE ReadSample
  <2> PICK s \in Sample :
        /\ read' = Append(read, s)
        /\ \/ UNCHANGED <<stage, result, timing>>
           \/ s.shown /\ timing' = Scanned(timing, s.pts) /\ UNCHANGED <<stage, result>>
           \/ stage' = "done" /\ result' = "cancelled" /\ UNCHANGED timing
    BY <1>8 DEF ReadSample
  <2>1. read' \in Seq(Sample)
    OBVIOUS
  <2>2. s.pts \in Times \cup {None}
    BY DEF Sample
  <2>3. timing' \in Timing /\ Len(timing'.stored) <= MaxStored
    BY <2>2, ScannedType
  <2>4. stage' \in Stage /\ result' \in Result /\ (stage' = "done" <=> result' # "none")
    BY DEF Stage, Result
  <2> QED
    BY <1>8, <2>1, <2>3, <2>4 DEF ReadSample
<1>9. CASE MakeVideoFacts
  BY <1>9 DEF MakeVideoFacts, VideoFacts, Timing, Stage
<1>10. CASE UNCHANGED vars
  BY <1>10 DEF vars
<1> QED
  BY <1>1, <1>2, <1>3, <1>4, <1>5, <1>6, <1>7, <1>8, <1>9, <1>10 DEF Next, Inspect

(***************************************************************************)
(* Cancellation.                                                           *)
(***************************************************************************)
LEMMA NextCancelled ==
    ProbeInv /\ [Next]_vars => WhereCancelled' /\ CancelStopsTheProbe'
<1> SUFFICES ASSUME ProbeInv, [Next]_vars
             PROVE  WhereCancelled' /\ CancelStopsTheProbe'
  OBVIOUS
<1> USE DEF ProbeInv, WhereCancelled, CancelStopsTheProbe, cancelled,
            progress, Goto, End
<1>0. timing.scannedCount \in Nat /\ begun \in Nat /\ hashed \in Nat
  BY BoundsAssumption DEF TypeOK, Timing
<1>1. CASE Cancel
  <2> asked' # None => asked' = [stage |-> stage, hashed |-> hashed,
                         begun |-> begun, scanned |-> timing.scannedCount]
    BY <1>1 DEF Cancel
  <2> QED
    BY <1>1, <1>0 DEF Cancel, TypeOK
<1>2. CASE Cancelled \/ Unreadable \/ Corrupt \/ Trapped
  BY <1>2 DEF Cancelled, Unreadable, Corrupt, Trapped
<1>3. CASE ImageFacts \/ Metadata
  BY <1>3 DEF ImageFacts, Metadata
<1>4. CASE OpenFile \/ HashCheck \/ HashRead \/ HashChunk \/ HashEnd
  <2>1. CASE OpenFile \/ HashCheck \/ HashRead \/ HashEnd
    BY <2>1 DEF OpenFile, HashCheck, HashRead, HashEnd
  <2>2. CASE HashChunk
    <3>1. stage = "digest" /\ stage' = "hash" /\ begun = 0 /\ hashed' = hashed + 1
          /\ UNCHANGED <<result, asked, begun, timing>>
      BY <2>2 DEF HashChunk
    <3>2. result # "success"
      BY <3>1 DEF TypeOK
    <3>3. QED
      BY <3>1, <3>2
  <2>3. QED
    BY <1>4, <2>1, <2>2
<1>5. CASE LoadTracks \/ ScanEnd \/ TracksEnd \/ AudioFacts \/ MakeVideoFacts
  BY <1>5, <1>0 DEF LoadTracks, ScanEnd, TracksEnd, AudioFacts, MakeVideoFacts
<1>6. CASE NextTrack
  BY <1>6 DEF NextTrack
<1>7. CASE ReadSample
  BY <1>7 DEF ReadSample
<1>8. CASE UNCHANGED vars
  BY <1>8 DEF vars
<1> QED
  BY <1>1, <1>2, <1>3, <1>4, <1>5, <1>6, <1>7, <1>8 DEF Next, Inspect

LEMMA Invariance == Spec => []ProbeInv
<1>1. ProbeInv /\ [Next]_vars => ProbeInv'
  BY NextTypes, NextCancelled DEF ProbeInv
<1> QED
  BY InitInv, <1>1, PTL DEF Spec

\* inspect keeps its state well formed.
THEOREM ProbeTypes == Spec => []TypeOK
<1>1. ProbeInv => TypeOK
  BY DEF ProbeInv
<1> QED
  BY Invariance, <1>1, PTL

\* A cancelled probe digests no further chunk, begins no further track and
\* counts no further sample, and does not succeed if it was cancelled while it
\* hashed the file or loaded its tracks.
THEOREM CancelledProbeStops == Spec => []CancelStopsTheProbe
<1>1. ProbeInv => CancelStopsTheProbe
  BY DEF ProbeInv
<1> QED
  BY Invariance, <1>1, PTL

(***************************************************************************)
(* What the locals of the scan say of the samples read so far.             *)
(***************************************************************************)

\* previous is the time of the last sample.
CountInv ==
    /\ IsFiniteSet(Shown) /\ timing.scannedCount = Cardinality(Shown)
    /\ \/ Shown = {} /\ timing.previous = None
       \/ \E m \in Shown : (\A k \in Shown : k <= m) /\ timing.previous = PTS(m)

StoredInv ==
    /\ Len(timing.stored) =
           IF Cardinality(Numeric) < MaxStored THEN Cardinality(Numeric) ELSE MaxStored
    /\ \A n \in Numeric :
           Cardinality(Numeric \cap 1 .. n) <= MaxStored =>
               timing.stored[Cardinality(Numeric \cap 1 .. n)] = PTS(n)

\* firstDelta is one of the intervals, and all of them while none varies.
DeltaInv ==
    /\ IsFiniteSet(Later) /\ timing.deltaCount = Cardinality(Later)
    /\ timing.firstDelta = None <=> Later = {}
    /\ Later # {} => \E p \in Later : Interval(p) = timing.firstDelta
    /\ timing.hasVariableDeltas <=> \E p, q \in Later : Interval(p) # Interval(q)

\* Samples in order have one time more than intervals, and times that lie at the
\* steps from the first to previous while no interval varies.
Stepwise(first) ==
    /\ timing.previous = first + timing.firstDelta * timing.deltaCount
    /\ \A x \in Times : x \in Displayed <=>
          \E n \in 0 .. timing.deltaCount : x = first + timing.firstDelta * n

CadenceInv ==
    Ordered /\ Shown # {} =>
        /\ IsFiniteSet(Displayed) /\ Cardinality(Displayed) = timing.deltaCount + 1
        /\ timing.deltaCount = 0 => Displayed = {timing.previous}
        /\ timing.deltaCount > 0 /\ ~ timing.hasVariableDeltas =>
              \E first \in Displayed : Stepwise(first)

ScanInv == CountInv /\ StoredInv /\ DeltaInv /\ CadenceInv

\* The locals are behind only where the scan was cancelled, and the facts are made
\* of them once.
FactsInv ==
    /\ ScanInv \/ (stage = "done" /\ video = None)
    /\ stage \in {"scan", "facts"} => video = None
    /\ video # None =>
          /\ video.presentationTimestamps = timing.stored
          /\ video.deltaCount = timing.deltaCount
          /\ video.isVariableFrameRate =
                IF timing.deltaCount = 0 THEN None ELSE timing.hasVariableDeltas

LEMMA ShownTypes ==
  ASSUME TypeOK
  PROVE  /\ read \in Seq(Sample) /\ Len(read) \in Nat /\ DOMAIN read = 1 .. Len(read)
         /\ Numeric \subseteq Shown /\ Shown \subseteq 1 .. Len(read)
         /\ \A n \in Shown : PTS(n) \in Times \cup {None}
         /\ \A n \in Numeric : PTS(n) \in Times /\ PTS(n) \in Nat
<1>1. read \in Seq(Sample) /\ Len(read) \in Nat /\ DOMAIN read = 1 .. Len(read)
  BY DEF TypeOK
<1>2. Numeric \subseteq Shown /\ Shown \subseteq 1 .. Len(read)
  BY <1>1 DEF Numeric, Shown
<1>3. \A n \in 1 .. Len(read) : read[n] \in Sample
  BY <1>1
<1>4. \A n \in Shown : PTS(n) \in Times \cup {None}
  BY <1>2, <1>3 DEF Sample, PTS
<1>5. \A n \in Numeric : PTS(n) \in Times
  BY <1>2, <1>4 DEF Numeric, PTS
<1>6. QED
  BY <1>1, <1>2, <1>4, <1>5, BoundsAssumption DEF Times

LEMMA MoreSamples ==
  ASSUME TypeOK, NEW s \in Sample, read' = Append(read, s), NEW n, n = Len(read) + 1
  PROVE  /\ n \in Nat /\ n \notin Shown /\ \A k \in Shown : k < n /\ k \in Nat
         /\ Shown' = IF s.shown THEN Shown \cup {n} ELSE Shown
         /\ Numeric' = IF s.shown /\ s.pts # None THEN Numeric \cup {n} ELSE Numeric
         /\ PTS(n)' = s.pts /\ \A k \in Shown : PTS(k)' = PTS(k)
<1>1. /\ Len(read) \in Nat /\ n \in Nat /\ DOMAIN read = 1 .. Len(read)
      /\ Shown \subseteq 1 .. Len(read)
  BY ShownTypes
<1>2. /\ DOMAIN read' = 1 .. n /\ read'[n] = s
      /\ \A k \in 1 .. Len(read) : read'[k] = read[k]
  BY ShownTypes
<1>3. 1 .. n = (1 .. Len(read)) \cup {n} /\ n \notin 1 .. Len(read)
  BY <1>1
<1>4. \A k \in Shown : k < n /\ k \in Nat
  BY <1>1
<1>5. \A k : k \in Shown' <=> k \in Shown \/ (k = n /\ s.shown)
  BY <1>1, <1>2, <1>3 DEF Shown
<1>6. \A k : k \in Numeric' <=> k \in Numeric \/ (k = n /\ s.shown /\ s.pts # None)
  <2>1. \A k : k \in Numeric' <=> k \in Shown' /\ read'[k].pts # None
    BY DEF Numeric
  <2>2. \A k : k \in Numeric <=> k \in Shown /\ read[k].pts # None
    BY DEF Numeric
  <2>3. \A k \in Shown : read'[k] = read[k]
    BY <1>1, <1>2
  <2>4. n \notin Shown
    BY <1>1, <1>3
  <2> TAKE k
  <2>5. CASE k = n
    BY <1>2, <1>5, <2>1, <2>2, <2>4, <2>5
  <2>6. CASE k # n
    BY <1>5, <2>1, <2>2, <2>3, <2>6
  <2>7. QED
    BY <2>5, <2>6
<1>7. n \notin Shown
  BY <1>1, <1>3
<1>8. PTS(n)' = s.pts /\ \A k \in Shown : PTS(k)' = PTS(k)
  BY <1>1, <1>2 DEF PTS
<1>9. Shown' = IF s.shown THEN Shown \cup {n} ELSE Shown
  BY <1>5
<1>10. Numeric' = IF s.shown /\ s.pts # None THEN Numeric \cup {n} ELSE Numeric
  BY <1>6
<1>11. QED
  BY <1>1, <1>4, <1>7, <1>8, <1>9, <1>10

\* A buffer that only marks a boundary is as good as not read.
LEMMA BoundaryStep ==
  ASSUME TypeOK, ScanInv, NEW s \in Sample, ~ s.shown, read' = Append(read, s),
         timing' = timing
  PROVE  ScanInv'
<1>1. /\ Shown' = Shown /\ Numeric' = Numeric
      /\ \A k \in Shown : PTS(k)' = PTS(k)
  BY MoreSamples
<1>2. Numeric \subseteq Shown
  BY ShownTypes
<1>3. CountInv'
  BY <1>1 DEF ScanInv, CountInv
<1>4. StoredInv'
  BY <1>1, <1>2 DEF ScanInv, StoredInv
<1>5. Later' = Later /\ \A p \in Later : Interval(p)' = Interval(p)
  <2>1. \A m, n : Consecutive(m, n)' <=> Consecutive(m, n)
    BY <1>1 DEF Consecutive
  <2>2. \A p \in Numeric \X Numeric : PTS(p[1])' = PTS(p[1]) /\ PTS(p[2])' = PTS(p[2])
    BY <1>1, <1>2
  <2>3. QED
    BY <1>1, <2>1, <2>2 DEF Later, Interval
<1>6. DeltaInv'
  BY <1>5 DEF ScanInv, DeltaInv
<1>7. Displayed' = Displayed /\ Ordered' = Ordered
  BY <1>1 DEF Displayed, Ordered
<1>8. CadenceInv'
  BY <1>1, <1>7 DEF ScanInv, CadenceInv, Stepwise
<1>9. QED
  BY <1>3, <1>4, <1>6, <1>8 DEF ScanInv

\* A sample that is displayed: each part of the invariant in turn.
LEMMA CountStep ==
  ASSUME TypeOK, ScanInv, NEW s \in Sample, s.shown, read' = Append(read, s),
         timing' = Scanned(timing, s.pts)
  PROVE  CountInv'
<1>1. PICK n : n = Len(read) + 1
  OBVIOUS
<1>2. /\ n \notin Shown /\ Shown' = Shown \cup {n} /\ PTS(n)' = s.pts
      /\ n \in Nat /\ \A k \in Shown : k < n /\ k \in Nat
  BY <1>1, MoreSamples
<1>3. IsFiniteSet(Shown) /\ timing.scannedCount = Cardinality(Shown)
  BY DEF ScanInv, CountInv
<1>4. IsFiniteSet(Shown') /\ Cardinality(Shown') = Cardinality(Shown) + 1
  BY <1>2, <1>3, FS_AddElement
<1>5. timing'.scannedCount = timing.scannedCount + 1 /\ timing'.previous = s.pts
  BY DEF Scanned
<1>6. n \in Shown' /\ \A k \in Shown' : k <= n
  BY <1>2
<1>7. QED
  BY <1>2, <1>3, <1>4, <1>5, <1>6 DEF CountInv

LEMMA StoredStep ==
  ASSUME TypeOK, ScanInv, NEW s \in Sample, s.shown, read' = Append(read, s),
         timing' = Scanned(timing, s.pts)
  PROVE  StoredInv'
<1>1. PICK n : n = Len(read) + 1
  OBVIOUS
<1>2. /\ n \notin Shown /\ PTS(n)' = s.pts /\ n \in Nat
      /\ \A k \in Shown : k < n /\ k \in Nat
      /\ Numeric' = IF s.pts # None THEN Numeric \cup {n} ELSE Numeric
      /\ \A k \in Shown : PTS(k)' = PTS(k)
  BY <1>1, MoreSamples
<1>3. timing'.stored = Store(timing.stored, s.pts)
  BY DEF Scanned
<1>4. /\ IsFiniteSet(Numeric) /\ Cardinality(Numeric) \in Nat /\ Numeric \subseteq Shown
  BY ShownTypes, FS_Subset, FS_CardinalityType DEF ScanInv, CountInv
<1>5. /\ Len(timing.stored) =
             IF Cardinality(Numeric) < MaxStored THEN Cardinality(Numeric) ELSE MaxStored
      /\ \A k \in Numeric :
             Cardinality(Numeric \cap 1 .. k) <= MaxStored =>
                 timing.stored[Cardinality(Numeric \cap 1 .. k)] = PTS(k)
  BY DEF ScanInv, StoredInv
<1>6. CASE s.pts = None
  <2>1. Numeric' = Numeric /\ timing'.stored = timing.stored
    BY <1>2, <1>3, <1>6 DEF Store
  <2>2. \A k \in Numeric : PTS(k)' = PTS(k)
    BY <1>2, <1>4
  <2>3. QED
    BY <1>5, <2>1, <2>2 DEF StoredInv
<1>7. CASE s.pts # None
  <2> DEFINE rank(k) == Cardinality(Numeric \cap 1 .. k)
  <2>1. Numeric' = Numeric \cup {n} /\ n \notin Numeric
    BY <1>2, <1>4, <1>7
  <2>2. Cardinality(Numeric') = Cardinality(Numeric) + 1
    BY <1>4, <2>1, FS_AddElement
  <2>3. \A k \in Numeric : Numeric' \cap 1 .. k = Numeric \cap 1 .. k
    BY <1>2, <1>4, <2>1
  <2>4. \A k \in Numeric : rank(k) \in 1 .. Cardinality(Numeric)
    <3> TAKE k \in Numeric
    <3>1. /\ Numeric \cap 1 .. k \subseteq Numeric /\ k \in Numeric \cap 1 .. k
      <4>1. k \in 1 .. k
        BY <1>4, ShownTypes
      <4>2. QED
        BY <4>1
    <3>2. /\ IsFiniteSet(Numeric \cap 1 .. k) /\ rank(k) <= Cardinality(Numeric)
          /\ rank(k) \in Nat
      BY <1>4, <3>1, FS_Subset, FS_CardinalityType
    <3>3. rank(k) # 0
      BY <3>1, <3>2, FS_EmptySet
    <3>4. QED
      BY <1>4, <3>2, <3>3
  <2>5. Numeric' \cap 1 .. n = Numeric'
    <3>1. \A k \in Numeric' : k \in 1 .. n
      <4>1. n \in 1 .. n
        BY <1>1, ShownTypes
      <4>2. \A k \in Numeric : k \in 1 .. n
        BY <1>1, <1>2, <1>4, ShownTypes
      <4>3. QED
        BY <2>1, <4>1, <4>2
    <3>2. QED
      BY <3>1
  <2>6. timing.stored \in Seq(Times) /\ MaxStored \in Nat
    BY StoredAssumption DEF TypeOK, Timing
  <2>7. CASE Cardinality(Numeric) < MaxStored
    <3>1. timing'.stored = Append(timing.stored, s.pts) /\ Len(timing.stored) = Cardinality(Numeric)
      BY <1>3, <1>5, <1>7, <2>7 DEF Store
    <3>2. s.pts \in Times
      BY <1>7 DEF Sample
    <3>3. /\ Len(timing'.stored) = Cardinality(Numeric) + 1
          /\ timing'.stored[Cardinality(Numeric) + 1] = s.pts
          /\ \A i \in 1 .. Cardinality(Numeric) : timing'.stored[i] = timing.stored[i]
      BY <2>6, <3>1, <3>2
    <3>4. Len(timing'.stored) = IF Cardinality(Numeric') < MaxStored THEN Cardinality(Numeric')
                                                                     ELSE MaxStored
      BY <1>4, <2>2, <2>6, <2>7, <3>3
    <3>5. \A k \in Numeric : rank(k) <= MaxStored => timing'.stored[rank(k)] = PTS(k)'
      BY <1>2, <1>4, <1>5, <2>4, <3>3
    <3>6. timing'.stored[Cardinality(Numeric' \cap 1 .. n)] = PTS(n)'
      BY <1>2, <2>2, <2>5, <3>3
    <3>7. \A k \in Numeric' :
             Cardinality(Numeric' \cap 1 .. k) <= MaxStored =>
                 timing'.stored[Cardinality(Numeric' \cap 1 .. k)] = PTS(k)'
      BY <2>1, <2>3, <3>5, <3>6
    <3>8. QED
      BY <3>4, <3>7 DEF StoredInv
  <2>8. CASE ~ (Cardinality(Numeric) < MaxStored)
    <3>1. timing'.stored = timing.stored /\ Len(timing.stored) = MaxStored
      BY <1>3, <1>5, <2>8 DEF Store
    <3>2. Len(timing'.stored) = IF Cardinality(Numeric') < MaxStored THEN Cardinality(Numeric')
                                                                     ELSE MaxStored
      BY <1>4, <2>2, <2>6, <2>8, <3>1
    <3>3. \A k \in Numeric : rank(k) <= MaxStored => timing'.stored[rank(k)] = PTS(k)'
      <4>1. \A k \in Numeric : PTS(k)' = PTS(k)
        BY <1>2, <1>4
      <4>2. QED
        BY <1>5, <3>1, <4>1
    <3>4. ~ (Cardinality(Numeric' \cap 1 .. n) <= MaxStored)
      <4>1. Cardinality(Numeric' \cap 1 .. n) = Cardinality(Numeric) + 1
        BY <2>2, <2>5
      <4>2. QED
        BY <1>4, <2>6, <2>8, <4>1
    <3>5. \A k \in Numeric' :
             Cardinality(Numeric' \cap 1 .. k) <= MaxStored =>
                 timing'.stored[Cardinality(Numeric' \cap 1 .. k)] = PTS(k)'
      BY <2>1, <2>3, <3>3, <3>4
    <3>6. QED
      BY <3>2, <3>5 DEF StoredInv
  <2>9. QED
    BY <2>7, <2>8
<1>8. QED
  BY <1>6, <1>7

\* The one new interval is that from the last sample, if its time is later.
LEMMA LaterStep ==
  ASSUME TypeOK, ScanInv, NEW s \in Sample, s.shown, read' = Append(read, s)
  PROVE  LET delta == Delta(timing, s.pts)
         IN  /\ \A p \in Later : Interval(p)' = Interval(p)
             /\ delta = None => Later' = Later
             /\ delta # None => \E p : /\ p \notin Later /\ Later' = Later \cup {p}
                                      /\ Interval(p)' = delta
<1>1. PICK n : n = Len(read) + 1
  OBVIOUS
<1>2. /\ n \notin Shown /\ PTS(n)' = s.pts /\ n \in Nat /\ Shown' = Shown \cup {n}
      /\ \A k \in Shown : k < n /\ k \in Nat
      /\ Numeric' = IF s.pts # None THEN Numeric \cup {n} ELSE Numeric
      /\ \A k \in Shown : PTS(k)' = PTS(k)
  BY <1>1, MoreSamples
<1>3. Numeric \subseteq Shown
  BY ShownTypes
<1>4. \A i \in Shown, k \in Shown : Consecutive(i, k)' <=> Consecutive(i, k)
  BY <1>2 DEF Consecutive
<1>5. \A p \in Numeric \X Numeric : p \in Later' <=> p \in Later
  <2>1. \A i, k \in Numeric : PTS(i)' = PTS(i) /\ PTS(k)' = PTS(k)
    BY <1>2, <1>3
  <2>2. \A i, k \in Numeric : <<i, k>> \in Later' <=> <<i, k>> \in Later
    BY <1>2, <1>3, <1>4, <2>1 DEF Later
  <2>3. QED
    BY <2>2
<1>6. Later \subseteq Numeric \X Numeric /\ Later' \subseteq Numeric' \X Numeric'
  BY DEF Later
<1>7. \A p \in Later : Interval(p)' = Interval(p)
  BY <1>2, <1>3, <1>6 DEF Interval
<1>8. \A p \in Later' : p[1] \in Numeric /\ p[2] \in Numeric'
  <2> TAKE p \in Later'
  <2>1. p[1] \in Numeric' /\ p[2] \in Numeric' /\ p[1] < p[2]
    BY DEF Later, Consecutive
  <2>2. p[1] # n
    BY <1>2, <1>3, <2>1
  <2>3. QED
    BY <1>2, <2>1, <2>2
<1>9. CASE Shown = {}
  <2>1. timing.previous = None
    BY <1>9 DEF ScanInv, CountInv
  <2>2. Later' = Later
    BY <1>3, <1>5, <1>6, <1>8, <1>9
  <2>3. QED
    BY <1>7, <2>1, <2>2 DEF Delta
<1>10. CASE Shown # {}
  <2>1. PICK m \in Shown : (\A k \in Shown : k <= m) /\ timing.previous = PTS(m)
    BY <1>10 DEF ScanInv, CountInv
  <2>2. \A i \in Numeric : Consecutive(i, n)' <=> i = m
    BY <1>2, <1>3, <2>1 DEF Consecutive
  <2>3. \A i \in Numeric : <<i, n>> \in Later' <=>
            i = m /\ s.pts # None /\ s.pts > PTS(m)
    BY <1>2, <1>3, <2>2 DEF Later
  <2>4. \A p \in Later' : p \in Later \/ p = <<m, n>>
    <3> TAKE p \in Later'
    <3>1. p = <<p[1], p[2]>> /\ p[1] \in Numeric /\ p[2] \in Numeric'
      BY <1>6, <1>8
    <3>2. CASE p[2] \in Numeric
      BY <1>5, <3>1, <3>2
    <3>3. CASE p[2] = n
      BY <2>3, <3>1, <3>3
    <3>4. QED
      BY <1>2, <3>1, <3>2, <3>3
  <2>5. Later \subseteq Later' /\ <<m, n>> \notin Later
    BY <1>2, <1>3, <1>5, <1>6
  <2>6. m \in Numeric <=> PTS(m) # None
    BY DEF Numeric, PTS
  <2>7. CASE Delta(timing, s.pts) = None
    <3>1. ~ (m \in Numeric /\ s.pts # None /\ s.pts > PTS(m))
      <4>1. PTS(m) # None /\ s.pts # None /\ s.pts > PTS(m) => s.pts - PTS(m) # None
        <5>1. PTS(m) # None => PTS(m) \in Nat
          <6>1. \A k \in Numeric : PTS(k) \in Nat
            BY ShownTypes
          <6>2. QED
            BY <2>6, <6>1
        <5>2. s.pts # None => s.pts \in Nat
          <6>1. s.pts \in Times \cup {None}
            BY DEF Sample
          <6>2. QED
            BY <6>1, BoundsAssumption DEF Times
        <5>3. QED
          BY <5>1, <5>2, NoneAssumption
      <4>2. QED
        BY <2>1, <2>6, <2>7, <4>1 DEF Delta
    <3>2. <<m, n>> \notin Later'
      BY <1>8, <2>3, <3>1
    <3>3. QED
      BY <1>7, <2>4, <2>5, <2>7, <3>2
  <2>8. CASE Delta(timing, s.pts) # None
    <3>1. /\ PTS(m) # None /\ s.pts # None /\ s.pts > PTS(m)
          /\ Delta(timing, s.pts) = s.pts - PTS(m)
      BY <2>1, <2>8 DEF Delta
    <3>2. <<m, n>> \in Later' /\ Later' = Later \cup {<<m, n>>}
      BY <2>3, <2>4, <2>5, <2>6, <3>1
    <3>3. Interval(<<m, n>>)' = s.pts - PTS(m)
      BY <1>2, <2>1 DEF Interval
    <3>4. QED
      BY <1>7, <2>5, <2>8, <3>1, <3>2, <3>3
  <2>9. QED
    BY <2>7, <2>8
<1>11. QED
  BY <1>9, <1>10

LEMMA DeltaStep ==
  ASSUME TypeOK, ScanInv, NEW s \in Sample, s.shown, read' = Append(read, s),
         timing' = Scanned(timing, s.pts)
  PROVE  DeltaInv'
<1> DEFINE delta == Delta(timing, s.pts)
<1>1. /\ timing'.firstDelta = (IF timing.firstDelta = None THEN delta ELSE timing.firstDelta)
      /\ timing'.deltaCount = timing.deltaCount + (IF delta # None THEN 1 ELSE 0)
  BY DEF Scanned
<1>2. timing'.hasVariableDeltas = Varies(timing, delta)
  BY DEF Scanned
<1>3. /\ \A p \in Later : Interval(p)' = Interval(p)
      /\ delta = None => Later' = Later
      /\ delta # None => \E p : /\ p \notin Later /\ Later' = Later \cup {p}
                               /\ Interval(p)' = delta
  BY LaterStep
<1>4. /\ IsFiniteSet(Later) /\ timing.deltaCount = Cardinality(Later)
      /\ timing.firstDelta = None <=> Later = {}
      /\ Later # {} => \E p \in Later : Interval(p) = timing.firstDelta
      /\ timing.hasVariableDeltas <=> \E p, q \in Later : Interval(p) # Interval(q)
  BY DEF ScanInv, DeltaInv
<1>5. /\ timing'.hasVariableDeltas <=>
             \/ timing.hasVariableDeltas
             \/ delta # None /\ timing.firstDelta # None /\ delta # timing.firstDelta
  BY <1>2 DEF Varies
<1> HIDE DEF delta
<1>6. CASE delta = None
  <2>1. Later' = Later /\ timing'.firstDelta = timing.firstDelta
        /\ timing'.deltaCount = timing.deltaCount
    <3>1. timing.deltaCount \in Nat
      BY DEF TypeOK, Timing
    <3>2. QED
      BY <1>1, <1>3, <1>6, <3>1
  <2>2. timing'.hasVariableDeltas <=> \E p, q \in Later : Interval(p) # Interval(q)
    BY <1>4, <1>5, <1>6
  <2>3. QED
    BY <1>3, <1>4, <2>1, <2>2 DEF DeltaInv
<1>7. CASE delta # None
  <2>1. PICK p : p \notin Later /\ Later' = Later \cup {p} /\ Interval(p)' = delta
    BY <1>3, <1>7
  <2>2. /\ IsFiniteSet(Later') /\ Cardinality(Later') = Cardinality(Later) + 1
    BY <1>4, <2>1, FS_AddElement
  <2>3. timing'.deltaCount = Cardinality(Later')
    BY <1>1, <1>4, <1>7, <2>2
  <2>4. timing'.firstDelta # None
    BY <1>1, <1>7
  <2>5. \E q \in Later' : Interval(q)' = timing'.firstDelta
    BY <1>1, <1>3, <1>4, <2>1
  <2>6. timing'.hasVariableDeltas <=> \E q, r \in Later' : Interval(q)' # Interval(r)'
    <3>1. CASE Later = {}
      <4>1. ~ timing'.hasVariableDeltas
        BY <1>4, <1>5, <3>1
      <4>2. \A q, r \in Later' : q = p /\ r = p
        BY <2>1, <3>1
      <4>3. QED
        BY <4>1, <4>2
    <3>2. CASE Later # {}
      <4>1. PICK q \in Later : Interval(q) = timing.firstDelta
        BY <1>4, <3>2
      <4>2. ASSUME timing'.hasVariableDeltas
            PROVE  \E r, u \in Later' : Interval(r)' # Interval(u)'
        <5>1. CASE timing.hasVariableDeltas
          BY <1>3, <1>4, <2>1, <5>1
        <5>2. CASE delta # timing.firstDelta
          BY <1>3, <2>1, <4>1, <5>2
        <5>3. QED
          BY <1>5, <4>2, <5>1, <5>2
      <4>3. ASSUME ~ timing'.hasVariableDeltas
            PROVE  \A r \in Later' : Interval(r)' = delta
        <5>1. /\ \A r \in Later : Interval(r) = Interval(q)
              /\ delta = timing.firstDelta
          BY <1>4, <1>5, <1>7, <3>2, <4>1, <4>3
        <5>2. QED
          BY <1>3, <2>1, <4>1, <5>1
      <4>4. QED
        BY <4>2, <4>3
    <3>3. QED
      BY <3>1, <3>2
  <2>7. QED
    BY <2>1, <2>2, <2>3, <2>4, <2>5, <2>6 DEF DeltaInv
<1>8. QED
  BY <1>6, <1>7

LEMMA NextMultiple ==
  ASSUME NEW first \in Nat, NEW d \in Nat, NEW c \in Nat
  PROVE  (first + d * c) + d = first + d * (c + 1)
OBVIOUS

LEMMA CadenceStep ==
  ASSUME TypeOK, ScanInv, NEW s \in Sample, s.shown, read' = Append(read, s),
         timing' = Scanned(timing, s.pts)
  PROVE  CadenceInv'
<1> SUFFICES ASSUME Ordered'
             PROVE  /\ IsFiniteSet(Displayed') /\ Cardinality(Displayed') = timing'.deltaCount + 1
                    /\ timing'.deltaCount = 0 => Displayed' = {timing'.previous}
                    /\ timing'.deltaCount > 0 /\ ~ timing'.hasVariableDeltas =>
                          \E first \in Displayed' : Stepwise(first)'
  BY DEF CadenceInv
<1> DEFINE delta == Delta(timing, s.pts)
<1>1. PICK n : n = Len(read) + 1
  OBVIOUS
<1>2. /\ n \notin Shown /\ PTS(n)' = s.pts /\ n \in Nat /\ Shown' = Shown \cup {n}
      /\ \A k \in Shown : k < n /\ k \in Nat
      /\ Numeric' = IF s.pts # None THEN Numeric \cup {n} ELSE Numeric
      /\ \A k \in Shown : PTS(k)' = PTS(k)
  BY <1>1, MoreSamples
<1>3. /\ timing'.firstDelta = (IF timing.firstDelta = None THEN delta ELSE timing.firstDelta)
      /\ timing'.deltaCount = timing.deltaCount + (IF delta # None THEN 1 ELSE 0)
      /\ timing'.previous = s.pts
  BY DEF Scanned
<1>4. timing'.hasVariableDeltas <=>
             \/ timing.hasVariableDeltas
             \/ delta # None /\ timing.firstDelta # None /\ delta # timing.firstDelta
  BY DEF Scanned, Varies
<1>5. /\ timing.deltaCount \in Nat /\ timing.firstDelta \in Times \cup {None}
      /\ Times \subseteq Nat /\ None \notin Nat
      /\ delta \in Times \cup {None}
  <2>1. s.pts \in Times \cup {None} /\ timing \in Timing
    BY DEF Sample, TypeOK
  <2>2. delta \in Times \cup {None}
    BY <2>1, DeltaType
  <2>3. Times \subseteq Nat /\ None \notin Nat
    BY BoundsAssumption, NoneAssumption DEF Times
  <2>4. QED
    BY <2>1, <2>2, <2>3 DEF Timing
<1> HIDE DEF delta
<1>6. s.pts \in Times /\ Shown = Numeric /\ Ordered
      /\ \A k \in Shown : PTS(k) \in Times /\ PTS(k) <= s.pts
  <2>1. Shown' = Numeric' /\ Numeric \subseteq Shown
    BY ShownTypes DEF Ordered
  <2>2. s.pts # None
    BY <1>2, <2>1
  <2>3. Shown = Numeric
    BY <1>2, <2>1, <2>2
  <2>4. s.pts \in Times
    BY <2>2 DEF Sample
  <2>5. \A k \in Shown : PTS(k) \in Times
    BY <2>3, ShownTypes
  <2>6. \A i, k \in Shown' : i <= k => PTS(i)' <= PTS(k)'
    BY DEF Ordered
  <2>7. \A i, k \in Shown : i <= k => PTS(i) <= PTS(k)
    BY <1>2, <2>6
  <2>8. \A k \in Shown : PTS(k) <= s.pts
    <3> TAKE k \in Shown
    <3>1. k <= n /\ PTS(k)' = PTS(k)
      BY <1>2
    <3>2. QED
      BY <1>2, <2>6, <3>1
  <2>9. QED
    BY <2>3, <2>4, <2>5, <2>7, <2>8 DEF Ordered
<1>7. Displayed' = Displayed \cup {s.pts}
  <2>1. \A x : x \in Displayed <=> \E k \in Shown : x = PTS(k)
    BY DEF Displayed
  <2>2. \A x : x \in Displayed' <=> \E k \in Shown' : x = PTS(k)'
    BY DEF Displayed
  <2>3. \A x : x \in Displayed' <=> x \in Displayed \/ x = s.pts
    BY <1>2, <2>1, <2>2
  <2>4. QED
    BY <2>3
<1>8. /\ timing.deltaCount = Cardinality(Later) /\ IsFiniteSet(Later)
      /\ timing.firstDelta = None <=> Later = {}
  BY DEF ScanInv, DeltaInv
<1>9. timing.deltaCount = 0 <=> timing.firstDelta = None
  BY <1>8, FS_EmptySet
<1>10. CASE Shown = {}
  <2>1. Displayed' = {s.pts}
    BY <1>7, <1>10 DEF Displayed
  <2>2. timing.deltaCount = 0
    <3>1. Later = {}
      BY <1>6, <1>10 DEF Later
    <3>2. QED
      BY <1>8, <1>9, <3>1
  <2>3. delta = None
    BY <1>10 DEF ScanInv, CountInv, Delta, delta
  <2>4. timing'.deltaCount = 0
    BY <1>3, <2>2, <2>3
  <2>5. IsFiniteSet(Displayed') /\ Cardinality(Displayed') = 1
    BY <2>1, FS_Singleton
  <2>6. QED
    BY <1>3, <2>1, <2>4, <2>5
<1>11. CASE Shown # {}
  <2>1. PICK m \in Shown : (\A k \in Shown : k <= m) /\ timing.previous = PTS(m)
    BY <1>11 DEF ScanInv, CountInv
  <2>2. /\ IsFiniteSet(Displayed) /\ Cardinality(Displayed) = timing.deltaCount + 1
        /\ timing.deltaCount = 0 => Displayed = {timing.previous}
        /\ timing.deltaCount > 0 /\ ~ timing.hasVariableDeltas =>
              \E first \in Displayed : Stepwise(first)
    BY <1>6, <1>11 DEF ScanInv, CadenceInv
  <2>3. /\ timing.previous \in Times /\ timing.previous \in Displayed
        /\ timing.previous <= s.pts /\ timing.previous # None
        /\ \A x \in Displayed : x \in Times /\ x <= timing.previous
    <3>1. \A k \in Shown : PTS(k) <= PTS(m)
      BY <1>6, <2>1 DEF Ordered
    <3>2. QED
      BY <1>5, <1>6, <2>1, <3>1 DEF Displayed
  <2>3a. s.pts \in Nat /\ timing.previous \in Nat /\ (delta # None => delta \in Nat)
    BY <1>5, <1>6, <2>3
  <2>4. CASE delta = None
    <3>1. s.pts = timing.previous
      <4>1. ~ (s.pts > timing.previous)
        <5>1. s.pts > timing.previous => s.pts - timing.previous \in Nat
          BY <2>3a
        <5>2. s.pts # None /\ timing.previous # None
          BY <1>5, <2>3a
        <5>3. QED
          BY <1>5, <2>4, <5>1, <5>2 DEF delta, Delta
      <4>2. timing.previous <= s.pts
        BY <2>3
      <4>3. QED
        BY <2>3a, <4>1, <4>2
    <3>2. Displayed' = Displayed
      BY <1>7, <2>3, <3>1
    <3>3. /\ timing'.deltaCount = timing.deltaCount /\ timing'.previous = timing.previous
          /\ timing'.firstDelta = timing.firstDelta
          /\ timing'.hasVariableDeltas <=> timing.hasVariableDeltas
      BY <1>3, <1>4, <1>5, <2>4, <3>1
    <3>4. \A first : Stepwise(first)' <=> Stepwise(first)
      BY <3>2, <3>3 DEF Stepwise
    <3>5. QED
      BY <2>2, <3>2, <3>3, <3>4
  <2>5. CASE delta # None
    <3>1. s.pts > timing.previous /\ delta = s.pts - timing.previous
      BY <2>5 DEF delta, Delta
    <3>2. s.pts \notin Displayed /\ s.pts = timing.previous + delta /\ delta \in Nat
      <4>1. s.pts = timing.previous + delta /\ delta \in Nat
        BY <2>3a, <2>5, <3>1
      <4>2. ~ (s.pts <= timing.previous)
        BY <2>3a, <3>1
      <4>3. QED
        BY <2>3, <4>1, <4>2
    <3>3. IsFiniteSet(Displayed') /\ Cardinality(Displayed') = Cardinality(Displayed) + 1
      BY <1>7, <2>2, <3>2, FS_AddElement
    <3>4. timing'.deltaCount = timing.deltaCount + 1 /\ timing'.deltaCount > 0
      BY <1>3, <1>5, <2>5
    <3>5. ASSUME ~ timing'.hasVariableDeltas
          PROVE  \E first \in Displayed' : Stepwise(first)'
      <4>1. CASE timing.deltaCount = 0
        <5>1. timing'.firstDelta = delta /\ Displayed = {timing.previous} /\ timing'.deltaCount = 1
          BY <1>3, <1>9, <2>2, <3>4, <4>1
        <5>2. timing'.previous = timing.previous + timing'.firstDelta * timing'.deltaCount
          BY <1>3, <1>5, <2>3, <3>2, <5>1
        <5>3. \A x : x \in Displayed' <=>
                (x = timing.previous + delta * 0 \/ x = timing.previous + delta * 1)
          <6>1. timing.previous + delta * 0 = timing.previous
                /\ timing.previous + delta * 1 = s.pts
            BY <2>3a, <3>2
          <6>2. QED
            BY <1>7, <5>1, <6>1
        <5>4. \A x : x \in Displayed' <=> \E k \in 0 .. 1 : x = timing.previous + delta * k
          <6>1. \A k : k \in 0 .. 1 <=> k = 0 \/ k = 1
            OBVIOUS
          <6>2. QED
            BY <5>3, <6>1
        <5>5. timing.previous \in Displayed'
          BY <1>7, <2>3
        <5>6. \A first : first = timing.previous => Stepwise(first)'
          BY <5>1, <5>2, <5>4 DEF Stepwise
        <5>7. QED
          BY <5>5, <5>6
      <4>2. CASE timing.deltaCount # 0
        <5>1. timing.deltaCount > 0 /\ ~ timing.hasVariableDeltas /\ timing.firstDelta = delta
              /\ timing'.firstDelta = delta
          BY <1>3, <1>4, <1>5, <1>9, <2>5, <3>5, <4>2
        <5>2. PICK first \in Displayed : Stepwise(first)
          BY <2>2, <5>1
        <5>3. first \in Nat /\ first \in Displayed'
          BY <1>5, <1>7, <2>3
        <5>4. timing.previous = first + delta * timing.deltaCount
          BY <5>1, <5>2 DEF Stepwise
        <5>5. s.pts = first + delta * (timing.deltaCount + 1)
          BY <1>5, <3>2, <5>3, <5>4, NextMultiple
        <5>6. \A x \in Times : x \in Displayed' <=>
                \E k \in 0 .. timing'.deltaCount : x = first + delta * k
          <6>1. \A k : k \in 0 .. timing'.deltaCount <=>
                    k \in 0 .. timing.deltaCount \/ k = timing.deltaCount + 1
            BY <1>5, <3>4
          <6>2. \A x \in Times : x \in Displayed <=>
                  \E k \in 0 .. timing.deltaCount : x = first + delta * k
            BY <5>1, <5>2 DEF Stepwise
          <6>3. QED
            BY <1>7, <5>5, <6>1, <6>2
        <5>7. Stepwise(first)'
          BY <1>3, <3>4, <5>1, <5>5, <5>6 DEF Stepwise
        <5>8. QED
          BY <5>3, <5>7
      <4>3. QED
        BY <4>1, <4>2
    <3>6. QED
      BY <2>2, <3>3, <3>4, <3>5
  <2>6. QED
    BY <2>4, <2>5
<1>12. QED
  BY <1>10, <1>11

LEMMA ScanInit == Init => ScanInv
<1> SUFFICES ASSUME Init PROVE ScanInv
  OBVIOUS
<1>1. Shown = {} /\ Numeric = {} /\ Later = {}
  <2>1. DOMAIN read = {}
    BY DEF Init
  <2>2. QED
    BY <2>1 DEF Shown, Numeric, Later
<1>2. /\ timing.stored = <<>> /\ timing.previous = None /\ timing.firstDelta = None
      /\ ~ timing.hasVariableDeltas /\ timing.deltaCount = 0 /\ timing.scannedCount = 0
  BY DEF Init, NoTiming
<1>3. IsFiniteSet({}) /\ Cardinality({}) = 0
  BY FS_EmptySet
<1>4. CountInv
  BY <1>1, <1>2, <1>3 DEF CountInv
<1>5. StoredInv
  BY <1>1, <1>2, <1>3, StoredAssumption DEF StoredInv
<1>6. DeltaInv
  BY <1>1, <1>2, <1>3 DEF DeltaInv
<1>7. CadenceInv
  BY <1>1 DEF CadenceInv
<1>8. QED
  BY <1>4, <1>5, <1>6, <1>7 DEF ScanInv

LEMMA ScanUnchanged ==
  ASSUME UNCHANGED <<read, timing>>
  PROVE  ScanInv' <=> ScanInv
<1>1. Shown' = Shown /\ Numeric' = Numeric /\ \A k : PTS(k)' = PTS(k)
  BY DEF Shown, Numeric, PTS
<1>2. Later' = Later /\ (\A p : Interval(p)' = Interval(p)) /\ Displayed' = Displayed
      /\ Ordered' = Ordered
  BY <1>1 DEF Later, Consecutive, Interval, Displayed, Ordered
<1>3. CountInv' <=> CountInv
  BY <1>1 DEF CountInv
<1>4. StoredInv' <=> StoredInv
  BY <1>1 DEF StoredInv
<1>5. DeltaInv' <=> DeltaInv
  BY <1>2 DEF DeltaInv
<1>6. CadenceInv' <=> CadenceInv
  BY <1>1, <1>2 DEF CadenceInv, Stepwise
<1>7. QED
  BY <1>3, <1>4, <1>5, <1>6 DEF ScanInv

LEMMA FactsStep == TypeOK /\ FactsInv /\ [Next]_vars => FactsInv'
<1> SUFFICES ASSUME TypeOK, FactsInv, [Next]_vars
             PROVE  FactsInv'
  OBVIOUS
<1>1. CASE ReadSample
  <2>1. /\ stage = "scan" /\ video = None /\ video' = None /\ ScanInv
    BY <1>1 DEF ReadSample, FactsInv
  <2>2. PICK s \in Sample :
          /\ read' = Append(read, s)
          /\ \/ ~ s.shown /\ UNCHANGED timing
             \/ s.shown /\ timing' = Scanned(timing, s.pts)
             \/ stage' = "done"
    BY <1>1 DEF ReadSample
  <2>3. ScanInv' \/ stage' = "done"
    BY <2>1, <2>2, BoundaryStep, CountStep, StoredStep, DeltaStep, CadenceStep DEF ScanInv
  <2>4. QED
    BY <2>1, <2>3 DEF FactsInv
<1>2. CASE MakeVideoFacts
  <2>1. /\ stage = "facts" /\ stage' = "tracks" /\ ScanInv /\ UNCHANGED <<read, timing>>
        /\ video' = [presentationTimestamps |-> timing.stored,
                     deltaCount |-> timing.deltaCount,
                     isVariableFrameRate |->
                         IF timing.deltaCount = 0 THEN None ELSE timing.hasVariableDeltas]
    BY <1>2 DEF MakeVideoFacts, FactsInv, Goto
  <2>2. ScanInv'
    BY <2>1, ScanUnchanged
  <2>3. QED
    BY <2>1, <2>2 DEF FactsInv
<1>3. CASE UNCHANGED <<video, read, timing>>
           /\ (stage = "done" => stage' = "done")
           /\ (stage' \in {"scan", "facts"} => stage \in {"scan", "facts"} \/ video = None)
  <2>1. ScanInv' <=> ScanInv
    BY <1>3, ScanUnchanged
  <2>2. QED
    BY <1>3, <2>1 DEF FactsInv
<1>4. ASSUME ~ ReadSample, ~ MakeVideoFacts
      PROVE  UNCHANGED <<video, read, timing>>
             /\ (stage = "done" => stage' = "done")
             /\ (stage' \in {"scan", "facts"} => stage \in {"scan", "facts"} \/ video = None)
  BY <1>4 DEF Next, Inspect, vars, progress, Cancel, Goto, End, Cancelled, Checked, Told,
              Unreadable, Corrupt, Trapped, OpenFile, HashCheck, HashRead, HashChunk, HashEnd, ImageFacts,
              LoadTracks, NextTrack, AudioFacts, ScanEnd, TracksEnd, Metadata
<1>5. QED
  BY <1>1, <1>2, <1>3, <1>4

(***************************************************************************)
(* Even times are those whose intervals are all of one length.             *)
(***************************************************************************)

\* Between two times that follow each other at even steps lies one step.
LEMMA OneStep ==
  ASSUME NEW first \in Nat, NEW d \in Nat, d > 0, NEW a \in Nat, NEW b \in Nat,
         first + d * a < first + d * b,
         ~ (first + d * a < first + d * (a + 1) /\ first + d * (a + 1) < first + d * b)
  PROVE  (first + d * b) - (first + d * a) = d /\ a + 1 <= b
<1>1. d * (a + 1) = d * a + d
  OBVIOUS
<1>2. d * a \in Nat /\ d * b \in Nat
  OBVIOUS
<1>3. first + d * b <= first + d * (a + 1)
  BY <1>1, <1>2
<1>4. b > a
  <2>1. b <= a => d * b <= d * a
    OBVIOUS
  <2>2. QED
    BY <1>2, <2>1
<1>5. b >= a + 1
  BY <1>4
<1>6. d * b >= d * (a + 1)
  BY <1>5
<1>7. QED
  BY <1>1, <1>2, <1>3, <1>5, <1>6

LEMMA EvenMeansConstant ==
  ASSUME TypeOK, Ordered, NEW first \in Displayed, NEW d \in 1 .. MaxTime, NEW c \in Nat,
         Displayed = {first + d * k : k \in 0 .. c}, NEW p \in Later
  PROVE  Interval(p) = d
<1>1. /\ p[1] \in Numeric /\ p[2] \in Numeric /\ p[1] \in Shown /\ p[2] \in Shown
      /\ Consecutive(p[1], p[2]) /\ PTS(p[2]) > PTS(p[1])
  BY ShownTypes DEF Later
<1>2. \A x \in Displayed : x \in Nat
  BY ShownTypes DEF Ordered, Displayed
<1>3. PTS(p[1]) \in Displayed /\ PTS(p[2]) \in Displayed
  BY <1>1 DEF Displayed
<1>4. d \in Nat /\ d > 0 /\ first \in Nat
  <2>1. first \in Nat
    BY <1>2
  <2>2. MaxTime \in Nat
    BY BoundsAssumption
  <2>3. QED
    BY <2>1, <2>2
<1>5. PICK a \in 0 .. c : PTS(p[1]) = first + d * a
  BY <1>3
<1>6. PICK b \in 0 .. c : PTS(p[2]) = first + d * b
  BY <1>3
<1>7. \A x \in Displayed : x <= PTS(p[1]) \/ PTS(p[2]) <= x
  <2> TAKE x \in Displayed
  <2>1. PICK k \in Shown : x = PTS(k)
    BY DEF Displayed
  <2>2. k <= p[1] \/ p[2] <= k
    BY <1>1, <2>1 DEF Consecutive
  <2>3. QED
    BY <1>1, <2>1, <2>2 DEF Ordered
<1>8. a + 1 <= c => first + d * (a + 1) \in Displayed
  <2>1. a + 1 <= c => a + 1 \in 0 .. c
    BY <1>5
  <2>2. QED
    BY <2>1
<1>9. ~ (a + 1 <= c /\ first + d * a < first + d * (a + 1) /\ first + d * (a + 1) < first + d * b)
  <2> SUFFICES ASSUME a + 1 <= c, first + d * a < first + d * (a + 1),
                      first + d * (a + 1) < first + d * b
               PROVE  FALSE
    OBVIOUS
  <2>1. first + d * (a + 1) <= first + d * a \/ first + d * b <= first + d * (a + 1)
    BY <1>5, <1>6, <1>7, <1>8
  <2>2. first + d * a \in Nat /\ first + d * b \in Nat /\ first + d * (a + 1) \in Nat
    BY <1>4, <1>5, <1>6
  <2>3. QED
    BY <2>1, <2>2
<1>10. a \in Nat /\ b \in Nat /\ b <= c
  BY <1>5, <1>6
<1>11. first + d * a < first + d * b
  BY <1>1, <1>2, <1>3, <1>5, <1>6
<1>12. a + 1 <= c
  <2>1. b > a
    <3>1. b <= a => d * b <= d * a
      BY <1>4, <1>10
    <3>2. d * a \in Nat /\ d * b \in Nat
      BY <1>4, <1>10
    <3>3. QED
      BY <1>4, <1>10, <1>11, <3>1, <3>2
  <2>2. QED
    BY <1>10, <2>1
<1>13. (first + d * b) - (first + d * a) = d
  BY <1>4, <1>9, <1>10, <1>11, <1>12, OneStep
<1>14. QED
  BY <1>5, <1>6, <1>13 DEF Interval

LEMMA Multiples ==
  ASSUME NEW first \in Nat, NEW d \in Nat, NEW m \in Nat, NEW n \in Nat, n <= m
  PROVE  first + d * n <= first + d * m
<1>1. d * n <= d * m
  OBVIOUS
<1>2. d * n \in Nat /\ d * m \in Nat
  OBVIOUS
<1>3. QED
  BY <1>1, <1>2

LEMMA Reach ==
  ASSUME NEW x \in Nat, NEW y \in Times, x <= y
  PROVE  x \in Times
  BY BoundsAssumption DEF Times

LEMMA ConstantMeansEven ==
  ASSUME TypeOK, ScanInv, Ordered, Shown # {}, timing.deltaCount > 0,
         ~ timing.hasVariableDeltas
  PROVE  Even(Displayed)
<1>1. /\ Cardinality(Displayed) = timing.deltaCount + 1
      /\ \E first \in Displayed : Stepwise(first)
  BY DEF ScanInv, CadenceInv
<1>2. PICK first \in Displayed : Stepwise(first)
  BY <1>1
<1>3. timing.deltaCount \in Nat /\ Cardinality(Displayed) - 1 = timing.deltaCount
  BY <1>1 DEF TypeOK, Timing
<1>4. timing.firstDelta \in 1 .. MaxTime
  <2>1. Later # {} /\ IsFiniteSet(Later)
    BY FS_EmptySet DEF ScanInv, DeltaInv
  <2>2. PICK p \in Later : Interval(p) = timing.firstDelta
    BY <2>1 DEF ScanInv, DeltaInv
  <2>3. /\ PTS(p[1]) \in Nat /\ PTS(p[2]) \in Nat /\ PTS(p[2]) > PTS(p[1])
        /\ PTS(p[2]) \in Times
    BY ShownTypes DEF Later
  <2>4. MaxTime \in Nat
    BY BoundsAssumption
  <2>5. PTS(p[2]) <= MaxTime
    BY <2>3 DEF Times
  <2>6. PTS(p[2]) - PTS(p[1]) \in 1 .. MaxTime
    BY <2>3, <2>4, <2>5
  <2>7. QED
    BY <2>2, <2>6 DEF Interval
<1>5. Displayed = {first + timing.firstDelta * n : n \in 0 .. timing.deltaCount}
  <2>1. Displayed \subseteq Times
    BY ShownTypes DEF Displayed, Ordered
  <2>2. \A x \in Times : x \in Displayed <=>
            \E n \in 0 .. timing.deltaCount : x = first + timing.firstDelta * n
    BY <1>2 DEF Stepwise
  <2>3. timing.previous \in Times
    <3>1. PICK m \in Shown : timing.previous = PTS(m)
      BY DEF ScanInv, CountInv
    <3>2. QED
      BY <2>1, <3>1 DEF Displayed
  <2>4. timing.previous = first + timing.firstDelta * timing.deltaCount
    BY <1>2 DEF Stepwise
  <2>5. MaxTime \in Nat /\ first \in Nat /\ timing.firstDelta \in Nat
        /\ timing.previous <= MaxTime
    BY <1>4, <2>1, <2>3, BoundsAssumption DEF Times
  <2>6. \A n \in 0 .. timing.deltaCount : first + timing.firstDelta * n \in Times
    <3> TAKE n \in 0 .. timing.deltaCount
    <3>1. n \in Nat /\ n <= timing.deltaCount
      BY <1>3
    <3>2. first + timing.firstDelta * n <= timing.previous
      BY <1>3, <2>4, <2>5, <3>1, Multiples
    <3>3. first + timing.firstDelta * n \in Nat
      BY <2>5, <3>1
    <3>4. QED
      BY <2>5, <2>3, <3>2, <3>3, Reach
  <2>7. QED
    BY <2>1, <2>2, <2>6
<1>6. QED
  BY <1>3, <1>4, <1>5 DEF Even

(***************************************************************************)
(* The facts of a video track.                                             *)
(***************************************************************************)
LEMMA Facts == TypeOK /\ FactsInv => FactsFollowSamples
<1> SUFFICES ASSUME TypeOK, FactsInv, video # None
             PROVE  SamplesAreCounted /\ CadenceIsTrue
  BY DEF FactsFollowSamples
<1>1. ScanInv
  BY DEF FactsInv
<1>2. /\ video.presentationTimestamps = timing.stored
      /\ video.deltaCount = timing.deltaCount
      /\ video.isVariableFrameRate =
            IF timing.deltaCount = 0 THEN None ELSE timing.hasVariableDeltas
  BY DEF FactsInv
<1>3. /\ IsFiniteSet(Later) /\ timing.deltaCount = Cardinality(Later)
      /\ timing.hasVariableDeltas <=> \E p, q \in Later : Interval(p) # Interval(q)
  BY <1>1 DEF ScanInv, DeltaInv
<1>4. timing.hasVariableDeltas \in BOOLEAN /\ timing.deltaCount \in Nat
  BY DEF TypeOK, Timing
<1>5. timing.deltaCount = 0 <=> Later = {}
  BY <1>3, FS_EmptySet
<1>6. SamplesAreCounted
  <2>1. timing.scannedCount = Cardinality(Shown)
    BY <1>1 DEF ScanInv, CountInv
  <2>2. StoredInv
    BY <1>1 DEF ScanInv
  <2>3. timing.hasVariableDeltas = \E p, q \in Later : Interval(p) # Interval(q)
    BY <1>3, <1>4, Zenon
  <2>4. video.isVariableFrameRate =
            IF Later = {} THEN None ELSE \E p, q \in Later : Interval(p) # Interval(q)
    BY <1>2, <1>5, <2>3, Zenon
  <2>5. QED
    BY <1>2, <1>3, <2>1, <2>2, <2>4 DEF SamplesAreCounted, StoredInv
<1>7. ASSUME Ordered, Cardinality(Displayed) > 1
      PROVE  video.isVariableFrameRate = ~ Even(Displayed)
  <2>1. Shown # {}
    <3>1. Shown = {} => Displayed = {}
      BY DEF Displayed
    <3>2. Cardinality({}) = 0
      BY FS_EmptySet
    <3>3. QED
      BY <1>7, <3>1, <3>2
  <2>2. /\ Cardinality(Displayed) = timing.deltaCount + 1
        /\ timing.deltaCount > 0
    <3>1. Cardinality(Displayed) = timing.deltaCount + 1
      BY <1>1, <1>7, <2>1 DEF ScanInv, CadenceInv
    <3>2. QED
      BY <1>4, <1>7, <3>1
  <2>3. ~ timing.hasVariableDeltas => Even(Displayed)
    BY <1>1, <1>7, <2>1, <2>2, ConstantMeansEven
  <2>4. Even(Displayed) => ~ timing.hasVariableDeltas
    <3> SUFFICES ASSUME Even(Displayed) PROVE ~ timing.hasVariableDeltas
      OBVIOUS
    <3>1. PICK first \in Displayed, d \in 1 .. MaxTime :
            Displayed = {first + d * n : n \in 0 .. (Cardinality(Displayed) - 1)}
      BY DEF Even
    <3>2. Cardinality(Displayed) - 1 \in Nat
      BY <1>4, <2>2
    <3>3. \A p \in Later : Interval(p) = d
      BY <1>7, <3>1, <3>2, EvenMeansConstant
    <3>4. QED
      BY <1>3, <3>3
  <2>5. timing.deltaCount # 0
    BY <1>4, <2>2
  <2>6. video.isVariableFrameRate = timing.hasVariableDeltas
    BY <1>2, <2>5
  <2>7. timing.hasVariableDeltas = ~ Even(Displayed)
    BY <1>4, <2>3, <2>4, Zenon
  <2>8. QED
    BY <2>6, <2>7
<1>8. QED
  BY <1>6, <1>7 DEF CadenceIsTrue

LEMMA FactsInit == Init => FactsInv
<1> SUFFICES ASSUME Init PROVE FactsInv
  OBVIOUS
<1>1. ScanInv
  BY ScanInit
<1>2. video = None
  BY DEF Init
<1>3. QED
  BY <1>1, <1>2 DEF FactsInv

\* The facts of a video track are what its samples say: the first times in the
\* order of reading, all samples and intervals counted, stored or not, and, of
\* samples in the order of their display, a frame rate that is called variable
\* if and only if the times are not spaced evenly.
THEOREM FactsAreTrue == Spec => []FactsFollowSamples
<1>1. TypeOK /\ FactsInv /\ [Next]_vars => FactsInv'
  BY FactsStep
<1>2. TypeOK /\ FactsInv => FactsFollowSamples
  BY Facts
<1>3. QED
  BY ProbeTypes, FactsInit, <1>1, <1>2, PTL DEF Spec
=============================================================================
