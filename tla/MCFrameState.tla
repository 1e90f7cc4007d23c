------------------------------ MODULE MCFrameState ------------------------------
(* Small manifests of the three fixtures, accepted and refused ones.        *)
EXTENDS FrameState

R(n, d) == reduced(n, d)
Span(start, duration) == [start |-> start, duration |-> duration]
PerSecond(n, d) == [num |-> n, den |-> d]
Occ(id, source, role, sourceRange, outputRange, retime, chapter) ==
    [id |-> id, sourceId |-> source, role |-> role, sourceRange |-> sourceRange,
     outputRange |-> outputRange, retimeFactor |-> retime, chapter |-> chapter]

Attack1  == R(1, 2)
Release1 == R(3, 4)

\* Four frames a second for M and T; two frames in three seconds for L.
Expectations ==
    [M |-> [frameCount |-> 6, rate |-> PerSecond(4, 1)],
     T |-> [frameCount |-> 9, rate |-> PerSecond(4, 1)],
     L |-> [frameCount |-> 9, rate |-> PerSecond(2, 3)]]

Half1 == R(1, 2)

\* A still, or what stands still at the end of a source, and a retimed clip,
\* that start on a frame or between two.
MontagePlans ==
    { [fixture |-> "M", rate |-> PerSecond(4, 1), outputDuration |-> R(3, 2), frameCount |-> 6,
       sources |-> [still |-> length, clip |-> R(c, 2)],
       occurrences |-> <<Occ("o1", "still", "picture", Span(Half1, Zero), Span(R(a, 8), R(3, 4)), PerSecond(1, 1), FALSE),
                         Occ("o2", "clip", "picture", Span(R(b, 8), R(1, 1)), Span(R(e, 8), R(1, 2)), r, FALSE)>>,
       boundaries |-> <<>>, captions |-> <<>>, cutList |-> <<>>, words |-> [still |-> <<>>]] :
      a \in 0 .. 6, b \in 0 .. 2, c \in 2 .. 3, e \in 5 .. 9, r \in {PerSecond(2, 1), PerSecond(1, 1)},
      length \in {Null, Half1} }

\* Two takes cut together, the second played at half speed; the first word of a
\* take may begin before the cut and the last one end after it.
WordLists ==
    { <<[start |-> R(a, 8), end |-> R(a + b, 8)]>> : a \in 0 .. 5, b \in 1 .. 3 } \cup
    { <<[start |-> R(a, 8), end |-> R(a + b, 8)], [start |-> R(a + c, 8), end |-> R(a + c + d, 8)]>> :
        a \in {0, 3}, b \in {1, 4}, c \in 1 .. 3, d \in 1 .. 2 }

TalkPlans ==
    { LET first  == Occ("d1", "take1", "dialogue", Span(R(1, 4), R(3, 4)), Span(Zero, R(3, 4)), PerSecond(1, 1), FALSE)
          second == Occ("d2", "take2", "dialogue", Span(R(s, 4), R(1, 2)), Span(R(3, 4), R(1, 1)), PerSecond(1, 2), FALSE)
          cap(text, o, from, to) == [text |-> text, occurrenceId |-> o, outputRange |-> Span(R(from, 8), R(to - from, 8))]
      IN  [fixture |-> "T", rate |-> PerSecond(4, 1), outputDuration |-> R(9, 4), frameCount |-> 9,
           sources |-> [take1 |-> R(3, 2), take2 |-> R(5, 4), music |-> R(9, 4), sfx |-> R(1, 2)],
           occurrences |-> <<first, second,
                             Occ("m", "music", "music", Span(Zero, R(9, 4)), Span(Zero, R(9, 4)), PerSecond(1, 1), FALSE),
                             Occ("s", "sfx", "sfx", Span(Zero, IF x = 1 THEN Zero ELSE R(1, 2)), Span(R(x, 8), R(1, 2)), PerSecond(1, 1), FALSE)>>,
           boundaries |-> <<>>, cutList |-> <<second, first>>,
           captions |-> <<cap("hold", "d1", 1, 4 + x), cap("cut", "d2", 6, 13)>>,
           words |-> [take1 |-> w, take2 |-> v]] :
      s \in 1 .. 3, x \in 1 .. 3, w \in WordLists,
      v \in {<<[start |-> R(4, 8), end |-> R(6, 8)]>>,
             <<[start |-> R(3, 8), end |-> R(5, 8)], [start |-> R(6, 8), end |-> R(9, 8)]>>} }

\* Three chapters joined by fades of two frames, which touch when the second
\* chapter has two; the handles, the start of the second chapter, which may
\* leave a frame uncovered, and the names of the joins vary; two of them may name
\* the same time.
FilmPlans ==
    { LET F(n) == R(3 * n, 2)
          chapter(id, source, h, out, l) == Occ(id, source, "picture", Span(F(h), F(l)), Span(F(out), F(l)), PerSecond(1, 1), TRUE)
          fade(id, source, from, out) == Occ(id, source, "transition", Span(F(from), F(2)), Span(F(out), F(2)), PerSecond(1, 1), FALSE)
      IN  [fixture |-> "L", rate |-> PerSecond(2, 3), outputDuration |-> F(9), frameCount |-> 9,
           sources |-> [c1 |-> F(tail + l1), c2 |-> F(head + l2 + tail), c3 |-> F(7)],
           occurrences |-> <<chapter("o1", "c1", 0, 0, l1),
                             fade("x1", "c1", l1 - 1, l1 - 1),
                             chapter("o2", "c2", head, l1 + gap, l2),
                             fade("x2", "c2", head + l2 - 1, l1 + l2 - 1),
                             chapter("o3", "c3", 1, l1 + l2, 9 - l1 - l2),
                             Occ("o4", "c3", "picture", Span(Zero, Zero), Span(F(opening), F(2)), PerSecond(1, 1), FALSE)>>,
           boundaries |-> <<[outputTime |-> F(opening), clean |-> TRUE],
                            [outputTime |-> F(l1), clean |-> clean],
                            [outputTime |-> F(named), clean |-> FALSE],
                            [outputTime |-> F(9), clean |-> TRUE]>>,
           captions |-> <<>>, cutList |-> <<>>, words |-> [c1 |-> <<>>]] :
      l1 \in 3 .. 4, l2 \in 2 .. 3, head \in 0 .. 2, tail \in 0 .. 2, gap \in {0, 2},
      clean \in BOOLEAN, named \in 6 .. 7, opening \in {0, 3} }

SmallPlans == MontagePlans \cup TalkPlans \cup FilmPlans
=================================================================================
