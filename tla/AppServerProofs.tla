--------------------------- MODULE AppServerProofs ---------------------------
(***************************************************************************)
(* Proofs about the client of the Codex app-server.  The first part is      *)
(* about AppServerClient, for any numbers of requests and lines, any        *)
(* waiters, kinds of notification and length of the buffer; the second is   *)
(* about the approval policy, TurnApproval, for any parameters, calls and   *)
(* bounds.  The modules share no state: each part is about its own.         *)
(***************************************************************************)
EXTENDS AppServerClient, TurnApproval, FiniteSetTheorems, SequenceTheorems, TLAPS

----------------------------------------------------------------------------
(* Sequences without some of their elements.                               *)

\* The members of a finite set of numbers are ranked 1 .. its cardinality.
LEMMA Ranks ==
  ASSUME NEW N \in Nat, NEW K \in SUBSET (1 .. N)
  PROVE  /\ Cardinality(K) \in Nat
         /\ \A n \in K : Cardinality(K \cap 1 .. n) \in 1 .. Cardinality(K)
         /\ \A m, n \in K :
              Cardinality(K \cap 1 .. m) = Cardinality(K \cap 1 .. n) => m = n
         /\ \A k \in 1 .. Cardinality(K) :
              \E n \in K : Cardinality(K \cap 1 .. n) = k
<1> DEFINE rank == [n \in K |-> Cardinality(K \cap 1 .. n)]
<1>1. IsFiniteSet(K) /\ Cardinality(K) \in Nat
  <2>1. 1 \in Int /\ N \in Int
    OBVIOUS
  <2>2. IsFiniteSet(1 .. N)
    BY <2>1, FS_Interval
  <2>3. IsFiniteSet(K)
    BY <2>2, FS_Subset
  <2>4. QED
    BY <2>3, FS_CardinalityType
<1>2. \A T \in SUBSET K : IsFiniteSet(T) /\ Cardinality(T) \in Nat
                          /\ Cardinality(T) <= Cardinality(K)
  BY <1>1, FS_Subset, FS_CardinalityType
<1>3. \A n \in K : Cardinality(K \cap 1 .. n) \in 1 .. Cardinality(K)
  <2> SUFFICES ASSUME NEW n \in K
               PROVE  Cardinality(K \cap 1 .. n) \in 1 .. Cardinality(K)
    OBVIOUS
  <2>1. n \in K \cap 1 .. n
    OBVIOUS
  <2>2. Cardinality(K \cap 1 .. n) # 0
    BY <2>1, <1>2, FS_EmptySet
  <2>3. QED
    BY <2>2, <1>1, <1>2
<1>4. \A m, n \in K : m < n => Cardinality(K \cap 1 .. m) < Cardinality(K \cap 1 .. n)
  <2> SUFFICES ASSUME NEW m \in K, NEW n \in K, m < n
               PROVE  Cardinality(K \cap 1 .. m) < Cardinality(K \cap 1 .. n)
    OBVIOUS
  <2>1. K \cap 1 .. m \in SUBSET (K \cap 1 .. n)
    OBVIOUS
  <2>2. K \cap 1 .. m # K \cap 1 .. n
    OBVIOUS
  <2>3. IsFiniteSet(K \cap 1 .. n)
    BY <1>2
  <2>4. Cardinality(K \cap 1 .. m) <= Cardinality(K \cap 1 .. n)
        /\ Cardinality(K \cap 1 .. m) # Cardinality(K \cap 1 .. n)
    BY <2>1, <2>2, <2>3, FS_Subset
  <2>5. QED
    BY <2>4, <1>2
<1>5. \A m, n \in K :
         Cardinality(K \cap 1 .. m) = Cardinality(K \cap 1 .. n) => m = n
  <2> SUFFICES ASSUME NEW m \in K, NEW n \in K, m # n
               PROVE  Cardinality(K \cap 1 .. m) # Cardinality(K \cap 1 .. n)
    OBVIOUS
  <2>1. m < n \/ n < m
    OBVIOUS
  <2>2. Cardinality(K \cap 1 .. m) \in Nat /\ Cardinality(K \cap 1 .. n) \in Nat
    BY <1>2
  <2>3. QED
    BY <2>1, <2>2, <1>4
<1>6. rank \in Injection(K, 1 .. Cardinality(K))
  BY <1>3, <1>5 DEF Injection, IsInjective
<1>7. rank \in Surjection(K, 1 .. Cardinality(K))
  <2>1. Cardinality(1 .. Cardinality(K)) = Cardinality(K) /\ IsFiniteSet(1 .. Cardinality(K))
    BY <1>1, FS_Interval
  <2>2. QED
    BY <2>1, <1>6, FS_Injection
<1>8. QED
  BY <1>1, <1>3, <1>5, <1>7 DEF Surjection

LEMMA WithoutProperties ==
  ASSUME NEW T, NEW s \in Seq(T), NEW S
  PROVE  /\ Without(s, S) \in Seq(T)
         /\ \A k \in 1 .. Len(Without(s, S)) :
              Without(s, S)[k] \notin S /\ \E n \in 1 .. Len(s) : Without(s, S)[k] = s[n]
         /\ \A n \in 1 .. Len(s) : s[n] \notin S =>
              \E k \in 1 .. Len(Without(s, S)) : Without(s, S)[k] = s[n]
         /\ (\A m, n \in 1 .. Len(s) : s[m] = s[n] => m = n) =>
               \A j, k \in 1 .. Len(Without(s, S)) :
                  Without(s, S)[j] = Without(s, S)[k] => j = k
<1> DEFINE Left == {n \in 1 .. Len(s) : s[n] \notin S}
           Rank(n) == Cardinality(Left \cap 1 .. n)
           Nth(k) == CHOOSE n \in Left : Rank(n) = k
           t == Without(s, S)
<1>1. t = [k \in 1 .. Cardinality(Left) |-> s[Nth(k)]]
  BY DEF Without
<1>2. Len(s) \in Nat /\ \A n \in 1 .. Len(s) : s[n] \in T
  OBVIOUS
<1>3. /\ Cardinality(Left) \in Nat
      /\ \A n \in Left : Rank(n) \in 1 .. Cardinality(Left)
      /\ \A m, n \in Left : Rank(m) = Rank(n) => m = n
      /\ \A k \in 1 .. Cardinality(Left) : \E n \in Left : Rank(n) = k
  BY <1>2, Ranks
<1> HIDE DEF Rank
<1>4. \A k \in 1 .. Cardinality(Left) : Nth(k) \in Left /\ Rank(Nth(k)) = k
  BY <1>3
<1>5. \A n \in Left : Nth(Rank(n)) = n
  BY <1>3, <1>4
<1> HIDE DEF Nth, t
<1>6. t \in Seq(T) /\ Len(t) = Cardinality(Left)
  <2>1. \A k \in 1 .. Cardinality(Left) : s[Nth(k)] \in T
    BY <1>2, <1>4
  <2> HIDE DEF Left
  <2>2. QED
    BY <1>1, <1>3, <2>1
<1>7. \A k \in 1 .. Cardinality(Left) : t[k] = s[Nth(k)]
  BY <1>1
<1>8. /\ \A k \in 1 .. Len(t) : t[k] \notin S /\ \E n \in 1 .. Len(s) : t[k] = s[n]
      /\ \A n \in 1 .. Len(s) : s[n] \notin S => \E k \in 1 .. Len(t) : t[k] = s[n]
  <2>1. \A k \in 1 .. Len(t) : t[k] = s[Nth(k)] /\ Nth(k) \in Left
    BY <1>4, <1>6, <1>7
  <2>2. \A n \in Left : Rank(n) \in 1 .. Len(t) /\ t[Rank(n)] = s[n]
    BY <1>3, <1>5, <1>6, <1>7
  <2>3. QED
    BY <2>1, <2>2
<1>9. ASSUME \A m, n \in 1 .. Len(s) : s[m] = s[n] => m = n
      PROVE  \A j, k \in 1 .. Len(t) : t[j] = t[k] => j = k
  <2> SUFFICES ASSUME NEW j \in 1 .. Len(t), NEW k \in 1 .. Len(t), t[j] = t[k]
               PROVE  j = k
    OBVIOUS
  <2>1. s[Nth(j)] = s[Nth(k)] /\ Nth(j) \in 1 .. Len(s) /\ Nth(k) \in 1 .. Len(s)
    BY <1>4, <1>6, <1>7
  <2>2. Nth(j) = Nth(k)
    BY <2>1, <1>9
  <2>3. j \in 1 .. Cardinality(Left) /\ k \in 1 .. Cardinality(Left)
    BY <1>6
  <2> HIDE DEF Left
  <2>4. Rank(Nth(j)) = j /\ Rank(Nth(k)) = k
    BY <2>3, <1>4
  <2>5. QED
    BY <2>2, <2>4
<1>10. QED
  BY <1>6, <1>8, <1>9 DEF t

----------------------------------------------------------------------------
(* The inductive invariant.                                                *)

AnswerAt(n) == n \in 1 .. Len(stdout) /\ stdout[n].type = "answer"

\* A promise is open for every key of the map, and for no other; what has been
\* asked has been requested; what was answered is on its way or has been taken.
RequestsKept ==
    /\ \A i \in Requests : outcome[i] = "open" <=> i \in pending
    /\ \A i \in Requests : outcome[i] = "none" <=> nextID <= i
    /\ \A i \in asked \cup lost : i < nextID
    /\ answered \subseteq asked

AnswersOnce ==
    /\ \A n \in 1 .. Len(stdout) : AnswerAt(n) =>
          stdout[n].id \in answered /\ outcome[stdout[n].id] # "answered"
    /\ \A m, n \in 1 .. Len(stdout) :
          AnswerAt(m) /\ AnswerAt(n) /\ stdout[m].id = stdout[n].id => m = n
    /\ \A i \in Requests : outcome[i] = "answered" => i \in answered
    /\ \A i \in orphans : outcome[i] \in {"timeout", "exited", "garbled"}

\* The waiters that wait are those of the list, each there once, with its timer.
WaitersKept ==
    /\ \A w \in Waiters : wait[w] = "open" <=> w \in Listed
    /\ timers = Listed
    /\ \A m, n \in 1 .. Len(waiters) : waiters[m] = waiters[n] => m = n

\* The exit is seen after it, and what was in flight then has been rejected.
ExitSettles ==
    /\ exitSeen => child = "exited" /\ pending \cap (asked \cup lost) = {}
    /\ closing = "done" => exitSeen

ClientInv == TypeOK /\ RequestsKept /\ AnswersOnce /\ WaitersKept /\ ExitSettles

----------------------------------------------------------------------------
(* What the operators of the model return.                                 *)

LEMMA ListedWithout ==
  ASSUME waiters \in Seq(Waiters), NEW S, waiters' = Without(waiters, S)
  PROVE  /\ Listed' = Listed \ S
         /\ (\A m, n \in 1 .. Len(waiters) : waiters[m] = waiters[n] => m = n) =>
              \A j, k \in 1 .. Len(waiters') : waiters'[j] = waiters'[k] => j = k
<1> DEFINE t == Without(waiters, S)
<1>1. /\ \A k \in 1 .. Len(t) : t[k] \notin S /\ \E n \in 1 .. Len(waiters) : t[k] = waiters[n]
      /\ \A n \in 1 .. Len(waiters) : waiters[n] \notin S => \E k \in 1 .. Len(t) : t[k] = waiters[n]
      /\ (\A m, n \in 1 .. Len(waiters) : waiters[m] = waiters[n] => m = n) =>
           \A j, k \in 1 .. Len(t) : t[j] = t[k] => j = k
  BY WithoutProperties
<1>2. waiters' = t
  OBVIOUS
<1> HIDE DEF t
<1>3. Listed' = {t[k] : k \in 1 .. Len(t)}
  BY <1>2 DEF Listed
<1>4. Listed' = Listed \ S
  <2>1. \A x \in Listed' : x \in Listed \ S
    BY <1>1, <1>3 DEF Listed
  <2>2. ASSUME NEW x \in Listed \ S
        PROVE  x \in Listed'
    <3>1. PICK n \in 1 .. Len(waiters) : x = waiters[n]
      BY DEF Listed
    <3>2. PICK k \in 1 .. Len(t) : t[k] = waiters[n]
      BY <1>1, <3>1
    <3>3. QED
      BY <1>3, <3>1, <3>2
  <2>3. QED
    BY <2>1, <2>2
<1>5. QED
  BY <1>1, <1>2, <1>4

LEMMA SettleProperties ==
  ASSUME NEW D, NEW V, NEW promises \in [D -> V], NEW S, NEW v \in V
  PROVE  /\ Settle(promises, S, v) \in [D -> V]
         /\ \A x \in D : Settle(promises, S, v)[x] =
               IF x \in S /\ promises[x] = "open" THEN v ELSE promises[x]
BY DEF Settle

LEMMA KeptProperties ==
  ASSUME NEW s \in Seq(Kinds), Len(s) <= MaxNotifications + 1
  PROVE  /\ Kept(s) \in Seq(Kinds) /\ Len(Kept(s)) <= MaxNotifications
         /\ \A n \in 1 .. Len(Kept(s)) : \E m \in 1 .. Len(s) : Kept(s)[n] = s[m]
<1> USE BoundsAssumption
<1>1. CASE Len(s) > MaxNotifications
  <2>1. Kept(s) = SubSeq(s, 2, Len(s)) /\ Len(s) \in Nat /\ Len(s) >= 1
    BY <1>1 DEF Kept
  <2>2. /\ SubSeq(s, 2, Len(s)) \in Seq(Kinds)
        /\ Len(SubSeq(s, 2, Len(s))) = IF 2 <= Len(s) THEN Len(s) - 2 + 1 ELSE 0
        /\ \A i \in 1 .. Len(s) - 2 + 1 : SubSeq(s, 2, Len(s))[i] = s[2 + i - 1]
    <3>1. \A i \in 2 .. Len(s) : s[i] \in Kinds
      OBVIOUS
    <3>2. 2 \in Int /\ Len(s) \in Int
      OBVIOUS
    <3>3. QED
      BY <3>1, <3>2, SubSeqProperties
  <2>3. Len(Kept(s)) = Len(s) - 1 /\ Kept(s) \in Seq(Kinds)
        /\ \A i \in 1 .. Len(s) - 1 : Kept(s)[i] = s[i + 1] /\ i + 1 \in 1 .. Len(s)
    <3>1. \A i \in 1 .. Len(s) - 1 : i \in 1 .. Len(s) - 2 + 1 /\ 2 + i - 1 = i + 1
      BY <2>1
    <3>2. \A i \in 1 .. Len(s) - 1 : Kept(s)[i] = s[i + 1]
      BY <2>1, <2>2, <3>1
    <3>3. Len(Kept(s)) = Len(s) - 1
      <4>1. CASE Len(s) = 1
        BY <2>1, <2>2, <4>1
      <4>2. CASE Len(s) >= 2
        BY <2>1, <2>2, <4>2
      <4>3. \A n \in Nat : n >= 1 => n = 1 \/ n >= 2
        OBVIOUS
      <4>4. QED
        BY <2>1, <4>1, <4>2, <4>3
    <3>4. \A i \in 1 .. Len(s) - 1 : i + 1 \in 1 .. Len(s)
      BY <2>1
    <3>5. QED
      BY <2>1, <2>2, <3>2, <3>3, <3>4
  <2>4. QED
    BY <2>1, <2>3
<1>2. CASE ~ (Len(s) > MaxNotifications)
  <2>1. Kept(s) = SubSeq(s, 1, Len(s)) /\ Len(s) \in Nat
    BY <1>2 DEF Kept
  <2>2. Kept(s) = s
    BY <2>1, SubSeqFull
  <2>3. QED
    BY <2>1, <2>2, <1>2
<1>3. QED
  BY <1>1, <1>2

\* The list of waiters when it is as it should be.
LEMMA SplicedProperties ==
  ASSUME waiters \in Seq(Waiters), NEW w \in Listed
  PROVE  Spliced(w) = Without(waiters, {w})
BY DEF Spliced

----------------------------------------------------------------------------

LEMMA TypeStep == TypeOK /\ timers = Listed /\ [Next]_vars => TypeOK'
<1> SUFFICES ASSUME TypeOK, timers = Listed, [Next]_vars
             PROVE  TypeOK'
  OBVIOUS
<1> USE BoundsAssumption DEF TypeOK, Settled
<1>1. ASSUME NEW i \in Requests, ChildAnswers(i)
      PROVE  TypeOK'
  BY <1>1 DEF ChildAnswers, Write, Line, requests, waits
<1>2. ASSUME NEW line \in Line, ChildWrites(line)
      PROVE  TypeOK'
  BY <1>2 DEF ChildWrites, Write, requests, waits
<1>3. CASE ChildExits
  BY <1>3 DEF ChildExits, requests, waits
<1>4. CASE Request
  BY <1>4 DEF Request, Sent, Requests, waits
<1>5. ASSUME NEW w \in Waiters, WaitFor(w)
      PROVE  TypeOK'
  <2>1. Append(waiters, w) \in Seq(Waiters)
    OBVIOUS
  <2>2. CASE Prior(w)
    BY <1>5, <2>2 DEF WaitFor, process, requests
  <2>3. CASE ~ Prior(w)
    BY <1>5, <2>1, <2>3 DEF WaitFor, process, requests
  <2>4. QED
    BY <2>2, <2>3
<1>6. CASE Close
  BY <1>6 DEF Close, requests, waits
<1>7. CASE Receive
  <2>1. stdout # <<>> /\ Head(stdout) \in Line /\ Tail(stdout) \in Seq(Line)
    BY <1>7 DEF Receive
  <2> DEFINE line == Head(stdout)
  <2>2. CASE TakeAnswer(line)
    <3>1. line.id \in Requests
      BY <2>1, <2>2 DEF TakeAnswer, Line
    <3>2. outcome' \in [Requests -> {"none", "open"} \cup Settled]
      <4>1. outcome' = Settle(outcome, {line.id}, "answered") \/ outcome' = outcome
        BY <2>2 DEF TakeAnswer
      <4>2. Settle(outcome, {line.id}, "answered") \in [Requests -> {"none", "open"} \cup Settled]
        BY SettleProperties
      <4>3. QED
        BY <4>1, <4>2
    <3>3. QED
      BY <1>7, <2>1, <2>2, <3>1, <3>2 DEF Receive, TakeAnswer, waits
  <2>3. CASE TakeNotice(line)
    <3>1. line.kind \in Kinds
      BY <2>1, <2>3 DEF TakeNotice, Line
    <3>2. ring' \in Seq(Kinds) /\ Len(ring') <= MaxNotifications
      <4>1. Append(ring, line.kind) \in Seq(Kinds)
            /\ Len(Append(ring, line.kind)) <= MaxNotifications + 1
        BY <3>1
      <4>2. QED
        BY <2>3, <4>1, KeptProperties DEF TakeNotice
    <3>3. waiters' \in Seq(Waiters) /\ timers' \subseteq Waiters
      BY <2>3, WithoutProperties DEF TakeNotice
    <3>4. wait' \in [Waiters -> {"none", "open", "notified", "timeout", "exited", "garbled"}]
      BY <2>3, SettleProperties DEF TakeNotice
    <3>5. QED
      BY <1>7, <2>1, <2>3, <3>2, <3>3, <3>4 DEF Receive, TakeNotice
  <2>4. CASE TakeGarbage(line)
    <3>1. outcome' \in [Requests -> {"none", "open"} \cup Settled]
      BY <2>4, SettleProperties DEF TakeGarbage, RejectAll
    <3>2. wait' \in [Waiters -> {"none", "open", "notified", "timeout", "exited", "garbled"}]
      BY <2>4, SettleProperties DEF TakeGarbage, RejectAll
    <3>3. QED
      BY <1>7, <2>1, <2>4, <3>1, <3>2 DEF Receive, TakeGarbage, RejectAll
  <2>5. CASE TakeNull(line)
    BY <1>7, <2>1, <2>5 DEF Receive, TakeNull, waits
  <2>6. QED
    BY <1>7, <2>2, <2>3, <2>4, <2>5 DEF Receive
<1>8. ASSUME NEW i \in Requests, RequestTimeout(i)
      PROVE  TypeOK'
  <2>1. outcome' \in [Requests -> {"none", "open"} \cup Settled]
    BY <1>8, SettleProperties DEF RequestTimeout
  <2>2. QED
    BY <1>8, <2>1 DEF RequestTimeout, process, waits
<1>9. ASSUME NEW w \in Waiters, WaitTimeout(w)
      PROVE  TypeOK'
  <2>1. waiters' \in Seq(Waiters)
    <3>1. waiters' = Without(waiters, {w})
      BY <1>9, SplicedProperties DEF WaitTimeout
    <3>2. QED
      BY <3>1, WithoutProperties
  <2>2. wait' \in [Waiters -> {"none", "open", "notified", "timeout", "exited", "garbled"}]
    BY <1>9, SettleProperties DEF WaitTimeout
  <2>3. QED
    BY <1>9, <2>1, <2>2 DEF WaitTimeout, process, requests
<1>10. CASE GraceOver
  BY <1>10 DEF GraceOver, Escalation, AfterGrace, requests, waits
<1>11. CASE ExitEvent
  <2>1. outcome' \in [Requests -> {"none", "open"} \cup Settled]
    BY <1>11, SettleProperties DEF ExitEvent, RejectAll
  <2>2. wait' \in [Waiters -> {"none", "open", "notified", "timeout", "exited", "garbled"}]
    BY <1>11, SettleProperties DEF ExitEvent, RejectAll
  <2>3. QED
    BY <1>11, <2>1, <2>2 DEF ExitEvent, RejectAll, process
<1>12. CASE BrokenPipe
  BY <1>12 DEF BrokenPipe, process, requests, waits
<1>13. CASE UNCHANGED vars
  BY <1>13 DEF vars, process, requests, waits
<1>14. QED
  BY <1>1, <1>2, <1>3, <1>4, <1>5, <1>6, <1>7, <1>8, <1>9, <1>10, <1>11, <1>12, <1>13
     DEF Next

\* Which steps touch the waiters; of the others nothing is to be shown for them.
LEMMA WaitsStep ==
  ASSUME TypeOK, [Next]_vars
  PROVE  \/ UNCHANGED waits
         \/ \E w \in Waiters : WaitFor(w) \/ WaitTimeout(w)
         \/ \E line \in Line : TakeNotice(line)
         \/ (\E v \in Settled : RejectAll(v)) /\ UNCHANGED <<ring, wants>>
<1>1. CASE Receive
  <2>1. Head(stdout) \in Line
    BY <1>1 DEF Receive, TypeOK
  <2>2. QED
    BY <1>1, <2>1 DEF Receive, TakeAnswer, TakeGarbage, TakeNull, waits, Settled
<1>2. CASE ExitEvent
  BY <1>2 DEF ExitEvent, Settled
<1>3. QED
  BY <1>1, <1>2 DEF Next, ChildAnswers, ChildWrites, ChildExits, Request, Close,
     RequestTimeout, GraceOver, BrokenPipe, waits, vars

WaitsInv == WaitersKept /\ NothingMissed

LEMMA WaitersStep == TypeOK /\ WaitsInv /\ [Next]_vars => WaitsInv'
<1> SUFFICES ASSUME TypeOK, WaitsInv, [Next]_vars
             PROVE  WaitsInv'
  OBVIOUS
<1> USE DEF TypeOK
<1>1. CASE UNCHANGED waits
  <2>1. Listed' = Listed
    BY <1>1 DEF waits, Listed
  <2>2. QED
    BY <1>1, <2>1 DEF waits, WaitsInv, WaitersKept, NothingMissed
<1>2. ASSUME NEW w \in Waiters, WaitFor(w)
      PROVE  WaitsInv'
  <2>1. CASE Prior(w)
    BY <1>2, <2>1 DEF WaitFor, WaitsInv, WaitersKept, NothingMissed, Listed
  <2>2. CASE ~ Prior(w)
    <3>1. /\ Len(waiters') = Len(waiters) + 1 /\ Len(waiters) \in Nat
          /\ \A n \in 1 .. Len(waiters) : waiters'[n] = waiters[n]
          /\ waiters'[Len(waiters) + 1] = w
      <4>1. waiters' = Append(waiters, w)
        BY <1>2, <2>2 DEF WaitFor
      <4>2. QED
        BY <4>1, AppendProperties
    <3>2. Listed' = Listed \cup {w} /\ w \notin Listed
      <4>1. w \notin Listed
        BY <1>2 DEF WaitFor, WaitsInv, WaitersKept
      <4>2. 1 .. Len(waiters') = 1 .. Len(waiters) \cup {Len(waiters) + 1}
        BY <3>1
      <4>3. QED
        BY <3>1, <4>1, <4>2 DEF Listed
    <3>3. WaitersKept'
      <4>1. \A m, n \in 1 .. Len(waiters) + 1 : waiters'[m] = waiters'[n] => m = n
        BY <3>1, <3>2 DEF WaitsInv, WaitersKept, Listed
      <4>2. QED
        BY <1>2, <2>2, <3>1, <3>2, <4>1 DEF WaitFor, WaitsInv, WaitersKept
    <3>4. NothingMissed'
      BY <1>2, <2>2 DEF WaitFor, Prior, WaitsInv, NothingMissed
    <3>5. QED
      BY <3>3, <3>4 DEF WaitsInv
  <2>3. QED
    BY <2>1, <2>2
<1>3. ASSUME NEW w \in Waiters, WaitTimeout(w)
      PROVE  WaitsInv'
  <2>1. waiters' = Without(waiters, {w})
    BY <1>3, SplicedProperties DEF WaitTimeout, WaitsInv, WaitersKept
  <2>2. Listed' = Listed \ {w} /\ timers' = timers \ {w}
    BY <1>3, <2>1, ListedWithout DEF WaitTimeout
  <2>3. \A j, k \in 1 .. Len(waiters') : waiters'[j] = waiters'[k] => j = k
    BY <2>1, ListedWithout DEF WaitsInv, WaitersKept
  <2>4. \A v \in Waiters : wait'[v] = IF v = w /\ wait[v] = "open" THEN "timeout" ELSE wait[v]
    BY <1>3 DEF WaitTimeout, Settle
  <2>5. WaitersKept'
    BY <2>2, <2>3, <2>4 DEF WaitsInv, WaitersKept
  <2>6. NothingMissed'
    BY <1>3, <2>4 DEF WaitTimeout, WaitsInv, NothingMissed
  <2>7. QED
    BY <2>5, <2>6 DEF WaitsInv
<1>4. ASSUME NEW line \in Line, TakeNotice(line)
      PROVE  WaitsInv'
  <2> DEFINE matched == {w \in Listed : wants[w] = line.kind}
  <2>1. line.kind \in Kinds
    BY <1>4 DEF TakeNotice, Line
  <2>2. waiters' = Without(waiters, matched) /\ timers' = timers \ matched
        /\ wait' = Settle(wait, matched, "notified") /\ wants' = wants
        /\ ring' = Kept(Append(ring, line.kind))
    BY <1>4 DEF TakeNotice
  <2> HIDE DEF matched
  <2>3. Listed' = Listed \ matched
    BY <2>2, ListedWithout
  <2>4. \A j, k \in 1 .. Len(waiters') : waiters'[j] = waiters'[k] => j = k
    BY <2>2, ListedWithout DEF WaitsInv, WaitersKept
  <2>5. \A v \in Waiters : wait'[v] = IF v \in matched /\ wait[v] = "open"
                                        THEN "notified" ELSE wait[v]
    BY <2>2 DEF Settle
  <2>6. WaitersKept'
    BY <2>2, <2>3, <2>4, <2>5 DEF WaitsInv, WaitersKept
  <2>7. \A n \in 1 .. Len(ring') :
           ring'[n] = line.kind \/ \E m \in 1 .. Len(ring) : ring'[n] = ring[m]
    <3>1. /\ Append(ring, line.kind) \in Seq(Kinds)
          /\ Len(Append(ring, line.kind)) = Len(ring) + 1 /\ Len(ring) \in Nat
          /\ \A m \in 1 .. Len(ring) : Append(ring, line.kind)[m] = ring[m]
          /\ Append(ring, line.kind)[Len(ring) + 1] = line.kind
      BY <2>1
    <3>2. \A n \in 1 .. Len(ring') : \E m \in 1 .. Len(ring) + 1 :
             ring'[n] = Append(ring, line.kind)[m]
      <4>1. Len(Append(ring, line.kind)) <= MaxNotifications + 1
        BY <3>1, BoundsAssumption
      <4>2. \A n \in 1 .. Len(ring') : \E m \in 1 .. Len(Append(ring, line.kind)) :
             ring'[n] = Append(ring, line.kind)[m]
        BY <2>2, <3>1, <4>1, KeptProperties
      <4>3. QED
        BY <3>1, <4>2
    <3>3. \A m \in 1 .. Len(ring) + 1 : m \in 1 .. Len(ring) \/ m = Len(ring) + 1
      BY <3>1
    <3>4. QED
      BY <3>1, <3>2, <3>3
  <2>8. NothingMissed'
    <3> SUFFICES ASSUME NEW w \in Waiters, NEW n \in 1 .. Len(ring'), wait'[w] = "open"
                 PROVE  ring'[n] # wants[w]
      BY <2>2 DEF NothingMissed
    <3>1. wait[w] = "open" /\ w \notin matched
      BY <2>5
    <3>2. w \in Listed /\ wants[w] # line.kind
      BY <3>1 DEF WaitsInv, WaitersKept, matched
    <3>3. \A m \in 1 .. Len(ring) : ring[m] # wants[w]
      BY <3>1 DEF WaitsInv, NothingMissed
    <3>4. QED
      BY <2>7, <3>2, <3>3
  <2>9. QED
    BY <2>6, <2>8 DEF WaitsInv
<1>5. ASSUME NEW v \in Settled, RejectAll(v), UNCHANGED <<ring, wants>>
      PROVE  WaitsInv'
  <2>1. waiters' = <<>> /\ Listed' = {} /\ timers' = {}
    BY <1>5 DEF RejectAll, WaitsInv, WaitersKept, Listed
  <2>2. \A w \in Waiters : wait'[w] # "open"
    BY <1>5 DEF RejectAll, Settle, Settled, WaitsInv, WaitersKept
  <2>3. QED
    BY <1>5, <2>1, <2>2 DEF WaitsInv, WaitersKept, NothingMissed
<1>6. QED
  BY <1>1, <1>2, <1>3, <1>4, <1>5, WaitsStep

LEMMA RequestsStep == TypeOK /\ RequestsKept /\ AnswersOnce /\ [Next]_vars => RequestsKept'
<1> SUFFICES ASSUME TypeOK, RequestsKept, AnswersOnce, [Next]_vars
             PROVE  RequestsKept'
  OBVIOUS
<1> USE DEF TypeOK, RequestsKept
<1>1. ASSUME NEW i \in Requests, ChildAnswers(i)
      PROVE  RequestsKept'
  BY <1>1 DEF ChildAnswers, requests
<1>2. CASE Request
  <2>1. nextID \in Requests /\ nextID' = nextID + 1
    BY <1>2, BoundsAssumption DEF Request, Requests
  <2>2. \A i \in Requests : outcome'[i] = IF i = nextID THEN "open" ELSE outcome[i]
    BY <1>2 DEF Request
  <2>3. \A i \in Requests : nextID' <= i <=> nextID <= i /\ i # nextID
    BY <2>1 DEF Requests
  <2>4. asked' \cup lost' \subseteq asked \cup lost \cup {nextID} /\ answered' \subseteq asked'
    BY <1>2 DEF Request, Sent
  <2>5. \A i \in asked' \cup lost' : i < nextID'
    <3>1. \A i \in asked \cup lost : i \in Nat /\ i < nextID
      BY BoundsAssumption DEF Requests
    <3>2. nextID \in Nat /\ nextID' = nextID + 1
      BY <2>1, BoundsAssumption DEF Requests
    <3>3. QED
      BY <2>4, <3>1, <3>2
  <2>6. \A i \in Requests : outcome'[i] = "open" <=> i \in pending'
    BY <1>2, <2>2 DEF Request
  <2>7. \A i \in Requests : outcome'[i] = "none" <=> nextID' <= i
    BY <2>1, <2>2, <2>3
  <2>8. QED
    BY <2>4, <2>5, <2>6, <2>7
<1>3. ASSUME NEW S, NEW v \in Settled, outcome' = Settle(outcome, S, v),
             \A i \in Requests : i \in S /\ i \in pending => i \notin pending',
             pending' \subseteq pending, pending \ pending' \subseteq S,
             UNCHANGED <<asked, lost, answered, nextID>>
      PROVE  RequestsKept'
  BY <1>3 DEF Settle, Settled
<1>4. ASSUME NEW i \in Requests, RequestTimeout(i)
      PROVE  RequestsKept'
  BY <1>3, <1>4 DEF RequestTimeout, process, Settled
<1>5. CASE ExitEvent
  BY <1>3, <1>5 DEF ExitEvent, RejectAll, process, Settled
<1>6. CASE Receive
  <2>1. CASE TakeAnswer(Head(stdout))
    BY <1>3, <1>6, <2>1 DEF Receive, TakeAnswer, Settled
  <2>2. CASE TakeGarbage(Head(stdout))
    BY <1>3, <1>6, <2>2 DEF Receive, TakeGarbage, RejectAll, Settled
  <2>3. QED
    BY <1>6, <2>1, <2>2 DEF Receive, TakeNotice, TakeNull
<1>7. CASE UNCHANGED <<asked, lost, answered, requests>>
  BY <1>7 DEF requests
<1>8. QED
  BY <1>1, <1>2, <1>4, <1>5, <1>6, <1>7
     DEF Next, vars, ChildWrites, ChildExits, WaitFor, Close, WaitTimeout, GraceOver,
         BrokenPipe, process

\* The first line has been received.
LEMMA TailLines ==
  ASSUME stdout \in Seq(Line), stdout # <<>>, stdout' = Tail(stdout)
  PROVE  /\ Len(stdout) \in Nat /\ 1 \in 1 .. Len(stdout) /\ Head(stdout) = stdout[1]
         /\ \A n \in 1 .. Len(stdout') :
              n + 1 \in 1 .. Len(stdout) /\ n + 1 # 1 /\ stdout'[n] = stdout[n + 1]
  OBVIOUS

\* A line more.
LEMMA MoreLines ==
  ASSUME stdout \in Seq(Line), NEW line \in Line, stdout' = Append(stdout, line)
  PROVE  \A n \in 1 .. Len(stdout') :
            \/ n \in 1 .. Len(stdout) /\ stdout'[n] = stdout[n]
            \/ n = Len(stdout) + 1 /\ stdout'[n] = line
  OBVIOUS

\* Promises are given up on, as a line is received or without one.
LEMMA GivenUp ==
  ASSUME TypeOK, AnswersOnce, NEW S, NEW v \in {"timeout", "exited", "garbled"},
         outcome' = Settle(outcome, S, v), answered' = answered, orphans' = orphans,
         stdout' = stdout \/ (stdout # <<>> /\ stdout' = Tail(stdout))
  PROVE  AnswersOnce'
<1>1. \A i \in Requests : outcome'[i] = IF i \in S /\ outcome[i] = "open" THEN v ELSE outcome[i]
  BY DEF TypeOK, Settle
<1>2. \A i \in Requests : /\ outcome'[i] = "answered" <=> outcome[i] = "answered"
                          /\ outcome[i] \in {"timeout", "exited", "garbled"} =>
                                outcome'[i] \in {"timeout", "exited", "garbled"}
  BY <1>1
<1>3. \A n \in 1 .. Len(stdout) : AnswerAt(n) => stdout[n].id \in Requests
  BY DEF TypeOK, AnswerAt, Line
<1>4. orphans \subseteq Requests /\ answered \subseteq Requests
  BY DEF TypeOK
<1>5. CASE stdout' = stdout
  BY <1>2, <1>3, <1>4, <1>5 DEF AnswersOnce, AnswerAt
<1>6. CASE stdout # <<>> /\ stdout' = Tail(stdout)
  <2>1. \A n \in 1 .. Len(stdout') : AnswerAt(n)' =>
           AnswerAt(n + 1) /\ stdout'[n] = stdout[n + 1] /\ n + 1 \in 1 .. Len(stdout)
    BY <1>6, TailLines DEF AnswerAt, TypeOK
  <2>2. \A m, n \in 1 .. Len(stdout') : m + 1 = n + 1 => m = n
    OBVIOUS
  <2>3. QED
    BY <1>2, <1>3, <1>4, <2>1, <2>2 DEF AnswersOnce
<1>7. QED
  BY <1>5, <1>6

LEMMA AnswersStep == TypeOK /\ RequestsKept /\ AnswersOnce /\ [Next]_vars => AnswersOnce'
<1> SUFFICES ASSUME TypeOK, RequestsKept, AnswersOnce, [Next]_vars
             PROVE  AnswersOnce'
  OBVIOUS
<1> USE DEF TypeOK
<1>1. ASSUME NEW i \in Requests, ChildAnswers(i)
      PROVE  AnswersOnce'
  <2> DEFINE line == [type |-> "answer", id |-> i]
  <2>1. line \in Line /\ stdout' = Append(stdout, line) /\ Len(stdout) \in Nat
    BY <1>1 DEF ChildAnswers, Write, Line
  <2>2. i \notin answered /\ answered' = answered \cup {i}
        /\ outcome' = outcome /\ orphans' = orphans
    BY <1>1 DEF ChildAnswers, requests
  <2>3. line.type = "answer" /\ line.id = i
    OBVIOUS
  <2> HIDE DEF line
  <2>4. \A n \in 1 .. Len(stdout') :
           \/ n \in 1 .. Len(stdout) /\ stdout'[n] = stdout[n]
           \/ n = Len(stdout) + 1 /\ stdout'[n] = line
    BY <2>1, MoreLines
  <2>5. \A n \in 1 .. Len(stdout) : AnswerAt(n) => stdout[n].id \in answered
    BY DEF AnswersOnce
  <2>6. \A n \in 1 .. Len(stdout') : AnswerAt(n)' =>
           stdout'[n].id \in answered' /\ outcome'[stdout'[n].id] # "answered"
    BY <1>1, <2>2, <2>3, <2>4 DEF AnswersOnce, AnswerAt
  <2>7. \A m, n \in 1 .. Len(stdout') :
           AnswerAt(m)' /\ AnswerAt(n)' /\ stdout'[m].id = stdout'[n].id => m = n
    <3> SUFFICES ASSUME NEW m \in 1 .. Len(stdout'), NEW n \in 1 .. Len(stdout'),
                        AnswerAt(m)', AnswerAt(n)', stdout'[m].id = stdout'[n].id
                 PROVE  m = n
      OBVIOUS
    <3>1. CASE m \in 1 .. Len(stdout) /\ n \in 1 .. Len(stdout)
      <4>1. stdout'[m] = stdout[m] /\ stdout'[n] = stdout[n]
        BY <2>1, <2>4, <3>1
      <4>2. QED
        BY <3>1, <4>1 DEF AnswersOnce, AnswerAt
    <3>2. CASE ~ (m \in 1 .. Len(stdout) /\ n \in 1 .. Len(stdout))
      <4>1. stdout'[m].id = i
        BY <2>3, <2>4, <3>2
      <4>2. \A k \in 1 .. Len(stdout') : AnswerAt(k)' /\ stdout'[k].id = i => k = Len(stdout) + 1
        BY <2>2, <2>4, <2>5 DEF AnswerAt
      <4>3. QED
        BY <4>1, <4>2
    <3>3. QED
      BY <3>1, <3>2
  <2>8. QED
    BY <2>2, <2>6, <2>7 DEF AnswersOnce
<1>2. ASSUME NEW line \in Line, ChildWrites(line)
      PROVE  AnswersOnce'
  <2>1. stdout' = Append(stdout, line) /\ line.type # "answer"
        /\ UNCHANGED <<answered, outcome, orphans>>
    BY <1>2 DEF ChildWrites, Write, requests
  <2>2. QED
    BY <2>1, MoreLines DEF AnswersOnce, AnswerAt
<1>4. CASE Receive
  <2> DEFINE line == Head(stdout)
  <2>1. /\ line \in Line /\ stdout # <<>> /\ stdout' = Tail(stdout) /\ answered' = answered
    BY <1>4 DEF Receive
  <2>2. CASE TakeAnswer(line)
    <3>1. /\ line = stdout[1] /\ AnswerAt(1) /\ line.id \in Requests
          /\ line.id \in answered /\ outcome[line.id] # "answered"
      BY <2>1, <2>2, TailLines DEF TakeAnswer, AnswerAt, AnswersOnce, Line
    <3>2. \A n \in 1 .. Len(stdout') : AnswerAt(n)' =>
             AnswerAt(n + 1) /\ stdout'[n] = stdout[n + 1] /\ stdout[n + 1].id # line.id
      BY <2>1, <3>1, TailLines DEF AnswerAt, AnswersOnce
    <3>3. CASE line.id \in pending
      <4>1. orphans' = orphans /\ \A i \in Requests : outcome'[i] =
              IF i = line.id /\ outcome[i] = "open" THEN "answered" ELSE outcome[i]
        BY <2>2, <3>3 DEF TakeAnswer, Settle
      <4>2. QED
        BY <2>1, <3>1, <3>2, <4>1, TailLines DEF AnswersOnce, AnswerAt, Line, RequestsKept
    <3>4. CASE line.id \notin pending
      <4>1. orphans' = orphans \cup {line.id} /\ outcome' = outcome
        BY <2>2, <3>4 DEF TakeAnswer
      <4>2. outcome[line.id] \in {"timeout", "exited", "garbled"}
        <5>1. outcome[line.id] # "none"
          BY <3>1, BoundsAssumption DEF RequestsKept, Requests
        <5>2. QED
          BY <3>1, <3>4, <5>1 DEF RequestsKept, Settled
      <4>3. \A n \in 1 .. Len(stdout') : n + 1 \in 1 .. Len(stdout) /\ stdout'[n] = stdout[n + 1]
        BY <2>1, TailLines
      <4>4. \A n \in 1 .. Len(stdout') : AnswerAt(n)' =>
               stdout'[n].id \in answered' /\ outcome'[stdout'[n].id] # "answered"
        BY <2>1, <3>2, <4>1, <4>3 DEF AnswersOnce
      <4>5. \A m, n \in 1 .. Len(stdout') : m + 1 = n + 1 => m = n
        OBVIOUS
      <4>6. \A m, n \in 1 .. Len(stdout') :
               AnswerAt(m)' /\ AnswerAt(n)' /\ stdout'[m].id = stdout'[n].id => m = n
        BY <3>2, <4>3, <4>5 DEF AnswersOnce
      <4>7. QED
        BY <2>1, <3>1, <4>1, <4>2, <4>4, <4>6 DEF AnswersOnce
    <3>5. QED
      BY <3>3, <3>4
  <2>3. CASE TakeGarbage(line)
    BY GivenUp, <2>1, <2>3 DEF TakeGarbage, RejectAll
  <2>4. CASE TakeNotice(line) \/ TakeNull(line)
    BY <2>1, <2>4, TailLines DEF TakeNotice, TakeNull, AnswersOnce, AnswerAt
  <2>5. QED
    BY <1>4, <2>2, <2>3, <2>4 DEF Receive
<1>5. CASE Request
  <2>1. /\ UNCHANGED <<stdout, answered, orphans>>
        /\ \A i \in Requests : outcome'[i] = outcome[i] \/ (i = nextID /\ outcome'[i] = "open")
        /\ \A i \in Requests : outcome[i] = "none" <=> nextID <= i
    <3>1. UNCHANGED <<stdout, answered, orphans>> /\ outcome' = [outcome EXCEPT ![nextID] = "open"]
      BY <1>5 DEF Request
    <3>2. \A i \in Requests : outcome'[i] = IF i = nextID THEN "open" ELSE outcome[i]
      BY <3>1
    <3>3. \A i \in Requests : outcome'[i] = outcome[i] \/ (i = nextID /\ outcome'[i] = "open")
      BY <3>2
    <3>4. \A i \in Requests : outcome[i] = "none" <=> nextID <= i
      BY DEF RequestsKept
    <3>5. QED
      BY <3>1, <3>3, <3>4
  <2>2. nextID \in Requests => nextID \notin orphans
    BY <2>1 DEF AnswersOnce, Requests
  <2>3. QED
    BY <2>1, <2>2 DEF AnswersOnce, AnswerAt, Line
<1>6. ASSUME NEW i \in Requests, RequestTimeout(i)
      PROVE  AnswersOnce'
  <2>1. /\ outcome' = Settle(outcome, {i}, "timeout")
        /\ UNCHANGED <<answered, orphans>> /\ stdout' = stdout
    BY <1>6 DEF RequestTimeout, process
  <2> HIDE DEF TypeOK
  <2>2. QED
    BY <2>1, GivenUp
<1>7. CASE ExitEvent
  <2>1. /\ outcome' = Settle(outcome, pending, "exited")
        /\ UNCHANGED <<answered, orphans>> /\ stdout' = stdout
    BY <1>7 DEF ExitEvent, RejectAll, process
  <2> HIDE DEF TypeOK
  <2>2. QED
    BY <2>1, GivenUp
<1>8. CASE UNCHANGED <<stdout, answered, outcome, orphans>>
  BY <1>8 DEF AnswersOnce, AnswerAt
<1>9. QED
  BY <1>1, <1>2, <1>4, <1>5, <1>6, <1>7, <1>8
     DEF Next, vars, ChildExits, WaitFor, Close, WaitTimeout, GraceOver, BrokenPipe,
         process, requests

LEMMA ExitStep == TypeOK /\ RequestsKept /\ ExitSettles /\ [Next]_vars => ExitSettles'
<1> SUFFICES ASSUME TypeOK, RequestsKept, ExitSettles, [Next]_vars
             PROVE  ExitSettles'
  OBVIOUS
<1> USE DEF ExitSettles
<1>1. CASE Request
  <2>1. nextID \notin asked \cup lost
    BY <1>1, BoundsAssumption DEF Request, RequestsKept, TypeOK, Requests
  <2>2. QED
    BY <1>1, <2>1 DEF Request, Sent
<1>2. CASE ExitEvent
  BY <1>2 DEF ExitEvent, RejectAll, process
<1>3. CASE Receive
  <2>1. pending' \subseteq pending
    BY <1>3 DEF Receive, TakeAnswer, TakeNotice, TakeGarbage, TakeNull, RejectAll
  <2>2. QED
    BY <1>3, <2>1 DEF Receive
<1>4. ASSUME NEW i \in Requests, RequestTimeout(i)
      PROVE  ExitSettles'
  BY <1>4 DEF RequestTimeout, process
<1>5. CASE Close \/ GraceOver
  BY <1>5 DEF Close, GraceOver, AfterGrace, requests
<1>6. CASE ChildExits
  BY <1>6 DEF ChildExits, requests
<1>7. CASE UNCHANGED <<child, asked, lost, pending, exitSeen, closing>>
  BY <1>7
<1>8. QED
  BY <1>1, <1>2, <1>3, <1>4, <1>5, <1>6, <1>7
     DEF Next, vars, ChildAnswers, ChildWrites, WaitFor, WaitTimeout, BrokenPipe, process, requests

LEMMA ClientInit == Init => ClientInv /\ NothingMissed
<1> SUFFICES ASSUME Init
             PROVE  ClientInv /\ NothingMissed
  OBVIOUS
<1> USE DEF Init
<1>1. Listed = {} /\ Len(stdout) = 0 /\ Len(waiters) = 0 /\ Len(ring) = 0
  BY DEF Listed
<1>2. TypeOK
  <2>1. <<>> \in Seq(Line) /\ <<>> \in Seq(Kinds) /\ <<>> \in Seq(Waiters)
    OBVIOUS
  <2>2. nextID \in 0 .. MaxRequests /\ written \in 0 .. MaxLines /\ Len(ring) <= MaxNotifications
    BY <1>1, BoundsAssumption
  <2>3. outcome \in [Requests -> {"none", "open"} \cup Settled]
        /\ wait \in [Waiters -> {"none", "open", "notified", "timeout", "exited", "garbled"}]
    OBVIOUS
  <2>4. QED
    BY <2>1, <2>2, <2>3 DEF TypeOK
<1>3. RequestsKept
  BY BoundsAssumption DEF RequestsKept, Requests
<1>4. AnswersOnce /\ WaitersKept /\ ExitSettles /\ NothingMissed
  BY <1>1 DEF AnswersOnce, AnswerAt, WaitersKept, ExitSettles, NothingMissed
<1>5. QED
  BY <1>2, <1>3, <1>4 DEF ClientInv

\* The inductive invariant of the client, and what waiters have missed: nothing.
THEOREM ClientInvariant == Spec => [](ClientInv /\ NothingMissed)
<1>1. ClientInv /\ NothingMissed /\ [Next]_vars => (ClientInv /\ NothingMissed)'
  BY TypeStep, WaitersStep, RequestsStep, AnswersStep, ExitStep
     DEF ClientInv, WaitsInv, WaitersKept
<1>2. QED
  BY <1>1, ClientInit, PTL DEF Spec

\* No request and no wait is forgotten, for any numbers of them, whatever the child
\* writes and whenever it ends: each is settled or in the map or the list, with its
\* timer; no answer of a live request is an orphan; and when close has answered, the
\* child is gone and nothing that reached it is in flight (app-server-client.mjs
\* request, waitFor, #receive, #rejectAll, close).
THEOREM NobodyIsLeftBehind == Spec => []NobodyLeftBehind
<1>1. ClientInv => NobodyLeftBehind
  <2> SUFFICES ASSUME ClientInv
               PROVE  NobodyLeftBehind
    OBVIOUS
  <2>1. Len(waiters) = Cardinality(Listed)
    <3> DEFINE L == 1 .. Len(waiters)
    <3>1. waiters \in [L -> Listed] /\ Len(waiters) \in Nat
      BY DEF ClientInv, TypeOK, Listed
    <3>2. waiters \in Bijection(L, Listed)
      BY <3>1 DEF ClientInv, WaitersKept, Listed, Bijection, Injection, Surjection, IsInjective
    <3>3. IsFiniteSet(L) /\ Cardinality(L) = Len(waiters)
      <4>1. 1 \in Int /\ Len(waiters) \in Int /\ Len(waiters) >= 0
        BY <3>1
      <4>2. IsFiniteSet(L) /\ Cardinality(L) = IF 1 > Len(waiters) THEN 0 ELSE Len(waiters) - 1 + 1
        BY <4>1, FS_Interval
      <4>3. QED
        BY <4>1, <4>2
    <3>4. QED
      BY <3>2, <3>3, FS_Bijection DEF ExistsBijection
  <2>2. QED
    BY <2>1 DEF ClientInv, NobodyLeftBehind, RequestsKept, AnswersOnce, WaitersKept, ExitSettles
<1>2. QED
  BY <1>1, ClientInvariant, PTL

\* No wait goes on while a notification it accepts is in the buffer, for any waiters
\* and any length of the buffer (app-server-client.mjs waitFor, #receive).
THEOREM NothingIsMissed == Spec => []NothingMissed
BY ClientInvariant, PTL

----------------------------------------------------------------------------
(* The approval policy keeps one position for all turns.  That it counts   *)
(* the approvals of the active turn (Position) rests on turns becoming     *)
(* active in the order of their numbers (Protocol), which in turn rests on *)
(* the driver not starting a turn before the answer to the last has been   *)
(* used.                                                                   *)

IsStarted(n) == lines[n].type = "started"

\* The driver, the app-server and the lines between them agree on the turn.
Protocol ==
    /\ turnId <= replied /\ replied <= begun /\ begun <= started
    /\ phase \in {"idle", "running"} => turnId = started /\ replied = started
    /\ phase \in {"starting", "failed"} => turnId + 1 = started
    /\ resolved # 0 =>
         phase = "starting" /\ resolved = started /\ replied = started
    /\ \A n \in 1 .. Len(lines) :
         IsStarted(n) =>
            /\ lines[n].turn = started /\ replied = started
            /\ phase \in {"starting", "failed"}
            /\ resolved = 0
    /\ \A m, n \in 1 .. Len(lines) : IsStarted(m) /\ IsStarted(n) => m = n

\* The position counts the approvals of the turn it was last used for, and no
\* later turn has any.
Position ==
    /\ activeKey <= turnId
    /\ nextCall = IF activeKey = 0 THEN 1 ELSE Len(approved[activeKey]) + 1
    /\ \A t \in Turns : t > activeKey => approved[t] = <<>>

ApprovalInv == ApprovalTypeOK /\ Protocol /\ Position /\ ApprovedInSequence

LEMMA InitInv == ApprovalInit => ApprovalInv
  <1> SUFFICES ASSUME ApprovalInit PROVE ApprovalInv
    OBVIOUS
  <1> USE CallsAssumption, ApprovalBounds
  <1>1. lines = <<>> /\ Len(lines) = 0 /\ lines \in Seq(TurnLine)
    BY DEF ApprovalInit
  <1>2. evaluations \in Seq(Evaluation) /\ Len(evaluations) = 0
    BY DEF ApprovalInit
  <1>3. approved \in [Turns -> Seq(Params)] /\ \A t \in Turns : Len(approved[t]) = 0
    BY DEF ApprovalInit
  <1>4. ApprovalTypeOK
    BY <1>1, <1>2, <1>3 DEF ApprovalInit, ApprovalTypeOK
  <1>5. Protocol
    BY <1>1 DEF ApprovalInit, Protocol
  <1>6. Position
    BY <1>3 DEF ApprovalInit, Position
  <1>7. ApprovedInSequence
    BY <1>3 DEF ApprovedInSequence
  <1> QED
    BY <1>4, <1>5, <1>6, <1>7 DEF ApprovalInv

\* Writing a line keeps the type of the queue.
LEMMA AppendLine ==
  ASSUME lines \in Seq(TurnLine), NEW line \in TurnLine
  PROVE  /\ Append(lines, line) \in Seq(TurnLine)
         /\ Len(Append(lines, line)) = Len(lines) + 1
         /\ \A n \in 1 .. Len(lines) : Append(lines, line)[n] = lines[n]
         /\ Append(lines, line)[Len(lines) + 1] = line
  OBVIOUS

\* Taking the first line keeps it too.
LEMMA TailLine ==
  ASSUME lines \in Seq(TurnLine), lines # <<>>
  PROVE  /\ Tail(lines) \in Seq(TurnLine)
         /\ Head(lines) \in TurnLine /\ Head(lines) = lines[1]
         /\ Len(Tail(lines)) = Len(lines) - 1 /\ Len(lines) >= 1
         /\ \A n \in 1 .. Len(lines) - 1 : Tail(lines)[n] = lines[n + 1]
  OBVIOUS

\* What is kept of the evaluations is bounded.
LEMMA RecentBounded ==
  ASSUME NEW s \in Seq(Evaluation), Len(s) <= MaxEvaluations + 1
  PROVE  Recent(s) \in Seq(Evaluation) /\ Len(Recent(s)) <= MaxEvaluations
  <1>1. CASE Len(s) > MaxEvaluations
    <2>1. Recent(s) = SubSeq(s, 2, Len(s))
      BY <1>1 DEF Recent
    <2>2. SubSeq(s, 2, Len(s)) \in Seq(Evaluation)
      OBVIOUS
    <2>3. Len(s) \in Nat
      OBVIOUS
    <2>4. Len(SubSeq(s, 2, Len(s))) = Len(s) - 1
      BY <1>1, <2>3, ApprovalBounds
    <2> QED
      BY <2>1, <2>2, <2>3, <2>4, ApprovalBounds
  <1>2. CASE ~ (Len(s) > MaxEvaluations)
    <2>1. Recent(s) = SubSeq(s, 1, Len(s))
      BY <1>2 DEF Recent
    <2>2. SubSeq(s, 1, Len(s)) = s
      OBVIOUS
    <2> QED
      BY <2>1, <2>2, <1>2, ApprovalBounds
  <1> QED
    BY <1>1, <1>2

\* The steps of the driver touch neither the lines nor the policy.
LEMMA DriverInv ==
  ASSUME ApprovalInv, StartTurn \/ Continue \/ StartFails \/ TurnOver
  PROVE  ApprovalInv'
  <1> USE ApprovalBounds
  <1>1. ApprovalTypeOK'
    <2>1. CASE StartTurn
      BY <2>1 DEF ApprovalInv, ApprovalTypeOK, StartTurn, server, policy
    <2>2. CASE Continue
      BY <2>2 DEF ApprovalInv, ApprovalTypeOK, Continue, server, policy
    <2>3. CASE StartFails
      BY <2>3 DEF ApprovalInv, ApprovalTypeOK, StartFails, server, policy
    <2>4. CASE TurnOver
      BY <2>4 DEF ApprovalInv, ApprovalTypeOK, TurnOver, server, policy
    <2> QED
      BY <2>1, <2>2, <2>3, <2>4
  <1>2. Protocol'
    <2>1. CASE StartTurn
      BY <2>1 DEF ApprovalInv, ApprovalTypeOK, Protocol, StartTurn, server, policy,
                  IsStarted
    <2>2. CASE Continue
      BY <2>2 DEF ApprovalInv, ApprovalTypeOK, Protocol, Continue, server, policy,
                  IsStarted
    <2>3. CASE StartFails
      BY <2>3 DEF ApprovalInv, ApprovalTypeOK, Protocol, StartFails, server, policy,
                  IsStarted
    <2>4. CASE TurnOver
      BY <2>4 DEF ApprovalInv, ApprovalTypeOK, Protocol, TurnOver, server, policy,
                  IsStarted
    <2> QED
      BY <2>1, <2>2, <2>3, <2>4
  <1>3. turnId <= turnId'
    BY DEF ApprovalInv, ApprovalTypeOK, Protocol, StartTurn, Continue, StartFails,
           TurnOver
  <1>4. Position'
    BY <1>1, <1>3 DEF ApprovalInv, ApprovalTypeOK, Position, StartTurn, Continue,
                      StartFails, TurnOver, policy
  <1>5. ApprovedInSequence'
    BY DEF ApprovalInv, ApprovedInSequence, StartTurn, Continue, StartFails,
           TurnOver, policy
  <1> QED
    BY <1>1, <1>2, <1>4, <1>5 DEF ApprovalInv

\* The steps of the app-server touch neither the driver nor the policy.
LEMMA ServerInv ==
  ASSUME ApprovalInv,
         \/ Begin
         \/ ReplyStarted
         \/ \E ask \in Ask : AskApproval(ask)
         \/ \E t \in Turns : Complete(t)
  PROVE  ApprovalInv'
  <1> USE ApprovalBounds
  <1>1. CASE Begin
    <2>1. ApprovalTypeOK' /\ Protocol'
      BY <1>1 DEF ApprovalInv, ApprovalTypeOK, Protocol, Begin, driver, policy,
                  IsStarted
    <2>2. Position' /\ ApprovedInSequence'
      BY <1>1 DEF ApprovalInv, Position, ApprovedInSequence, Begin, driver,
                  policy
    <2> QED
      BY <2>1, <2>2 DEF ApprovalInv
  <1>2. CASE ReplyStarted
    <2> DEFINE line == [type |-> "started", turn |-> replied + 1]
    <2>1. line \in TurnLine /\ line.type = "started" /\ line.turn = replied + 1
      BY <1>2 DEF ApprovalInv, ApprovalTypeOK, Protocol, ReplyStarted, TurnLine, Turns
    <2>2. lines' = Append(lines, line) /\ lines \in Seq(TurnLine)
      BY <1>2 DEF ApprovalInv, ApprovalTypeOK, ReplyStarted
    <2> HIDE DEF line
    <2>3. /\ lines' \in Seq(TurnLine) /\ Len(lines') = Len(lines) + 1
          /\ \A n \in 1 .. Len(lines) : lines'[n] = lines[n]
          /\ lines'[Len(lines) + 1] = line
      BY <2>1, <2>2, AppendLine
    <2>4. ApprovalTypeOK'
      BY <1>2, <2>3 DEF ApprovalInv, ApprovalTypeOK, Protocol, ReplyStarted, driver,
                        policy
    <2>5. /\ replied + 1 = started /\ phase \in {"starting", "failed"}
          /\ resolved = 0 /\ \A n \in 1 .. Len(lines) : ~ IsStarted(n)
      BY <1>2 DEF ApprovalInv, ApprovalTypeOK, Protocol, ReplyStarted
    <2>6. Protocol'
      <3>1. \A n \in 1 .. Len(lines') : IsStarted(n)' => n = Len(lines) + 1
        BY <2>2, <2>3, <2>5 DEF IsStarted
      <3> QED
        BY <1>2, <2>1, <2>2, <2>3, <2>5, <3>1
           DEF ApprovalInv, ApprovalTypeOK, Protocol, ReplyStarted, driver, IsStarted
    <2>7. Position' /\ ApprovedInSequence'
      BY <1>2 DEF ApprovalInv, Position, ApprovedInSequence, ReplyStarted,
                  driver, policy
    <2> QED
      BY <2>4, <2>6, <2>7 DEF ApprovalInv
  <1>3. ASSUME NEW line \in TurnLine, line.type # "started",
               lines' = Append(lines, line), asks' \in 0 .. MaxAsks,
               UNCHANGED <<driver, resolved, completed, begun, replied, policy>>
        PROVE  ApprovalInv'
    <2>1. lines \in Seq(TurnLine)
      BY DEF ApprovalInv, ApprovalTypeOK
    <2>2. /\ lines' \in Seq(TurnLine) /\ Len(lines') = Len(lines) + 1
          /\ \A n \in 1 .. Len(lines) : lines'[n] = lines[n]
          /\ lines'[Len(lines) + 1] = line
      BY <1>3, <2>1, AppendLine
    <2>3. ApprovalTypeOK'
      BY <1>3, <2>2 DEF ApprovalInv, ApprovalTypeOK, driver, policy
    <2>4. \A n \in 1 .. Len(lines') :
             IsStarted(n)' => n \in 1 .. Len(lines) /\ IsStarted(n)
      BY <1>3, <2>1, <2>2 DEF IsStarted
    <2>5. Protocol'
      BY <1>3, <2>2, <2>4 DEF ApprovalInv, ApprovalTypeOK, Protocol, driver, IsStarted
    <2>6. Position' /\ ApprovedInSequence'
      BY <1>3 DEF ApprovalInv, Position, ApprovedInSequence, driver, policy
    <2> QED
      BY <2>3, <2>5, <2>6 DEF ApprovalInv
  <1>4. ASSUME NEW ask \in Ask, AskApproval(ask)
        PROVE  ApprovalInv'
    <2>1. ask \in TurnLine /\ ask.type # "started"
      BY DEF Ask, TurnLine
    <2>2. asks' \in 0 .. MaxAsks
      BY <1>4 DEF ApprovalInv, ApprovalTypeOK, AskApproval
    <2> QED
      BY <1>3, <1>4, <2>1, <2>2 DEF AskApproval
  <1>5. ASSUME NEW t \in Turns, Complete(t)
        PROVE  ApprovalInv'
    <2> DEFINE line == [type |-> "completed", turn |-> t]
    <2>1. line \in TurnLine /\ line.type # "started"
      BY DEF TurnLine
    <2>2. asks' \in 0 .. MaxAsks
      BY <1>5 DEF ApprovalInv, ApprovalTypeOK, Complete, server
    <2> QED
      BY <1>3, <1>5, <2>1, <2>2 DEF Complete, server
  <1> QED
    BY <1>1, <1>2, <1>4, <1>5

\* A judgement counts from the approvals of the active turn.
LEMMA ExpectedCounts ==
  ASSUME ApprovalInv, turnId # 0
  PROVE  turnId \in Turns /\ Expected = Len(approved[turnId]) + 1
  <1> USE ApprovalBounds
  <1>1. turnId \in Turns
    BY DEF ApprovalInv, ApprovalTypeOK, Turns
  <1>2. CASE turnId = activeKey
    BY <1>1, <1>2 DEF ApprovalInv, ApprovalTypeOK, Position, Expected, NewTurn
  <1>3. CASE turnId # activeKey
    <2>1. turnId > activeKey
      BY <1>3 DEF ApprovalInv, ApprovalTypeOK, Position
    <2>2. approved[turnId] = <<>>
      BY <1>1, <2>1 DEF ApprovalInv, Position
    <2> QED
      BY <1>1, <1>3, <2>2 DEF Expected, NewTurn
  <1> QED
    BY <1>2, <1>3

\* A judgement keeps the position right and the approvals in sequence.
LEMMA JudgeInv ==
  ASSUME ApprovalInv, NEW ask \in Ask, Judge(ask), UNCHANGED turnId
  PROVE  /\ Position' /\ ApprovedInSequence'
         /\ nextCall' \in Nat \ {0} /\ activeKey' \in 0 .. MaxTurns
         /\ approved' \in [Turns -> Seq(Params)]
  <1> USE ApprovalBounds, CallsAssumption
  <1>1. CASE Approves(ask)
    <2>1. turnId # 0 /\ ask.turn = turnId /\ Expected <= Len(Calls)
          /\ ask.params = Calls[Expected]
      BY <1>1 DEF Approves
    <2>2. turnId \in Turns /\ Expected = Len(approved[turnId]) + 1
      BY <2>1, ExpectedCounts
    <2>3. approved \in [Turns -> Seq(Params)] /\ ask.params \in Params
      BY DEF ApprovalInv, ApprovalTypeOK, Ask
    <2>4. activeKey' = turnId /\ nextCall' = Expected + 1
      BY <1>1, <2>1 DEF Judge, NewTurn
    <2>5. approved' = [approved EXCEPT ![turnId] = Append(@, ask.params)]
      BY <1>1, <2>1 DEF Judge
    <2>6. /\ approved[turnId] \in Seq(Params)
          /\ approved'[turnId] = Append(approved[turnId], ask.params)
          /\ \A t \in Turns : t # turnId => approved'[t] = approved[t]
      BY <2>2, <2>3, <2>5
    <2>7. /\ approved'[turnId] \in Seq(Params)
          /\ Len(approved'[turnId]) = Len(approved[turnId]) + 1
          /\ \A n \in 1 .. Len(approved[turnId]) :
                approved'[turnId][n] = approved[turnId][n]
          /\ approved'[turnId][Len(approved[turnId]) + 1] = ask.params
          /\ Len(approved[turnId]) \in Nat
      BY <2>3, <2>6
    <2>8. approved' \in [Turns -> Seq(Params)]
      BY <2>2, <2>3, <2>5, <2>6, <2>7
    <2>9. Position'
      <3>1. \A t \in Turns : t > turnId => approved'[t] = <<>>
        BY <2>2, <2>6 DEF ApprovalInv, ApprovalTypeOK, Position, Turns
      <3> QED
        BY <2>1, <2>2, <2>4, <2>7, <3>1 DEF Position, Turns
    <2>10. ApprovedInSequence'
      <3> SUFFICES ASSUME NEW t \in Turns
                   PROVE  /\ Len(approved'[t]) <= Len(Calls)
                          /\ \A n \in 1 .. Len(approved'[t]) :
                                approved'[t][n] = Calls[n]
        BY DEF ApprovedInSequence
      <3>1. CASE t = turnId
        <4>1. Len(Calls) \in Nat
          OBVIOUS
        <4>2. Len(approved'[turnId]) <= Len(Calls)
          BY <2>1, <2>2, <2>7, <4>1
        <4>3. \A n \in 1 .. Len(approved[turnId]) : approved[turnId][n] = Calls[n]
          BY <2>2 DEF ApprovalInv, ApprovedInSequence
        <4>4. approved'[turnId][Expected] = Calls[Expected]
          BY <2>1, <2>2, <2>7
        <4>5. ASSUME NEW n \in 1 .. Len(approved'[turnId])
              PROVE  n \in 1 .. Len(approved[turnId]) \/ n = Expected
          BY <2>2, <2>7
        <4> QED
          BY <2>7, <3>1, <4>2, <4>3, <4>4, <4>5
      <3>2. CASE t # turnId
        BY <2>6, <3>2 DEF ApprovalInv, ApprovedInSequence
      <3> QED
        BY <3>1, <3>2
    <2>11. nextCall' \in Nat \ {0} /\ activeKey' \in 0 .. MaxTurns
      BY <2>2, <2>4, <2>7 DEF Turns
    <2> QED
      BY <2>8, <2>9, <2>10, <2>11
  <1>2. CASE ~ Approves(ask)
    <2>1. approved' = approved /\ nextCall' = Expected
      BY <1>2 DEF Judge
    <2>2. CASE NewTurn
      <3>1. activeKey' = turnId /\ turnId # 0
        BY <2>2 DEF Judge, NewTurn
      <3>2. turnId \in Turns /\ Expected = Len(approved[turnId]) + 1
        BY <3>1, ExpectedCounts
      <3>3. activeKey < turnId
        BY <2>2 DEF ApprovalInv, ApprovalTypeOK, Position, NewTurn
      <3>4. Position'
        BY <2>1, <3>1, <3>2, <3>3 DEF ApprovalInv, ApprovalTypeOK, Position, Turns
      <3>5. approved[turnId] \in Seq(Params)
        BY <3>2 DEF ApprovalInv, ApprovalTypeOK
      <3> QED
        BY <2>1, <3>1, <3>2, <3>4, <3>5
           DEF ApprovalInv, ApprovalTypeOK, ApprovedInSequence, Turns
    <2>3. CASE ~ NewTurn
      BY <2>1, <2>3 DEF Judge, Expected, ApprovalInv, ApprovalTypeOK, Position,
                        ApprovedInSequence
    <2> QED
      BY <2>2, <2>3
  <1> QED
    BY <1>1, <1>2

LEMMA ReceiveInv ==
  ASSUME ApprovalInv, ReceiveLine
  PROVE  ApprovalInv'
  <1> USE ApprovalBounds
  <1>1. lines \in Seq(TurnLine) /\ lines # <<>> /\ lines' = Tail(lines)
    BY DEF ApprovalInv, ApprovalTypeOK, ReceiveLine
  <1>2. /\ lines' \in Seq(TurnLine)
        /\ Head(lines) \in TurnLine /\ Head(lines) = lines[1]
        /\ Len(lines') = Len(lines) - 1 /\ Len(lines) >= 1
        /\ \A n \in 1 .. Len(lines') : lines'[n] = lines[n + 1]
    BY <1>1, TailLine
  <1>3. Len(lines) \in Nat /\ \A n \in 1 .. Len(lines') : n + 1 \in 1 .. Len(lines)
    BY <1>1, <1>2
  <1>4. \A n \in 1 .. Len(lines') : IsStarted(n)' => IsStarted(n + 1)
    BY <1>2 DEF IsStarted
  <1>5. UNCHANGED <<phase, started, turnId, begun, replied, asks>>
    BY DEF ReceiveLine, driver, server
  <1>6. CASE Head(lines).type = "started"
    <2>1. Head(lines).turn = started /\ replied = started /\ resolved = 0
          /\ phase \in {"starting", "failed"}
      BY <1>2, <1>3, <1>6 DEF ApprovalInv, Protocol, IsStarted
    <2>2. resolved' = (IF phase = "starting" THEN started ELSE resolved)
          /\ UNCHANGED <<completed, policy>>
      BY <1>6, <2>1 DEF ReceiveLine
    <2>3. \A n \in 1 .. Len(lines') : ~ IsStarted(n)'
      <3> SUFFICES ASSUME NEW n \in 1 .. Len(lines'), IsStarted(n)'
                   PROVE  FALSE
        OBVIOUS
      <3>1. IsStarted(n + 1) /\ n + 1 \in 1 .. Len(lines)
        BY <1>3, <1>4
      <3>2. IsStarted(1) /\ 1 \in 1 .. Len(lines)
        BY <1>2, <1>3, <1>6 DEF IsStarted
      <3>3. n + 1 = 1
        BY <3>1, <3>2 DEF ApprovalInv, Protocol
      <3> QED
        BY <1>2, <1>3, <3>3
    <2>4. ApprovalTypeOK'
      BY <1>2, <1>5, <2>2 DEF ApprovalInv, ApprovalTypeOK, policy
    <2>5. Protocol'
      BY <1>5, <2>1, <2>2, <2>3 DEF ApprovalInv, ApprovalTypeOK, Protocol
    <2>6. Position' /\ ApprovedInSequence'
      BY <1>5, <2>2 DEF ApprovalInv, Position, ApprovedInSequence, policy
    <2> QED
      BY <2>4, <2>5, <2>6 DEF ApprovalInv
  <1>7. ASSUME UNCHANGED resolved PROVE Protocol'
    BY <1>2, <1>3, <1>4, <1>5, <1>7 DEF ApprovalInv, Protocol, IsStarted
  <1>8. CASE Head(lines).type = "completed"
    <2>1. completed' = completed \cup {Head(lines).turn}
          /\ UNCHANGED <<resolved, policy>>
      BY <1>8 DEF ReceiveLine
    <2>2. Head(lines).turn \in Turns
      BY <1>2, <1>8 DEF TurnLine, Ask
    <2>3. ApprovalTypeOK'
      BY <1>2, <1>5, <2>1, <2>2 DEF ApprovalInv, ApprovalTypeOK, policy
    <2>4. Position' /\ ApprovedInSequence'
      BY <1>5, <2>1 DEF ApprovalInv, Position, ApprovedInSequence, policy
    <2> QED
      BY <1>7, <2>1, <2>3, <2>4 DEF ApprovalInv
  <1>9. CASE Head(lines).type = "ask"
    <2>1. Judge(Head(lines)) /\ UNCHANGED <<resolved, completed>>
      BY <1>9 DEF ReceiveLine
    <2>2. Head(lines) \in Ask
      BY <1>2, <1>9 DEF TurnLine
    <2>3. /\ Position' /\ ApprovedInSequence'
          /\ nextCall' \in Nat \ {0} /\ activeKey' \in 0 .. MaxTurns
          /\ approved' \in [Turns -> Seq(Params)]
      BY <1>5, <2>1, <2>2, JudgeInv
    <2>4. evaluations' \in Seq(Evaluation) /\ Len(evaluations') <= MaxEvaluations
      <3> DEFINE new == [sequence |-> Len(evaluations) + 1,
                         approved |-> Approves(Head(lines))]
                 s == Append(evaluations, new)
      <3>1. evaluations \in Seq(Evaluation) /\ Len(evaluations) <= MaxEvaluations
            /\ Len(evaluations) \in Nat
        BY DEF ApprovalInv, ApprovalTypeOK
      <3>2. Approves(Head(lines)) \in BOOLEAN
        BY DEF Approves
      <3>3. new \in Evaluation
        BY <3>1, <3>2 DEF Evaluation
      <3> HIDE DEF new
      <3>4. s \in Seq(Evaluation) /\ Len(s) = Len(evaluations) + 1
        BY <3>1, <3>3
      <3>5. evaluations' = Recent(s)
        BY <2>1 DEF Judge, new
      <3> HIDE DEF s
      <3> QED
        BY <3>1, <3>4, <3>5, RecentBounded
    <2>5. ApprovalTypeOK'
      BY <1>2, <1>5, <2>1, <2>3, <2>4 DEF ApprovalInv, ApprovalTypeOK
    <2> QED
      BY <1>7, <2>1, <2>3, <2>5 DEF ApprovalInv
  <1> QED
    BY <1>6, <1>8, <1>9 DEF ReceiveLine

LEMMA StepInv == ApprovalInv /\ [ApprovalNext]_approvalVars => ApprovalInv'
  <1> SUFFICES ASSUME ApprovalInv, [ApprovalNext]_approvalVars PROVE ApprovalInv'
    OBVIOUS
  <1>1. CASE StartTurn \/ Continue \/ StartFails \/ TurnOver
    BY <1>1, DriverInv
  <1>2. CASE \/ Begin
             \/ ReplyStarted
             \/ \E ask \in Ask : AskApproval(ask)
             \/ \E t \in Turns : Complete(t)
    BY <1>2, ServerInv
  <1>3. CASE ReceiveLine
    BY <1>3, ReceiveInv
  <1>4. CASE UNCHANGED approvalVars
    BY <1>4 DEF ApprovalInv, ApprovalTypeOK, Protocol, Position, ApprovedInSequence,
                IsStarted, approvalVars, driver, server, policy
  <1> QED
    BY <1>1, <1>2, <1>3, <1>4 DEF ApprovalNext

\* The inductive invariant of the approval policy and its driver.
THEOREM ApprovalInvariant == ApprovalSpec => []ApprovalInv
  <1> QED
    BY InitInv, StepInv, PTL DEF ApprovalSpec

\* Every variable keeps its type, the evaluations their bound.
THEOREM TypeCorrect == ApprovalSpec => []ApprovalTypeOK
  <1>1. ApprovalInv => ApprovalTypeOK
    BY DEF ApprovalInv
  <1> QED
    BY <1>1, ApprovalInvariant, PTL

\* In every turn what the policy approves is a beginning of the calls it was
\* given, whatever the app-server asks and in which order.
THEOREM ApprovalsInSequence == ApprovalSpec => []ApprovedInSequence
  <1>1. ApprovalInv => ApprovedInSequence
    BY DEF ApprovalInv
  <1> QED
    BY <1>1, ApprovalInvariant, PTL

\* A request for the next call of the active turn is approved.
THEOREM NextCallIsApproved == ApprovalSpec => NextCallApproved
  <1>1. ASSUME ApprovalInv, [ApprovalNext]_approvalVars, NEW ask \in Ask,
               lines # <<>>, lines' = Tail(lines), ask = Head(lines),
               ask.turn = turnId, ask.exact,
               Len(approved[turnId]) < Len(Calls),
               ask.params = Calls[Len(approved[turnId]) + 1]
        PROVE  approved' = [approved EXCEPT ![turnId] = Append(@, ask.params)]
    <2>1. lines \in Seq(TurnLine) /\ Len(lines') = Len(lines) - 1
          /\ Len(lines) \in Nat
      BY <1>1, TailLine DEF ApprovalInv, ApprovalTypeOK
    <2>2. ReceiveLine
      <3>1. CASE StartTurn \/ Continue \/ StartFails \/ TurnOver \/ Begin
                 \/ UNCHANGED approvalVars
        BY <2>1, <3>1 DEF StartTurn, Continue, StartFails, TurnOver, Begin, approvalVars
      <3>2. ASSUME NEW line \in TurnLine, lines' = Append(lines, line) PROVE FALSE
        BY <2>1, <3>2
      <3>3. CASE ReplyStarted
        <4>1. [type |-> "started", turn |-> replied + 1] \in TurnLine
          BY <1>1, <3>3 DEF ApprovalInv, ApprovalTypeOK, Protocol, ReplyStarted, TurnLine,
                            Turns
        <4> QED
          BY <3>2, <3>3, <4>1 DEF ReplyStarted
      <3>4. CASE \E a \in Ask : AskApproval(a)
        BY <3>2, <3>4 DEF AskApproval, TurnLine
      <3>5. ASSUME NEW t \in Turns, Complete(t) PROVE FALSE
        <4>1. [type |-> "completed", turn |-> t] \in TurnLine
          BY DEF TurnLine
        <4> QED
          BY <3>2, <3>5, <4>1 DEF Complete
      <3> QED
        BY <1>1, <3>1, <3>3, <3>4, <3>5 DEF ApprovalNext
    <2>3. ask.type = "ask"
      BY DEF Ask
    <2>4. Judge(ask)
      BY <1>1, <2>2, <2>3 DEF ReceiveLine
    <2>5. turnId # 0
      BY <1>1 DEF Ask, Turns
    <2>6. Expected = Len(approved[turnId]) + 1 /\ approved \in [Turns -> Seq(Params)]
          /\ turnId \in Turns
      BY <1>1, <2>5, ExpectedCounts DEF ApprovalInv, ApprovalTypeOK
    <2>7. Len(approved[turnId]) \in Nat /\ Len(Calls) \in Nat
      BY <2>6, CallsAssumption
    <2>8. Approves(ask)
      BY <1>1, <2>5, <2>6, <2>7 DEF Approves
    <2> QED
      BY <1>1, <2>4, <2>8 DEF Judge
  <1>2. ApprovalInv /\ [ApprovalNext]_approvalVars =>
          [\A ask \in Ask :
             /\ lines # <<>> /\ lines' = Tail(lines) /\ ask = Head(lines)
             /\ ask.turn = turnId /\ ask.exact
             /\ Len(approved[turnId]) < Len(Calls)
             /\ ask.params = Calls[Len(approved[turnId]) + 1]
             => approved' = [approved EXCEPT ![turnId] = Append(@, ask.params)]]_approvalVars
    BY <1>1
  <1> QED
    BY <1>2, ApprovalInvariant, PTL DEF ApprovalSpec, NextCallApproved
=============================================================================
