------------------------------ MODULE HarnessProofs -------------------------------
(* What the harness promises about what it runs: RenderAttempts for any     *)
(* calls, roots and ids, RuntimeChecks for any helpers of a child.          *)
EXTENDS RenderAttempts, RuntimeChecks, TLAPS, SequenceTheorems

\* The stages in which a call has its root, those before the render's return, those
\* it reaches after it is done with its output, and those with a verdict to write.
Owning  == {"register", "render", "finish"}
Fresh   == {"idle", "prepare", "lock", "register", "render"}
Leaving == {"cleanup", "receipt", "catch-finish", "catch-cleanup", "catch-receipt", "settled"}
Judged  == {"cleanup", "receipt", "catch-cleanup", "catch-receipt"}

\* What a call's stage says of its output, its verdict and its promise.
Record(c) ==
    /\ settled[c] # "pending" <=> at[c] = "settled"
    /\ at[c] = "idle" => root[c] = None
    /\ at[c] \in Fresh => ~complete[c] /\ verdict[c] = None
    /\ at[c] = "finish" /\ complete[c] /\ ~Crowded(c) =>
         output[root[c]] = [by |-> c, whole |-> TRUE]
    /\ at[c] \in Judged => verdict[c] # None

\* Only a call that is on its way out of the root, finished, takes the links of another.
Spent(c) == at[c] \in Leaving /\ verdict[c] # None

Holds(c) ==
    at[c] \in Owning /\ project[root[c]] # c =>
        \E d \in Calls : d # c /\ root[d] = root[c] /\ Spent(d)

\* Two calls have one root only where a third has been finished in it.
Exclusive ==
    \A c, d \in Calls :
        c # d /\ at[c] \in Owning /\ at[d] \in Owning /\ root[c] = root[d] =>
            \E e \in Calls \ {c, d} : root[e] = root[c] /\ Spent(e)

\* A rendering call is in the map unless another call has its id; a restart has another
\* id than the attempt it replaces.
Mapped(c) ==
    /\ at[c] = "render" =>
         \/ controllers[Id(c)] = c
         \/ \E d \in Calls : d # c /\ at[d] # "idle" /\ Id(d) = Id(c)
    /\ replaces[c] # None => at[c] # "idle" /\ replaces[c] # Id(c)

Inv ==
    /\ ReceiptsAreTrue
    /\ \A c \in Calls : Record(c) /\ Holds(c) /\ Mapped(c)
    /\ Exclusive

LEMMA InitInv == Init => Inv
BY NamesAssumption DEF Init, Inv, ReceiptsAreTrue, TypeOK, HashIsOfOwnOutput,
   ReceiptIsLastWord, Record, Holds, Mapped, Exclusive, Stages, Owning, Judged

\* A call that takes the links of a root finds another that has it only where a third
\* one took them away.
LEMMA Enters ==
    ASSUME Inv, NEW c \in Calls, at[c] = "lock", Unlocked(c),
           NEW d \in Calls, at[d] \in Owning, root[d] = root[c]
    PROVE  \E e \in Calls \ {c, d} : root[e] = root[c] /\ Spent(e)
<1>1. project[root[d]] # d
  BY NamesAssumption DEF Unlocked
<1>2. PICK e \in Calls : e # d /\ root[e] = root[d] /\ Spent(e)
  BY <1>1 DEF Inv, Holds
<1>3. e # c
  BY <1>2 DEF Spent, Leaving
<1> QED
  BY <1>2, <1>3

\* The step of one call, as the others see it.
Others(c) ==
    \A d \in Calls : d # c =>
        /\ at'[d] = at[d] /\ root'[d] = root[d] /\ complete'[d] = complete[d]
        /\ hashed'[d] = hashed[d] /\ verdict'[d] = verdict[d]
        /\ settled'[d] = settled[d] /\ replaces'[d] = replaces[d]

Call(c) ==
    \/ \E r \in Roots : Start(c, r) \/ \E previous \in Ids : Restart(c, r, previous)
    \/ Prepare(c) \/ WriteProject(c) \/ Register(c)
    \/ RenderGoesOn(c) \/ RenderReturns(c) \/ RenderThrows(c)
    \/ Terminal(c)

LEMMA StepOfACall ==
    Next => \/ (\E c \in Calls : Call(c)) \/ (\E id \in Ids : Cancel(id))
            \/ (\E c \in Calls : SamplerThrows(c))
BY DEF Next, Call

LEMMA OthersStay ==
    ASSUME TypeOK, NEW c \in Calls, Call(c)
    PROVE  Others(c)
<1> USE DEF TypeOK, Others, Goto, Reject, Finally
<1>1. CASE \E r \in Roots : Start(c, r) \/ \E previous \in Ids : Restart(c, r, previous)
  BY <1>1 DEF Start, Restart, Begin
<1>2. CASE Prepare(c) \/ WriteProject(c) \/ Register(c)
  BY <1>2 DEF Prepare, WriteProject, Register
<1>3. CASE RenderGoesOn(c) \/ RenderReturns(c) \/ RenderThrows(c)
  BY <1>3 DEF RenderGoesOn, RenderReturns, RenderThrows
<1>4. CASE Finish(c) \/ CatchFinish(c)
  BY <1>4 DEF Finish, CatchFinish, Finished
<1>5. CASE Cleanup(c) \/ WriteReceipt(c)
  BY <1>5 DEF Cleanup, WriteReceipt
<1> QED
  BY <1>1, <1>2, <1>3, <1>4, <1>5 DEF Call, Terminal

\* A call keeps its root, and a root that is crowded stays so.
LEMMA RootsStay ==
    ASSUME Inv, [Next]_vars, NEW d \in Calls, at[d] # "idle"
    PROVE  root'[d] = root[d]
<1>1. ASSUME NEW c \in Calls, Call(c) PROVE root'[d] = root[d]
  <2>1. TypeOK
    BY DEF Inv, ReceiptsAreTrue
  <2>2. Others(c)
    BY <1>1, <2>1, OthersStay
  <2>3. CASE c # d
    BY <2>2, <2>3 DEF Others
  <2>4. CASE c = d
    BY <1>1, <2>4 DEF Call, Terminal, Start, Restart, Begin, Prepare, WriteProject, Register,
       RenderGoesOn, RenderReturns, RenderThrows, Finish, CatchFinish, Cleanup, WriteReceipt
  <2> QED
    BY <2>3, <2>4
<1> QED
  BY <1>1, StepOfACall DEF Cancel, SamplerThrows, vars

\* A call on its way out goes on, and has a verdict once it was finished.
LEMMA SpentStays ==
    ASSUME Inv, [Next]_vars, NEW e \in Calls
    PROVE  /\ at[e] \in Leaving => at'[e] \in Leaving
           /\ verdict[e] # None => verdict'[e] # None
           /\ Spent(e) => Spent(e)'
<1> USE NamesAssumption DEF Goto, Reject, Finally, Leaving
<1>1. ASSUME NEW c \in Calls, Call(c)
      PROVE  /\ at[e] \in Leaving => at'[e] \in Leaving
             /\ verdict[e] # None => verdict'[e] # None
  <2>1. TypeOK
    BY DEF Inv, ReceiptsAreTrue
  <2>2. CASE c # e
    BY <1>1, <2>1, <2>2, OthersStay DEF Others
  <2>3. CASE c = e
    <3>1. CASE \E r \in Roots : Start(e, r) \/ \E previous \in Ids : Restart(e, r, previous)
      BY <3>1 DEF Start, Restart, Begin
    <3>2. CASE Prepare(e) \/ WriteProject(e) \/ Register(e)
      BY <3>2 DEF Prepare, WriteProject, Register
    <3>3. CASE RenderGoesOn(e) \/ RenderReturns(e) \/ RenderThrows(e)
      BY <3>3 DEF RenderGoesOn, RenderReturns, RenderThrows
    <3>4. CASE Terminal(e)
      BY <2>1, <3>4 DEF TypeOK, Terminal, Finish, CatchFinish, Finished, Caught, Cleanup,
         WriteReceipt
    <3> QED
      BY <1>1, <2>3, <3>1, <3>2, <3>3, <3>4 DEF Call
  <2> QED
    BY <2>2, <2>3
<1> QED
  BY <1>1, StepOfACall DEF Cancel, SamplerThrows, vars, Spent

LEMMA CrowdedStays ==
    ASSUME Inv, [Next]_vars, NEW d \in Calls, at[d] # "idle", Crowded(d)
    PROVE  Crowded(d)'
<1>1. PICK e \in Calls \ {d}, f \in Calls \ {d} :
        e # f /\ root[e] = root[d] /\ verdict[e] # None /\ root[f] = root[d]
  BY DEF Crowded
<1>2. root[d] # None
  BY NamesAssumption DEF Inv, ReceiptsAreTrue, TypeOK
<1>3. at[e] # "idle" /\ at[f] # "idle"
  BY <1>1, <1>2 DEF Inv, Record
<1>4. root'[d] = root[d] /\ root'[e] = root[e] /\ root'[f] = root[f]
  BY <1>1, <1>3, RootsStay
<1>5. verdict'[e] # None
  BY <1>1, SpentStays
<1> QED
  BY <1>1, <1>4, <1>5 DEF Crowded

\* Where two calls are with one root, it is crowded for both.
LEMMA TwoMakeThree ==
    ASSUME Inv, NEW c \in Calls, NEW d \in Calls, c # d, root[c] = root[d],
           at[c] \in Owning, at[d] \in Owning
    PROVE  Crowded(d)
<1>1. PICK e \in Calls \ {c, d} : root[e] = root[c] /\ Spent(e)
  BY DEF Inv, Exclusive
<1> QED
  BY <1>1 DEF Crowded, Spent

---------------------------------------------------------------------------------
LEMMA TypeStep == Inv /\ [Next]_vars => TypeOK'
<1> SUFFICES ASSUME Inv, [Next]_vars PROVE TypeOK'
  OBVIOUS
<1> USE NamesAssumption DEF Inv, ReceiptsAreTrue, TypeOK, Goto, Reject, Finally, Stages
<1>0. up' \in BOOLEAN
  BY DEF Next, RunsOn, SamplerThrows, vars
<1>1. ASSUME NEW c \in Calls, NEW r \in Roots, Start(c, r) PROVE TypeOK'
  BY <1>0, <1>1 DEF Start, Begin
<1>2. ASSUME NEW c \in Calls, NEW r \in Roots, NEW previous \in Ids, Restart(c, r, previous)
      PROVE  TypeOK'
  BY <1>0, <1>2 DEF Restart, Begin
<1>3. ASSUME NEW c \in Calls, Prepare(c) PROVE TypeOK'
  BY <1>0, <1>3 DEF Prepare
<1>4. ASSUME NEW c \in Calls, WriteProject(c) PROVE TypeOK'
  BY <1>0, <1>4 DEF WriteProject, Unlocked
<1>5. ASSUME NEW c \in Calls, Register(c) PROVE TypeOK'
  BY <1>0, <1>5 DEF Register, Id
<1>6. ASSUME NEW c \in Calls, RenderGoesOn(c) \/ RenderReturns(c) \/ RenderThrows(c)
      PROVE  TypeOK'
  <2>1. \A whole \in BOOLEAN : [by |-> c, whole |-> whole] \in Outputs
    BY DEF Outputs
  <2>2. CASE RenderGoesOn(c)
    BY <1>0, <2>1, <2>2 DEF RenderGoesOn, Writes
  <2>3. CASE RenderReturns(c)
    <3>1. output' \in [Roots -> Outputs \cup {None}]
      BY <2>1, <2>3 DEF RenderReturns, Writes
    <3>2. complete' \in [Calls -> BOOLEAN]
      BY <2>3 DEF RenderReturns
    <3> QED
      BY <1>0, <2>3, <3>1, <3>2 DEF RenderReturns
  <2>4. CASE RenderThrows(c)
    BY <1>0, <2>4 DEF RenderThrows
  <2> QED
    BY <1>6, <2>2, <2>3, <2>4
<1>7. ASSUME NEW c \in Calls, Finish(c) \/ CatchFinish(c) PROVE TypeOK'
  BY <1>0, <1>7 DEF Finish, CatchFinish, Finished, Caught, Statuses, Id
<1>8. ASSUME NEW c \in Calls, Cleanup(c) PROVE TypeOK'
  BY <1>0, <1>8 DEF Cleanup, Id
<1>9. ASSUME NEW c \in Calls, WriteReceipt(c) PROVE TypeOK'
  <2>1. verdict[c] \in Statuses
    BY <1>9 DEF WriteReceipt, Record, Judged
  <2>2. receipt' \in [Roots -> [by : Calls, status : Statuses] \cup {None}]
    BY <1>9, <2>1 DEF WriteReceipt
  <2>3. \/ /\ at' = [at EXCEPT ![c] = "catch-finish"] /\ settled' = settled
        \/ /\ at' = [at EXCEPT ![c] = "settled"]
           /\ \E how \in {"resolved", "rejected"} : settled' = [settled EXCEPT ![c] = how]
    BY <1>9 DEF WriteReceipt
  <2>5. /\ at' \in [Calls -> Stages] /\ root' = root
        /\ \A d \in Calls : at'[d] # "idle" => at[d] # "idle"
        /\ settled' \in [Calls -> {"pending", "resolved", "rejected"}]
    BY <1>9, <2>3 DEF WriteReceipt
  <2>4. controllers' \in [Ids -> Calls \cup {None}] /\ sampling' \in SUBSET Calls
    BY <1>9 DEF WriteReceipt
  <2> QED
    BY <1>0, <1>9, <2>2, <2>4, <2>5 DEF WriteReceipt
<1>10. ASSUME NEW id \in Ids, Cancel(id) PROVE TypeOK'
  BY <1>0, <1>10 DEF Cancel
<1>11. ASSUME NEW c \in Calls, SamplerThrows(c) PROVE TypeOK'
  BY <1>0, <1>11 DEF SamplerThrows
<1>12. CASE UNCHANGED vars
  BY <1>12 DEF vars
<1> QED
  BY <1>1, <1>2, <1>3, <1>4, <1>5, <1>6, <1>7, <1>8, <1>9, <1>10, <1>11, <1>12 DEF Next, Terminal

\* A render writes in a root that no other call has, or that is crowded.
LEMMA RecordStep ==
    ASSUME Inv, [Next]_vars, NEW d \in Calls
    PROVE  Record(d)'
<1> USE NamesAssumption DEF Record, Goto, Reject, Finally, Fresh, Judged
<1>1. ASSUME NEW c \in Calls, Call(c) PROVE Record(d)'
  <2>1. TypeOK /\ Record(c) /\ Record(d)
    BY DEF Inv, ReceiptsAreTrue
  <2>2. Others(c)
    BY <1>1, <2>1, OthersStay
  <2>10. at[d] # "idle" => (Crowded(d) => Crowded(d)') /\ root'[d] = root[d]
    BY CrowdedStays, RootsStay
  <2> USE DEF TypeOK, Others
  <2>3. CASE \E r \in Roots : Start(c, r) \/ \E previous \in Ids : Restart(c, r, previous)
    <3>1. /\ at[c] = "idle" /\ at' = [at EXCEPT ![c] = "prepare"]
          /\ UNCHANGED <<output, complete, verdict, settled>>
      BY <2>3 DEF Start, Restart, Begin
    <3> QED
      BY <2>1, <2>2, <2>10, <3>1
  <2>4. CASE Prepare(c) \/ WriteProject(c) \/ Register(c)
    BY <2>1, <2>2, <2>4, <2>10 DEF Prepare, WriteProject, Register
  <2>5. CASE RenderGoesOn(c)
    <3>1. d # c /\ at[d] = "finish" /\ ~Crowded(d) => root[d] # root[c]
      BY <2>5, TwoMakeThree DEF RenderGoesOn, Owning
    <3> QED
      BY <2>1, <2>2, <2>5, <2>10, <3>1 DEF RenderGoesOn, Writes
  <2>6. CASE RenderReturns(c)
    <3>1. d # c /\ at[d] = "finish" /\ ~Crowded(d) => root[d] # root[c]
      BY <2>6, TwoMakeThree DEF RenderReturns, Owning
    <3>2. at[c] = "render" /\ at' = [at EXCEPT ![c] = "finish"]
          /\ UNCHANGED <<root, settled, verdict>>
      BY <2>6 DEF RenderReturns
    <3>3. CASE Writes(c, TRUE)
      BY <2>1, <2>2, <2>10, <3>1, <3>2, <3>3 DEF Writes
    <3>4. CASE UNCHANGED <<output, complete>>
      BY <2>1, <2>2, <2>10, <3>2, <3>4
    <3> QED
      BY <2>6, <3>3, <3>4 DEF RenderReturns
  <2>7. CASE RenderThrows(c)
    BY <2>1, <2>2, <2>7, <2>10 DEF RenderThrows
  <2>8. CASE Finish(c) \/ CatchFinish(c)
    <3>1. UNCHANGED <<root, output, complete>>
      BY <2>8 DEF Finish, CatchFinish
    <3>2. Record(c)'
      BY <2>1, <2>8 DEF Finish, CatchFinish, Finished, Caught
    <3> QED
      BY <2>1, <2>2, <2>10, <3>1, <3>2
  <2>9. CASE Cleanup(c) \/ WriteReceipt(c)
    <3>1. UNCHANGED <<root, output, complete, verdict>>
      BY <2>9 DEF Cleanup, WriteReceipt
    <3>2. Record(c)'
      BY <2>1, <2>9 DEF Cleanup, WriteReceipt
    <3> QED
      BY <2>1, <2>2, <2>10, <3>1, <3>2
  <2> QED
    BY <1>1, <2>3, <2>4, <2>5, <2>6, <2>7, <2>8, <2>9 DEF Call, Terminal
<1>2. CASE UNCHANGED <<at, root, output, complete, verdict, settled>>
  BY <1>2 DEF Inv, Crowded
<1> QED
  BY <1>1, <1>2, StepOfACall DEF Cancel, SamplerThrows, vars

\* A completed verdict is given to a whole output of the call's own.
LEMMA HashStep == Inv /\ [Next]_vars => HashIsOfOwnOutput'
<1> SUFFICES ASSUME Inv, [Next]_vars PROVE HashIsOfOwnOutput'
  OBVIOUS
<1>1. TypeOK /\ HashIsOfOwnOutput /\ \A c \in Calls : Record(c)
  BY DEF Inv, ReceiptsAreTrue
<1>2. \A d \in Calls : at[d] # "idle" /\ Crowded(d) => Crowded(d)'
  BY CrowdedStays
<1>3. \A d \in Calls : verdict[d] # None => at[d] # "idle"
  BY <1>1 DEF Record, Fresh
<1>4. ASSUME NEW c \in Calls, Finish(c) PROVE HashIsOfOwnOutput'
  <2>1. CASE complete[c] /\ output[root[c]] # None /\ Finished(c, "completed")
    <3>1. output[root[c]] # None /\ at[c] = "finish"
      BY <1>4, <2>1 DEF Finish
    <3>2. ~Crowded(c)' => output[root[c]] = [by |-> c, whole |-> TRUE]
      BY <1>1, <1>2, <2>1, <3>1 DEF Record
    <3>3. /\ verdict' = [verdict EXCEPT ![c] = "completed"]
          /\ hashed' = [hashed EXCEPT ![c] = output[root[c]]]
      BY <2>1 DEF Finished
    <3> QED
      BY <1>1, <1>2, <1>3, <3>1, <3>2, <3>3, NamesAssumption DEF HashIsOfOwnOutput, TypeOK
  <2>2. CASE Finished(c, "failed")
    BY <1>1, <1>2, <1>3, <2>2, NamesAssumption DEF HashIsOfOwnOutput, TypeOK, Finished
  <2>3. CASE UNCHANGED <<verdict, hashed>>
    BY <1>1, <1>2, <1>3, <2>3, NamesAssumption DEF HashIsOfOwnOutput
  <2> QED
    BY <1>4, <2>1, <2>2, <2>3 DEF Finish
<1>5. ASSUME NEW c \in Calls, CatchFinish(c) PROVE HashIsOfOwnOutput'
  <2>1. CASE UNCHANGED <<verdict, hashed>>
    BY <1>1, <1>2, <1>3, <2>1, NamesAssumption DEF HashIsOfOwnOutput
  <2>2. CASE Finished(c, Caught(c))
    <3>1. PICK v \in {"interrupted", "failed"} :
            verdict' = [verdict EXCEPT ![c] = v] /\ hashed' = [hashed EXCEPT ![c] = None]
      BY <2>2 DEF Finished, Caught
    <3>2. verdict'[c] = v /\ hashed'[c] = None
      BY <1>1, <3>1 DEF TypeOK
    <3>3. \A d \in Calls \ {c} : verdict'[d] = verdict[d] /\ hashed'[d] = hashed[d]
      BY <1>1, <3>1 DEF TypeOK
    <3> QED
      BY <1>1, <1>2, <1>3, <3>2, <3>3, NamesAssumption DEF HashIsOfOwnOutput
  <2> QED
    BY <1>5, <2>1, <2>2 DEF CatchFinish
<1>6. CASE UNCHANGED <<verdict, hashed>>
  BY <1>1, <1>2, <1>3, <1>6, NamesAssumption DEF HashIsOfOwnOutput
<1>7. ASSUME NEW c \in Calls, Call(c), ~ Finish(c), ~ CatchFinish(c)
      PROVE  UNCHANGED <<verdict, hashed>>
  <2>1. CASE \E r \in Roots : Start(c, r) \/ \E previous \in Ids : Restart(c, r, previous)
    BY <2>1 DEF Start, Restart
  <2>2. CASE Prepare(c) \/ WriteProject(c) \/ Register(c)
    BY <2>2 DEF Prepare, WriteProject, Register
  <2>3. CASE RenderGoesOn(c) \/ RenderReturns(c) \/ RenderThrows(c)
    BY <2>3 DEF RenderGoesOn, RenderReturns, RenderThrows
  <2>4. CASE Cleanup(c) \/ WriteReceipt(c)
    BY <2>4 DEF Cleanup, WriteReceipt
  <2> QED
    BY <1>7, <2>1, <2>2, <2>3, <2>4 DEF Call, Terminal
<1>8. \/ \E c \in Calls : Finish(c) \/ CatchFinish(c)
      \/ UNCHANGED <<verdict, hashed>>
  BY <1>7, StepOfACall DEF Cancel, SamplerThrows, vars
<1> QED
  BY <1>4, <1>5, <1>6, <1>8

\* A call that has a root has had it before or takes it.
LEMMA OwningBegins ==
    ASSUME Inv, [Next]_vars, NEW a \in Calls, at'[a] \in Owning
    PROVE  at[a] \in Owning \/ (WriteProject(a) /\ Unlocked(a))
<1> USE DEF Goto, Reject, Finally, Owning
<1>1. ASSUME NEW c \in Calls, Call(c)
      PROVE  at[a] \in Owning \/ (WriteProject(a) /\ Unlocked(a))
  <2>1. TypeOK
    BY DEF Inv, ReceiptsAreTrue
  <2>2. CASE c # a
    BY <1>1, <2>1, <2>2, OthersStay DEF Others
  <2>3. CASE c = a
    <3>1. CASE \E r \in Roots : Start(a, r) \/ \E previous \in Ids : Restart(a, r, previous)
      BY <2>1, <3>1 DEF TypeOK, Start, Restart, Begin
    <3>2. CASE Prepare(a) \/ WriteProject(a) \/ Register(a)
      BY <2>1, <3>2 DEF TypeOK, Prepare, WriteProject, Register
    <3>3. CASE RenderGoesOn(a) \/ RenderReturns(a) \/ RenderThrows(a)
      BY <2>1, <3>3 DEF TypeOK, RenderGoesOn, RenderReturns, RenderThrows
    <3>4. CASE Terminal(a)
      BY <2>1, <3>4 DEF TypeOK, Terminal, Finish, CatchFinish, Cleanup, WriteReceipt
    <3> QED
      BY <1>1, <2>3, <3>1, <3>2, <3>3, <3>4 DEF Call
  <2> QED
    BY <2>2, <2>3
<1> QED
  BY <1>1, StepOfACall DEF Cancel, SamplerThrows, vars

\* Only a cleanup takes a root's links away.
LEMMA LinksGo ==
    ASSUME Inv, [Next]_vars, NEW r \in Roots, project[r] # None, project'[r] # project[r]
    PROVE  \E c \in Calls : root[c] = r /\ Spent(c)
<1>1. PICK c \in Calls : Call(c)
  BY StepOfACall DEF Cancel, SamplerThrows, vars
<1>2. TypeOK /\ Record(c)
  BY DEF Inv, ReceiptsAreTrue
<1>3. Cleanup(c)
  BY <1>1, <1>2 DEF Call, Terminal, Start, Restart, Begin, Prepare, WriteProject, Unlocked,
     Register, RenderGoesOn, RenderReturns, RenderThrows, Finish, CatchFinish, WriteReceipt,
     TypeOK
<1>4. root[c] = r
  BY <1>2, <1>3 DEF Cleanup, TypeOK
<1>5. Spent(c)
  BY <1>2, <1>3 DEF Cleanup, Record, Judged, Spent, Leaving
<1> QED
  BY <1>4, <1>5

\* Owning begins where the root is found without links, and ends on the way out.
LEMMA HoldsStep ==
    ASSUME Inv, [Next]_vars, NEW d \in Calls
    PROVE  Holds(d)'
<1> SUFFICES ASSUME at'[d] \in Owning, project'[root'[d]] # d
             PROVE  \E e \in Calls : e # d /\ root'[e] = root'[d] /\ Spent(e)'
  BY DEF Holds
<1>1. TypeOK /\ Holds(d)
  BY DEF Inv, ReceiptsAreTrue
<1>2. \A e \in Calls : Spent(e) => root'[e] = root[e] /\ Spent(e)'
  BY RootsStay, SpentStays DEF Spent, Leaving
<1>3. at[d] \in Owning \/ (WriteProject(d) /\ Unlocked(d))
  BY OwningBegins
<1>4. at[d] # "idle" /\ root[d] \in Roots /\ root'[d] = root[d]
  BY <1>1, <1>3, RootsStay DEF TypeOK, Owning, WriteProject
<1>5. at[d] \in Owning
  <2>1. CASE WriteProject(d) /\ Unlocked(d)
    <3>1. at'[d] # "settled"
      BY DEF Owning
    <3>2. project' = [project EXCEPT ![root[d]] = d]
      BY <1>1, <2>1, <3>1 DEF WriteProject, Reject, TypeOK
    <3> QED
      BY <1>1, <1>4, <3>2 DEF TypeOK
  <2> QED
    BY <1>3, <2>1
<1>6. PICK e \in Calls : e # d /\ root[e] = root[d] /\ Spent(e)
  <2>1. CASE project[root[d]] # d
    BY <1>1, <1>5, <2>1 DEF Holds
  <2>2. CASE project[root[d]] = d
    <3>1. PICK c \in Calls : root[c] = root[d] /\ Spent(c)
      BY <1>4, <2>2, LinksGo, NamesAssumption
    <3> QED
      BY <1>5, <3>1 DEF Spent, Leaving, Owning
  <2> QED
    BY <2>1, <2>2
<1> QED
  BY <1>2, <1>4, <1>6

LEMMA ExclusiveStep == Inv /\ [Next]_vars => Exclusive'
<1> SUFFICES ASSUME Inv, [Next]_vars PROVE Exclusive'
  OBVIOUS
<1>1. \A e \in Calls : Spent(e) => root'[e] = root[e] /\ Spent(e)'
  BY RootsStay, SpentStays DEF Spent, Leaving
<1>2. SUFFICES ASSUME NEW c \in Calls, NEW d \in Calls, c # d,
                      at'[c] \in Owning, at'[d] \in Owning, root'[c] = root'[d]
               PROVE  \E e \in Calls \ {c, d} : root'[e] = root'[c] /\ Spent(e)'
  BY DEF Exclusive
<1>3. ASSUME NEW a \in Calls, at'[a] \in Owning
      PROVE  root'[a] = root[a] /\ (at[a] \in Owning \/ (WriteProject(a) /\ Unlocked(a)))
  <2>1. at[a] \in Owning \/ (WriteProject(a) /\ Unlocked(a))
    BY <1>3, OwningBegins
  <2>2. at[a] # "idle"
    BY <2>1 DEF Owning, WriteProject
  <2> QED
    BY <2>1, <2>2, RootsStay
<1>4. CASE at[c] \in Owning /\ at[d] \in Owning
  BY <1>1, <1>2, <1>3, <1>4 DEF Inv, Exclusive
<1>5. ASSUME NEW a \in Calls, NEW b \in Calls, a # b, at'[a] \in Owning, at'[b] \in Owning,
             root'[a] = root'[b], WriteProject(a), Unlocked(a)
      PROVE  \E e \in Calls \ {a, b} : root'[e] = root'[a] /\ Spent(e)'
  <2>1. at'[b] = at[b]
    BY <1>5, OthersStay DEF Call, Others, Inv, ReceiptsAreTrue
  <2>2. root'[a] = root[a] /\ root'[b] = root[b]
    BY <1>3, <1>5
  <2>3. PICK e \in Calls \ {a, b} : root[e] = root[a] /\ Spent(e)
    BY <1>5, <2>1, <2>2, Enters DEF WriteProject
  <2> QED
    BY <1>1, <2>2, <2>3
<1> QED
  BY <1>2, <1>3, <1>4, <1>5

\* The promise of a call that wrote a receipt is settled, and its verdict stands.
LEMMA ReceiptStep == Inv /\ [Next]_vars => ReceiptIsLastWord'
<1> SUFFICES ASSUME Inv, [Next]_vars PROVE ReceiptIsLastWord'
  OBVIOUS
<1> USE NamesAssumption DEF ReceiptIsLastWord, Goto, Reject, Finally
<1>1. ASSUME NEW c \in Calls, Call(c) PROVE ReceiptIsLastWord'
  <2>1. TypeOK /\ ReceiptIsLastWord /\ Record(c)
    BY DEF Inv, ReceiptsAreTrue
  <2>2. Others(c)
    BY <1>1, <2>1, OthersStay
  <2> USE DEF TypeOK, Others, Record, Stages
  <2>3. CASE \E r \in Roots : Start(c, r) \/ \E previous \in Ids : Restart(c, r, previous)
    BY <2>1, <2>2, <2>3 DEF Start, Restart, Begin
  <2>4. CASE Prepare(c) \/ WriteProject(c) \/ Register(c)
    BY <2>1, <2>2, <2>4 DEF Prepare, WriteProject, Register
  <2>5. CASE RenderGoesOn(c) \/ RenderReturns(c) \/ RenderThrows(c)
    <3>1. /\ at[c] = "render" /\ UNCHANGED <<receipt, verdict, settled>>
          /\ at' = at \/ \E stage \in {"finish", "catch-finish"} : at' = [at EXCEPT ![c] = stage]
      BY <2>5 DEF RenderGoesOn, RenderReturns, RenderThrows
    <3> QED
      BY <2>1, <2>2, <3>1
  <2>6. CASE Finish(c) \/ CatchFinish(c)
    BY <2>1, <2>2, <2>6 DEF Finish, CatchFinish, Finished, Caught
  <2>7. CASE Cleanup(c)
    BY <2>1, <2>2, <2>7 DEF Cleanup
  <2>8. CASE WriteReceipt(c)
    BY <2>1, <2>2, <2>8 DEF WriteReceipt
  <2> QED
    BY <1>1, <2>3, <2>4, <2>5, <2>6, <2>7, <2>8 DEF Call, Terminal
<1>2. CASE UNCHANGED <<at, receipt, verdict, settled>>
  BY <1>2 DEF Inv, ReceiptsAreTrue
<1> QED
  BY <1>1, <1>2, StepOfACall DEF Cancel, SamplerThrows, vars

\* The map changes at an id only by the calls that have it.
LEMMA MappedStep ==
    ASSUME Inv, [Next]_vars, NEW d \in Calls
    PROVE  Mapped(d)'
<1> USE NamesAssumption DEF Mapped, Goto, Reject, Finally, Id
<1>1. ASSUME NEW c \in Calls, Call(c) PROVE Mapped(d)'
  <2>1. TypeOK /\ Mapped(c) /\ Mapped(d)
    BY DEF Inv, ReceiptsAreTrue
  <2>2. Others(c)
    BY <1>1, <2>1, OthersStay
  <2> USE DEF TypeOK, Others
  <2>3. CASE \E r \in Roots : Start(c, r) \/ \E previous \in Ids : Restart(c, r, previous)
    BY <2>1, <2>2, <2>3 DEF Start, Restart, Begin, NewID
  <2>4. CASE Prepare(c) \/ WriteProject(c)
    BY <2>1, <2>2, <2>4 DEF Prepare, WriteProject
  <2>5. CASE Register(c)
    BY <2>1, <2>2, <2>5 DEF Register
  <2>6. CASE RenderGoesOn(c) \/ RenderReturns(c) \/ RenderThrows(c)
    <3>1. /\ at[c] = "render" /\ UNCHANGED <<root, controllers, replaces>>
          /\ at' = at \/ \E stage \in {"finish", "catch-finish"} : at' = [at EXCEPT ![c] = stage]
      BY <2>6 DEF RenderGoesOn, RenderReturns, RenderThrows
    <3> QED
      BY <2>1, <2>2, <3>1
  <2>7. CASE Finish(c) \/ CatchFinish(c)
    BY <2>1, <2>2, <2>7 DEF Finish, CatchFinish, Finished
  <2>8. CASE Cleanup(c) \/ WriteReceipt(c)
    BY <2>1, <2>2, <2>8 DEF Cleanup, WriteReceipt
  <2> QED
    BY <1>1, <2>3, <2>4, <2>5, <2>6, <2>7, <2>8 DEF Call, Terminal
<1>2. CASE UNCHANGED <<at, root, controllers, replaces>>
  BY <1>2 DEF Inv
<1> QED
  BY <1>1, <1>2, StepOfACall DEF Cancel, SamplerThrows, vars

---------------------------------------------------------------------------------
LEMMA InvStep == Inv /\ [Next]_vars => Inv'
<1> SUFFICES ASSUME Inv, [Next]_vars PROVE Inv'
  OBVIOUS
<1>1. TypeOK'
  BY TypeStep
<1>2. \A c \in Calls : Record(c)' /\ Holds(c)' /\ Mapped(c)'
  BY RecordStep, HoldsStep, MappedStep
<1> QED
  BY <1>1, <1>2, HashStep, ExclusiveStep, ReceiptStep DEF Inv, ReceiptsAreTrue

\* The inductive invariant holds of every reachable state of the adapter.
THEOREM Inductive == Spec => []Inv
BY InitInv, InvStep, PTL DEF Spec

\* However many calls, cancels and failures: the hash in a completed attempt is of the
\* file its own render wrote to the end, unless another call has been finished in its
\* root and a third is made there, and a receipt holds the last verdict of the call that wrote it, crowded or
\* not (adapter.mjs:186-215).
THEOREM ReceiptsTrue == Spec => []ReceiptsAreTrue
<1>1. Inv => ReceiptsAreTrue
  BY DEF Inv
<1> QED
  BY <1>1, Inductive, PTL

\* An attempt begun by restart is in the map as long as it renders, unless a third
\* attempt has its id (adapter.mjs:184, 212-228).
THEOREM RestartReachable == Spec => []RestartIsReachable
<1>1. Inv => RestartIsReachable
  BY DEF Inv, Mapped, RestartIsReachable
<1> QED
  BY <1>1, Inductive, PTL

\* Two calls render into one root at a time only where a third one, finished, is on its
\* way out of it, or out: writeProject makes its links where nothing is, so that they are the lock of
\* the root (adapter.mjs:135-143), and only a call that cleans up a second time takes
\* them from another.
THEOREM OneRenderPerRoot == Spec => []Exclusive
<1>1. Inv => Exclusive
  BY DEF Inv
<1> QED
  BY <1>1, Inductive, PTL

---------------------------------------------------------------------------------
(* RuntimeChecks: any number of helpers.                                      *)


\* The wait of runBounded or command: which timers are set, whether a close came before
\* the limit and brought a verdict, and what is left when it has.
Waits == [stage : {"idle", "waiting", "settled"}, timedOut : BOOLEAN, limit : BOOLEAN,
          grace : {<<>>, <<"reap">>, <<"kill">>, <<"reap", "kill">>}, closed : BOOLEAN,
          heard : Answers \cup {Null}, value : Answers \cup {Null}]

TimersSound ==
    /\ wait.stage = "idle" => wait = Idle
    /\ Waiting => (wait.limit <=> ~wait.timedOut)
    /\ Waiting /\ program = "probe" =>
         /\ wait.timedOut <=> wait.grace \in {<<"kill">>, <<"reap", "kill">>}
         /\ wait.heard # Null <=> wait.grace \in {<<"reap">>, <<"reap", "kill">>}
         /\ wait.closed /\ ~wait.timedOut => wait.heard # Null
    /\ program = "doctor" =>
         /\ wait.heard = Null /\ wait.grace \in {<<>>, <<"kill">>}
         /\ wait.grace # <<>> => wait.timedOut
    /\ wait.stage = "settled" => wait.value # Null

VerdictSound ==
    /\ wait.closed => "child" \notin alive
    /\ wait.heard # Null => wait.closed
    /\ wait.heard = "ok" => out = "ok" /\ code = 0
    /\ program = "probe" /\ wait.value = "ok" => wait.heard = "ok"
    /\ program = "doctor" /\ wait.timedOut /\ wait.grace = <<>> => "child" \notin alive

WaitSound == wait \in Waits /\ TimersSound /\ VerdictSound

\* The child's group, what sdk-probe has printed, and the place of the program.
ScriptSound ==
    /\ script = [phase |-> script.phase, open |-> script.open, left |-> script.left,
                 outcome |-> script.outcome]
    /\ "child" \in alive => "child" \in group
    /\ group \cap spare = {}
    /\ out = "ok" => script.outcome = "ok"
    /\ check \in SDKs /\ wait.stage # "idle" /\ script.outcome = "ok" => check \in captures

OrderSound ==
    /\ IF program = "probe" THEN check \in SDKs \cup {"done"}
       ELSE check \in (Checks \ SDKs) \cup {"done"}
    /\ wait.stage # "idle" => Spawning
    /\ check \in {"version", "bootstrap"} => options.browser
    /\ check = "bootstrap" => options.bootstrap
    /\ program = "doctor" /\ options.browser =>
         /\ check \in {"bootstrap", "done"} => results["version"] # Null
         /\ check = "done" /\ options.bootstrap => results["bootstrap"] # Null

ChecksInv ==
    /\ ReportsAreTrue /\ SettledMeansReaped
    /\ WaitSound /\ ScriptSound /\ OrderSound

LEMMA ChecksInitInv == ChecksInit => ChecksInv
<1> SUFFICES ASSUME ChecksInit PROVE ChecksInv
  OBVIOUS
<1> USE DEF ChecksInit, Idle, SDKs, Commands, Checks
<1>1. ChecksTypeOK
  <2>1. wait = Idle /\ script.phase = 1 /\ script.outcome = Null
    OBVIOUS
  <2>2. results \in [Checks -> Answers \cup {Null}] /\ check \in Checks \cup {"done"}
    OBVIOUS
  <2>3. options \in [browser : BOOLEAN, bootstrap : BOOLEAN]
    OBVIOUS
  <2>4. /\ program \in {"probe", "doctor"} /\ scratch \in BOOLEAN /\ captures \in SUBSET SDKs
        /\ spare \in SUBSET Helpers /\ alive \in SUBSET (Helpers \cup {"child"})
        /\ group \in SUBSET (Helpers \cup {"child"}) /\ piped \in SUBSET (Helpers \cup {"child"})
        /\ out = Null /\ code = Null
    OBVIOUS
  <2>5. /\ wait.stage \in {"idle", "waiting", "settled"} /\ wait.grace = <<>> /\ ~wait.limit
        /\ wait.heard = Null /\ wait.value = Null
    BY <2>1
  <2>6. script.phase \in 1..5
    BY <2>1
  <2> QED
    BY <2>1, <2>2, <2>3, <2>4, <2>5, <2>6, stray = FALSE /\ ended = FALSE DEF ChecksTypeOK, Waiting
<1>2. WaitSound
  BY NullAssumption DEF WaitSound, Waits, TimersSound, VerdictSound, Waiting
<1>3. ScriptSound /\ OrderSound
  BY NullAssumption DEF ScriptSound, OrderSound
<1>4. SettledMeansReaped
  BY DEF SettledMeansReaped, Reached
<1>5. FirstVerdictStands /\ OkMeansCaptured /\ DoctorOKMeansChecked
  BY DEF FirstVerdictStands, OkMeansCaptured, DoctorOKMeansChecked
<1> QED
  BY <1>1, <1>2, <1>3, <1>4, <1>5 DEF ChecksInv, ReportsAreTrue

\* Which timers of a grace period are set.
LEMMA GraceLists ==
    /\ Append(<<>>, "reap") = <<"reap">> /\ Append(<<>>, "kill") = <<"kill">>
    /\ Append(<<"reap">>, "kill") = <<"reap", "kill">>
    /\ Head(<<"reap">>) = "reap" /\ Head(<<"reap", "kill">>) = "reap" /\ Head(<<"kill">>) = "kill"
    /\ Tail(<<"kill">>) = <<>>
    /\ <<>> # <<"reap">> /\ <<>> # <<"kill">> /\ <<>> # <<"reap", "kill">>
    /\ <<"reap">> # <<"kill">> /\ <<"reap">> # <<"reap", "kill">> /\ <<"kill">> # <<"reap", "kill">>
<1>1. Append(<<>>, "reap") = <<"reap">> /\ Append(<<>>, "kill") = <<"kill">>
  OBVIOUS
<1>2. Append(<<"reap">>, "kill") = <<"reap", "kill">>
  <2>1. <<"reap">> \in Seq({"reap", "kill"}) /\ <<"reap", "kill">> \in Seq({"reap", "kill"})
    OBVIOUS
  <2>2. Append(<<"reap">>, "kill") \in Seq({"reap", "kill"})
    BY <2>1, AppendProperties
  <2>3. Len(Append(<<"reap">>, "kill")) = 2 /\ Len(<<"reap", "kill">>) = 2
    BY <2>1, AppendProperties
  <2>4. \A i \in 1..2 : Append(<<"reap">>, "kill")[i] = <<"reap", "kill">>[i]
    BY <2>1, AppendProperties
  <2> QED
    BY <2>1, <2>2, <2>3, <2>4, SeqEqual
<1>3. Head(<<"reap">>) = "reap" /\ Head(<<"reap", "kill">>) = "reap" /\ Head(<<"kill">>) = "kill"
  OBVIOUS
<1>4. Tail(<<"kill">>) = <<>>
  OBVIOUS
<1>5. <<>> # <<"reap">> /\ <<>> # <<"kill">> /\ <<>> # <<"reap", "kill">>
  OBVIOUS
<1>6. <<"reap">> # <<"kill">> /\ <<"reap">> # <<"reap", "kill">> /\ <<"kill">> # <<"reap", "kill">>
  OBVIOUS
<1> QED
  BY <1>1, <1>2, <1>3, <1>4, <1>5, <1>6

\* A child runs only while it is waited for.
LEMMA ChildIsAwaited ==
    ASSUME ChecksInv, "child" \in alive
    PROVE  Waiting /\ "child" \in group
BY DEF ChecksInv, ScriptSound, SettledMeansReaped, Reached

\* What the processes do by themselves: a group that is gone stays so, and without the
\* child nothing is printed or retained.
ByThemselves ==
    /\ UNCHANGED <<program, options, check, results, scratch, wait, ended>>
    /\ stray' \in {stray, FALSE}
    /\ Reached = {} => Reached' = {}
    /\ "child" \notin alive => "child" \notin alive' /\ UNCHANGED <<out, code, script, captures>>
    /\ "child" \in alive' => "child" \in group'
    /\ group' \cap spare' = {}
    /\ captures \subseteq captures'
    /\ alive' \in SUBSET (Helpers \cup {"child"}) /\ spare' \in SUBSET Helpers
    /\ group' \in SUBSET (Helpers \cup {"child"}) /\ piped' \in SUBSET (Helpers \cup {"child"})

Membership ==
    /\ "child" \in alive => "child" \in group
    /\ group \cap spare = {}
    /\ alive \in SUBSET (Helpers \cup {"child"}) /\ spare \in SUBSET Helpers
    /\ group \in SUBSET (Helpers \cup {"child"}) /\ piped \in SUBSET (Helpers \cup {"child"})

\* The one who starts a process of a group is of that group.
LEMMA StartsInGroup ==
    ASSUME Membership, NEW p, NEW h \in Helpers, Starts(p, h), program' = program
    PROVE  Membership' /\ (Reached = {} => Reached' = {}) /\ ("child" \in alive' <=> "child" \in alive)
<1>1. /\ p \in alive /\ h # "child" /\ h \in spare /\ h \notin group
      /\ alive' = alive \cup {h} /\ spare' = spare \ {h}
  BY HelpersAssumption DEF Starts, Membership
<1>2. group' = group \/ (p \in group /\ group' = group \cup {h})
  BY DEF Starts
<1>3. piped' \subseteq piped \cup {h}
  BY DEF Starts
<1>4. Membership'
  BY <1>1, <1>2, <1>3 DEF Membership
<1>5. Reached = {} => Reached' = {}
  <2>1. CASE program = "probe"
    BY <1>1, <1>2, <2>1 DEF Reached
  <2>2. CASE program # "probe"
    BY <1>1, <2>2 DEF Reached
  <2> QED
    BY <2>1, <2>2
<1> QED
  BY <1>1, <1>4, <1>5

\* And so is every process that ends.
LEMMA EndsLeaveNobody ==
    ASSUME Membership, UNCHANGED <<spare, group, piped>>, alive' \subseteq alive, program' = program
    PROVE  Membership' /\ (Reached = {} => Reached' = {})
BY DEF Membership, Reached

LEMMA ChildFrame == ChecksInv /\ ChildSteps => ByThemselves
<1> SUFFICES ASSUME ChecksInv, ChildSteps PROVE ByThemselves
  OBVIOUS
<1> USE DEF files, processes
<1>1. Membership
  BY DEF Membership, ChecksInv, ScriptSound, ReportsAreTrue, ChecksTypeOK
<1>2. CASE Phase
  <2>1. /\ UNCHANGED <<program, options, check, results, scratch, wait, stray, ended>>
        /\ "child" \in alive /\ captures \subseteq captures'
    BY <1>2 DEF Phase, Running
  <2>2. CASE \E h \in Helpers : Starts("child", h)
    BY <1>1, <2>1, <2>2, StartsInGroup DEF ByThemselves, Membership
  <2>3. CASE UNCHANGED processes
    <3>1. Membership' /\ (Reached = {} => Reached' = {})
      BY <1>1, <2>1, <2>3, EndsLeaveNobody
    <3> QED
      BY <2>1, <3>1 DEF ByThemselves, Membership
  <2> QED
    BY <1>2, <2>2, <2>3 DEF Phase
<1>3. ASSUME UNCHANGED <<program, options, check, results, scratch, wait, captures, spare, group, piped>>,
             ended' = ended, stray' \in {stray, FALSE},
             alive' \subseteq alive, "child" \notin alive => UNCHANGED <<out, code, script>>
      PROVE  ByThemselves
  <2>1. Membership' /\ (Reached = {} => Reached' = {})
    BY <1>1, <1>3, EndsLeaveNobody
  <2> QED
    BY <1>3, <2>1 DEF ByThemselves, Membership
<1>4. CASE PhaseFails \/ PrintResult
  BY <1>3, <1>4 DEF PhaseFails, PrintResult, Running, Unwinding
<1>5. CASE CloseOne
  <2>1. alive' \subseteq alive
    BY <1>5 DEF CloseOne
  <2> QED
    BY <1>3, <1>5, <2>1 DEF CloseOne, Unwinding
<1>6. CASE ProbeExits \/ ChildEnds
  BY <1>3, <1>6 DEF ProbeExits, ChildEnds, Unwinding
<1>7. ASSUME NEW p \in Helpers \cup {"child"}, NEW h \in Helpers, StartsHelper(p, h)
      PROVE  ByThemselves
  <2>1. /\ UNCHANGED <<program, options, check, results, scratch, captures, script, out, code, wait>>
        /\ UNCHANGED <<stray, ended>> /\ Starts(p, h)
    BY <1>7 DEF StartsHelper
  <2> QED
    BY <1>1, <2>1, StartsInGroup DEF ByThemselves, Membership
<1>8. ASSUME NEW h \in Helpers, HelperEnds(h) PROVE ByThemselves
  BY <1>3, <1>8 DEF HelperEnds
<1>9. CASE StraysEnd
  BY <1>3, <1>9 DEF StraysEnd
<1> QED
  BY <1>2, <1>4, <1>5, <1>6, <1>7, <1>8, <1>9 DEF ChildSteps

\* The steps of a wait: what they leave alone, and what a signal does.
Signalled ==
    /\ UNCHANGED <<program, options, check, results, scratch, captures, spare, group, piped,
                   script, out, stray, ended>>
    /\ Waiting
    /\ alive' \subseteq alive
    /\ code' \in {Null, 0, 1} /\ ("child" \notin alive => code' = code)

LEMMA SignalEnds ==
    ASSUME ChecksInv, Terminated \/ Killed \/ UNCHANGED <<alive, code>>
    PROVE  /\ alive' \subseteq alive
           /\ code' \in {Null, 0, 1} /\ ("child" \notin alive => code' = code)
<1>1. code \in {Null, 0, 1} /\ Reached \subseteq alive
  BY DEF ChecksInv, ReportsAreTrue, ChecksTypeOK, Reached
<1>2. ASSUME NEW ends \in SUBSET Reached, Ended(ends)
      PROVE  /\ alive' \subseteq alive
             /\ code' \in {Null, 0, 1} /\ ("child" \notin alive => code' = code)
  BY <1>1, <1>2 DEF Ended
<1> QED
  BY <1>1, <1>2 DEF Terminated, Killed

LEMMA WaiterSignals == ChecksInv /\ (Close \/ Limit \/ Grace) => Signalled
<1> SUFFICES ASSUME ChecksInv, Close \/ Limit \/ Grace PROVE Signalled
  OBVIOUS
<1>1. Terminated \/ Killed \/ UNCHANGED <<alive, code>>
  BY DEF Close, Limit, Grace, RunnerCloses, CommandCloses, ReapGroup
<1> QED
  BY <1>1, SignalEnds DEF Signalled, Close, Limit, Grace, files

---------------------------------------------------------------------------------
(* The wait.                                                                  *)

LEMMA WaitRecord ==
    ASSUME NEW w \in Waits
    PROVE  w = [stage |-> w.stage, timedOut |-> w.timedOut, limit |-> w.limit,
                grace |-> w.grace, closed |-> w.closed, heard |-> w.heard, value |-> w.value]
BY DEF Waits

LEMMA SettledFields ==
    ASSUME NEW w \in Waits, NEW value \in Answers \cup {Null}
    PROVE  Settled(w, value) =
             [stage |-> "settled", timedOut |-> w.timedOut, limit |-> FALSE, grace |-> <<>>,
              closed |-> w.closed, heard |-> w.heard, value |-> value]
<1> DEFINE s == Settled(w, value)
<1>1. s \in Waits
  BY DEF Settled, Waits
<1>2. /\ s.stage = "settled" /\ s.timedOut = w.timedOut /\ s.limit = FALSE /\ s.grace = <<>>
      /\ s.closed = w.closed /\ s.heard = w.heard /\ s.value = value
  BY DEF Settled, Waits
<1> HIDE DEF s
<1>3. s = [stage |-> "settled", timedOut |-> w.timedOut, limit |-> FALSE, grace |-> <<>>,
           closed |-> w.closed, heard |-> w.heard, value |-> value]
  BY <1>1, <1>2, WaitRecord
<1> QED
  BY <1>3 DEF s

LEMMA ClosedFields ==
    ASSUME NEW w \in Waits
    PROVE  [w EXCEPT !.closed = TRUE] =
             [stage |-> w.stage, timedOut |-> w.timedOut, limit |-> w.limit, grace |-> w.grace,
              closed |-> TRUE, heard |-> w.heard, value |-> w.value]
<1> DEFINE s == [w EXCEPT !.closed = TRUE]
<1>1. s \in Waits
  BY DEF Waits
<1>2. /\ s.stage = w.stage /\ s.timedOut = w.timedOut /\ s.limit = w.limit /\ s.grace = w.grace
      /\ s.closed = TRUE /\ s.heard = w.heard /\ s.value = w.value
  BY DEF Waits
<1> HIDE DEF s
<1>3. s = [stage |-> w.stage, timedOut |-> w.timedOut, limit |-> w.limit, grace |-> w.grace,
           closed |-> TRUE, heard |-> w.heard, value |-> w.value]
  BY <1>1, <1>2, WaitRecord
<1> QED
  BY <1>3 DEF s

LEMMA ReapFields ==
    ASSUME NEW w \in Waits
    PROVE  [w EXCEPT !.grace = <<"reap">>] =
             [stage |-> w.stage, timedOut |-> w.timedOut, limit |-> w.limit,
              grace |-> <<"reap">>, closed |-> w.closed, heard |-> w.heard, value |-> w.value]
<1> DEFINE s == [w EXCEPT !.grace = <<"reap">>]
<1>1. s \in Waits
  BY DEF Waits
<1>2. /\ s.stage = w.stage /\ s.timedOut = w.timedOut /\ s.limit = w.limit
      /\ s.grace = <<"reap">> /\ s.closed = w.closed /\ s.heard = w.heard /\ s.value = w.value
  BY DEF Waits
<1> HIDE DEF s
<1>3. s = [stage |-> w.stage, timedOut |-> w.timedOut, limit |-> w.limit, grace |-> <<"reap">>,
           closed |-> w.closed, heard |-> w.heard, value |-> w.value]
  BY <1>1, <1>2, WaitRecord
<1> QED
  BY <1>3 DEF s

LEMMA VerdictValue ==
    /\ Verdict \in Answers /\ Verdict # Null
    /\ Verdict = "ok" => out = "ok" /\ code = 0
BY NullAssumption DEF Verdict, Answers

\* The close of a child of the runner that came before its limit.
Heard == [wait EXCEPT !.closed = TRUE, !.heard = Verdict]

LEMMA HeardFields ==
    ASSUME wait \in Waits
    PROVE  /\ Heard \in Waits
           /\ Heard = [stage |-> wait.stage, timedOut |-> wait.timedOut, limit |-> wait.limit,
                       grace |-> wait.grace, closed |-> TRUE, heard |-> Verdict,
                       value |-> wait.value]
<1>1. Heard \in Waits
  BY VerdictValue DEF Heard, Waits
<1>2. /\ Heard.stage = wait.stage /\ Heard.timedOut = wait.timedOut /\ Heard.limit = wait.limit
      /\ Heard.grace = wait.grace /\ Heard.closed = TRUE /\ Heard.heard = Verdict
      /\ Heard.value = wait.value
  BY DEF Heard, Waits
<1> QED
  BY <1>1, <1>2, WaitRecord

\* The ways a wait of the runner goes on.
RunnerMoves ==
    \/ wait.timedOut /\ wait' = [wait EXCEPT !.closed = TRUE]
    \/ /\ ~wait.timedOut /\ group \cap alive = {} /\ UNCHANGED alive
       /\ wait' = Settled(Heard, Verdict)
    \/ /\ ~wait.timedOut
       /\ wait' = [Heard EXCEPT !.grace = Append(@, "reap")]

LEMMA CloseMoves ==
    ASSUME ChecksInv, Close
    PROVE  /\ ~wait.closed /\ "child" \notin alive
           /\ program = "probe" => RunnerMoves
           /\ program # "probe" => CommandCloses
<1>1. ~wait.closed /\ "child" \notin alive
  BY DEF Close
<1>2. Heard.heard = Verdict
  BY HeardFields DEF ChecksInv, WaitSound
<1>3. ASSUME program = "probe" PROVE RunnerMoves
  <2>1. RunnerCloses
    BY <1>3 DEF Close
  <2>2. CASE wait.timedOut
    BY <2>1, <2>2 DEF RunnerCloses, RunnerMoves
  <2>3. CASE ~wait.timedOut
    <3>1. ReapGroup(Heard)
      BY <2>1, <2>3 DEF RunnerCloses, Heard
    <3> QED
      BY <1>2, <2>3, <3>1 DEF ReapGroup, RunnerMoves
  <2> QED
    BY <2>2, <2>3
<1> QED
  BY <1>1, <1>3 DEF Close

LEMMA CloseStep ==
    ASSUME ChecksInv, Close
    PROVE  WaitSound' /\ FirstVerdictStands' /\ (wait'.stage = "waiting" \/ Reached' = {})
<1> USE DEF Waiting
<1>1. Signalled /\ wait \in Waits /\ TimersSound /\ VerdictSound /\ Waiting
  BY WaiterSignals DEF ChecksInv, WaitSound, Close
<1>2. ~wait.closed /\ wait.heard = Null /\ "child" \notin alive'
  BY <1>1, CloseMoves DEF VerdictSound, Signalled
<1>3. program \in {"probe", "doctor"}
  BY DEF ChecksInv, ReportsAreTrue, ChecksTypeOK
<1>4. CASE program = "probe"
  <2>1. CASE wait.timedOut /\ wait' = [wait EXCEPT !.closed = TRUE]
    <3>1. wait' \in Waits /\ TimersSound'
      BY <1>1, <1>2, <1>4, <2>1 DEF Waits, TimersSound, Signalled, Idle
    <3>2. VerdictSound' /\ FirstVerdictStands' /\ wait'.stage = "waiting"
      BY <1>1, <1>2, <1>4, <2>1, NullAssumption
         DEF Waits, VerdictSound, Signalled, FirstVerdictStands
    <3> QED
      BY <3>1, <3>2 DEF WaitSound
  <2>2. CASE /\ ~wait.timedOut /\ group \cap alive = {} /\ UNCHANGED alive
             /\ wait' = Settled(Heard, Verdict)
    <3>1. wait' = [stage |-> "settled", timedOut |-> FALSE, limit |-> FALSE, grace |-> <<>>,
                   closed |-> TRUE, heard |-> Verdict, value |-> Verdict]
      BY <1>1, <2>2, HeardFields, SettledFields, VerdictValue DEF Waits
    <3>2. wait' \in Waits
      BY <3>1, VerdictValue DEF Waits
    <3>3. TimersSound'
      BY <1>1, <1>4, <3>1, VerdictValue DEF TimersSound, Signalled
    <3>4. VerdictSound' /\ FirstVerdictStands'
      BY <1>1, <1>2, <1>4, <3>1, VerdictValue, CloseMoves
         DEF VerdictSound, Signalled, FirstVerdictStands
    <3>5. Reached' = {}
      BY <1>1, <1>4, <2>2 DEF Reached, Signalled
    <3> QED
      BY <3>2, <3>3, <3>4, <3>5 DEF WaitSound
  <2>3. CASE ~wait.timedOut /\ wait' = [Heard EXCEPT !.grace = Append(@, "reap")]
    <3>1. wait.grace = <<>> /\ wait.limit
      BY <1>1, <1>2, <1>4, <2>3 DEF TimersSound, Waits
    <3>2. wait' = [stage |-> "waiting", timedOut |-> FALSE, limit |-> TRUE, grace |-> <<"reap">>,
                   closed |-> TRUE, heard |-> Verdict, value |-> wait.value]
      <4>1. /\ Heard \in Waits
            /\ Heard.grace = <<>> /\ Heard.stage = "waiting"
            /\ Heard.timedOut = FALSE /\ Heard.limit = TRUE
            /\ Heard.closed = TRUE /\ Heard.heard = Verdict /\ Heard.value = wait.value
        BY <1>1, <2>3, <3>1, HeardFields DEF Waits
      <4>2. wait' = [Heard EXCEPT !.grace = <<"reap">>]
        BY <2>3, <4>1, GraceLists
      <4> QED
        BY <4>1, <4>2, ReapFields
    <3>3. wait' \in Waits /\ TimersSound'
      BY <1>1, <1>4, <3>2, VerdictValue, GraceLists DEF Waits, TimersSound, Signalled, Idle
    <3>4. VerdictSound' /\ FirstVerdictStands'
      BY <1>1, <1>2, <1>4, <3>2, VerdictValue, CloseMoves, NullAssumption
         DEF VerdictSound, Signalled, FirstVerdictStands
    <3> QED
      BY <3>2, <3>3, <3>4 DEF WaitSound
  <2> QED
    BY <1>4, <2>1, <2>2, <2>3, CloseMoves DEF RunnerMoves
<1>5. CASE program = "doctor"
  <2>1. PICK value \in {"ok", "error", "timeout"} :
          wait' = [Settled(wait, value) EXCEPT !.closed = TRUE]
    BY <1>5, CloseMoves DEF CommandCloses
  <2>2. wait' = [stage |-> "settled", timedOut |-> wait.timedOut, limit |-> FALSE,
                 grace |-> <<>>, closed |-> TRUE, heard |-> Null, value |-> value]
    <3>1. Settled(wait, value) =
            [stage |-> "settled", timedOut |-> wait.timedOut, limit |-> FALSE,
             grace |-> <<>>, closed |-> wait.closed, heard |-> Null, value |-> value]
      BY <1>1, <1>2, SettledFields DEF Answers
    <3>2. Settled(wait, value) \in Waits
      BY <1>1, <3>1 DEF Waits, Answers
    <3> QED
      BY <2>1, <3>1, <3>2, ClosedFields
  <2>3. wait' \in Waits
    BY <1>1, <2>2 DEF Waits, Answers
  <2>4. TimersSound' /\ VerdictSound' /\ FirstVerdictStands'
    BY <1>1, <1>2, <1>5, <2>2, NullAssumption
       DEF TimersSound, VerdictSound, FirstVerdictStands, Signalled
  <2>5. Reached' = {}
    BY <1>1, <1>2, <1>5 DEF Reached, Signalled
  <2> QED
    BY <2>3, <2>4, <2>5 DEF WaitSound
<1> QED
  BY <1>3, <1>4, <1>5

LEMMA LimitStep ==
    ASSUME ChecksInv, Limit
    PROVE  WaitSound' /\ FirstVerdictStands' /\ wait'.stage = "waiting"
<1> USE DEF Waiting
<1>1. /\ Signalled /\ wait \in Waits /\ TimersSound /\ VerdictSound
      /\ wait.limit /\ wait.stage = "waiting" /\ wait' = AtLimit(wait)
  BY WaiterSignals DEF ChecksInv, WaitSound, Limit, Signalled
<1>2. program \in {"probe", "doctor"}
  BY DEF ChecksInv, ReportsAreTrue, ChecksTypeOK
<1>3. ~wait.timedOut
  BY <1>1 DEF TimersSound
<1>4. /\ wait.grace = <<>> \/ (program = "probe" /\ wait.grace = <<"reap">>)
  BY <1>1, <1>2, <1>3, GraceLists DEF TimersSound, Waits
<1>5. PICK grace \in {<<"kill">>, <<"reap", "kill">>} :
        /\ grace = <<"reap", "kill">> <=> wait.grace = <<"reap">>
        /\ grace = <<"kill">> <=> wait.grace = <<>>
        /\ wait' = [stage |-> "waiting", timedOut |-> TRUE, limit |-> FALSE, grace |-> grace,
                    closed |-> wait.closed, heard |-> wait.heard, value |-> wait.value]
  BY <1>1, <1>4, GraceLists DEF AtLimit, Waits
<1>6. wait' \in Waits
  BY <1>1, <1>5 DEF Waits
<1>7. TimersSound'
  BY <1>1, <1>2, <1>3, <1>4, <1>5, GraceLists DEF TimersSound, Signalled, Idle
<1>8. VerdictSound' /\ FirstVerdictStands'
  BY <1>1, <1>5, NullAssumption, GraceLists DEF VerdictSound, FirstVerdictStands, Signalled
<1> QED
  BY <1>5, <1>6, <1>7, <1>8 DEF WaitSound

LEMMA GraceStep ==
    ASSUME ChecksInv, Grace
    PROVE  WaitSound' /\ FirstVerdictStands' /\ (wait'.stage = "waiting" \/ Reached' = {})
<1> USE DEF Waiting
<1>1. /\ Signalled /\ wait \in Waits /\ TimersSound /\ VerdictSound
      /\ wait.grace # <<>> /\ wait.stage = "waiting" /\ wait' = AfterKill(wait)
  BY WaiterSignals DEF ChecksInv, WaitSound, Grace, Signalled
<1>2. program \in {"probe", "doctor"}
  BY DEF ChecksInv, ReportsAreTrue, ChecksTypeOK
<1>3. Reached' = {}
  BY <1>1 DEF Grace, Killed, Ended, Reached, Signalled
<1>4. CASE program = "doctor"
  <2>1. wait.grace = <<"kill">> /\ wait.timedOut
    BY <1>1, <1>4 DEF TimersSound
  <2>2. wait' = [stage |-> "waiting", timedOut |-> TRUE, limit |-> FALSE, grace |-> <<>>,
                 closed |-> wait.closed, heard |-> wait.heard, value |-> wait.value]
    BY <1>1, <1>4, <2>1, GraceLists DEF AfterKill, Waits, TimersSound
  <2>3. wait' \in Waits /\ TimersSound'
    BY <1>1, <1>4, <2>2 DEF Waits, TimersSound, Signalled, Idle
  <2>4. VerdictSound' /\ FirstVerdictStands'
    BY <1>1, <1>3, <1>4, <2>2, NullAssumption
       DEF VerdictSound, FirstVerdictStands, Signalled, Reached
  <2> QED
    BY <1>3, <2>3, <2>4 DEF WaitSound
<1>5. CASE program = "probe"
  <2>1. PICK value \in Answers :
          /\ value = IF wait.heard # Null THEN wait.heard ELSE "timeout"
          /\ wait' = Settled(wait, value)
    <3>1. Head(wait.grace) = "reap" <=> wait.heard # Null
      BY <1>1, <1>5, GraceLists DEF TimersSound, Waits
    <3>2. wait' = Settled(wait, IF wait.heard # Null THEN wait.heard ELSE "timeout")
      BY <1>1, <1>5, <3>1 DEF AfterKill
    <3> QED
      BY <1>1, <3>2 DEF Waits, Answers
  <2>2. wait' = [stage |-> "settled", timedOut |-> wait.timedOut, limit |-> FALSE,
                 grace |-> <<>>, closed |-> wait.closed, heard |-> wait.heard, value |-> value]
    BY <1>1, <2>1, SettledFields
  <2>3. wait' \in Waits /\ value # Null
    <3>1. wait' \in Waits
      BY <1>1, <2>2 DEF Waits
    <3>2. "timeout" # Null
      BY NullAssumption
    <3> QED
      BY <2>1, <3>1, <3>2
  <2>4. TimersSound'
    BY <1>1, <1>5, <2>2, <2>3 DEF TimersSound, Signalled
  <2>5. VerdictSound' /\ FirstVerdictStands'
    BY <1>1, <1>5, <2>1, <2>2, NullAssumption
       DEF VerdictSound, FirstVerdictStands, Signalled
  <2> QED
    BY <1>3, <2>3, <2>4, <2>5 DEF WaitSound
<1> QED
  BY <1>2, <1>4, <1>5

---------------------------------------------------------------------------------
(* The other parts, and the theorems.                                         *)

LEMMA SpawnWaits ==
    /\ [stage |-> "waiting", timedOut |-> FALSE, limit |-> TRUE, grace |-> <<>>,
        closed |-> FALSE, heard |-> Null, value |-> Null] \in Waits
    /\ [stage |-> "settled", timedOut |-> FALSE, limit |-> FALSE, grace |-> <<>>,
        closed |-> FALSE, heard |-> Null, value |-> "error"] \in Waits
<1>1. Null \in Answers \cup {Null} /\ "error" \in Answers \cup {Null}
  BY DEF Answers
<1>2. <<>> \in {<<>>, <<"reap">>, <<"kill">>, <<"reap", "kill">>}
  OBVIOUS
<1> QED
  BY <1>1, <1>2 DEF Waits

LEMMA SpawnStep ==
    ASSUME ChecksInv, Spawn
    PROVE  WaitSound' /\ FirstVerdictStands' /\ SettledMeansReaped'
<1> USE DEF Spawn
<1>1. wait = Idle
  BY DEF ChecksInv, WaitSound, TimersSound
<1>2. program \in {"probe", "doctor"} /\ program' = program
  BY DEF ChecksInv, ReportsAreTrue, ChecksTypeOK
<1>3. \/ /\ alive' = {"child"}
         /\ wait' = [stage |-> "waiting", timedOut |-> FALSE, limit |-> TRUE, grace |-> <<>>,
                     closed |-> FALSE, heard |-> Null, value |-> Null]
      \/ /\ alive' = {}
         /\ wait' = [stage |-> "settled", timedOut |-> FALSE, limit |-> FALSE, grace |-> <<>>,
                     closed |-> FALSE, heard |-> Null, value |-> "error"]
  BY DEF Idle, Settled
<1>4. wait' \in Waits
  BY <1>3, SpawnWaits
<1>5. TimersSound'
  BY <1>2, <1>3, NullAssumption, GraceLists DEF TimersSound, Waiting
<1>6. VerdictSound' /\ FirstVerdictStands'
  BY <1>2, <1>3, NullAssumption DEF VerdictSound, FirstVerdictStands
<1>7. SettledMeansReaped'
  BY <1>2, <1>3 DEF SettledMeansReaped, Reached, Waiting
<1> QED
  BY <1>4, <1>5, <1>6, <1>7 DEF WaitSound

\* A program that goes on to its next check waits for nobody.
LEMMA ProgramStep ==
    ASSUME ChecksInv, Proceed \/ DoctorChecks \/ ProbeThrows
    PROVE  WaitSound' /\ FirstVerdictStands' /\ SettledMeansReaped'
<1>1. wait' = Idle /\ UNCHANGED <<program, processes, out, code>> /\ ~Waiting
  <2>1. CASE Proceed
    BY <2>1 DEF Proceed, Answer, Waiting
  <2>2. CASE DoctorChecks
    BY <2>2 DEF DoctorChecks, Answer, ChecksInv, OrderSound, Spawning, SDKs, Commands, Waiting
  <2>3. CASE ProbeThrows
    BY <2>3 DEF ProbeThrows, Waiting
  <2> QED
    BY <2>1, <2>2, <2>3
<1>2. Reached' = {}
  BY <1>1 DEF ChecksInv, SettledMeansReaped, Reached, processes
<1>3. wait' \in Waits
  BY <1>1 DEF Idle, Waits
<1>4. TimersSound' /\ VerdictSound' /\ FirstVerdictStands'
  BY <1>1, NullAssumption DEF TimersSound, VerdictSound, FirstVerdictStands, Idle, Waiting
<1> QED
  BY <1>2, <1>3, <1>4 DEF WaitSound, SettledMeansReaped

LEMMA ChildStep ==
    ASSUME ChecksInv, ChildSteps
    PROVE  WaitSound' /\ FirstVerdictStands' /\ SettledMeansReaped'
<1>1. ByThemselves
  BY ChildFrame
<1>2. wait' = wait /\ program' = program /\ scratch' = scratch /\ (Reached = {} => Reached' = {})
  BY <1>1 DEF ByThemselves
<1>3. wait' \in Waits /\ TimersSound'
  BY <1>2 DEF ChecksInv, WaitSound, TimersSound, Waiting
<1>4. VerdictSound'
  BY <1>1, NullAssumption DEF ByThemselves, ChecksInv, WaitSound, VerdictSound
<1>5. FirstVerdictStands'
  BY <1>2 DEF ChecksInv, ReportsAreTrue, FirstVerdictStands
<1>6. SettledMeansReaped'
  BY <1>2 DEF ChecksInv, SettledMeansReaped, Waiting
<1> QED
  BY <1>3, <1>4, <1>5, <1>6 DEF WaitSound

LEMMA WaitStep ==
    ASSUME ChecksInv, [ChecksNext]_checksVars
    PROVE  WaitSound' /\ FirstVerdictStands' /\ SettledMeansReaped'
<1>1. CASE Close \/ Limit \/ Grace
  <2>1. Signalled
    BY <1>1, WaiterSignals
  <2>2. WaitSound' /\ FirstVerdictStands' /\ (wait'.stage = "waiting" \/ Reached' = {})
    BY <1>1, CloseStep, LimitStep, GraceStep
  <2>3. Reached' # {} => Reached # {}
    BY <2>1 DEF Signalled, Reached
  <2>4. SettledMeansReaped'
    BY <2>1, <2>2, <2>3 DEF Signalled, SettledMeansReaped, Waiting, ChecksInv
  <2> QED
    BY <2>2, <2>4
<1>2. CASE UNCHANGED checksVars \/ Exit
  BY <1>2 DEF checksVars, files, Exit, processes, ChecksInv, ReportsAreTrue, WaitSound, TimersSound, VerdictSound,
     Waiting, FirstVerdictStands, SettledMeansReaped, Reached
<1> QED
  BY <1>1, <1>2, SpawnStep, ProgramStep, ChildStep DEF ChecksNext, WaiterSteps

LEMMA ScriptStep == ChecksInv /\ [ChecksNext]_checksVars => ScriptSound'
<1> SUFFICES ASSUME ChecksInv, [ChecksNext]_checksVars PROVE ScriptSound'
  OBVIOUS
<1>1. ScriptSound
  BY DEF ChecksInv
<1> DEFINE S == [phase |-> script.phase, open |-> script.open, left |-> script.left,
                 outcome |-> script.outcome]
<1>2. ASSUME ByThemselves, script' = S',
             out' = "ok" => script'.outcome = "ok",
             script'.outcome = "ok" => script.outcome = "ok" \/ check \in captures'
      PROVE  ScriptSound'
  BY <1>1, <1>2 DEF ScriptSound, ByThemselves
<1>3. CASE ChildSteps
  <2>1. ByThemselves
    BY <1>3, ChildFrame
  <2>2. CASE UNCHANGED <<script, out>>
    BY <1>1, <1>2, <2>1, <2>2 DEF ScriptSound
  <2>3. CASE Phase
    <3>1. /\ out' = out /\ script.outcome = Null
          /\ script' = S'
          /\ script'.outcome = "ok" => check \in captures'
      BY <1>1, <2>3, NullAssumption DEF Phase, Running, ScriptSound
    <3> QED
      BY <1>1, <1>2, <2>1, <3>1, NullAssumption DEF ScriptSound
  <2>4. CASE PhaseFails
    <3>1. out' = out /\ script.outcome = Null /\ script' = S' /\ script'.outcome = "error"
      BY <1>1, <2>4 DEF PhaseFails, Running, ScriptSound
    <3> QED
      BY <1>1, <1>2, <2>1, <3>1, NullAssumption DEF ScriptSound
  <2>5. CASE CloseOne
    <3>1. out' = out /\ script' = S' /\ script'.outcome = script.outcome
      BY <1>1, <2>5 DEF CloseOne, ScriptSound
    <3> QED
      BY <1>1, <1>2, <2>1, <3>1 DEF ScriptSound
  <2>6. CASE PrintResult
    <3>1. script' = script /\ out' \in {script.outcome, "garbled"}
      BY <2>6 DEF PrintResult
    <3> QED
      BY <1>1, <1>2, <2>1, <3>1 DEF ScriptSound
  <2> QED
    BY <1>3, <2>2, <2>3, <2>4, <2>5, <2>6
       DEF ChildSteps, ProbeExits, ChildEnds, StartsHelper, HelperEnds, StraysEnd, processes
<1>4. CASE Spawn
  BY <1>4, HelpersAssumption, NullAssumption DEF Spawn, ScriptSound
<1>5. CASE Close \/ Limit \/ Grace
  <2>1. Signalled
    BY <1>5, WaiterSignals
  <2> QED
    BY <1>1, <2>1 DEF Signalled, ScriptSound, Waiting
<1>6. CASE Proceed \/ DoctorChecks \/ ProbeThrows
  <2>1. wait'.stage = "idle" /\ UNCHANGED <<processes, script, out>>
    BY <1>6 DEF Proceed, DoctorChecks, ProbeThrows, Answer, Idle
  <2> QED
    BY <1>1, <2>1 DEF ScriptSound, processes
<1>7. CASE UNCHANGED checksVars \/ Exit
  BY <1>1, <1>7 DEF checksVars, files, Exit, processes, ScriptSound
<1> QED
  BY <1>3, <1>4, <1>5, <1>6, <1>7 DEF ChecksNext, WaiterSteps

LEMMA OrderStep == ChecksInv /\ [ChecksNext]_checksVars => OrderSound'
<1> SUFFICES ASSUME ChecksInv, [ChecksNext]_checksVars PROVE OrderSound'
  OBVIOUS
<1>1. /\ OrderSound /\ program \in {"probe", "doctor"}
      /\ results \in [Checks -> Answers \cup {Null}]
  BY DEF ChecksInv, ReportsAreTrue, ChecksTypeOK
<1>2. ASSUME UNCHANGED <<program, options, check, results>>, wait'.stage # "idle" => Spawning
      PROVE  OrderSound'
  BY <1>1, <1>2 DEF OrderSound, Spawning
<1>3. CASE ChildSteps
  BY <1>1, <1>2, <1>3, ChildFrame DEF ByThemselves, OrderSound
<1>4. CASE Spawn
  BY <1>1, <1>2, <1>4 DEF Spawn
<1>5. CASE Close \/ Limit \/ Grace
  BY <1>1, <1>2, <1>5, WaiterSignals DEF Signalled, Waiting, OrderSound
<1>6. ASSUME NEW value, value # Null, Answer(value), UNCHANGED <<program, options>>,
             check \in Checks
      PROVE  OrderSound'
  <2>1. /\ wait'.stage = "idle" /\ check' = Following
        /\ results'[check] = value /\ \A c \in Checks \ {check} : results'[c] = results[c]
    BY <1>1, <1>6 DEF Answer, Idle
  <2> USE DEF OrderSound, Following, SDKs, Commands, Checks
  <2>2. CASE program = "probe"
    BY <1>1, <1>6, <2>1, <2>2
  <2>3. CASE program = "doctor"
    <3>1. CASE check \in {"setup", "renderer", "ffmpeg"}
      BY <1>1, <1>6, <2>1, <2>3, <3>1
    <3>2. CASE check \in {"version", "bootstrap"}
      BY <1>1, <1>6, <2>1, <2>3, <3>2
    <3> QED
      BY <1>1, <1>6, <2>3, <3>1, <3>2
  <2> QED
    BY <1>1, <2>2, <2>3
<1>7. CASE Proceed
  <2>1. wait.value # Null /\ check \in Checks
    BY <1>1, <1>7 DEF Proceed, ChecksInv, WaitSound, TimersSound, OrderSound, Spawning, Checks
  <2> QED
    BY <1>6, <1>7, <2>1 DEF Proceed
<1>8. CASE DoctorChecks
  <2>1. PICK value \in {"ok", "error"} : Answer(value)
    BY <1>8 DEF DoctorChecks, Bootstraps
  <2> QED
    BY <1>6, <1>8, <2>1, NullAssumption DEF DoctorChecks, Checks
<1>9. CASE ProbeThrows
  BY <1>1, <1>9 DEF ProbeThrows, Idle, OrderSound
<1>10. CASE UNCHANGED checksVars \/ Exit
  BY <1>1, <1>10 DEF checksVars, files, Exit, OrderSound, Spawning
<1> QED
  BY <1>3, <1>4, <1>5, <1>7, <1>8, <1>9, <1>10 DEF ChecksNext, WaiterSteps

LEMMA ChecksTypeStep == ChecksInv /\ [ChecksNext]_checksVars => ChecksTypeOK'
<1> SUFFICES ASSUME ChecksInv, [ChecksNext]_checksVars PROVE ChecksTypeOK'
  OBVIOUS
<1>1. ChecksTypeOK /\ ScriptSound
  BY DEF ChecksInv, ReportsAreTrue
<1>2. wait' \in Waits /\ TimersSound'
  BY WaitStep DEF WaitSound
<1>3. /\ wait'.stage \in {"idle", "waiting", "settled"}
      /\ wait'.grace \in {<<>>, <<"reap">>, <<"kill">>, <<"reap", "kill">>}
      /\ wait'.heard \in Answers \cup {Null} /\ wait'.value \in Answers \cup {Null}
  BY <1>2 DEF Waits
<1>4. ASSUME ByThemselves, ~Waiting' => wait'.grace = <<>> /\ ~wait'.limit,
             script'.phase \in 1..5, script'.outcome \in {Null, "ok", "error"},
             out' \in {Null, "ok", "error", "garbled"}, code' \in {Null, 0, 1},
             captures' \in SUBSET SDKs
      PROVE  ChecksTypeOK'
  BY <1>1, <1>3, <1>4 DEF ChecksTypeOK, ByThemselves
<1>5. CASE ChildSteps
  <2>1. ByThemselves
    BY <1>5, ChildFrame
  <2>2. ~Waiting' => wait'.grace = <<>> /\ ~wait'.limit
    BY <1>1, <2>1 DEF ChecksTypeOK, ByThemselves, Waiting
  <2>3. captures' \in SUBSET SDKs
    BY <1>1, <1>5 DEF ChecksTypeOK, ChildSteps, Phase, PhaseFails, CloseOne, PrintResult,
       ProbeExits, ChildEnds, StartsHelper, HelperEnds, StraysEnd, processes, Running
  <2>4. script'.phase \in 1..5 /\ script'.outcome \in {Null, "ok", "error"}
    <3>1. CASE Phase
      <4>1. /\ check \in SDKs /\ script.phase \in 1..5
            /\ script.phase = 5 => Phases[check][script.phase] = "capture"
        BY <1>1, <3>1 DEF Phase, Running, ChecksTypeOK, SDKs, Phases
      <4>2. \/ Phases[check][script.phase] = "capture" /\ script'.phase = script.phase
            \/ Phases[check][script.phase] # "capture" /\ script'.phase = script.phase + 1
        BY <1>1, <3>1 DEF Phase, ScriptSound
      <4>3. script'.outcome \in {Null, "ok", "error"}
        BY <1>1, <3>1 DEF Phase, ScriptSound
      <4> QED
        BY <4>1, <4>2, <4>3
    <3>2. CASE PhaseFails \/ CloseOne
      BY <1>1, <3>2 DEF PhaseFails, CloseOne, ScriptSound, ChecksTypeOK
    <3>3. CASE script' = script
      BY <1>1, <3>3 DEF ChecksTypeOK
    <3> QED
      BY <1>5, <3>1, <3>2, <3>3
         DEF ChildSteps, PrintResult, ProbeExits, ChildEnds, StartsHelper, HelperEnds, StraysEnd, processes
  <2>5. out' \in {Null, "ok", "error", "garbled"} /\ code' \in {Null, 0, 1}
    BY <1>1, <1>5 DEF ChecksTypeOK, ChildSteps, Phase, PhaseFails, CloseOne, PrintResult,
       ProbeExits, ChildEnds, StartsHelper, HelperEnds, StraysEnd, processes
  <2> QED
    BY <1>4, <2>1, <2>2, <2>3, <2>4, <2>5
<1>6. CASE Spawn
  <2>1. ~Waiting' => wait'.grace = <<>> /\ ~wait'.limit
    BY <1>6 DEF Spawn, Waiting, Settled, Idle
  <2>2. /\ alive' \in SUBSET (Helpers \cup {"child"}) /\ group' = {"child"} /\ piped' = {"child"}
        /\ spare' = Helpers /\ out' = Null /\ code' = Null /\ scratch' \in BOOLEAN
        /\ script'.phase = 1 /\ script'.outcome = Null
        /\ UNCHANGED <<program, options, check, results, captures, ended>>
        /\ stray' \in BOOLEAN
    BY <1>1, <1>6 DEF Spawn, ChecksTypeOK
  <2> QED
    BY <1>1, <1>3, <2>1, <2>2 DEF ChecksTypeOK
<1>7. CASE Close \/ Limit \/ Grace
  <2>1. Signalled
    BY <1>7, WaiterSignals
  <2>2. ~Waiting' => wait'.grace = <<>> /\ ~wait'.limit
    <3>1. CASE Close
      <4>1. wait \in Waits
        BY DEF ChecksInv, WaitSound
      <4>2. CASE program = "probe"
        <5>1. wait'.stage = "waiting" \/ wait' = Settled(Heard, Verdict)
          BY <2>1, <3>1, <4>1, <4>2, CloseMoves, HeardFields
             DEF RunnerMoves, Signalled, Waiting, Waits
        <5> QED
          BY <4>1, <5>1, SettledFields, HeardFields, VerdictValue DEF Waiting
      <4>3. CASE program # "probe"
        BY <3>1, <4>1, <4>3, CloseMoves DEF CommandCloses, Settled, Waits
      <4> QED
        BY <4>2, <4>3
    <3>2. CASE Limit
      BY <2>1, <3>2, LimitStep DEF Waiting
    <3>3. CASE Grace
      BY <2>1, <3>3 DEF Grace, AfterKill, Settled, Signalled, Waiting, ChecksInv, WaitSound, Waits
    <3> QED
      BY <1>7, <3>1, <3>2, <3>3
  <2> QED
    BY <1>1, <1>3, <2>1, <2>2 DEF ChecksTypeOK, Signalled
<1>8. CASE Proceed \/ DoctorChecks
  <2>1. PICK value \in Answers \cup {Null} : Answer(value)
    BY <1>1, <1>8 DEF Proceed, DoctorChecks, Bootstraps, Answers, ChecksTypeOK
  <2>2. wait'.grace = <<>> /\ ~wait'.limit
    BY <2>1 DEF Answer, Idle
  <2>3. results' \in [Checks -> Answers \cup {Null}] /\ check' \in Checks \cup {"done"}
    <3>1. check \in Checks /\ check' = Following
      BY <1>8, <2>1 DEF Answer, Proceed, DoctorChecks, ChecksInv, OrderSound, Spawning, Checks
    <3>2. check' \in Checks \cup {"done"}
      BY <3>1 DEF Following, Checks, SDKs, Commands
    <3> QED
      BY <1>1, <2>1, <3>2 DEF Answer, ChecksTypeOK
  <2>4. /\ UNCHANGED <<program, options, captures, processes, script, out, code, stray, ended>>
        /\ scratch' \in BOOLEAN
    BY <1>1, <1>8 DEF Proceed, DoctorChecks, ChecksTypeOK
  <2> QED
    BY <1>1, <1>3, <2>2, <2>3, <2>4 DEF ChecksTypeOK, processes
<1>9. CASE ProbeThrows
  <2>1. wait'.grace = <<>> /\ ~wait'.limit
    BY <1>9 DEF ProbeThrows, Idle
  <2>2. /\ UNCHANGED <<program, options, check, results, scratch, captures, spare, alive, group,
                       piped, script, out, code, stray>>
        /\ ended' \in BOOLEAN
    BY <1>9 DEF ProbeThrows, processes
  <2> QED
    BY <1>1, <1>3, <2>1, <2>2 DEF ChecksTypeOK
<1>10. CASE UNCHANGED checksVars
  BY <1>1, <1>10 DEF checksVars, files, ChecksTypeOK, Waiting
<1>11. CASE Exit
  <2>1. /\ UNCHANGED <<program, options, check, results, scratch, captures, spare, alive, group,
                       piped, script, out, code, wait, stray>>
        /\ ended' \in BOOLEAN
    BY <1>11 DEF Exit, processes
  <2> QED
    BY <1>1, <2>1 DEF ChecksTypeOK, Waiting
<1> QED
  BY <1>5, <1>6, <1>7, <1>8, <1>9, <1>10, <1>11 DEF ChecksNext, WaiterSteps

\* An answer ok has been heard, and a doctor that is done has asked all it was to ask.
LEMMA OkIsHeard == WaitSound /\ ScriptSound /\ OrderSound => OkMeansCaptured
BY DEF WaitSound, VerdictSound, ScriptSound, OrderSound, OkMeansCaptured, Checks, SDKs, Commands

LEMMA DoneIsChecked == OrderSound => DoctorOKMeansChecked
BY DEF OrderSound, DoctorOKMeansChecked, DoctorOK

LEMMA ChecksInvStep == ChecksInv /\ [ChecksNext]_checksVars => ChecksInv'
<1> SUFFICES ASSUME ChecksInv, [ChecksNext]_checksVars PROVE ChecksInv'
  OBVIOUS
<1>1. WaitSound' /\ FirstVerdictStands' /\ SettledMeansReaped'
  BY WaitStep
<1>2. ScriptSound' /\ OrderSound' /\ ChecksTypeOK'
  BY ScriptStep, OrderStep, ChecksTypeStep
<1>3. OkMeansCaptured' /\ DoctorOKMeansChecked'
  BY <1>1, <1>2, OkIsHeard, DoneIsChecked, PTL
<1> QED
  BY <1>1, <1>2, <1>3 DEF ChecksInv, ReportsAreTrue

\* The inductive invariant holds of every reachable state of the two programs.
THEOREM ChecksInductive == ChecksSpec => []ChecksInv
BY ChecksInitInv, ChecksInvStep, PTL DEF ChecksSpec

\* Whatever the children and their helpers do, and in whatever order close, limit and
\* grace periods come: when a promise has settled, nothing is left of the group of the
\* runner's child, nor of the doctor's child itself (runner.mjs:18-83, doctor.mjs:107-124).
THEOREM NothingIsLeft == ChecksSpec => []SettledMeansReaped
<1>1. ChecksInv => SettledMeansReaped
  BY DEF ChecksInv
<1> QED
  BY <1>1, ChecksInductive, PTL

\* What the probe and the doctor report is what became of the children: the first of
\* close and limit decides, ok is of a child that retained its capture, and a doctor is
\* ok that has checked all it was given (runner.mjs:52-82, doctor.mjs:217-306).
THEOREM ReportsTrue == ChecksSpec => []ReportsAreTrue
<1>1. ChecksInv => ReportsAreTrue
  BY DEF ChecksInv
<1> QED
  BY <1>1, ChecksInductive, PTL

\* While a promise is pending, a timer is set that will end the wait; the doctor's wait
\* may go on without one, when its child has ended and another process holds the pipe.
TimerIsSet ==
    Waiting => wait.limit \/ wait.grace # <<>> \/ (program = "doctor" /\ "child" \notin alive)

\* No order of signals, closes and ends of children leaves a wait with no timer, but for
\* the doctor's that only awaits the close (runner.mjs:73-82, doctor.mjs:107-124).
THEOREM NobodyWaitsInVain == ChecksSpec => []TimerIsSet
<1>1. ChecksInv => TimerIsSet
  <2>1. ChecksInv => program \in {"probe", "doctor"} /\ TimersSound /\ VerdictSound
    BY DEF ChecksInv, ReportsAreTrue, ChecksTypeOK, WaitSound
  <2> QED
    BY <2>1, GraceLists DEF TimerIsSet, TimersSound, VerdictSound
<1> QED
  BY <1>1, ChecksInductive, PTL
==================================================================================
