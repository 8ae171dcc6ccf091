---------------------- MODULE ConfigurationParserProofs ----------------------
(***************************************************************************)
(* For every set of documents, with aliases or without, whose sequences    *)
(* have at least one value: every state given to emit is a permutation,    *)
(* and no index of the stack ever leaves its sequence.  For those without  *)
(* aliases: the states given to emit are the readings of an odometer, in   *)
(* its order, and all of them when the function returns.                   *)
(***************************************************************************)
EXTENDS ConfigurationParser, SumProofs, SequenceTheorems

NoEmptySequence ==
  \A d \in Docs : \A k \in 1 .. Len(d) : ~d[k].scalar => d[k].size > 0

\* The values that parameter k may take.
Values(k) == 0 .. (Radix(doc[k]) - 1)

\* The inductive invariant.  The entries behind `it' already have the values of
\* this pass, so that at its end the whole state is a permutation.
IInv ==
  /\ doc \in Docs
  /\ it \in 1 .. (Len(doc) + 1)
  /\ stack \in Seq(Frame)
  /\ emitIteration \in BOOLEAN
  /\ StackHoldsValues
  /\ state \in [Entries -> Int \cup {Unset}]
  /\ \A k \in Entries : k < it => state[k] \in Values(k)
  /\ emitted \in Seq([Entries -> Int \cup {Unset}])
  /\ \A n \in 1 .. Len(emitted) : \A k \in Entries : emitted[n][k] \in Values(k)

LEMMA DocFacts ==
  ASSUME doc \in Docs
  PROVE  /\ Wrap \in Nat \ {0}
         /\ doc \in Seq(Entry)
         /\ Len(doc) \in Nat
         /\ \A k \in Entries : /\ doc[k].scalar \in BOOLEAN
                               /\ doc[k].node \in Nat
                               /\ doc[k].size \in 0 .. (Wrap - 1)
         /\ \A j, k \in Entries :
              ~doc[j].scalar /\ ~doc[k].scalar /\ doc[j].node = doc[k].node
              => doc[j].size = doc[k].size
<1>1. doc \in Seq(Entry) /\ Wrap \in Nat \ {0}
  BY DocsAssumption
<1>2. \A k \in Entries : doc[k] \in Entry
  BY <1>1 DEF Entries
<1>. QED BY <1>1, <1>2, DocsAssumption DEF Entry, Entries

\* An update with a value the parameter may take keeps the part of the
\* invariant that is about the client's state.
LEMMA UpdateKeeps ==
  ASSUME IInv, it \in Entries, NEW index \in Values(it), Update(index)
  PROVE  /\ doc' = doc /\ emitIteration' = emitIteration /\ emitted' = emitted
         /\ it' \in 1 .. (Len(doc) + 1)
         /\ state' \in [Entries -> Int \cup {Unset}]
         /\ \A k \in Entries : k < it' => state'[k] \in Values(k)
<1>1. Len(doc) \in Nat
  BY DocFacts DEF IInv
<1>2. index \in Int
  BY DEF Values
<1>3. doc' = doc /\ emitIteration' = emitIteration /\ emitted' = emitted
  BY DEF Update
<1>4. it' = it + 1 /\ state' = [state EXCEPT ![it] = index]
  BY DEF Update
<1>5. it' \in 1 .. (Len(doc) + 1)
  BY <1>1, <1>4 DEF Entries
<1>6. state' \in [Entries -> Int \cup {Unset}]
  BY <1>2, <1>4 DEF IInv
<1>7. ASSUME NEW k \in Entries, k < it' PROVE state'[k] \in Values(k)
  <2>1. k = it \/ k < it
    BY <1>4, <1>7 DEF Entries
  <2>2. CASE k = it
    BY <2>2, <1>4 DEF IInv
  <2>3. CASE k < it /\ k # it
    BY <2>3, <1>4 DEF IInv
  <2>. QED BY <2>1, <2>2, <2>3
<1>. QED BY <1>3, <1>5, <1>6, <1>7

\* What an action that updates has to show besides.
LEMMA VisitKeeps ==
  ASSUME IInv, it \in Entries, NEW index \in Values(it), Update(index),
         stack' \in Seq(Frame), StackHoldsValues'
  PROVE  IInv'
<1>1. doc' = doc /\ emitIteration' = emitIteration /\ emitted' = emitted
  BY UpdateKeeps
<1>. QED BY <1>1, UpdateKeeps DEF IInv, Entries, Values

-----------------------------------------------------------------------------
\* What the actions do to the stack.
LEMMA PushStack ==
  ASSUME IInv, Push
  PROVE  /\ Len(stack) \in Nat /\ Len(stack') = Len(stack) + 1 /\ stack' \in Seq(Frame)
         /\ stack'[Len(stack) + 1].node = doc[it].node
         /\ stack'[Len(stack) + 1].index = 0
         /\ \A j \in 1 .. Len(stack) : stack'[j] = stack[j]
<1> DEFINE frame == [node |-> doc[it].node, index |-> 0]
<1>1. stack' = Append(stack, frame) /\ stack \in Seq(Frame)
  BY DEF Push, IInv
<1>2. frame.node = doc[it].node /\ frame.index = 0
  OBVIOUS
<1>3. Len(stack') = Len(stack) + 1 /\ stack'[Len(stack) + 1] = frame /\ Len(stack) \in Nat
      /\ \A j \in 1 .. Len(stack) : stack'[j] = stack[j]
  <2> HIDE DEF frame
  <2>. QED BY <1>1
<1>4. stack' \in Seq(Frame)
  <2>1. frame \in Frame
    BY DocsAssumption, DocFacts DEF Push, Visiting, Frame, IInv
  <2> HIDE DEF frame
  <2>. QED BY <1>1, <2>1
<1>. QED BY <1>2, <1>3, <1>4

LEMMA AdvanceStack ==
  ASSUME IInv, Advance
  PROVE  /\ Len(stack') = Len(stack) /\ stack' \in Seq(Frame)
         /\ NextIndex = Top.index + 1 /\ NextIndex < doc[it].size /\ Top.index \in Nat
         /\ stack'[Len(stack)].node = doc[it].node
         /\ stack'[Len(stack)].index = NextIndex
         /\ \A j \in 1 .. Len(stack) : j # Len(stack) => stack'[j] = stack[j]
<1> DEFINE last == Len(stack)
<1>0. /\ Len(doc) \in Nat /\ Wrap \in Nat \ {0} /\ stack \in Seq(Frame)
      /\ Len(stack) \in Nat
  BY DocFacts DEF IInv
<1>1. /\ it \in Entries /\ ~doc[it].scalar /\ Update(NextIndex)
      /\ stack' = [stack EXCEPT ![last].index = NextIndex]
      /\ NextIndex # doc[it].size
  BY DEF Advance, Visiting
<1>2. last \in 1 .. Len(stack) /\ stack[last].node = doc[it].node
  BY <1>0 DEF Advance, OnTop, Top
<1>3. stack[last] \in Frame
  BY <1>0, <1>2
<1>4. stack[last].index < doc[it].size
  <2>1. PICK k \in Entries : /\ ~doc[k].scalar /\ doc[k].node = stack[last].node
                             /\ stack[last].index < doc[k].size
    BY <1>2 DEF IInv, StackHoldsValues, Sequential
  <2>2. doc[k].size = doc[it].size
    BY <1>1, <1>2, <2>1, DocFacts DEF IInv
  <2>. QED BY <2>1, <2>2
<1>5. NextIndex = stack[last].index + 1 /\ NextIndex < doc[it].size /\ NextIndex \in Nat /\ stack[last].index \in Nat
  <2>1. stack[last].index \in Nat /\ doc[it].size \in Nat /\ doc[it].size < Wrap
    BY <1>0, <1>1, <1>3, DocFacts DEF Frame, IInv
  <2>2. stack[last].index + 1 \in 0 .. (Wrap - 1)
    BY <1>0, <1>4, <2>1
  <2>3. NextIndex = stack[last].index + 1
    BY <1>0, <2>1, <2>2 DEF NextIndex, Top
  <2>. QED BY <1>1, <1>4, <2>1, <2>3
<1>6. NextIndex \in 0 .. (Wrap - 1)
  BY <1>0, <1>1, <1>5, DocFacts DEF IInv
<1>7. /\ stack' \in Seq(Frame) /\ Len(stack') = Len(stack)
      /\ stack'[last].node = stack[last].node /\ stack'[last].index = NextIndex
      /\ \A j \in 1 .. Len(stack) : j # last => stack'[j] = stack[j]
  <2> DEFINE frame == [stack[last] EXCEPT !.index = NextIndex]
  <2>1. frame \in Frame /\ frame.node = stack[last].node /\ frame.index = NextIndex
    BY <1>3, <1>6 DEF Frame
  <2>2. stack' = [stack EXCEPT ![last] = frame]
    BY <1>1
  <2> HIDE DEF frame
  <2>3. /\ stack' \in Seq(Frame) /\ Len(stack') = Len(stack)
        /\ \A j \in 1 .. Len(stack) : stack'[j] = IF j = last THEN frame ELSE stack[j]
    BY <1>0, <1>2, <2>1, <2>2, ExceptSeq
  <2>. QED BY <1>2, <2>1, <2>3
<1>. QED BY <1>2, <1>5, <1>7 DEF Top

LEMMA PopStack ==
  ASSUME IInv, Pop
  PROVE  /\ Len(stack) \in 1 .. Len(stack)
         /\ stack' \in Seq(Frame) /\ Len(stack') = Len(stack) - 1
         /\ \A j \in 1 .. (Len(stack) - 1) : stack'[j] = stack[j]
<1>1. stack' = SubSeq(stack, 1, Len(stack) - 1) /\ stack \in Seq(Frame) /\ stack # <<>>
  BY DEF Pop, OnTop, IInv
<1>2. Len(stack) \in Nat /\ Len(stack) \in 1 .. Len(stack)
  BY <1>1
<1> DEFINE last == Len(stack)
<1>3. \A j \in 1 .. (last - 1) : stack[j] \in Frame
  BY <1>1, <1>2
<1>4. last - 1 \in Int /\ last - 1 >= 0 /\ 1 \in Int
  BY <1>2
<1>5. /\ SubSeq(stack, 1, last - 1) \in Seq(Frame)
      /\ Len(SubSeq(stack, 1, last - 1)) = IF 1 <= last - 1 THEN (last - 1) - 1 + 1 ELSE 0
      /\ \A j \in 1 .. ((last - 1) - 1 + 1) : SubSeq(stack, 1, last - 1)[j] = stack[1 + j - 1]
  BY <1>3, <1>4, SubSeqProperties
<1>6. Len(stack') = last - 1
  <2>0. \A m \in Int : m >= 0 => (IF 1 <= m THEN m - 1 + 1 ELSE 0) = m
    OBVIOUS
  <2>1. (IF 1 <= last - 1 THEN (last - 1) - 1 + 1 ELSE 0) = last - 1
    BY <1>4, <2>0, Zenon
  <2>2. Len(stack') = Len(SubSeq(stack, 1, last - 1))
    BY <1>1, Zenon
  <2>. QED BY <1>5, <2>1, <2>2, Zenon
<1>7. ASSUME NEW j \in 1 .. (last - 1) PROVE stack'[j] = stack[j]
  <2>1. j \in 1 .. ((last - 1) - 1 + 1) /\ 1 + j - 1 = j
    BY <1>2
  <2>. QED BY <1>1, <1>5, <2>1
<1>. QED BY <1>1, <1>2, <1>5, <1>6, <1>7

\* find_if finds the sequence where it is.
LEMMA FirstHeld ==
  ASSUME IInv, NEW node, HeldAt(node) # {}
  PROVE  Min(HeldAt(node)) \in 1 .. Len(stack) /\ stack[Min(HeldAt(node))].node = node
<1>1. HeldAt(node) \subseteq 1 .. Len(stack) /\ Len(stack) \in Nat
  BY DEF HeldAt, IInv
<1>2. PICK j \in HeldAt(node) : TRUE
  OBVIOUS
<1>3. \A i \in HeldAt(node) : i = j
  BY <1>1, <1>2 DEF HeldAt, IInv, StackHoldsValues
<1>4. Min(HeldAt(node)) \in HeldAt(node)
  <2>1. \A i \in HeldAt(node) : j <= i
    BY <1>1, <1>3
  <2>. QED BY <1>2, <2>1 DEF Min
<1>. QED BY <1>1, <1>4 DEF HeldAt

-----------------------------------------------------------------------------
LEMMA StepKeeps ==
  ASSUME NoEmptySequence, IInv, Next
  PROVE  IInv'
<1>1. /\ Len(doc) \in Nat /\ Wrap \in Nat \ {0} /\ stack \in Seq(Frame)
      /\ Len(stack) \in Nat
  BY DocFacts DEF IInv
<1>2. ASSUME NEW k \in Entries, ~doc[k].scalar PROVE doc[k].size > 0
  BY <1>2 DEF IInv, NoEmptySequence, Entries
<1>3. CASE VisitScalar
  <2>1. it \in Entries /\ Update(0) /\ stack' = stack
    BY <1>3 DEF VisitScalar, Visiting
  <2>2. 0 \in Values(it)
    BY <1>3 DEF VisitScalar, Values, Radix
  <2>3. StackHoldsValues'
    BY <2>1 DEF IInv, StackHoldsValues, Sequential, Update, Entries
  <2>. QED BY <1>1, <2>1, <2>2, <2>3, VisitKeeps
<1>4. CASE Push
  <2>1. it \in Entries /\ ~doc[it].scalar /\ Update(0) /\ HeldAt(doc[it].node) = {}
    BY <1>4 DEF Push, Visiting
  <2>2. doc[it].size > 0 /\ doc[it].size \in Nat /\ doc[it].node \in Nat
    BY <1>2, <2>1, DocFacts DEF IInv
  <2>3. 0 \in Values(it)
    BY <2>1, <2>2 DEF Values, Radix
  <2>4. /\ stack' \in Seq(Frame) /\ Len(stack') = Len(stack) + 1
        /\ stack'[Len(stack) + 1].node = doc[it].node
        /\ stack'[Len(stack) + 1].index = 0
        /\ \A j \in 1 .. Len(stack) : stack'[j] = stack[j]
    BY <1>4, PushStack
  <2>5. StackHoldsValues'
    <3>1. \A j \in 1 .. Len(stack) : stack[j].node # doc[it].node
      BY <1>1, <1>4 DEF Push, HeldAt
    <3>2. ASSUME NEW i \in 1 .. Len(stack'), NEW j \in 1 .. Len(stack'),
                 stack'[i].node = stack'[j].node
          PROVE  i = j
      <4>1. \A m \in 1 .. Len(stack') : m \in 1 .. Len(stack) \/ m = Len(stack) + 1
        BY <1>1, <2>4
      <4>2. CASE i \in 1 .. Len(stack) /\ j \in 1 .. Len(stack)
        BY <2>4, <3>2, <4>2 DEF IInv, StackHoldsValues
      <4>3. CASE i \in 1 .. Len(stack) /\ j = Len(stack) + 1
        BY <2>4, <3>1, <3>2, <4>3
      <4>4. CASE i = Len(stack) + 1 /\ j \in 1 .. Len(stack)
        BY <2>4, <3>1, <3>2, <4>4
      <4>. QED BY <4>1, <4>2, <4>3, <4>4
    <3>3. ASSUME NEW j \in 1 .. Len(stack')
          PROVE  \E k \in Sequential : /\ doc[k].node = stack'[j].node
                                        /\ stack'[j].index < doc[k].size
      <4>1. CASE j = Len(stack) + 1
        BY <2>1, <2>2, <2>4, <4>1 DEF Sequential
      <4>2. CASE j \in 1 .. Len(stack)
        BY <2>4, <4>2 DEF IInv, StackHoldsValues
      <4>. QED BY <1>1, <2>4, <4>1, <4>2
    <3>4. Sequential' = Sequential /\ doc' = doc
      BY <2>1 DEF Sequential, Update, Entries
    <3>. QED BY <3>2, <3>3, <3>4 DEF StackHoldsValues
  <2>. QED BY <2>1, <2>3, <2>4, <2>5, VisitKeeps
<1>5. CASE Advance
  <2> DEFINE last == Len(stack)
  <2>1. /\ it \in Entries /\ ~doc[it].scalar /\ Update(NextIndex)
    BY <1>5 DEF Advance, Visiting
  <2>2. last \in 1 .. Len(stack) /\ stack[last].node = doc[it].node
    BY <1>1, <1>5 DEF Advance, OnTop, Top
  <2>3. /\ NextIndex = Top.index + 1 /\ NextIndex < doc[it].size /\ Top.index \in Nat
        /\ stack' \in Seq(Frame) /\ Len(stack') = Len(stack)
        /\ stack'[last].node = stack[last].node /\ stack'[last].index = NextIndex
        /\ \A j \in 1 .. Len(stack) : j # last => stack'[j] = stack[j]
    BY <1>5, <2>2, AdvanceStack
  <2>4. NextIndex \in Values(it)
    <3>1. doc[it].size \in Nat
      BY <2>1, DocFacts DEF IInv
    <3>2. NextIndex \in 0 .. (doc[it].size - 1)
      BY <2>3, <3>1
    <3>3. Values(it) = 0 .. (doc[it].size - 1)
      BY <2>1 DEF Values, Radix
    <3>. QED BY <3>2, <3>3
  <2>5. StackHoldsValues'
    <3>1. ASSUME NEW i \in 1 .. Len(stack), NEW j \in 1 .. Len(stack),
                 stack'[i].node = stack'[j].node
          PROVE  i = j
      <4>1. stack[i].node = stack[j].node
        BY <2>3, <3>1
      <4>. QED BY <4>1 DEF IInv, StackHoldsValues
    <3>2. ASSUME NEW j \in 1 .. Len(stack)
          PROVE  \E k \in Sequential : /\ doc[k].node = stack'[j].node
                                        /\ stack'[j].index < doc[k].size
      <4>1. CASE j = last
        BY <2>1, <2>2, <2>3, <4>1 DEF Sequential
      <4>2. CASE j # last
        BY <2>3, <4>2 DEF IInv, StackHoldsValues
      <4>. QED BY <4>1, <4>2
    <3>3. Sequential' = Sequential /\ doc' = doc
      BY <2>1 DEF Sequential, Update, Entries
    <3>. QED BY <2>3, <3>1, <3>2, <3>3 DEF StackHoldsValues
  <2>. QED BY <2>1, <2>4, <2>3, <2>5, VisitKeeps
<1>6. CASE Pop
  <2> DEFINE last == Len(stack)
  <2>1. /\ stack # <<>> /\ stack' = SubSeq(stack, 1, last - 1)
        /\ emitIteration' = FALSE
        /\ UNCHANGED <<doc, it, state, emitted>>
    BY <1>6 DEF Pop, OnTop
  <2>2. last \in 1 .. Len(stack)
    BY <1>1, <2>1
  <2>3. /\ stack' \in Seq(Frame) /\ Len(stack') = last - 1
        /\ \A j \in 1 .. (last - 1) : stack'[j] = stack[j]
    BY <1>6, PopStack
  <2>4. StackHoldsValues'
    <3>1. \A j \in 1 .. (last - 1) : j \in 1 .. Len(stack)
      BY <1>1
    <3>2. Sequential' = Sequential /\ doc' = doc
      BY <2>1 DEF Sequential, Entries
    <3>. QED BY <2>3, <3>1, <3>2 DEF IInv, StackHoldsValues
  <2>. QED BY <2>1, <2>3, <2>4 DEF IInv, Entries, Values
<1>7. CASE Replay
  <2> DEFINE node == doc[it].node
             held == Min(HeldAt(node))
  <2>1. it \in Entries /\ ~doc[it].scalar /\ Update(stack[held].index) /\ stack' = stack
    BY <1>7 DEF Replay, Visiting
  <2>2. held \in 1 .. Len(stack) /\ stack[held].node = node
    BY <1>7, FirstHeld DEF Replay
  <2>3. PICK k \in Entries : /\ ~doc[k].scalar /\ doc[k].node = node
                             /\ stack[held].index < doc[k].size
    BY <2>2 DEF IInv, StackHoldsValues, Sequential
  <2>4. doc[k].size = doc[it].size
    BY <2>1, <2>3, DocFacts DEF IInv
  <2>5. stack[held] \in Frame
    BY <1>1, <2>2
  <2>6. stack[held].index \in Values(it)
    <3>1. stack[held].index \in Nat /\ stack[held].index < doc[it].size
      BY <2>3, <2>4, <2>5 DEF Frame
    <3>2. doc[it].size \in Nat
      BY <2>1, DocFacts DEF IInv
    <3> HIDE DEF held
    <3>. QED BY <2>1, <3>1, <3>2 DEF Values, Radix
  <2>7. StackHoldsValues'
    BY <2>1 DEF IInv, StackHoldsValues, Sequential, Update, Entries
  <2>. QED BY <1>1, <2>1, <2>6, <2>7, VisitKeeps
<1>8. CASE EndPass
  <2>1. /\ emitted' = IF emitIteration THEN Append(emitted, state) ELSE emitted
        /\ it' = 1 /\ emitIteration' = TRUE /\ UNCHANGED <<doc, stack, state>>
        /\ emitIteration => it = Len(doc) + 1
    BY <1>8 DEF EndPass, IInv
  <2>2. emitted' \in Seq([Entries -> Int \cup {Unset}])
    BY <2>1 DEF IInv
  <2>3. ASSUME NEW n \in 1 .. Len(emitted'), NEW k \in Entries
        PROVE  emitted'[n][k] \in Values(k)
    <3>1. CASE n \in 1 .. Len(emitted)
      <4>1. emitted'[n] = emitted[n]
        BY <2>1, <3>1 DEF IInv
      <4>. QED BY <3>1, <4>1 DEF IInv
    <3>2. CASE n \notin 1 .. Len(emitted)
      <4>1. emitIteration /\ emitted'[n] = state
        BY <2>1, <3>2 DEF IInv
      <4>2. k < it
        BY <1>1, <2>1, <4>1 DEF Entries
      <4>. QED BY <4>1, <4>2 DEF IInv
    <3>. QED BY <3>1, <3>2
  <2>4. \A k \in Entries : ~(k < it')
    BY <1>1, <2>1 DEF Entries
  <2>5. StackHoldsValues'
    BY <2>1 DEF IInv, StackHoldsValues, Sequential, Entries
  <2>. QED BY <1>1, <2>1, <2>2, <2>3, <2>4, <2>5 DEF IInv, Entries, Values
<1>. QED BY <1>3, <1>4, <1>5, <1>6, <1>7, <1>8 DEF Next

LEMMA Invariance == ASSUME NoEmptySequence PROVE Spec => []IInv
<1>1. Init => IInv
  <2> SUFFICES ASSUME NEW d \in Docs, Initially(d) PROVE IInv
    BY DEF Init
  <2>1. Len(doc) \in Nat
    BY DocFacts DEF Initially
  <2>. QED BY <2>1 DEF Initially, IInv, StackHoldsValues, Sequential, Entries, Values
<1>2. IInv /\ [Next]_vars => IInv'
  <2> SUFFICES ASSUME IInv, [Next]_vars PROVE IInv'
    OBVIOUS
  <2>1. CASE UNCHANGED vars
    BY <2>1 DEF vars, IInv, StackHoldsValues, Sequential, Entries, Values
  <2>. QED BY <2>1, StepKeeps
<1>. QED BY <1>1, <1>2, PTL DEF Spec

\* No sequence is ever iterated twice at a time, or beyond its last value.
THEOREM StackAlwaysHoldsValues ==
  ASSUME NoEmptySequence PROVE Spec => []StackHoldsValues
<1>1. IInv => StackHoldsValues
  BY DEF IInv
<1>. QED BY <1>1, Invariance, PTL

\* Every state that emit receives gives every parameter a value it has, also in
\* documents with aliases, however often sequences were pushed and popped.
THEOREM OnlyPermutations == ASSUME NoEmptySequence PROVE Spec => []EmitsOnlyPermutations
<1>1. IInv => EmitsOnlyPermutations
  BY DEF IInv, EmitsOnlyPermutations, Radixes, Values
<1>. QED BY <1>1, Invariance, PTL

-----------------------------------------------------------------------------
(***************************************************************************)
(* How an odometer counts.  Its readings are ordered by the first digit    *)
(* in which they differ; it shows them in this order and omits none.       *)
(***************************************************************************)
Reading(v) == v \in [Entries -> Int] /\ \A k \in Entries : v[k] \in Values(k)

Below(v, w) == \E j \in Entries : /\ v[j] < w[j]
                                  /\ \A i \in Entries : i < j => v[i] = w[i]

UpTo(w) == {v \in Ideal!Readings : v = w \/ Below(v, w)}

\* Digit e is the last one that can go up from w.
Turns(w, e) == /\ e \in Entries /\ w[e] + 1 \in Values(e)
               /\ \A k \in Entries : k > e => w[k] + 1 \notin Values(k)

LEMMA EntriesAreNatural == ASSUME doc \in Docs PROVE Entries \subseteq Nat /\ \A k \in Entries : Radix(doc[k]) \in Nat
<1>1. Len(doc) \in Nat /\ \A k \in Entries : doc[k].size \in Nat /\ doc[k].scalar \in BOOLEAN
  BY DocFacts
<1>. QED BY <1>1 DEF Entries, Radix

LEMMA ReadingsAre ==
  ASSUME doc \in Docs, NEW v
  PROVE  v \in Ideal!Readings <=> Reading(v)
<1>1. DOMAIN Radixes = Entries /\ \A k \in Entries : Radixes[k] = Radix(doc[k]) /\ Radix(doc[k]) \in Nat
  BY EntriesAreNatural DEF Radixes
<1>2. Ideal!Readings = {u \in [Entries -> UNION {0 .. (Radixes[k] - 1) : k \in Entries}] :
                           \A k \in Entries : u[k] < Radixes[k]}
  BY <1>1 DEF Ideal!Readings, Ideal!Digits
<1>3. ASSUME v \in Ideal!Readings PROVE Reading(v)
  <2>1. /\ v \in [Entries -> UNION {0 .. (Radixes[k] - 1) : k \in Entries}]
        /\ \A k \in Entries : v[k] < Radixes[k]
    BY <1>2, <1>3
  <2>2. \A k \in Entries : v[k] \in Nat
    BY <1>1, <2>1
  <2>. QED BY <1>1, <2>1, <2>2 DEF Reading, Values
<1>4. ASSUME Reading(v) PROVE v \in Ideal!Readings
  <2>1. \A k \in Entries : v[k] \in 0 .. (Radixes[k] - 1)
    BY <1>1, <1>4 DEF Reading, Values
  <2>2. v \in [Entries -> UNION {0 .. (Radixes[k] - 1) : k \in Entries}]
    BY <1>4, <2>1 DEF Reading
  <2>3. \A k \in Entries : v[k] < Radixes[k]
    BY <1>1, <2>1
  <2>. QED BY <1>2, <2>2, <2>3
<1>. QED BY <1>3, <1>4

\* The successor of a reading, with the digit that turns made explicit.
LEMMA SuccessorIs ==
  ASSUME doc \in Docs, NEW w, Reading(w), NEW e, Turns(w, e)
  PROVE  /\ Ideal!Advancing(w) # {}
         /\ Ideal!Successor(w) = [k \in Entries |-> IF k < e THEN w[k] ELSE IF k = e THEN w[k] + 1 ELSE 0]
<1>1. DOMAIN Radixes = Entries /\ \A k \in Entries : Radixes[k] = Radix(doc[k]) /\ Radix(doc[k]) \in Nat
  BY EntriesAreNatural DEF Radixes
<1>2. Ideal!Digits = Entries /\ Entries \subseteq Nat
  BY <1>1, EntriesAreNatural DEF Ideal!Digits
<1>3. \A k \in Entries : w[k] + 1 < Radixes[k] <=> w[k] + 1 \in Values(k)
  BY <1>1 DEF Reading, Values
<1>4. e \in Ideal!Advancing(w) /\ \A k \in Ideal!Advancing(w) : k \in Entries /\ k <= e
  BY <1>2, <1>3 DEF Ideal!Advancing, Turns
<1>5. Ideal!Max(Ideal!Advancing(w)) = e
  <2> DEFINE m == Ideal!Max(Ideal!Advancing(w))
  <2>1. m \in Ideal!Advancing(w) /\ \A k \in Ideal!Advancing(w) : m >= k
    BY <1>2, <1>4 DEF Ideal!Max
  <2> HIDE DEF m
  <2>2. m >= e /\ m <= e /\ m \in Nat /\ e \in Nat
    BY <1>2, <1>4, <2>1
  <2>. QED BY <2>2 DEF m
<1>. QED BY <1>2, <1>4, <1>5 DEF Ideal!Successor

LEMMA SuccessorIsReading ==
  ASSUME doc \in Docs, NEW w, Reading(w), NEW e, Turns(w, e)
  PROVE  Reading(Ideal!Successor(w))
<1> DEFINE s == [k \in Entries |-> IF k < e THEN w[k] ELSE IF k = e THEN w[k] + 1 ELSE 0]
<1>1. \A k \in Entries : 0 \in Values(k) /\ w[k] \in Values(k) /\ Values(k) \subseteq Int
  <2> SUFFICES ASSUME NEW k \in Entries PROVE 0 \in Values(k) /\ w[k] \in Values(k) /\ Values(k) \subseteq Int
    OBVIOUS
  <2>. QED BY EntriesAreNatural DEF Values, Reading
<1>2. \A k \in Entries : s[k] \in Values(k)
  BY <1>1 DEF Turns
<1>3. s \in [Entries -> Int]
  BY <1>1, <1>2
<1>. QED BY <1>2, <1>3, SuccessorIs DEF Reading

\* Of two readings one is below the other, or they are the same.
LEMMA Trichotomy ==
  ASSUME doc \in Docs, NEW v, Reading(v), NEW w, Reading(w)
  PROVE  v = w \/ Below(v, w) \/ Below(w, v)
<1> DEFINE D == {k \in Entries : v[k] # w[k]}
<1>1. CASE D = {}
  BY <1>1 DEF Reading
<1>2. CASE D # {}
  <2>1. PICK j \in D : \A k \in D : j <= k
    <3>1. D \subseteq Nat
      BY EntriesAreNatural
    <3> HIDE DEF D
    <3>. QED BY <1>2, <3>1, Smallest
  <2>2. \A i \in Entries : i < j => v[i] = w[i]
    BY <2>1, EntriesAreNatural
  <2>3. v[j] < w[j] \/ w[j] < v[j]
    BY <2>1 DEF Reading
  <2>. QED BY <2>2, <2>3 DEF Below
<1>. QED BY <1>1, <1>2

LEMMA BelowIsTransitive ==
  ASSUME doc \in Docs, NEW u, Reading(u), NEW v, Reading(v), NEW w, Reading(w),
         Below(u, v), Below(v, w)
  PROVE  Below(u, w)
<1>1. PICK j \in Entries : u[j] < v[j] /\ \A i \in Entries : i < j => u[i] = v[i]
  BY DEF Below
<1>2. PICK k \in Entries : v[k] < w[k] /\ \A i \in Entries : i < k => v[i] = w[i]
  BY DEF Below
<1>3. j \in Nat /\ k \in Nat /\ Entries \subseteq Nat
  BY EntriesAreNatural
<1>4. \A i \in Entries : u[i] \in Int /\ v[i] \in Int /\ w[i] \in Int
  BY DEF Reading
<1>5. CASE j <= k
  <2>1. u[j] < w[j]
    BY <1>1, <1>2, <1>3, <1>4, <1>5
  <2>2. \A i \in Entries : i < j => u[i] = w[i]
    BY <1>1, <1>2, <1>3, <1>5
  <2>. QED BY <2>1, <2>2 DEF Below
<1>6. CASE k < j
  <2>1. u[k] < w[k]
    BY <1>1, <1>2, <1>3, <1>4, <1>6
  <2>2. \A i \in Entries : i < k => u[i] = w[i]
    BY <1>1, <1>2, <1>3, <1>6
  <2>. QED BY <2>1, <2>2 DEF Below
<1>. QED BY <1>3, <1>5, <1>6

LEMMA NotBelowItself == ASSUME NEW w, Reading(w) PROVE ~Below(w, w)
  BY DEF Below, Reading

\* The successor is the next reading.
LEMMA SuccessorIsNext ==
  ASSUME doc \in Docs, NEW w, Reading(w), NEW e, Turns(w, e)
  PROVE  /\ UpTo(Ideal!Successor(w)) = UpTo(w) \cup {Ideal!Successor(w)}
         /\ Ideal!Successor(w) \notin UpTo(w)
<1> DEFINE s == Ideal!Successor(w)
<1>1. Reading(s)
  BY SuccessorIsReading
<1>2. s = [k \in Entries |-> IF k < e THEN w[k] ELSE IF k = e THEN w[k] + 1 ELSE 0]
  BY SuccessorIs
<1> HIDE DEF s
<1>3. e \in Entries /\ Entries \subseteq Nat /\ e \in Nat
  BY EntriesAreNatural DEF Turns
<1>4. Below(w, s)
  <2>1. w[e] < s[e]
    BY <1>2, <1>3 DEF Reading
  <2>2. \A i \in Entries : i < e => w[i] = s[i]
    BY <1>2
  <2>. QED BY <1>3, <2>1, <2>2 DEF Below
<1>5. ASSUME NEW v, Reading(v), Below(v, s)
      PROVE  v = w \/ Below(v, w)
  <2>1. PICK j \in Entries : v[j] < s[j] /\ \A i \in Entries : i < j => v[i] = s[i]
    BY <1>5 DEF Below
  <2>2. v[j] \in Int /\ v[j] >= 0 /\ w[j] \in Int
    BY <1>5 DEF Reading, Values
  <2>3. j <= e
    BY <1>2, <1>3, <2>1, <2>2
  <2>4. \A i \in Entries : i < j => v[i] = w[i]
    BY <1>2, <1>3, <2>1, <2>3
  <2>5. CASE v[j] < w[j]
    BY <2>4, <2>5 DEF Below
  <2>6. CASE ~(v[j] < w[j])
    <3>1. j = e /\ v[e] = w[e]
      BY <1>2, <1>3, <2>1, <2>2, <2>3, <2>6
    <3>2. ~Below(w, v)
      <4> SUFFICES ASSUME NEW k \in Entries, w[k] < v[k], \A i \in Entries : i < k => w[i] = v[i]
                   PROVE  FALSE
        BY DEF Below
      <4>1. k > e
        BY <1>3, <2>4, <3>1, <1>5 DEF Reading
      <4>2. w[k] + 1 \notin Values(k)
        BY <4>1 DEF Turns
      <4>3. w[k] \in Values(k) /\ v[k] \in Values(k)
        BY <1>5 DEF Reading
      <4>. QED BY <4>2, <4>3, EntriesAreNatural DEF Values
    <3>. QED BY <1>5, <3>2, Trichotomy
  <2>. QED BY <2>5, <2>6
<1>6. s \notin UpTo(w)
  <2>1. s # w
    BY <1>4, NotBelowItself
  <2>2. ~Below(s, w)
    BY <1>1, <1>4, NotBelowItself, BelowIsTransitive
  <2>. QED BY <2>1, <2>2 DEF UpTo
<1>7. UpTo(s) = UpTo(w) \cup {s}
  <2>1. ASSUME NEW v \in UpTo(s) PROVE v \in UpTo(w) \cup {s}
    BY <1>5, <2>1, ReadingsAre DEF UpTo
  <2>2. ASSUME NEW v \in UpTo(w) PROVE v \in UpTo(s)
    <3>1. v \in Ideal!Readings /\ Reading(v)
      BY <2>2, ReadingsAre DEF UpTo
    <3>2. Below(v, s)
      BY <1>1, <1>4, <2>2, <3>1, BelowIsTransitive DEF UpTo
    <3>. QED BY <3>1, <3>2 DEF UpTo
  <2>3. s \in UpTo(s)
    BY <1>1, ReadingsAre DEF UpTo
  <2>. QED BY <2>1, <2>2, <2>3
<1>. QED BY <1>6, <1>7 DEF s

\* It starts at the lowest reading ...
LEMMA ZerosAreFirst ==
  ASSUME NoEmptySequence, doc \in Docs
  PROVE  Reading(Ideal!Zeros) /\ UpTo(Ideal!Zeros) = {Ideal!Zeros}
<1>1. Ideal!Zeros = [k \in Entries |-> 0]
  BY DEF Ideal!Zeros, Ideal!Digits, Radixes
<1>2. \A k \in Entries : 0 \in Values(k)
  <2> SUFFICES ASSUME NEW k \in Entries PROVE 0 \in Values(k)
    OBVIOUS
  <2>1. ~doc[k].scalar => doc[k].size > 0 /\ doc[k].size \in Nat
    BY DocFacts DEF NoEmptySequence, Entries
  <2>. QED BY <2>1 DEF Values, Radix
<1>3. Reading(Ideal!Zeros)
  BY <1>1, <1>2 DEF Reading
<1>4. ASSUME NEW v \in UpTo(Ideal!Zeros) PROVE v = Ideal!Zeros
  <2>1. Reading(v)
    BY ReadingsAre DEF UpTo
  <2>2. ~Below(v, Ideal!Zeros)
    BY <1>1, <2>1 DEF Below, Reading, Values
  <2>. QED BY <2>2 DEF UpTo
<1>5. Ideal!Zeros \in UpTo(Ideal!Zeros)
  BY <1>3, ReadingsAre DEF UpTo
<1>. QED BY <1>3, <1>4, <1>5

\* ... and ends at the highest.
LEMMA HighestIsLast ==
  ASSUME doc \in Docs, NEW w, Reading(w), \A k \in Entries : w[k] + 1 \notin Values(k)
  PROVE  UpTo(w) = Ideal!Readings
<1>1. ASSUME NEW v, Reading(v) PROVE ~Below(w, v)
  <2> SUFFICES ASSUME NEW k \in Entries, w[k] < v[k] PROVE FALSE
    BY DEF Below
  <2>1. w[k] \in Values(k) /\ v[k] \in Values(k) /\ w[k] + 1 \notin Values(k)
    BY <1>1 DEF Reading
  <2>. QED BY <2>1, EntriesAreNatural DEF Values
<1>2. ASSUME NEW v \in Ideal!Readings PROVE v \in UpTo(w)
  BY <1>1, ReadingsAre, Trichotomy DEF UpTo
<1>. QED BY <1>2 DEF UpTo

\* A sequence without repetitions is as long as it has elements.
LEMMA LengthIsCardinality ==
  ASSUME NEW s, NEW S, s \in Seq(S), \A m, n \in 1 .. Len(s) : s[m] = s[n] => m = n
  PROVE  Cardinality({s[n] : n \in 1 .. Len(s)}) = Len(s)
<1> DEFINE T == {s[n] : n \in 1 .. Len(s)}
<1>1. Len(s) \in Nat /\ s \in [1 .. Len(s) -> T] /\ DOMAIN s = 1 .. Len(s)
  BY LenProperties, ElementOfSeq
<1>2. s \in Bijection(1 .. Len(s), T)
  BY <1>1 DEF Bijection, Injection, Surjection, IsInjective
<1> HIDE DEF T
<1>3. ExistsBijection(1 .. Len(s), T)
  BY <1>2 DEF ExistsBijection
<1>4. Cardinality(T) = Len(s)
  BY <1>1, <1>3, FS_CountingElements
<1>. QED BY <1>4 DEF T

LEMMA SameCount == ASSUME NEW S PROVE Ideal!Cardinality(S) = Cardinality(S)
  BY DEF Ideal!Cardinality, Cardinality

-----------------------------------------------------------------------------
(***************************************************************************)
(* Without aliases, the stack is such an odometer.  Between two calls of   *)
(* emit it first rests on the reading shown last, while the pass goes over *)
(* the sequences that are held; then the topmost sequence advances, and    *)
(* until the end of the pass the stack rises to the successor.             *)
(***************************************************************************)

\* Entry k is the one at position j of the stack.
At(j, k) == k \in Sequential /\ stack[j].node = doc[k].node

Held == {k \in Sequential : HeldAt(doc[k].node) # {}}

Latest == emitted[Len(emitted)]

\* The stack is in the order of the document.
Ordered == \A i, j \in 1 .. Len(stack) : \A a, b \in Entries :
             i < j /\ At(i, a) /\ At(j, b) => a < b

\* The stack has the values of v.
Carries(v) == \A j \in 1 .. Len(stack), k \in Entries : At(j, k) => stack[j].index = v[k]

\* The entries behind the iterator have passed on the values of v.
Passed(v) == \A k \in Entries : k < it => state[k] = v[k]

\* The sequences behind the iterator have their values of v, the other ones
\* start with their first.
RisesTo(v) ==
  /\ Held = {k \in Sequential : k < it}
  /\ Carries(v)
  /\ Passed(v)
  /\ \A k \in Entries : k >= it \/ doc[k].scalar => v[k] = 0

\* v is the reading after the one shown last, or the first one.
Aim(v) ==
  IF emitted = <<>>
  THEN \A k \in Entries : v[k] = 0
  ELSE \E e \in Entries : /\ Turns(Latest, e)
                         /\ \A k \in Entries : v[k] = IF k < e THEN Latest[k]
                                                   ELSE IF k = e THEN Latest[k] + 1 ELSE 0

Rising == /\ ~done /\ emitIteration
          /\ \E v \in [Entries -> Int] : Aim(v) /\ RisesTo(v)

\* The sequences that are not held are at their last value; those that are
\* come first.
Resting ==
  /\ emitted # <<>>
  /\ Carries(Latest)
  /\ \A k \in Sequential : k \notin Held => Latest[k] + 1 \notin Values(k)
  /\ \A j, k \in Sequential : k \in Held /\ j < k => j \in Held
  /\ done => Held = {}
  /\ ~done /\ emitIteration => Passed(Latest) /\ \E k \in Held : it <= k

\* What has been shown.
ShownInOrder ==
  /\ emitted # <<>> => {emitted[n] : n \in 1 .. Len(emitted)} = UpTo(Latest)
  /\ \A m, n \in 1 .. Len(emitted) : emitted[m] = emitted[n] => m = n

Counting == Distinct => Ordered /\ ShownInOrder /\ (Rising \/ Resting)

LEMMA LatestIsReading ==
  ASSUME IInv, emitted # <<>>
  PROVE  Reading(Latest)
<1>1. Len(emitted) \in 1 .. Len(emitted) /\ emitted \in Seq([Entries -> Int \cup {Unset}])
  BY DEF IInv
<1>2. Latest \in [Entries -> Int \cup {Unset}] /\ \A k \in Entries : Latest[k] \in Values(k)
  BY <1>1 DEF IInv, Latest
<1>. QED BY <1>2 DEF Reading, Values

\* Every frame of the stack belongs to an entry, without aliases to one.
LEMMA FramesHaveEntries ==
  ASSUME IInv, NEW j \in 1 .. Len(stack)
  PROVE  \E k \in Held : At(j, k)
<1>1. PICK k \in Sequential : doc[k].node = stack[j].node
  BY DEF IInv, StackHoldsValues
<1>2. j \in HeldAt(doc[k].node)
  BY <1>1 DEF HeldAt, IInv
<1>. QED BY <1>1, <1>2 DEF Held, At

LEMMA HeldHaveFrames ==
  ASSUME IInv, NEW k \in Held
  PROVE  \E j \in 1 .. Len(stack) : At(j, k)
<1>1. k \in Sequential /\ \E j \in DOMAIN stack : stack[j].node = doc[k].node
  BY DEF Held, HeldAt
<1>. QED BY <1>1 DEF At, IInv

-----------------------------------------------------------------------------
LEMMA Fixed ==
  ASSUME UNCHANGED doc
  PROVE  /\ Entries' = Entries /\ Sequential' = Sequential
         /\ \A k : Values(k)' = Values(k)
         /\ Ideal!Readings' = Ideal!Readings
<1>1. Entries' = Entries
  BY DEF Entries
<1>2. Sequential' = Sequential
  BY <1>1 DEF Sequential
<1>3. \A k : Values(k)' = Values(k)
  BY DEF Values
<1>4. Radixes' = Radixes
  BY <1>1 DEF Radixes
<1>5. Ideal!Readings' = Ideal!Readings
  BY <1>4 DEF Ideal!Readings, Ideal!Digits
<1>. QED BY <1>1, <1>2, <1>3, <1>5

LEMMA AimFixed ==
  ASSUME UNCHANGED <<doc, emitted>>, NEW v, Aim(v)
  PROVE  Aim(v)'
  BY Fixed DEF Aim, Turns, Latest

LEMMA StackFixed ==
  ASSUME UNCHANGED <<doc, stack>>
  PROVE  /\ Held' = Held
         /\ Ordered => Ordered'
         /\ \A v : Carries(v) => Carries(v)'
<1>1. Entries' = Entries /\ Sequential' = Sequential
  BY Fixed
<1>2. Held' = Held
  BY <1>1 DEF Held, HeldAt
<1>3. Ordered => Ordered'
  BY <1>1 DEF Ordered, At
<1>4. \A v : Carries(v) => Carries(v)'
  BY <1>1 DEF Carries, At
<1>. QED BY <1>2, <1>3, <1>4

LEMMA ShownFixed ==
  ASSUME UNCHANGED <<doc, emitted>>, ShownInOrder
  PROVE  ShownInOrder'
<1>1. Entries' = Entries /\ Ideal!Readings' = Ideal!Readings
  BY Fixed
<1>2. UpTo(Latest)' = UpTo(Latest)
  BY <1>1 DEF UpTo, Below, Latest
<1>. QED BY <1>2 DEF ShownInOrder

-----------------------------------------------------------------------------
\* What every visit of an entry has in common.
LEMMA VisitFacts ==
  ASSUME IInv, it \in Entries, NEW index, Update(index)
  PROVE  /\ UNCHANGED <<doc, emitIteration, emitted, done>>
         /\ it' = it + 1 /\ it \in Nat /\ Entries \subseteq Nat
         /\ state'[it] = index
         /\ \A k \in Entries : k # it => state'[k] = state[k]
<1>1. doc \in Docs /\ it \in Nat /\ Entries \subseteq Nat
  BY EntriesAreNatural DEF IInv
<1>2. state \in [Entries -> Int \cup {Unset}]
  BY DEF IInv
<1>. QED BY <1>1, <1>2 DEF Update

\* A visit that passes on the value of v.
LEMMA PassedOn ==
  ASSUME IInv, it \in Entries, NEW v, Passed(v), Update(v[it])
  PROVE  Passed(v)'
<1>1. /\ UNCHANGED doc /\ it' = it + 1 /\ it \in Nat /\ Entries \subseteq Nat
      /\ state'[it] = v[it] /\ \A k \in Entries : k # it => state'[k] = state[k]
  BY VisitFacts
<1>2. Entries' = Entries
  BY <1>1, Fixed
<1>3. ASSUME NEW k \in Entries, k < it + 1 PROVE state'[k] = v[k]
  <2>1. k = it \/ (k < it /\ k # it)
    BY <1>1, <1>3
  <2>. QED BY <1>1, <2>1 DEF Passed
<1>. QED BY <1>1, <1>2, <1>3 DEF Passed

\* While the stack rises, no entry at or after the iterator is held; while it
\* rests on a reading, all sequences up to the iterator are.
LEMMA HeldNow ==
  ASSUME IInv, Visiting, it \in Sequential
  PROVE  /\ Rising => it \notin Held
         /\ Resting => it \in Held
<1>1. Entries \subseteq Nat /\ it \in Nat
  BY EntriesAreNatural DEF IInv
<1>2. Rising => it \notin Held
  BY <1>1 DEF Rising, RisesTo
<1>3. ASSUME Resting PROVE it \in Held
  <2>1. PICK k \in Held : it <= k
    BY <1>3 DEF Resting, Visiting
  <2>2. k \in Sequential /\ k \in Nat
    BY <1>1 DEF Held, Sequential
  <2>. QED BY <1>1, <1>3, <2>1, <2>2 DEF Resting
<1>. QED BY <1>2, <1>3

\* The topmost sequence is the last one that is held.
LEMMA TopIsLast ==
  ASSUME Distinct, IInv, Ordered, NEW a \in Sequential, OnTop(doc[a].node)
  PROVE  /\ Len(stack) \in 1 .. Len(stack) /\ At(Len(stack), a) /\ a \in Held
         /\ \A k \in Held : k <= a
         /\ \A j \in 1 .. Len(stack), k \in Sequential : At(j, k) => (j = Len(stack) <=> k = a)
<1>1. stack \in Seq(Frame) /\ Len(stack) \in Nat /\ stack # <<>> /\ stack[Len(stack)].node = doc[a].node
  BY DEF IInv, OnTop, Top
<1>2. Len(stack) \in 1 .. Len(stack) /\ At(Len(stack), a)
  BY <1>1 DEF At
<1>3. a \in Held
  BY <1>1, <1>2 DEF Held, HeldAt
<1>4. Sequential \subseteq Entries /\ Entries \subseteq Nat
  BY EntriesAreNatural DEF Sequential, IInv
<1>5. ASSUME NEW j \in 1 .. Len(stack), NEW k \in Sequential, At(j, k)
      PROVE  j = Len(stack) <=> k = a
  <2>1. j = Len(stack) => k = a
    BY <1>1, <1>5 DEF At, Distinct
  <2>2. k = a => j = Len(stack)
    <3>1. k = a => stack[j].node = stack[Len(stack)].node
      BY <1>1, <1>5 DEF At
    <3>. QED BY <1>2, <3>1 DEF IInv, StackHoldsValues
  <2>. QED BY <2>1, <2>2
<1>6. ASSUME NEW k \in Held PROVE k <= a
  <2>1. PICK j \in 1 .. Len(stack) : At(j, k)
    BY HeldHaveFrames
  <2>2. k \in Sequential
    BY DEF Held
  <2>3. CASE j = Len(stack)
    BY <1>4, <1>5, <2>1, <2>2, <2>3
  <2>4. CASE j # Len(stack)
    BY <1>1, <1>2, <1>4, <2>1, <2>2, <2>4 DEF Ordered
  <2>. QED BY <2>3, <2>4
<1>. QED BY <1>2, <1>3, <1>5, <1>6

-----------------------------------------------------------------------------
LEMMA ScalarCounts ==
  ASSUME IInv, Ordered, ShownInOrder, Rising \/ Resting, VisitScalar
  PROVE  Ordered' /\ ShownInOrder' /\ (Rising' \/ Resting')
<1>1. Visiting /\ it \in Entries /\ doc[it].scalar /\ Update(0) /\ UNCHANGED stack
  BY DEF VisitScalar, Visiting
<1>2. /\ UNCHANGED <<doc, emitIteration, emitted, done>>
      /\ it' = it + 1 /\ it \in Nat /\ Entries \subseteq Nat
  BY <1>1, VisitFacts
<1>3. /\ Entries' = Entries /\ Sequential' = Sequential /\ \A k : Values(k)' = Values(k)
      /\ Held' = Held /\ Ordered' /\ ShownInOrder'
  BY <1>1, <1>2, Fixed, StackFixed, ShownFixed
<1>4. it \notin Sequential
  BY <1>1 DEF Sequential
<1>5. CASE Rising
  <2>1. PICK v \in [Entries -> Int] : Aim(v) /\ RisesTo(v)
    BY <1>5 DEF Rising
  <2>2. Aim(v)' /\ Carries(v)'
    BY <1>1, <1>2, <2>1, AimFixed, StackFixed DEF RisesTo
  <2>3. v[it] = 0
    BY <1>1, <2>1 DEF RisesTo
  <2>4. Passed(v)'
    BY <1>1, <2>1, <2>3, PassedOn DEF RisesTo
  <2>5. Held' = {k \in Sequential' : k < it'}
    <3>1. Held = {k \in Sequential : k < it}
      BY <2>1 DEF RisesTo
    <3>2. \A k \in Sequential : k < it <=> k < it + 1
      BY <1>2, <1>4 DEF Sequential
    <3>. QED BY <1>2, <1>3, <3>1, <3>2
  <2>6. \A k \in Entries : k >= it' \/ doc[k].scalar => v[k] = 0
    BY <1>2, <2>1 DEF RisesTo
  <2>7. RisesTo(v)'
    BY <1>2, <1>3, <2>2, <2>4, <2>5, <2>6 DEF RisesTo
  <2>. QED BY <1>1, <1>2, <1>3, <2>2, <2>7 DEF Rising, Visiting
<1>6. CASE Resting
  <2>1. emitted # <<>> /\ Carries(Latest) /\ Passed(Latest) /\ ~done /\ emitIteration
    BY <1>1, <1>6 DEF Resting, Visiting
  <2>2. Latest' = Latest
    BY <1>2 DEF Latest
  <2>3. Latest[it] = 0
    <3>1. Latest[it] \in Values(it)
      BY <1>1, <2>1, LatestIsReading DEF Reading
    <3>. QED BY <1>1, <3>1 DEF Values, Radix
  <2>4. PICK w : w = Latest
    OBVIOUS
  <2>5. Carries(w)' /\ Passed(w)'
    BY <1>1, <1>2, <2>1, <2>3, <2>4, StackFixed, PassedOn
  <2>6. Carries(Latest)' /\ Passed(Latest)'
    BY <2>2, <2>4, <2>5 DEF Carries, Passed
  <2>7. \E k \in Held : it + 1 <= k
    <3>1. PICK k \in Held : it <= k
      BY <1>1, <1>6 DEF Resting, Visiting
    <3>2. k \in Nat /\ k # it
      BY <1>2, <1>4 DEF Held, Sequential
    <3>. QED BY <1>2, <3>1, <3>2
  <2>8. Resting'
    BY <1>2, <1>3, <1>6, <2>1, <2>2, <2>6, <2>7 DEF Resting
  <2>. QED BY <1>3, <2>8
<1>. QED BY <1>5, <1>6

LEMMA PushCounts ==
  ASSUME NoEmptySequence, Distinct, IInv, Ordered, ShownInOrder, Rising \/ Resting, Push
  PROVE  Ordered' /\ ShownInOrder' /\ (Rising' \/ Resting')
<1>1. /\ Visiting /\ it \in Entries /\ ~doc[it].scalar /\ Update(0)
      /\ HeldAt(doc[it].node) = {} /\ it \in Sequential
  BY DEF Push, Visiting, Sequential
<1>2. /\ UNCHANGED <<doc, emitIteration, emitted, done>>
      /\ it' = it + 1 /\ it \in Nat /\ Entries \subseteq Nat
  BY <1>1, VisitFacts
<1>3. /\ Entries' = Entries /\ Sequential' = Sequential /\ ShownInOrder'
      /\ Sequential \subseteq Entries
  BY <1>2, Fixed, ShownFixed DEF Sequential
<1>4. it \notin Held
  BY <1>1 DEF Held
<1>5. Rising
  BY <1>1, <1>4, HeldNow
<1>6. PICK v \in [Entries -> Int] : Aim(v) /\ RisesTo(v)
  BY <1>5 DEF Rising
<1>7. /\ Len(stack) \in Nat /\ Len(stack') = Len(stack) + 1
      /\ stack'[Len(stack) + 1].node = doc[it].node
      /\ stack'[Len(stack) + 1].index = 0
      /\ \A j \in 1 .. Len(stack) : stack'[j] = stack[j]
  BY PushStack
<1>8. /\ \A j \in 1 .. Len(stack), k \in Entries : At(j, k)' <=> At(j, k)
      /\ \A k \in Entries : At(Len(stack), k)' <=> k = it
  <2>1. \A j \in 1 .. Len(stack), k \in Entries : At(j, k)' <=> At(j, k)
    BY <1>2, <1>3, <1>7 DEF At
  <2>2. \A k \in Entries : At(Len(stack), k)' <=> k \in Sequential /\ doc[it].node = doc[k].node
    BY <1>2, <1>3, <1>7 DEF At
  <2>. QED BY <1>1, <2>1, <2>2 DEF Distinct
<1>9. \A j \in 1 .. Len(stack), k \in Entries : At(j, k) => k < it
  <2> SUFFICES ASSUME NEW j \in 1 .. Len(stack), NEW k \in Entries, At(j, k) PROVE k < it
    OBVIOUS
  <2>1. j \in HeldAt(doc[k].node)
    BY DEF At, HeldAt, IInv
  <2>2. k \in Held
    BY <2>1 DEF At, Held
  <2>. QED BY <1>6, <2>2 DEF RisesTo
<1>10. Ordered'
  <2> SUFFICES ASSUME NEW i \in 1 .. Len(stack'), NEW j \in 1 .. Len(stack'),
                      NEW a \in Entries, NEW b \in Entries, i < j, At(i, a)', At(j, b)'
               PROVE  a < b
    BY <1>3 DEF Ordered
  <2>1. i \in 1 .. Len(stack) /\ At(i, a)
    BY <1>7, <1>8
  <2>2. CASE j \in 1 .. Len(stack)
    BY <1>8, <2>1, <2>2 DEF Ordered
  <2>3. CASE j = Len(stack) + 1
    BY <1>7, <1>8, <1>9, <2>1, <2>3
  <2>. QED BY <1>7, <2>2, <2>3
<1>11. v[it] = 0
  BY <1>1, <1>2, <1>6 DEF RisesTo
<1>12. Carries(v)'
  <2> SUFFICES ASSUME NEW j \in 1 .. Len(stack'), NEW k \in Entries, At(j, k)'
               PROVE  stack'[j].index = v[k]
    BY <1>3 DEF Carries
  <2>1. CASE j \in 1 .. Len(stack)
    BY <1>6, <1>7, <1>8, <2>1 DEF Carries, RisesTo
  <2>2. CASE j = Len(stack) + 1
    BY <1>7, <1>8, <1>11, <2>2
  <2>. QED BY <1>7, <2>1, <2>2
<1>13. Passed(v)'
  BY <1>1, <1>6, <1>11, PassedOn DEF RisesTo
<1>14. Held' = {k \in Sequential' : k < it'}
  <2>1. ASSUME NEW k \in Sequential PROVE HeldAt(doc[k].node)' # {} <=> HeldAt(doc[k].node) # {} \/ k = it
    <3>1. DOMAIN stack = 1 .. Len(stack) /\ DOMAIN stack' = 1 .. Len(stack')
      BY <1>1 DEF IInv, Push
    <3>2. HeldAt(doc[k].node)' # {} <=> \E j \in 1 .. Len(stack') : At(j, k)'
      BY <1>2, <1>3, <3>1 DEF HeldAt, At
    <3>3. HeldAt(doc[k].node) # {} <=> \E j \in 1 .. Len(stack) : At(j, k)
      BY <3>1 DEF HeldAt, At
    <3>. QED BY <1>3, <1>7, <1>8, <3>2, <3>3
  <2>2. Held' = {k \in Sequential : HeldAt(doc[k].node)' # {}}
    BY <1>2, <1>3 DEF Held
  <2>3. Held = {k \in Sequential : k < it}
    BY <1>6 DEF RisesTo
  <2>4. \A k \in Sequential : k < it + 1 <=> k < it \/ k = it
    BY <1>2, <1>3
  <2>5. \A k \in Sequential : HeldAt(doc[k].node) # {} <=> k < it
    BY <2>3 DEF Held
  <2>. QED BY <1>2, <1>3, <2>1, <2>2, <2>4, <2>5
<1>15. Aim(v)'
  BY <1>2, <1>6, AimFixed
<1>16. \A k \in Entries : k >= it' \/ doc[k].scalar => v[k] = 0
  BY <1>2, <1>6 DEF RisesTo
<1>17. RisesTo(v)'
  BY <1>2, <1>3, <1>12, <1>13, <1>14, <1>16 DEF RisesTo
<1>. QED BY <1>1, <1>2, <1>3, <1>6, <1>10, <1>15, <1>17 DEF Rising, Visiting

\* A scalar has but one value.
LEMMA ScalarsStay ==
  ASSUME NEW w, Reading(w), NEW k \in Entries, doc[k].scalar
  PROVE  w[k] = 0 /\ w[k] + 1 \notin Values(k)
<1>1. w[k] \in Values(k)
  BY DEF Reading
<1>. QED BY <1>1 DEF Values, Radix

LEMMA AdvanceCounts ==
  ASSUME NoEmptySequence, Distinct, IInv, Ordered, ShownInOrder, Rising \/ Resting, Advance
  PROVE  Ordered' /\ ShownInOrder' /\ (Rising' \/ Resting')
<1>1. /\ Visiting /\ it \in Entries /\ ~doc[it].scalar /\ Update(NextIndex)
      /\ OnTop(doc[it].node) /\ it \in Sequential
  BY DEF Advance, Visiting, Sequential
<1>2. /\ UNCHANGED <<doc, emitIteration, emitted, done>>
      /\ it' = it + 1 /\ it \in Nat /\ Entries \subseteq Nat /\ doc \in Docs
  BY <1>1, VisitFacts DEF IInv
<1>3. /\ Entries' = Entries /\ Sequential' = Sequential /\ ShownInOrder'
      /\ Sequential \subseteq Entries
  BY <1>2, Fixed, ShownFixed DEF Sequential
<1>4. /\ Len(stack) \in 1 .. Len(stack) /\ At(Len(stack), it) /\ it \in Held
      /\ \A k \in Held : k <= it
      /\ \A j \in 1 .. Len(stack), k \in Sequential : At(j, k) => (j = Len(stack) <=> k = it)
  BY <1>1, TopIsLast
<1>5. Resting
  BY <1>1, <1>4, HeldNow
<1>6. /\ emitted # <<>> /\ Carries(Latest) /\ Passed(Latest)
      /\ \A k \in Sequential : k \notin Held => Latest[k] + 1 \notin Values(k)
      /\ \A j, k \in Sequential : k \in Held /\ j < k => j \in Held
  BY <1>1, <1>5 DEF Resting, Visiting
<1>7. PICK w : w = Latest
  OBVIOUS
<1>8. Reading(w)
  BY <1>6, <1>7, LatestIsReading
<1>9. /\ Len(stack') = Len(stack)
      /\ NextIndex = Top.index + 1 /\ NextIndex < doc[it].size /\ Top.index \in Nat
      /\ stack'[Len(stack)].node = doc[it].node
      /\ stack'[Len(stack)].index = NextIndex
      /\ \A j \in 1 .. Len(stack) : j # Len(stack) => stack'[j] = stack[j]
  BY AdvanceStack
<1>10. NextIndex = w[it] + 1
  BY <1>1, <1>4, <1>6, <1>7, <1>9 DEF Carries, Top
<1>11. Turns(w, it)
  <2>1. w[it] + 1 \in Values(it)
    <3>1. doc[it].size \in Nat
      BY <1>1, <1>2, DocFacts
    <3>. QED BY <1>1, <1>9, <1>10, <3>1 DEF Values, Radix
  <2>2. ASSUME NEW k \in Entries, k > it PROVE w[k] + 1 \notin Values(k)
    <3>1. CASE doc[k].scalar
      BY <1>8, <3>1, ScalarsStay
    <3>2. CASE ~doc[k].scalar
      <4>1. k \in Sequential /\ k \notin Held
        BY <1>2, <1>4, <2>2, <3>2 DEF Sequential
      <4>. QED BY <1>6, <1>7, <4>1
    <3>. QED BY <3>1, <3>2
  <2>. QED BY <1>1, <2>1, <2>2 DEF Turns
<1>12. PICK v \in [Entries -> Int] :
         v = [k \in Entries |-> IF k < it THEN w[k] ELSE IF k = it THEN w[k] + 1 ELSE 0]
  <2> DEFINE s == [k \in Entries |-> IF k < it THEN w[k] ELSE IF k = it THEN w[k] + 1 ELSE 0]
  <2>1. s \in [Entries -> Int]
    BY <1>8 DEF Reading
  <2>. QED BY <2>1
<1>13. /\ v[it] = NextIndex
       /\ \A k \in Entries : k < it => v[k] = w[k]
       /\ \A k \in Entries : k > it => v[k] = 0
  BY <1>1, <1>2, <1>10, <1>12
<1>14. Aim(v)
  BY <1>1, <1>6, <1>7, <1>11, <1>12 DEF Aim
<1>15. /\ \A j \in 1 .. Len(stack), k \in Entries : At(j, k)' <=> At(j, k)
  <2>1. stack[Len(stack)].node = doc[it].node
    BY <1>4 DEF At
  <2>2. \A j \in 1 .. Len(stack) : stack'[j].node = stack[j].node
    BY <1>9, <2>1
  <2>. QED BY <1>2, <1>3, <2>2 DEF At
<1>16. Ordered'
  BY <1>3, <1>9, <1>15 DEF Ordered
<1>17. Held' = Held
  <2>1. DOMAIN stack = 1 .. Len(stack) /\ DOMAIN stack' = 1 .. Len(stack)
    BY <1>9, AdvanceStack DEF IInv
  <2>2. ASSUME NEW k \in Sequential PROVE HeldAt(doc[k].node)' # {} <=> HeldAt(doc[k].node) # {}
    <3>1. HeldAt(doc[k].node)' # {} <=> \E j \in 1 .. Len(stack) : At(j, k)'
      BY <1>2, <1>3, <2>1 DEF HeldAt, At
    <3>2. HeldAt(doc[k].node) # {} <=> \E j \in 1 .. Len(stack) : At(j, k)
      BY <2>1 DEF HeldAt, At
    <3>. QED BY <1>3, <1>15, <3>1, <3>2
  <2>. QED BY <1>2, <1>3, <2>2 DEF Held
<1>18. Held = {k \in Sequential : k < it + 1}
  <2>1. ASSUME NEW k \in Sequential, k < it + 1 PROVE k \in Held
    BY <1>1, <1>2, <1>3, <1>4, <1>6, <2>1
  <2>2. ASSUME NEW k \in Held PROVE k \in Sequential /\ k < it + 1
    <3>1. k \in Sequential
      BY DEF Held
    <3>2. k \in Nat /\ k <= it
      BY <1>2, <1>3, <1>4, <3>1
    <3>. QED BY <1>2, <3>1, <3>2
  <2>. QED BY <2>1, <2>2
<1>19. Carries(v)'
  <2> SUFFICES ASSUME NEW j \in 1 .. Len(stack), NEW k \in Entries, At(j, k)
               PROVE  stack'[j].index = v[k]
    BY <1>3, <1>9, <1>15 DEF Carries
  <2>1. k \in Sequential
    BY DEF At
  <2>2. CASE j = Len(stack)
    BY <1>4, <1>9, <1>13, <2>1, <2>2
  <2>3. CASE j # Len(stack)
    <3>1. stack'[j].index = w[k] /\ k # it
      BY <1>4, <1>6, <1>7, <1>9, <2>1, <2>3 DEF Carries
    <3>2. k < it
      BY <1>2, <1>4, <1>1, <2>3, <2>1 DEF Ordered
    <3>. QED BY <1>13, <3>1, <3>2
  <2>. QED BY <2>2, <2>3
<1>20. Passed(v)'
  <2>1. Passed(v)
    BY <1>6, <1>7, <1>13 DEF Passed
  <2>. QED BY <1>1, <1>13, <2>1, PassedOn
<1>21. \A k \in Entries : k >= it + 1 \/ doc[k].scalar => v[k] = 0
  <2>1. \A k \in Entries : doc[k].scalar => w[k] = 0 /\ k # it
    BY <1>1, <1>8, ScalarsStay
  <2>. QED BY <1>1, <1>2, <1>13, <2>1
<1>22. Aim(v)'
  BY <1>2, <1>14, AimFixed
<1>23. RisesTo(v)'
  BY <1>2, <1>3, <1>17, <1>18, <1>19, <1>20, <1>21 DEF RisesTo
<1>. QED BY <1>1, <1>2, <1>3, <1>12, <1>16, <1>22, <1>23 DEF Rising, Visiting

LEMMA PopCounts ==
  ASSUME NoEmptySequence, Distinct, IInv, Ordered, ShownInOrder, Rising \/ Resting, Pop
  PROVE  Ordered' /\ ShownInOrder' /\ (Rising' \/ Resting')
<1> DEFINE last == Len(stack)
<1>1. /\ Visiting /\ it \in Entries /\ ~doc[it].scalar /\ OnTop(doc[it].node) /\ it \in Sequential
      /\ NextIndex = doc[it].size /\ emitIteration' = FALSE
      /\ UNCHANGED <<doc, it, state, emitted, done>>
  BY DEF Pop, Visiting, Sequential
<1>2. doc \in Docs /\ it \in Nat /\ Entries \subseteq Nat
  BY <1>1, EntriesAreNatural DEF IInv
<1>3. /\ Entries' = Entries /\ Sequential' = Sequential /\ ShownInOrder'
      /\ Sequential \subseteq Entries /\ \A k : Values(k)' = Values(k)
  BY <1>1, Fixed, ShownFixed DEF Sequential
<1>4. /\ Len(stack) \in 1 .. Len(stack) /\ At(Len(stack), it) /\ it \in Held
      /\ \A k \in Held : k <= it
      /\ \A j \in 1 .. Len(stack), k \in Sequential : At(j, k) => (j = Len(stack) <=> k = it)
  BY <1>1, TopIsLast
<1>5. Resting
  BY <1>1, <1>4, HeldNow
<1>6. /\ emitted # <<>> /\ Carries(Latest)
      /\ \A k \in Sequential : k \notin Held => Latest[k] + 1 \notin Values(k)
      /\ \A j, k \in Sequential : k \in Held /\ j < k => j \in Held
  BY <1>1, <1>5 DEF Resting, Visiting
<1>7. PICK w : w = Latest
  OBVIOUS
<1>8. w[it] + 1 \notin Values(it)
  <2>1. doc[it].size \in Nat /\ doc[it].size > 0
    BY <1>1, <1>2, DocFacts DEF NoEmptySequence, Entries
  <2>2. w[it] + 1 = doc[it].size
    BY <1>1, <1>4, <1>6, <1>7, <2>1 DEF Carries, Top, NextIndex
  <2>. QED BY <1>1, <2>1, <2>2 DEF Values, Radix
<1>9. /\ Len(stack') = last - 1 /\ \A j \in 1 .. (last - 1) : stack'[j] = stack[j]
      /\ stack \in Seq(Frame) /\ stack' \in Seq(Frame) /\ last \in Nat
  BY PopStack DEF IInv
<1>10. \A j \in 1 .. (last - 1), k \in Entries : At(j, k)' <=> At(j, k)
  BY <1>1, <1>3, <1>9 DEF At
<1>11. Ordered'
  <2> SUFFICES ASSUME NEW i \in 1 .. (last - 1), NEW j \in 1 .. (last - 1),
                      NEW a \in Entries, NEW b \in Entries, i < j, At(i, a), At(j, b)
               PROVE  a < b
    BY <1>3, <1>9, <1>10 DEF Ordered
  <2>1. i \in 1 .. Len(stack) /\ j \in 1 .. Len(stack)
    BY <1>9
  <2>. QED BY <2>1 DEF Ordered
<1>12. Carries(w)'
  <2> SUFFICES ASSUME NEW j \in 1 .. (last - 1), NEW k \in Entries, At(j, k)
               PROVE  stack'[j].index = w[k]
    BY <1>3, <1>9, <1>10 DEF Carries
  <2>1. j \in 1 .. Len(stack)
    BY <1>9
  <2>. QED BY <1>6, <1>7, <1>9, <2>1 DEF Carries
<1>13. Held' = Held \ {it}
  <2>1. DOMAIN stack = 1 .. last /\ DOMAIN stack' = 1 .. (last - 1)
    BY <1>9
  <2>2. ASSUME NEW k \in Sequential
        PROVE  HeldAt(doc[k].node)' # {} <=> HeldAt(doc[k].node) # {} /\ k # it
    <3>1. HeldAt(doc[k].node)' # {} <=> \E j \in 1 .. (last - 1) : At(j, k)
      BY <1>1, <1>3, <1>10, <2>1 DEF HeldAt, At
    <3>2. HeldAt(doc[k].node) # {} <=> \E j \in 1 .. last : At(j, k)
      BY <2>1 DEF HeldAt, At
    <3>3. \A j \in 1 .. last : j # last <=> j \in 1 .. (last - 1)
      BY <1>9
    <3>4. 1 .. (last - 1) \subseteq 1 .. last
      BY <1>9
    <3>. QED BY <1>4, <3>1, <3>2, <3>3, <3>4
  <2>. QED BY <1>1, <1>3, <2>2 DEF Held
<1>14. \A k \in Sequential : k \notin Held' => w[k] + 1 \notin Values(k)
  BY <1>6, <1>7, <1>8, <1>13
<1>15. \A j, k \in Sequential : k \in Held' /\ j < k => j \in Held'
  BY <1>2, <1>3, <1>4, <1>6, <1>13
<1>16. Latest' = Latest
  BY <1>1 DEF Latest
<1>17. Carries(Latest)'
  BY <1>7, <1>12, <1>16 DEF Carries
<1>18. ~done
  BY <1>1 DEF Visiting
<1>19. Resting'
  BY <1>1, <1>3, <1>6, <1>7, <1>14, <1>15, <1>16, <1>17, <1>18 DEF Resting
<1>. QED BY <1>3, <1>11, <1>19

LEMMA ReplayCounts ==
  ASSUME Distinct, IInv, Ordered, ShownInOrder, Rising \/ Resting, Replay
  PROVE  Ordered' /\ ShownInOrder' /\ (Rising' \/ Resting')
<1> DEFINE held == Min(HeldAt(doc[it].node))
<1>1. /\ Visiting /\ it \in Entries /\ ~doc[it].scalar /\ it \in Sequential
      /\ ~OnTop(doc[it].node) /\ HeldAt(doc[it].node) # {}
      /\ Update(stack[held].index) /\ UNCHANGED stack
  BY DEF Replay, Visiting, Sequential
<1>2. /\ UNCHANGED <<doc, emitIteration, emitted, done>>
      /\ it' = it + 1 /\ it \in Nat /\ Entries \subseteq Nat
  BY <1>1, VisitFacts
<1>3. /\ Entries' = Entries /\ Sequential' = Sequential /\ \A k : Values(k)' = Values(k)
      /\ Held' = Held /\ Ordered' /\ ShownInOrder' /\ Sequential \subseteq Entries
  BY <1>1, <1>2, Fixed, StackFixed, ShownFixed DEF Sequential
<1>4. it \in Held
  BY <1>1 DEF Held
<1>5. Resting
  BY <1>1, <1>4, HeldNow
<1>6. emitted # <<>> /\ Carries(Latest) /\ Passed(Latest) /\ ~done
  BY <1>1, <1>5 DEF Resting, Visiting
<1>7. held \in 1 .. Len(stack) /\ stack[held].node = doc[it].node
  BY <1>1, FirstHeld
<1> HIDE DEF held
<1>8. At(held, it)
  BY <1>1, <1>7 DEF At
<1>9. stack[held].index = Latest[it]
  BY <1>1, <1>6, <1>7, <1>8 DEF Carries
<1>10. PICK w : w = Latest
  OBVIOUS
<1>11. Carries(w)' /\ Passed(w)'
  <2>1. Update(w[it]) /\ Passed(w) /\ Carries(w)
    BY <1>1, <1>6, <1>9, <1>10
  <2>. QED BY <1>1, <1>2, <2>1, StackFixed, PassedOn
<1>12. Latest' = Latest
  BY <1>2 DEF Latest
<1>13. Carries(Latest)' /\ Passed(Latest)'
  BY <1>10, <1>11, <1>12 DEF Carries, Passed
<1>14. \E k \in Held : it + 1 <= k
  <2>1. stack \in Seq(Frame) /\ Len(stack) \in Nat
    BY DEF IInv
  <2>2. Len(stack) \in 1 .. Len(stack) /\ held # Len(stack)
    BY <1>1, <1>7, <2>1 DEF OnTop, Top
  <2>3. PICK k \in Held : At(Len(stack), k)
    BY <2>2, FramesHaveEntries
  <2>4. k \in Entries
    BY <1>3 DEF Held
  <2>5. it < k
    BY <1>1, <1>7, <1>8, <2>1, <2>2, <2>3, <2>4 DEF Ordered
  <2>. QED BY <1>2, <2>3, <2>4, <2>5
<1>15. Resting'
  BY <1>2, <1>3, <1>5, <1>6, <1>12, <1>13, <1>14 DEF Resting
<1>. QED BY <1>3, <1>15

\* The stack rises to the first reading, then always to the next one.
LEMMA AimIsNext ==
  ASSUME NoEmptySequence, IInv, NEW v \in [Entries -> Int], Aim(v)
  PROVE  /\ Reading(v)
         /\ emitted = <<>> => v = Ideal!Zeros
         /\ emitted # <<>> => \E e : Turns(Latest, e) /\ v = Ideal!Successor(Latest)
<1>1. doc \in Docs
  BY DEF IInv
<1>2. CASE emitted = <<>>
  <2>1. Ideal!Zeros = [k \in Entries |-> 0]
    BY DEF Ideal!Zeros, Ideal!Digits, Radixes
  <2>2. v = Ideal!Zeros
    BY <1>2, <2>1 DEF Aim
  <2>. QED BY <1>1, <1>2, <2>2, ZerosAreFirst
<1>3. CASE emitted # <<>>
  <2>1. PICK e \in Entries :
          /\ Turns(Latest, e)
          /\ \A k \in Entries : v[k] = IF k < e THEN Latest[k] ELSE IF k = e THEN Latest[k] + 1 ELSE 0
    BY <1>3 DEF Aim
  <2>2. Reading(Latest)
    BY <1>3, LatestIsReading
  <2>3. PICK w : w = Latest
    OBVIOUS
  <2>4. Ideal!Successor(w) = [k \in Entries |-> IF k < e THEN w[k] ELSE IF k = e THEN w[k] + 1 ELSE 0]
    BY <1>1, <2>1, <2>2, <2>3, SuccessorIs
  <2>5. v = Ideal!Successor(w)
    BY <2>1, <2>3, <2>4
  <2>6. Reading(Ideal!Successor(w))
    BY <1>1, <2>1, <2>2, <2>3, SuccessorIsReading
  <2>. QED BY <1>3, <2>1, <2>3, <2>5, <2>6
<1>. QED BY <1>2, <1>3

\* The end of a pass that was not broken off: the stack has risen.
LEMMA EmitCounts ==
  ASSUME NoEmptySequence, Distinct, IInv, Ordered, ShownInOrder, Rising \/ Resting,
         EndPass, emitIteration
  PROVE  Ordered' /\ ShownInOrder' /\ Resting' /\ Ideal!Next
<1>1. /\ emitted' = Append(emitted, state) /\ it = Len(doc) + 1 /\ it' = 1
      /\ emitIteration' = TRUE /\ UNCHANGED <<doc, stack, state>>
      /\ done' = (stack = <<>>) /\ ~done
  BY DEF EndPass, IInv
<1>2. doc \in Docs /\ Len(doc) \in Nat /\ Entries \subseteq Nat /\ Entries = 1 .. Len(doc)
  BY EntriesAreNatural, DocFacts DEF IInv, Entries
<1>3. /\ Entries' = Entries /\ Sequential' = Sequential /\ \A k : Values(k)' = Values(k)
      /\ Held' = Held /\ Ordered' /\ Sequential \subseteq Entries /\ Ideal!Readings' = Ideal!Readings
  BY <1>1, Fixed, StackFixed DEF Sequential
<1>4. Rising
  <2>1. ASSUME Resting PROVE FALSE
    <3>1. PICK k \in Held : it <= k
      BY <1>1, <2>1 DEF Resting
    <3>2. k \in Entries
      BY <1>3 DEF Held
    <3>. QED BY <1>1, <1>2, <3>1, <3>2
  <2>. QED BY <2>1
<1>5. PICK v \in [Entries -> Int] : Aim(v) /\ RisesTo(v)
  BY <1>4 DEF Rising
<1>6. state = v
  <2>1. \A k \in Entries : k < it
    BY <1>1, <1>2
  <2>2. \A k \in Entries : state[k] = v[k]
    BY <1>5, <2>1 DEF RisesTo, Passed
  <2>. QED BY <2>2 DEF IInv
<1>7. /\ Reading(v)
      /\ emitted = <<>> => v = Ideal!Zeros
      /\ emitted # <<>> => \E e : Turns(Latest, e) /\ v = Ideal!Successor(Latest)
  BY <1>5, AimIsNext
<1>8. /\ Len(emitted) \in Nat /\ Len(emitted') = Len(emitted) + 1
      /\ emitted'[Len(emitted) + 1] = v /\ emitted' # <<>>
      /\ \A n \in 1 .. Len(emitted) : emitted'[n] = emitted[n]
  BY <1>1, <1>6 DEF IInv
<1>9. Latest' = v
  BY <1>8 DEF Latest
<1>10. UpTo(Latest)' = UpTo(v)
  BY <1>3, <1>9 DEF UpTo, Below
<1>11. {emitted'[n] : n \in 1 .. Len(emitted')} = {emitted[n] : n \in 1 .. Len(emitted)} \cup {v}
  <2>1. 1 .. Len(emitted') = 1 .. Len(emitted) \cup {Len(emitted) + 1}
    BY <1>8
  <2>. QED BY <1>8, <2>1
<1>12. /\ {emitted[n] : n \in 1 .. Len(emitted)} \cup {v} = UpTo(v)
       /\ \A n \in 1 .. Len(emitted) : emitted[n] # v
  <2>1. CASE emitted = <<>>
    <3>1. UpTo(v) = {v}
      BY <1>2, <1>7, <2>1, ZerosAreFirst
    <3>2. 1 .. Len(emitted) = {}
      BY <2>1
    <3>. QED BY <3>1, <3>2
  <2>2. CASE emitted # <<>>
    <3>1. PICK w : w = Latest
      OBVIOUS
    <3>2. PICK e : Turns(w, e) /\ v = Ideal!Successor(w)
      BY <1>7, <2>2, <3>1
    <3>3. Reading(w)
      BY <2>2, <3>1, LatestIsReading
    <3>4. UpTo(v) = UpTo(w) \cup {v} /\ v \notin UpTo(w)
      BY <1>2, <3>2, <3>3, SuccessorIsNext
    <3>5. {emitted[n] : n \in 1 .. Len(emitted)} = UpTo(w)
      BY <2>2, <3>1 DEF ShownInOrder
    <3>. QED BY <3>4, <3>5
  <2>. QED BY <2>1, <2>2
<1>13. ShownInOrder'
  <2>1. ASSUME NEW m \in 1 .. Len(emitted'), NEW n \in 1 .. Len(emitted'), emitted'[m] = emitted'[n]
        PROVE  m = n
    <3>1. /\ m \in 1 .. Len(emitted) \/ m = Len(emitted) + 1
          /\ n \in 1 .. Len(emitted) \/ n = Len(emitted) + 1
      BY <1>8
    <3>. QED BY <1>8, <1>12, <2>1, <3>1 DEF ShownInOrder
  <2>. QED BY <1>10, <1>11, <1>12, <2>1 DEF ShownInOrder
<1>14. Held = Sequential
  <2>1. \A k \in Sequential : k < it
    BY <1>1, <1>2, <1>3
  <2>. QED BY <1>5, <2>1 DEF RisesTo
<1>15. Carries(v)'
  BY <1>1, <1>5, StackFixed DEF RisesTo
<1>16. Carries(Latest)' /\ Passed(Latest)'
  <2>1. \A k \in Entries : ~(k < 1)
    BY <1>2
  <2>. QED BY <1>1, <1>3, <1>9, <1>15, <2>1 DEF Carries, Passed
<1>17. stack = <<>> => Held = {}
  <2>1. stack = <<>> => 1 .. Len(stack) = {}
    OBVIOUS
  <2>. QED BY <2>1, HeldHaveFrames
<1>18. stack # <<>> => \E k \in Held : 1 <= k
  <2> SUFFICES ASSUME stack # <<>> PROVE \E k \in Held : 1 <= k
    OBVIOUS
  <2>1. 1 \in 1 .. Len(stack)
    BY DEF IInv
  <2>2. PICK k \in Held : At(1, k)
    BY <2>1, FramesHaveEntries
  <2>3. k \in Entries
    BY <1>3 DEF Held
  <2>. QED BY <1>2, <2>2, <2>3
<1>19. Resting'
  BY <1>1, <1>3, <1>8, <1>14, <1>16, <1>17, <1>18 DEF Resting
<1>20. Ideal!Next
  <2>1. Radixes' = Radixes
    BY <1>1, <1>3 DEF Radixes
  <2>2. CASE emitted = <<>>
    <3>1. emitted' = <<Ideal!Zeros>>
      BY <1>1, <1>6, <1>7, <2>2
    <3>. QED BY <2>1, <2>2, <3>1 DEF Ideal!Next, Ideal!First
  <2>3. CASE emitted # <<>>
    <3>1. PICK w : w = Latest
      OBVIOUS
    <3>2. PICK e : Turns(w, e) /\ v = Ideal!Successor(w)
      BY <1>7, <2>3, <3>1
    <3>3. Reading(w)
      BY <2>3, <3>1, LatestIsReading
    <3>4. Ideal!Advancing(w) # {}
      BY <1>2, <3>2, <3>3, SuccessorIs
    <3>5. Ideal!Shown = w
      BY <3>1 DEF Ideal!Shown, Latest
    <3>. QED BY <1>1, <1>6, <2>1, <2>3, <3>2, <3>4, <3>5 DEF Ideal!Next, Ideal!Tick
  <2>. QED BY <2>2, <2>3
<1>. QED BY <1>3, <1>13, <1>19, <1>20

\* The end of a pass that was broken off.
LEMMA BreakCounts ==
  ASSUME IInv, Ordered, ShownInOrder, Rising \/ Resting, EndPass, ~emitIteration
  PROVE  Ordered' /\ ShownInOrder' /\ Resting' /\ UNCHANGED emitted
<1>1. /\ it' = 1 /\ emitIteration' = TRUE /\ UNCHANGED <<doc, stack, state, emitted>>
      /\ done' = (stack = <<>>) /\ ~done
  BY DEF EndPass
<1>2. Entries \subseteq Nat /\ \A k \in Entries : k >= 1 /\ ~(k < 1)
  BY EntriesAreNatural DEF IInv, Entries
<1>3. /\ Entries' = Entries /\ Sequential' = Sequential /\ \A k : Values(k)' = Values(k)
      /\ Held' = Held /\ Ordered' /\ ShownInOrder' /\ Sequential \subseteq Entries
  BY <1>1, Fixed, StackFixed, ShownFixed DEF Sequential
<1>4. Resting
  BY DEF Rising
<1>5. PICK w : w = Latest
  OBVIOUS
<1>6. Latest' = Latest
  BY <1>1 DEF Latest
<1>7. Carries(w)'
  BY <1>1, <1>4, <1>5, StackFixed DEF Resting
<1>8. Carries(Latest)' /\ Passed(Latest)'
  BY <1>1, <1>2, <1>3, <1>5, <1>6, <1>7 DEF Carries, Passed
<1>9. stack = <<>> => Held = {}
  <2>1. stack = <<>> => 1 .. Len(stack) = {}
    OBVIOUS
  <2>. QED BY <2>1, HeldHaveFrames
<1>10. stack # <<>> => \E k \in Held : 1 <= k
  <2> SUFFICES ASSUME stack # <<>> PROVE \E k \in Held : 1 <= k
    OBVIOUS
  <2>1. 1 \in 1 .. Len(stack)
    BY DEF IInv
  <2>2. PICK k \in Held : At(1, k)
    BY <2>1, FramesHaveEntries
  <2>3. k \in Entries
    BY <1>3 DEF Held
  <2>. QED BY <1>2, <2>2, <2>3
<1>11. Resting'
  BY <1>1, <1>3, <1>4, <1>6, <1>8, <1>9, <1>10 DEF Resting
<1>. QED BY <1>1, <1>3, <1>11

-----------------------------------------------------------------------------
LEMMA NextCounts ==
  ASSUME NoEmptySequence, IInv, Counting, Next
  PROVE  Counting' /\ (Distinct => Ideal!Next \/ UNCHANGED emitted)
<1>1. doc' = doc
  BY DEF Next, VisitScalar, Push, Advance, Pop, Replay, EndPass, Update
<1>2. Distinct' = Distinct
  BY <1>1, Fixed DEF Distinct
<1>. SUFFICES ASSUME Distinct
              PROVE  Ordered' /\ ShownInOrder' /\ (Rising' \/ Resting') /\ (Ideal!Next \/ UNCHANGED emitted)
  BY <1>2 DEF Counting
<1>3. Ordered /\ ShownInOrder /\ (Rising \/ Resting)
  BY DEF Counting
<1>4. CASE VisitScalar
  BY <1>3, <1>4, ScalarCounts DEF VisitScalar, Update
<1>5. CASE Push
  BY <1>3, <1>5, PushCounts DEF Push, Update
<1>6. CASE Advance
  BY <1>3, <1>6, AdvanceCounts DEF Advance, Update
<1>7. CASE Pop
  BY <1>3, <1>7, PopCounts DEF Pop
<1>8. CASE Replay
  BY <1>3, <1>8, ReplayCounts DEF Replay, Update
<1>9. CASE EndPass
  BY <1>3, <1>9, EmitCounts, BreakCounts
<1>. QED BY <1>4, <1>5, <1>6, <1>7, <1>8, <1>9 DEF Next

LEMMA StutterCounts ==
  ASSUME Counting, UNCHANGED vars
  PROVE  Counting'
<1>1. UNCHANGED <<doc, it, stack, emitIteration, state, emitted, done>>
  BY DEF vars
<1>2. /\ Entries' = Entries /\ Sequential' = Sequential /\ \A k : Values(k)' = Values(k)
      /\ Held' = Held /\ (Ordered => Ordered') /\ (ShownInOrder => ShownInOrder')
      /\ \A v : Carries(v) => Carries(v)'
  BY <1>1, Fixed, StackFixed, ShownFixed
<1>3. Distinct' = Distinct /\ Latest' = Latest
  BY <1>1, <1>2 DEF Distinct, Latest
<1>4. \A v : Passed(v) => Passed(v)'
  BY <1>1, <1>2 DEF Passed
<1>5. Rising => Rising'
  <2> SUFFICES ASSUME NEW v \in [Entries -> Int], Aim(v), RisesTo(v), ~done, emitIteration
               PROVE  Rising'
    BY DEF Rising
  <2>1. Aim(v)'
    BY <1>1, AimFixed
  <2>2. RisesTo(v)'
    BY <1>1, <1>2, <1>4 DEF RisesTo
  <2>. QED BY <1>1, <1>2, <2>1, <2>2 DEF Rising
<1>6. Resting => Resting'
  <2>1. PICK w : w = Latest
    OBVIOUS
  <2>2. Carries(Latest) => Carries(Latest)'
    BY <1>2, <1>3, <2>1 DEF Carries
  <2>3. Passed(Latest) => Passed(Latest)'
    BY <1>3, <1>4, <2>1 DEF Passed
  <2>. QED BY <1>1, <1>2, <1>3, <2>2, <2>3 DEF Resting
<1>. QED BY <1>2, <1>3, <1>5, <1>6 DEF Counting

LEMMA CountsFromZero == ASSUME NoEmptySequence, Init PROVE Counting
<1>1. PICK d \in Docs : Initially(d)
  BY DEF Init
<1>2. doc \in Docs /\ Entries \subseteq Nat /\ it = 1 /\ stack = <<>> /\ emitted = <<>> /\ ~done /\ emitIteration
  BY <1>1, EntriesAreNatural DEF Initially
<1>3. 1 .. Len(stack) = {} /\ 1 .. Len(emitted) = {} /\ DOMAIN stack = {}
  BY <1>2
<1>4. Ordered /\ ShownInOrder
  BY <1>2, <1>3 DEF Ordered, ShownInOrder
<1>5. \A k \in Entries : ~(k < it)
  BY <1>2 DEF Entries
<1>6. Held = {} /\ Held = {k \in Sequential : k < it}
  BY <1>3, <1>5 DEF Held, HeldAt, Sequential
<1>7. PICK v \in [Entries -> Int] : \A k \in Entries : v[k] = 0
  <2> DEFINE z == [k \in Entries |-> 0]
  <2>1. z \in [Entries -> Int]
    OBVIOUS
  <2>. QED BY <2>1
<1>8. Aim(v) /\ RisesTo(v)
  BY <1>2, <1>3, <1>5, <1>6, <1>7 DEF Aim, RisesTo, Carries, Passed
<1>. QED BY <1>2, <1>4, <1>7, <1>8 DEF Counting, Rising

\* When the stack is empty again, the reading shown last is the highest.
LEMMA AllHaveBeenShown ==
  ASSUME IInv, Counting
  PROVE  EmitsAllPermutations
<1>. SUFFICES ASSUME done, Distinct PROVE Ideal!Complete
  BY DEF EmitsAllPermutations
<1>1. Resting /\ ShownInOrder
  BY DEF Counting, Rising
<1>2. emitted # <<>> /\ Held = {} /\ \A k \in Sequential : Latest[k] + 1 \notin Values(k)
  BY <1>1 DEF Resting
<1>3. Reading(Latest)
  BY <1>2, LatestIsReading
<1>4. PICK w : w = Latest
  OBVIOUS
<1>5. \A k \in Entries : w[k] + 1 \notin Values(k)
  BY <1>2, <1>3, <1>4, ScalarsStay DEF Sequential
<1>6. UpTo(w) = Ideal!Readings
  BY <1>3, <1>4, <1>5, HighestIsLast DEF IInv
<1>7. {emitted[n] : n \in 1 .. Len(emitted)} = Ideal!Readings
  BY <1>1, <1>2, <1>4, <1>6 DEF ShownInOrder
<1>8. Cardinality({emitted[n] : n \in 1 .. Len(emitted)}) = Len(emitted)
  BY <1>1, LengthIsCardinality DEF ShownInOrder, IInv
<1>9. Len(emitted) = Ideal!Cardinality(Ideal!Readings)
  BY <1>7, <1>8, SameCount
<1>10. DOMAIN emitted = 1 .. Len(emitted)
  BY DEF IInv
<1>. QED BY <1>7, <1>9, <1>10 DEF Ideal!Complete

\* Without aliases ParseConfiguration is an odometer: it gives the permutations
\* to emit one after the other in the odometer's order, each once, and has given
\* all of them when it returns.
THEOREM ParserImplementsOdometer ==
  ASSUME NoEmptySequence PROVE Spec => ImplementsOdometer
<1>1. Init => Ideal!Init
  BY DEF Init, Initially, Ideal!Init
<1>2. Init => Counting
  BY CountsFromZero
<1>3. IInv /\ Counting /\ [Next]_vars => Counting'
  BY NextCounts, StutterCounts
<1>4. IInv /\ Counting /\ [Next]_vars => [Distinct => Ideal!Next \/ UNCHANGED emitted]_vars
  BY NextCounts
<1>5. IInv /\ Counting => EmitsAllPermutations
  BY AllHaveBeenShown
<1>. QED BY <1>1, <1>2, <1>3, <1>4, <1>5, Invariance, PTL DEF Spec, ImplementsOdometer
=============================================================================
