------------------------- MODULE ConfigurationParser -------------------------
(***************************************************************************)
(* ParseConfiguration of src/include/ConfigurationParser.h.  It passes     *)
(* over the entries of a YAML map again and again, keeps a stack of the    *)
(* sequences it is iterating, each with the index of its current value,    *)
(* and calls emit at the end of every pass that was not broken off.        *)
(*                                                                         *)
(* doc is the map: one record per entry, with the identity of its node and *)
(* its size, 0 for an empty sequence or a key without a value.  Two        *)
(* entries have one node when one is an alias of the other (YAML::Node     *)
(* compares by identity).  What the update callback receives is the index  *)
(* of a value; a scalar has the index 0.                                   *)
(***************************************************************************)
EXTENDS Integers, Sequences, SequencesExt

CONSTANTS Docs,    \* the documents
          Wrap,    \* the index is an unsigned integer modulo Wrap
          Unset    \* a parameter that update has not been called for

Entry == [scalar : BOOLEAN, node : Nat, size : 0 .. (Wrap - 1)]
Frame == [node : Nat, index : 0 .. (Wrap - 1)]

\* Entries with one node have the size of that node.
ASSUME DocsAssumption ==
  /\ Wrap \in Nat \ {0}
  /\ Unset \notin Int
  /\ \A d \in Docs :
       /\ d \in Seq(Entry)
       /\ \A j, k \in 1 .. Len(d) :
            ~d[j].scalar /\ ~d[k].scalar /\ d[j].node = d[k].node => d[j].size = d[k].size

VARIABLES
  doc,            \* the entries of rootNode
  it,             \* the entry the pass is at, Len(doc) + 1 at its end
  stack,          \* the sequences under iteration: [node, index], back last
  emitIteration,  \* the pass may still emit
  state,          \* the client's state: the value of every parameter
  emitted,        \* the states given to emit
  done

vars == <<doc, it, stack, emitIteration, state, emitted, done>>

Entries == 1 .. Len(doc)
Top == stack[Len(stack)]
HeldAt(node) == {j \in DOMAIN stack : stack[j].node = node}
OnTop(node) == stack # <<>> /\ Top.node = node

Initially(d) ==
  /\ doc = d
  /\ it = 1
  /\ stack = <<>>
  /\ emitIteration = TRUE
  /\ state = [k \in 1 .. Len(d) |-> Unset]
  /\ emitted = <<>>
  /\ done = FALSE

Init == \E d \in Docs : Initially(d)

-----------------------------------------------------------------------------
\* The update callback, and the next entry.
Update(index) == /\ state' = [state EXCEPT ![it] = index]
                 /\ it' = it + 1
                 /\ UNCHANGED <<doc, emitIteration, emitted, done>>

Visiting == ~done /\ emitIteration /\ it \in Entries

VisitScalar == /\ Visiting /\ doc[it].scalar
               /\ Update(0)
               /\ UNCHANGED stack

\* Variant: the new sequence goes to the wrong end of the list.
PushFront == /\ Visiting /\ ~doc[it].scalar
             /\ HeldAt(doc[it].node) = {}
             /\ Update(0)
             /\ stack' = <<[node |-> doc[it].node, index |-> 0]>> \o stack

\* A sequence that is not under iteration starts with its first value.
Push == /\ Visiting /\ ~doc[it].scalar
        /\ HeldAt(doc[it].node) = {}
        /\ Update(0)
        /\ stack' = Append(stack, [node |-> doc[it].node, index |-> 0])

\* ++stack.back().second wraps around at Wrap.
NextIndex == IF Top.index + 1 = Wrap THEN 0 ELSE Top.index + 1

\* Variant: the bound is only tested before the break, not before the update.
AdvancePastEnd == /\ Visiting /\ ~doc[it].scalar
                  /\ OnTop(doc[it].node)
                  /\ Update(NextIndex)
                  /\ stack' = [stack EXCEPT ![Len(stack)].index = NextIndex]

\* The topmost sequence goes to its next value.
Advance == /\ Visiting /\ ~doc[it].scalar
           /\ OnTop(doc[it].node)
           /\ NextIndex # doc[it].size
           /\ Update(NextIndex)
           /\ stack' = [stack EXCEPT ![Len(stack)].index = NextIndex]

\* Variant: the sequence stays on top.
PopNothing == /\ Visiting /\ ~doc[it].scalar
              /\ OnTop(doc[it].node)
              /\ NextIndex = doc[it].size
              /\ emitIteration' = FALSE
              /\ UNCHANGED <<doc, it, stack, state, emitted, done>>

\* It has no next value: it leaves the stack and breaks off the pass.
Pop == /\ Visiting /\ ~doc[it].scalar
       /\ OnTop(doc[it].node)
       /\ NextIndex = doc[it].size
       /\ stack' = SubSeq(stack, 1, Len(stack) - 1)
       /\ emitIteration' = FALSE
       /\ UNCHANGED <<doc, it, state, emitted, done>>

\* Variant: it starts again.
ReplayFirst == /\ Visiting /\ ~doc[it].scalar
               /\ ~OnTop(doc[it].node)
               /\ HeldAt(doc[it].node) # {}
               /\ Update(0)
               /\ UNCHANGED stack

\* A sequence below the top is held on its value.  find_if takes the first.
Replay == /\ Visiting /\ ~doc[it].scalar
          /\ ~OnTop(doc[it].node)
          /\ HeldAt(doc[it].node) # {}
          /\ Update(stack[Min(HeldAt(doc[it].node))].index)
          /\ UNCHANGED stack

\* The end of a pass, and of the do ... while.
EndPass == /\ ~done
           /\ ~emitIteration \/ it = Len(doc) + 1
           /\ emitted' = IF emitIteration THEN Append(emitted, state) ELSE emitted
           /\ done' = (stack = <<>>)
           /\ it' = 1
           /\ emitIteration' = TRUE
           /\ UNCHANGED <<doc, stack, state>>

Next == VisitScalar \/ Push \/ Advance \/ Pop \/ Replay \/ EndPass

\* The function runs to its end on its caller's thread.
Spec == Init /\ [][Next]_vars /\ WF_vars(Next)

-----------------------------------------------------------------------------
\* How many values a parameter takes.
Radix(e) == IF e.scalar THEN 1 ELSE e.size
Radixes == [k \in Entries |-> Radix(doc[k])]

Sequential == {k \in Entries : ~doc[k].scalar}
Distinct == \A j, k \in Sequential : doc[j].node = doc[k].node => j = k

\* The iterator stays on the map, and every index within its unsigned integer.
TypeOK ==
  /\ doc \in Docs
  /\ it \in 1 .. (Len(doc) + 1)
  /\ stack \in Seq(Frame)
  /\ emitIteration \in BOOLEAN
  /\ state \in [Entries -> (0 .. (Wrap - 1)) \cup {Unset}]
  /\ emitted \in Seq([Entries -> (0 .. (Wrap - 1)) \cup {Unset}])
  /\ done \in BOOLEAN

\* No sequence is on the stack twice, and every index on it is one of a value
\* the sequence has.
StackHoldsValues ==
  /\ \A i, j \in 1 .. Len(stack) : stack[i].node = stack[j].node => i = j
  /\ \A j \in 1 .. Len(stack) : \E k \in Sequential :
       doc[k].node = stack[j].node /\ stack[j].index < doc[k].size

Ideal == INSTANCE Odometer WITH radix <- Radixes, out <- emitted

\* All of them have been given to emit, each once, before the function returns.
EmitsAllPermutations == done /\ Distinct => Ideal!Complete

\* Without aliases, the states given to emit are the readings of an odometer,
\* in its order, and none is missing when the function returns.
ImplementsOdometer ==
  /\ Ideal!Init /\ [][Distinct => Ideal!Next \/ UNCHANGED emitted]_vars
  /\ []EmitsAllPermutations

\* The function returns, also for documents with aliases.
Terminates == <>done

-----------------------------------------------------------------------------
(***************************************************************************)
(* What the comment at ConfigurationParser.h:20 says: emit is called "for  *)
(* each of the possible permutations of parameters that are specified with *)
(* the sequence syntax".                                                   *)
(***************************************************************************)

\* A permutation takes a value that exists for every parameter.
EmitsOnlyPermutations ==
  \A n \in DOMAIN emitted : \A k \in Entries : emitted[n][k] \in 0 .. (Radixes[k] - 1)

\* Among all permutations every value of every parameter occurs, whether two
\* entries that share a sequence are to vary together or apart.
EmitsEveryValue ==
  done => \A k \in Entries : \A v \in 0 .. (Radixes[k] - 1) :
            \E n \in DOMAIN emitted : emitted[n][k] = v
=============================================================================
