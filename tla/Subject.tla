------------------------------- MODULE Subject -------------------------------
(***************************************************************************)
(* Subject and Observer of src/include/DataStructureUtilities.h: a linked  *)
(* list of observers, and a loop over it that calls each of them back.     *)
(* Nothing keeps a callback from subscribing, unsubscribing or notifying   *)
(* again, so loops nest, and each of them stands at a node of the list     *)
(* while the callback of that node runs.                                   *)
(*                                                                         *)
(* A node of the list is a record with its address; an address is used     *)
(* again once its node is erased and no loop stands at it.                 *)
(***************************************************************************)
EXTENDS Integers, Sequences, SequencesExt

CONSTANTS Observers,
          MaxNodes,   \* bound on the subscriptions at one time
          MaxDepth,   \* bound on the nesting of notifyObservers()
          Manners     \* whether callbacks may be rude

ASSUME SubjectAssumption ==
  /\ MaxNodes \in Nat /\ MaxDepth \in Nat
  /\ Manners \subseteq BOOLEAN

VARIABLES
  mObservers,  \* the list: a sequence of [at, obs]
  loops,       \* the running loops, innermost last: the address it stands at,
               \* and the addresses it has called back
  fault,       \* an access to an erased node or to the end of the list
  rude         \* callbacks may erase the node a loop stands at, or no node at all

vars == <<mObservers, loops, fault, rude>>

Nodes == DOMAIN mObservers
Addresses == {mObservers[k].at : k \in Nodes}
Held == {loops[j].at : j \in DOMAIN loops}
Unused == (1 .. (MaxNodes + MaxDepth)) \ (Addresses \cup Held)
PositionOf(address) == CHOOSE k \in Nodes : mObservers[k].at = address

Init == mObservers = <<>> /\ loops = <<>> /\ fault = FALSE /\ rude \in Manners

\* Variant: a new node goes to the front.
subscribeFront(o) ==
  /\ Len(mObservers) < MaxNodes
  /\ mObservers' = <<[at |-> Min(Unused), obs |-> o]>> \o mObservers
  /\ UNCHANGED <<loops, fault>>

\* push_back, duplicates included.
subscribe(o) ==
  /\ Len(mObservers) < MaxNodes
  /\ mObservers' = Append(mObservers, [at |-> Min(Unused), obs |-> o])
  /\ UNCHANGED <<loops, fault>>

Subscriptions(o) == {k \in Nodes : mObservers[k].obs = o}

\* find returns the first.
Erased(o) == RemoveAt(mObservers, Min(Subscriptions(o)))

\* The loops forget an address that may be used again.
unsubscribe(o) ==
  /\ Subscriptions(o) # {}
  /\ LET address == mObservers[Min(Subscriptions(o))].at
     IN  /\ ~rude => address \notin Held
         /\ loops' = [j \in DOMAIN loops |-> [loops[j] EXCEPT !.called = @ \ {address}]]
  /\ mObservers' = Erased(o)
  /\ UNCHANGED fault

\* find returns end(), and to erase that is undefined.
unsubscribeStranger(o) ==
  /\ rude
  /\ Subscriptions(o) = {}
  /\ fault' = TRUE
  /\ UNCHANGED <<mObservers, loops>>

\* The loop starts with the first node, and returns at once from an empty list.
notifyObservers ==
  /\ Len(loops) < MaxDepth
  /\ mObservers # <<>>
  /\ loops' = Append(loops, [at |-> mObservers[1].at, called |-> {mObservers[1].at}])
  /\ UNCHANGED <<mObservers, fault>>

Innermost == loops[Len(loops)]

\* Variant: the loop ends one node early.
HastyBehind(address) ==
  LET k == PositionOf(address) IN IF k + 1 < Len(mObservers) THEN {mObservers[k + 1].at} ELSE {}

\* The node behind the one the loop stands at.
Behind(address) ==
  LET k == PositionOf(address) IN IF k < Len(mObservers) THEN {mObservers[k + 1].at} ELSE {}

\* The callback of the innermost loop returns.  The loop follows the link of
\* its node, which must still exist, and calls back the next one or ends.
Return ==
  /\ loops # <<>>
  /\ UNCHANGED mObservers
  /\ IF Innermost.at \notin Addresses
     THEN fault' = TRUE /\ UNCHANGED loops
     ELSE /\ UNCHANGED fault
          /\ loops' = IF Behind(Innermost.at) = {}
                      THEN Front(loops)
                      ELSE LET next == CHOOSE a \in Behind(Innermost.at) : TRUE
                           IN  [loops EXCEPT ![Len(loops)].at = next,
                                             ![Len(loops)].called = @ \cup {next}]

Next == /\ ~fault
        /\ UNCHANGED rude
        /\ \/ \E o \in Observers : subscribe(o) \/ unsubscribe(o) \/ unsubscribeStranger(o)
           \/ notifyObservers
           \/ Return

Spec == Init /\ [][Next]_vars

-----------------------------------------------------------------------------
\* While a callback runs, the innermost loop and all those around it have
\* called back exactly the subscriptions up to their node: none is skipped and
\* none called twice, although callbacks subscribe, unsubscribe others and
\* notify again.
CalledUpToHere ==
  \A j \in DOMAIN loops :
    loops[j].at \in Addresses =>
      loops[j].called = {mObservers[k].at : k \in 1 .. PositionOf(loops[j].at)}

\* A round of notifications ends only when every subscription of that moment has
\* been called back in it, those made during the round too.
RoundIsComplete ==
  [][Len(loops') < Len(loops) => Innermost.called = Addresses]_vars
=============================================================================
