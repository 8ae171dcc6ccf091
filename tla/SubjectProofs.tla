----------------------------- MODULE SubjectProofs -----------------------------
(***************************************************************************)
(* For any observers and any depth of nesting: loops over the list of      *)
(* observers that callbacks change have called back what they should.      *)
(*                                                                         *)
(* The inductive invariant says of every loop and of every node at its     *)
(* address what CalledUpToHere says of the node's position; it needs the   *)
(* addresses to be distinct, and a new one to be none a loop stands at.    *)
(***************************************************************************)
EXTENDS Subject, FiniteSetTheorems, SequenceTheorems, WellFoundedInduction, TLAPS

Room == 1 .. (MaxNodes + MaxDepth)
Node == [at : Room, obs : Observers]
Loop == [at : Nat, called : SUBSET Nat]

Shape ==
  /\ mObservers \in Seq(Node) /\ Len(mObservers) <= MaxNodes
  /\ loops \in Seq(Loop) /\ Len(loops) <= MaxDepth

Distinct == \A j, k \in 1 .. Len(mObservers) : mObservers[j].at = mObservers[k].at => j = k

UpTo(k) == {mObservers[i].at : i \in 1 .. k}

CalledUpTo ==
  \A j \in 1 .. Len(loops) : \A k \in 1 .. Len(mObservers) :
    mObservers[k].at = loops[j].at => loops[j].called = UpTo(k)

IInv == Shape /\ Distinct /\ CalledUpTo

-----------------------------------------------------------------------------
\* A set of numbers has a least one.
LEMMA LeastIsIn ==
  ASSUME NEW S \in SUBSET Nat, S # {}
  PROVE  Min(S) \in S
<1>. DEFINE R == OpToRel(<, Nat)
<1>1. \A x, y \in Nat : y < x => <<y, x>> \in R
  BY DEF OpToRel
<1>2. IsWellFoundedOn(R, Nat)
  BY NatLessThanWellFounded
<1>. HIDE DEF R
<1>3. PICK x \in S : \A y \in S : ~ (<<y, x>> \in R)
  BY <1>2, WFMin
<1>4. \A y \in S : x <= y
  <2>. SUFFICES ASSUME NEW y \in S PROVE x <= y
    OBVIOUS
  <2>1. x \in Nat /\ y \in Nat
    BY <1>3
  <2>2. ~ (y < x)
    BY <2>1, <1>1, <1>3, Zenon
  <2>. QED BY <2>1, <2>2
<1>. QED BY <1>3, <1>4 DEF Min

\* Entries of a sequence have no more addresses than there are of them.
LEMMA FewAddresses ==
  ASSUME NEW S, NEW s \in Seq(S)
  PROVE  LET A == {s[k].at : k \in 1 .. Len(s)}
         IN  IsFiniteSet(A) /\ Cardinality(A) <= Len(s)
<1>. DEFINE A == {s[k].at : k \in 1 .. Len(s)}
            f == [k \in 1 .. Len(s) |-> s[k].at]
<1>1. f \in Surjection(1 .. Len(s), A)
  BY DEF Surjection
<1>2. IsFiniteSet(1 .. Len(s)) /\ Cardinality(1 .. Len(s)) = Len(s)
  <2>1. Len(s) \in Nat
    OBVIOUS
  <2>. QED BY SMTT(20), <2>1, FS_Interval
<1>. QED BY <1>1, <1>2, FS_Surjection

\* While the list is not full there is an address that neither a node has nor a
\* loop stands at.
LEMMA UnusedIsLeft ==
  ASSUME Shape, Len(mObservers) < MaxNodes
  PROVE  Min(Unused) \in Unused
<1>1. MaxNodes \in Nat /\ MaxDepth \in Nat /\ Len(mObservers) \in Nat /\ Len(loops) \in Nat
  BY SubjectAssumption DEF Shape
<1>2. Addresses = {mObservers[k].at : k \in 1 .. Len(mObservers)}
      /\ Held = {loops[k].at : k \in 1 .. Len(loops)}
  BY DEF Shape, Addresses, Held, Nodes
<1>3. IsFiniteSet(Addresses) /\ Cardinality(Addresses) <= Len(mObservers)
  BY <1>2, FewAddresses DEF Shape
<1>4. IsFiniteSet(Held) /\ Cardinality(Held) <= Len(loops)
  BY <1>2, FewAddresses DEF Shape
<1>5. IsFiniteSet(Room) /\ Cardinality(Room) = MaxNodes + MaxDepth
  <2>. DEFINE n == MaxNodes + MaxDepth
  <2>1. n \in Int /\ n >= 0
    BY <1>1
  <2>2. IsFiniteSet(1 .. n) /\ Cardinality(1 .. n) = n
    <3>. HIDE DEF n
    <3>. QED BY <2>1, FS_Interval
  <2>. QED BY <2>2 DEF Room
<1>6. ~(Room \subseteq Addresses \cup Held)
  <2>1. IsFiniteSet(Addresses \cup Held)
        /\ Cardinality(Addresses \cup Held)
             = Cardinality(Addresses) + Cardinality(Held) - Cardinality(Addresses \cap Held)
    BY <1>3, <1>4, FS_Union
  <2>2. IsFiniteSet(Addresses \cap Held)
    BY <1>3, FS_Subset
  <2>3. /\ Cardinality(Addresses) \in Nat /\ Cardinality(Held) \in Nat
        /\ Cardinality(Addresses \cap Held) \in Nat
    BY <1>3, <1>4, <2>2, FS_CardinalityType
  <2>4. Cardinality(Addresses \cup Held) < MaxNodes + MaxDepth
    BY <1>1, <1>3, <1>4, <2>1, <2>3 DEF Shape
  <2>5. Room \subseteq Addresses \cup Held
          => Cardinality(Room) <= Cardinality(Addresses \cup Held)
    BY <2>1, FS_Subset
  <2>6. Cardinality(Addresses \cup Held) \in Nat
    BY <2>1, FS_CardinalityType
  <2>. QED BY <1>1, <1>5, <2>4, <2>5, <2>6
<1>7. Unused \in SUBSET Nat /\ Unused # {}
  BY <1>1, <1>6 DEF Unused, Room
<1>. QED BY <1>7, LeastIsIn

\* What Front leaves.
LEMMA Shortened ==
  ASSUME NEW S, NEW s \in Seq(S), s # <<>>
  PROVE  /\ Front(s) \in Seq(S) /\ Len(Front(s)) = Len(s) - 1
         /\ \A k \in 1 .. (Len(s) - 1) : Front(s)[k] = s[k]
<1>. DEFINE n == Len(s) - 1
<1>1. n \in Nat /\ n \in 0 .. Len(s)
  OBVIOUS
<1>2. Front(s) = SubSeq(s, 1, n)
  BY DEF Front
<1>. HIDE DEF n
<1>3. /\ SubSeq(s, 1, n) \in Seq(S)
      /\ Len(SubSeq(s, 1, n)) = n
      /\ \A k \in 1 .. n : SubSeq(s, 1, n)[k] = s[k]
  BY <1>1
<1>. QED BY <1>2, <1>3 DEF n

\* What RemoveAt leaves.
LEMMA Removed ==
  ASSUME NEW S, NEW s \in Seq(S), NEW i \in 1 .. Len(s)
  PROVE  /\ RemoveAt(s, i) \in Seq(S)
         /\ Len(RemoveAt(s, i)) = Len(s) - 1
         /\ \A k \in 1 .. (Len(s) - 1) : RemoveAt(s, i)[k] = IF k < i THEN s[k] ELSE s[k + 1]
<1>. DEFINE a == SubSeq(s, 1, i - 1)
            b == SubSeq(s, i + 1, Len(s))
<1>1. a \in Seq(S) /\ Len(a) = i - 1 /\ \A k \in 1 .. (i - 1) : a[k] = s[k]
  OBVIOUS
<1>2. b \in Seq(S) /\ Len(b) = Len(s) - i /\ \A k \in 1 .. (Len(s) - i) : b[k] = s[k + i]
  OBVIOUS
<1>3. RemoveAt(s, i) = a \o b
  BY DEF RemoveAt
<1>. HIDE DEF a, b
<1>4. /\ a \o b \in Seq(S) /\ Len(a \o b) = Len(s) - 1
      /\ \A k \in 1 .. (Len(s) - 1) : (a \o b)[k] = IF k <= i - 1 THEN a[k] ELSE b[k - (i - 1)]
  <2>1. /\ a \o b \in Seq(S) /\ Len(a \o b) = Len(a) + Len(b)
        /\ \A k \in 1 .. Len(a) + Len(b) :
             (a \o b)[k] = IF k <= Len(a) THEN a[k] ELSE b[k - Len(a)]
    BY <1>1, <1>2, ConcatProperties
  <2>2. Len(a) + Len(b) = Len(s) - 1
    BY <1>1, <1>2
  <2>. QED BY <1>1, <2>1, <2>2
<1>5. ASSUME NEW k \in 1 .. (Len(s) - 1)
      PROVE  (a \o b)[k] = IF k < i THEN s[k] ELSE s[k + 1]
  <2>1. CASE k < i
    BY <1>1, <1>4, <2>1
  <2>2. CASE ~(k < i)
    <3>1. k - (i - 1) \in 1 .. (Len(s) - i)
      BY <2>2
    <3>2. b[k - (i - 1)] = s[(k - (i - 1)) + i]
      BY <1>2, <3>1
    <3>. QED BY <1>4, <2>2, <3>2
  <2>. QED BY <2>1, <2>2
<1>. QED BY <1>3, <1>4, <1>5

-----------------------------------------------------------------------------
\* The position of an address in a list of distinct ones.
LEMMA OnePosition ==
  ASSUME Shape, Distinct, NEW a \in Addresses
  PROVE  /\ PositionOf(a) \in 1 .. Len(mObservers) /\ mObservers[PositionOf(a)].at = a
         /\ Nodes = 1 .. Len(mObservers)
<1>1. Nodes = 1 .. Len(mObservers)
  BY DEF Shape, Nodes
<1>2. \E k \in Nodes : mObservers[k].at = a
  BY DEF Addresses
<1>. QED BY <1>1, <1>2 DEF PositionOf

LEMMA AddressesAreNumbers ==
  ASSUME Shape, NEW k \in 1 .. Len(mObservers)
  PROVE  mObservers[k].at \in Nat
<1>1. mObservers[k] \in Node
  BY DEF Shape
<1>2. Room \subseteq Nat
  BY SubjectAssumption DEF Room
<1>. QED BY <1>1, <1>2 DEF Node

LEMMA SubscribeKeeps ==
  ASSUME IInv, NEW o \in Observers, subscribe(o)
  PROVE  IInv'
<1>. DEFINE new == [at |-> Min(Unused), obs |-> o]
<1>1. Min(Unused) \in Unused
  BY UnusedIsLeft DEF IInv, subscribe
<1>2. new \in Node
  BY <1>1 DEF Unused, Node, Room
<1>3. /\ mObservers' = Append(mObservers, new) /\ loops' = loops
      /\ Len(mObservers) < MaxNodes
  BY DEF subscribe
<1>4. /\ mObservers' \in Seq(Node) /\ Len(mObservers') = Len(mObservers) + 1
      /\ \A k \in 1 .. Len(mObservers) : mObservers'[k] = mObservers[k]
      /\ mObservers'[Len(mObservers) + 1] = new
  <2>. HIDE DEF new
  <2>. QED BY <1>2, <1>3 DEF IInv, Shape
<1>5. /\ \A k \in 1 .. Len(mObservers) : mObservers[k].at # new.at
      /\ \A j \in 1 .. Len(loops) : loops[j].at # new.at
  <2>1. new.at \notin Addresses /\ new.at \notin Held
    BY <1>1 DEF Unused
  <2>2. Nodes = 1 .. Len(mObservers) /\ DOMAIN loops = 1 .. Len(loops)
    BY DEF Nodes, IInv, Shape
  <2>. HIDE DEF new
  <2>. QED BY <2>1, <2>2 DEF Addresses, Held
<1>. HIDE DEF new
<1>6. Shape'
  BY <1>3, <1>4, SubjectAssumption DEF IInv, Shape
<1>7. Distinct'
  BY <1>4, <1>5 DEF IInv, Shape, Distinct
<1>8. CalledUpTo'
  <2>. SUFFICES ASSUME NEW j \in 1 .. Len(loops), NEW k \in 1 .. Len(mObservers'),
                       mObservers'[k].at = loops[j].at
                PROVE  loops[j].called = UpTo(k)'
    BY <1>3 DEF CalledUpTo
  <2>1. k \in 1 .. Len(mObservers)
    BY <1>4, <1>5 DEF IInv, Shape
  <2>2. loops[j].called = UpTo(k)
    BY <1>4, <2>1 DEF IInv, CalledUpTo
  <2>3. UpTo(k)' = UpTo(k)
    <3>1. Len(mObservers) \in Nat
      BY DEF IInv, Shape
    <3>2. \A i \in 1 .. k : mObservers'[i].at = mObservers[i].at
      BY <1>4, <2>1, <3>1
    <3>. QED BY <3>2 DEF UpTo
  <2>. QED BY <2>2, <2>3
<1>. QED BY <1>6, <1>7, <1>8 DEF IInv

LEMMA UnsubscribeKeeps ==
  ASSUME IInv, NEW o \in Observers, unsubscribe(o)
  PROVE  IInv'
<1>. DEFINE i == Min(Subscriptions(o))
            a == mObservers[i].at
            n == Len(mObservers)
<1>1. n \in Nat /\ mObservers \in Seq(Node) /\ loops \in Seq(Loop) /\ Len(loops) \in Nat
  BY DEF IInv, Shape
<1>2. i \in 1 .. n
  <2>1. Subscriptions(o) \in SUBSET Nat /\ Subscriptions(o) # {} /\ Subscriptions(o) \subseteq 1 .. n
    BY <1>1 DEF unsubscribe, Subscriptions, Nodes
  <2>. QED BY <2>1, LeastIsIn
<1>3. mObservers' = RemoveAt(mObservers, i)
  BY DEF unsubscribe, Erased
<1>4. loops' = [j \in DOMAIN loops |-> [loops[j] EXCEPT !.called = @ \ {a}]]
  BY DEF unsubscribe
<1>. HIDE DEF i
<1>5. /\ mObservers' \in Seq(Node) /\ Len(mObservers') = n - 1
      /\ \A k \in 1 .. (n - 1) : mObservers'[k] = IF k < i THEN mObservers[k] ELSE mObservers[k + 1]
  BY <1>1, <1>2, <1>3, Removed
<1>6. /\ loops' \in Seq(Loop) /\ Len(loops') = Len(loops)
      /\ \A j \in 1 .. Len(loops) : loops'[j].at = loops[j].at /\ loops'[j].called = loops[j].called \ {a}
  <2>. HIDE DEF a
  <2>1. \A j \in 1 .. Len(loops) : loops[j] \in Loop
    BY <1>1
  <2>2. DOMAIN loops = 1 .. Len(loops)
    BY <1>1
  <2>3. \A j \in 1 .. Len(loops) : [loops[j] EXCEPT !.called = @ \ {a}] \in Loop
    BY <2>1 DEF Loop
  <2>4. loops' \in Seq(Loop) /\ Len(loops') = Len(loops)
    <3>1. loops' \in [1 .. Len(loops) -> Loop]
      BY <1>4, <2>2, <2>3
    <3>. QED BY <1>1, <3>1
  <2>. QED BY <1>4, <2>1, <2>2, <2>4 DEF Loop
<1>7. Shape'
  BY <1>1, <1>5, <1>6, SubjectAssumption DEF IInv, Shape
<1>8. Distinct'
  <2>. SUFFICES ASSUME NEW j \in 1 .. (n - 1), NEW k \in 1 .. (n - 1),
                       mObservers'[j].at = mObservers'[k].at
                PROVE  j = k
    BY <1>5 DEF Distinct
  <2>. DEFINE old(x) == IF x < i THEN x ELSE x + 1
  <2>1. /\ old(j) \in 1 .. n /\ old(k) \in 1 .. n
        /\ mObservers'[j] = mObservers[old(j)] /\ mObservers'[k] = mObservers[old(k)]
    BY <1>1, <1>2, <1>5
  <2>2. old(j) = old(k)
    BY <2>1 DEF IInv, Distinct
  <2>. QED BY <1>1, <1>2, <2>2
<1>9. CalledUpTo'
  <2>. SUFFICES ASSUME NEW j \in 1 .. Len(loops'), NEW k \in 1 .. Len(mObservers'),
                       mObservers'[k].at = loops'[j].at
                PROVE  loops'[j].called = UpTo(k)'
    BY DEF CalledUpTo
  <2>. HIDE DEF a, n
  <2>0. /\ j \in 1 .. Len(loops) /\ k \in 1 .. (n - 1) /\ k \in Nat /\ i \in Nat
        /\ mObservers'[k].at = loops[j].at /\ loops'[j].called = loops[j].called \ {a}
    BY <1>1, <1>2, <1>5, <1>6
  <2>1. \A x \in 1 .. n : mObservers[x].at = a => x = i
    BY <1>2 DEF IInv, Distinct, a, n
  <2>2. CASE k < i
    <3>1. k \in 1 .. n /\ mObservers[k].at = loops[j].at
      BY <1>1, <1>5, <2>0, <2>2
    <3>2. loops[j].called = UpTo(k)
      BY <2>0, <3>1 DEF IInv, CalledUpTo, n
    <3>3. \A x \in 1 .. k : x \in 1 .. n /\ x # i /\ mObservers'[x] = mObservers[x]
      BY SMTT(20), <1>1, <1>2, <1>5, <2>0, <2>2
    <3>4. a \notin UpTo(k)
      BY <2>1, <3>3 DEF UpTo
    <3>5. UpTo(k)' = UpTo(k)
      BY <3>3 DEF UpTo
    <3>. QED BY <2>0, <3>2, <3>4, <3>5
  <2>3. CASE ~(k < i)
    <3>1. k + 1 \in 1 .. n /\ mObservers[k + 1].at = loops[j].at
      BY <1>1, <1>5, <2>0, <2>3
    <3>2. loops[j].called = UpTo(k + 1)
      BY <2>0, <3>1 DEF IInv, CalledUpTo, n
    <3>3. \A x \in 1 .. k : x < i => x \in 1 .. (k + 1) /\ x # i /\ mObservers'[x] = mObservers[x]
      BY <1>1, <1>2, <1>5, <2>0
    <3>4. \A x \in 1 .. k : ~(x < i) => x + 1 \in 1 .. (k + 1) /\ x + 1 # i /\ mObservers'[x] = mObservers[x + 1]
      BY <1>1, <1>2, <1>5, <2>0
    <3>5. UpTo(k)' \subseteq UpTo(k + 1) \ {a}
      <4>1. \A y \in 1 .. (k + 1) : y # i => mObservers[y].at # a
        BY <1>1, <2>0, <2>1
      <4>2. \A x \in 1 .. k : mObservers'[x].at \in UpTo(k + 1) \ {a}
        BY <3>3, <3>4, <4>1 DEF UpTo
      <4>. QED BY <4>2 DEF UpTo
    <3>6. ASSUME NEW x \in 1 .. (k + 1), mObservers[x].at # a
          PROVE  mObservers[x].at \in UpTo(k)'
      <4>1. x # i
        BY <3>6 DEF a
      <4>2. CASE x < i
        <5>1. x \in 1 .. k
          BY <1>1, <1>2, <2>0, <2>3, <4>2
        <5>. QED BY <3>3, <4>2, <5>1 DEF UpTo
      <4>3. CASE ~(x < i)
        <5>1. x - 1 \in 1 .. k /\ ~(x - 1 < i) /\ (x - 1) + 1 = x
          BY <1>1, <1>2, <2>0, <4>1, <4>3
        <5>2. mObservers'[x - 1] = mObservers[x]
          BY <3>4, <5>1
        <5>. QED BY <5>1, <5>2 DEF UpTo
      <4>. QED BY <4>2, <4>3
    <3>7. UpTo(k + 1) \ {a} \subseteq UpTo(k)'
      BY <3>6 DEF UpTo
    <3>. QED BY <2>0, <3>2, <3>5, <3>7
  <2>. QED BY <2>2, <2>3
<1>. QED BY <1>7, <1>8, <1>9 DEF IInv

LEMMA NotifyKeeps ==
  ASSUME IInv, notifyObservers
  PROVE  IInv'
<1>. DEFINE at == mObservers[1].at
            new == [at |-> at, called |-> {at}]
<1>1. /\ mObservers \in Seq(Node) /\ Len(mObservers) \in Nat /\ mObservers # <<>> /\ mObservers' = mObservers
      /\ loops \in Seq(Loop) /\ Len(loops) \in Nat /\ Len(loops) < MaxDepth
      /\ loops' = Append(loops, new)
  BY DEF IInv, Shape, notifyObservers
<1>2. 1 \in 1 .. Len(mObservers)
  BY <1>1
<1>3. at \in Nat
  BY <1>2, AddressesAreNumbers DEF IInv
<1>4. new \in Loop
  BY <1>3 DEF Loop
<1>5. new.at = at /\ new.called = {at}
  OBVIOUS
<1>6. /\ loops' \in Seq(Loop) /\ Len(loops') = Len(loops) + 1
      /\ \A j \in 1 .. Len(loops) : loops'[j] = loops[j]
      /\ loops'[Len(loops) + 1] = new
  <2>. HIDE DEF new
  <2>. QED BY <1>1, <1>4
<1>. HIDE DEF new
<1>7. Shape' /\ Distinct'
  BY <1>1, <1>6, SubjectAssumption DEF IInv, Shape, Distinct
<1>8. CalledUpTo'
  <2>. SUFFICES ASSUME NEW j \in 1 .. Len(loops'), NEW k \in 1 .. Len(mObservers'),
                       mObservers'[k].at = loops'[j].at
                PROVE  loops'[j].called = UpTo(k)'
    BY DEF CalledUpTo
  <2>1. UpTo(k)' = UpTo(k) /\ k \in 1 .. Len(mObservers)
    BY <1>1 DEF UpTo
  <2>2. CASE j \in 1 .. Len(loops)
    BY <1>1, <1>6, <2>1, <2>2 DEF IInv, CalledUpTo
  <2>3. CASE j = Len(loops) + 1
    <3>1. k = 1
      BY <1>1, <1>2, <1>5, <1>6, <2>1, <2>3 DEF IInv, Distinct
    <3>2. UpTo(1) = {at}
      <4>1. \A x \in 1 .. 1 : x = 1
        OBVIOUS
      <4>. QED BY <4>1 DEF UpTo
    <3>. QED BY <1>5, <1>6, <2>1, <2>3, <3>1, <3>2
  <2>. QED BY <1>1, <1>6, <2>2, <2>3
<1>. QED BY <1>7, <1>8 DEF IInv

\* Where the innermost loop stands when its callback returns.
LEMMA ReturnStands ==
  ASSUME IInv, loops # <<>>, Innermost.at \in Addresses
  PROVE  LET k == PositionOf(Innermost.at)
         IN  /\ k \in 1 .. Len(mObservers) /\ mObservers[k].at = Innermost.at
             /\ Innermost.called = UpTo(k)
             /\ Behind(Innermost.at) = {} => k = Len(mObservers)
             /\ Behind(Innermost.at) # {} =>
                  /\ k + 1 \in 1 .. Len(mObservers)
                  /\ Behind(Innermost.at) = {mObservers[k + 1].at}
<1>. DEFINE k == PositionOf(Innermost.at)
<1>1. k \in 1 .. Len(mObservers) /\ mObservers[k].at = Innermost.at
  BY OnePosition DEF IInv
<1>2. Len(loops) \in 1 .. Len(loops) /\ Len(mObservers) \in Nat
  BY DEF IInv, Shape
<1>3. Innermost.called = UpTo(k)
  BY <1>1, <1>2 DEF IInv, CalledUpTo, Innermost
<1>4. Behind(Innermost.at) = IF k < Len(mObservers) THEN {mObservers[k + 1].at} ELSE {}
  BY DEF Behind
<1>. HIDE DEF k
<1>5. CASE k < Len(mObservers)
  <2>1. k + 1 \in 1 .. Len(mObservers)
    BY <1>1, <1>2, <1>5
  <2>. QED BY <1>1, <1>3, <1>4, <1>5, <2>1 DEF k
<1>6. CASE ~(k < Len(mObservers))
  <2>1. k = Len(mObservers)
    BY <1>1, <1>2, <1>6
  <2>. QED BY <1>1, <1>3, <1>4, <1>6, <2>1 DEF k
<1>. QED BY <1>5, <1>6

LEMMA ReturnKeeps ==
  ASSUME IInv, Return
  PROVE  IInv'
<1>1. /\ mObservers \in Seq(Node) /\ Len(mObservers) \in Nat /\ mObservers' = mObservers
      /\ loops \in Seq(Loop) /\ Len(loops) \in Nat /\ loops # <<>>
  BY DEF IInv, Shape, Return
<1>2. CASE loops' = loops
  BY <1>1, <1>2 DEF IInv, Shape, Distinct, CalledUpTo, UpTo
<1>3. CASE loops' = Front(loops)
  <2>1. /\ loops' \in Seq(Loop) /\ Len(loops') = Len(loops) - 1
        /\ \A j \in 1 .. (Len(loops) - 1) : loops'[j] = loops[j]
    BY <1>1, <1>3, Shortened
  <2>2. Shape' /\ Distinct'
    BY <1>1, <2>1, SubjectAssumption DEF IInv, Shape, Distinct
  <2>3. CalledUpTo'
    <3>1. \A j \in 1 .. Len(loops') : j \in 1 .. Len(loops) /\ loops'[j] = loops[j]
      BY <1>1, <2>1
    <3>2. \A k : UpTo(k)' = UpTo(k)
      BY <1>1 DEF UpTo
    <3>. QED BY <1>1, <3>1, <3>2 DEF IInv, CalledUpTo
  <2>. QED BY <2>2, <2>3 DEF IInv
<1>4. CASE loops' # loops /\ loops' # Front(loops)
  <2>. DEFINE k == PositionOf(Innermost.at)
              next == mObservers[k + 1].at
              m == Len(loops)
  <2>1. Innermost.at \in Addresses /\ Behind(Innermost.at) # {}
    BY <1>4 DEF Return
  <2>2. /\ k \in 1 .. Len(mObservers) /\ mObservers[k].at = Innermost.at
        /\ Innermost.called = UpTo(k) /\ k + 1 \in 1 .. Len(mObservers)
        /\ Behind(Innermost.at) = {next}
    BY <1>1, <2>1, ReturnStands
  <2>3. loops' = [loops EXCEPT ![m].at = next, ![m].called = @ \cup {next}]
    BY <2>1, <2>2 DEF Return
  <2>4. m \in 1 .. m /\ Innermost = loops[m] /\ loops[m] \in Loop
    BY <1>1 DEF Innermost
  <2>. HIDE DEF k
  <2>5. next \in Nat
    BY <2>2, AddressesAreNumbers DEF IInv
  <2>. HIDE DEF next
  <2>6. /\ loops' \in Seq(Loop) /\ Len(loops') = m
        /\ \A j \in 1 .. m : j # m => loops'[j] = loops[j]
        /\ loops'[m].at = next /\ loops'[m].called = loops[m].called \cup {next}
    <3>. DEFINE moved == [loops[m] EXCEPT !.at = next, !.called = @ \cup {next}]
    <3>1. moved \in Loop /\ moved.at = next /\ moved.called = loops[m].called \cup {next}
      BY <2>4, <2>5 DEF Loop
    <3>2. loops' = [loops EXCEPT ![m] = moved]
      BY <1>1, <2>3, <2>4 DEF Loop
    <3>. HIDE DEF moved
    <3>. QED BY <1>1, <2>4, <3>1, <3>2
  <2>7. Shape' /\ Distinct'
    BY <1>1, <2>6 DEF IInv, Shape, Distinct
  <2>8. CalledUpTo'
    <3>. SUFFICES ASSUME NEW j \in 1 .. Len(loops'), NEW l \in 1 .. Len(mObservers'),
                         mObservers'[l].at = loops'[j].at
                  PROVE  loops'[j].called = UpTo(l)'
      BY DEF CalledUpTo
    <3>1. UpTo(l)' = UpTo(l) /\ l \in 1 .. Len(mObservers)
      BY <1>1 DEF UpTo
    <3>2. CASE j # m
      BY <1>1, <2>6, <3>1, <3>2 DEF IInv, CalledUpTo
    <3>3. CASE j = m
      <4>1. l = k + 1
        BY <1>1, <2>2, <2>6, <3>1, <3>3 DEF IInv, Distinct, next
      <4>2. \A x \in 1 .. (k + 1) : x \in 1 .. k \/ x = k + 1
        BY <2>2
      <4>3. UpTo(k + 1) = UpTo(k) \cup {next}
        <5>1. UpTo(k + 1) \subseteq UpTo(k) \cup {next}
          BY <4>2 DEF UpTo, next
        <5>2. \A x \in 1 .. k : x \in 1 .. (k + 1)
          BY <2>2
        <5>3. k + 1 \in 1 .. (k + 1)
          BY <2>2
        <5>. QED BY <5>1, <5>2, <5>3 DEF UpTo, next
      <4>. QED BY <2>2, <2>4, <2>6, <3>1, <3>3, <4>1, <4>3
    <3>. QED BY <3>2, <3>3
  <2>. QED BY <2>7, <2>8 DEF IInv
<1>. QED BY <1>2, <1>3, <1>4

LEMMA StepKeeps == IInv /\ [Next]_vars => IInv'
<1>. SUFFICES ASSUME IInv, [Next]_vars PROVE IInv'
  OBVIOUS
<1>1. CASE \E o \in Observers : subscribe(o)
  BY <1>1, SubscribeKeeps
<1>2. CASE \E o \in Observers : unsubscribe(o)
  BY <1>2, UnsubscribeKeeps
<1>3. CASE \E o \in Observers : unsubscribeStranger(o)
  BY <1>3 DEF unsubscribeStranger, IInv, Shape, Distinct, CalledUpTo, UpTo
<1>4. CASE notifyObservers
  BY <1>4, NotifyKeeps
<1>5. CASE Return
  BY <1>5, ReturnKeeps
<1>6. CASE UNCHANGED vars
  BY <1>6 DEF vars, IInv, Shape, Distinct, CalledUpTo, UpTo
<1>. QED BY <1>1, <1>2, <1>3, <1>4, <1>5, <1>6 DEF Next

LEMMA Invariance == Spec => []IInv
<1>1. Init => IInv
  BY SubjectAssumption DEF Init, IInv, Shape, Distinct, CalledUpTo
<1>. QED BY <1>1, StepKeeps, PTL DEF Spec

-----------------------------------------------------------------------------
\* Every running loop of DataStructureUtilities.h:118 whose node still exists has
\* called back the subscriptions up to it and no others, whatever the callbacks of
\* all the loops inside it have subscribed and unsubscribed.
THEOREM EveryLoopHasCalledUpToHere == Spec => []CalledUpToHere
<1>1. IInv => CalledUpToHere
  <2>. SUFFICES ASSUME IInv, NEW j \in DOMAIN loops, loops[j].at \in Addresses
                PROVE  loops[j].called = {mObservers[k].at : k \in 1 .. PositionOf(loops[j].at)}
    BY DEF CalledUpToHere
  <2>1. j \in 1 .. Len(loops)
    BY DEF IInv, Shape
  <2>2. /\ PositionOf(loops[j].at) \in 1 .. Len(mObservers)
        /\ mObservers[PositionOf(loops[j].at)].at = loops[j].at
    BY OnePosition DEF IInv
  <2>. QED BY <2>1, <2>2 DEF IInv, CalledUpTo, UpTo
<1>. QED BY <1>1, Invariance, PTL

\* notifyObservers returns only when all the subscriptions there are by then have
\* been called back in its round.
THEOREM EveryRoundIsComplete == Spec => RoundIsComplete
<1>1. ASSUME IInv, [Next]_vars, Len(loops') < Len(loops)
      PROVE  Innermost.called = Addresses
  <2>1. Len(loops) \in Nat /\ DOMAIN loops = 1 .. Len(loops)
    BY <1>1 DEF IInv, Shape
  <2>2. Return
    <3>1. CASE \E o \in Observers : unsubscribe(o)
      <4>1. PICK a : loops' = [j \in DOMAIN loops |-> [loops[j] EXCEPT !.called = @ \ {a}]]
        BY <3>1 DEF unsubscribe
      <4>2. Len(loops') = Len(loops)
        BY <2>1, <4>1
      <4>. QED BY <1>1, <2>1, <4>2
    <3>2. CASE notifyObservers
      <4>1. Len(loops') = Len(loops) + 1
        BY <1>1, <3>2 DEF notifyObservers, IInv, Shape
      <4>. QED BY <1>1, <2>1, <4>1
    <3>3. CASE loops' = loops
      BY <1>1, <2>1, <3>3
    <3>. QED BY <1>1, <3>1, <3>2, <3>3 DEF Next, subscribe, unsubscribeStranger, vars
  <2>3. loops # <<>> /\ Innermost.at \in Addresses /\ Behind(Innermost.at) = {}
    <3>1. Len([loops EXCEPT ![Len(loops)].at = 0]) = Len(loops)
      BY <1>1 DEF IInv, Shape
    <3>2. \A next : Len([loops EXCEPT ![Len(loops)].at = next,
                                      ![Len(loops)].called = @ \cup {next}]) = Len(loops)
      BY <1>1 DEF IInv, Shape
    <3>. QED BY <1>1, <2>1, <2>2, <3>2 DEF Return
  <2>4. Innermost.called = UpTo(Len(mObservers))
    BY <1>1, <2>3, ReturnStands
  <2>. QED BY <1>1, <2>4 DEF UpTo, Addresses, Nodes, IInv, Shape
<1>2. IInv /\ [Next]_vars => (Len(loops') < Len(loops) => Innermost.called = Addresses)
  BY <1>1
<1>. QED BY <1>2, Invariance, PTL DEF Spec, RoundIsComplete
=============================================================================
