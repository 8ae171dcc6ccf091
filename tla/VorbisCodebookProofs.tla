------------------------- MODULE VorbisCodebookProofs -------------------------
(***************************************************************************)
(* That compute_codewords hands out the leaves of one tree.  Its comment   *)
(* says of the order of the free leaves that it "isn't totally trivial to  *)
(* prove, but it seems true and the assert never fires".                   *)
(*                                                                         *)
(* The free leaves of a building go up while their levels go down, and no  *)
(* code reaches into any of them; a new code and the halves behind it stay *)
(* within the leaf they come from.                                         *)
(***************************************************************************)
EXTENDS VorbisCodebook, SumProofs

Free(y) == y \in Levels /\ available[y] # 0
Apart(a, x, b, y) == a + Span[x] <= b \/ b + Span[y] <= a

Shape ==
  /\ book.len \in Seq(Levels \cup {NoCode})
  /\ i \in Nat
  /\ available \in [Levels -> Nat]
  /\ DOMAIN code \subseteq Coded
  /\ \A s \in DOMAIN code : code[s] \in Nat /\ s < i

\* The free leaf of a deeper level ends before the one of a higher level begins.
LeavesInOrder ==
  \A x, y \in Levels : x < y /\ Free(x) /\ Free(y) => available[y] + Span[y] <= available[x]

CodesOutsideLeaves ==
  \A s \in DOMAIN code, y \in Levels : Free(y) => Apart(code[s], len[s], available[y], y)

TreeInv == Shape /\ LeavesInOrder /\ CodesOutsideLeaves /\ PrefixFree

-----------------------------------------------------------------------------
LEMMA SpansHalve ==
  ASSUME NEW x \in 0 .. Depth, NEW y \in 0 .. Depth, x < y
  PROVE  2 * Span[y] <= Span[x]
<1>1. Depth \in Nat /\ \A z \in 0 .. Depth : Span[z] \in Nat \ {0}
  BY SpanAssumption
<1> DEFINE tooLong == {z \in (x + 1) .. Depth : 2 * Span[z] > Span[x]}
<1>2. SUFFICES ASSUME tooLong # {} PROVE FALSE
  <2>1. y \notin tooLong => 2 * Span[y] <= Span[x]
    BY <1>1
  <2>. QED BY <2>1
<1>3. PICK z \in tooLong : \A w \in tooLong : z <= w
  <2>1. tooLong \subseteq Nat
    BY <1>1
  <2> HIDE DEF tooLong
  <2>. QED BY <1>2, <2>1, Smallest
<1>4. /\ z \in Nat /\ x < z /\ z \in 1 .. Depth /\ z - 1 \in 0 .. Depth
      /\ Span[z] \in Nat /\ Span[z - 1] \in Nat /\ Span[x] \in Nat
      /\ 2 * Span[z] > Span[x] /\ Span[z - 1] = 2 * Span[z]
  BY <1>1, <1>3, SpanAssumption
<1>5. CASE z - 1 = x
  BY <1>4, <1>5
<1>6. CASE z - 1 # x
  <2>1. z - 1 \in tooLong \/ 2 * Span[z - 1] <= Span[x]
    BY <1>1, <1>4, <1>6
  <2>2. z - 1 \notin tooLong
    BY <1>3, <1>4
  <2>. QED BY <1>4, <2>1, <2>2
<1>. QED BY <1>5, <1>6

LEMMA SpanShrinks ==
  /\ Depth \in Nat \ {0}
  /\ \A y \in 0 .. Depth : Span[y] \in Nat \ {0}
  /\ \A y \in Levels : Span[y] \in Nat \ {0}
  /\ \A x, y \in Levels : x < y => 2 * Span[y] <= Span[x]
  /\ \A x, y \in Levels : x <= y => Span[y] <= Span[x]
<1>1. Depth \in Nat \ {0} /\ \A y \in 0 .. Depth : Span[y] \in Nat \ {0}
  BY SpanAssumption
<1>2. Levels \subseteq 0 .. Depth
  BY <1>1 DEF Levels
<1>3. \A x, y \in Levels : x < y => 2 * Span[y] <= Span[x]
  BY <1>2, SpansHalve
<1>4. \A x, y \in Levels : x \in Int /\ y \in Int /\ Span[x] \in Nat /\ Span[y] \in Nat
  BY <1>1, <1>2
<1>5. \A x, y \in Levels : x <= y => Span[y] <= Span[x]
  BY <1>3, <1>4
<1>. QED BY <1>1, <1>2, <1>3, <1>5

LEMMA CodedLevels ==
  ASSUME Shape
  PROVE  /\ \A s \in Coded : s \in Nat /\ len[s] \in Levels
         /\ i \in Coded => len[i] \in Levels
BY DEF Shape, Coded, len

\* What the comment says follows from the order of the leaves.
LEMMA OrderMakesEarliest ==
  ASSUME Shape, LeavesInOrder
  PROVE  LowestIsEarliest
<1>1. SUFFICES ASSUME NEW n \in Levels, NEW z \in LowestLevel(n), NEW y \in 1 .. n, available[y] # 0
               PROVE  available[z] <= available[y]
  BY DEF LowestIsEarliest
<1>2. z \in Levels /\ y \in Levels /\ Free(z) /\ Free(y) /\ y <= z
  BY <1>1, SpanShrinks DEF LowestLevel, Levels, Free
<1>3. available[z] \in Nat /\ available[y] \in Nat /\ Span[z] \in Nat
  BY <1>2, SpanShrinks DEF Shape
<1>4. CASE y = z
  BY <1>3, <1>4
<1>5. CASE y < z
  BY <1>2, <1>3, <1>5 DEF LeavesInOrder
<1>. QED BY <1>2, <1>4, <1>5 DEF Levels

-----------------------------------------------------------------------------
\* The leaf at z, of which a code of n bits takes the lowest part.
LEMMA Halves ==
  ASSUME Shape, LeavesInOrder, NEW n \in Levels, NEW z \in LowestLevel(n)
  PROVE  /\ z \in Levels /\ z <= n /\ Free(z) /\ available[z] \in Nat
         /\ LeavesBehind(z, n) \in [Levels -> Nat]
         /\ \A y \in Levels :
              LeavesBehind(z, n)[y] # 0 =>
                \/ /\ y < z /\ Free(y) /\ LeavesBehind(z, n)[y] = available[y]
                   /\ available[z] + Span[z] <= available[y]
                \/ /\ z < y /\ y <= n /\ LeavesBehind(z, n)[y] = available[z] + Span[y]
                   /\ available[z] + 2 * Span[y] <= available[z] + Span[z]
                \/ /\ n < y /\ Free(y) /\ LeavesBehind(z, n)[y] = available[y]
                   /\ available[y] + Span[y] <= available[z]
<1>1. z \in Levels /\ z <= n /\ Free(z) /\ available[z] \in Nat
  BY SpanShrinks DEF LowestLevel, Levels, Free, Shape
<1>2. LeavesBehind(z, n) \in [Levels -> Nat]
  BY <1>1, SpanShrinks DEF LeavesBehind, Shape
<1>3. ASSUME NEW y \in Levels, LeavesBehind(z, n)[y] # 0
      PROVE  \/ /\ y < z /\ Free(y) /\ LeavesBehind(z, n)[y] = available[y]
                /\ available[z] + Span[z] <= available[y]
             \/ /\ z < y /\ y <= n /\ LeavesBehind(z, n)[y] = available[z] + Span[y]
                /\ available[z] + 2 * Span[y] <= available[z] + Span[z]
             \/ /\ n < y /\ Free(y) /\ LeavesBehind(z, n)[y] = available[y]
                /\ available[y] + Span[y] <= available[z]
  <2>1. y # z /\ y \in Int /\ z \in Int /\ n \in Int
    BY <1>1, <1>3, SpanShrinks DEF LeavesBehind, Levels
  <2>2. CASE y < z
    <3>1. LeavesBehind(z, n)[y] = available[y]
      BY <2>1, <2>2 DEF LeavesBehind
    <3>2. Free(y)
      BY <1>3, <3>1 DEF Free
    <3>. QED BY <1>1, <2>2, <3>1, <3>2 DEF LeavesInOrder
  <2>3. CASE z < y /\ y <= n
    <3>1. LeavesBehind(z, n)[y] = available[z] + Span[y]
      BY <2>1, <2>3 DEF LeavesBehind
    <3>2. 2 * Span[y] <= Span[z] /\ Span[y] \in Nat /\ Span[z] \in Nat
      BY <1>1, <2>3, SpanShrinks
    <3>. QED BY <1>1, <2>3, <3>1, <3>2
  <2>4. CASE n < y
    <3>1. LeavesBehind(z, n)[y] = available[y]
      BY <1>1, <2>1, <2>4 DEF LeavesBehind
    <3>2. Free(y) /\ z < y
      BY <1>1, <1>3, <2>1, <2>4, <3>1 DEF Free
    <3>. QED BY <1>1, <2>4, <3>1, <3>2 DEF LeavesInOrder
  <2>. QED BY <2>1, <2>2, <2>3, <2>4
<1>. QED BY <1>1, <1>2, <1>3

LEMMA AddEntryKeeps ==
  ASSUME TreeInv, AddEntry
  PROVE  TreeInv'
<1>1. PICK z \in LowestLevel(len[i]) : AssignTo(available[z]) /\ available' = LeavesBehind(z, len[i])
  BY DEF AddEntry
<1>2. i \in Coded /\ len[i] \in Levels /\ i \in Nat /\ i' = i + 1 /\ UNCHANGED book /\ i \notin DOMAIN code
  BY CodedLevels DEF AddEntry, TreeInv, Shape
<1> DEFINE n == len[i]
           leaf == available[z]
<1> HIDE DEF n, leaf
<1>3. /\ n \in Levels /\ z \in Levels /\ z <= n /\ Free(z) /\ leaf \in Nat
      /\ available' = LeavesBehind(z, n) /\ available' \in [Levels -> Nat]
      /\ code' = [s \in DOMAIN code \cup {i} |-> IF s = i THEN leaf ELSE code[s]]
  BY <1>1, <1>2, Halves DEF TreeInv, AssignTo, n, leaf
<1>4. \A y \in Levels :
        Free(y)' =>
          /\ available'[y] \in Nat /\ Span[y] \in Nat
          /\ \/ y < z /\ Free(y) /\ available'[y] = available[y] /\ leaf + Span[z] <= available'[y]
             \/ z < y /\ y <= n /\ available'[y] = leaf + Span[y] /\ available'[y] + Span[y] <= leaf + Span[z]
             \/ n < y /\ Free(y) /\ available'[y] = available[y] /\ available'[y] + Span[y] <= leaf
  <2>1. ASSUME NEW y \in Levels, Free(y)'
        PROVE  /\ available'[y] \in Nat /\ Span[y] \in Nat
               /\ \/ y < z /\ Free(y) /\ available'[y] = available[y] /\ leaf + Span[z] <= available'[y]
                  \/ z < y /\ y <= n /\ available'[y] = leaf + Span[y] /\ available'[y] + Span[y] <= leaf + Span[z]
                  \/ n < y /\ Free(y) /\ available'[y] = available[y] /\ available'[y] + Span[y] <= leaf
    <3>1. available'[y] # 0 /\ available'[y] \in Nat /\ Span[y] \in Nat /\ Span[z] \in Nat
      BY <1>3, <2>1, SpanShrinks DEF Free
    <3>2. \/ /\ y < z /\ Free(y) /\ available'[y] = available[y]
             /\ leaf + Span[z] <= available[y]
          \/ /\ z < y /\ y <= n /\ available'[y] = leaf + Span[y]
             /\ leaf + 2 * Span[y] <= leaf + Span[z]
          \/ /\ n < y /\ Free(y) /\ available'[y] = available[y]
             /\ available[y] + Span[y] <= leaf
      BY <1>1, <1>3, <2>1, <3>1, Halves DEF TreeInv, n, leaf
    <3>. QED BY <1>3, <3>1, <3>2
  <2>. QED BY <2>1
<1>5. Shape'
  BY SMTT(20), <1>2, <1>3 DEF TreeInv, Shape, Coded, len
<1>6. LeavesInOrder'
  <2>1. SUFFICES ASSUME NEW x \in Levels, NEW y \in Levels, x < y, Free(x)', Free(y)'
                 PROVE  available'[y] + Span[y] <= available'[x]
    BY DEF LeavesInOrder
  <2>2. x \in Int /\ y \in Int /\ z \in Int /\ n \in Int /\ Span[x] \in Nat /\ Span[y] \in Nat /\ Span[z] \in Nat
        /\ Span[y] + Span[y] <= Span[x]
    BY <1>3, <2>1, SpanShrinks DEF Levels
  <2>3. CASE Free(x) /\ Free(y) /\ available'[x] = available[x] /\ available'[y] = available[y]
    BY <2>1, <2>3 DEF TreeInv, LeavesInOrder
  <2>. QED BY <1>3, <1>4, <2>1, <2>2, <2>3
<1>7. CodesOutsideLeaves'
  <2>1. SUFFICES ASSUME NEW s \in DOMAIN code', NEW y \in Levels, Free(y)'
                 PROVE  Apart(code'[s], len[s], available'[y], y)
    BY <1>2 DEF CodesOutsideLeaves, Apart, len
  <2>2. /\ y \in Int /\ z \in Int /\ n \in Int /\ Span[y] \in Nat /\ Span[z] \in Nat /\ Span[n] \in Nat
        /\ Span[n] <= Span[z] /\ (y <= n => Span[n] <= Span[y])
    BY SMTT(20), <1>3, <2>1, SpanShrinks DEF Levels
  <2>3. CASE s = i
    BY <1>3, <1>4, <2>1, <2>2, <2>3 DEF Apart, n
  <2>4. CASE s # i
    <3>1. s \in DOMAIN code /\ code'[s] = code[s] /\ code[s] \in Nat /\ len[s] \in Levels /\ Span[len[s]] \in Nat
      BY <1>3, <2>1, <2>4, CodedLevels, SpanShrinks DEF TreeInv, Shape
    <3>2. Apart(code[s], len[s], leaf, z)
      BY <1>3, <3>1 DEF TreeInv, CodesOutsideLeaves, leaf
    <3>3. Free(y) /\ available'[y] = available[y] => Apart(code[s], len[s], available[y], y)
      BY <3>1 DEF TreeInv, CodesOutsideLeaves
    <3>. QED BY <1>3, <1>4, <2>1, <2>2, <3>1, <3>2, <3>3 DEF Apart
  <2>. QED BY <2>3, <2>4
<1>8. PrefixFree'
  <2>1. ASSUME NEW s \in DOMAIN code, NEW t \in DOMAIN code, s # t
        PROVE  Apart(code[s], len[s], code[t], len[t])
    BY <2>1 DEF TreeInv, PrefixFree, Apart
  <2>2. ASSUME NEW s \in DOMAIN code
        PROVE  Apart(code[s], len[s], leaf, n)
    <3>1. code[s] \in Nat /\ Span[len[s]] \in Nat /\ Span[n] \in Nat /\ Span[z] \in Nat /\ Span[n] <= Span[z]
      BY <1>3, <2>2, CodedLevels, SpanShrinks DEF TreeInv, Shape
    <3>2. Apart(code[s], len[s], leaf, z)
      BY <1>3, <2>2 DEF TreeInv, CodesOutsideLeaves, leaf
    <3>. QED BY <1>3, <3>1, <3>2 DEF Apart
  <2>3. SUFFICES ASSUME NEW s \in DOMAIN code', NEW t \in DOMAIN code', s # t
                 PROVE  Apart(code'[s], len[s], code'[t], len[t])
    BY <1>2 DEF PrefixFree, Apart, len
  <2>4. CASE s # i /\ t # i
    BY <1>3, <2>1, <2>3, <2>4
  <2>5. CASE s = i /\ t # i
    BY <1>3, <2>2, <2>3, <2>5 DEF Apart, n
  <2>6. CASE s # i /\ t = i
    BY <1>3, <2>2, <2>3, <2>6 DEF Apart, n
  <2>. QED BY <2>3, <2>4, <2>5, <2>6
<1>. QED BY <1>5, <1>6, <1>7, <1>8 DEF TreeInv

LEMMA FirstEntryKeeps ==
  ASSUME TreeInv, FirstEntry
  PROVE  TreeInv'
<1>1. /\ i \in Coded /\ len[i] \in Levels /\ i \in Nat /\ i' = i + 1 /\ UNCHANGED book
      /\ DOMAIN code = {} /\ code' = [s \in {i} |-> 0]
      /\ available' = [y \in Levels |-> IF y <= len[i] THEN Span[y] ELSE 0]
  BY CodedLevels DEF FirstEntry, TreeInv, Shape, AssignTo
<1>2. Shape'
  BY <1>1, SpanShrinks DEF TreeInv, Shape, Coded, len
<1>3. \A y \in Levels : Free(y)' => y <= len[i] /\ available'[y] = Span[y] /\ Span[y] \in Nat
  BY <1>1, SpanShrinks DEF Free
<1>4. LeavesInOrder'
  BY <1>3, SpanShrinks DEF LeavesInOrder
<1>5. CodesOutsideLeaves'
  <2>1. SUFFICES ASSUME NEW y \in Levels, Free(y)'
                 PROVE  0 + Span[len[i]] <= available'[y]
    BY <1>1 DEF CodesOutsideLeaves, Apart, len
  <2>. QED BY <1>1, <1>3, <2>1, SpanShrinks
<1>6. PrefixFree'
  BY <1>1 DEF PrefixFree
<1>. QED BY <1>2, <1>4, <1>5, <1>6 DEF TreeInv

LEMMA TreeInvStep ==
  ASSUME TreeInv, [Next]_vars
  PROVE  TreeInv'
<1>1. CASE UNCHANGED <<book, available, code>> /\ (i' = i \/ i' = i + 1)
  BY <1>1 DEF TreeInv, Shape, Free, LeavesInOrder, CodesOutsideLeaves, PrefixFree, Apart, Coded, len
<1>2. CASE AddEntry
  BY <1>2, AddEntryKeeps
<1>3. CASE FirstEntry
  BY <1>3, FirstEntryKeeps
<1>. QED BY <1>1, <1>2, <1>3 DEF Next, Build, SkipEntry, Refuse, Finish, Decode, GetBits, vars, tree

LEMMA TreeInvAlways == Spec => []TreeInv
<1>1. Init => TreeInv
  BY BooksAssumption, SpanShrinks
     DEF Init, TreeInv, Shape, LeavesInOrder, CodesOutsideLeaves, PrefixFree, Free, Coded, len, Levels
<1>. QED BY <1>1, TreeInvStep, PTL DEF Spec

\* For words of every width and books of every length: whatever lengths the setup
\* packet gives, no codeword begins another one.
THEOREM CodesArePrefixFree == Spec => []PrefixFree
BY TreeInvAlways, PTL DEF TreeInv

\* The search for a free leaf takes the lowest one, as its comment claims.
THEOREM FirstLeafIsEarliest == Spec => []LowestIsEarliest
<1>1. TreeInv => LowestIsEarliest
  BY OrderMakesEarliest DEF TreeInv
<1>. QED BY <1>1, TreeInvAlways, PTL

-----------------------------------------------------------------------------
(***************************************************************************)
(* Kraft's inequality.  The words of the codes and those of the free       *)
(* leaves are all words there are: a code takes as many from its leaf as   *)
(* the halves behind it do not.  When no leaf of a level is free, nor one  *)
(* above, the free ones below it have less words than a leaf of it has.    *)
(***************************************************************************)
FreeWords(leaves) == [y \in Levels |-> IF leaves[y] = 0 THEN 0 ELSE Span[y]]

Shared == SumFunctionOnSet(Words, DOMAIN code) + SumFunctionOnSet(FreeWords(available), Levels) = Span[0]

KraftInv ==
  /\ outcome = "building" => DOMAIN code = {s \in Coded : s < i}
  /\ DOMAIN code # {} => Shared
  /\ KraftDecides

LEMMA LevelsAre == /\ IsFiniteSet(Levels)
                   /\ \A y \in Levels : y \in Nat /\ y > 0 /\ y < Depth
<1>1. Depth \in Nat
  BY SpanShrinks
<1>. QED BY <1>1, FS_Interval DEF Levels

\* The leaves on the way from level a down to level m.
LEMMA Halving ==
  ASSUME NEW a \in 0 .. Depth, NEW m \in a .. Depth,
         NEW f, \A y \in (a + 1) .. m : f[y] = Span[y]
  PROVE  SumFunctionOnSet(f, (a + 1) .. m) = Span[a] - Span[m]
<1>1. Depth \in Nat /\ a \in Nat /\ m \in Nat /\ \A z \in 0 .. Depth : Span[z] \in Nat
  BY SpanShrinks
<1> DEFINE Sum(k) == SumFunctionOnSet(f, (a + 1) .. k)
           off == {k \in a .. m : Sum(k) # Span[a] - Span[k]}
<1>2. SUFFICES ASSUME off # {} PROVE FALSE
  BY <1>1
<1>3. PICK k \in off : \A j \in off : k <= j
  <2>1. off \subseteq Nat
    BY <1>1
  <2> HIDE DEF off
  <2>. QED BY <1>2, <2>1, Smallest
<1>4. k \in a .. m /\ k \in Nat /\ Span[k] \in Nat /\ Span[a] \in Nat
  BY <1>1, <1>3
<1>5. k # a
  <2>1. (a + 1) .. a = {}
    BY <1>1
  <2>2. Sum(a) = 0
    BY <2>1, SumOfNone
  <2>3. Sum(a) = Span[a] - Span[a]
    BY <1>4, <2>2
  <2>. QED BY <1>3, <2>3
<1>6. /\ k - 1 \in a .. m /\ k \in (a + 1) .. k /\ ((a + 1) .. k) \ {k} = (a + 1) .. (k - 1)
      /\ k \in 1 .. Depth
  BY <1>1, <1>4, <1>5
<1>7. Sum(k - 1) = Span[a] - Span[k - 1]
  <2>1. k - 1 \notin off
    BY <1>3, <1>4
  <2>. QED BY <1>6, <2>1
<1>8. \A y \in (a + 1) .. k : f[y] = Span[y] /\ f[y] \in Int
  BY <1>1, <1>4
<1>9. Sum(k) = f[k] + Sum(k - 1)
  <2>1. IsFiniteSet((a + 1) .. k)
    BY <1>1, <1>4, FS_Interval
  <2>. QED BY <1>6, <1>8, <2>1, SumOfOneMore
<1>10. f[k] = Span[k] /\ Span[k - 1] = 2 * Span[k]
  BY <1>6, <1>8, SpanAssumption
<1>11. Sum(k) # Span[a] - Span[k]
  BY <1>3
<1> HIDE DEF Sum
<1>. QED BY <1>4, <1>7, <1>9, <1>10, <1>11

LEMMA LeavesOnTheWay ==
  ASSUME NEW a \in 0 .. Depth, NEW m \in Levels, a <= m,
         NEW f, \A y \in Levels : f[y] = IF a < y /\ y <= m THEN Span[y] ELSE 0
  PROVE  SumFunctionOnSet(f, Levels) = Span[a] - Span[m]
<1>1. /\ Depth \in Nat /\ a \in Nat /\ m \in Nat /\ m \in a .. Depth
      /\ Span[a] \in Nat /\ Span[m] \in Nat
  BY SpanShrinks, LevelsAre
<1> DEFINE way == (a + 1) .. m
<1>2. way \in SUBSET Levels /\ IsFiniteSet(Levels \ way)
  BY <1>1, LevelsAre, FS_Subset DEF Levels
<1>3. (\A y \in way : f[y] = Span[y]) /\ (\A y \in Levels \ way : f[y] = 0)
  BY <1>1, <1>2, LevelsAre
<1>4. IsFiniteSet(Levels) /\ \A y \in Levels : f[y] \in Int
  BY LevelsAre, SpanShrinks
<1>5. SumFunctionOnSet(f, Levels) = SumFunctionOnSet(f, way) + SumFunctionOnSet(f, Levels \ way)
  <2> HIDE DEF way
  <2>. QED BY <1>2, <1>4, SumOfParts
<1>6. SumFunctionOnSet(f, Levels \ way) = 0
  BY <1>2, <1>3, SumOfZeros
<1>7. SumFunctionOnSet(f, way) = Span[a] - Span[m]
  BY <1>1, <1>3, Halving
<1>. QED BY <1>1, <1>5, <1>6, <1>7

\* Of T, f counts only x, and g all but x; otherwise they are the same.
Exchanges(f, g, S, T, x) ==
  /\ IsFiniteSet(S) /\ T \subseteq S /\ x \in T
  /\ \A y \in S : f[y] \in Int /\ g[y] \in Int
  /\ \A y \in S \ T : f[y] = g[y]
  /\ \A y \in T \ {x} : f[y] = 0
  /\ g[x] = 0

LEMMA SumsApart ==
  ASSUME NEW f, NEW g, NEW S, NEW T, NEW x, Exchanges(f, g, S, T, x)
  PROVE  SumFunctionOnSet(f, S) = SumFunctionOnSet(g, S) - SumFunctionOnSet(g, T \ {x}) + f[x]
<1>1. PICK R, W : R = S \ T /\ W = T \ {x}
  OBVIOUS
<1> USE DEF Exchanges
<1>2. IsFiniteSet(R) /\ IsFiniteSet(W) /\ IsFiniteSet(T)
  BY <1>1, FS_Subset
<1>3. \A h : (\A y \in S : h[y] \in Int) =>
               /\ SumFunctionOnSet(h, S) = SumFunctionOnSet(h, T) + SumFunctionOnSet(h, R)
               /\ SumFunctionOnSet(h, T) = h[x] + SumFunctionOnSet(h, W)
               /\ SumFunctionOnSet(h, R) \in Int /\ SumFunctionOnSet(h, W) \in Int /\ h[x] \in Int
  <2>1. SUFFICES ASSUME NEW h, \A y \in S : h[y] \in Int
                 PROVE  /\ SumFunctionOnSet(h, S) = SumFunctionOnSet(h, T) + SumFunctionOnSet(h, R)
                        /\ SumFunctionOnSet(h, T) = h[x] + SumFunctionOnSet(h, W)
                        /\ SumFunctionOnSet(h, R) \in Int /\ SumFunctionOnSet(h, W) \in Int /\ h[x] \in Int
    OBVIOUS
  <2>2. SumFunctionOnSet(h, S) = SumFunctionOnSet(h, T) + SumFunctionOnSet(h, R)
    BY <1>1, <2>1, SumOfParts
  <2>3. (\A y \in T : h[y] \in Int) /\ (\A y \in R : h[y] \in Int) /\ (\A y \in W : h[y] \in Int) /\ h[x] \in Int
    BY <1>1, <2>1
  <2>4. SumFunctionOnSet(h, T) = h[x] + SumFunctionOnSet(h, W)
    BY <1>1, <1>2, <2>3, SumOfOneMore
  <2>5. SumFunctionOnSet(h, R) \in Int /\ SumFunctionOnSet(h, W) \in Int
    BY <1>2, <2>3, SumIsInt
  <2>. QED BY <2>2, <2>3, <2>4, <2>5
<1>4. SumFunctionOnSet(f, R) = SumFunctionOnSet(g, R)
  <2>1. \A y \in R : f[y] \in Int /\ f[y] = g[y]
    BY <1>1
  <2>. QED BY <1>2, <2>1, SumOfEquals
<1>5. SumFunctionOnSet(f, W) = 0
  <2>1. \A y \in W : f[y] = 0
    BY <1>1
  <2>. QED BY <1>2, <2>1, SumOfZeros
<1>6. /\ SumFunctionOnSet(f, S) = f[x] + 0 + SumFunctionOnSet(f, R)
      /\ SumFunctionOnSet(f, R) \in Int /\ f[x] \in Int
  BY <1>3, <1>5
<1>7. /\ SumFunctionOnSet(g, S) = 0 + SumFunctionOnSet(g, W) + SumFunctionOnSet(g, R)
      /\ SumFunctionOnSet(g, R) \in Int /\ SumFunctionOnSet(g, W) \in Int
  BY <1>3
<1>. QED BY <1>1, <1>4, <1>6, <1>7

\* A leaf at z becomes those of the halves that are left of it.
LEMMA HalvesAreShared ==
  ASSUME NEW leaves \in [Levels -> Nat], NEW more \in [Levels -> Nat], NEW n \in Levels, NEW z \in 1 .. n,
         leaves[z] # 0, more[z] = 0,
         \A y \in (z + 1) .. n : leaves[y] = 0 /\ more[y] # 0,
         \A y \in Levels : y < z \/ n < y => more[y] = leaves[y]
  PROVE  SumFunctionOnSet(FreeWords(leaves), Levels) = SumFunctionOnSet(FreeWords(more), Levels) + Span[n]
<1>1. Depth \in Nat /\ n \in Nat /\ z \in Nat /\ z <= n /\ z \in Levels /\ n < Depth /\ 1 <= z
  BY LevelsAre, SpanShrinks DEF Levels
<1>2. PICK f, g, way, T : /\ f = FreeWords(leaves) /\ g = FreeWords(more)
                          /\ way = (z + 1) .. n /\ T = z .. n
  OBVIOUS
<1>3. T \in SUBSET Levels /\ z \in T /\ T \ {z} = way
  <2>1. \A y \in T : y \in 1 .. (Depth - 1)
    BY <1>1, <1>2
  <2>2. \A y : y \in way <=> y \in T /\ y # z
    BY <1>1, <1>2
  <2>. QED BY <1>1, <1>2, <2>1, <2>2 DEF Levels
<1>4. (\A y \in Levels : f[y] \in Int) /\ (\A y \in Levels : g[y] \in Int)
  BY <1>2, SpanShrinks DEF FreeWords
<1>5. f[z] = Span[z] /\ g[z] = 0
  BY <1>1, <1>2 DEF FreeWords
<1>6. \A y \in way : y \in Levels /\ f[y] = 0 /\ g[y] = Span[y]
  <2>1. \A y \in way : y \in Levels /\ leaves[y] = 0 /\ more[y] # 0
    BY <1>2, <1>3
  <2>. QED BY <1>2, <2>1 DEF FreeWords
<1>7. \A y \in Levels \ T : f[y] = g[y]
  <2>1. \A y \in Levels \ T : y < z \/ n < y
    BY <1>1, <1>2, LevelsAre
  <2>2. \A y \in Levels \ T : leaves[y] = more[y]
    BY <2>1
  <2>. QED BY <1>2, <2>2 DEF FreeWords
<1>8. SumFunctionOnSet(g, way) = Span[z] - Span[n]
  <2>1. z \in 0 .. Depth /\ n \in z .. Depth
    BY <1>1
  <2>2. \A y \in (z + 1) .. n : g[y] = Span[y]
    BY <1>2, <1>6
  <2>3. SumFunctionOnSet(g, (z + 1) .. n) = Span[z] - Span[n]
    BY <2>1, <2>2, Halving
  <2>. QED BY <1>2, <2>3
<1>9. SumFunctionOnSet(f, Levels) = SumFunctionOnSet(g, Levels) - SumFunctionOnSet(g, way) + f[z]
  <2>1. IsFiniteSet(Levels) /\ \A y \in T \ {z} : f[y] = 0
    BY <1>3, <1>6, LevelsAre
  <2>2. SumFunctionOnSet(f, Levels) = SumFunctionOnSet(g, Levels) - SumFunctionOnSet(g, T \ {z}) + f[z]
    <3>1. Exchanges(f, g, Levels, T, z)
      BY <1>3, <1>4, <1>5, <1>7, <2>1 DEF Exchanges
    <3>. QED BY <3>1, SumsApart
  <2>. QED BY <1>3, <2>2
<1>10. SumFunctionOnSet(g, Levels) \in Int /\ Span[z] \in Int /\ Span[n] \in Int
  <2>1. IsFiniteSet(Levels)
    BY LevelsAre
  <2>2. SumFunctionOnSet(g, Levels) \in Int
    BY <1>4, <2>1, SumIsInt
  <2>3. Span[z] \in Int /\ Span[n] \in Int
    BY <1>1, SpanShrinks
  <2>. QED BY <2>2, <2>3
<1>. QED BY <1>2, <1>5, <1>8, <1>9, <1>10

LEMMA FreeWordsFit ==
  ASSUME NEW leaves \in [Levels -> Nat]
  PROVE  /\ SumFunctionOnSet(FreeWords(leaves), Levels) \in Int
         /\ SumFunctionOnSet(FreeWords(leaves), Levels) >= 0
         /\ \A n \in Levels : (\A y \in 1 .. n : leaves[y] = 0) =>
                                SumFunctionOnSet(FreeWords(leaves), Levels) < Span[n]
<1> DEFINE f == FreeWords(leaves)
           none == [y \in Levels |-> 0]
<1>1. /\ \A y \in Levels : f[y] \in Int /\ f[y] >= 0 /\ f[y] <= Span[y] /\ Span[y] \in Int
      /\ \A y \in Levels : leaves[y] = 0 => f[y] = 0
  BY SpanShrinks DEF FreeWords
<1> HIDE DEF f
<1>2. SumFunctionOnSet(f, Levels) \in Int
  BY <1>1, LevelsAre, SumIsInt
<1>3. SumFunctionOnSet(f, Levels) >= 0
  <2>1. SumFunctionOnSet(none, Levels) = 0
    BY LevelsAre, SumOfZeros
  <2>2. SumFunctionOnSet(none, Levels) <= SumFunctionOnSet(f, Levels)
    BY <1>1, LevelsAre, SumIsAtMost
  <2>. QED BY <1>2, <2>1, <2>2
<1>4. ASSUME NEW n \in Levels, \A y \in 1 .. n : leaves[y] = 0
      PROVE  SumFunctionOnSet(f, Levels) < Span[n]
  <2> DEFINE below == [y \in Levels |-> IF n < y THEN Span[y] ELSE 0]
             last == Depth - 1
  <2>1. Depth \in Nat /\ n \in Nat /\ last \in Levels /\ n <= last /\ n \in 0 .. Depth
    BY LevelsAre, SpanShrinks DEF Levels
  <2>2. \A y \in Levels : below[y] = IF n < y /\ y <= last THEN Span[y] ELSE 0
    BY <2>1, LevelsAre DEF Levels
  <2>3. SumFunctionOnSet(below, Levels) = Span[n] - Span[last]
    <3> HIDE DEF below, last
    <3>. QED BY <2>1, <2>2, LeavesOnTheWay
  <2>4. \A y \in Levels : f[y] \in Int /\ below[y] \in Int /\ f[y] <= below[y]
    <3>1. \A y \in Levels : ~(n < y) => y \in 1 .. n
      BY <2>1, LevelsAre
    <3>. QED BY <1>1, <1>4, <3>1
  <2>5. SumFunctionOnSet(f, Levels) <= SumFunctionOnSet(below, Levels)
    <3> HIDE DEF below
    <3>. QED BY <2>4, LevelsAre, SumIsAtMost
  <2>6. Span[n] \in Int /\ Span[last] \in Int /\ Span[last] > 0
    BY <2>1, SpanShrinks
  <2>. QED BY <1>2, <2>3, <2>5, <2>6
<1>5. \A n \in Levels : (\A y \in 1 .. n : leaves[y] = 0) => SumFunctionOnSet(f, Levels) < Span[n]
  BY <1>4
<1>. QED BY <1>2, <1>3, <1>5 DEF f

-----------------------------------------------------------------------------
LEMMA WordsFit ==
  ASSUME TreeInv
  PROVE  /\ \A s \in Coded : Words[s] = Span[len[s]] /\ Words[s] \in Int
         /\ \A S \in SUBSET Coded : IsFiniteSet(S) /\ SumFunctionOnSet(Words, S) \in Int
         /\ DOMAIN code \in SUBSET Coded
<1>1. \A s \in Coded : len[s] \in Levels
  BY CodedLevels DEF TreeInv
<1>2. \A s \in Coded : Words[s] = Span[len[s]] /\ Words[s] \in Int
  BY <1>1, SpanShrinks DEF Words
<1>3. IsFiniteSet(Coded) /\ DOMAIN code \in SUBSET Coded
  <2>1. Len(len) \in Nat /\ Coded \subseteq 1 .. Len(len)
    BY DEF TreeInv, Shape, Coded, len
  <2>2. IsFiniteSet(1 .. Len(len))
    BY <2>1, FS_Interval
  <2>3. IsFiniteSet(Coded)
    BY <2>1, <2>2, FS_Subset
  <2>4. DOMAIN code \in SUBSET Coded
    BY DEF TreeInv, Shape
  <2>. QED BY <2>3, <2>4
<1>4. \A S \in SUBSET Coded : IsFiniteSet(S) /\ SumFunctionOnSet(Words, S) \in Int
  BY <1>2, <1>3, FS_Subset, SumIsInt
<1>. QED BY <1>2, <1>3, <1>4

\* The entry that is next takes its words.
LEMMA OneMoreCode ==
  ASSUME TreeInv, i \in Coded
  PROVE  /\ DOMAIN code \cup {i} \in SUBSET Coded
         /\ SumFunctionOnSet(Words, DOMAIN code \cup {i}) = Span[len[i]] + SumFunctionOnSet(Words, DOMAIN code)
         /\ Span[len[i]] \in Nat /\ len[i] \in Levels
<1> DEFINE S == DOMAIN code \cup {i}
<1>1. DOMAIN code \in SUBSET Coded /\ i \notin DOMAIN code
  BY WordsFit DEF TreeInv, Shape
<1>2. S \in SUBSET Coded /\ S \ {i} = DOMAIN code /\ i \in S /\ IsFiniteSet(S)
  BY <1>1, WordsFit
<1>3. (\A s \in S : Words[s] \in Int) /\ Words[i] = Span[len[i]]
  BY <1>2, WordsFit
<1> HIDE DEF S
<1>4. SumFunctionOnSet(Words, S) = Words[i] + SumFunctionOnSet(Words, S \ {i})
  BY <1>2, <1>3, SumOfOneMore
<1>5. len[i] \in Levels /\ Span[len[i]] \in Nat
  BY CodedLevels, SpanShrinks DEF TreeInv
<1>. QED BY <1>2, <1>3, <1>4, <1>5 DEF S

\* The codes so far and the one that is next.
LEMMA NextOfCodes ==
  ASSUME TreeInv, DOMAIN code = {s \in Coded : s < i}
  PROVE  /\ i \in Coded => DOMAIN code \cup {i} = {s \in Coded : s < i + 1} /\ DOMAIN code \cup {i} = {s \in Coded : s <= i}
         /\ i \notin Coded => DOMAIN code = {s \in Coded : s < i + 1}
<1>1. i \in Nat /\ \A s \in Coded : s \in Nat
  BY CodedLevels DEF TreeInv, Shape
<1>2. \A s \in Coded : (s < i + 1 <=> s < i \/ s = i) /\ (s <= i <=> s < i \/ s = i)
  BY <1>1
<1>. QED BY <1>2

LEMMA KraftStep ==
  ASSUME TreeInv, KraftInv, [Next]_vars
  PROVE  KraftInv'
<1>1. CASE UNCHANGED tree
  BY <1>1 DEF tree, KraftInv, Shared, KraftDecides, Words, Coded, len, FreeWords
<1>2. CASE SkipEntry
  <2>1. i \notin Coded /\ i' = i + 1 /\ outcome' = "building" /\ DOMAIN code = {s \in Coded : s < i}
    BY <1>2 DEF SkipEntry, Coded, KraftInv
  <2>2. Coded' = Coded /\ code' = code /\ Words' = Words /\ available' = available
    BY <1>2 DEF SkipEntry, Coded, Words, len
  <2>3. DOMAIN code = {s \in Coded : s < i + 1}
    BY <2>1, NextOfCodes
  <2>. QED BY <2>1, <2>2, <2>3 DEF KraftInv, Shared, KraftDecides, FreeWords
<1>3. CASE FirstEntry
  <2>1. /\ i \in Coded /\ i' = i + 1 /\ outcome' = "building" /\ DOMAIN code = {s \in Coded : s < i}
        /\ DOMAIN code = {} /\ DOMAIN code' = DOMAIN code \cup {i}
        /\ available' = [y \in Levels |-> IF y <= len[i] THEN Span[y] ELSE 0]
    BY <1>3 DEF FirstEntry, AssignTo, KraftInv
  <2>2. Coded' = Coded /\ Words' = Words
    BY <1>3 DEF FirstEntry, Coded, Words, len
  <2>3. DOMAIN code' = {s \in Coded : s < i + 1}
    BY <2>1, NextOfCodes
  <2>4. SumFunctionOnSet(Words, DOMAIN code') = Span[len[i]] /\ len[i] \in Levels /\ Span[len[i]] \in Nat
    <3>1. SumFunctionOnSet(Words, DOMAIN code) = 0
      BY <2>1, SumOfNone
    <3>2. SumFunctionOnSet(Words, DOMAIN code') = Span[len[i]] + SumFunctionOnSet(Words, DOMAIN code)
      BY <2>1, OneMoreCode
    <3>3. len[i] \in Levels /\ Span[len[i]] \in Nat
      BY <2>1, OneMoreCode
    <3>. QED BY <3>1, <3>2, <3>3
  <2>5. PICK n, f : n = len[i] /\ f = FreeWords(available')
    OBVIOUS
  <2>6. \A y \in Levels : f[y] = IF 0 < y /\ y <= n THEN Span[y] ELSE 0
    BY <2>1, <2>5, LevelsAre, SpanShrinks DEF FreeWords
  <2>7. SumFunctionOnSet(f, Levels) = Span[0] - Span[n]
    <3>1. 0 \in 0 .. Depth /\ n \in Levels /\ 0 <= n
      BY <2>4, <2>5, LevelsAre, SpanShrinks
    <3>. QED BY <2>6, <3>1, LeavesOnTheWay
  <2>8. Span[0] \in Nat
    BY SpanShrinks
  <2>9. SumFunctionOnSet(Words, DOMAIN code') + SumFunctionOnSet(f, Levels) = Span[0]
    BY <2>4, <2>5, <2>7, <2>8
  <2>10. Shared'
    BY <2>2, <2>5, <2>9 DEF Shared
  <2>. QED BY <2>1, <2>2, <2>3, <2>10 DEF KraftInv, KraftDecides
<1>4. CASE AddEntry
  <2>1. PICK z \in LowestLevel(len[i]) : AssignTo(available[z]) /\ available' = LeavesBehind(z, len[i])
    BY <1>4 DEF AddEntry
  <2>2. /\ i \in Coded /\ i' = i + 1 /\ outcome' = "building" /\ DOMAIN code = {s \in Coded : s < i}
        /\ DOMAIN code # {} /\ DOMAIN code' = DOMAIN code \cup {i}
    BY <1>4, <2>1 DEF AddEntry, AssignTo, KraftInv
  <2>3. Coded' = Coded /\ Words' = Words
    BY <1>4 DEF AddEntry, Coded, Words, len
  <2>4. DOMAIN code' = {s \in Coded : s < i + 1}
    BY <2>2, NextOfCodes
  <2>5. PICK n : n = len[i]
    OBVIOUS
  <2>6. /\ SumFunctionOnSet(Words, DOMAIN code') = Span[n] + SumFunctionOnSet(Words, DOMAIN code)
        /\ n \in Levels /\ Span[n] \in Nat
    BY <2>2, <2>5, OneMoreCode
  <2>7. z \in Levels /\ z <= n /\ available[z] \in Nat /\ available[z] # 0 /\ available' \in [Levels -> Nat]
    BY <2>1, <2>5, <2>6, Halves DEF TreeInv, Free
  <2>8. /\ available'[z] = 0
        /\ \A y \in (z + 1) .. n : available[y] = 0 /\ available'[y] # 0
        /\ \A y \in Levels : y < z \/ n < y => available'[y] = available[y]
    <3>1. \A y \in (z + 1) .. n : y \in Levels /\ y # z /\ z < y /\ y <= n
      <4>1. Depth \in Nat /\ n \in Nat /\ z \in Nat /\ n < Depth /\ z > 0
        BY <2>6, <2>7, LevelsAre, SpanShrinks
      <4>. QED BY <4>1 DEF Levels
    <3>2. \A y \in Levels : Span[y] \in Nat /\ Span[y] > 0
      BY SpanShrinks
    <3>3. \A y \in (z + 1) .. n : available[y] = 0
      BY <2>1, <2>5 DEF LowestLevel
    <3>4. \A y \in (z + 1) .. n : available'[y] = available[z] + Span[y]
      BY <2>1, <2>5, <3>1 DEF LeavesBehind
    <3>5. \A y \in Levels : y < z \/ n < y => y # z /\ ~(z < y /\ y <= n)
      BY <2>6, <2>7, LevelsAre
    <3>6. \A y \in Levels : y < z \/ n < y => available'[y] = available[y]
      BY <2>1, <2>5, <3>5 DEF LeavesBehind
    <3>7. available'[z] = 0
      BY <2>1, <2>7 DEF LeavesBehind
    <3>. QED BY <2>7, <3>1, <3>2, <3>3, <3>4, <3>6, <3>7
  <2>9. PICK leaves, more : leaves = available /\ more = available'
    OBVIOUS
  <2>10. SumFunctionOnSet(FreeWords(leaves), Levels) = SumFunctionOnSet(FreeWords(more), Levels) + Span[n]
    <3>1. z \in 1 .. n /\ leaves \in [Levels -> Nat] /\ more \in [Levels -> Nat]
      BY <2>6, <2>7, <2>9, LevelsAre DEF TreeInv, Shape
    <3>. QED BY <2>6, <2>7, <2>8, <2>9, <3>1, HalvesAreShared
  <2>11. SumFunctionOnSet(Words, DOMAIN code) + SumFunctionOnSet(FreeWords(leaves), Levels) = Span[0]
    BY <2>2, <2>9 DEF KraftInv, Shared
  <2>12. /\ SumFunctionOnSet(Words, DOMAIN code) \in Int
         /\ SumFunctionOnSet(FreeWords(more), Levels) \in Int
    BY <2>7, <2>9, WordsFit, FreeWordsFit
  <2>13. SumFunctionOnSet(Words, DOMAIN code') + SumFunctionOnSet(FreeWords(more), Levels) = Span[0]
    BY <2>6, <2>10, <2>11, <2>12
  <2>14. Shared'
    BY <2>3, <2>9, <2>13 DEF Shared
  <2>. QED BY <2>2, <2>3, <2>4, <2>14 DEF KraftInv, KraftDecides
<1>5. CASE Refuse
  <2>1. /\ i \in Coded /\ DOMAIN code # {} /\ LowestLevel(len[i]) = {} /\ DOMAIN code = {s \in Coded : s < i}
        /\ Shared /\ outcome' = "refused"
    BY <1>5 DEF Refuse, KraftInv
  <2>2. Coded' = Coded /\ Words' = Words /\ code' = code /\ available' = available /\ i' = i
    BY <1>5 DEF Refuse, Coded, Words, len
  <2>3. PICK n : n = len[i]
    OBVIOUS
  <2>4. /\ SumFunctionOnSet(Words, {s \in Coded : s <= i}) = Span[n] + SumFunctionOnSet(Words, DOMAIN code)
        /\ n \in Levels /\ Span[n] \in Nat
    BY <2>1, <2>3, OneMoreCode, NextOfCodes
  <2>5. \A y \in 1 .. n : available[y] = 0
    <3> DEFINE full == {y \in 1 .. n : available[y] # 0}
    <3>1. SUFFICES ASSUME full # {} PROVE FALSE
      OBVIOUS
    <3>2. n \in Nat /\ \A y \in full : y \in Nat /\ y <= n
      BY <2>4, LevelsAre
    <3>3. PICK z \in full : \A y \in full : y <= z
      <4> DEFINE depths == {n - y : y \in full}
      <4>1. depths \subseteq Nat /\ depths # {}
        BY <3>1, <3>2
      <4> HIDE DEF depths
      <4>2. PICK d \in depths : \A e \in depths : d <= e
        BY <4>1, Smallest
      <4> USE DEF depths
      <4> HIDE DEF full
      <4>3. PICK z \in full : d = n - z
        OBVIOUS
      <4>4. \A y \in full : n - z <= n - y
        BY <4>2, <4>3
      <4>. QED BY <3>2, <4>4
    <3>4. z \in 1 .. n /\ available[z] # 0
      OBVIOUS
    <3>5. \A y \in (z + 1) .. n : y \in 1 .. n /\ ~(y <= z)
      BY <3>2, <3>4
    <3>6. \A y \in (z + 1) .. n : available[y] = 0
      BY <3>3, <3>5
    <3>7. z \in LowestLevel(n)
      BY <3>4, <3>6 DEF LowestLevel
    <3>. QED BY <2>1, <2>3, <3>7
  <2>6. SumFunctionOnSet(FreeWords(available), Levels) < Span[n] /\ SumFunctionOnSet(FreeWords(available), Levels) \in Int
    BY <2>4, <2>5, FreeWordsFit DEF TreeInv, Shape
  <2>7. SumFunctionOnSet(Words, DOMAIN code) \in Int /\ Span[0] \in Int
    BY WordsFit, SpanShrinks
  <2>8. SumFunctionOnSet(Words, {s \in Coded : s <= i}) > Span[0]
    BY <2>1, <2>4, <2>6, <2>7 DEF Shared
  <2>. QED BY <2>1, <2>2, <2>8 DEF KraftInv, KraftDecides, Shared
<1>6. CASE Finish
  <2>1. i > Len(len) /\ DOMAIN code = {s \in Coded : s < i} /\ outcome' = "built"
    BY <1>6 DEF Finish, KraftInv
  <2>2. Coded' = Coded /\ Words' = Words /\ code' = code /\ available' = available /\ i' = i
    BY <1>6 DEF Finish, Coded, Words, len
  <2>3. DOMAIN code = Coded
    <3>1. Len(len) \in Nat /\ i \in Nat /\ Coded \subseteq 1 .. Len(len)
      BY DEF TreeInv, Shape, Coded, len
    <3>2. \A s \in Coded : s < i
      BY <2>1, <3>1
    <3>. QED BY <2>1, <3>2
  <2>4. Span[0] \in Nat
    BY SpanShrinks
  <2>5. SumFunctionOnSet(Words, Coded) <= Span[0]
    <3>1. CASE Coded = {}
      BY <2>4, <3>1, SumOfNone
    <3>2. CASE Coded # {}
      <4>1. SumFunctionOnSet(Words, Coded) + SumFunctionOnSet(FreeWords(available), Levels) = Span[0]
        BY <2>3, <3>2 DEF KraftInv, Shared
      <4>2. /\ SumFunctionOnSet(FreeWords(available), Levels) \in Int
            /\ SumFunctionOnSet(FreeWords(available), Levels) >= 0
        BY FreeWordsFit DEF TreeInv, Shape
      <4>3. SumFunctionOnSet(Words, Coded) \in Int
        BY WordsFit
      <4>. QED BY <2>4, <4>1, <4>2, <4>3
    <3>. QED BY <3>1, <3>2
  <2>. QED BY <2>1, <2>2, <2>5 DEF KraftInv, KraftDecides, Shared
<1>7. CASE Decode \/ GetBits
  <2>1. UNCHANGED tree
    BY <1>7 DEF Decode, GetBits
  <2>. QED BY <1>1, <2>1
<1>8. CASE UNCHANGED vars
  BY <1>1, <1>8 DEF vars
<1>. QED BY <1>2, <1>3, <1>4, <1>5, <1>6, <1>7, <1>8 DEF Next, Build

LEMMA KraftInvAlways == Spec => []KraftInv
<1>1. Init => KraftInv
  <2>1. SUFFICES ASSUME Init PROVE KraftInv
    OBVIOUS
  <2>2. i = 1 /\ DOMAIN code = {} /\ outcome = "building"
    BY <2>1 DEF Init
  <2>3. \A s \in Coded : ~(s < 1)
    BY <2>1, BooksAssumption DEF Init, Coded, len
  <2>. QED BY <2>2, <2>3 DEF KraftInv, KraftDecides
<1>. QED BY <1>1, KraftStep, TreeInvAlways, PTL DEF Spec

\* A book is refused when the lengths of its codes do not fit into one tree, and
\* only then, however they are mixed.
THEOREM RefusedByKraft == Spec => []KraftDecides
<1>1. KraftInv => KraftDecides
  BY DEF KraftInv
<1>. QED BY <1>1, KraftInvAlways, PTL

-----------------------------------------------------------------------------
(***************************************************************************)
(* That DECODE reads the entry whose code the packet goes on with.         *)
(*                                                                         *)
(* A leaf begins at a multiple of the words it has, and so does the word   *)
(* made of the first bits of the packet: the bits of a code decide whether *)
(* the packet goes on with it, and further bits in the accumulator change  *)
(* nothing.  The leaves of different codes are apart, so that one entry    *)
(* fits at most, and the three searches come to it: the fast table, when   *)
(* it is short; the entries one by one; or the binary search, whose words  *)
(* go up, for which the last word that is not greater is its own.  Every   *)
(* word is in the leaf of a code or in one that is free, and a full tree   *)
(* has none that is free.  Of the packet there are Depth - Byte + 1 bits   *)
(* in the accumulator, or all that is left.                                *)
(***************************************************************************)
Multiple(x, d) == \E k \in Int : x = k * d

LEMMA MultipleSum ==
  ASSUME NEW d \in Int, NEW x, NEW y, Multiple(x, d), Multiple(y, d)
  PROVE  Multiple(x + y, d)
<1>1. PICK k \in Int : x = k * d
  BY DEF Multiple
<1>2. PICK m \in Int : y = m * d
  BY DEF Multiple
<1>3. x + y = (k + m) * d /\ k + m \in Int
  BY <1>1, <1>2
<1>. QED BY <1>3 DEF Multiple

LEMMA MultipleOfHalf ==
  ASSUME NEW d \in Int, NEW x, Multiple(x, 2 * d)
  PROVE  Multiple(x, d)
<1>1. PICK k \in Int : x = k * (2 * d)
  BY DEF Multiple
<1>2. x = (2 * k) * d /\ 2 * k \in Int
  BY <1>1
<1>. QED BY <1>2 DEF Multiple

\* Two of them do not lie around one number.
LEMMA MultiplesMeet ==
  ASSUME NEW d \in Nat \ {0}, NEW x, NEW y, NEW w \in Int, Multiple(x, d), Multiple(y, d),
         x <= w, w < x + d, y <= w, w < y + d
  PROVE  x = y
<1>1. PICK k \in Int : x = k * d
  BY DEF Multiple
<1>2. PICK m \in Int : y = m * d
  BY DEF Multiple
<1>3. ASSUME NEW a \in Int, NEW b \in Int, a < b PROVE (a * d) + d <= b * d
  <2>1. b - a - 1 \in Nat
    BY <1>3
  <2>2. (b - a - 1) * d >= 0
    BY <2>1
  <2>. QED BY <2>2
<1>4. x \in Int /\ y \in Int
  BY <1>1, <1>2
<1>5. ~(k < m) /\ ~(m < k)
  BY <1>1, <1>2, <1>3, <1>4
<1>6. k = m
  BY <1>5
<1>. QED BY <1>1, <1>2, <1>6

LEMMA MultipleOfSpan ==
  ASSUME NEW x \in 0 .. Depth, NEW y \in x .. Depth, NEW a, Multiple(a, Span[x])
  PROVE  Multiple(a, Span[y])
<1>1. Depth \in Nat /\ x \in Nat /\ \A z \in 0 .. Depth : Span[z] \in Nat
  BY SpanShrinks
<1> DEFINE off == {z \in x .. Depth : ~Multiple(a, Span[z])}
<1>2. SUFFICES ASSUME off # {} PROVE FALSE
  OBVIOUS
<1>3. PICK z \in off : \A u \in off : z <= u
  <2>1. off \subseteq Nat
    BY <1>1
  <2> HIDE DEF off
  <2>. QED BY <1>2, <2>1, Smallest
<1>4. z \in x .. Depth /\ z # x /\ ~Multiple(a, Span[z])
  BY <1>3
<1>5. z - 1 \in x .. Depth /\ z - 1 < z /\ z \in 1 .. Depth /\ Span[z] \in Int
  BY <1>1, <1>4
<1>6. Multiple(a, Span[z - 1])
  BY <1>3, <1>5
<1>7. Span[z - 1] = 2 * Span[z]
  BY <1>5, SpanAssumption
<1>. QED BY <1>4, <1>5, <1>6, <1>7, MultipleOfHalf

-----------------------------------------------------------------------------
LEMMA BitsNext ==
  ASSUME packet \in Seq({0, 1}), NEW from \in Nat
  PROVE  /\ Bits(from, 0) = 0
         /\ \A v \in 1 .. Depth : from + v <= Len(packet) =>
              /\ packet[from + v] \in {0, 1}
              /\ Bits(from, v) = packet[from + v] * Span[v] + Bits(from, v - 1)
              /\ Bits(from, v - 1) \in Int
<1>1. Bits(from, 0) = 0
  <2>1. 1 .. 0 = {}
    OBVIOUS
  <2>. QED BY <2>1, SumOfNone DEF Bits
<1>2. ASSUME NEW v \in 1 .. Depth, from + v <= Len(packet)
      PROVE  /\ packet[from + v] \in {0, 1}
             /\ Bits(from, v) = packet[from + v] * Span[v] + Bits(from, v - 1)
             /\ Bits(from, v - 1) \in Int
  <2>1. Depth \in Nat /\ v \in Nat /\ v - 1 \in Nat /\ Len(packet) \in Nat
    BY SpanShrinks
  <2> DEFINE f(n) == [j \in 1 .. n |-> packet[from + j] * Span[j]]
  <2>2. ASSUME NEW j \in 1 .. v
        PROVE  packet[from + j] \in {0, 1} /\ Span[j] \in Nat /\ f(v)[j] \in Int /\ f(v)[j] = packet[from + j] * Span[j]
    <3>1. from + j \in 1 .. Len(packet) /\ j \in 0 .. Depth
      BY <1>2, <2>1
    <3>2. packet[from + j] \in {0, 1} /\ Span[j] \in Nat
      BY <3>1, SpanShrinks
    <3>3. packet[from + j] * Span[j] \in Int
      BY <3>2
    <3>. QED BY <3>2, <3>3
  <2>3. IsFiniteSet(1 .. v) /\ v \in 1 .. v /\ (1 .. v) \ {v} = 1 .. (v - 1) /\ IsFiniteSet(1 .. (v - 1))
    <3> HIDE DEF f
    <3>1. IsFiniteSet(1 .. v) /\ IsFiniteSet(1 .. (v - 1))
      BY <2>1, FS_Interval
    <3>2. v \in 1 .. v /\ (1 .. v) \ {v} = 1 .. (v - 1)
      BY <2>1
    <3>. QED BY <3>1, <3>2
  <2>4. \A j \in 1 .. (v - 1) : f(v)[j] \in Int /\ f(v)[j] = f(v - 1)[j]
    <3>1. \A j \in 1 .. (v - 1) : j \in 1 .. v
      BY <2>1
    <3>. QED BY <2>2, <3>1
  <2>5. f(v)[v] = packet[from + v] * Span[v]
    BY <2>2, <2>3
  <2>6. \A j \in 1 .. v : f(v)[j] \in Int
    BY <2>2
  <2>7. Bits(from, v) = SumFunctionOnSet(f(v), 1 .. v) /\ Bits(from, v - 1) = SumFunctionOnSet(f(v - 1), 1 .. (v - 1))
    BY DEF Bits
  <2>8. packet[from + v] \in {0, 1}
    BY <2>2, <2>3
  <2> HIDE DEF f
  <2>9. SumFunctionOnSet(f(v), 1 .. v) = f(v)[v] + SumFunctionOnSet(f(v), 1 .. (v - 1))
    BY <2>3, <2>6, SumOfOneMore
  <2>10. SumFunctionOnSet(f(v), 1 .. (v - 1)) = SumFunctionOnSet(f(v - 1), 1 .. (v - 1))
    BY <2>3, <2>4, SumOfEquals
  <2>11. SumFunctionOnSet(f(v), 1 .. (v - 1)) \in Int
    BY <2>3, <2>4, SumIsInt
  <2>. QED BY <2>5, <2>7, <2>8, <2>9, <2>10, <2>11
<1>. QED BY <1>1, <1>2

\* Further bits only tell more.
LEMMA BitsFrom ==
  ASSUME packet \in Seq({0, 1}), NEW from \in Nat, NEW u \in 0 .. Depth, NEW v \in u .. Depth,
         from + v <= Len(packet)
  PROVE  /\ Bits(from, u) \in Nat /\ Bits(from, v) \in Nat
         /\ Multiple(Bits(from, u), Span[u])
         /\ Bits(from, u) <= Bits(from, v)
         /\ Bits(from, v) + Span[v] <= Bits(from, u) + Span[u]
<1>1. Depth \in Nat /\ u \in Nat /\ v \in Nat /\ Len(packet) \in Nat /\ \A z \in 0 .. Depth : Span[z] \in Nat
  BY SpanShrinks
<1>2. ASSUME NEW z \in 1 .. Depth, from + z <= Len(packet), Bits(from, z - 1) \in Nat
      PROVE  /\ Bits(from, z) \in Nat /\ Bits(from, z - 1) <= Bits(from, z)
             /\ Bits(from, z) + Span[z] <= Bits(from, z - 1) + Span[z - 1]
             /\ Multiple(Bits(from, z - 1), Span[z - 1]) => Multiple(Bits(from, z), Span[z])
  <2>1. Span[z] \in Nat /\ Span[z - 1] = 2 * Span[z]
    BY SMTT(20), <1>1, <1>2, SpanAssumption
  <2>2. Bits(from, z) = packet[from + z] * Span[z] + Bits(from, z - 1) /\ packet[from + z] \in {0, 1}
    BY <1>2, BitsNext
  <2>3. Bits(from, z) = Bits(from, z - 1) \/ Bits(from, z) = Span[z] + Bits(from, z - 1)
    <3>1. CASE packet[from + z] = 0
      BY <1>2, <2>1, <2>2, <3>1
    <3>2. CASE packet[from + z] = 1
      BY <1>2, <2>1, <2>2, <3>2
    <3>. QED BY <2>2, <3>1, <3>2
  <2>4. ASSUME Multiple(Bits(from, z - 1), Span[z - 1]) PROVE Multiple(Bits(from, z), Span[z])
    <3>1. Multiple(Bits(from, z - 1), Span[z])
      BY <2>1, <2>4, MultipleOfHalf
    <3>2. Multiple(Span[z], Span[z])
      <4>1. Span[z] = 1 * Span[z]
        BY <2>1
      <4>. QED BY <4>1 DEF Multiple
    <3>3. Multiple(Span[z] + Bits(from, z - 1), Span[z])
      BY <2>1, <3>1, <3>2, MultipleSum
    <3>. QED BY <2>3, <3>1, <3>3
  <2>. QED BY SMTT(20), <1>2, <2>1, <2>3, <2>4
<1> DEFINE Fine(z) == Bits(from, z) \in Nat /\ Multiple(Bits(from, z), Span[z])
           off == {z \in 0 .. v : ~Fine(z)}
<1>3. off = {}
  <2>1. SUFFICES ASSUME off # {} PROVE FALSE
    OBVIOUS
  <2>2. PICK z \in off : \A y \in off : z <= y
    <3>1. off \subseteq Nat
      BY <1>1
    <3> HIDE DEF off
    <3>. QED BY <2>1, <3>1, Smallest
  <2>3. Fine(0)
    <3>1. Bits(from, 0) = 0 /\ 0 = 0 * Span[0]
      BY <1>1, BitsNext
    <3>. QED BY <3>1 DEF Multiple
  <2>4. z \in 0 .. v /\ ~Fine(z) /\ z # 0
    BY <2>2, <2>3
  <2>5. z \in 1 .. Depth /\ z - 1 \in 0 .. v /\ z - 1 < z /\ from + z <= Len(packet)
    BY <1>1, <2>4
  <2>6. Fine(z - 1)
    BY <2>2, <2>5
  <2>. QED BY <1>2, <2>4, <2>5, <2>6
<1>4. \A z \in 0 .. v : Fine(z)
  BY <1>3
<1> HIDE DEF off
<1> DEFINE More(z) == Bits(from, u) <= Bits(from, z) /\ Bits(from, z) + Span[z] <= Bits(from, u) + Span[u]
           less == {z \in u .. v : ~More(z)}
<1>5. less = {}
  <2>1. SUFFICES ASSUME less # {} PROVE FALSE
    OBVIOUS
  <2>2. PICK z \in less : \A y \in less : z <= y
    <3>1. less \subseteq Nat
      BY <1>1
    <3> HIDE DEF less
    <3>. QED BY <2>1, <3>1, Smallest
  <2>3. Bits(from, u) \in Nat /\ Span[u] \in Nat
    BY <1>1, <1>4
  <2>4. z \in u .. v /\ ~More(z) /\ z # u
    BY <2>2, <2>3
  <2>5. z \in 1 .. Depth /\ z - 1 \in u .. v /\ z - 1 < z /\ from + z <= Len(packet) /\ z - 1 \in 0 .. v /\ z \in 0 .. v
    BY <1>1, <2>4
  <2>6. More(z - 1) /\ Bits(from, z - 1) \in Nat /\ Bits(from, z) \in Nat
    BY <1>4, <2>2, <2>5
  <2>7. Span[z] \in Nat /\ Span[z - 1] \in Nat
    BY <1>1, <2>5
  <2>8. /\ Bits(from, z - 1) <= Bits(from, z)
        /\ Bits(from, z) + Span[z] <= Bits(from, z - 1) + Span[z - 1]
    BY <1>2, <2>5, <2>6
  <2>9. /\ Bits(from, u) <= Bits(from, z - 1)
        /\ Bits(from, z - 1) + Span[z - 1] <= Bits(from, u) + Span[u]
    BY <2>6
  <2>10. /\ Bits(from, u) <= Bits(from, z)
         /\ Bits(from, z) + Span[z] <= Bits(from, u) + Span[u]
    <3> HIDE DEF less, More
    <3>1. PICK bu, by, bz, su, sy, sz :
             /\ bu = Bits(from, u) /\ by = Bits(from, z - 1) /\ bz = Bits(from, z)
             /\ su = Span[u] /\ sy = Span[z - 1] /\ sz = Span[z]
      OBVIOUS
    <3>2. bu \in Nat /\ by \in Nat /\ bz \in Nat /\ su \in Nat /\ sy \in Nat /\ sz \in Nat
      BY <2>3, <2>6, <2>7, <3>1
    <3>3. by <= bz /\ bz + sz <= by + sy /\ bu <= by /\ by + sy <= bu + su
      BY <2>8, <2>9, <3>1
    <3>4. bu <= bz /\ bz + sz <= bu + su
      BY <3>2, <3>3
    <3>. QED BY <3>1, <3>4
  <2>. QED BY <2>4, <2>10
<1>6. More(v) /\ u \in 0 .. v /\ v \in 0 .. v
  BY <1>1, <1>5
<1>. QED BY <1>4, <1>6

-----------------------------------------------------------------------------
\* The binary search.

\* h is the function of the binary search.
Halved(h, words, word, n) ==
  h = [r \in Ranges(n) |->
         IF r[2] <= 1 THEN r[1]
         ELSE IF words[r[1] + (r[2] \div 2) + 1] <= word THEN h[<<r[1] + (r[2] \div 2), r[2] - (r[2] \div 2)>>]
         ELSE h[<<r[1], r[2] \div 2>>]]

Rising(words, n) == \A j, k \in 1 .. n : j < k => words[j] < words[k]

\* The last of n words from x on that is not greater, or the first of them.
LastOf(y, words, word, x, n) ==
  /\ y \in x .. (x + n - 1)
  /\ y = x \/ words[y + 1] <= word
  /\ \A z \in (x + 1) .. (x + n - 1) : words[z + 1] <= word => z <= y

LEMMA SearchedIs ==
  ASSUME NEW words, NEW word, NEW n, Len(words) = n
  PROVE  Searched(words, word) = 1 + (CHOOSE h : Halved(h, words, word, n))[<<0, n>>]
BY DEF Searched, Halved

LEMMA LastIsOne ==
  ASSUME NEW words, NEW word, NEW x \in Nat, NEW n \in Nat \ {0}
  PROVE  /\ \E y : LastOf(y, words, word, x, n)
         /\ \A y, z : LastOf(y, words, word, x, n) /\ LastOf(z, words, word, x, n) => y = z
<1> DEFINE below == {k \in 0 .. (n - 1) : k = n - 1 \/ words[x + n - 1 - k + 1] <= word}
<1>1. PICK k \in below : \A m \in below : k <= m
  <2>1. below \subseteq Nat /\ n - 1 \in below
    OBVIOUS
  <2> HIDE DEF below
  <2>. QED BY <2>1, Smallest
<1>2. LastOf(x + n - 1 - k, words, word, x, n)
  <2>1. k \in 0 .. (n - 1) /\ (k = n - 1 \/ words[x + n - 1 - k + 1] <= word)
    BY <1>1
  <2>2. ASSUME NEW z \in (x + 1) .. (x + n - 1), words[z + 1] <= word
        PROVE  z <= x + n - 1 - k
    <3>1. PICK m : m = x + n - 1 - z
      OBVIOUS
    <3>2. m \in 0 .. (n - 1) /\ z = x + n - 1 - m
      BY <3>1
    <3>3. m \in below
      BY <2>2, <3>2
    <3>4. k <= m
      BY <1>1, <3>3
    <3>. QED BY <2>1, <3>2, <3>4
  <2>. QED BY <2>1, <2>2 DEF LastOf
<1>3. ASSUME NEW y, NEW z, LastOf(y, words, word, x, n), LastOf(z, words, word, x, n)
      PROVE  y = z
  <2>1. y \in x .. (x + n - 1) /\ z \in x .. (x + n - 1)
    BY <1>3 DEF LastOf
  <2>2. y = x \/ y <= z
    BY <1>3, <2>1 DEF LastOf
  <2>3. z = x \/ z <= y
    BY <1>3, <2>1 DEF LastOf
  <2>. QED BY <2>1, <2>2, <2>3
<1>. QED BY <1>2, <1>3

LEMMA LastInHalf ==
  ASSUME NEW n \in Nat, NEW words \in [1 .. n -> Int], NEW word \in Int,
         Rising(words, n),
         NEW x \in Nat, NEW m \in Nat, 1 < m, x + m <= n, NEW h, h = m \div 2, NEW y
  PROVE  /\ h \in Nat /\ 1 <= h /\ 1 <= m - h /\ h < m /\ m - h < m /\ m - h \in Nat
         /\ words[x + h + 1] <= word => (LastOf(y, words, word, x + h, m - h) => LastOf(y, words, word, x, m))
         /\ ~(words[x + h + 1] <= word) => (LastOf(y, words, word, x, h) => LastOf(y, words, word, x, m))
<1>1. h \in Nat /\ 1 <= h /\ 1 <= m - h /\ h < m /\ m - h < m /\ m - h \in Nat
  OBVIOUS
<1>2. ASSUME words[x + h + 1] <= word, LastOf(y, words, word, x + h, m - h)
      PROVE  LastOf(y, words, word, x, m)
  <2>1. y \in (x + h) .. (x + m - 1) /\ (y = x + h \/ words[y + 1] <= word)
    BY <1>1, <1>2 DEF LastOf
  <2>2. ASSUME NEW z \in (x + 1) .. (x + m - 1), words[z + 1] <= word PROVE z <= y
    <3>1. z <= x + h \/ z \in (x + h + 1) .. (x + h + (m - h) - 1)
      BY <1>1, <2>2
    <3>. QED BY <1>1, <1>2, <2>1, <2>2, <3>1 DEF LastOf
  <2>. QED BY <1>1, <1>2, <2>1, <2>2 DEF LastOf
<1>3. ASSUME ~(words[x + h + 1] <= word), LastOf(y, words, word, x, h)
      PROVE  LastOf(y, words, word, x, m)
  <2>1. y \in x .. (x + h - 1) /\ (y = x \/ words[y + 1] <= word)
    BY <1>1, <1>3 DEF LastOf
  <2>2. ASSUME NEW z \in (x + 1) .. (x + m - 1), words[z + 1] <= word PROVE z <= y
    <3>1. CASE z \in (x + 1) .. (x + h - 1)
      BY <1>3, <2>2, <3>1 DEF LastOf
    <3>2. CASE z >= x + h
      <4>1. z + 1 \in 1 .. n /\ x + h + 1 \in 1 .. n /\ (z + 1 = x + h + 1 \/ x + h + 1 < z + 1)
        BY <1>1, <3>2
      <4>2. words[x + h + 1] \in Int /\ words[z + 1] \in Int
        BY <4>1
      <4>3. words[x + h + 1] <= words[z + 1]
        <5>1. CASE z + 1 = x + h + 1
          BY <4>2, <5>1
        <5>2. CASE x + h + 1 < z + 1
          BY <4>1, <4>2, <5>2 DEF Rising
        <5>. QED BY <4>1, <5>1, <5>2
      <4>. QED BY <1>3, <2>2, <4>2, <4>3
    <3>. QED BY <1>1, <3>1, <3>2
  <2>. QED BY <1>1, <2>1, <2>2 DEF LastOf
<1>. QED BY <1>1, <1>2, <1>3


BestOf(words, word, x, m) == IF m = 0 THEN x ELSE CHOOSE y : LastOf(y, words, word, x, m)

LEMMA BestIsLast ==
  ASSUME NEW words, NEW word, NEW x \in Nat, NEW m \in Nat \ {0}
  PROVE  LastOf(BestOf(words, word, x, m), words, word, x, m)
<1>1. \E y : LastOf(y, words, word, x, m)
  BY LastIsOne
<1>. QED BY <1>1 DEF BestOf

Halfway(n, words, word, x, m, h) ==
  /\ n \in Nat /\ words \in [1 .. n -> Int] /\ word \in Int /\ Rising(words, n)
  /\ x \in Nat /\ m \in Nat /\ 1 < m /\ x + m <= n /\ h = m \div 2
GoesToHalf(words, word, x, m, h) ==
  /\ words[x + h + 1] <= word => BestOf(words, word, x, m) = BestOf(words, word, x + h, m - h)
  /\ ~(words[x + h + 1] <= word) => BestOf(words, word, x, m) = BestOf(words, word, x, h)

LEMMA BestOfHalf ==
  ASSUME NEW n, NEW words, NEW word, NEW x, NEW m, NEW h, Halfway(n, words, word, x, m, h)
  PROVE  GoesToHalf(words, word, x, m, h)
<1>0. /\ n \in Nat /\ words \in [1 .. n -> Int] /\ word \in Int /\ Rising(words, n)
      /\ x \in Nat /\ m \in Nat /\ 1 < m /\ x + m <= n /\ h = m \div 2
  BY DEF Halfway
<1>1. h \in Nat \ {0} /\ m - h \in Nat \ {0} /\ x + h \in Nat /\ m \in Nat \ {0} 
  BY <1>0, LastInHalf
<1>2. PICK all, up, down : /\ all = BestOf(words, word, x, m)
                           /\ up = BestOf(words, word, x + h, m - h)
                           /\ down = BestOf(words, word, x, h)
  OBVIOUS
<1>3. /\ LastOf(all, words, word, x, m)
      /\ LastOf(up, words, word, x + h, m - h)
      /\ LastOf(down, words, word, x, h)
  BY <1>0, <1>1, <1>2, BestIsLast
<1>4. words[x + h + 1] <= word => LastOf(up, words, word, x, m)
  BY <1>0, <1>3, LastInHalf
<1>5. ~(words[x + h + 1] <= word) => LastOf(down, words, word, x, m)
  BY ZenonT(30), <1>0, <1>3, LastInHalf
<1>6. /\ words[x + h + 1] <= word => all = up
      /\ ~(words[x + h + 1] <= word) => all = down
  BY <1>0, <1>1, <1>3, <1>4, <1>5, LastIsOne
<1>. QED BY <1>2, <1>6 DEF GoesToHalf

LEMMA RangesAre ==
  ASSUME NEW n \in Nat
  PROVE  /\ \A r \in Ranges(n) : r = <<r[1], r[2]>> /\ r[1] \in Nat /\ r[2] \in Nat /\ r[1] + r[2] <= n
         /\ \A x, m \in Nat : x + m <= n => /\ <<x, m>> \in Ranges(n)
                                            /\ <<x, m>>[1] = x /\ <<x, m>>[2] = m
<1>1. \A r \in Ranges(n) : r = <<r[1], r[2]>> /\ r[1] \in Nat /\ r[2] \in Nat /\ r[1] + r[2] <= n
  BY DEF Ranges
<1>2. ASSUME NEW x \in Nat, NEW m \in Nat, x + m <= n
      PROVE  <<x, m>> \in Ranges(n) /\ <<x, m>>[1] = x /\ <<x, m>>[2] = m
  <2>1. x \in 0 .. n /\ m \in 0 .. n
    BY <1>2
  <2>. QED BY <1>2, <2>1 DEF Ranges
<1>. QED BY <1>1, <1>2

LEMMA HalvedAt ==
  ASSUME NEW n \in Nat, NEW words, NEW word, NEW g, Halved(g, words, word, n),
         NEW x \in Nat, NEW m \in Nat, x + m <= n, NEW h, h = m \div 2
  PROVE  /\ m <= 1 => g[<<x, m>>] = x
         /\ ~(m <= 1) /\ words[x + h + 1] <= word => g[<<x, m>>] = g[<<x + h, m - h>>]
         /\ ~(m <= 1) /\ ~(words[x + h + 1] <= word) => g[<<x, m>>] = g[<<x, h>>]
<1>1. PICK r : r = <<x, m>>
  OBVIOUS
<1>2. r \in Ranges(n) /\ r[1] = x /\ r[2] = m
  BY <1>1, RangesAre
<1>3. g[r] = IF r[2] <= 1 THEN r[1]
             ELSE IF words[r[1] + (r[2] \div 2) + 1] <= word
                  THEN g[<<r[1] + (r[2] \div 2), r[2] - (r[2] \div 2)>>]
             ELSE g[<<r[1], r[2] \div 2>>]
  BY <1>2 DEF Halved
<1>. QED BY <1>1, <1>2, <1>3, Zenon

\* The function exists: it is the last word that is not greater.
LEMMA HalvedExists ==
  ASSUME NEW n \in Nat, NEW words \in [1 .. n -> Int], NEW word \in Int,
         Rising(words, n)
  PROVE  Halved([r \in Ranges(n) |-> BestOf(words, word, r[1], r[2])], words, word, n)
<1>1. PICK best : best = [r \in Ranges(n) |-> BestOf(words, word, r[1], r[2])]
  OBVIOUS
<1>2. ASSUME NEW x \in Nat, NEW m \in Nat, x + m <= n
      PROVE  best[<<x, m>>] = BestOf(words, word, x, m)
  BY <1>1, <1>2, RangesAre
<1>3. ASSUME NEW r \in Ranges(n)
      PROVE  best[r] = IF r[2] <= 1 THEN r[1]
                       ELSE IF words[r[1] + (r[2] \div 2) + 1] <= word
                            THEN best[<<r[1] + (r[2] \div 2), r[2] - (r[2] \div 2)>>]
                       ELSE best[<<r[1], r[2] \div 2>>]
  <2>1. PICK x, m, h : x = r[1] /\ m = r[2] /\ h = r[2] \div 2
    OBVIOUS
  <2>2. x \in Nat /\ m \in Nat /\ x + m <= n /\ r = <<x, m>> /\ h = m \div 2
    BY <2>1, RangesAre
  <2>3. best[r] = BestOf(words, word, x, m)
    BY <1>2, <2>2
  <2>4. best[r] = IF m <= 1 THEN x
                  ELSE IF words[x + h + 1] <= word THEN best[<<x + h, m - h>>]
                  ELSE best[<<x, h>>]
    <3>1. CASE m = 0
      BY <2>3, <3>1 DEF BestOf
    <3>2. CASE m = 1
      <4>1. PICK y : y = BestOf(words, word, x, m)
        OBVIOUS
      <4>2. LastOf(y, words, word, x, m)
        BY <2>2, <3>2, <4>1, BestIsLast
      <4>3. y = x
        BY <2>2, <3>2, <4>2 DEF LastOf
      <4>. QED BY <2>3, <3>2, <4>1, <4>3
    <3>3. CASE 1 < m
      <4>1. h \in Nat /\ h <= m /\ m - h \in Nat /\ x + h \in Nat /\ (x + h) + (m - h) <= n /\ x + h <= n
        BY <2>2, <3>3
      <4>2. best[<<x + h, m - h>>] = BestOf(words, word, x + h, m - h) /\ best[<<x, h>>] = BestOf(words, word, x, h)
        BY <1>2, <2>2, <4>1
      <4>5. Halfway(n, words, word, x, m, h)
        BY <2>2, <3>3 DEF Halfway
      <4>3. /\ words[x + h + 1] <= word => BestOf(words, word, x, m) = BestOf(words, word, x + h, m - h)
            /\ ~(words[x + h + 1] <= word) => BestOf(words, word, x, m) = BestOf(words, word, x, h)
        BY <4>5, BestOfHalf DEF GoesToHalf
      <4>4. ~(m <= 1)
        BY <2>2, <3>3
      <4>. QED BY <2>3, <4>2, <4>3, <4>4, Zenon
    <3>. QED BY <2>2, <3>1, <3>2, <3>3
  <2>. QED BY <2>1, <2>4, Zenon
<1>4. best = [r \in Ranges(n) |-> best[r]]
  BY <1>1
<1>5. [r \in Ranges(n) |-> best[r]] =
        [r \in Ranges(n) |->
           IF r[2] <= 1 THEN r[1]
           ELSE IF words[r[1] + (r[2] \div 2) + 1] <= word THEN best[<<r[1] + (r[2] \div 2), r[2] - (r[2] \div 2)>>]
           ELSE best[<<r[1], r[2] \div 2>>]]
  BY <1>3, Zenon
<1>6. Halved(best, words, word, n)
  BY <1>4, <1>5, Zenon DEF Halved
<1>. QED BY <1>1, <1>6

\* The binary search finds the last word that is not greater, if the words go up.
LEMMA SearchFinds ==
  ASSUME NEW n \in Nat \ {0}, NEW words \in [1 .. n -> Int], NEW word \in Int,
         Rising(words, n)
  PROVE  LastOf(Searched(words, word) - 1, words, word, 0, n) /\ Searched(words, word) \in 1 .. n
<1>1. Len(words) = n
  OBVIOUS
<1>2. PICK g : g = CHOOSE h : Halved(h, words, word, n)
  OBVIOUS
<1>3. Halved(g, words, word, n)
  BY <1>2, HalvedExists
<1> DEFINE off == {m \in Nat : \E x \in Nat : x + m <= n /\ m # 0 /\ g[<<x, m>>] # BestOf(words, word, x, m)}
<1>4. off = {}
  <2>1. SUFFICES ASSUME off # {} PROVE FALSE
    OBVIOUS
  <2>2. PICK m \in off : \A k \in off : m <= k
    <3>1. off \subseteq Nat
      OBVIOUS
    <3> HIDE DEF off
    <3>. QED BY <2>1, <3>1, Smallest
  <2>3. PICK x \in Nat : x + m <= n /\ m # 0 /\ g[<<x, m>>] # BestOf(words, word, x, m)
    BY <2>2
  <2>4. PICK h : h = m \div 2
    OBVIOUS
  <2>8. m \in Nat
    BY <2>2
  <2> HIDE DEF off
  <2>5. /\ m <= 1 => g[<<x, m>>] = x
        /\ ~(m <= 1) /\ words[x + h + 1] <= word => g[<<x, m>>] = g[<<x + h, m - h>>]
        /\ ~(m <= 1) /\ ~(words[x + h + 1] <= word) => g[<<x, m>>] = g[<<x, h>>]
    BY <1>3, <2>3, <2>4, <2>8, HalvedAt
  <2>6. CASE m = 1
    <3>1. PICK y : y = BestOf(words, word, x, m)
      OBVIOUS
    <3>2. LastOf(y, words, word, x, m)
      BY <2>6, <3>1, BestIsLast
    <3>3. y = x
      BY <2>6, <3>2 DEF LastOf
    <3>. QED BY <2>3, <2>5, <2>6, <3>1, <3>3
  <2>7. CASE 1 < m
    <3>1. h \in Nat \ {0} /\ h < m /\ m - h \in Nat \ {0} /\ m - h < m /\ x + h \in Nat /\ (x + h) + (m - h) <= n /\ x + h <= n
      BY <2>3, <2>4, <2>8, <2>7
    <3>2. ~(m - h \in off) /\ ~(h \in off)
      BY <2>2, <2>8, <3>1
    <3>3. g[<<x + h, m - h>>] = BestOf(words, word, x + h, m - h) /\ g[<<x, h>>] = BestOf(words, word, x, h)
      BY <2>3, <3>1, <3>2 DEF off
    <3>9. Halfway(n, words, word, x, m, h)
      BY <2>3, <2>4, <2>8, <2>7 DEF Halfway
    <3>4. /\ words[x + h + 1] <= word => BestOf(words, word, x, m) = BestOf(words, word, x + h, m - h)
          /\ ~(words[x + h + 1] <= word) => BestOf(words, word, x, m) = BestOf(words, word, x, h)
      BY <3>9, BestOfHalf DEF GoesToHalf
    <3>5. ~(m <= 1)
      BY <2>8, <2>7
    <3>6. g[<<x, m>>] = BestOf(words, word, x, m)
      BY <2>5, <3>3, <3>4, <3>5, Zenon
    <3>. QED BY <2>3, <3>6
  <2>. QED BY <2>3, <2>8, <2>6, <2>7
<1>5. g[<<0, n>>] = BestOf(words, word, 0, n)
  <2>1. ~(n \in off) /\ 0 \in Nat /\ 0 + n <= n /\ n # 0 /\ n \in Nat
    <3> HIDE DEF off
    <3>. QED BY <1>4
  <2>. QED BY <2>1
<1> HIDE DEF off
<1>6. LastOf(BestOf(words, word, 0, n), words, word, 0, n)
  BY BestIsLast
<1>7. PICK y : y = BestOf(words, word, 0, n)
  OBVIOUS
<1>8. Searched(words, word) = 1 + y
  BY <1>1, <1>2, <1>5, <1>7, SearchedIs
<1>9. LastOf(y, words, word, 0, n)
  BY <1>6, <1>7
<1>10. y \in 0 .. (n - 1)
  BY <1>9 DEF LastOf
<1>11. Searched(words, word) - 1 = y /\ Searched(words, word) \in 1 .. n
  BY <1>8, <1>10
<1>. QED BY <1>9, <1>11

-----------------------------------------------------------------------------
\* The order of sorted_codewords.

Below(W, w) == {v \in W : v < w}
InOrder(W) == [x \in 1 .. Cardinality(W) |-> CHOOSE w \in W : Cardinality({v \in W : v < w}) = x - 1]

LEMMA RankGoesUp ==
  ASSUME NEW W, W \subseteq Nat, IsFiniteSet(W), NEW v \in W, NEW w \in W
  PROVE  /\ Cardinality(Below(W, v)) \in Nat
         /\ Cardinality(Below(W, v)) + 1 <= Cardinality(W)
         /\ v < w => Cardinality(Below(W, v)) < Cardinality(Below(W, w))
<1>1. IsFiniteSet(Below(W, v)) /\ v \notin Below(W, v) /\ Below(W, v) \cup {v} \in SUBSET W
  BY FS_Subset DEF Below
<1>2. Cardinality(Below(W, v) \cup {v}) = Cardinality(Below(W, v)) + 1
  BY <1>1, FS_AddElement
<1>3. Cardinality(Below(W, v)) \in Nat
  BY <1>1, FS_CardinalityType
<1>4. Cardinality(Below(W, v) \cup {v}) <= Cardinality(W)
  BY <1>1, FS_Subset
<1>5. ASSUME v < w PROVE Cardinality(Below(W, v)) < Cardinality(Below(W, w))
  <2>1. Below(W, v) \cup {v} \subseteq Below(W, w)
    <3>1. \A x \in W : x \in Int
      OBVIOUS
    <3>2. \A x \in W : x < v => x < w
      BY <1>5, <3>1
    <3>. QED BY <1>5, <3>2 DEF Below
  <2>2. IsFiniteSet(Below(W, w))
    BY FS_Subset DEF Below
  <2>3. Cardinality(Below(W, v) \cup {v}) <= Cardinality(Below(W, w)) /\ Cardinality(Below(W, w)) \in Nat
    BY <2>1, <2>2, FS_Subset, FS_CardinalityType
  <2>. QED BY <1>2, <1>3, <2>3
<1>. QED BY <1>2, <1>3, <1>4, <1>5

\* Every rank below the number of words is the rank of one.
LEMMA RanksAreTaken ==
  ASSUME NEW W, W \subseteq Nat, IsFiniteSet(W), NEW r \in Nat, r < Cardinality(W)
  PROVE  \E w \in W : Cardinality(Below(W, w)) = r
<1> DEFINE off == {k \in Nat : k < Cardinality(W) /\ ~(\E w \in W : Cardinality(Below(W, w)) = k)}
<1>1. SUFFICES ASSUME off # {} PROVE FALSE
  OBVIOUS
<1>2. PICK k \in off : \A m \in off : k <= m
  <2>1. off \subseteq Nat
    OBVIOUS
  <2> HIDE DEF off
  <2>. QED BY <1>1, <2>1, Smallest
<1>3. k \in Nat /\ k < Cardinality(W) /\ Cardinality(W) \in Nat /\ \A w \in W : Cardinality(Below(W, w)) # k
  BY <1>2, FS_CardinalityType
<1>4. CASE k = 0
  <2>1. W # {}
    BY <1>3, <1>4, FS_EmptySet
  <2>2. PICK w \in W : \A v \in W : w <= v
    BY <2>1, Smallest
  <2>3. Below(W, w) = {}
    <3>1. \A x \in W : x \in Int
      OBVIOUS
    <3>2. \A x \in W : ~(x < w)
      BY <2>2, <3>1
    <3>. QED BY <3>2 DEF Below
  <2>. QED BY <1>3, <1>4, <2>2, <2>3, FS_EmptySet
<1>5. CASE k # 0
  <2>1. k - 1 \in Nat /\ k - 1 < Cardinality(W) /\ k - 1 < k
    BY <1>3, <1>5
  <2>2. ~(k - 1 \in off)
    <3> HIDE DEF off
    <3>. QED BY <1>2, <1>3, <2>1
  <2>3. PICK w \in W : Cardinality(Below(W, w)) = k - 1
    BY <2>1, <2>2
  <2>4. IsFiniteSet(Below(W, w)) /\ w \notin Below(W, w)
    BY FS_Subset DEF Below
  <2>5. Cardinality(Below(W, w) \cup {w}) = k
    <3>1. Cardinality(Below(W, w) \cup {w}) = Cardinality(Below(W, w)) + 1
      BY <2>4, FS_AddElement
    <3>. QED BY <1>3, <2>3, <3>1
  <2>6. CASE {v \in W : w < v} = {}
    <3>1. W = Below(W, w) \cup {w}
      <4>1. \A x \in W : x \in Int
        OBVIOUS
      <4>2. \A x \in W : x < w \/ x = w
        BY <2>6, <4>1
      <4>. QED BY <4>2 DEF Below
    <3>. QED BY <1>3, <2>5, <3>1
  <2>7. CASE {v \in W : w < v} # {}
    <3>1. PICK u \in {v \in W : w < v} : \A v \in {v \in W : w < v} : u <= v
      <4>1. {v \in W : w < v} \subseteq Nat
        OBVIOUS
      <4>. QED BY <2>7, <4>1, Smallest
    <3>2. Below(W, u) = Below(W, w) \cup {w}
      <4>1. \A x \in W : x \in Int
        OBVIOUS
      <4>2. u \in W /\ w < u /\ \A x \in W : w < x => u <= x
        BY <3>1
      <4>3. \A x \in W : x < u <=> x < w \/ x = w
        BY <4>1, <4>2
      <4>. QED BY <4>3 DEF Below
    <3>. QED BY <1>3, <2>5, <3>1, <3>2
  <2>. QED BY <2>6, <2>7
<1>. QED BY <1>4, <1>5

\* A set of words in order.
LEMMA OrderedWords ==
  ASSUME NEW W, W \subseteq Nat, IsFiniteSet(W), NEW n, n = Cardinality(W), NEW f, f = InOrder(W)
  PROVE  /\ n \in Nat /\ f \in [1 .. n -> Int] /\ Rising(f, n)
         /\ \A x \in 1 .. n : f[x] \in W
         /\ \A w \in W : \E x \in 1 .. n : f[x] = w
<1>1. n \in Nat
  BY FS_CardinalityType
<1>2. DOMAIN f = 1 .. n /\ f = [x \in 1 .. n |-> f[x]]
  <2>1. f = [x \in 1 .. n |-> CHOOSE w \in W : Cardinality({v \in W : v < w}) = x - 1]
    BY Zenon DEF InOrder
  <2>. QED BY <2>1, Zenon
<1>3. ASSUME NEW x \in 1 .. n
      PROVE  f[x] \in W /\ Cardinality(Below(W, f[x])) = x - 1
  <2>1. x - 1 \in Nat /\ x - 1 < n
    BY <1>1
  <2>2. \E w \in W : Cardinality(Below(W, w)) = x - 1
    BY <2>1, RanksAreTaken
  <2>3. f[x] = CHOOSE w \in W : Cardinality(Below(W, w)) = x - 1
    BY DEF InOrder, Below
  <2>. QED BY <2>2, <2>3
<1>4. f \in [1 .. n -> Int]
  BY <1>2, <1>3
<1>5. Rising(f, n)
  <2>1. SUFFICES ASSUME NEW j \in 1 .. n, NEW k \in 1 .. n, j < k PROVE f[j] < f[k]
    BY DEF Rising
  <2>2. f[j] \in Nat /\ f[k] \in Nat /\ j \in Int /\ k \in Int
    <3>1. \A x \in W : x \in Nat
      OBVIOUS
    <3>2. j \in Int /\ k \in Int
      BY <1>1
    <3>. QED BY <1>3, <3>1, <3>2
  <2>3. f[k] < f[j] => k - 1 < j - 1
    BY <1>3, RankGoesUp
  <2>4. f[k] = f[j] => k - 1 = j - 1
    BY <1>3
  <2>. QED BY <2>1, <2>2, <2>3, <2>4
<1>6. ASSUME NEW w \in W PROVE \E x \in 1 .. n : f[x] = w
  <2>1. PICK r : r = Cardinality(Below(W, w))
    OBVIOUS
  <2>2. r \in Nat /\ r + 1 <= n
    BY <2>1, RankGoesUp
  <2>3. PICK x : x = r + 1
    OBVIOUS
  <2>4. x \in 1 .. n /\ x - 1 = r
    BY <1>1, <2>2, <2>3
  <2>5. f[x] \in W /\ Cardinality(Below(W, f[x])) = r
    BY <1>3, <2>4
  <2>6. ~(f[x] < w) /\ ~(w < f[x])
    <3>1. f[x] < w => r < r
      BY <2>1, <2>5, RankGoesUp
    <3>2. w < f[x] => r < r
      BY <2>1, <2>5, RankGoesUp
    <3>. QED BY <2>2, <3>1, <3>2
  <2>7. f[x] \in Nat /\ w \in Nat
    BY <2>5
  <2>8. f[x] = w
    BY <2>6, <2>7
  <2>. QED BY <2>4, <2>8
<1>. QED BY <1>1, <1>3, <1>4, <1>5, <1>6

-----------------------------------------------------------------------------
Aligned ==
  /\ \A s \in DOMAIN code : Multiple(code[s], Span[len[s]])
  /\ \A y \in Levels : Multiple(available[y], Span[y])

LEMMA CodesAre ==
  ASSUME TreeInv, DOMAIN code = Coded
  PROVE  \A s \in Coded : /\ s \in Nat /\ code[s] \in Nat /\ len[s] \in Levels /\ len[s] \in 1 .. (Depth - 1)
                          /\ len[s] \in Nat /\ Span[len[s]] \in Nat \ {0}
<1>1. \A s \in Coded : s \in Nat /\ code[s] \in Nat /\ len[s] \in Levels
  BY CodedLevels DEF TreeInv, Shape
<1>. QED BY <1>1, SpanShrinks, LevelsAre DEF Levels

\* A word is in the leaf of one code only.
LEMMA OneFits ==
  ASSUME TreeInv, DOMAIN code = Coded, NEW w \in Int, NEW s \in Coded, NEW t \in Coded, Fits(s, w), Fits(t, w)
  PROVE  s = t
<1>1. code[s] \in Nat /\ code[t] \in Nat /\ Span[len[s]] \in Nat /\ Span[len[t]] \in Nat
  BY CodesAre
<1>2. SUFFICES ASSUME s # t PROVE FALSE
  OBVIOUS
<1>3. code[s] + Span[len[s]] <= code[t] \/ code[t] + Span[len[t]] <= code[s]
  BY <1>2 DEF TreeInv, PrefixFree
<1>4. code[s] <= w /\ w < code[s] + Span[len[s]] /\ code[t] <= w /\ w < code[t] + Span[len[t]]
  BY DEF Fits
<1>. QED BY <1>1, <1>3, <1>4

\* Its own bits decide whether a code is what the packet goes on with.
LEMMA BitsOfItsOwn ==
  ASSUME TreeInv, Aligned, DOMAIN code = Coded, packet \in Seq({0, 1}), NEW from \in Nat,
         NEW s \in Coded, NEW v \in 0 .. Depth, len[s] <= v, from + v <= Len(packet)
  PROVE  Fits(s, Bits(from, v)) <=> Fits(s, Bits(from, len[s]))
<1>1. PICK u, d, a : u = len[s] /\ d = Span[u] /\ a = code[s]
  OBVIOUS
<1>2. Depth \in Nat /\ u \in 0 .. Depth /\ v \in u .. Depth /\ d \in Nat \ {0} /\ a \in Nat /\ v \in Nat /\ Span[v] \in Nat \ {0}
  <2>1. len[s] \in 1 .. (Depth - 1) /\ code[s] \in Nat /\ Span[len[s]] \in Nat \ {0}
    BY CodesAre
  <2>2. Depth \in Nat /\ Span[v] \in Nat \ {0}
    BY SpanShrinks
  <2>3. u \in 0 .. Depth /\ v \in u .. Depth /\ v \in Nat
    BY <1>1, <2>1, <2>2
  <2>. QED BY <1>1, <2>1, <2>2, <2>3
<1>3. PICK b, c : b = Bits(from, u) /\ c = Bits(from, v)
  OBVIOUS
<1>4. b \in Nat /\ c \in Nat /\ Multiple(b, d) /\ b <= c /\ c + Span[v] <= b + d
  BY <1>1, <1>2, <1>3, BitsFrom
<1>5. Multiple(a, d)
  BY <1>1 DEF Aligned
<1>6. c < b + d
  BY <1>2, <1>4
<1>7. ASSUME a <= c, c < a + d PROVE a = b
  BY <1>2, <1>4, <1>5, <1>6, <1>7, MultiplesMeet
<1>8. ASSUME a <= b, b < a + d PROVE a = b
  <2>1. b <= b /\ b < b + d
    BY <1>2, <1>4
  <2>2. d \in Nat \ {0} /\ b \in Int /\ Multiple(a, d) /\ Multiple(b, d)
    BY <1>2, <1>4, <1>5
  <2>. QED BY <1>8, <2>1, <2>2, MultiplesMeet
<1>9. (a <= c /\ c < a + d) <=> (a <= b /\ b < a + d)
  BY <1>2, <1>4, <1>6, <1>7, <1>8
<1>. QED BY <1>1, <1>3, <1>9 DEF Fits

SortedWords == {code[s] : s \in Sorted}

LEMMA SortedWordsAre ==
  ASSUME TreeInv, DOMAIN code = Coded
  PROVE  /\ SortedWords \subseteq Nat /\ IsFiniteSet(SortedWords)
         /\ SortedCodes = InOrder(SortedWords)
         /\ Sorted \subseteq Coded
<1>1. Sorted \subseteq Coded
  BY DEF Sorted
<1>2. SortedWords \subseteq Nat
  BY <1>1, CodesAre DEF SortedWords
<1>3. IsFiniteSet(SortedWords)
  <2>1. IsFiniteSet(Sorted)
    BY <1>1, WordsFit, FS_Subset
  <2>2. PICK f : f = [s \in Sorted |-> code[s]]
    OBVIOUS
  <2>3. f \in Surjection(Sorted, SortedWords)
    BY <2>2 DEF SortedWords, Surjection
  <2>. QED BY <2>1, <2>3, FS_Surjection
<1>4. SortedCodes = InOrder(SortedWords)
  BY DEF SortedCodes, InOrder, SortedWords
<1>. QED BY <1>1, <1>2, <1>3, <1>4

\* The binary search comes to the code whose leaf the word is in.
LEMMA SearchComesTo ==
  ASSUME TreeInv, DOMAIN code = Coded, NEW t \in Sorted, NEW w \in Int, Fits(t, w)
  PROVE  /\ Searched(SortedCodes, w) \in 1 .. Cardinality(SortedWords)
         /\ SortedCodes[Searched(SortedCodes, w)] = code[t]
<1>1. PICK f, n : f = SortedCodes /\ n = Cardinality(SortedWords)
  OBVIOUS
<1>2. /\ n \in Nat /\ f \in [1 .. n -> Int] /\ Rising(f, n)
      /\ \A x \in 1 .. n : f[x] \in SortedWords
      /\ \A v \in SortedWords : \E x \in 1 .. n : f[x] = v
  BY <1>1, SortedWordsAre, OrderedWords
<1>3. code[t] \in SortedWords /\ t \in Coded
  BY DEF SortedWords, Sorted
<1>4. PICK x \in 1 .. n : f[x] = code[t]
  BY <1>2, <1>3
<1>5. n \in Nat \ {0} /\ x \in Int
  BY <1>2
<1>6. PICK y : y = Searched(f, w) - 1
  OBVIOUS
<1>7. LastOf(y, f, w, 0, n) /\ Searched(f, w) \in 1 .. n
  BY <1>2, <1>5, <1>6, SearchFinds
<1>8. /\ y \in 0 .. (n - 1) /\ y + 1 = Searched(f, w)
      /\ y = 0 \/ f[y + 1] <= w
      /\ \A z \in 1 .. (n - 1) : f[z + 1] <= w => z <= y
  <2>1. /\ y \in 0 .. (0 + n - 1)
        /\ y = 0 \/ f[y + 1] <= w
        /\ \A z \in (0 + 1) .. (0 + n - 1) : f[z + 1] <= w => z <= y
    BY <1>7 DEF LastOf
  <2>2. 0 + n - 1 = n - 1 /\ 0 + 1 = 1 /\ y + 1 = Searched(f, w)
    BY <1>5, <1>6, <1>7
  <2>. QED BY <2>1, <2>2
<1>9. code[t] <= w /\ w < code[t] + Span[len[t]] /\ code[t] \in Nat /\ Span[len[t]] \in Nat
  BY <1>3, CodesAre DEF Fits
<1>10. x - 1 <= y
  <2>1. CASE x = 1
    BY <1>8, <2>1
  <2>2. CASE x # 1
    <3>1. x - 1 \in 1 .. (n - 1) /\ (x - 1) + 1 = x
      BY <1>5, <2>2
    <3>2. f[(x - 1) + 1] <= w
      BY <1>4, <1>9, <3>1
    <3>. QED BY <1>8, <3>1, <3>2
  <2>. QED BY <2>1, <2>2
<1>11. ~(x - 1 < y)
  <2>1. SUFFICES ASSUME x - 1 < y PROVE FALSE
    OBVIOUS
  <2>2. y + 1 \in 1 .. n /\ x < y + 1 /\ y # 0
    BY <1>5, <1>8, <2>1
  <2>3. f[x] < f[y + 1] /\ f[y + 1] <= w
    BY <1>2, <1>8, <2>2 DEF Rising
  <2>4. PICK s \in Sorted : f[y + 1] = code[s]
    BY <1>2, <2>2 DEF SortedWords
  <2>5. s \in Coded /\ code[s] \in Nat /\ Span[len[s]] \in Nat
    BY <2>4, CodesAre DEF Sorted
  <2>6. s # t
    BY <1>4, <1>9, <2>3, <2>4
  <2>7. code[s] + Span[len[s]] <= code[t] \/ code[t] + Span[len[t]] <= code[s]
    BY <1>3, <2>5, <2>6 DEF TreeInv, PrefixFree
  <2>. QED BY <1>4, <1>9, <2>3, <2>4, <2>5, <2>7
<1>12. y + 1 = x
  BY <1>5, <1>8, <1>10, <1>11
<1>. QED BY <1>1, <1>4, <1>7, <1>8, <1>12

LEMMA SearchedValue ==
  ASSUME TreeInv, DOMAIN code = Coded, NEW t \in Sorted, NEW w \in Int, Fits(t, w)
  PROVE  SortedValue(Searched(SortedCodes, w)) = t
<1>1. PICK f, n, x : f = SortedCodes /\ n = Cardinality(SortedWords) /\ x = Searched(SortedCodes, w)
  OBVIOUS
<1>2. n \in Nat /\ f \in [1 .. n -> Int] /\ Rising(f, n)
  BY <1>1, SortedWordsAre, OrderedWords
<1>3. x \in 1 .. n /\ f[x] = code[t]
  BY <1>1, SearchComesTo
<1>4. ASSUME NEW s \in Sorted
      PROVE  code[s] \in Int /\ Fits(s, code[s]) /\ s \in Coded
  <2>1. s \in Coded
    BY DEF Sorted
  <2>2. code[s] \in Nat /\ Span[len[s]] \in Nat \ {0}
    BY <2>1, CodesAre
  <2>. QED BY <2>1, <2>2 DEF Fits
<1>5. ASSUME NEW s \in Sorted
      PROVE  Searched(f, code[s]) \in 1 .. n /\ f[Searched(f, code[s])] = code[s]
  BY <1>1, <1>4, SearchComesTo
<1>6. \A j, k \in 1 .. n : f[j] = f[k] => j = k
  <2>1. \A j, k \in 1 .. n : j \in Int /\ k \in Int /\ f[j] \in Int /\ f[k] \in Int
    BY <1>2
  <2>. QED BY <1>2, <2>1 DEF Rising
<1>7. Searched(f, code[t]) = x
  BY <1>3, <1>5, <1>6
<1>8. ASSUME NEW s \in Sorted, Searched(f, code[s]) = x PROVE s = t
  <2>1. code[s] = code[t]
    BY <1>3, <1>5, <1>8
  <2>2. Fits(s, code[t]) /\ Fits(t, code[t]) /\ code[t] \in Int /\ s \in Coded /\ t \in Coded
    BY <1>4, <2>1
  <2>. QED BY <2>2, OneFits
<1>9. (CHOOSE s \in Sorted : Searched(f, code[s]) = x) = t
  BY <1>7, <1>8
<1>. QED BY <1>1, <1>9 DEF SortedValue

-----------------------------------------------------------------------------
\* The accumulator.

Stream ==
  /\ packet \in Seq({0, 1}) /\ Multiple(Len(packet), Byte)
  /\ fetched \in Nat /\ fetched <= Len(packet) /\ Multiple(fetched, Byte)
  /\ valid_bits \in -1 .. Depth /\ valid_bits <= fetched
  /\ valid_bits = -1 => fetched = Len(packet)
  /\ outcome # "built" => read.op = "none" /\ packet = <<>> /\ fetched = 0 /\ valid_bits = 0

LEMMA Divided ==
  ASSUME NEW a \in Nat, NEW d \in Nat \ {0}
  PROVE  a \div d \in Nat /\ (a \div d) * d <= a /\ a < (a \div d) * d + d
OBVIOUS

LEMMA ByteIs == Byte \in Nat \ {0} /\ Byte <= Depth /\ Fast \in Nat /\ Depth \in Nat \ {0}
BY PacketsAssumption, SpanShrinks

\* Whole bytes are put in, no more than there is room for, and no fewer unless the
\* packet ends.
LEMMA BytesAre ==
  ASSUME Stream, NEW n \in Nat, NEW more, more = Byte * Bytes(n)
  PROVE  /\ more \in Nat /\ more <= n + Byte - 1
         /\ fetched + more <= Len(packet) /\ Multiple(fetched + more, Byte)
         /\ more >= n \/ fetched + more = Len(packet)
<1>1. PICK d, q, r, m : d = Byte /\ q = (n + d - 1) \div d /\ r = Len(packet) - fetched /\ m = r \div d
  OBVIOUS
<1>2. /\ d \in Nat \ {0} /\ n + d - 1 \in Nat /\ r \in Nat /\ r = Len(packet) - fetched
      /\ Len(packet) \in Nat /\ fetched \in Nat
  BY <1>1, ByteIs DEF Stream
<1>3. q \in Nat /\ q * d <= n + d - 1 /\ n + d - 1 < q * d + d
  BY <1>1, <1>2, Divided
<1>4. m \in Nat /\ m * d <= r /\ r < m * d + d
  BY <1>1, <1>2, Divided
<1>5. Multiple(r, d)
  <2>1. PICK k \in Int : Len(packet) = k * d
    BY <1>1 DEF Stream, Multiple
  <2>2. PICK l \in Int : fetched = l * d
    BY <1>1 DEF Stream, Multiple
  <2>3. r = (k - l) * d /\ k - l \in Int
    BY <1>2, <2>1, <2>2
  <2>. QED BY <2>3 DEF Multiple
<1>6. m * d = r
  <2>1. PICK e : e = m * d
    OBVIOUS
  <2>2. Multiple(e, d)
    BY <1>4, <2>1 DEF Multiple
  <2>3. e \in Int /\ e <= r /\ r < e + d /\ r <= r /\ r < r + d
    BY <1>2, <1>4, <2>1
  <2>5. r \in Int /\ d \in Nat \ {0}
    BY <1>2
  <2>4. e = r
    BY <1>5, <2>2, <2>3, <2>5, MultiplesMeet
  <2>. QED BY <2>1, <2>4
<1>7. PICK b : b = Bytes(n)
  OBVIOUS
<1>8. b \in Nat /\ b <= q /\ b <= m /\ (b = q \/ b = m)
  <2>1. b = Lesser(q, m)
    BY <1>1, <1>7 DEF Bytes
  <2>. QED BY <1>3, <1>4, <2>1 DEF Lesser
<1>9. more = b * d
  BY <1>1, <1>2, <1>7, <1>8
<1>10. b * d <= q * d /\ b * d <= m * d
  <2>1. (q - b) * d >= 0 /\ (m - b) * d >= 0
    <3>1. q - b \in Nat /\ m - b \in Nat /\ d \in Nat
      BY <1>2, <1>3, <1>4, <1>8
    <3>. QED BY <3>1
  <2>. QED BY <1>2, <1>3, <1>4, <1>8, <2>1
<1>11. more \in Nat
  BY <1>2, <1>8, <1>9
<1>12. Multiple(fetched + more, Byte)
  <2>1. Multiple(more, Byte)
    BY <1>1, <1>8, <1>9 DEF Multiple
  <2>. QED BY <1>1, <1>2, <2>1, MultipleSum DEF Stream
<1>13. b = q => more >= n
  <2>1. PICK e : e = q * d
    OBVIOUS
  <2>2. e \in Nat /\ e + d > n + d - 1
    BY <1>2, <1>3, <2>1
  <2>. QED BY <1>2, <1>9, <2>1, <2>2
<1>14. b = m => more = r
  BY <1>6, <1>9
<1>15. more <= n + d - 1 /\ more <= r
  <2>1. PICK e : e = q * d
    OBVIOUS
  <2>2. e \in Nat /\ e <= n + d - 1 /\ more <= e /\ more <= r
    BY <1>2, <1>3, <1>6, <1>9, <1>10, <2>1
  <2>. QED BY <1>2, <1>11, <2>2
<1>16. d = Byte /\ r = Len(packet) - fetched /\ Len(packet) \in Nat /\ fetched \in Nat /\ d \in Nat
  BY <1>1, <1>2
<1>17. more >= n \/ more = r
  BY <1>8, <1>13, <1>14
<1>18. more <= n + Byte - 1
  BY <1>11, <1>15, <1>16
<1>19. fetched + more <= Len(packet) /\ (more = r => fetched + more = Len(packet))
  BY <1>11, <1>15, <1>16
<1>. QED BY <1>11, <1>12, <1>17, <1>18, <1>19

\* What DECODE has in front of it.
LEMMA PreparedIs ==
  ASSUME Stream, NEW v \in 0 .. Depth, NEW p, p = Prepared(v)
  PROVE  /\ p \in v .. Depth
         /\ (fetched - v) + p <= Len(packet) /\ Multiple((fetched - v) + p, Byte)
         /\ p >= Depth - Byte + 1 \/ (fetched - v) + p = Len(packet)
<1>1. PICK n, more : n = Room(v) /\ more = Byte * Bytes(n)
  OBVIOUS
<1>2. Byte \in Nat \ {0} /\ Byte <= Depth /\ Depth \in Nat \ {0} /\ fetched \in Nat /\ Len(packet) \in Nat
  BY ByteIs DEF Stream
<1>3. n \in Nat /\ (v <= Depth - Byte => n = Depth - Byte - v + 1) /\ (~(v <= Depth - Byte) => n = 0)
  BY <1>1, <1>2 DEF Room
<1>4. /\ more \in Nat /\ more <= n + Byte - 1
      /\ fetched + more <= Len(packet) /\ Multiple(fetched + more, Byte)
      /\ more >= n \/ fetched + more = Len(packet)
  BY <1>1, <1>3, BytesAre
<1>5. p = v + more
  BY <1>1 DEF Prepared
<1>6. (fetched - v) + p = fetched + more
  BY <1>2, <1>4, <1>5
<1>7. p \in v .. Depth
  <2>1. CASE v <= Depth - Byte
    BY <1>2, <1>3, <1>4, <1>5, <2>1
  <2>2. CASE ~(v <= Depth - Byte)
    <3>1. more <= Byte - 1
      BY <1>2, <1>3, <1>4, <2>2
    <3>2. Multiple(more, Byte)
      <4>1. PICK b : b = Bytes(n)
        OBVIOUS
      <4>2. more = Byte * b /\ b \in Int
        <5>1. (n + Byte - 1) \div Byte \in Int /\ (Len(packet) - fetched) \div Byte \in Int
          <6>1. n + Byte - 1 \in Nat /\ Len(packet) - fetched \in Nat
            BY <1>2, <1>3 DEF Stream
          <6>. QED BY <1>2, <6>1, Divided
        <5>. QED BY <1>1, <4>1, <5>1 DEF Bytes, Lesser
      <4>3. more = b * Byte
        BY <1>2, <4>2
      <4>. QED BY <4>2, <4>3 DEF Multiple
    <3>3. Multiple(0, Byte)
      <4>1. 0 = 0 * Byte
        BY <1>2
      <4>. QED BY <4>1 DEF Multiple
    <3>4. more = 0
      <4>1. 0 <= more /\ more < 0 + Byte /\ more <= more /\ more < more + Byte /\ more \in Int
        BY <1>2, <1>4, <3>1
      <4>. QED BY <1>2, <3>2, <3>3, <4>1, MultiplesMeet
    <3>. QED BY <1>2, <1>5, <3>4
  <2>. QED BY <2>1, <2>2
<1>8. more >= n => p >= Depth - Byte + 1
  BY <1>2, <1>3, <1>4, <1>5
<1>. QED BY <1>4, <1>6, <1>7, <1>8

-----------------------------------------------------------------------------
LEMMA ReachedIs ==
  ASSUME Stream
  PROVE  /\ Reached \in Nat /\ Reached <= fetched
         /\ valid_bits >= 0 => Reached = fetched - valid_bits
         /\ valid_bits < 0 => Reached = Len(packet) /\ Reached = fetched
BY ByteIs DEF Stream, Reached

\* The bits DECODE looks at, and the entries it comes to.
LooksAt(v1, v2, v, hits) ==
  /\ v1 = IF valid_bits < Fast THEN Prepared(valid_bits) ELSE valid_bits
  /\ v2 = Prepared(valid_bits)
  /\ v = IF InFastTable(v1) # {} THEN v1 ELSE v2
  /\ hits = IF InFastTable(v1) # {} THEN InFastTable(v1) ELSE Slow(v2)

LEMMA LookedAt ==
  ASSUME Stream, valid_bits >= 0, NEW v1, NEW v2, NEW v, NEW hits, LooksAt(v1, v2, v, hits)
  PROVE  /\ v1 \in 0 .. Depth /\ v2 \in 0 .. Depth /\ v1 <= v2 /\ valid_bits <= v1 /\ v \in {v1, v2}
         /\ v1 = v2 \/ (v1 = valid_bits /\ Fast <= v1)
         /\ Reached + v1 <= Len(packet) /\ Multiple(Reached + v1, Byte)
         /\ Reached + v2 <= Len(packet) /\ Multiple(Reached + v2, Byte)
         /\ v2 >= Depth - Byte + 1 \/ Reached + v2 = Len(packet)
<1>1. valid_bits \in 0 .. Depth /\ Reached = fetched - valid_bits /\ fetched \in Nat /\ Fast \in Nat
      /\ Depth \in Nat
  BY ByteIs, ReachedIs DEF Stream
<1>2. v2 = Prepared(valid_bits) /\ v \in {v1, v2}
      /\ (valid_bits < Fast => v1 = v2) /\ (~(valid_bits < Fast) => v1 = valid_bits)
  BY DEF LooksAt
<1>3. /\ v2 \in valid_bits .. Depth
      /\ Reached + v2 <= Len(packet) /\ Multiple(Reached + v2, Byte)
      /\ v2 >= Depth - Byte + 1 \/ Reached + v2 = Len(packet)
  BY <1>1, <1>2, PreparedIs
<1>4. Reached + valid_bits = fetched
  BY <1>1
<1>5. fetched <= Len(packet) /\ Multiple(fetched, Byte)
  BY DEF Stream
<1>6. v1 = v2 \/ (v1 = valid_bits /\ Fast <= v1)
  BY <1>1, <1>2
<1>7. v1 \in 0 .. Depth /\ v1 <= v2 /\ valid_bits <= v1
  BY <1>1, <1>3, <1>6
<1>8. Reached + v1 <= Len(packet) /\ Multiple(Reached + v1, Byte)
  BY <1>3, <1>4, <1>5, <1>6
<1>. QED BY <1>1, <1>2, <1>3, <1>6, <1>7, <1>8

\* If the word is in the leaf of a code then DECODE comes to it, through the fast
\* table or past it.
LEMMA HitIs ==
  ASSUME TreeInv, Aligned, Stream, DOMAIN code = Coded, valid_bits >= 0,
         NEW v1, NEW v2, NEW v, NEW hits, LooksAt(v1, v2, v, hits),
         NEW t \in Coded, Fits(t, Word(v2))
  PROVE  /\ hits = {t}
         /\ len[t] <= v2 => len[t] <= v
<1>1. /\ v1 \in 0 .. Depth /\ v2 \in 0 .. Depth /\ v1 <= v2 /\ v \in {v1, v2}
      /\ v1 = v2 \/ Fast <= v1
      /\ Reached + v1 <= Len(packet) /\ Reached + v2 <= Len(packet)
  BY LookedAt
<1>2. Depth \in Nat /\ Fast \in Nat /\ packet \in Seq({0, 1}) /\ Reached \in Nat
  BY ByteIs, ReachedIs DEF Stream
<1>3. v1 \in Nat /\ v2 \in Nat /\ Word(v1) = Bits(Reached, v1) /\ Word(v2) = Bits(Reached, v2)
  BY <1>1, <1>2 DEF Word
<1>4. Word(v2) \in Int
  <2>1. 0 \in 0 .. Depth /\ v2 \in 0 .. Depth /\ v2 \in 0 .. Depth
    BY <1>1, <1>2
  <2>2. Bits(Reached, v2) \in Nat
    BY <1>1, <1>2, <2>1, BitsFrom
  <2>. QED BY <1>3, <2>2
<1>5. \A s \in Coded : len[s] \in Nat
  BY CodesAre
<1>6. ASSUME NEW s \in Coded, len[s] <= Fast PROVE Fits(s, Word(v1)) <=> Fits(s, Word(v2))
  <2>1. CASE v1 = v2
    BY <2>1
  <2>2. CASE Fast <= v1
    <3>1. len[s] <= v1 /\ len[s] <= v2
      BY <1>1, <1>2, <1>3, <1>5, <1>6, <2>2
    <3>2. Fits(s, Bits(Reached, v1)) <=> Fits(s, Bits(Reached, len[s]))
      BY <1>1, <1>2, <3>1, BitsOfItsOwn
    <3>3. Fits(s, Bits(Reached, v2)) <=> Fits(s, Bits(Reached, len[s]))
      BY <1>1, <1>2, <3>1, BitsOfItsOwn
    <3>. QED BY <1>3, <3>2, <3>3
  <2>. QED BY <1>1, <2>1, <2>2
<1>7. CASE InFastTable(v1) # {}
  <2>1. v = v1 /\ hits = InFastTable(v1)
    BY <1>7 DEF LooksAt
  <2>2. ASSUME NEW s \in InFastTable(v1) PROVE s = t /\ len[s] <= Fast
    <3>1. s \in Coded /\ len[s] <= Fast /\ Fits(s, Word(v1))
      BY DEF InFastTable
    <3>2. Fits(s, Word(v2))
      BY <1>6, <3>1
    <3>. QED BY <1>4, <3>1, <3>2, OneFits
  <2>3. hits = {t} /\ len[t] <= Fast
    BY <1>7, <2>1, <2>2
  <2>4. len[t] <= v2 => len[t] <= v
    <3>1. CASE v1 = v2
      BY <2>1, <3>1
    <3>2. CASE Fast <= v1
      BY <1>2, <1>3, <1>5, <2>1, <2>3, <3>2
    <3>. QED BY <1>1, <3>1, <3>2
  <2>. QED BY <2>3, <2>4
<1>8. CASE InFastTable(v1) = {}
  <2>1. v = v2 /\ hits = Slow(v2)
    BY <1>8 DEF LooksAt
  <2>2. ~(len[t] <= Fast)
    <3>1. SUFFICES ASSUME len[t] <= Fast PROVE FALSE
      OBVIOUS
    <3>2. Fits(t, Word(v1))
      BY <1>6, <3>1
    <3>. QED BY <1>8, <3>1, <3>2 DEF InFastTable
  <2>3. t \in Sorted
    <3>1. len[t] > Fast
      BY <1>2, <1>5, <2>2
    <3>. QED BY <3>1 DEF Sorted
  <2>4. CASE Searches
    <3>1. Slow(v2) = {SortedValue(Searched(SortedCodes, Word(v2)))}
      BY <2>4 DEF Slow
    <3>2. SortedValue(Searched(SortedCodes, Word(v2))) = t
      BY <1>4, <2>3, SearchedValue
    <3>. QED BY <2>1, <3>1, <3>2
  <2>5. CASE ~Searches
    <3>1. Slow(v2) = OneByOne(v2)
      BY <2>5 DEF Slow
    <3>2. {s \in Coded : Fits(s, Word(v2))} = {t}
      <4>1. \A s \in Coded : Fits(s, Word(v2)) => s = t
        BY <1>4, OneFits
      <4>. QED BY <4>1
    <3>3. t <= t
      BY CodesAre
    <3>4. OneByOne(v2) = {s \in {t} : \A u \in {t} : s <= u}
      BY <3>2 DEF OneByOne
    <3>. QED BY <2>1, <3>1, <3>3, <3>4
  <2>. QED BY <2>1, <2>4, <2>5
<1>. QED BY <1>7, <1>8

-----------------------------------------------------------------------------
\* Nothing is between the leaves.

InLeaf(y, w) == Free(y) /\ available[y] <= w /\ w < available[y] + Span[y]

\* Every word is in the leaf of a code or in a free one.
Covered ==
  DOMAIN code # {} =>
    \A w \in 0 .. (Span[0] - 1) : (\E s \in DOMAIN code : Fits(s, w)) \/ (\E y \in Levels : InLeaf(y, w))

\* The other half that a word below a leaf, and not below its lowest part, is in.
LEMMA OnTheWayDown ==
  ASSUME NEW a \in 0 .. Depth, NEW n \in a .. Depth, NEW w \in Int, Span[n] <= w, w < Span[a]
  PROVE  \E y \in (a + 1) .. n : Span[y] <= w /\ w < 2 * Span[y]
<1>1. Depth \in Nat /\ a \in Nat /\ n \in Nat /\ \A z \in 0 .. Depth : Span[z] \in Nat
  BY SpanShrinks
<1> DEFINE below == {y \in a .. n : Span[y] <= w}
<1>2. PICK y \in below : \A z \in below : y <= z
  <2>1. below \subseteq Nat /\ n \in below
    BY <1>1
  <2> HIDE DEF below
  <2>. QED BY <2>1, Smallest
<1>3. y \in a .. n /\ Span[y] <= w /\ y \in Int
  BY <1>1, <1>2
<1>4. y # a
  <2>1. Span[a] \in Int
    BY <1>1
  <2>. QED BY <1>3, <2>1
<1>5. y \in (a + 1) .. n /\ y - 1 \in a .. n /\ y \in 1 .. Depth /\ y - 1 \in 0 .. Depth
  BY <1>1, <1>3, <1>4
<1>6. ~(y - 1 \in below)
  <2>1. ~(y <= y - 1)
    BY <1>3
  <2> HIDE DEF below
  <2>. QED BY <1>2, <2>1
<1>7. w < Span[y - 1]
  <2>1. Span[y - 1] \in Int
    BY <1>1, <1>5
  <2>. QED BY <1>5, <1>6, <2>1
<1>8. Span[y - 1] = 2 * Span[y]
  BY <1>5, SpanAssumption
<1>. QED BY <1>3, <1>5, <1>7, <1>8

LEMMA SpanIsMultiple ==
  ASSUME NEW y \in 0 .. Depth
  PROVE  Multiple(Span[y], Span[y]) /\ Multiple(0, Span[y])
<1>1. Span[y] \in Int
  BY SpanShrinks
<1>2. Span[y] = 1 * Span[y] /\ 0 = 0 * Span[y]
  BY <1>1
<1>. QED BY <1>2 DEF Multiple

LEMMA FirstEntryCovers ==
  ASSUME TreeInv, FirstEntry
  PROVE  Aligned' /\ Covered'
<1>1. PICK n : n = len[i]
  OBVIOUS
<1>2. /\ i \in Coded /\ n \in Levels /\ book' = book /\ len' = len
      /\ code' = [s \in {i} |-> 0]
      /\ available' = [y \in Levels |-> IF y <= n THEN Span[y] ELSE 0]
  BY <1>1, CodedLevels DEF FirstEntry, TreeInv, AssignTo, len
<1>3. Depth \in Nat /\ n \in 0 .. Depth /\ 0 \in 0 .. Depth /\ \A y \in Levels : y \in 0 .. Depth /\ Span[y] \in Nat \ {0}
  BY <1>2, SpanShrinks DEF Levels
<1>4. Aligned'
  <2>1. \A s \in DOMAIN code' : Multiple(code'[s], Span[len'[s]])
    BY <1>1, <1>2, <1>3, SpanIsMultiple
  <2>2. \A y \in Levels : Multiple(available'[y], Span[y])
    BY <1>2, <1>3, SpanIsMultiple
  <2>. QED BY <2>1, <2>2 DEF Aligned
<1>5. ASSUME NEW w \in 0 .. (Span[0] - 1)
      PROVE  (\E s \in DOMAIN code' : Fits(s, w)') \/ (\E y \in Levels : InLeaf(y, w)')
  <2>1. Span[0] \in Nat /\ w \in Nat /\ w < Span[0] /\ Span[n] \in Nat
    <3>1. Span[0] \in Nat /\ Span[n] \in Nat
      BY <1>3, SpanShrinks
    <3>. QED BY <3>1
  <2>2. CASE w < Span[n]
    <3>1. i \in DOMAIN code' /\ code'[i] = 0
      BY <1>2
    <3>2. 0 <= w /\ w < 0 + Span[n]
      BY <2>1, <2>2
    <3>. QED BY <1>1, <1>2, <3>1, <3>2 DEF Fits
  <2>3. CASE Span[n] <= w
    <3>1. PICK y \in 1 .. n : Span[y] <= w /\ w < 2 * Span[y]
      <4>1. n \in 0 .. Depth /\ 0 + 1 = 1
        BY <1>3
      <4>. QED BY <1>3, <2>1, <2>3, <4>1, OnTheWayDown
    <3>2. y \in Levels /\ y <= n
      BY <1>2, <1>3, <3>1, LevelsAre DEF Levels
    <3>3. available'[y] = Span[y] /\ Span[y] \in Nat \ {0}
      BY <1>2, <1>3, <3>2
    <3>4. Span[y] <= w /\ w < Span[y] + Span[y] /\ Span[y] # 0
      BY <2>1, <3>1, <3>3
    <3>. QED BY <3>2, <3>3, <3>4 DEF InLeaf, Free
  <2>. QED BY <2>1, <2>2, <2>3
<1>. QED BY <1>4, <1>5 DEF Covered

LEMMA AddEntryCovers ==
  ASSUME TreeInv, Aligned, Covered, AddEntry
  PROVE  Aligned' /\ Covered'
<1>1. PICK z \in LowestLevel(len[i]) : AssignTo(available[z]) /\ available' = LeavesBehind(z, len[i])
  BY DEF AddEntry
<1>2. PICK n, leaf : n = len[i] /\ leaf = available[z]
  OBVIOUS
<1>3. /\ i \in Coded /\ n \in Levels /\ book' = book /\ len' = len /\ i \notin DOMAIN code /\ DOMAIN code # {}
  BY <1>2, CodedLevels DEF AddEntry, TreeInv, Shape, len
<1>4. /\ z \in Levels /\ z <= n /\ Free(z) /\ leaf \in Nat
      /\ available' = [y \in Levels |-> IF y = z THEN 0
                         ELSE IF z < y /\ y <= n THEN leaf + Span[y] ELSE available[y]]
      /\ code' = [s \in DOMAIN code \cup {i} |-> IF s = i THEN leaf ELSE code[s]]
  BY <1>1, <1>2, <1>3, Halves DEF TreeInv, AssignTo, LeavesBehind
<1>5. Depth \in Nat /\ n \in z .. Depth /\ \A y \in Levels : y \in Int /\ y \in 0 .. Depth /\ Span[y] \in Nat \ {0}
  <2>1. \A y \in Levels : y \in Int /\ y \in 0 .. Depth /\ Span[y] \in Nat \ {0}
    BY SpanShrinks DEF Levels
  <2>. QED BY <1>3, <1>4, <2>1, SpanShrinks DEF Levels
<1>6. Multiple(leaf, Span[z])
  BY <1>2, <1>4 DEF Aligned
<1>7. Aligned'
  <2>1. ASSUME NEW s \in DOMAIN code' PROVE Multiple(code'[s], Span[len'[s]])
    <3>1. CASE s = i
      <4>1. Multiple(leaf, Span[n])
        BY <1>4, <1>5, <1>6, MultipleOfSpan
      <4>. QED BY <1>2, <1>3, <1>4, <3>1, <4>1
    <3>2. CASE s # i
      BY <1>3, <1>4, <2>1, <3>2 DEF Aligned
    <3>. QED BY <3>1, <3>2
  <2>2. ASSUME NEW y \in Levels PROVE Multiple(available'[y], Span[y])
    <3>1. CASE y = z
      BY <1>4, <1>5, <3>1, SpanIsMultiple
    <3>2. CASE y # z /\ z < y /\ y <= n
      <4>1. Multiple(leaf, Span[y])
        <5>1. y \in z .. Depth
          BY <1>4, <1>5, <3>2
        <5>. QED BY <1>4, <1>5, <1>6, <5>1, MultipleOfSpan
      <4>2. Multiple(leaf + Span[y], Span[y])
        BY <1>5, <4>1, SpanIsMultiple, MultipleSum
      <4>. QED BY <1>4, <3>2, <4>2
    <3>3. CASE y # z /\ ~(z < y /\ y <= n)
      BY <1>4, <3>3 DEF Aligned
    <3>. QED BY <3>1, <3>2, <3>3
  <2>. QED BY <2>1, <2>2 DEF Aligned
<1>8. ASSUME NEW w \in 0 .. (Span[0] - 1)
      PROVE  (\E s \in DOMAIN code' : Fits(s, w)') \/ (\E y \in Levels : InLeaf(y, w)')
  <2>1. w \in Int /\ Span[n] \in Nat /\ Span[z] \in Nat
    BY <1>3, <1>4, <1>5, SpanShrinks
  <2>2. CASE \E s \in DOMAIN code : Fits(s, w)
    <3>1. PICK s \in DOMAIN code : Fits(s, w)
      BY <2>2
    <3>2. s \in DOMAIN code' /\ code'[s] = code[s]
      BY <1>3, <1>4
    <3>. QED BY <1>3, <3>1, <3>2 DEF Fits
  <2>3. CASE \E y \in Levels : InLeaf(y, w)
    <3>1. PICK y \in Levels : Free(y) /\ available[y] <= w /\ w < available[y] + Span[y]
      BY <2>3 DEF InLeaf
    <3>2. CASE y # z
      <4>1. ~(z < y /\ y <= n)
        <5>1. SUFFICES ASSUME z < y, y <= n PROVE FALSE
          OBVIOUS
        <5>2. y \in (z + 1) .. n
          BY <1>3, <1>4, <1>5, <5>1
        <5>. QED BY <1>1, <1>2, <3>1, <5>2 DEF LowestLevel, Free
      <4>2. available'[y] = available[y]
        BY <1>4, <3>2, <4>1
      <4>. QED BY <3>1, <4>2 DEF InLeaf, Free
    <3>3. CASE y = z
      <4>1. PICK d : d = w - leaf
        OBVIOUS
      <4>2. d \in Nat /\ d < Span[z] /\ w = leaf + d
        BY <1>2, <1>4, <2>1, <3>1, <3>3, <4>1
      <4>3. CASE d < Span[n]
        <5>1. i \in DOMAIN code' /\ code'[i] = leaf
          BY <1>4
        <5>2. leaf <= w /\ w < leaf + Span[n]
          BY <1>4, <2>1, <4>2, <4>3
        <5>. QED BY <1>2, <1>3, <5>1, <5>2 DEF Fits
      <4>4. CASE Span[n] <= d
        <5>1. PICK x \in (z + 1) .. n : Span[x] <= d /\ d < 2 * Span[x]
          BY <1>4, <1>5, <4>2, <4>4, OnTheWayDown
        <5>2. x \in Levels /\ x # z /\ z < x /\ x <= n
          BY <1>3, <1>4, <1>5, <5>1 DEF Levels
        <5>3. available'[x] = leaf + Span[x] /\ Span[x] \in Nat \ {0}
          BY <1>4, <1>5, <5>2
        <5>4. leaf + Span[x] # 0 /\ leaf + Span[x] <= w /\ w < leaf + Span[x] + Span[x]
          BY <1>4, <4>2, <5>1, <5>3
        <5>. QED BY <5>2, <5>3, <5>4 DEF InLeaf, Free
      <4>. QED BY <2>1, <4>2, <4>3, <4>4
    <3>. QED BY <3>2, <3>3
  <2>. QED BY <1>3, <2>2, <2>3 DEF Covered
<1>. QED BY <1>7, <1>8 DEF Covered

LEMMA LeavesStep ==
  ASSUME TreeInv, Aligned, Covered, [Next]_vars
  PROVE  Aligned' /\ Covered'
<1>1. CASE UNCHANGED <<book, available, code>>
  BY <1>1 DEF Aligned, Covered, Fits, InLeaf, Free, len
<1>2. CASE FirstEntry
  BY <1>2, FirstEntryCovers
<1>3. CASE AddEntry
  BY <1>3, AddEntryCovers
<1>. QED BY <1>1, <1>2, <1>3 DEF Next, Build, SkipEntry, Refuse, Finish, Decode, GetBits, vars, tree

-----------------------------------------------------------------------------
\* In a full tree no leaf is free, and every word is in the leaf of a code.
LEMMA FullTree ==
  ASSUME TreeInv, KraftInv, Covered, DOMAIN code = Coded, Coded # {},
         SumFunctionOnSet(Words, Coded) = Span[0], NEW w \in 0 .. (Span[0] - 1)
  PROVE  \E t \in Coded : Fits(t, w)
<1>1. PICK f : f = FreeWords(available)
  OBVIOUS
<1>2. \A y \in Levels : f[y] \in Int /\ f[y] >= 0 /\ (available[y] # 0 => f[y] > 0)
  BY <1>1, SpanShrinks DEF FreeWords
<1>3. SumFunctionOnSet(f, Levels) = 0
  <2>1. SumFunctionOnSet(Words, Coded) + SumFunctionOnSet(f, Levels) = Span[0]
    BY <1>1 DEF KraftInv, Shared
  <2>2. SumFunctionOnSet(f, Levels) \in Int /\ Span[0] \in Int
    BY <1>1, FreeWordsFit, SpanShrinks DEF TreeInv, Shape
  <2>. QED BY <2>1, <2>2
<1>4. ASSUME NEW y \in Levels, available[y] # 0 PROVE FALSE
  <2>1. IsFiniteSet(Levels) /\ IsFiniteSet(Levels \ {y})
    BY LevelsAre, FS_Subset
  <2>2. SumFunctionOnSet(f, Levels) = f[y] + SumFunctionOnSet(f, Levels \ {y})
    BY <1>2, <2>1, SumOfOneMore
  <2>3. PICK none : none = [x \in Levels |-> 0]
    OBVIOUS
  <2>4. SumFunctionOnSet(none, Levels \ {y}) = 0
    BY <2>1, <2>3, SumOfZeros
  <2>5. SumFunctionOnSet(none, Levels \ {y}) <= SumFunctionOnSet(f, Levels \ {y})
    BY <1>2, <2>1, <2>3, SumIsAtMost
  <2>6. SumFunctionOnSet(f, Levels \ {y}) \in Int
    BY <1>2, <2>1, SumIsInt
  <2>7. f[y] \in Int /\ f[y] > 0
    BY <1>2, <1>4
  <2>. QED BY <1>3, <2>2, <2>4, <2>5, <2>6, <2>7
<1>5. ~(\E y \in Levels : InLeaf(y, w))
  BY <1>4 DEF InLeaf, Free
<1>. QED BY <1>5 DEF Covered

-----------------------------------------------------------------------------
\* The calls.

Full == SumFunctionOnSet(Words, Coded) = Span[0]
GoesOn(from, s) == from + len[s] <= Len(packet) /\ Fits(s, Bits(from, len[s]))

\* A book that is built has all its codes.
Whole == outcome = "built" => DOMAIN code = Coded

LEMMA BitsSame ==
  ASSUME UNCHANGED <<book, code, packet>>
  PROVE  /\ Coded' = Coded /\ len' = len /\ (Full' <=> Full)
         /\ \A s : GoesOnWith(s)' <=> GoesOn(read'.from, s)
<1>1. len' = len /\ Coded' = Coded /\ code' = code /\ packet' = packet
  BY DEF len, Coded
<1>2. Words' = Words
  BY <1>1 DEF Words
<1>3. (Full' <=> Full)
  BY <1>1, <1>2 DEF Full
<1>4. ASSUME NEW s PROVE GoesOnWith(s)' <=> GoesOn(read'.from, s)
  <2>1. PICK R, n : R = read'.from /\ n = len[s]
    OBVIOUS
  <2>2. len'[s] = n
    BY <1>1, <2>1
  <2>3. [j \in 1 .. n |-> packet'[R + j] * Span[j]] = [j \in 1 .. n |-> packet[R + j] * Span[j]]
    BY <1>1
  <2>4. GoesOnWith(s)' <=>
          /\ R + n <= Len(packet')
          /\ code'[s] <= SumFunctionOnSet([j \in 1 .. n |-> packet'[R + j] * Span[j]], 1 .. n)
          /\ SumFunctionOnSet([j \in 1 .. n |-> packet'[R + j] * Span[j]], 1 .. n) < code'[s] + Span[n]
    BY <2>1, <2>2, Zenon DEF GoesOnWith, Fits, Bits
  <2>5. GoesOn(read'.from, s) <=>
          /\ R + n <= Len(packet)
          /\ code[s] <= SumFunctionOnSet([j \in 1 .. n |-> packet[R + j] * Span[j]], 1 .. n)
          /\ SumFunctionOnSet([j \in 1 .. n |-> packet[R + j] * Span[j]], 1 .. n) < code[s] + Span[n]
    BY <2>1, Zenon DEF GoesOn, Fits, Bits
  <2>. QED BY <1>1, <2>3, <2>4, <2>5, Zenon
<1>5. \A s : GoesOnWith(s)' <=> GoesOn(read'.from, s)
  BY <1>4
<1>. QED BY <1>1, <1>3, <1>5

\* The last call, told of by what it came to.
Decodes ==
  \A g : g = read.got =>
    /\ (read.op = "symbol" /\ Full) => GoesOnWith(g)
    /\ read.op \in {"symbol", "fails"} =>
         \A s \in Coded : GoesOnWith(s) /\ len[s] <= Depth - Byte + 1 => g = s

LEMMA DecodesIs == DecodesTheSymbol <=> Decodes
BY Zenon DEF DecodesTheSymbol, Decodes, Full

LEMMA DecodesIsNext == DecodesTheSymbol' <=> Decodes'
BY DecodesIs, PTL

\* The search comes to an entry in any case.
LEMMA SearchComesToOne ==
  ASSUME TreeInv, DOMAIN code = Coded, Sorted # {}, NEW w \in Int
  PROVE  SortedValue(Searched(SortedCodes, w)) \in Sorted
<1>1. PICK f, n, x : f = SortedCodes /\ n = Cardinality(SortedWords) /\ x = Searched(SortedCodes, w)
  OBVIOUS
<1>2. /\ n \in Nat /\ f \in [1 .. n -> Int] /\ Rising(f, n)
      /\ \A y \in 1 .. n : f[y] \in SortedWords
      /\ \A v \in SortedWords : \E y \in 1 .. n : f[y] = v
  BY <1>1, SortedWordsAre, OrderedWords
<1>3. n \in Nat \ {0}
  <2>1. PICK t : t \in Sorted
    OBVIOUS
  <2>2. code[t] \in SortedWords
    BY <2>1 DEF SortedWords
  <2>. QED BY <1>2, <2>2
<1>4. x \in 1 .. n
  BY <1>1, <1>2, <1>3, SearchFinds
<1>5. PICK s \in Sorted : f[x] = code[s]
  BY <1>2, <1>4 DEF SortedWords
<1>6. code[s] \in Int /\ Fits(s, code[s])
  <2>1. code[s] \in Nat /\ Span[len[s]] \in Nat \ {0}
    BY CodesAre DEF Sorted
  <2>. QED BY <2>1 DEF Fits
<1>7. Searched(f, code[s]) \in 1 .. n /\ f[Searched(f, code[s])] = code[s]
  BY <1>1, <1>6, SearchComesTo
<1>8. Searched(f, code[s]) = x
  <2>1. PICK y : y = Searched(f, code[s])
    OBVIOUS
  <2>2. y \in 1 .. n /\ f[y] = f[x] /\ y \in Int /\ x \in Int /\ f[x] \in Int
    BY <1>2, <1>4, <1>5, <1>7, <2>1
  <2>3. ~(y < x) /\ ~(x < y)
    BY <1>2, <1>4, <2>2 DEF Rising
  <2>. QED BY <2>1, <2>2, <2>3
<1>9. (CHOOSE u \in Sorted : Searched(f, code[u]) = x) \in Sorted
  BY <1>8
<1>. QED BY <1>1, <1>9 DEF SortedValue

LEMMA HitsAreCoded ==
  ASSUME TreeInv, Stream, DOMAIN code = Coded, Coded # {}, valid_bits >= 0,
         NEW v1, NEW v2, NEW v, NEW hits, LooksAt(v1, v2, v, hits), NEW s \in hits
  PROVE  s \in Coded
<1>1. CASE InFastTable(v1) # {}
  BY <1>1 DEF LooksAt, InFastTable
<1>2. CASE InFastTable(v1) = {} /\ ~Searches
  BY <1>2 DEF LooksAt, Slow, OneByOne
<1>3. CASE InFastTable(v1) = {} /\ Searches
  <2>1. s = SortedValue(Searched(SortedCodes, Word(v2)))
    BY <1>3 DEF LooksAt, Slow
  <2>2. Sorted # {}
    BY <1>3 DEF Searches, Sorted
  <2>3. Word(v2) \in Int
    <3>1. v2 \in 0 .. Depth /\ Reached \in Nat /\ Reached + v2 <= Len(packet) /\ packet \in Seq({0, 1}) /\ 0 \in 0 .. Depth
      BY LookedAt, ReachedIs, ByteIs DEF Stream
    <3>. QED BY <3>1, BitsFrom DEF Word
  <2>4. s \in Sorted
    BY <2>1, <2>2, <2>3, SearchComesToOne
  <2>. QED BY <2>4 DEF Sorted
<1>. QED BY <1>1, <1>2, <1>3

\* What DECODE may do, with something in front of it.
LEMMA DecodeComesTo ==
  ASSUME TreeInv, Aligned, KraftInv, Covered, Whole, Stream, Decode, valid_bits >= 0
  PROVE  \E v \in Nat :
           /\ Reached + v <= Len(packet) /\ Multiple(Reached + v, Byte) /\ v <= Depth
           /\ \A t \in Coded : GoesOn(Reached, t) /\ len[t] <= Depth - Byte + 1 =>
                                 len[t] <= v /\ Takes("symbol", v, len[t], t)
           /\ \/ Fails("fails", v, 0)
              \/ \E s \in Coded : /\ len[s] <= v /\ Takes("symbol", v, len[s], s)
                                  /\ Full => GoesOn(Reached, s)
<1>1. DOMAIN code = Coded /\ Coded # {}
  BY DEF Decode, Whole
<1>2. PICK v1, v2, v, hits :
        /\ LooksAt(v1, v2, v, hits)
        /\ \/ \E s \in hits : IF Enough(v, len[s]) THEN Takes("symbol", v, len[s], s) ELSE Fails("fails", v, 0)
           \/ hits = {} /\ Fails("fails", v, 0)
  <2>1. ~(valid_bits < 0)
    <3>1. valid_bits \in Int
      BY ByteIs DEF Stream
    <3>. QED BY <3>1
  <2>2. PICK v1, v2 : /\ v1 = IF valid_bits < Fast THEN Prepared(valid_bits) ELSE valid_bits
                      /\ v2 = Prepared(valid_bits)
    OBVIOUS
  <2>3. PICK v, hits : /\ v = IF InFastTable(v1) # {} THEN v1 ELSE v2
                       /\ hits = IF InFastTable(v1) # {} THEN InFastTable(v1) ELSE Slow(v2)
    OBVIOUS
  <2>4. LooksAt(v1, v2, v, hits)
    BY <2>2, <2>3, Zenon DEF LooksAt
  <2>5. \/ \E s \in hits : IF Enough(v, len[s]) THEN Takes("symbol", v, len[s], s) ELSE Fails("fails", v, 0)
        \/ hits = {} /\ Fails("fails", v, 0)
    BY <2>1, <2>2, <2>3, Zenon DEF Decode
  <2>. QED BY <2>4, <2>5
<1>3. /\ v1 \in 0 .. Depth /\ v2 \in 0 .. Depth /\ v1 <= v2 /\ v \in {v1, v2}
      /\ Reached + v1 <= Len(packet) /\ Multiple(Reached + v1, Byte)
      /\ Reached + v2 <= Len(packet) /\ Multiple(Reached + v2, Byte)
      /\ v2 >= Depth - Byte + 1 \/ Reached + v2 = Len(packet)
  BY <1>2, LookedAt
<1>4. Depth \in Nat /\ Byte \in Nat /\ Reached \in Nat /\ packet \in Seq({0, 1}) /\ Len(packet) \in Nat
  BY ByteIs, ReachedIs DEF Stream
<1>5. v \in Nat /\ v <= Depth /\ v <= v2 /\ v2 \in Nat /\ Reached + v <= Len(packet) /\ Multiple(Reached + v, Byte)
  BY <1>3, <1>4
<1>6. \A s \in Coded : len[s] \in Nat
  BY <1>1, CodesAre
<1>7. Word(v2) \in 0 .. (Span[0] - 1)
  <2>1. 0 \in 0 .. Depth /\ v2 \in 0 .. Depth
    BY <1>3, <1>4
  <2>2. Bits(Reached, v2) \in Nat /\ Bits(Reached, v2) + Span[v2] <= Bits(Reached, 0) + Span[0]
    BY <1>3, <1>4, <2>1, BitsFrom
  <2>3. Bits(Reached, 0) = 0
    BY <1>4, BitsNext
  <2>4. Span[v2] \in Nat \ {0} /\ Span[0] \in Nat
    BY <2>1, SpanShrinks
  <2>5. PICK b : b = Bits(Reached, v2)
    OBVIOUS
  <2>6. b \in 0 .. (Span[0] - 1)
    BY <2>2, <2>3, <2>4, <2>5
  <2>. QED BY <2>5, <2>6 DEF Word
<1>8. ASSUME NEW t \in Coded, GoesOn(Reached, t), len[t] <= Depth - Byte + 1
      PROVE  len[t] <= v /\ Takes("symbol", v, len[t], t)
  <2>1. Reached + len[t] <= Len(packet) /\ Fits(t, Bits(Reached, len[t]))
    BY <1>8 DEF GoesOn
  <2>2. len[t] <= v2
    BY <1>3, <1>4, <1>5, <1>6, <1>8, <2>1
  <2>3. Fits(t, Word(v2))
    BY <1>1, <1>3, <1>4, <2>1, <2>2, BitsOfItsOwn DEF Word
  <2>4. hits = {t} /\ len[t] <= v
    BY <1>1, <1>2, <2>2, <2>3, HitIs
  <2>5. Enough(v, len[t])
    BY <1>5, <1>6, <2>4 DEF Enough
  <2>. QED BY <1>2, <2>4, <2>5
<1>9. ASSUME NEW s \in hits, Enough(v, len[s]), Takes("symbol", v, len[s], s)
      PROVE  s \in Coded /\ len[s] <= v /\ (Full => GoesOn(Reached, s))
  <2>1. s \in Coded
    BY <1>1, <1>2, HitsAreCoded
  <2>2. len[s] <= v /\ len[s] <= v2
    BY <1>5, <1>6, <1>9, <2>1 DEF Enough
  <2>3. ASSUME Full PROVE GoesOn(Reached, s)
    <3>1. PICK t \in Coded : Fits(t, Word(v2))
      BY <1>1, <1>7, <2>3, FullTree DEF Full
    <3>2. s = t
      <4>1. hits = {t}
        BY <1>1, <1>2, <3>1, HitIs
      <4>. QED BY <1>9, <4>1
    <3>3. Fits(s, Bits(Reached, len[s]))
      BY <1>1, <1>3, <1>4, <2>1, <2>2, <3>1, <3>2, BitsOfItsOwn DEF Word
    <3>4. Reached + len[s] <= Len(packet)
      BY <1>3, <1>4, <1>5, <1>6, <2>1, <2>2
    <3>. QED BY <3>3, <3>4 DEF GoesOn
  <2>. QED BY <2>1, <2>2, <2>3
<1>10. \/ Fails("fails", v, 0)
       \/ \E s \in Coded : /\ len[s] <= v /\ Takes("symbol", v, len[s], s)
                           /\ Full => GoesOn(Reached, s)
  BY <1>2, <1>9, Zenon
<1>. QED BY <1>5, <1>8, <1>10

LEMMA DecodeKeeps ==
  ASSUME TreeInv, Aligned, KraftInv, Covered, Whole, Stream, Decode
  PROVE  Stream' /\ DecodesTheSymbol'
<1>1. DOMAIN code = Coded /\ outcome = "built" /\ UNCHANGED <<tree, packet>>
  BY DEF Decode, Whole, Fails, Takes
<1>2. /\ Coded' = Coded /\ len' = len /\ (Full' <=> Full)
      /\ \A s : GoesOnWith(s)' <=> GoesOn(read'.from, s)
  BY <1>1, BitsSame DEF tree
<1>3. /\ Reached \in Nat /\ Len(packet) \in Nat /\ fetched \in Nat /\ Depth \in Nat
      /\ packet \in Seq({0, 1}) /\ Multiple(Len(packet), Byte) /\ outcome' = "built" /\ packet' = packet
  BY <1>1, ReachedIs, ByteIs DEF Stream, tree
<1>4. \A s \in Coded : len[s] \in Nat /\ len[s] >= 1
  BY <1>1, CodesAre
<1>5. DecodesTheSymbol' <=>
        /\ read'.op = "symbol" /\ Full => GoesOn(read'.from, read'.got)
        /\ read'.op \in {"symbol", "fails"} =>
             \A s \in Coded : GoesOn(read'.from, s) /\ len[s] <= Depth - Byte + 1 => read'.got = s
  BY <1>2, DecodesIsNext, Zenon DEF Decodes
<1>6. CASE valid_bits < 0
  <2>1. fetched' = Reached + 0 /\ valid_bits' = 0 /\ read' = [op |-> "fails", from |-> Reached, got |-> 0]
    BY <1>6 DEF Decode, Fails
  <2>2. Reached = Len(packet) /\ fetched' = Len(packet)
    BY <1>3, <1>6, <2>1, ReachedIs
  <2>3. Stream'
    BY <1>3, <2>1, <2>2 DEF Stream
  <2>4. \A s \in Coded : ~GoesOn(Reached, s)
    BY <1>3, <1>4, <2>2 DEF GoesOn
  <2>5. read'.op = "fails" /\ read'.from = Reached
    BY <2>1
  <2>. QED BY <1>5, <2>3, <2>4, <2>5
<1>7. CASE valid_bits >= 0
  <2>1. PICK v \in Nat :
           /\ Reached + v <= Len(packet) /\ Multiple(Reached + v, Byte) /\ v <= Depth
           /\ \A t \in Coded : GoesOn(Reached, t) /\ len[t] <= Depth - Byte + 1 =>
                                 len[t] <= v /\ Takes("symbol", v, len[t], t)
           /\ \/ Fails("fails", v, 0)
              \/ \E s \in Coded : /\ len[s] <= v /\ Takes("symbol", v, len[s], s)
                                  /\ Full => GoesOn(Reached, s)
    BY <1>7, DecodeComesTo
  <2>2. \A t \in Coded : GoesOn(Reached, t) /\ len[t] <= Depth - Byte + 1 => read'.got = t
    BY <2>1 DEF Takes
  <2>3. CASE Fails("fails", v, 0)
    <3>1. fetched' = Reached + v /\ valid_bits' = 0 /\ read' = [op |-> "fails", from |-> Reached, got |-> 0]
      BY <2>3 DEF Fails
    <3>2. Stream'
      BY <1>3, <2>1, <3>1 DEF Stream
    <3>3. read'.op = "fails" /\ read'.from = Reached
      BY <3>1
    <3>. QED BY <1>5, <2>2, <3>2, <3>3
  <2>4. ASSUME NEW s \in Coded, len[s] <= v, Takes("symbol", v, len[s], s), Full => GoesOn(Reached, s)
        PROVE  Stream' /\ DecodesTheSymbol'
    <3>1. /\ fetched' = Reached + v /\ valid_bits' = v - len[s]
          /\ read' = [op |-> "symbol", from |-> Reached, got |-> s]
      BY <2>4 DEF Takes
    <3>2. Stream'
      <4>1. valid_bits' \in 0 .. Depth /\ valid_bits' <= fetched' /\ fetched' \in Nat
        BY <1>3, <1>4, <2>1, <2>4, <3>1
      <4>2. valid_bits' \in -1 .. Depth /\ valid_bits' # -1
        BY <1>3, <4>1
      <4>. QED BY <1>3, <2>1, <3>1, <4>1, <4>2 DEF Stream
    <3>3. read'.op = "symbol" /\ read'.from = Reached /\ read'.got = s
      BY <3>1
    <3>. QED BY <1>5, <2>2, <2>4, <3>2, <3>3
  <2>. QED BY <2>1, <2>3, <2>4
<1>8. valid_bits < 0 \/ valid_bits >= 0
  BY <1>3 DEF Stream
<1>. QED BY <1>6, <1>7, <1>8

LEMMA GetBitsKeeps ==
  ASSUME Stream, DecodesTheSymbol, GetBits
  PROVE  Stream' /\ DecodesTheSymbol'
<1>1. outcome = "built" /\ UNCHANGED <<tree, packet>>
  BY DEF GetBits, Fails, Takes, reader
<1>2. PICK n, v :
        /\ n \in 1 .. (Depth - Byte)
        /\ v = IF valid_bits >= n THEN valid_bits ELSE valid_bits + Byte * Bytes(n - valid_bits)
        /\ IF valid_bits < 0 THEN UNCHANGED reader
           ELSE IF v < n THEN Fails("bits", v, -1)
           ELSE Takes("bits", v, n, 0)
  BY DEF GetBits
<1>3. /\ Reached \in Nat /\ Len(packet) \in Nat /\ fetched \in Nat /\ Depth \in Nat /\ Byte \in Nat \ {0} /\ n \in Nat
      /\ packet \in Seq({0, 1}) /\ Multiple(Len(packet), Byte) /\ outcome' = "built" /\ packet' = packet
      /\ fetched <= Len(packet) /\ Multiple(fetched, Byte) /\ 1 <= n /\ n <= Depth - Byte
  <2>1. n \in 1 .. (Depth - Byte)
    BY <1>2
  <2>2. Depth \in Nat /\ Byte \in Nat \ {0}
    BY ByteIs
  <2>3. n \in Nat /\ 1 <= n /\ n <= Depth - Byte
    BY <2>1, <2>2
  <2>. QED BY <1>1, <2>2, <2>3, ReachedIs DEF Stream, tree
<1>4. CASE valid_bits < 0
  <2>1. UNCHANGED <<book, code, packet, read, fetched, valid_bits, outcome>>
    BY <1>1, <1>2, <1>4 DEF reader, tree
  <2>2. Stream'
    BY <2>1 DEF Stream
  <2>3. /\ Coded' = Coded /\ len' = len /\ (Full' <=> Full)
        /\ \A s : GoesOnWith(s)' <=> GoesOn(read'.from, s)
    BY <2>1, BitsSame
  <2>4. \A s : GoesOnWith(s)' <=> GoesOnWith(s)
    BY <2>1, <2>3 DEF GoesOn, GoesOnWith
  <2>5. DecodesTheSymbol'
    BY <2>1, <2>3, <2>4, DecodesIs, DecodesIsNext, Zenon DEF Decodes
  <2>. QED BY <2>2, <2>5
<1>5. CASE valid_bits >= 0
  <2>1. valid_bits \in 0 .. Depth /\ Reached = fetched - valid_bits
    BY <1>3, <1>5, ReachedIs DEF Stream
  <2>2. /\ v \in 0 .. Depth /\ Reached + v <= Len(packet) /\ Multiple(Reached + v, Byte)
        /\ v < n => Reached + v = Len(packet)
    <3>1. CASE valid_bits >= n
      <4>1. v = valid_bits /\ Reached + v = fetched
        BY <1>2, <1>3, <2>1, <3>1
      <4>2. ~(v < n)
        BY <1>3, <2>1, <3>1, <4>1
      <4>. QED BY <1>3, <2>1, <4>1, <4>2
    <3>2. CASE ~(valid_bits >= n)
      <4>1. PICK m, more : m = n - valid_bits /\ more = Byte * Bytes(m)
        OBVIOUS
      <4>2. m \in Nat
        BY <1>3, <2>1, <3>2, <4>1
      <4>3. /\ more \in Nat /\ more <= m + Byte - 1
            /\ fetched + more <= Len(packet) /\ Multiple(fetched + more, Byte)
            /\ more >= m \/ fetched + more = Len(packet)
        BY <4>1, <4>2, BytesAre
      <4>4. v = valid_bits + more
        BY <1>2, <3>2, <4>1
      <4>5. Reached + v = fetched + more
        BY <1>3, <2>1, <4>3, <4>4
      <4>6. v \in 0 .. Depth /\ (v < n => ~(more >= m))
        BY <1>3, <2>1, <4>1, <4>2, <4>3, <4>4
      <4>. QED BY <4>3, <4>5, <4>6
    <3>. QED BY <3>1, <3>2
  <2>3. CASE v < n
    <3>1. fetched' = Reached + v /\ valid_bits' = -1 /\ read' = [op |-> "bits", from |-> Reached, got |-> 0]
      BY <1>2, <1>3, <2>1, <2>3 DEF Fails
    <3>2. Stream'
      BY <1>3, <2>2, <2>3, <3>1 DEF Stream
    <3>3. read'.op = "bits"
      BY <3>1
    <3>. QED BY <3>2, <3>3 DEF DecodesTheSymbol
  <2>4. CASE ~(v < n)
    <3>1. fetched' = Reached + v /\ valid_bits' = v - n /\ read' = [op |-> "bits", from |-> Reached, got |-> 0]
      BY <1>2, <1>3, <2>1, <2>4 DEF Takes
    <3>2. Stream'
      <4>1. valid_bits' \in 0 .. Depth /\ valid_bits' <= fetched' /\ fetched' \in Nat
        BY <1>3, <2>2, <2>4, <3>1
      <4>2. valid_bits' \in -1 .. Depth /\ valid_bits' # -1
        BY <1>3, <4>1
      <4>. QED BY <1>3, <2>2, <3>1, <4>1, <4>2 DEF Stream
    <3>3. read'.op = "bits"
      BY <3>1
    <3>. QED BY <3>2, <3>3 DEF DecodesTheSymbol
  <2>. QED BY <2>3, <2>4
<1>6. valid_bits < 0 \/ valid_bits >= 0
  BY <1>3 DEF Stream
<1>. QED BY <1>4, <1>5, <1>6

SymbolInv == Aligned /\ Covered /\ Whole /\ Stream /\ DecodesTheSymbol

\* Nothing is read while the book is built.
LEMMA BuildKeeps ==
  ASSUME TreeInv, KraftInv, Stream, Build
  PROVE  Whole' /\ Stream' /\ DecodesTheSymbol'
<1>1. outcome = "building" /\ UNCHANGED <<book, fetched, valid_bits, read>> /\ Coded' = Coded
      /\ read.op = "none" /\ packet = <<>> /\ fetched = 0 /\ valid_bits = 0
  BY DEF Build, SkipEntry, FirstEntry, AddEntry, Refuse, Finish, reader, Stream, Coded, len
<1>2. Whole'
  <2>1. CASE Finish
    <3>1. i > Len(len) /\ DOMAIN code = {s \in Coded : s < i} /\ code' = code
      BY <2>1 DEF Finish, KraftInv
    <3>2. Len(len) \in Nat /\ i \in Nat /\ Coded \subseteq 1 .. Len(len)
      BY DEF TreeInv, Shape, Coded, len
    <3>3. \A s \in Coded : s < i
      BY <3>1, <3>2
    <3>4. DOMAIN code = Coded
      BY <3>1, <3>3
    <3>. QED BY <1>1, <3>1, <3>4 DEF Whole
  <2>2. CASE outcome' # "built"
    BY <2>2 DEF Whole
  <2>. QED BY <1>1, <2>1, <2>2 DEF Build, SkipEntry, FirstEntry, AddEntry, Refuse, Finish
<1>3. Stream'
  <2>1. CASE Finish
    <3>1. packet' \in Packets /\ outcome' = "built"
      BY <2>1 DEF Finish
    <3>2. packet' \in Seq({0, 1}) /\ Len(packet') % Byte = 0
      BY <3>1, PacketsAssumption
    <3>3. Multiple(Len(packet'), Byte) /\ Multiple(0, Byte)
      <4>1. PICK a : a = Len(packet')
        OBVIOUS
      <4>2. a \in Nat /\ a % Byte = 0 /\ Byte \in Nat \ {0}
        BY <3>2, <4>1, ByteIs
      <4>3. a = (a \div Byte) * Byte /\ a \div Byte \in Int /\ 0 = 0 * Byte
        BY <4>2
      <4>. QED BY <4>1, <4>3 DEF Multiple
    <3>4. Depth \in Nat /\ Len(packet') \in Nat
      BY <3>2, ByteIs
    <3>. QED BY <1>1, <3>1, <3>2, <3>3, <3>4 DEF Stream
  <2>2. CASE UNCHANGED packet
    BY <1>1, <2>2 DEF Stream
  <2>. QED BY <2>1, <2>2 DEF Build, SkipEntry, FirstEntry, AddEntry, Refuse, reader
<1>4. DecodesTheSymbol'
  BY <1>1 DEF DecodesTheSymbol
<1>. QED BY <1>2, <1>3, <1>4

LEMMA SymbolStep ==
  ASSUME TreeInv, KraftInv, SymbolInv, [Next]_vars
  PROVE  SymbolInv'
<1>1. Aligned' /\ Covered'
  BY LeavesStep DEF SymbolInv
<1>2. CASE Build
  BY <1>1, <1>2, BuildKeeps DEF SymbolInv
<1>3. CASE Decode
  <2>1. Whole'
    BY <1>3 DEF SymbolInv, Decode, tree, Whole, Coded, len
  <2>. QED BY <1>1, <1>3, <2>1, DecodeKeeps DEF SymbolInv
<1>4. CASE GetBits
  <2>1. Whole'
    BY <1>4 DEF SymbolInv, GetBits, tree, Whole, Coded, len
  <2>. QED BY <1>1, <1>4, <2>1, GetBitsKeeps DEF SymbolInv
<1>5. CASE UNCHANGED vars
  <2>1. UNCHANGED <<book, i, available, code, outcome, packet, fetched, valid_bits, read>>
    BY <1>5 DEF vars, tree, reader
  <2>2. Whole' /\ Stream'
    BY <2>1 DEF SymbolInv, Whole, Stream, Coded, len
  <2>3. /\ Coded' = Coded /\ len' = len /\ (Full' <=> Full)
        /\ \A s : GoesOnWith(s)' <=> GoesOn(read'.from, s)
    BY <2>1, BitsSame
  <2>4. \A s : GoesOnWith(s)' <=> GoesOnWith(s)
    BY <2>1, <2>3 DEF GoesOn, GoesOnWith
  <2>5. DecodesTheSymbol'
    BY <2>1, <2>3, <2>4, DecodesIs, DecodesIsNext, Zenon DEF Decodes, SymbolInv
  <2>. QED BY <1>1, <2>2, <2>5 DEF SymbolInv
<1>. QED BY <1>2, <1>3, <1>4, <1>5 DEF Next

LEMMA InitIsSymbolInv == Init => SymbolInv
<1>1. SUFFICES ASSUME Init PROVE SymbolInv
  OBVIOUS
<1>2. DOMAIN code = {} /\ outcome = "building" /\ packet = <<>> /\ fetched = 0 /\ valid_bits = 0
      /\ read = [op |-> "none", from |-> 0, got |-> 0] /\ available = [y \in Levels |-> 0]
  BY <1>1 DEF Init
<1>3. \A y \in Levels : y \in 0 .. Depth
  BY LevelsAre, SpanShrinks
<1>4. Aligned
  BY <1>2, <1>3, SpanIsMultiple DEF Aligned
<1>5. Stream
  <2>1. Multiple(0, Byte)
    <3>1. 0 = 0 * Byte
      BY ByteIs
    <3>. QED BY <3>1 DEF Multiple
  <2>2. Depth \in Nat
    BY ByteIs
  <2>3. packet \in Seq({0, 1}) /\ Len(packet) = 0
    BY <1>2
  <2>4. valid_bits \in -1 .. Depth /\ valid_bits <= fetched /\ valid_bits # -1
    BY <1>2, <2>2
  <2>. QED BY <1>2, <2>1, <2>3, <2>4 DEF Stream
<1>6. DecodesTheSymbol
  BY <1>2 DEF DecodesTheSymbol
<1>. QED BY <1>2, <1>4, <1>5, <1>6 DEF SymbolInv, Covered, Whole

\* Whatever lengths the setup packet gives, whatever the packet holds and whatever
\* was read of it before, at whatever bit of a byte DECODE begins: it comes to the
\* entry whose code the packet goes on with, and in a full tree to nothing else.
THEOREM DecoderFindsTheSymbol == Spec => []DecodesTheSymbol
<1>1. SymbolInv => DecodesTheSymbol
  BY DEF SymbolInv
<1>. QED BY <1>1, InitIsSymbolInv, SymbolStep, TreeInvAlways, KraftInvAlways, PTL DEF Spec
=============================================================================
