----------------------------- MODULE OneCallProofs -----------------------------
(***************************************************************************)
(* Theorems about the functions that keep no state: for all signals, and   *)
(* for all floors, residues and couplings of Vorbis.                       *)
(***************************************************************************)
EXTENDS SignalAnalysis, VorbisSpectrum, SumProofs

-----------------------------------------------------------------------------
(***************************************************************************)
(* What FoldLeft computes.  A fold is given as a function F of the place   *)
(* in the sequence and of what has come of the places before; V has all    *)
(* that can come of it.                                                    *)
(***************************************************************************)
LEMMA MaxOfUpto ==
  ASSUME NEW n \in Nat \ {0}
  PROVE  Max(1 .. n) = n
<1> DEFINE P(x) == x \in 1 .. n /\ \A y \in 1 .. n : x >= y
<1>1. P(n) /\ \A x : P(x) => x = n
  OBVIOUS
<1>. QED BY <1>1, Zenon DEF Max

LEMMA MaxIs ==
  ASSUME NEW S, S \subseteq Int, NEW m \in S, \A y \in S : y <= m
  PROVE  Max(S) = m
<1> DEFINE P(x) == x \in S /\ \A y \in S : x >= y
<1>1. P(m)
  OBVIOUS
<1>2. ASSUME NEW x \in S, \A y \in S : x >= y PROVE x = m
  <2>1. x \in Int /\ m \in Int /\ x >= m /\ x <= m
    BY <1>2
  <2>. QED BY <2>1
<1>. QED BY <1>1, <1>2, Zenon DEF Max

LEMMA MaxIsIn ==
  ASSUME NEW n \in Nat, NEW S \in SUBSET (1 .. n), S # {}
  PROVE  Max(S) \in S /\ \A y \in S : y <= Max(S)
<1> DEFINE T == {n - y : y \in S}
<1>1. T \subseteq Nat /\ T # {}
  <2>1. \A y \in S : n - y \in Nat
    OBVIOUS
  <2>2. PICK y \in S : TRUE
    OBVIOUS
  <2>. QED BY <2>1, <2>2
<1>2. PICK t \in T : \A u \in T : t <= u
  <2> HIDE DEF T
  <2>. QED BY <1>1, Smallest
<1>3. PICK m \in S : t = n - m
  OBVIOUS
<1>4. ASSUME NEW y \in S PROVE y <= m
  <2>1. n - y \in T
    OBVIOUS
  <2>2. n - m <= n - y
    BY <1>2, <1>3, <2>1
  <2>. QED BY <2>2
<1>5. S \subseteq Int
  OBVIOUS
<1>6. Max(S) = m
  BY <1>4, <1>5, MaxIs
<1>. QED BY <1>4, <1>6

\* All that is needed of the places is that there are finitely many, and a last one
\* of any of them.
HasLast(S) == IsFiniteSet(S) /\ \A T \in SUBSET S : T # {} => Max(T) \in T

LEMMA PartHasLast ==
  ASSUME NEW S, HasLast(S), NEW T \in SUBSET S
  PROVE  HasLast(T)
<1>1. IsFiniteSet(T)
  BY FS_Subset DEF HasLast
<1>. QED BY <1>1 DEF HasLast

LEMMA UptoHasLast ==
  ASSUME NEW n \in Nat
  PROVE  HasLast(1 .. n)
<1>1. IsFiniteSet(1 .. n)
  BY FS_Interval
<1>. QED BY <1>1, MaxIsIn DEF HasLast

\* h is the function that the recursive definition of a fold chooses.
Folding(h, F, b, D) ==
  h = [s \in SUBSET D |-> IF s = {} THEN b ELSE F[<<Max(s), h[s \ {Max(s)}]>>]]

LEMMA FoldingsAgree ==
  ASSUME NEW F, NEW b, NEW V, HasLast(V), NEW W \in SUBSET V,
         NEW h, Folding(h, F, b, V), NEW k, Folding(k, F, b, W)
  PROVE  h[W] = k[W]
<1> DEFINE D == {U \in SUBSET W : h[U] # k[U]}
<1>1. SUFFICES ASSUME D # {} PROVE FALSE
  OBVIOUS
<1>2. IsFiniteSet(W)
  BY FS_Subset DEF HasLast
<1>3. PICK U \in D : \A Z \in SUBSET U : Z \in D => Z = U
  <2>1. D \subseteq SUBSET W
    OBVIOUS
  <2> HIDE DEF D
  <2>. QED BY <1>1, <1>2, <2>1, SmallestSet
<1>4. /\ h[U] = IF U = {} THEN b ELSE F[<<Max(U), h[U \ {Max(U)}]>>]
      /\ k[U] = IF U = {} THEN b ELSE F[<<Max(U), k[U \ {Max(U)}]>>]
  BY DEF Folding
<1>5. U # {}
  BY <1>4
<1>6. h[U \ {Max(U)}] = k[U \ {Max(U)}]
  <2>1. Max(U) \in U
    BY <1>5 DEF HasLast
  <2>. QED BY <1>3, <2>1
<1>. QED BY <1>4, <1>5, <1>6

FoldingFor(F, b, D) == CHOOSE h : Folding(h, F, b, D)

LEMMA FoldingsExist ==
  ASSUME NEW F, NEW b, NEW S, HasLast(S)
  PROVE  Folding(FoldingFor(F, b, S), F, b, S)
<1> DEFINE For_(U) == FoldingFor(F, b, U)
           D == {U \in SUBSET S : ~Folding(For_(U), F, b, U)}
<1>1. SUFFICES ASSUME D # {} PROVE FALSE
  OBVIOUS
<1>2. PICK T \in D : \A U \in SUBSET T : U \in D => U = T
  <2>1. D \subseteq SUBSET S
    OBVIOUS
  <2>2. IsFiniteSet(S)
    BY DEF HasLast
  <2> HIDE DEF D
  <2>. QED BY <1>1, <2>1, <2>2, SmallestSet
<1>3. \A U \in SUBSET T : U # T => Folding(For_(U), F, b, U)
  BY <1>2
<1> DEFINE Less(U) == U \ {Max(U)}
           h == [U \in SUBSET T |-> IF U = {} THEN b ELSE F[<<Max(U), For_(Less(U))[Less(U)]>>]]
<1>4. ASSUME NEW U \in SUBSET T, U # {}
      PROVE  Less(U) \in SUBSET T /\ Less(U) # T
  <2>1. Max(U) \in U
    BY <1>4 DEF HasLast
  <2>. QED BY <2>1
<1>5. ASSUME NEW V \in SUBSET T, V # T
      PROVE  h[V] = For_(V)[V]
  <2>1. Folding(For_(V), F, b, V)
    BY <1>3, <1>5
  <2>2. For_(V)[V] = IF V = {} THEN b ELSE F[<<Max(V), For_(V)[Less(V)]>>]
    BY <2>1 DEF Folding
  <2>3. CASE V = {}
    BY <2>2, <2>3
  <2>4. CASE V # {}
    <3>1. Folding(For_(Less(V)), F, b, Less(V))
      BY <1>3, <1>4, <2>4
    <3>2. For_(V)[Less(V)] = For_(Less(V))[Less(V)]
      <4>1. Less(V) \in SUBSET V
        OBVIOUS
      <4>2. HasLast(V)
        BY PartHasLast
      <4> HIDE DEF Less, For_
      <4>. QED BY <2>1, <3>1, <4>1, <4>2, FoldingsAgree
    <3>. QED BY <2>2, <2>4, <3>2
  <2>. QED BY <2>3, <2>4
<1>6. Folding(h, F, b, T)
  <2>1. ASSUME NEW U \in SUBSET T
        PROVE  h[U] = IF U = {} THEN b ELSE F[<<Max(U), h[Less(U)]>>]
    BY <1>4, <1>5
  <2>2. h = [U \in SUBSET T |-> IF U = {} THEN b ELSE F[<<Max(U), h[Less(U)]>>]]
    <3>1. \A U \in SUBSET T : h[U] = IF U = {} THEN b ELSE F[<<Max(U), For_(Less(U))[Less(U)]>>]
      OBVIOUS
    <3>. QED BY <2>1, <3>1
  <2>. QED BY <2>2 DEF Folding
<1>7. Folding(For_(T), F, b, T)
  <2> HIDE DEF h
  <2>. QED BY <1>6 DEF FoldingFor
<1>. QED BY <1>2, <1>7

LEMMA FoldingType ==
  ASSUME NEW F, NEW b, NEW S, HasLast(S), NEW V, b \in V,
         \A k \in S : \A v \in V : F[<<k, v>>] \in V,
         NEW h, Folding(h, F, b, S), NEW U \in SUBSET S
  PROVE  h[U] \in V
<1> DEFINE D == {W \in SUBSET S : h[W] \notin V}
<1>1. SUFFICES ASSUME D # {} PROVE FALSE
  OBVIOUS
<1>2. PICK W \in D : \A Z \in SUBSET W : Z \in D => Z = W
  <2>1. D \subseteq SUBSET S
    OBVIOUS
  <2>2. IsFiniteSet(S)
    BY DEF HasLast
  <2> HIDE DEF D
  <2>. QED BY <1>1, <2>1, <2>2, SmallestSet
<1>3. h[W] = IF W = {} THEN b ELSE F[<<Max(W), h[W \ {Max(W)}]>>]
  BY DEF Folding
<1>4. W # {}
  BY <1>3
<1>5. Max(W) \in W
  BY <1>4 DEF HasLast
<1>6. h[W \ {Max(W)}] \in V
  BY <1>2, <1>5
<1>. QED BY <1>3, <1>4, <1>5, <1>6

LEMMA FoldingsOfType ==
  ASSUME NEW F, NEW b, NEW n \in Nat, NEW V, b \in V,
         \A k \in 1 .. n : \A v \in V : F[<<k, v>>] \in V
  PROVE  \E h \in [SUBSET (1 .. n) -> V] : Folding(h, F, b, 1 .. n)
<1> DEFINE h == FoldingFor(F, b, 1 .. n)
<1>1. Folding(h, F, b, 1 .. n)
  BY UptoHasLast, FoldingsExist
<1> HIDE DEF h
<1>2. \A U \in SUBSET (1 .. n) : h[U] \in V
  BY <1>1, UptoHasLast, FoldingType
<1>3. h \in [SUBSET (1 .. n) -> V]
  BY <1>1, <1>2 DEF Folding
<1>. QED BY <1>1, <1>3

\* y goes through the places of a sequence of length n.
Iterates(y, F, b, n) == y[0] = b /\ \A k \in 1 .. n : y[k] = F[<<k, y[k - 1]>>]

\* What is known of the function g that a definition chose.
Chain(g, F, b, V, n) ==
  /\ g[{}] = b
  /\ \A s \in SUBSET (1 .. n) :
       s # {} /\ g[s \ {Max(s)}] \in V => g[s] = F[<<Max(s), g[s \ {Max(s)}]>>]

LEMMA ChainIterates ==
  ASSUME NEW F, NEW b, NEW n \in Nat, NEW V, b \in V,
         \A k \in 1 .. n : \A v \in V : F[<<k, v>>] \in V,
         NEW g, Chain(g, F, b, V, n)
  PROVE  \E y \in [0 .. n -> V] : Iterates(y, F, b, n) /\ y[n] = g[1 .. n]
<1> DEFINE y == [k \in 0 .. n |-> g[1 .. k]]
<1>1. g[1 .. 0] = b
  <2>1. 1 .. 0 = {}
    OBVIOUS
  <2>. QED BY <2>1 DEF Chain
<1>2. ASSUME NEW k \in 1 .. n, g[1 .. (k - 1)] \in V
      PROVE  g[1 .. k] = F[<<k, g[1 .. (k - 1)]>>]
  <2>1. Max(1 .. k) = k
    BY MaxOfUpto
  <2>2. (1 .. k) \ {k} = 1 .. (k - 1) /\ 1 .. k # {} /\ 1 .. k \in SUBSET (1 .. n)
    OBVIOUS
  <2>. QED BY <1>2, <2>1, <2>2 DEF Chain
<1>3. ASSUME NEW k \in 0 .. n PROVE g[1 .. k] \in V
  <2> DEFINE T == {j \in 0 .. n : g[1 .. j] \notin V}
  <2>1. SUFFICES ASSUME T # {} PROVE FALSE
    OBVIOUS
  <2>2. PICK j \in T : \A m \in T : j <= m
    <3>1. T \subseteq Nat
      OBVIOUS
    <3> HIDE DEF T
    <3>. QED BY <2>1, <3>1, Smallest
  <2>3. j \in 0 .. n /\ g[1 .. j] \notin V
    OBVIOUS
  <2>4. j # 0
    BY <1>1, <2>3
  <2>5. j - 1 \in 0 .. n /\ ~(j <= j - 1)
    BY <2>3, <2>4
  <2>6. g[1 .. (j - 1)] \in V
    BY <2>2, <2>5
  <2>7. g[1 .. j] = F[<<j, g[1 .. (j - 1)]>>]
    BY <1>2, <2>3, <2>4, <2>6
  <2>. QED BY <2>3, <2>4, <2>6, <2>7
<1>4. y \in [0 .. n -> V]
  BY <1>3
<1>5. Iterates(y, F, b, n)
  <2>1. ASSUME NEW k \in 1 .. n PROVE y[k] = F[<<k, y[k - 1]>>]
    BY <1>2, <1>3
  <2>. QED BY <1>1, <2>1 DEF Iterates
<1>. QED BY <1>4, <1>5

LEMMA UptoInduction ==
  ASSUME NEW n \in Nat, NEW T, 0 \in T, \A k \in 1 .. n : k - 1 \in T => k \in T
  PROVE  \A k \in 0 .. n : k \in T
<1> DEFINE B == {k \in 0 .. n : k \notin T}
<1>1. SUFFICES ASSUME B # {} PROVE FALSE
  OBVIOUS
<1>2. PICK k \in B : \A m \in B : k <= m
  <2>1. B \subseteq Nat
    OBVIOUS
  <2> HIDE DEF B
  <2>. QED BY <1>1, <2>1, Smallest
<1>3. k # 0 /\ k \in 0 .. n /\ k \notin T
  OBVIOUS
<1>4. k - 1 \in 0 .. n /\ k \in 1 .. n /\ ~(k <= k - 1)
  BY <1>3
<1>5. k - 1 \in T
  BY <1>2, <1>4
<1>. QED BY <1>3, <1>4, <1>5

LEMMA CountIs ==
  ASSUME NEW a \in Int, NEW c \in Int, c >= a - 1
  PROVE  /\ DOMAIN Count(a, c) = 1 .. (c - a + 1)
         /\ \A k \in 1 .. (c - a + 1) : Count(a, c)[k] = a + k - 1
  BY DEF Count

MaxIndexSteps(y, x, size, value) ==
  /\ y \in [0 .. (size - 1) -> [max : Upto(size), value : Int]]
  /\ y[0] = [max |-> 0, value |-> value]
  /\ \A k \in 1 .. (size - 1) :
       y[k] = IF x[k] > x[y[k - 1].max] THEN [max |-> k, value |-> x[k]] ELSE y[k - 1]
  /\ MaxIndex(x, size, value) = y[size - 1]

LEMMA MaxIndexIs ==
  ASSUME NEW size \in Nat \ {0}, NEW x \in [Upto(size) -> Int], NEW value \in Int
  PROVE  \E y : MaxIndexSteps(y, x, size, value)
<1> DEFINE n == size - 1
           V == [max : Upto(size), value : Int]
           b == [max |-> 0, value |-> value]
           Step(found, i) == IF x[i] > x[found.max] THEN [max |-> i, value |-> x[i]] ELSE found
           F == [p \in (1 .. n) \X V |-> Step(p[2], p[1])]
           q == Count(1, size - 1)
           E(g) == g = [s \in SUBSET DOMAIN q |->
                          IF s = {} THEN b ELSE Step(g[s \ {Max(s)}], q[Max(s)])]
<1>1. MaxIndex(x, size, value) = (CHOOSE g : E(g))[DOMAIN q]
  BY DEF MaxIndex, FoldLeft, MapThenFoldSet
<1>2. n \in Nat /\ b \in V /\ \A k \in 1 .. n : \A v \in V : F[<<k, v>>] = Step(v, k) /\ Step(v, k) \in V
  BY DEF Upto
<1>3. DOMAIN q = 1 .. n /\ \A k \in 1 .. n : q[k] = k
  BY DEF Count
<1> HIDE DEF V, b, Step, F, q, n
<1>4. PICK h \in [SUBSET (1 .. n) -> V] : Folding(h, F, b, 1 .. n)
  <2>1. n \in Nat /\ b \in V /\ \A k \in 1 .. n : \A v \in V : F[<<k, v>>] \in V
    BY <1>2
  <2> HIDE DEF E
  <2>. QED BY <2>1, FoldingsOfType
<1>5. E(h)
  <2>1. ASSUME NEW s \in SUBSET (1 .. n)
        PROVE  h[s] = IF s = {} THEN b ELSE Step(h[s \ {Max(s)}], q[Max(s)])
    <3>1. s # {} => Max(s) \in 1 .. n
      BY <1>2, UptoHasLast DEF HasLast
    <3>. QED BY <1>2, <1>3, <1>4, <3>1 DEF Folding
  <2>. QED BY <1>3, <1>4, <2>1
<1> DEFINE g == CHOOSE g : E(g)
<1>6. E(g)
  <2> HIDE DEF E
  <2>. QED BY <1>5
<1>7. Chain(g, F, b, V, n)
  <2> HIDE DEF g
  <2>1. ASSUME NEW s \in SUBSET (1 .. n), s # {}, g[s \ {Max(s)}] \in V
        PROVE  g[s] = F[<<Max(s), g[s \ {Max(s)}]>>]
    <3>1. Max(s) \in 1 .. n
      BY <1>2, <2>1, UptoHasLast DEF HasLast
    <3>2. g[s] = Step(g[s \ {Max(s)}], q[Max(s)])
      BY <1>3, <1>6, <2>1
    <3>. QED BY <1>2, <1>3, <2>1, <3>1, <3>2
  <2>2. g[{}] = b
    BY <1>6
  <2> HIDE DEF E
  <2>. QED BY <2>1, <2>2 DEF Chain
<1>8. PICK y \in [0 .. n -> V] : Iterates(y, F, b, n) /\ y[n] = g[1 .. n]
  <2> HIDE DEF g
  <2>. QED BY <1>2, <1>7, ChainIterates
<1>9. \A k \in 1 .. n : y[k] = Step(y[k - 1], k)
  <2>1. \A k \in 1 .. n : k - 1 \in 0 .. n
    BY <1>2
  <2>. QED BY <1>2, <1>8, <2>1 DEF Iterates
<1>10. MaxIndex(x, size, value) = y[n]
  BY <1>1, <1>3, <1>8
<1>. QED BY <1>8, <1>9, <1>10 DEF V, b, Step, n, Iterates, MaxIndexSteps

-----------------------------------------------------------------------------
(***************************************************************************)
(* Sets of samples.                                                        *)
(***************************************************************************)
Numbers(S) == S \subseteq Int

LEMMA MaxExists ==
  ASSUME NEW S, IsFiniteSet(S), Numbers(S), S # {}
  PROVE  \E m \in S : \A y \in S : y <= m
<1> DEFINE D == {U \in SUBSET S : U # {} /\ ~ \E m \in U : \A y \in U : y <= m}
<1>1. SUFFICES ASSUME D # {} PROVE FALSE
  OBVIOUS
<1>2. PICK T \in D : \A U \in SUBSET T : U \in D => U = T
  <2>1. D \subseteq SUBSET S
    OBVIOUS
  <2> HIDE DEF D
  <2>. QED BY <1>1, <2>1, SmallestSet
<1>3. PICK x \in T : x \in Int /\ \A y \in T : y \in Int
  BY DEF Numbers
<1> DEFINE R == T \ {x}
<1>4. CASE R = {}
  <2>1. \A y \in T : y <= x
    BY <1>3, <1>4
  <2>. QED BY <2>1
<1>5. CASE R # {}
  <2>1. R \in SUBSET T /\ R # T
    OBVIOUS
  <2>2. R \notin D
    <3> HIDE DEF D, R
    <3>. QED BY <1>2, <2>1
  <2>3. PICK m \in R : \A y \in R : y <= m
    BY <1>5, <2>2
  <2>4. m \in Int /\ x \in Int /\ \A y \in R : y \in Int
    BY <1>3
  <2>5. CASE m <= x
    <3>1. \A y \in T : y <= x
      BY <2>3, <2>4, <2>5
    <3>. QED BY <3>1
  <2>6. CASE x <= m
    <3>1. \A y \in T : y <= m
      BY <2>3, <2>4, <2>6
    <3>. QED BY <3>1
  <2>. QED BY <2>4, <2>5, <2>6
<1>. QED BY <1>4, <1>5

LEMMA MaxFound ==
  ASSUME NEW S, IsFiniteSet(S), S \subseteq Int, S # {}
  PROVE  Max(S) \in S /\ \A y \in S : y <= Max(S)
<1>1. PICK m \in S : \A y \in S : y <= m
  BY MaxExists DEF Numbers
<1>2. Max(S) = m
  BY <1>1, MaxIs
<1>. QED BY <1>1, <1>2

LEMMA MinFound ==
  ASSUME NEW S, IsFiniteSet(S), S \subseteq Int, S # {}
  PROVE  Min(S) \in S /\ \A y \in S : Min(S) <= y
<1> DEFINE f == [y \in S |-> -y]
           T == {f[y] : y \in S}
<1>1. f \in Surjection(S, T)
  BY DEF Surjection
<1>2. IsFiniteSet(T)
  <2> HIDE DEF f, T
  <2>. QED BY <1>1, FS_Surjection
<1>3. T \subseteq Int /\ T # {}
  OBVIOUS
<1>4. PICK m \in T : \A y \in T : y <= m
  <2> HIDE DEF T
  <2>. QED BY <1>2, <1>3, MaxExists DEF Numbers
<1>5. PICK n \in S : m = -n
  OBVIOUS
<1>6. \A y \in S : n <= y
  <2>1. ASSUME NEW y \in S PROVE n <= y
    <3>1. -y \in T
      OBVIOUS
    <3>2. -y <= -n
      BY <1>4, <1>5, <3>1
    <3>. QED BY <3>2
  <2>. QED BY <2>1
<1> DEFINE P(x) == x \in S /\ \A y \in S : x <= y
<1>7. P(n)
  BY <1>6
<1>8. P(CHOOSE x : P(x))
  <2> HIDE DEF P
  <2>. QED BY <1>7, Zenon
<1>9. Min(S) = CHOOSE x : P(x)
  BY Zenon DEF Min
<1>. QED BY <1>8, <1>9

LEMMA UptoIsFinite ==
  ASSUME NEW n \in Nat
  PROVE  IsFiniteSet(Upto(n)) /\ Cardinality(Upto(n)) = n
  BY FS_Interval DEF Upto

\* A place inside a row is inside the block.
LEMMA RowsFit ==
  ASSUME NEW channels \in Nat, NEW size \in Nat, NEW c \in Upto(channels), NEW i \in Upto(size)
  PROVE  c * size + i \in Upto(channels * size)
<1>1. channels - c - 1 \in Nat /\ c \in Nat
  BY DEF Upto
<1>2. channels * size = (c * size + size) + (channels - c - 1) * size
  <2>1. channels = (c + 1) + (channels - c - 1)
    BY <1>1
  <2>. QED BY <1>1, <2>1
<1>3. (channels - c - 1) * size \in Nat /\ c * size \in Nat /\ channels * size \in Nat
  BY <1>1
<1>. QED BY <1>2, <1>3 DEF Upto

LEMMA SignalIs ==
  ASSUME NEW s \in Signals
  PROVE  /\ s.channels \in Nat \ {0} /\ s.size \in Nat \ {0}
         /\ s.block \in [Upto(s.channels * s.size) -> Int]
  BY AnalysisAssumption

LEMMA SampleIs ==
  ASSUME NEW s \in Signals, NEW c \in Upto(s.channels), NEW i \in Upto(s.size)
  PROVE  At(s, c, i) \in Int /\ At(s, c, i) \in SamplesOf(s)
<1>1. c * s.size + i \in DOMAIN s.block /\ s.block[c * s.size + i] \in Int
  BY SignalIs, RowsFit
<1>. QED BY <1>1 DEF At, SamplesOf

LEMMA SamplesAreFinite ==
  ASSUME NEW s \in Signals
  PROVE  IsFiniteSet(SamplesOf(s)) /\ SamplesOf(s) \subseteq Int
<1>1. s.block \in Surjection(DOMAIN s.block, SamplesOf(s))
  BY SignalIs DEF Surjection, SamplesOf
<1>2. IsFiniteSet(DOMAIN s.block)
  <2> DEFINE n == s.channels * s.size
  <2>1. n \in Nat /\ DOMAIN s.block = Upto(n)
    <3>1. \A a, b \in Nat \ {0} : a * b \in Nat
      OBVIOUS
    <3>2. s.channels \in Nat \ {0} /\ s.size \in Nat \ {0} /\ DOMAIN s.block = Upto(s.channels * s.size)
      BY SignalIs
    <3>. QED BY <3>1, <3>2
  <2> HIDE DEF n
  <2>2. IsFiniteSet(Upto(n))
    BY <2>1, UptoIsFinite
  <2>. QED BY <2>1, <2>2
<1>3. IsFiniteSet(SamplesOf(s))
  BY <1>1, <1>2, FS_Surjection
<1>. QED BY <1>3, SignalIs DEF SamplesOf

-----------------------------------------------------------------------------
(***************************************************************************)
(* findPeak.                                                               *)
(***************************************************************************)
LEMMA MaxIndexFinds ==
  ASSUME NEW size \in Nat \ {0}, NEW x \in [Upto(size) -> Int], NEW value \in Int
  PROVE  /\ MaxIndex(x, size, value) \in [max : Upto(size), value : Int]
         /\ \A i \in Upto(size) : x[i] <= x[MaxIndex(x, size, value).max]
         /\ MaxIndex(x, size, value).value =
              IF MaxIndex(x, size, value).max = 0 THEN value ELSE x[MaxIndex(x, size, value).max]
<1> DEFINE n == size - 1
           V == [max : Upto(size), value : Int]
           Good(found, k) == /\ \A i \in 0 .. k : x[i] <= x[found.max]
                             /\ found.value = IF found.max = 0 THEN value ELSE x[found.max]
<1>0. PICK y : MaxIndexSteps(y, x, size, value)
  BY MaxIndexIs
<1>1. /\ y \in [0 .. n -> V] /\ n \in Nat
      /\ y[0] = [max |-> 0, value |-> value]
      /\ \A k \in 1 .. n :
           y[k] = IF x[k] > x[y[k - 1].max] THEN [max |-> k, value |-> x[k]] ELSE y[k - 1]
      /\ MaxIndex(x, size, value) = y[n]
  BY <1>0 DEF MaxIndexSteps
<1>2. Good(y[0], 0)
  BY <1>1 DEF Upto
<1>3. ASSUME NEW k \in 1 .. n, Good(y[k - 1], k - 1) PROVE Good(y[k], k)
  <2>1. y[k - 1] \in V /\ k \in Upto(size)
    <3>1. k - 1 \in 0 .. n
      BY <1>1
    <3>2. k \in Upto(size)
      BY DEF Upto
    <3>. QED BY <1>1, <3>1, <3>2
  <2>2. x[k] \in Int /\ x[y[k - 1].max] \in Int
    BY <2>1
  <2>3. \A i \in 0 .. k : i \in Upto(size) /\ x[i] \in Int
    BY <1>1 DEF Upto
  <2>4. CASE x[k] > x[y[k - 1].max]
    <3>1. y[k] = [max |-> k, value |-> x[k]]
      BY <1>1, <2>4
    <3>2. \A i \in 0 .. k : x[i] <= x[k]
      BY <1>3, <2>2, <2>3, <2>4
    <3>. QED BY <3>1, <3>2
  <2>5. CASE ~(x[k] > x[y[k - 1].max])
    <3>1. y[k] = y[k - 1]
      BY <1>1, <2>5
    <3>2. \A i \in 0 .. k : x[i] <= x[y[k - 1].max]
      BY <1>3, <2>2, <2>3, <2>5
    <3>. QED BY <1>3, <3>1, <3>2
  <2>. QED BY <2>4, <2>5
<1>4. \A k \in 0 .. n : Good(y[k], k)
  <2> DEFINE T == {k \in 0 .. n : ~Good(y[k], k)}
  <2> HIDE DEF Good
  <2>1. SUFFICES ASSUME T # {} PROVE FALSE
    OBVIOUS
  <2>2. PICK k \in T : \A m \in T : k <= m
    <3>1. T \subseteq Nat
      OBVIOUS
    <3> HIDE DEF T
    <3>. QED BY <2>1, <3>1, Smallest
  <2>3. k # 0
    BY <1>2
  <2>4. k - 1 \in 0 .. n /\ k \in 1 .. n /\ ~(k <= k - 1)
    BY <2>3
  <2>. QED BY <1>3, <2>2, <2>4
<1>5. Good(y[n], n) /\ y[n] \in V
  <2>1. n \in 0 .. n
    BY <1>1
  <2>. QED BY <1>1, <1>4, <2>1
<1>. QED BY <1>1, <1>5 DEF Upto

PeakLook(s, from, to, best, c) ==
  LET found == MaxIndex([i \in Upto(to - from) |-> At(s, c, from + i)], to - from, best.tempVal)
  IN  IF found.value > best.val
      THEN [tempVal |-> found.value, val |-> found.value, index |-> found.max]
      ELSE [best EXCEPT !.tempVal = found.value]

PeakSteps(y, s, from, to) ==
  /\ y \in [0 .. s.channels -> [tempVal : Int, val : Int, index : Upto(to - from) \cup {Undef}]]
  /\ y[0] = [tempVal |-> 0, val |-> 0, index |-> Undef]
  /\ \A k \in 1 .. s.channels : y[k] = PeakLook(s, from, to, y[k - 1], k - 1)
  /\ PeakOf(s, from, to) =
       [val |-> y[s.channels].val,
        index |-> IF y[s.channels].index = Undef THEN Undef ELSE y[s.channels].index + from]

LEMMA RangeOfRow ==
  ASSUME NEW s \in Signals, NEW from \in Upto(s.size), NEW to \in 1 .. s.size, from < to,
         NEW c \in Upto(s.channels)
  PROVE  /\ to - from \in Nat \ {0}
         /\ [i \in Upto(to - from) |-> At(s, c, from + i)] \in [Upto(to - from) -> Int]
<1>1. \A i \in Upto(to - from) : from + i \in Upto(s.size)
  BY SignalIs DEF Upto
<1>2. \A i \in Upto(to - from) : At(s, c, from + i) \in Int
  BY <1>1, SampleIs
<1>3. to - from \in Nat \ {0}
  BY SignalIs DEF Upto
<1>. QED BY <1>2, <1>3

LEMMA LookIs ==
  ASSUME NEW s \in Signals, NEW from \in Upto(s.size), NEW to \in 1 .. s.size, from < to,
         NEW c \in Upto(s.channels),
         NEW v \in [tempVal : Int, val : Int, index : Upto(to - from) \cup {Undef}]
  PROVE  PeakLook(s, from, to, v, c) \in [tempVal : Int, val : Int, index : Upto(to - from) \cup {Undef}]
<1> DEFINE x == [i \in Upto(to - from) |-> At(s, c, from + i)]
           found == MaxIndex(x, to - from, v.tempVal)
<1>1. found \in [max : Upto(to - from), value : Int]
  <2>1. to - from \in Nat \ {0} /\ x \in [Upto(to - from) -> Int] /\ v.tempVal \in Int
    BY RangeOfRow
  <2> HIDE DEF x
  <2>. QED BY <2>1, MaxIndexFinds
<1>2. PeakLook(s, from, to, v, c) =
        IF found.value > v.val THEN [tempVal |-> found.value, val |-> found.value, index |-> found.max]
        ELSE [v EXCEPT !.tempVal = found.value]
  BY DEF PeakLook
<1> HIDE DEF found
<1>. QED BY <1>1, <1>2

LEMMA PeakIs ==
  ASSUME NEW s \in Signals, NEW from \in Upto(s.size), NEW to \in 1 .. s.size, from < to
  PROVE  \E y : PeakSteps(y, s, from, to)
<1> DEFINE n == s.channels
           V == [tempVal : Int, val : Int, index : Upto(to - from) \cup {Undef}]
           b == [tempVal |-> 0, val |-> 0, index |-> Undef]
           Step(v, i) == PeakLook(s, from, to, v, i)
           q == Count(0, s.channels - 1)
           F == [p \in (1 .. n) \X V |-> Step(p[2], q[p[1]])]
           E(g) == g = [s_ \in SUBSET DOMAIN q |->
                          IF s_ = {} THEN b ELSE Step(g[s_ \ {Max(s_)}], q[Max(s_)])]
<1>1. PeakOf(s, from, to) = 
        LET end == (CHOOSE g : E(g))[DOMAIN q]
        IN  [val |-> end.val, index |-> IF end.index = Undef THEN Undef ELSE end.index + from]
  BY DEF PeakOf, PeakLook, Tiny, FoldLeft, MapThenFoldSet
<1>2. /\ n \in Nat /\ b \in V /\ DOMAIN q = 1 .. n /\ \A k \in 1 .. n : q[k] = k - 1
      /\ \A k \in 1 .. n : \A v \in V : Step(v, q[k]) \in V
  <2>1. n \in Nat /\ b \in V
    BY SignalIs
  <2>2. DOMAIN q = 1 .. n /\ \A k \in 1 .. n : q[k] = k - 1
    BY SignalIs DEF Count
  <2>3. \A k \in 1 .. n : k - 1 \in Upto(s.channels)
    BY SignalIs DEF Upto
  <2>. QED BY <2>1, <2>2, <2>3, LookIs
<1>3. \A k \in 1 .. n : \A v \in V : F[<<k, v>>] = Step(v, q[k])
  OBVIOUS
<1> HIDE DEF V, b, Step, F, q, n
<1>4. PICK h \in [SUBSET (1 .. n) -> V] : Folding(h, F, b, 1 .. n)
  <2>1. n \in Nat /\ b \in V /\ \A k \in 1 .. n : \A v \in V : F[<<k, v>>] \in V
    BY <1>2, <1>3
  <2> HIDE DEF E
  <2>. QED BY <2>1, FoldingsOfType
<1>5. E(h)
  <2>1. ASSUME NEW t \in SUBSET (1 .. n)
        PROVE  h[t] = IF t = {} THEN b ELSE Step(h[t \ {Max(t)}], q[Max(t)])
    <3>1. t # {} => Max(t) \in 1 .. n
      BY <1>2, UptoHasLast DEF HasLast
    <3>. QED BY <1>2, <1>3, <1>4, <3>1 DEF Folding
  <2>. QED BY <1>2, <1>4, <2>1
<1> DEFINE g == CHOOSE g : E(g)
<1>6. E(g)
  <2> HIDE DEF E
  <2>. QED BY <1>5
<1>7. Chain(g, F, b, V, n)
  <2> HIDE DEF g
  <2>1. ASSUME NEW t \in SUBSET (1 .. n), t # {}, g[t \ {Max(t)}] \in V
        PROVE  g[t] = F[<<Max(t), g[t \ {Max(t)}]>>]
    <3>1. Max(t) \in 1 .. n
      BY <1>2, <2>1, UptoHasLast DEF HasLast
    <3>2. g[t] = Step(g[t \ {Max(t)}], q[Max(t)])
      BY <1>2, <1>6, <2>1
    <3>. QED BY <1>2, <1>3, <2>1, <3>1, <3>2
  <2>2. g[{}] = b
    BY <1>6
  <2> HIDE DEF E
  <2>. QED BY <2>1, <2>2 DEF Chain
<1>8. PICK y \in [0 .. n -> V] : Iterates(y, F, b, n) /\ y[n] = g[1 .. n]
  <2>1. n \in Nat /\ b \in V /\ \A k \in 1 .. n : \A v \in V : F[<<k, v>>] \in V
    BY <1>2, <1>3
  <2> HIDE DEF g
  <2>. QED BY <2>1, <1>7, ChainIterates
<1>9. ASSUME NEW k \in 1 .. n PROVE y[k] = Step(y[k - 1], k - 1)
  <2>1. k - 1 \in 0 .. n /\ y[k - 1] \in V
    BY <1>2
  <2>2. y[k] = F[<<k, y[k - 1]>>] /\ q[k] = k - 1
    BY <1>2, <1>8 DEF Iterates
  <2>. QED BY <1>3, <2>1, <2>2
<1>10. PeakOf(s, from, to) = 
        LET end == y[n]
        IN  [val |-> end.val, index |-> IF end.index = Undef THEN Undef ELSE end.index + from]
  BY <1>1, <1>2, <1>8
<1>. QED BY <1>8, <1>9, <1>10 DEF V, b, Step, n, Iterates, PeakSteps

\* After the first k channels: what is kept is a sample of theirs, and no sample is
\* above it but those of channels whose first one is their greatest.
PeakSoFar(best, s, from, to, k) ==
  /\ best.val >= 0 /\ best.tempVal <= best.val
  /\ best.val > 0 => /\ best.index \in Upto(to - from)
                     /\ \E c \in Upto(k) : At(s, c, from + best.index) = best.val
  /\ \A c \in Upto(k), i \in Upto(to - from) :
       At(s, c, from + i) > At(s, c, from) => At(s, c, from + i) <= best.val

LEMMA LookKeeps ==
  ASSUME NEW s \in Signals, NEW from \in Upto(s.size), NEW to \in 1 .. s.size, from < to,
         NEW k \in 1 .. s.channels,
         NEW best \in [tempVal : Int, val : Int, index : Upto(to - from) \cup {Undef}],
         PeakSoFar(best, s, from, to, k - 1)
  PROVE  PeakSoFar(PeakLook(s, from, to, best, k - 1), s, from, to, k)
<1> DEFINE c == k - 1
           x == [i \in Upto(to - from) |-> At(s, c, from + i)]
           found == MaxIndex(x, to - from, best.tempVal)
           next == PeakLook(s, from, to, best, k - 1)
<1>0. c \in Upto(s.channels) /\ Upto(k) = Upto(k - 1) \cup {c} /\ c \notin Upto(k - 1)
  <2>1. k \in Nat /\ k >= 1 /\ k - 1 <= s.channels - 1 /\ s.channels \in Nat
    BY SignalIs
  <2>2. \A l \in Nat : l >= 1 => 0 .. (l - 1) = (0 .. (l - 1 - 1)) \cup {l - 1} /\ l - 1 \notin 0 .. (l - 1 - 1)
    OBVIOUS
  <2>3. 0 .. (k - 1) = (0 .. (k - 1 - 1)) \cup {k - 1} /\ k - 1 \notin 0 .. (k - 1 - 1)
    BY <2>1, <2>2
  <2>4. k - 1 \in 0 .. (s.channels - 1)
    BY <2>1
  <2>. QED BY <2>3, <2>4 DEF Upto
<1>1. to - from \in Nat \ {0} /\ x \in [Upto(to - from) -> Int] /\ best.tempVal \in Int
  BY <1>0, RangeOfRow
<1>2. /\ found \in [max : Upto(to - from), value : Int]
      /\ \A i \in Upto(to - from) : x[i] <= x[found.max]
      /\ found.value = IF found.max = 0 THEN best.tempVal ELSE x[found.max]
  <2> HIDE DEF x
  <2>. QED BY <1>1, MaxIndexFinds
<1>3. next = IF found.value > best.val
             THEN [tempVal |-> found.value, val |-> found.value, index |-> found.max]
             ELSE [best EXCEPT !.tempVal = found.value]
  BY DEF PeakLook
<1>4. \A i \in Upto(to - from) : x[i] = At(s, c, from + i) /\ x[i] \in Int
  BY <1>1
<1>5. x[0] = At(s, c, from) /\ 0 \in Upto(to - from)
  BY <1>1 DEF Upto
<1> HIDE DEF found, x, next, c
<1>6. /\ best.val \in Int /\ best.tempVal \in Int /\ found.value \in Int
      /\ found.max \in Upto(to - from) /\ best.val >= 0 /\ best.tempVal <= best.val
  BY <1>2 DEF PeakSoFar
\* Where the row rises above its first sample, the greatest one was taken.
<1>7. ASSUME NEW i \in Upto(to - from), x[i] > x[0] PROVE x[i] <= found.value
  <2>1. found.max # 0
    BY <1>2, <1>4, <1>5, <1>7
  <2>. QED BY <1>2, <2>1
<1>8. CASE found.value > best.val
  <2>1. /\ next.tempVal = found.value /\ next.val = found.value /\ next.index = found.max
    BY <1>3, <1>8
  <2>2. found.max # 0
    BY <1>2, <1>6, <1>8
  <2>3. At(s, c, from + found.max) = found.value
    BY <1>2, <1>4, <1>6, <2>2
  <2>4. ASSUME NEW d \in Upto(k), NEW i \in Upto(to - from), At(s, d, from + i) > At(s, d, from)
        PROVE  At(s, d, from + i) <= next.val
    <3>1. CASE d = c
      BY <1>4, <1>5, <1>7, <2>1, <2>4, <3>1
    <3>2. CASE d \in Upto(k - 1)
      <4>1. At(s, d, from + i) <= best.val
        BY <2>4, <3>2 DEF PeakSoFar
      <4>2. At(s, d, from + i) \in Int
        <5>1. d \in Upto(s.channels) /\ from + i \in Upto(s.size)
          <6>1. s.channels \in Nat /\ s.size \in Nat /\ from \in 0 .. (s.size - 1) /\ i \in 0 .. (to - from - 1)
                /\ d \in 0 .. (k - 1)
            BY SignalIs, <2>4 DEF Upto
          <6>2. d \in 0 .. (s.channels - 1) /\ from + i \in 0 .. (s.size - 1)
            BY <6>1
          <6>. QED BY <6>2 DEF Upto
        <5>. QED BY <5>1, SampleIs
      <4>. QED BY <1>6, <1>8, <2>1, <4>1, <4>2
    <3>. QED BY <1>0, <3>1, <3>2
  <2>5. next.val >= 0 /\ next.tempVal <= next.val
    BY <1>6, <1>8, <2>1
  <2>6. next.index \in Upto(to - from) /\ \E d \in Upto(k) : At(s, d, from + next.index) = next.val
    BY <1>0, <1>6, <2>1, <2>3
  <2>. QED BY <2>4, <2>5, <2>6 DEF PeakSoFar, next
<1>9. CASE ~(found.value > best.val)
  <2>1. next.tempVal = found.value /\ next.val = best.val /\ next.index = best.index
    BY <1>3, <1>9
  <2>2. ASSUME NEW d \in Upto(k), NEW i \in Upto(to - from), At(s, d, from + i) > At(s, d, from)
        PROVE  At(s, d, from + i) <= next.val
    <3>1. CASE d = c
      BY <1>4, <1>5, <1>6, <1>7, <1>9, <2>1, <2>2, <3>1
    <3>2. CASE d \in Upto(k - 1)
      BY <2>1, <2>2, <3>2 DEF PeakSoFar
    <3>. QED BY <1>0, <3>1, <3>2
  <2>3. next.val >= 0 /\ next.tempVal <= next.val
    BY <1>6, <1>9, <2>1
  <2>4. next.val > 0 => /\ next.index \in Upto(to - from)
                        /\ \E d \in Upto(k) : At(s, d, from + next.index) = next.val
    BY <1>0, <2>1 DEF PeakSoFar
  <2>. QED BY <2>2, <2>3, <2>4 DEF PeakSoFar, next
<1>. QED BY <1>8, <1>9

LEMMA PeakOfFinds ==
  ASSUME NEW s \in Signals, NEW from \in Upto(s.size), NEW to \in 1 .. s.size, from < to,
         NEW peak \in Int, peak > 0,
         \A c \in Upto(s.channels), i \in from .. (to - 1) : At(s, c, i) <= peak,
         NEW c0 \in Upto(s.channels), NEW i0 \in from .. (to - 1),
         At(s, c0, i0) = peak, At(s, c0, from) # peak
  PROVE  /\ PeakOf(s, from, to).val = peak
         /\ PeakOf(s, from, to).index \in from .. (to - 1)
         /\ \E c \in Upto(s.channels) : At(s, c, PeakOf(s, from, to).index) = peak
<1>1. PICK y : PeakSteps(y, s, from, to)
  BY PeakIs
<1> DEFINE n == s.channels
           V == [tempVal : Int, val : Int, index : Upto(to - from) \cup {Undef}]
           T == {k \in 0 .. n : PeakSoFar(y[k], s, from, to, k)}
<1>2. n \in Nat /\ y \in [0 .. n -> V]
  BY <1>1, SignalIs DEF PeakSteps
<1>3. 0 \in T
  <2>1. y[0] = [tempVal |-> 0, val |-> 0, index |-> Undef] /\ Upto(0) = {}
    BY <1>1 DEF PeakSteps, Upto
  <2>. QED BY <1>2, <2>1 DEF PeakSoFar
<1>4. ASSUME NEW k \in 1 .. n, k - 1 \in T PROVE k \in T
  <2>1. k - 1 \in 0 .. n /\ y[k - 1] \in V /\ k \in 0 .. n
    BY <1>2
  <2>2. y[k] = PeakLook(s, from, to, y[k - 1], k - 1)
    BY <1>1 DEF PeakSteps
  <2>3. PeakSoFar(PeakLook(s, from, to, y[k - 1], k - 1), s, from, to, k)
    <3>1. PeakSoFar(y[k - 1], s, from, to, k - 1)
      BY <1>4
    <3>. QED BY <2>1, <3>1, LookKeeps
  <2>. QED BY <2>1, <2>2, <2>3
<1>5. n \in T
  <2>1. n \in 0 .. n
    BY <1>2
  <2> HIDE DEF T, n
  <2>. QED BY <1>2, <1>3, <1>4, <2>1, UptoInduction
<1> DEFINE end == y[n]
<1>6. end \in V /\ PeakSoFar(end, s, from, to, n)
  BY <1>2, <1>5
<1>7. PeakOf(s, from, to) = [val |-> end.val, index |-> IF end.index = Undef THEN Undef ELSE end.index + from]
  BY <1>1 DEF PeakSteps
<1> HIDE DEF end, T
<1>8. peak <= end.val
  <2>1. i0 - from \in Upto(to - from) /\ from + (i0 - from) = i0
    BY SignalIs DEF Upto
  <2>2. At(s, c0, from) <= peak /\ At(s, c0, from) \in Int
    <3>1. from \in from .. (to - 1)
      BY SignalIs DEF Upto
    <3>. QED BY <3>1, SampleIs
  <2>3. At(s, c0, i0) > At(s, c0, from)
    BY <2>2
  <2>. QED BY <1>6, <2>1, <2>3 DEF PeakSoFar
<1>9. end.val \in Int /\ end.val > 0
  BY <1>6, <1>8
<1>10. PICK c \in Upto(n) : At(s, c, from + end.index) = end.val
  BY <1>6, <1>9 DEF PeakSoFar
<1>11. end.index \in Upto(to - from) /\ end.index # Undef
  <2>1. end.index \in Upto(to - from)
    BY <1>6, <1>9 DEF PeakSoFar
  <2>2. end.index \in Int
    BY <2>1 DEF Upto
  <2>. QED BY <2>1, <2>2, AnalysisAssumption
<1>12. from + end.index \in from .. (to - 1) /\ end.index + from = from + end.index
  <2> DEFINE e == end.index
  <2>1. e \in 0 .. (to - from - 1) /\ from \in Nat /\ to \in Nat
    BY <1>11, SignalIs DEF Upto
  <2> HIDE DEF e
  <2>2. from + e \in from .. (to - 1) /\ e + from = from + e
    BY <2>1
  <2>. QED BY <2>2 DEF e
<1>13. end.val <= peak
  BY <1>10, <1>12
<1>14. end.val = peak
  BY <1>8, <1>9, <1>13
<1>. QED BY <1>7, <1>10, <1>11, <1>12, <1>14

-----------------------------------------------------------------------------
(***************************************************************************)
(* findZeroCrossing.                                                       *)
(***************************************************************************)
LEMMA SignIs ==
  ASSUME NEW s \in Signals, NEW c, NEW i
  PROVE  SameSign(s, c, i) \in BOOLEAN \cup {Undef}
  BY DEF SameSign

LEMMA SignInRow ==
  ASSUME NEW s \in Signals, NEW c \in Upto(s.channels), NEW i \in Upto(s.size), i + 1 \in Upto(s.size)
  PROVE  SameSign(s, c, i) = (At(s, c, i) * At(s, c, i + 1) > 0)
<1>1. At(s, c, i) \in Int /\ At(s, c, i + 1) \in Int
  BY SampleIs
<1>. QED BY <1>1, AnalysisAssumption DEF SameSign

WalkPlaces(s) == (-(s.channels * s.size) - 1) .. s.size

\* The search comes to rest here.
Rests(s, start, c, e) == ~NotBelow(e, start) \/ SameSign(s, c, e) # TRUE

RestsWith(s, start, c, e) ==
  IF NotBelow(e, start) /\ SameSign(s, c, e) = Undef THEN Undef ELSE e

IsWalk(w, s, start, c) ==
  w = [ci \in WalkPlaces(s) |->
         IF ~NotBelow(ci, start) \/ SameSign(s, c, ci) = FALSE THEN ci
         ELSE IF SameSign(s, c, ci) = TRUE THEN w[ci - 1] ELSE Undef]

\* One step of the search.
LEMMA WalkStep ==
  ASSUME NEW s \in Signals, NEW start, NEW c, NEW w, NEW ci
  PROVE  (IF ~NotBelow(ci, start) \/ SameSign(s, c, ci) = FALSE THEN ci
          ELSE IF SameSign(s, c, ci) = TRUE THEN w[ci - 1] ELSE Undef)
         = IF Rests(s, start, c, ci) THEN RestsWith(s, start, c, ci) ELSE w[ci - 1]
<1>1. SameSign(s, c, ci) \in {TRUE, FALSE, Undef} /\ Undef # TRUE /\ Undef # FALSE /\ TRUE # FALSE
  BY SignIs, AnalysisAssumption
<1>2. NotBelow(ci, start) \in BOOLEAN
  BY DEF NotBelow
<1>. QED BY <1>1, <1>2 DEF Rests, RestsWith

WalksOn(w, s, start, c) ==
  \A ci \in WalkPlaces(s) :
    w[ci] = IF Rests(s, start, c, ci) THEN RestsWith(s, start, c, ci) ELSE w[ci - 1]

LEMMA WalkIs ==
  ASSUME NEW s \in Signals, NEW start, NEW c, NEW w, w = [ci \in WalkPlaces(s) |-> w[ci]]
  PROVE  IsWalk(w, s, start, c) <=> WalksOn(w, s, start, c)
<1> DEFINE B(ci) == IF ~NotBelow(ci, start) \/ SameSign(s, c, ci) = FALSE THEN ci
                    ELSE IF SameSign(s, c, ci) = TRUE THEN w[ci - 1] ELSE Undef
           R(ci) == IF Rests(s, start, c, ci) THEN RestsWith(s, start, c, ci) ELSE w[ci - 1]
<1>1. \A ci : B(ci) = R(ci)
  BY WalkStep
<1>2. IsWalk(w, s, start, c) <=> w = [ci \in WalkPlaces(s) |-> B(ci)]
  BY DEF IsWalk
<1>3. WalksOn(w, s, start, c) <=> \A ci \in WalkPlaces(s) : w[ci] = R(ci)
  BY DEF WalksOn
<1> HIDE DEF B, R
<1>. QED BY <1>1, <1>2, <1>3

\* Before the block the search has come to rest.
LEMMA RestsBefore ==
  ASSUME NEW s \in Signals, NEW start \in 0 .. s.size, NEW c \in Upto(s.channels)
  PROVE  LET low == -(s.channels * s.size) - 1
         IN  low \in WalkPlaces(s) /\ low \in Int /\ Rests(s, start, c, low)
<1> DEFINE N == s.channels * s.size
           low == -N - 1
<1>1. s.size \in Nat /\ s.channels \in Nat /\ 0 \in Upto(s.size)
  BY SignalIs DEF Upto
<1>2. c * s.size + 0 \in Upto(N)
  BY <1>1, RowsFit
<1>3. N \in Nat /\ c * s.size \in Nat /\ c * s.size < N
  <2>1. N \in Int /\ c * s.size \in Int
    BY <1>1 DEF Upto
  <2> HIDE DEF N
  <2>. QED BY <1>2, <2>1 DEF Upto
<1>4. DOMAIN s.block = Upto(N)
  BY SignalIs
<1> HIDE DEF N
<1>5. c * s.size + low < 0 /\ low \in Int /\ low <= s.size
  BY <1>1, <1>3
<1>6. At(s, c, low) = Undef
  BY <1>4, <1>5 DEF At, Upto
<1>7. SameSign(s, c, low) # TRUE
  BY <1>6, AnalysisAssumption DEF SameSign
<1>8. WalkPlaces(s) = low .. s.size
  BY DEF WalkPlaces, N
<1>9. low \in low .. s.size
  BY <1>1, <1>5
<1>10. Rests(s, start, c, low)
  BY <1>7 DEF Rests
<1>11. low = -(s.channels * s.size) - 1
  BY DEF N
<1> HIDE DEF low
<1>. QED BY <1>5, <1>8, <1>9, <1>10, <1>11

LEMMA WalkExists ==
  ASSUME NEW s \in Signals, NEW start \in 0 .. s.size, NEW c \in Upto(s.channels)
  PROVE  \E w : IsWalk(w, s, start, c)
<1> DEFINE P == WalkPlaces(s)
           low == -(s.channels * s.size) - 1
           Rest(e) == Rests(s, start, c, e)
           IsLast(e, ci) == e \in P /\ e <= ci /\ Rest(e) /\ \A f \in P : f <= ci /\ Rest(f) => f <= e
           last(ci) == CHOOSE e : IsLast(e, ci)
           w == [ci \in P |-> RestsWith(s, start, c, last(ci))]
<1>1. P \subseteq Int /\ low \in P /\ Rest(low) /\ \A e \in P : low <= e /\ (e # low => e - 1 \in P)
  <2>1. low \in Int /\ s.size \in Int
    BY RestsBefore, SignalIs
  <2>2. low \in P /\ Rest(low)
    BY RestsBefore
  <2>3. P = low .. s.size
    BY DEF WalkPlaces
  <2> HIDE DEF P, low, Rest
  <2>. QED BY <2>1, <2>2, <2>3
<1> HIDE DEF P, low, Rest
<1>2. ASSUME NEW ci \in P PROVE \E e : IsLast(e, ci)
  <2> DEFINE T == {ci - e : e \in {f \in P : f <= ci /\ Rest(f)}}
  <2>1. T \subseteq Nat /\ ci - low \in T
    <3>1. \A e \in P : e <= ci => ci - e \in Nat
      BY <1>1
    <3>2. low <= ci
      BY <1>1
    <3>. QED BY <1>1, <3>1, <3>2
  <2>2. PICK t \in T : \A u \in T : t <= u
    <3> HIDE DEF T
    <3>. QED BY <2>1, Smallest
  <2>3. PICK e \in P : t = ci - e /\ e <= ci /\ Rest(e)
    OBVIOUS
  <2>4. ASSUME NEW f \in P, f <= ci, Rest(f) PROVE f <= e
    <3>1. ci - f \in T
      BY <2>4
    <3>2. ci - e <= ci - f
      BY <2>2, <2>3, <3>1
    <3>. QED BY <1>1, <3>2
  <2>. QED BY <2>3, <2>4
<1>3. ASSUME NEW ci \in P, NEW e, IsLast(e, ci) PROVE last(ci) = e
  <2>1. \A f : IsLast(f, ci) => f = e
    <3>1. \A f : IsLast(f, ci) => f \in Int /\ e \in Int /\ f <= e /\ e <= f
      BY <1>1, <1>3
    <3> HIDE DEF IsLast
    <3>. QED BY <3>1
  <2> HIDE DEF IsLast
  <2>. QED BY <1>3, <2>1
<1>4. ASSUME NEW ci \in P
      PROVE  w[ci] = IF Rest(ci) THEN RestsWith(s, start, c, ci) ELSE w[ci - 1]
  <2>1. CASE Rest(ci)
    <3>1. ci <= ci
      BY <1>1
    <3>2. IsLast(ci, ci)
      BY <2>1, <3>1
    <3>3. last(ci) = ci
      <4> HIDE DEF IsLast, last
      <4>. QED BY <1>3, <3>2
    <3> HIDE DEF last
    <3>. QED BY <2>1, <3>3
  <2>2. CASE ~Rest(ci)
    <3>1. ci - 1 \in P
      BY <1>1, <2>2
    <3>2. PICK e : IsLast(e, ci - 1)
      <4> HIDE DEF IsLast
      <4>. QED BY <1>2, <3>1
    <3>3. IsLast(e, ci)
      <4>1. e <= ci
        BY <1>1, <3>1, <3>2
      <4>2. ASSUME NEW f \in P, f <= ci, Rest(f) PROVE f <= e
        <5>1. f # ci
          BY <2>2, <4>2
        <5>2. f <= ci - 1
          BY <1>1, <4>2, <5>1
        <5>. QED BY <3>2, <4>2, <5>2
      <4>. QED BY <3>2, <4>1, <4>2
    <3>4. last(ci) = e /\ last(ci - 1) = e
      <4> HIDE DEF IsLast, last
      <4>. QED BY <1>3, <3>1, <3>2, <3>3
    <3> HIDE DEF last
    <3>. QED BY <2>2, <3>1, <3>4
  <2>. QED BY <2>1, <2>2
<1>5. WalksOn(w, s, start, c)
  <2> HIDE DEF w
  <2>. QED BY <1>4 DEF WalksOn, P, Rest
<1>6. w = [ci \in WalkPlaces(s) |-> w[ci]]
  BY DEF P
<1>7. IsWalk(w, s, start, c)
  <2> HIDE DEF w
  <2>. QED BY <1>5, <1>6, WalkIs
<1>. QED BY <1>7

\* It rests at e, and nowhere from there up to ci.
RestsFirst(s, start, c, e, ci) ==
  /\ e \in WalkPlaces(s) /\ Rests(s, start, c, e)
  /\ ci \in WalkPlaces(s) /\ e <= ci
  /\ \A f \in WalkPlaces(s) : e < f /\ f <= ci => ~Rests(s, start, c, f)

\* The walk the definition chooses, followed from a place down to where it rests.
LEMMA WalkComesTo ==
  ASSUME NEW s \in Signals, NEW start \in 0 .. s.size, NEW c \in Upto(s.channels),
         NEW w, NEW e, NEW ci, IsWalk(w, s, start, c), RestsFirst(s, start, c, e, ci)
  PROVE  w[ci] = RestsWith(s, start, c, e)
<1>0. /\ e \in WalkPlaces(s) /\ Rests(s, start, c, e)
      /\ ci \in WalkPlaces(s) /\ e <= ci
      /\ \A f \in WalkPlaces(s) : e < f /\ f <= ci => ~Rests(s, start, c, f)
  BY DEF RestsFirst
<1> DEFINE P == WalkPlaces(s)
           n == ci - e
           T == {k \in 0 .. n : w[e + k] = RestsWith(s, start, c, e)}
<1>1. P \subseteq Int /\ \A k \in 0 .. n : e + k \in P /\ e + k <= ci
  <2>1. -(s.channels * s.size) - 1 \in Int /\ s.size \in Int
    BY RestsBefore, SignalIs
  <2>. QED BY <1>0, <2>1 DEF WalkPlaces
<1>2. WalksOn(w, s, start, c)
  <2>1. w = [i \in WalkPlaces(s) |-> w[i]]
    BY DEF IsWalk
  <2>. QED BY <2>1, WalkIs
<1>3. n \in Nat /\ e \in Int /\ ci \in Int
  BY <1>0, <1>1
<1> HIDE DEF P
<1>4. 0 \in T
  <2>1. e + 0 = e /\ 0 \in 0 .. n
    BY <1>3
  <2>2. w[e] = RestsWith(s, start, c, e)
    BY <1>0, <1>2 DEF WalksOn
  <2>. QED BY <2>1, <2>2
<1>5. ASSUME NEW k \in 1 .. n, k - 1 \in T PROVE k \in T
  <2>1. k \in 0 .. n /\ e < e + k /\ e + k <= ci
    BY <1>3
  <2>2. e + k \in WalkPlaces(s)
    BY <1>1, <2>1 DEF P
  <2>3. ~Rests(s, start, c, e + k)
    BY <1>0, <2>1, <2>2
  <2>4. w[e + k] = w[e + (k - 1)]
    <3>1. \A f \in WalkPlaces(s) : ~Rests(s, start, c, f) => w[f] = w[f - 1]
      BY <1>2 DEF WalksOn
    <3>2. PICK f \in WalkPlaces(s) : f = e + k
      BY <2>2
    <3>3. w[f] = w[f - 1]
      BY <2>3, <3>1, <3>2
    <3>4. f - 1 = e + (k - 1)
      BY <1>3, <3>2
    <3>. QED BY <3>2, <3>3, <3>4
  <2>. QED BY <1>5, <2>1, <2>4
<1>6. n \in T
  <2>1. n \in 0 .. n
    BY <1>3
  <2> HIDE DEF T, n
  <2>. QED BY <1>3, <1>4, <1>5, <2>1, UptoInduction
<1>. QED BY <1>3, <1>6

CrossingComesTo(end, s, c, start, before) ==
  /\ Crossing(s, start, before, c) =
       IF before < start + 2 THEN 0
       ELSE IF end # Undef /\ ~NotBelow(end, start) THEN start ELSE end
  /\ \A e : RestsFirst(s, start, c, e, before - 1) => end = RestsWith(s, start, c, e)

LEMMA CrossingWalks ==
  ASSUME NEW s \in Signals, NEW c \in Upto(s.channels),
         NEW start \in 0 .. s.size, NEW before \in 0 .. s.size
  PROVE  \E end : CrossingComesTo(end, s, c, start, before)
<1> DEFINE E(g) == g = [ci \in (-(s.channels * s.size) - 1) .. s.size |->
                          IF ~NotBelow(ci, start) \/ SameSign(s, c, ci) = FALSE THEN ci
                          ELSE IF SameSign(s, c, ci) = TRUE THEN g[ci - 1] ELSE Undef]
           w == CHOOSE g : E(g)
           end == w[before - 1]
<1>1. IsWalk(w, s, start, c)
  <2>1. \A g : E(g) <=> IsWalk(g, s, start, c)
    BY DEF IsWalk, WalkPlaces
  <2>2. \E g : E(g)
    <3> HIDE DEF E
    <3>. QED BY <2>1, WalkExists
  <2>3. E(w)
    <3> HIDE DEF E
    <3>. QED BY <2>2
  <2> HIDE DEF E, w
  <2>. QED BY <2>1, <2>3
<1>2. Crossing(s, start, before, c) =
        IF before < start + 2 THEN 0
        ELSE IF end # Undef /\ ~NotBelow(end, start) THEN start ELSE end
  BY DEF Crossing
<1> HIDE DEF w, E
<1>3. ASSUME NEW e, RestsFirst(s, start, c, e, before - 1)
      PROVE  end = RestsWith(s, start, c, e)
  <2>1. start \in 0 .. s.size /\ s \in Signals /\ c \in Upto(s.channels)
    OBVIOUS
  <2>2. \A v, i, d : IsWalk(v, s, start, c) /\ RestsFirst(s, start, c, d, i) => v[i] = RestsWith(s, start, c, d)
    <3> HIDE DEF end, w
    <3>. QED BY ONLY <2>1, WalkComesTo
  <2>. QED BY <1>1, <1>3, <2>2
<1> HIDE DEF end
<1>. QED BY <1>2, <1>3 DEF CrossingComesTo

LEMMA CrossingFinds ==
  ASSUME NEW s \in Signals, NEW c \in Upto(s.channels),
         NEW start \in 0 .. s.size, NEW before \in 0 .. s.size,
         before < s.size, before >= start + 2,
         NEW changes,
         changes = {i \in start .. (before - 1) : At(s, c, i) * At(s, c, i + 1) <= 0},
         start > 0 \/ changes # {}
  PROVE  Crossing(s, start, before, c) = IF changes # {} THEN Max(changes) ELSE start
<1>1. PICK end : CrossingComesTo(end, s, c, start, before)
  BY CrossingWalks
<1>2. /\ Crossing(s, start, before, c) =
           IF before < start + 2 THEN 0
           ELSE IF end # Undef /\ ~NotBelow(end, start) THEN start ELSE end
      /\ \A e : RestsFirst(s, start, c, e, before - 1) => end = RestsWith(s, start, c, e)
  BY <1>1 DEF CrossingComesTo
<1>3. s.size \in Nat /\ s.channels \in Nat /\ s.channels * s.size \in Nat
  BY SignalIs
<1>4. \A i \in 0 .. s.size : i \in WalkPlaces(s)
  BY <1>3 DEF WalkPlaces
<1>5. \A f \in WalkPlaces(s) : f \in Int
  BY <1>3 DEF WalkPlaces
<1>6. ASSUME NEW i \in start .. (before - 1)
      PROVE  /\ i \in Upto(s.size) /\ i + 1 \in Upto(s.size) /\ i \in WalkPlaces(s)
             /\ NotBelow(i, start) /\ SameSign(s, c, i) # Undef
             /\ Rests(s, start, c, i) <=> i \in changes
  <2>1. i \in Upto(s.size) /\ i + 1 \in Upto(s.size) /\ i \in 0 .. s.size
    BY <1>3 DEF Upto
  <2>2. NotBelow(i, start)
    BY DEF NotBelow
  <2>3. SameSign(s, c, i) = (At(s, c, i) * At(s, c, i + 1) > 0)
    BY <2>1, SignInRow
  <2>4. At(s, c, i) \in Int /\ At(s, c, i + 1) \in Int
    BY <2>1, SampleIs
  <2>5. At(s, c, i) * At(s, c, i + 1) > 0 <=> i \notin changes
    <3>1. PICK p \in Int : p = At(s, c, i) * At(s, c, i + 1)
      BY <2>4
    <3>2. i \in changes <=> p <= 0
      BY <3>1
    <3>. QED BY <3>1, <3>2
  <2>6. SameSign(s, c, i) \in BOOLEAN
    BY <2>3
  <2>. QED BY <1>4, <2>1, <2>2, <2>3, <2>5, <2>6, AnalysisAssumption DEF Rests
<1>7. PICK top \in WalkPlaces(s) : top = before - 1 /\ top \in Int
  BY <1>3, <1>4
<1>8. CASE changes # {}
  <2>1. Max(changes) \in changes /\ \A i \in changes : i <= Max(changes)
    <3>1. changes \subseteq Int
      OBVIOUS
    <3>2. IsFiniteSet(start .. (before - 1))
      BY FS_Interval
    <3>3. IsFiniteSet(changes)
      BY <3>2, FS_Subset
    <3>. QED BY <1>8, <3>1, <3>3, MaxFound
  <2>2. PICK m \in changes : m = Max(changes) /\ \A i \in changes : i <= m
    BY <2>1
  <2>3. m \in start .. (before - 1) /\ m \in Int
    OBVIOUS
  <2>4. ASSUME NEW f \in WalkPlaces(s), m < f, f <= before - 1 PROVE ~Rests(s, start, c, f)
    <3>1. f \in start .. (before - 1) /\ ~(f <= m)
      BY <1>5, <2>3, <2>4
    <3>. QED BY <1>6, <2>2, <3>1
  <2>5. Rests(s, start, c, m) /\ NotBelow(m, start) /\ SameSign(s, c, m) # Undef /\ m \in WalkPlaces(s)
    BY <1>6, <2>3
  <2>6. end = RestsWith(s, start, c, m)
    <3>1. m <= before - 1
      BY <2>3
    <3>2. RestsFirst(s, start, c, m, top)
      BY <1>7, <2>4, <2>5, <3>1 DEF RestsFirst
    <3>. QED BY <1>2, <1>7, <3>2
  <2>7. end = m
    BY <2>5, <2>6 DEF RestsWith
  <2>. QED BY <1>2, <1>8, <2>2, <2>5, <2>7
<1>9. CASE changes = {}
  <2>1. PICK low \in WalkPlaces(s) :
          low = start - 1 /\ ~NotBelow(low, start) /\ low \in Int /\ low <= before - 1
    <3>1. start - 1 \in 0 .. s.size /\ start - 1 < start /\ start - 1 <= before - 1
      BY <1>3, <1>9
    <3>. QED BY <1>4, <3>1 DEF NotBelow
  <2>2. ASSUME NEW f \in WalkPlaces(s), low < f, f <= before - 1 PROVE ~Rests(s, start, c, f)
    <3>1. f \in start .. (before - 1)
      BY <1>5, <2>1, <2>2
    <3>. QED BY <1>6, <1>9, <3>1
  <2>3. Rests(s, start, c, low)
    BY <2>1 DEF Rests
  <2>4. end = RestsWith(s, start, c, low)
    <3>1. RestsFirst(s, start, c, low, top)
      BY <1>7, <2>1, <2>2, <2>3 DEF RestsFirst
    <3>. QED BY <1>2, <1>7, <3>1
  <2>5. end = low /\ end # Undef
    BY <2>1, <2>4, AnalysisAssumption DEF RestsWith
  <2>. QED BY <1>2, <1>9, <2>1, <2>5
<1>. QED BY <1>8, <1>9

-----------------------------------------------------------------------------
(***************************************************************************)
(* requantize: a step of the new resolution is k steps of the old one.     *)
(***************************************************************************)
LEMMA ShortenFraction ==
  ASSUME NEW a \in Nat, NEW h \in Nat \ {0}, NEW k \in Nat \ {0}
  PROVE  (a * h) \div (h * k) = a \div k
<1> DEFINE m == a \div k
           r == a % k
<1>1. m \in Int /\ r \in 0 .. (k - 1) /\ a = k * m + r
  OBVIOUS
<1> HIDE DEF m, r
<1>2. h * k \in Nat \ {0}
  OBVIOUS
<1>3. a * h = (h * k) * m + h * r
  BY <1>1
<1>4. 0 <= h * r /\ h * r < h * k
  BY <1>1
<1>5. \A d \in Nat \ {0}, e \in Int, p \in Int : 0 <= p /\ p < d => (d * e + p) \div d = e
  OBVIOUS
<1> DEFINE d == h * k
           p == h * r
<1>6. p \in Int /\ d \in Nat \ {0} /\ a * h = d * m + p /\ 0 <= p /\ p < d
  BY <1>1, <1>2, <1>3, <1>4
<1> HIDE DEF d, p
<1>7. (a * h) \div d = m
  BY <1>1, <1>5, <1>6
<1>. QED BY <1>7 DEF d, m

LEMMA StepsOf ==
  ASSUME NEW h \in 1 .. Steps, Steps % h = 0
  PROVE  Steps \div h \in Nat \ {0} /\ Steps = h * (Steps \div h)
<1>1. \A n \in Nat \ {0} : \A m \in 1 .. n : n % m = 0 => n \div m \in Nat \ {0} /\ n = m * (n \div m)
  OBVIOUS
<1>. QED BY <1>1, AnalysisAssumption

\* The amount of the rounded sample is a multiple of k.
LEMMA RequantizedIs ==
  ASSUME NEW x \in Int, NEW h \in 1 .. Steps, Steps % h = 0, NEW k \in Nat \ {0}, Steps = h * k, Steps \div h = k
  PROVE  Requantized(x, h) = IF x < 0 THEN -((Abs(x) \div k) * k) ELSE (Abs(x) \div k) * k
<1>1. Abs(x) \in Nat
  BY DEF Abs
<1>2. (Abs(x) * h) \div Steps = Abs(x) \div k
  <2> DEFINE a == Abs(x)
  <2>1. a \in Nat /\ h \in Nat \ {0} /\ h * k = Steps
    BY <1>1, AnalysisAssumption
  <2> HIDE DEF a
  <2>2. (a * h) \div (h * k) = a \div k
    BY <2>1, ShortenFraction
  <2>. QED BY <2>1, <2>2 DEF a
<1>. QED BY <1>2 DEF Requantized

RequantizedOK(x, q, h) == /\ Abs(x - q) * h < Steps
                          /\ Abs(q) <= Abs(x)
                          /\ Requantized(q, h) = q

LEMMA RequantizedRounds ==
  ASSUME NEW x \in Int, NEW h \in 1 .. Steps, Steps % h = 0
  PROVE  RequantizedOK(x, Requantized(x, h), h)
<1> DEFINE k == Steps \div h
           q == Requantized(x, h)
           m == Abs(x) \div k
           r == Abs(x) % k
<1>1. k \in Nat \ {0} /\ Steps = h * k
  BY StepsOf
<1>2. q = IF x < 0 THEN -(m * k) ELSE m * k
  BY <1>1, RequantizedIs
<1>3. Abs(x) \in Nat
  BY DEF Abs
<1> HIDE DEF k, q
<1>4. m \in Nat /\ r \in 0 .. (k - 1) /\ Abs(x) = k * m + r
  <2>1. \A e \in Nat, d \in Nat \ {0} : e \div d \in Nat /\ e % d \in 0 .. (d - 1) /\ e = d * (e \div d) + (e % d)
    OBVIOUS
  <2>. QED BY <1>1, <1>3, <2>1
<1> HIDE DEF m, r
<1>5. m * k \in Nat /\ m * k + r = Abs(x)
  BY <1>1, <1>4
<1> DEFINE a == m * k
<1>6. Abs(q) = a /\ Abs(x - q) = r /\ q \in Int /\ (q < 0 => x < 0) /\ (x < 0 => q < 0 \/ a = 0)
  <2> HIDE DEF a
  <2>1. a \in Nat /\ a + r = Abs(x) /\ r \in Nat
    BY <1>1, <1>4, <1>5 DEF a
  <2>2. q = IF x < 0 THEN -a ELSE a
    BY <1>2 DEF a
  <2>. QED BY <2>1, <2>2 DEF Abs
<1>7. r * h < Steps
  <2>1. \A b \in Nat, d \in Nat \ {0}, e \in Nat \ {0} : b < e => b * d < d * e
    OBVIOUS
  <2>. QED BY <1>1, <1>4, <2>1
<1>8. a <= Abs(x)
  BY <1>4, <1>5
<1>9. Requantized(q, h) = q
  <2>1. Requantized(q, h) = IF q < 0 THEN -((a \div k) * k) ELSE (a \div k) * k
    <3> HIDE DEF a
    <3>1. Steps \div h = k
      BY DEF k
    <3>. QED BY <1>1, <1>6, <3>1, RequantizedIs
  <2>2. a \div k = m
    <3>1. \A d \in Nat \ {0}, e \in Nat : (e * d) \div d = e
      OBVIOUS
    <3>. QED BY <1>1, <1>4, <3>1
  <2>3. Requantized(q, h) = IF q < 0 THEN -a ELSE a
    BY <2>1, <2>2
  <2> HIDE DEF a
  <2>4. q = IF x < 0 THEN -a ELSE a
    BY <1>2 DEF a
  <2>5. a \in Nat
    BY <1>5 DEF a
  <2>. QED BY <1>6, <2>3, <2>4, <2>5
<1>. QED BY <1>6, <1>7, <1>8, <1>9 DEF RequantizedOK, q

-----------------------------------------------------------------------------
(***************************************************************************)
(* normalize.                                                              *)
(***************************************************************************)
\* The greater magnitude of maximum and minimum.
Extreme(x) == IF Abs(Max(x)) > Abs(Min(x)) THEN Abs(Max(x)) ELSE Abs(Min(x))

LEMMA ExtremeIs ==
  ASSUME NEW S, IsFiniteSet(S), S \subseteq Int, S # {}
  PROVE  /\ Extreme(S) \in Nat /\ \A y \in S : Abs(y) <= Extreme(S)
         /\ \E y \in S : Abs(y) = Extreme(S)
<1>1. /\ Max(S) \in S /\ \A y \in S : y <= Max(S)
      /\ Min(S) \in S /\ \A y \in S : Min(S) <= y
  BY MaxFound, MinFound
<1> DEFINE a == Max(S)
           b == Min(S)
<1>2. a \in S /\ b \in S /\ a \in Int /\ b \in Int /\ \A y \in S : y \in Int /\ y <= a /\ b <= y
  BY <1>1
<1>3. Extreme(S) = IF Abs(a) > Abs(b) THEN Abs(a) ELSE Abs(b)
  BY DEF Extreme
<1> HIDE DEF a, b
<1>. QED BY <1>2, <1>3 DEF Abs

RowSamples(s, c) == {At(s, c, i) : i \in Upto(s.size)}

LEMMA RowSamplesAre ==
  ASSUME NEW s \in Signals, NEW c \in Upto(s.channels)
  PROVE  IsFiniteSet(RowSamples(s, c)) /\ RowSamples(s, c) \subseteq Int /\ RowSamples(s, c) # {}
<1>1. RowSamples(s, c) \subseteq SamplesOf(s) /\ RowSamples(s, c) \subseteq Int
  BY SampleIs DEF RowSamples
<1>2. At(s, c, 0) \in RowSamples(s, c)
  BY SignalIs DEF RowSamples, Upto
<1>. QED BY <1>1, <1>2, SamplesAreFinite, FS_Subset

LEMMA LoudestIs ==
  ASSUME NEW s \in Signals
  PROVE  /\ Loudest(s) \in Nat
         /\ \A c \in Upto(s.channels), i \in Upto(s.size) : Abs(At(s, c, i)) <= Loudest(s)
         /\ Loudest(s) # 0 =>
              \E c \in Upto(s.channels), i \in Upto(s.size) : Abs(At(s, c, i)) = Loudest(s)
<1> DEFINE OfRow(c) == Extreme(RowSamples(s, c))
           rows == {OfRow(c) : c \in Upto(s.channels)}
           S == rows \cup {0}
<1>1. Loudest(s) = Max(S)
  BY DEF Loudest, Extreme, RowSamples
<1>2. ASSUME NEW c \in Upto(s.channels)
      PROVE  /\ OfRow(c) \in Nat /\ \A i \in Upto(s.size) : Abs(At(s, c, i)) <= OfRow(c)
             /\ \E i \in Upto(s.size) : Abs(At(s, c, i)) = OfRow(c)
  <2>1. /\ OfRow(c) \in Nat /\ \A y \in RowSamples(s, c) : Abs(y) <= OfRow(c)
        /\ \E y \in RowSamples(s, c) : Abs(y) = OfRow(c)
    BY RowSamplesAre, ExtremeIs
  <2> HIDE DEF OfRow
  <2>. QED BY <2>1 DEF RowSamples
<1>3. IsFiniteSet(S) /\ S \subseteq Int /\ S # {}
  <2> DEFINE f == [c \in Upto(s.channels) |-> OfRow(c)]
  <2>1. f \in Surjection(Upto(s.channels), rows)
    BY DEF Surjection
  <2>2. IsFiniteSet(Upto(s.channels))
    BY SignalIs, UptoIsFinite
  <2>3. IsFiniteSet(rows)
    <3> HIDE DEF f, rows
    <3>. QED BY <2>1, <2>2, FS_Surjection
  <2>4. rows \subseteq Int
    BY <1>2
  <2> HIDE DEF rows
  <2>. QED BY <2>3, <2>4, FS_AddElement
<1>4. Loudest(s) \in S /\ \A y \in S : y <= Loudest(s)
  <2> HIDE DEF S
  <2>. QED BY <1>1, <1>3, MaxFound
<1>5. Loudest(s) \in Nat
  BY <1>2, <1>4
<1>6. ASSUME NEW c \in Upto(s.channels), NEW i \in Upto(s.size) PROVE Abs(At(s, c, i)) <= Loudest(s)
  <2>1. OfRow(c) \in S /\ OfRow(c) \in Nat /\ Abs(At(s, c, i)) <= OfRow(c) /\ Abs(At(s, c, i)) \in Int
    BY <1>2, SampleIs DEF Abs
  <2>2. OfRow(c) <= Loudest(s)
    BY <1>4, <2>1
  <2> HIDE DEF OfRow
  <2>. QED BY <1>5, <2>1, <2>2
<1>7. ASSUME Loudest(s) # 0
      PROVE  \E c \in Upto(s.channels), i \in Upto(s.size) : Abs(At(s, c, i)) = Loudest(s)
  <2>1. PICK c \in Upto(s.channels) : Loudest(s) = OfRow(c)
    BY <1>4, <1>7
  <2> HIDE DEF OfRow
  <2>. QED BY <1>2, <2>1
<1>. QED BY <1>5, <1>6, <1>7

\* Every sample of the block is in some row.
LEMMA PlaceInRow ==
  ASSUME NEW s \in Signals, NEW x \in SamplesOf(s)
  PROVE  \E c \in Upto(s.channels), i \in Upto(s.size) : At(s, c, i) = x
<1>1. PICK j \in DOMAIN s.block : x = s.block[j]
  BY DEF SamplesOf
<1> DEFINE c == j \div s.size
           i == j % s.size
<1>2. j \in 0 .. (s.channels * s.size - 1) /\ s.size \in Nat \ {0} /\ s.channels \in Nat \ {0}
  BY SignalIs DEF Upto
<1>3. c \in Nat /\ i \in 0 .. (s.size - 1) /\ j = s.size * c + i
  <2>1. \A e \in Nat, d \in Nat \ {0} : e \div d \in Nat /\ e % d \in 0 .. (d - 1) /\ e = d * (e \div d) + (e % d)
    OBVIOUS
  <2>2. j \in Nat
    BY <1>2
  <2>. QED BY <1>2, <2>1, <2>2
<1> HIDE DEF c, i
<1>4. c < s.channels
  <2>1. SUFFICES ASSUME c >= s.channels PROVE FALSE
    BY <1>2, <1>3
  <2>2. \A m, n \in Nat, d \in Nat : m >= n => d * m >= n * d
    OBVIOUS
  <2>3. s.size * c >= s.channels * s.size
    BY <1>2, <1>3, <2>1, <2>2
  <2>. QED BY <1>2, <1>3, <2>3
<1>5. c * s.size + i = j
  BY <1>2, <1>3
<1>6. At(s, c, i) = x
  BY <1>1, <1>5 DEF At
<1>7. c \in Upto(s.channels) /\ i \in Upto(s.size)
  BY <1>2, <1>3, <1>4 DEF Upto
<1>. QED BY <1>6, <1>7

LEMMA ScaledIs ==
  ASSUME NEW x \in Int, NEW loudest \in Nat \ {0}, NEW n \in Nat \ {0}, Abs(x) <= loudest
  PROVE  LET v == (x * n) \div loudest
         IN  v \in Int /\ Abs(v) <= n /\ (Abs(x) = loudest => Abs(v) = n)
<1> DEFINE p == x * n
           v == p \div loudest
           r == p % loudest
<1>1. p \in Int /\ v \in Int /\ r \in 0 .. (loudest - 1) /\ p = loudest * v + r
  <2>1. \A e \in Int, d \in Nat \ {0} : e \div d \in Int /\ e % d \in 0 .. (d - 1) /\ e = d * (e \div d) + (e % d)
    OBVIOUS
  <2>2. p \in Int
    OBVIOUS
  <2> HIDE DEF p
  <2>. QED BY <2>1, <2>2
<1>2. x <= loudest /\ -loudest <= x
  BY DEF Abs
<1>3. p <= loudest * n /\ loudest * (-n) <= p
  <2>1. \A a, b \in Int, d \in Nat : a <= b => a * d <= b * d
    OBVIOUS
  <2>2. x * n <= loudest * n /\ (-loudest) * n <= x * n
    BY <1>2, <2>1
  <2>3. (-loudest) * n = loudest * (-n)
    OBVIOUS
  <2>. QED BY <2>2, <2>3
<1>4. (x = loudest => p = loudest * n) /\ (x = -loudest => p = loudest * (-n))
  OBVIOUS
<1> HIDE DEF p, v, r
<1>5. \A a, b \in Int : a < b => loudest * a + loudest <= loudest * b
  <2>1. ASSUME NEW a \in Int, NEW b \in Int, a < b PROVE loudest * a + loudest <= loudest * b
    <3>1. PICK d \in Nat : b = a + 1 + d
      <4>1. b - a - 1 \in Nat /\ b = a + 1 + (b - a - 1)
        BY <2>1
      <4>. QED BY <4>1
    <3>2. loudest * b = loudest * a + loudest + loudest * d
      BY <3>1
    <3>3. loudest * d \in Nat
      OBVIOUS
    <3>. QED BY <3>2, <3>3
  <2>. QED BY <2>1
<1>6. v <= n
  <2>1. SUFFICES ASSUME n < v PROVE FALSE
    BY <1>1
  <2>2. loudest * n + loudest <= loudest * v /\ loudest * n \in Int /\ loudest * v \in Int
    BY <1>1, <1>5, <2>1
  <2>. QED BY <1>1, <1>3, <2>2
<1>7. -n <= v
  <2>1. SUFFICES ASSUME v < -n PROVE FALSE
    BY <1>1
  <2>2. loudest * v + loudest <= loudest * (-n) /\ loudest * (-n) \in Int /\ loudest * v \in Int
    BY <1>1, <1>5, <2>1
  <2>. QED BY <1>1, <1>3, <2>2
<1>8. ASSUME p = loudest * n PROVE v = n
  <2>1. SUFFICES ASSUME v < n PROVE FALSE
    BY <1>1, <1>6
  <2>2. loudest * v + loudest <= loudest * n /\ loudest * n \in Int /\ loudest * v \in Int
    BY <1>1, <1>5, <2>1
  <2>. QED BY <1>1, <1>8, <2>2
<1>9. ASSUME p = loudest * (-n) PROVE v = -n
  <2>1. SUFFICES ASSUME -n < v PROVE FALSE
    BY <1>1, <1>7
  <2>2. loudest * (-n) + loudest <= loudest * v /\ loudest * (-n) \in Int /\ loudest * v \in Int
    BY <1>1, <1>5, <2>1
  <2>. QED BY <1>1, <1>9, <2>2
<1>10. Abs(x) = loudest => x = loudest \/ x = -loudest
  BY DEF Abs
<1>11. v \in Int /\ Abs(v) <= n /\ (Abs(x) = loudest => Abs(v) = n)
  BY <1>1, <1>4, <1>6, <1>7, <1>8, <1>9, <1>10 DEF Abs
<1>. QED BY <1>11 DEF v, p

NormalizedRight(s, value) ==
  (\E x \in SamplesOf(s) : x # 0) => Max(Magnitudes(s, value)) = Steps

LEMMA NormalizedPeaks ==
  ASSUME NEW s \in Signals
  PROVE  NormalizedRight(s, Normalized(s))
<1> DEFINE value == Normalized(s)
           M == Magnitudes(s, value)
<1>1. SUFFICES ASSUME NEW x \in SamplesOf(s), x # 0 PROVE Max(M) = Steps
  BY DEF NormalizedRight
<1>2. Loudest(s) \in Nat \ {0}
  <2>1. PICK c \in Upto(s.channels), i \in Upto(s.size) : At(s, c, i) = x
    BY PlaceInRow
  <2>2. x \in Int
    BY <2>1, SampleIs
  <2>3. Abs(x) <= Loudest(s)
    BY <2>1, LoudestIs
  <2>. QED BY <1>1, <2>2, <2>3, LoudestIs DEF Abs
<1>3. ASSUME NEW c \in Upto(s.channels), NEW i \in Upto(s.size)
      PROVE  /\ Abs(value[c][i]) \in Int /\ Abs(value[c][i]) <= Steps
             /\ Abs(At(s, c, i)) = Loudest(s) => Abs(value[c][i]) = Steps
  <2>1. value[c][i] = (At(s, c, i) * Steps) \div Loudest(s)
    BY <1>2 DEF Normalized
  <2>2. At(s, c, i) \in Int /\ Steps \in Nat \ {0} /\ Abs(At(s, c, i)) <= Loudest(s)
    BY SampleIs, LoudestIs, AnalysisAssumption
  <2> DEFINE v == (At(s, c, i) * Steps) \div Loudest(s)
  <2>3. v \in Int /\ Abs(v) <= Steps /\ (Abs(At(s, c, i)) = Loudest(s) => Abs(v) = Steps)
    BY <1>2, <2>2, ScaledIs
  <2> HIDE DEF v
  <2>4. Abs(v) \in Int
    BY <2>3 DEF Abs
  <2>. QED BY <2>1, <2>3, <2>4 DEF v
<1> HIDE DEF value
<1>4. \A y \in M : y \in Int /\ y <= Steps
  BY <1>3 DEF Magnitudes
<1>5. Steps \in M
  <2>1. PICK c \in Upto(s.channels), i \in Upto(s.size) : Abs(At(s, c, i)) = Loudest(s)
    BY <1>2, LoudestIs
  <2>2. Abs(value[c][i]) = Steps
    BY <1>3, <2>1
  <2>. QED BY <2>2 DEF Magnitudes
<1> HIDE DEF M
<1>. QED BY <1>4, <1>5, MaxIs

-----------------------------------------------------------------------------
(***************************************************************************)
(* removeDC.                                                               *)
(***************************************************************************)
WithoutDCRight(s, value) == s.channels = 1 => SumFunctionOnSet(value[0], Upto(s.size)) = 0

LEMMA WithoutDCAddsUp ==
  ASSUME NEW s \in Signals
  PROVE  WithoutDCRight(s, WithoutDC(s))
<1>1. SUFFICES ASSUME s.channels = 1 PROVE SumFunctionOnSet(WithoutDC(s)[0], Upto(s.size)) = 0
  BY DEF WithoutDCRight
<1> DEFINE n == s.size
           f == Row(s, 0)
           M == SumFunctionOnSet(f, Upto(n))
           means == [d \in Upto(s.channels) |-> MeanOf(s, d)]
           g == WithoutDC(s)[0]
<1>2. n \in Nat \ {0} /\ IsFiniteSet(Upto(n)) /\ Cardinality(Upto(n)) = n
  BY SignalIs, UptoIsFinite
<1>3. 0 \in Upto(s.channels) /\ Upto(s.channels) = {0}
  BY <1>1 DEF Upto
<1>4. \A i \in Upto(n) : f[i] = At(s, 0, i) /\ f[i] \in Int
  BY <1>3, SampleIs DEF Row
<1>5. M \in Int
  <2> HIDE DEF f, n
  <2>. QED BY <1>2, <1>4, SumIsInt
<1>6. SumFunctionOnSet(means, {0}) = M
  <2>1. means[0] = M
    BY <1>3 DEF MeanOf
  <2> HIDE DEF means, M
  <2>2. IsFiniteSet({0}) /\ \A y \in {0} : means[y] \in Int
    BY <1>5, <2>1, FS_Singleton
  <2>3. SumFunctionOnSet(means, {0}) = means[0] + SumFunctionOnSet(means, {0} \ {0})
    BY <2>2, SumOfOneMore
  <2>4. {0} \ {0} = {}
    OBVIOUS
  <2>. QED BY <1>5, <2>1, <2>3, <2>4, SumOfNone
<1>7. \A i \in Upto(n) : g[i] = f[i] * n - M
  <2>1. WithoutDC(s) = [c \in Upto(s.channels) |-> [i \in Upto(s.size) |->
           At(s, c, i) * s.size - (IF c = 0 THEN SumFunctionOnSet(means, Upto(s.channels)) ELSE 0)]]
    BY DEF WithoutDC
  <2> HIDE DEF means, M
  <2>. QED BY <1>3, <1>4, <1>6, <2>1
<1> HIDE DEF n, f, M, means, g
<1>8. SumFunctionOnSet(g, Upto(n)) = SumFunctionOnSet(f, Upto(n)) * n - Cardinality(Upto(n)) * M
  BY <1>2, <1>4, <1>5, <1>7, SumOfScaled
<1>9. SumFunctionOnSet(g, Upto(n)) = M * n - n * M
  BY <1>2, <1>8 DEF M
<1>10. M * n - n * M = 0
  BY <1>2, <1>5
<1>. QED BY <1>9, <1>10 DEF g, n

-----------------------------------------------------------------------------
(***************************************************************************)
(* applyOnePole.                                                           *)
(***************************************************************************)
OnePoleSteps(y, x, size, coefficient) ==
  /\ y \in [0 .. (size - 1) -> [Upto(size) -> Int]] /\ y[0] = x
  /\ \A k \in 1 .. (size - 1) : y[k] = [y[k - 1] EXCEPT ![k - 1] = y[k - 1][k] - coefficient * @]
  /\ OnePole(x, size, coefficient) = y[size - 1]

LEMMA OnePoleIs ==
  ASSUME NEW size \in Nat \ {0}, NEW x \in [Upto(size) -> Int], NEW coefficient \in Int
  PROVE  \E y : OnePoleSteps(y, x, size, coefficient)
<1> DEFINE n == size - 1
           V == [Upto(size) -> Int]
           b == x
           Step(v, i) == [v EXCEPT ![i] = v[i + 1] - coefficient * @]
           q == Count(0, size - 2)
           F == [p \in (1 .. n) \X V |-> Step(p[2], q[p[1]])]
           E(g) == g = [s_ \in SUBSET DOMAIN q |->
                          IF s_ = {} THEN b ELSE Step(g[s_ \ {Max(s_)}], q[Max(s_)])]
<1>1. OnePole(x, size, coefficient) = (CHOOSE g : E(g))[DOMAIN q]
  BY DEF OnePole, FoldLeft, MapThenFoldSet
<1>2. /\ n \in Nat /\ b \in V /\ DOMAIN q = 1 .. n /\ \A k \in 1 .. n : q[k] = k - 1
      /\ \A k \in 1 .. n : \A v \in V : Step(v, q[k]) \in V
  <2>1. n \in Nat /\ b \in V
    OBVIOUS
  <2>2. DOMAIN q = 1 .. n /\ \A k \in 1 .. n : q[k] = k - 1
    BY DEF Count
  <2>3. ASSUME NEW k \in 1 .. n, NEW v \in V PROVE Step(v, k - 1) \in V
    <3>1. k - 1 \in Upto(size) /\ k \in Upto(size) /\ (k - 1) + 1 = k
      BY DEF Upto
    <3>2. v[k - 1] \in Int /\ v[k] \in Int
      BY <3>1
    <3>3. v[k] - coefficient * v[k - 1] \in Int
      BY <3>2
    <3>. QED BY <3>1, <3>3
  <2>. QED BY <2>1, <2>2, <2>3
<1>3. \A k \in 1 .. n : \A v \in V : F[<<k, v>>] = Step(v, q[k])
  OBVIOUS
<1> HIDE DEF V, b, Step, F, q, n
<1>4. PICK h \in [SUBSET (1 .. n) -> V] : Folding(h, F, b, 1 .. n)
  <2>1. n \in Nat /\ b \in V /\ \A k \in 1 .. n : \A v \in V : F[<<k, v>>] \in V
    BY <1>2, <1>3
  <2> HIDE DEF E
  <2>. QED BY <2>1, FoldingsOfType
<1>5. E(h)
  <2>1. ASSUME NEW t \in SUBSET (1 .. n)
        PROVE  h[t] = IF t = {} THEN b ELSE Step(h[t \ {Max(t)}], q[Max(t)])
    <3>1. t # {} => Max(t) \in 1 .. n
      BY <1>2, UptoHasLast DEF HasLast
    <3>. QED BY <1>2, <1>3, <1>4, <3>1 DEF Folding
  <2>. QED BY <1>2, <1>4, <2>1
<1> DEFINE g == CHOOSE g : E(g)
<1>6. E(g)
  <2> HIDE DEF E
  <2>. QED BY <1>5
<1>7. Chain(g, F, b, V, n)
  <2> HIDE DEF g
  <2>1. ASSUME NEW t \in SUBSET (1 .. n), t # {}, g[t \ {Max(t)}] \in V
        PROVE  g[t] = F[<<Max(t), g[t \ {Max(t)}]>>]
    <3>1. Max(t) \in 1 .. n
      BY <1>2, <2>1, UptoHasLast DEF HasLast
    <3>2. g[t] = Step(g[t \ {Max(t)}], q[Max(t)])
      BY <1>2, <1>6, <2>1
    <3>. QED BY <1>2, <1>3, <2>1, <3>1, <3>2
  <2>2. g[{}] = b
    BY <1>6
  <2> HIDE DEF E
  <2>. QED BY <2>1, <2>2 DEF Chain
<1>8. PICK y \in [0 .. n -> V] : Iterates(y, F, b, n) /\ y[n] = g[1 .. n]
  <2>1. n \in Nat /\ b \in V /\ \A k \in 1 .. n : \A v \in V : F[<<k, v>>] \in V
    BY <1>2, <1>3
  <2> HIDE DEF g
  <2>. QED BY <2>1, <1>7, ChainIterates
<1>9. ASSUME NEW k \in 1 .. n PROVE y[k] = Step(y[k - 1], k - 1)
  <2>1. k - 1 \in 0 .. n /\ y[k - 1] \in V
    BY <1>2
  <2>2. y[k] = F[<<k, y[k - 1]>>] /\ q[k] = k - 1
    BY <1>2, <1>8 DEF Iterates
  <2>. QED BY <1>3, <2>1, <2>2
<1>10. OnePole(x, size, coefficient) = y[n]
  BY <1>1, <1>2, <1>8
<1>11. \A k \in 1 .. n : (k - 1) + 1 = k
  BY <1>2
<1>. QED BY <1>8, <1>9, <1>10, <1>11 DEF V, b, Step, n, Iterates, OnePoleSteps

\* Up to place k the outputs are there, from it on the inputs still are.
LEMMA OnePoleReads ==
  ASSUME NEW size \in Nat \ {0}, NEW x \in [Upto(size) -> Int], NEW coefficient \in Int,
         NEW i \in Upto(size)
  PROVE  OnePole(x, size, coefficient)[i] = IF i = size - 1 THEN x[i] ELSE x[i + 1] - coefficient * x[i]
<1>1. PICK y : OnePoleSteps(y, x, size, coefficient)
  BY OnePoleIs
<1> DEFINE n == size - 1
           out(j) == x[j + 1] - coefficient * x[j]
           T == {k \in 0 .. n : \A j \in Upto(size) : y[k][j] = IF j < k THEN out(j) ELSE x[j]}
<1>2. n \in Nat
  OBVIOUS
<1>3. 0 \in T
  BY <1>1 DEF OnePoleSteps, Upto
<1>4. ASSUME NEW k \in 1 .. n, k - 1 \in T PROVE k \in T
  <2>1. k - 1 \in Upto(size) /\ k \in Upto(size) /\ (k - 1) + 1 = k /\ k - 1 \in 0 .. n
    BY DEF Upto
  <2>2. \A j \in Upto(size) : y[k - 1][j] = IF j < k - 1 THEN out(j) ELSE x[j]
    BY <1>4
  <2>3. y[k - 1][k] = x[k] /\ y[k - 1][k - 1] = x[k - 1]
    BY <2>1, <2>2
  <2>4. y[k] = [y[k - 1] EXCEPT ![k - 1] = x[k] - coefficient * x[k - 1]]
    BY <1>1, <2>3 DEF OnePoleSteps
  <2>5. x[k] - coefficient * x[k - 1] = out(k - 1)
    BY <2>1
  <2>6. y[k - 1] \in [Upto(size) -> Int]
    BY <1>1, <2>1 DEF OnePoleSteps
  <2> HIDE DEF out, n
  <2>7. ASSUME NEW j \in Upto(size) PROVE y[k][j] = IF j < k THEN out(j) ELSE x[j]
    <3>1. j = k - 1 => y[k][j] = out(j)
      BY <2>1, <2>4, <2>5, <2>6
    <3>2. j # k - 1 => y[k][j] = y[k - 1][j]
      BY <2>4, <2>6
    <3>3. j \in Nat /\ k \in Nat /\ (j # k - 1 => (j < k <=> j < k - 1)) /\ (j = k - 1 => j < k)
      BY <1>2, <2>1 DEF Upto
    <3>. QED BY <2>2, <3>1, <3>2, <3>3
  <2>. QED BY <2>1, <2>7
<1>5. n \in 0 .. n
  BY <1>2
<1>6. n \in T
  <2> HIDE DEF T, n
  <2>. QED BY <1>2, <1>3, <1>4, <1>5, UptoInduction
<1>7. y[n][i] = IF i < n THEN out(i) ELSE x[i]
  BY <1>6
<1>8. i < n \/ i = n
  BY DEF Upto
<1>9. OnePole(x, size, coefficient) = y[n]
  BY <1>1 DEF OnePoleSteps
<1>10. i < n => i # n
  BY DEF Upto
<1>. QED BY <1>7, <1>8, <1>9, <1>10

-----------------------------------------------------------------------------
(***************************************************************************)
(* convolveTd: the sum of the products, in the order of the loop.          *)
(***************************************************************************)
LEMMA AtIs ==
  ASSUME NEW s \in Signals, NEW c, NEW i
  PROVE  At(s, c, i) \in Int \cup {Undef}
  BY SignalIs DEF At

\* What one turn of the loop adds.
Term(s, h, c, o, k) == IF o - k > s.size THEN 0 ELSE Times(At(s, c, o - k), At(h, 0, k))
LastTerm(h, o) == Min({o, h.size - 1})
Number == Int \cup {Undef}

LEMMA TermIs ==
  ASSUME NEW s \in Signals, NEW h \in Signals, NEW c, NEW o, NEW k
  PROVE  Term(s, h, c, o, k) \in Number
  BY AtIs DEF Term, Times, Number

OutputSteps(y, s, h, c, o) ==
  /\ y[0] = 0
  /\ \A k \in 1 .. (LastTerm(h, o) + 1) : y[k] = Plus(y[k - 1], Term(s, h, c, o, k - 1))
  /\ OutputSample(s, h, c, o) = y[LastTerm(h, o) + 1]

LEMMA OutputIs ==
  ASSUME NEW s \in Signals, NEW impulse \in Signals, NEW c, NEW o \in Nat
  PROVE  LastTerm(impulse, o) \in Nat /\ \E y : OutputSteps(y, s, impulse, c, o)
<1>0. LastTerm(impulse, o) \in Nat
  <2> DEFINE S == {o, impulse.size - 1}
  <2>1. impulse.size - 1 \in Nat
    BY SignalIs
  <2>2. IsFiniteSet(S) /\ S \subseteq Int /\ S \subseteq Nat /\ S # {}
    <3>1. IsFiniteSet({o}) /\ S = {o} \cup {impulse.size - 1}
      BY FS_Singleton
    <3> HIDE DEF S
    <3>2. IsFiniteSet(S)
      BY <3>1, FS_AddElement
    <3>. QED BY <2>1, <3>2 DEF S
  <2>3. Min(S) \in S
    <3> HIDE DEF S
    <3>. QED BY <2>2, MinFound
  <2>4. LastTerm(impulse, o) = Min(S)
    BY DEF LastTerm
  <2> HIDE DEF S
  <2>. QED BY <2>2, <2>3, <2>4
<1> DEFINE n == LastTerm(impulse, o) + 1
           V == Number
           b == 0
           Step(v, i) == IF o - i > s.size THEN v ELSE Plus(v, Times(At(s, c, o - i), At(impulse, 0, i)))
           q == Count(0, LastTerm(impulse, o))
           F == [p \in (1 .. n) \X V |-> Step(p[2], q[p[1]])]
           E(g) == g = [s_ \in SUBSET DOMAIN q |->
                          IF s_ = {} THEN b ELSE Step(g[s_ \ {Max(s_)}], q[Max(s_)])]
<1>1. OutputSample(s, impulse, c, o) = (CHOOSE g : E(g))[DOMAIN q]
  BY DEF OutputSample, LastTerm, FoldLeft, MapThenFoldSet
<1>2. /\ n \in Nat /\ b \in V /\ DOMAIN q = 1 .. n /\ \A k \in 1 .. n : q[k] = k - 1
      /\ \A k \in 1 .. n : \A v \in V : Step(v, q[k]) \in V
  <2>1. n \in Nat /\ b \in V
    BY <1>0 DEF Number
  <2>2. DOMAIN q = 1 .. n /\ \A k \in 1 .. n : q[k] = k - 1
    BY <1>0 DEF Count
  <2>3. ASSUME NEW v \in V, NEW i PROVE Step(v, i) \in V
    BY AtIs DEF Plus, Times, Number
  <2> HIDE DEF Step, V
  <2>. QED BY <2>1, <2>2, <2>3
<1>3. \A k \in 1 .. n : \A v \in V : F[<<k, v>>] = Step(v, q[k])
  OBVIOUS
<1> HIDE DEF V, b, Step, F, q, n
<1>4. PICK h \in [SUBSET (1 .. n) -> V] : Folding(h, F, b, 1 .. n)
  <2>1. n \in Nat /\ b \in V /\ \A k \in 1 .. n : \A v \in V : F[<<k, v>>] \in V
    BY <1>2, <1>3
  <2> HIDE DEF E
  <2>. QED BY <2>1, FoldingsOfType
<1>5. E(h)
  <2>1. ASSUME NEW t \in SUBSET (1 .. n)
        PROVE  h[t] = IF t = {} THEN b ELSE Step(h[t \ {Max(t)}], q[Max(t)])
    <3>1. t # {} => Max(t) \in 1 .. n
      BY <1>2, UptoHasLast DEF HasLast
    <3>. QED BY <1>2, <1>3, <1>4, <3>1 DEF Folding
  <2>. QED BY <1>2, <1>4, <2>1
<1> DEFINE g == CHOOSE g : E(g)
<1>6. E(g)
  <2> HIDE DEF E
  <2>. QED BY <1>5
<1>7. Chain(g, F, b, V, n)
  <2> HIDE DEF g
  <2>1. ASSUME NEW t \in SUBSET (1 .. n), t # {}, g[t \ {Max(t)}] \in V
        PROVE  g[t] = F[<<Max(t), g[t \ {Max(t)}]>>]
    <3>1. Max(t) \in 1 .. n
      BY <1>2, <2>1, UptoHasLast DEF HasLast
    <3>2. g[t] = Step(g[t \ {Max(t)}], q[Max(t)])
      BY <1>2, <1>6, <2>1
    <3>. QED BY <1>2, <1>3, <2>1, <3>1, <3>2
  <2>2. g[{}] = b
    BY <1>6
  <2> HIDE DEF E
  <2>. QED BY <2>1, <2>2 DEF Chain
<1>8. PICK y \in [0 .. n -> V] : Iterates(y, F, b, n) /\ y[n] = g[1 .. n]
  <2>1. n \in Nat /\ b \in V /\ \A k \in 1 .. n : \A v \in V : F[<<k, v>>] \in V
    BY <1>2, <1>3
  <2> HIDE DEF g
  <2>. QED BY <2>1, <1>7, ChainIterates
<1>9. ASSUME NEW k \in 1 .. n PROVE y[k] = Step(y[k - 1], k - 1)
  <2>1. k - 1 \in 0 .. n /\ y[k - 1] \in V
    BY <1>2
  <2>2. y[k] = F[<<k, y[k - 1]>>] /\ q[k] = k - 1
    BY <1>2, <1>8 DEF Iterates
  <2>. QED BY <1>3, <2>1, <2>2
<1>10. OutputSample(s, impulse, c, o) = y[n]
  BY <1>1, <1>2, <1>8
<1>11. ASSUME NEW v \in Number, NEW i PROVE Step(v, i) = Plus(v, Term(s, impulse, c, o, i))
  BY AnalysisAssumption DEF Step, Term, Plus, Number
<1>12. ASSUME NEW k \in 1 .. n PROVE y[k] = Plus(y[k - 1], Term(s, impulse, c, o, k - 1))
  <2>1. y[k - 1] \in Number
    BY <1>2, <1>8 DEF V
  <2>. QED BY <1>9, <1>11, <2>1
<1>. QED BY <1>0, <1>8, <1>10, <1>12 DEF b, n, Iterates, OutputSteps

\* Undef as soon as one of what is added is.
LEMMA AddsUp ==
  ASSUME NEW n \in Nat, NEW y, NEW t, y[0] = 0,
         \A k \in 1 .. n : t[k - 1] \in Number /\ y[k] = Plus(y[k - 1], t[k - 1])
  PROVE  y[n] = IF \E j \in Upto(n) : t[j] = Undef THEN Undef ELSE SumFunctionOnSet(t, Upto(n))
<1> DEFINE Bad(k) == \E j \in Upto(k) : t[j] = Undef
           OK(k) == y[k] = IF Bad(k) THEN Undef ELSE SumFunctionOnSet(t, Upto(k))
           T == {k \in 0 .. n : OK(k)}
<1>1. 0 \in T
  <2>1. Upto(0) = {} /\ SumFunctionOnSet(t, {}) = 0
    BY SumOfNone DEF Upto
  <2>. QED BY <2>1
<1>2. \A j \in Upto(n) : t[j] \in Number
  <2>1. ASSUME NEW j \in Upto(n) PROVE t[j] \in Number
    <3>1. j + 1 \in 1 .. n /\ (j + 1) - 1 = j
      BY DEF Upto
    <3>. QED BY <3>1
  <2>. QED BY <2>1
<1>3. ASSUME NEW k \in 1 .. n, k - 1 \in T PROVE k \in T
  <2> DEFINE d == k - 1
             U == Upto(d)
             W == Upto(k)
  <2>1. d \in W /\ W \ {d} = U /\ W = U \cup {d} /\ U \subseteq Upto(n) /\ d \in Upto(n) /\ IsFiniteSet(W) /\ IsFiniteSet(U)
    <3>1. d \in W /\ W \ {d} = U /\ W = U \cup {d} /\ U \subseteq Upto(n) /\ d \in Upto(n)
      BY DEF Upto
    <3>2. d \in Nat /\ k \in Nat
      OBVIOUS
    <3> HIDE DEF d
    <3>. QED BY <3>1, <3>2, UptoIsFinite
  <2>2. OK(d)
    BY <1>3
  <2>3. y[k] = Plus(y[d], t[d]) /\ t[d] \in Number
    BY <1>2, <2>1
  <2>4. ASSUME ~Bad(k) PROVE y[k] = SumFunctionOnSet(t, W)
    <3>1. ~Bad(d) /\ \A j \in W : t[j] \in Int
      BY <1>2, <2>1, <2>4 DEF Number
    <3>2. y[d] = SumFunctionOnSet(t, U)
      BY <2>2, <3>1
    <3> HIDE DEF OK, Bad, T, d, U, W
    <3>3. SumFunctionOnSet(t, W) = t[d] + SumFunctionOnSet(t, U)
      BY <2>1, <3>1, SumOfOneMore
    <3>4. SumFunctionOnSet(t, U) \in Int
      BY <2>1, <3>1, SumIsInt
    <3>5. t[d] \in Int
      BY <2>1, <3>1
    <3>. QED BY <2>3, <3>2, <3>3, <3>4, <3>5, AnalysisAssumption DEF Plus
  <2>5. ASSUME Bad(k) PROVE y[k] = Undef
    <3>1. Bad(d) \/ t[d] = Undef
      BY <2>1, <2>5
    <3>2. Bad(d) => y[d] = Undef
      BY <2>2
    <3>. QED BY <2>3, <3>1, <3>2 DEF Plus
  <2> HIDE DEF Bad
  <2>. QED BY <2>4, <2>5
<1>4. n \in 0 .. n
  OBVIOUS
<1>5. n \in T
  <2> HIDE DEF T
  <2>. QED BY <1>1, <1>3, <1>4, UptoInduction
<1>. QED BY <1>5

LEMMA LastTermIs ==
  ASSUME NEW h \in Signals, NEW o \in Nat
  PROVE  /\ LastTerm(h, o) \in Nat /\ LastTerm(h, o) <= o /\ LastTerm(h, o) <= h.size - 1
         /\ LastTerm(h, o) = o \/ LastTerm(h, o) = h.size - 1
<1> DEFINE S == {o, h.size - 1}
<1>1. h.size - 1 \in Nat
  BY SignalIs
<1>2. IsFiniteSet(S) /\ S \subseteq Int /\ S # {}
  <2>1. IsFiniteSet({o}) /\ S = {o} \cup {h.size - 1}
    BY FS_Singleton
  <2> HIDE DEF S
  <2>2. IsFiniteSet(S)
    BY <2>1, FS_AddElement
  <2>. QED BY <1>1, <2>2 DEF S
<1>3. Min(S) \in S /\ \A y \in S : Min(S) <= y
  <2> HIDE DEF S
  <2>. QED BY <1>2, MinFound
<1>4. LastTerm(h, o) = Min(S)
  BY DEF LastTerm
<1>. QED BY <1>1, <1>3, <1>4

ProductPairs(s, h, o) == {p \in Upto(s.size) \X Upto(h.size) : p[1] + p[2] = o}
ProductTerms(s, h, c, o) == [p \in ProductPairs(s, h, o) |-> At(s, c, p[1]) * At(h, 0, p[2])]

\* The turns of the loop that multiply samples of the row.
TurnsInRow(s, h, o) == {k \in Upto(LastTerm(h, o) + 1) : o - k < s.size}

LEMMA TurnsAdd ==
  ASSUME NEW s \in Signals, NEW h \in Signals, NEW c \in Upto(s.channels), NEW o \in Nat,
         NEW t, \A k \in TurnsInRow(s, h, o) : t[k] = Term(s, h, c, o, k)
  PROVE  /\ \A k \in TurnsInRow(s, h, o) : t[k] \in Int
         /\ IsFiniteSet(TurnsInRow(s, h, o)) /\ SumFunctionOnSet(t, TurnsInRow(s, h, o)) = ProductAt(s, h, c, o)
<1> DEFINE n == LastTerm(h, o) + 1
           K == TurnsInRow(s, h, o)
           P == ProductPairs(s, h, o)
           g == ProductTerms(s, h, c, o)
           b == [k \in K |-> <<o - k, k>>]
<1>1. /\ s.size \in Nat \ {0} /\ h.size \in Nat \ {0} /\ 0 \in Upto(h.channels)
      /\ n \in Nat /\ n - 1 <= o /\ n <= h.size /\ (n - 1 = o \/ n = h.size)
  <2>1. s.size \in Nat \ {0} /\ h.size \in Nat \ {0} /\ h.channels \in Nat \ {0}
    BY SignalIs
  <2>2. 0 \in Upto(h.channels)
    BY <2>1 DEF Upto
  <2>. QED BY <2>1, <2>2, LastTermIs
<1>2. ASSUME NEW k \in K
      PROVE  o - k \in Upto(s.size) /\ k \in Upto(h.size) /\ o - k \in Int /\ o - k < s.size /\ (o - k) + k = o
  BY <1>1 DEF Upto, TurnsInRow
<1>3. ASSUME NEW k \in K
      PROVE  t[k] = At(s, c, o - k) * At(h, 0, k) /\ t[k] \in Int
  <2>1. At(s, c, o - k) \in Int /\ At(h, 0, k) \in Int
    BY <1>1, <1>2, SampleIs
  <2>2. ~(o - k > s.size)
    BY <1>1, <1>2
  <2>. QED BY <2>1, <2>2, AnalysisAssumption DEF Term, Times
<1>4. ASSUME NEW k \in K
      PROVE  b[k] \in P /\ g[b[k]] = t[k]
  <2>1. <<o - k, k>> \in P
    BY <1>2 DEF ProductPairs
  <2>. QED BY <1>3, <2>1 DEF ProductTerms
<1>5. ASSUME NEW p \in P
      PROVE  \E k \in K : b[k] = p
  <2>1. PICK i \in Upto(s.size), k \in Upto(h.size) : p = <<i, k>> /\ i + k = o
    BY DEF ProductPairs
  <2>2. k \in Upto(n) /\ o - k = i /\ o - k < s.size
    BY <1>1, <2>1 DEF Upto
  <2>3. k \in K
    BY <2>2 DEF TurnsInRow
  <2>. QED BY <2>1, <2>2, <2>3
<1>6. IsFiniteSet(K)
  <2>1. K \subseteq Upto(n)
    BY DEF TurnsInRow
  <2>. QED BY <1>1, <2>1, UptoIsFinite, FS_Subset
<1>7. {b[k] : k \in K} = P
  BY <1>4, <1>5
<1>8. \A x, z \in K : b[x] = b[z] => x = z
  OBVIOUS
<1>9. ProductAt(s, h, c, o) = SumFunctionOnSet(g, P)
  BY DEF ProductAt, ProductPairs, ProductTerms
<1> HIDE DEF b, P, g
<1>10. SumFunctionOnSet(g, {b[k] : k \in K}) = SumFunctionOnSet(t, K)
  BY <1>3, <1>4, <1>6, <1>8, SumOfPlaces
<1>. QED BY <1>3, <1>6, <1>7, <1>9, <1>10

LEMMA OutputIsProduct ==
  ASSUME NEW s \in Signals, NEW h \in Signals, NEW c \in Upto(s.channels), NEW o \in Upto(s.size + h.size - 1)
  PROVE  OutputSample(s, h, c, o) =
           IF o < s.size THEN ProductAt(s, h, c, o)
           ELSE Plus(ProductAt(s, h, c, o), Times(At(s, c, s.size), At(h, 0, o - s.size)))
<1> DEFINE n == LastTerm(h, o) + 1
           all == Upto(n)
           t == [k \in all |-> Term(s, h, c, o, k)]
           K == {k \in all : o - k < s.size}
           exact == ProductAt(s, h, c, o)
<1>1. /\ s.size \in Nat \ {0} /\ h.size \in Nat \ {0} /\ o \in Nat /\ o < s.size + h.size - 1
      /\ n \in Nat /\ n - 1 <= o /\ n <= h.size /\ (n - 1 = o \/ n = h.size)
  <2>1. s.size \in Nat \ {0} /\ h.size \in Nat \ {0}
    BY SignalIs
  <2>2. o \in Nat /\ o < s.size + h.size - 1
    BY <2>1 DEF Upto
  <2>. QED BY <2>1, <2>2, LastTermIs
<1>2. IsFiniteSet(all) /\ K \in SUBSET all
  BY <1>1, UptoIsFinite
<1>3. \A k \in all : t[k] = Term(s, h, c, o, k) /\ t[k] \in Number
  BY TermIs
<1>4. (\A k \in K : t[k] \in Int) /\ SumFunctionOnSet(t, K) = exact /\ IsFiniteSet(K)
  <2>1. \A k \in K : t[k] = Term(s, h, c, o, k)
    BY <1>2, <1>3
  <2>2. K = TurnsInRow(s, h, o)
    BY DEF TurnsInRow
  <2>3. o \in Nat
    BY <1>1
  <2> HIDE DEF t, K, n, exact
  <2>4. (\A k \in K : t[k] \in Int) /\ IsFiniteSet(K) /\ SumFunctionOnSet(t, K) = ProductAt(s, h, c, o)
    BY <2>1, <2>2, <2>3, TurnsAdd
  <2>. QED BY <2>4 DEF exact
<1>5. OutputSample(s, h, c, o) = IF \E j \in all : t[j] = Undef THEN Undef ELSE SumFunctionOnSet(t, all)
  <2>1. PICK y : OutputSteps(y, s, h, c, o)
    BY <1>1, OutputIs
  <2>2. ASSUME NEW k \in 1 .. n PROVE t[k - 1] \in Number /\ y[k] = Plus(y[k - 1], t[k - 1])
    <3>1. k - 1 \in all
      BY <1>1 DEF Upto
    <3> HIDE DEF all
    <3>2. t[k - 1] = Term(s, h, c, o, k - 1) /\ t[k - 1] \in Number
      BY <1>3, <3>1
    <3>. QED BY <2>1, <3>2 DEF OutputSteps
  <2>3. y[0] = 0 /\ OutputSample(s, h, c, o) = y[n]
    BY <2>1 DEF OutputSteps
  <2> HIDE DEF t, n
  <2>. QED BY <1>1, <2>2, <2>3, AddsUp
<1>6. exact \in Int
  <2> HIDE DEF t, K, exact
  <2>. QED BY <1>4, SumIsInt
<1>7. CASE o < s.size
  <2>1. K = all
    BY <1>1, <1>7 DEF Upto
  <2>2. ~ \E j \in all : t[j] = Undef
    <3> HIDE DEF t, K, all
    <3>. QED BY <1>4, <2>1, AnalysisAssumption
  <2> HIDE DEF t, K, all
  <2>. QED BY <1>4, <1>5, <1>7, <2>1, <2>2 DEF exact
<1>8. CASE o >= s.size
  <2> DEFINE k0 == o - s.size
             rest == all \ K
             e == Times(At(s, c, s.size), At(h, 0, o - s.size))
  <2>1. k0 \in all /\ k0 \in rest /\ k0 \in Nat /\ o - k0 = s.size
    BY <1>1, <1>8 DEF Upto
  <2>2. t[k0] = e
    <3>1. Term(s, h, c, o, k0) = e
      BY <1>1, <2>1 DEF Term
    <3>. QED BY <1>3, <2>1, <3>1
  <2>3. \A k \in rest : k # k0 => t[k] = 0
    <3>1. ASSUME NEW k \in rest, k # k0 PROVE Term(s, h, c, o, k) = 0
      <4>1. o - k > s.size
        BY <1>1, <3>1 DEF Upto
      <4>. QED BY <4>1 DEF Term
    <3>. QED BY <1>3, <3>1
  <2>4. OutputSample(s, h, c, o) = Plus(exact, e)
    <3>1. ASSUME e = Undef PROVE OutputSample(s, h, c, o) = Undef
      <4> HIDE DEF e, t, k0, all
      <4>. QED BY <1>5, <2>1, <2>2, <3>1
    <3>2. ASSUME e # Undef PROVE OutputSample(s, h, c, o) = exact + e
      <4>1. e \in Int
        <5> HIDE DEF e, t, k0, all
        <5>. QED BY <1>3, <2>1, <2>2, <3>2 DEF Number
      <4> HIDE DEF e, t, k0, all, K, exact
      <4>2. \A k \in all : t[k] \in Int
        BY <1>4, <2>2, <2>3, <4>1
      <4>3. SumFunctionOnSet(t, all) = exact + SumFunctionOnSet(t, rest)
        BY <1>2, <1>4, <4>2, SumOfParts
      <4>4. IsFiniteSet(rest) /\ IsFiniteSet(rest \ {k0}) /\ \A k \in rest : t[k] \in Int
        BY <1>2, <4>2, FS_Subset
      <4>5. SumFunctionOnSet(t, rest \ {k0}) = 0
        <5>1. \A k \in rest \ {k0} : t[k] = 0
          BY <2>3
        <5> HIDE DEF rest
        <5>. QED BY <4>4, <5>1, SumOfZeros
      <4>6. SumFunctionOnSet(t, rest) = e + SumFunctionOnSet(t, rest \ {k0})
        <5>1. k0 \in rest
          BY <2>1
        <5> HIDE DEF rest
        <5>2. SumFunctionOnSet(t, rest) = t[k0] + SumFunctionOnSet(t, rest \ {k0})
          BY <4>4, <5>1, SumOfOneMore
        <5>. QED BY <2>2, <5>2
      <4>7. ~ \E j \in all : t[j] = Undef
        BY <4>2, AnalysisAssumption
      <4>. QED BY <1>5, <1>6, <4>1, <4>3, <4>5, <4>6, <4>7
    <3> HIDE DEF e
    <3>. QED BY <1>6, <3>1, <3>2, AnalysisAssumption DEF Plus
  <2>5. ~(o < s.size)
    BY <1>1, <1>8
  <2>. QED BY <2>4, <2>5
<1>9. o < s.size \/ o >= s.size
  BY <1>1
<1>. QED BY <1>7, <1>8, <1>9

-----------------------------------------------------------------------------
(***************************************************************************)
(* The calls.  What a property says of one method no other one can break:  *)
(* result is written once.                                                 *)
(***************************************************************************)
SignalOK == signal \in Signals \cup {NULL}

LEMMA ReturnIs ==
  ASSUME NEW op, NEW args, NEW value, Returns(op, args, value)
  PROVE  /\ result'.op = op /\ result'.args = args /\ result'.value = value /\ signal' = signal
         /\ \A name : Of(name)' => name = op
  BY DEF Returns, Of

\* The two properties, of what was called and what came of it.
PeakRight(s, from, to, value) ==
  LET peak == Max(SamplesBetween(s, from, to))
  IN  peak > 0 /\ (\E c \in Upto(s.channels) :
                     (\E i \in from .. (to - 1) : At(s, c, i) = peak) /\ At(s, c, from) # peak) =>
        /\ value.val = peak
        /\ value.index \in from .. (to - 1)
        /\ \E c \in Upto(s.channels) : At(s, c, value.index) = peak

CrossingRight(s, start, before, c, value) ==
  LET changes == {i \in start .. (before - 1) : At(s, c, i) * At(s, c, i + 1) <= 0}
  IN  before < s.size /\ before >= start + 2 /\ (start > 0 \/ changes # {}) =>
        value = IF changes # {} THEN Max(changes) ELSE start

SearchRight ==
  /\ Of("findPeak") => PeakRight(signal, result.args[1], result.args[2], result.value)
  /\ Of("findZeroCrossing") =>
       CrossingRight(signal, result.args[1], result.args[2], result.args[3], result.value)

LEMMA SearchIsRight == SearchesFind <=> SearchRight
<1>1. PeakIsFound <=> (Of("findPeak") => PeakRight(signal, result.args[1], result.args[2], result.value))
  BY Zenon DEF PeakIsFound, PeakRight
<1>2. CrossingIsTheLast <=>
        (Of("findZeroCrossing") =>
           CrossingRight(signal, result.args[1], result.args[2], result.args[3], result.value))
  BY Zenon DEF CrossingIsTheLast, CrossingRight
<1>. QED BY <1>1, <1>2 DEF SearchesFind, SearchRight

LEMMA FindPeakFinds ==
  ASSUME signal \in Signals, findPeak
  PROVE  SearchRight'
<1>1. PICK from \in Upto(signal.size), to \in 1 .. signal.size :
        from < to /\ Returns("findPeak", <<from, to>>, PeakOf(signal, from, to))
  BY DEF findPeak
<1>2. /\ result'.args = <<from, to>> /\ result'.value = PeakOf(signal, from, to) /\ signal' = signal
      /\ \A name : Of(name)' => name = "findPeak"
  BY <1>1, ReturnIs
<1> DEFINE S == SamplesBetween(signal, from, to)
           peak == Max(S)
<1>3. \A i \in from .. (to - 1) : i \in Upto(signal.size)
  BY <1>1, SignalIs DEF Upto
<1>4. peak \in S /\ peak \in Int /\ \A x \in S : x <= peak
  <2>1. S \subseteq SamplesOf(signal) /\ S \subseteq Int
    BY <1>3, SampleIs DEF SamplesBetween
  <2>2. IsFiniteSet(S)
    BY <2>1, SamplesAreFinite, FS_Subset
  <2>3. S # {}
    <3>1. 0 \in Upto(signal.channels) /\ from \in from .. (to - 1)
      BY <1>1, SignalIs DEF Upto
    <3>2. At(signal, 0, from) \in S
      BY <3>1 DEF SamplesBetween
    <3> HIDE DEF S
    <3>. QED BY <3>2
  <2> HIDE DEF S
  <2>. QED BY <2>1, <2>2, <2>3, MaxFound
<1> HIDE DEF peak
<1>5. ASSUME peak > 0, NEW c0 \in Upto(signal.channels), NEW i0 \in from .. (to - 1),
             At(signal, c0, i0) = peak, At(signal, c0, from) # peak
      PROVE  /\ PeakOf(signal, from, to).val = peak
             /\ PeakOf(signal, from, to).index \in from .. (to - 1)
             /\ \E c \in Upto(signal.channels) : At(signal, c, PeakOf(signal, from, to).index) = peak
  <2>1. \A c \in Upto(signal.channels), i \in from .. (to - 1) : At(signal, c, i) \in S
    BY DEF SamplesBetween
  <2>2. \A c \in Upto(signal.channels), i \in from .. (to - 1) : At(signal, c, i) <= peak
    <3> HIDE DEF S
    <3>. QED BY <1>4, <2>1
  <2>. QED BY <1>1, <1>4, <1>5, <2>2, PeakOfFinds
<1>6. PeakRight(signal, from, to, PeakOf(signal, from, to))
  <2>1. peak = Max(SamplesBetween(signal, from, to))
    BY DEF peak
  <2>2. peak > 0 /\ (\E c \in Upto(signal.channels) :
                       (\E i \in from .. (to - 1) : At(signal, c, i) = peak) /\ At(signal, c, from) # peak) =>
        /\ PeakOf(signal, from, to).val = peak
        /\ PeakOf(signal, from, to).index \in from .. (to - 1)
        /\ \E c \in Upto(signal.channels) : At(signal, c, PeakOf(signal, from, to).index) = peak
    BY ONLY <1>5
  <2> HIDE DEF S
  <2>. QED BY ONLY <2>1, <2>2, Zenon DEF PeakRight
<1>. QED BY <1>2, <1>6 DEF SearchRight

LEMMA FindZeroCrossingFinds ==
  ASSUME signal \in Signals, findZeroCrossing
  PROVE  SearchRight'
<1>1. PICK c \in Upto(signal.channels), start \in 0 .. signal.size, before \in 0 .. signal.size :
        Returns("findZeroCrossing", <<start, before, c>>, Crossing(signal, start, before, c))
  BY DEF findZeroCrossing
<1>2. /\ result'.args = <<start, before, c>> /\ result'.value = Crossing(signal, start, before, c)
      /\ signal' = signal /\ \A name : Of(name)' => name = "findZeroCrossing"
  BY <1>1, ReturnIs
<1> DEFINE changes == {i \in start .. (before - 1) : At(signal, c, i) * At(signal, c, i + 1) <= 0}
<1>3. ASSUME before < signal.size, before >= start + 2, start > 0 \/ changes # {}
      PROVE  Crossing(signal, start, before, c) = IF changes # {} THEN Max(changes) ELSE start
  BY <1>1, <1>3, CrossingFinds
<1>4. CrossingRight(signal, start, before, c, Crossing(signal, start, before, c))
  BY <1>3 DEF CrossingRight
<1>. QED BY <1>2, <1>4 DEF SearchRight

LEMMA SearchesFindNext ==
  ASSUME SignalOK, SearchRight, [SignalNext]_<<signal, result>>
  PROVE  SearchRight'
<1>1. CASE SignalNext
  <2>1. signal \in Signals
    BY <1>1 DEF SignalOK, SignalNext
  <2>2. CASE findPeak
    BY <2>1, <2>2, FindPeakFinds
  <2>3. CASE findZeroCrossing
    BY <2>1, <2>3, FindZeroCrossingFinds
  <2>4. ASSUME requantize \/ normalize \/ removeDC \/ applyOnePole \/ convolveTd \/ sort
        PROVE  SearchRight'
    <3>1. ~Of("findPeak")' /\ ~Of("findZeroCrossing")'
      BY <2>4 DEF requantize, normalize, removeDC, applyOnePole, convolveTd, sort, Returns, Of
    <3>. QED BY <3>1 DEF SearchRight
  <2>. QED BY <1>1, <2>2, <2>3, <2>4 DEF SignalNext
<1>2. CASE UNCHANGED <<signal, result>>
  BY <1>2 DEF SearchRight, Of
<1>. QED BY <1>1, <1>2

LEMMA SignalStays == SignalSpec => []SignalOK
<1>1. Init => SignalOK
  BY DEF Init, SignalOK
<1>2. SignalOK /\ [SignalNext]_<<signal, result>> => SignalOK'
  BY DEF SignalOK, SignalNext, findPeak, findZeroCrossing, requantize, normalize, removeDC, applyOnePole,
         convolveTd, sort, Returns
<1>. QED BY <1>1, <1>2, PTL DEF SignalSpec

\* Whatever the signal and the range: findPeak finds the greatest sample of all
\* channels and where it is, unless no channel rises above its first one, and
\* findZeroCrossing the last change of sign.
THEOREM SearchesAreRight == SignalSpec => []SearchesFind
<1>1. Init => SearchRight
  BY DEF Init, SearchRight, Of
<1>2. SignalOK /\ SearchRight /\ [SignalNext]_<<signal, result>> => SearchRight'
  BY SearchesFindNext
<1>. QED BY <1>1, <1>2, SignalStays, SearchIsRight, PTL DEF SignalSpec

RequantizedRight(s, h, value) ==
  \A c \in Upto(s.channels), i \in Upto(s.size) : RequantizedOK(At(s, c, i), value[c][i], h)

OnePoleRight(s, coefficient, value) ==
  \A c \in Upto(s.channels), i \in Upto(s.size) :
    value[c][i] = IF i = s.size - 1 THEN At(s, c, i) ELSE At(s, c, i + 1) - coefficient * At(s, c, i)

ConvolvedRight(s, h, value) ==
  \A c \in Upto(s.channels), o \in Upto(s.size + h.size - 1) :
    value[c][o] = IF o < s.size THEN ProductAt(s, h, c, o)
                  ELSE Plus(ProductAt(s, h, c, o), Times(At(s, c, s.size), At(h, 0, o - s.size)))

ComputedRight ==
  /\ Of("requantize") => RequantizedRight(signal, result.args[1], result.value)
  /\ Of("normalize") => NormalizedRight(signal, result.value)
  /\ Of("removeDC") => WithoutDCRight(signal, result.value)
  /\ Of("applyOnePole") => OnePoleRight(signal, result.args[1], result.value)
  /\ Of("convolveTd") => ConvolvedRight(signal, result.args[1], result.value)

LEMMA ComputedIsRight == SamplesAreComputed <=> ComputedRight
<1>1. RequantizedToASmallerStep <=>
        (Of("requantize") => RequantizedRight(signal, result.args[1], result.value))
  BY DEF RequantizedToASmallerStep, RequantizedRight, RequantizedOK
<1>2. NormalizedToOne <=> (Of("normalize") => NormalizedRight(signal, result.value))
  BY DEF NormalizedToOne, NormalizedRight
<1>3. MonoHasNoDC <=> (Of("removeDC") => WithoutDCRight(signal, result.value))
  BY DEF MonoHasNoDC, WithoutDCRight
<1>4. OnePoleReadsInputs <=> (Of("applyOnePole") => OnePoleRight(signal, result.args[1], result.value))
  BY DEF OnePoleReadsInputs, OnePoleRight
<1>5. ConvolvedUpToTheEnd <=> (Of("convolveTd") => ConvolvedRight(signal, result.args[1], result.value))
  BY DEF ConvolvedUpToTheEnd, ConvolvedRight
<1>. QED BY <1>1, <1>2, <1>3, <1>4, <1>5 DEF SamplesAreComputed, SamplesAreRescaled, ComputedRight

LEMMA RequantizeComputes ==
  ASSUME signal \in Signals, requantize
  PROVE  ComputedRight'
<1> DEFINE Value(h) == [c \in Upto(signal.channels) |-> [i \in Upto(signal.size) |->
                           Requantized(At(signal, c, i), h)]]
<1>1. PICK h \in 1 .. Steps : Steps % h = 0 /\ Returns("requantize", <<h>>, Value(h))
  BY DEF requantize
<1> DEFINE value == Value(h)
<1>2. \A c \in Upto(signal.channels), i \in Upto(signal.size) :
        value[c][i] = Requantized(At(signal, c, i), h) /\ At(signal, c, i) \in Int
  BY SampleIs
<1>3. /\ result'.args = <<h>> /\ result'.value = value /\ signal' = signal
      /\ \A name : Of(name)' => name = "requantize"
  <2> HIDE DEF Value
  <2>. QED BY <1>1, ReturnIs
<1> HIDE DEF value
<1>4. RequantizedRight(signal, h, value)
  BY <1>1, <1>2, RequantizedRounds DEF RequantizedRight
<1>. QED BY <1>3, <1>4 DEF ComputedRight

LEMMA NormalizeComputes ==
  ASSUME signal \in Signals, normalize
  PROVE  ComputedRight'
<1>1. Returns("normalize", <<>>, Normalized(signal))
  BY DEF normalize
<1>2. /\ result'.value = Normalized(signal) /\ signal' = signal
      /\ \A name : Of(name)' => name = "normalize"
  BY <1>1, ReturnIs
<1>3. NormalizedRight(signal, Normalized(signal))
  BY NormalizedPeaks
<1>. QED BY <1>2, <1>3 DEF ComputedRight

LEMMA RemoveDCComputes ==
  ASSUME signal \in Signals, removeDC
  PROVE  ComputedRight'
<1>1. Returns("removeDC", <<>>, WithoutDC(signal))
  BY DEF removeDC
<1>2. /\ result'.value = WithoutDC(signal) /\ signal' = signal
      /\ \A name : Of(name)' => name = "removeDC"
  BY <1>1, ReturnIs
<1>3. WithoutDCRight(signal, WithoutDC(signal))
  BY WithoutDCAddsUp
<1>. QED BY <1>2, <1>3 DEF ComputedRight

LEMMA ApplyOnePoleComputes ==
  ASSUME signal \in Signals, applyOnePole
  PROVE  ComputedRight'
<1> DEFINE Value(e) == [c \in Upto(signal.channels) |-> OnePole(Row(signal, c), signal.size, e)]
<1>1. PICK e \in Coefficients : Returns("applyOnePole", <<e>>, Value(e))
  BY DEF applyOnePole
<1> DEFINE value == Value(e)
<1>2. /\ result'.args = <<e>> /\ result'.value = value /\ signal' = signal
      /\ \A name : Of(name)' => name = "applyOnePole"
  <2> HIDE DEF Value
  <2>. QED BY <1>1, ReturnIs
<1>3. OnePoleRight(signal, e, value)
  <2>1. ASSUME NEW c \in Upto(signal.channels), NEW i \in Upto(signal.size)
        PROVE  value[c][i] = IF i = signal.size - 1 THEN At(signal, c, i)
                             ELSE At(signal, c, i + 1) - e * At(signal, c, i)
    <3> DEFINE x == Row(signal, c)
               n == signal.size
    <3>1. x \in [Upto(n) -> Int] /\ n \in Nat \ {0} /\ e \in Int
      BY SampleIs, SignalIs, AnalysisAssumption DEF Row
    <3>2. value[c] = OnePole(x, n, e)
      OBVIOUS
    <3>3. x[i] = At(signal, c, i) /\ (i # n - 1 => x[i + 1] = At(signal, c, i + 1))
      <4>1. i # n - 1 => i + 1 \in Upto(n)
        BY <3>1 DEF Upto
      <4>. QED BY <4>1 DEF Row
    <3> HIDE DEF x, value
    <3>4. OnePole(x, n, e)[i] = IF i = n - 1 THEN x[i] ELSE x[i + 1] - e * x[i]
      <4> HIDE DEF n
      <4>1. i \in Upto(n)
        BY DEF n
      <4>. QED BY <3>1, <4>1, OnePoleReads
    <3>. QED BY <3>2, <3>3, <3>4
  <2> HIDE DEF value
  <2>. QED BY <2>1 DEF OnePoleRight
<1> HIDE DEF value
<1>. QED BY <1>2, <1>3 DEF ComputedRight

LEMMA ConvolveTdComputes ==
  ASSUME signal \in Signals, convolveTd
  PROVE  ComputedRight'
<1>1. PICK h \in Signals : Returns("convolveTd", <<h>>, Convolved(signal, h))
  BY DEF convolveTd
<1>2. /\ result'.args = <<h>> /\ result'.value = Convolved(signal, h) /\ signal' = signal
      /\ \A name : Of(name)' => name = "convolveTd"
  BY <1>1, ReturnIs
<1>3. ConvolvedRight(signal, h, Convolved(signal, h))
  <2>1. ASSUME NEW c \in Upto(signal.channels), NEW o \in Upto(signal.size + h.size - 1)
        PROVE  Convolved(signal, h)[c][o] = OutputSample(signal, h, c, o)
    BY DEF Convolved
  <2>. QED BY <2>1, OutputIsProduct DEF ConvolvedRight
<1>. QED BY <1>2, <1>3 DEF ComputedRight

LEMMA SamplesComputedNext ==
  ASSUME SignalOK, ComputedRight, [SignalNext]_<<signal, result>>
  PROVE  ComputedRight'
<1>1. CASE SignalNext
  <2>1. signal \in Signals
    BY <1>1 DEF SignalOK, SignalNext
  <2>2. CASE requantize
    BY <2>1, <2>2, RequantizeComputes
  <2>3. CASE normalize
    BY <2>1, <2>3, NormalizeComputes
  <2>4. CASE removeDC
    BY <2>1, <2>4, RemoveDCComputes
  <2>5. CASE applyOnePole
    BY <2>1, <2>5, ApplyOnePoleComputes
  <2>6. CASE convolveTd
    BY <2>1, <2>6, ConvolveTdComputes
  <2>7. ASSUME findPeak \/ findZeroCrossing \/ sort PROVE ComputedRight'
    <3>1. /\ ~Of("requantize")' /\ ~Of("normalize")' /\ ~Of("removeDC")'
          /\ ~Of("applyOnePole")' /\ ~Of("convolveTd")'
      BY <2>7 DEF findPeak, findZeroCrossing, sort, Returns, Of
    <3>. QED BY <3>1 DEF ComputedRight
  <2>. QED BY <1>1, <2>2, <2>3, <2>4, <2>5, <2>6, <2>7 DEF SignalNext
<1>2. CASE UNCHANGED <<signal, result>>
  BY <1>2 DEF ComputedRight, Of
<1>. QED BY <1>1, <1>2

\* Whatever the signal: requantize moves a sample by less than a step and not away
\* from zero, normalize brings the loudest one to 1, removeDC leaves a mono signal
\* without a mean, applyOnePole computes from the samples that were there before it,
\* and convolveTd is the product of the polynomials as far as the signal reaches.
THEOREM SamplesAreRight == SignalSpec => []SamplesAreComputed
<1>1. Init => ComputedRight
  BY DEF Init, ComputedRight, Of
<1>2. SignalOK /\ ComputedRight /\ [SignalNext]_<<signal, result>> => ComputedRight'
  BY SamplesComputedNext
<1>. QED BY <1>1, <1>2, SignalStays, ComputedIsRight, PTL DEF SignalSpec

-----------------------------------------------------------------------------
(***************************************************************************)
(* sort: what reorder copies from is not what it writes to.                *)
(***************************************************************************)
ReorderSteps(y, x, map, size) ==
  /\ y \in [0 .. size -> [Upto(size) -> Int]] /\ y[0] = x
  /\ \A k \in 1 .. size : y[k] = [y[k - 1] EXCEPT ![k - 1] = x[map[k - 1]]]
  /\ Reordered(x, map) = y[size]

LEMMA ReorderIs ==
  ASSUME NEW size \in Nat, NEW x \in [Upto(size) -> Int], NEW map \in [Upto(size) -> Upto(size)]
  PROVE  \E y : ReorderSteps(y, x, map, size)
<1>0. Cardinality(DOMAIN map) = size
  BY UptoIsFinite
<1> DEFINE n == size
           V == [Upto(size) -> Int]
           b == x
           Step(v, i) == [v EXCEPT ![i] = x[map[i]]]
           q == Count(0, Cardinality(DOMAIN map) - 1)
           F == [p \in (1 .. n) \X V |-> Step(p[2], q[p[1]])]
           E(g) == g = [s_ \in SUBSET DOMAIN q |->
                          IF s_ = {} THEN b ELSE Step(g[s_ \ {Max(s_)}], q[Max(s_)])]
<1>1. Reordered(x, map) = (CHOOSE g : E(g))[DOMAIN q]
  BY DEF Reordered, FoldLeft, MapThenFoldSet
<1>2. /\ n \in Nat /\ b \in V /\ DOMAIN q = 1 .. n /\ \A k \in 1 .. n : q[k] = k - 1
      /\ \A k \in 1 .. n : \A v \in V : Step(v, q[k]) \in V
  <2>1. n \in Nat /\ b \in V
    OBVIOUS
  <2>2. DOMAIN q = 1 .. n /\ \A k \in 1 .. n : q[k] = k - 1
    BY <1>0 DEF Count
  <2>3. ASSUME NEW k \in 1 .. n, NEW v \in V PROVE Step(v, k - 1) \in V
    <3>1. k - 1 \in Upto(size)
      BY DEF Upto
    <3>2. x[map[k - 1]] \in Int
      BY <3>1
    <3>. QED BY <3>1, <3>2
  <2>. QED BY <2>1, <2>2, <2>3
<1>3. \A k \in 1 .. n : \A v \in V : F[<<k, v>>] = Step(v, q[k])
  OBVIOUS
<1> HIDE DEF V, b, Step, F, q, n
<1>4. PICK h \in [SUBSET (1 .. n) -> V] : Folding(h, F, b, 1 .. n)
  <2>1. n \in Nat /\ b \in V /\ \A k \in 1 .. n : \A v \in V : F[<<k, v>>] \in V
    BY <1>2, <1>3
  <2> HIDE DEF E
  <2>. QED BY <2>1, FoldingsOfType
<1>5. E(h)
  <2>1. ASSUME NEW t \in SUBSET (1 .. n)
        PROVE  h[t] = IF t = {} THEN b ELSE Step(h[t \ {Max(t)}], q[Max(t)])
    <3>1. t # {} => Max(t) \in 1 .. n
      BY <1>2, UptoHasLast DEF HasLast
    <3>. QED BY <1>2, <1>3, <1>4, <3>1 DEF Folding
  <2>. QED BY <1>2, <1>4, <2>1
<1> DEFINE g == CHOOSE g : E(g)
<1>6. E(g)
  <2> HIDE DEF E
  <2>. QED BY <1>5
<1>7. Chain(g, F, b, V, n)
  <2> HIDE DEF g
  <2>1. ASSUME NEW t \in SUBSET (1 .. n), t # {}, g[t \ {Max(t)}] \in V
        PROVE  g[t] = F[<<Max(t), g[t \ {Max(t)}]>>]
    <3>1. Max(t) \in 1 .. n
      BY <1>2, <2>1, UptoHasLast DEF HasLast
    <3>2. g[t] = Step(g[t \ {Max(t)}], q[Max(t)])
      BY <1>2, <1>6, <2>1
    <3>. QED BY <1>2, <1>3, <2>1, <3>1, <3>2
  <2>2. g[{}] = b
    BY <1>6
  <2> HIDE DEF E
  <2>. QED BY <2>1, <2>2 DEF Chain
<1>8. PICK y \in [0 .. n -> V] : Iterates(y, F, b, n) /\ y[n] = g[1 .. n]
  <2>1. n \in Nat /\ b \in V /\ \A k \in 1 .. n : \A v \in V : F[<<k, v>>] \in V
    BY <1>2, <1>3
  <2> HIDE DEF g
  <2>. QED BY <2>1, <1>7, ChainIterates
<1>9. ASSUME NEW k \in 1 .. n PROVE y[k] = Step(y[k - 1], k - 1)
  <2>1. k - 1 \in 0 .. n /\ y[k - 1] \in V
    BY <1>2
  <2>2. y[k] = F[<<k, y[k - 1]>>] /\ q[k] = k - 1
    BY <1>2, <1>8 DEF Iterates
  <2>. QED BY <1>3, <2>1, <2>2
<1>10. Reordered(x, map) = y[n]
  BY <1>1, <1>2, <1>8
<1>. QED BY <1>8, <1>9, <1>10 DEF V, b, Step, n, Iterates, ReorderSteps

LEMMA ReorderedReads ==
  ASSUME NEW size \in Nat, NEW x \in [Upto(size) -> Int], NEW map \in [Upto(size) -> Upto(size)],
         NEW i \in Upto(size)
  PROVE  Reordered(x, map)[i] = x[map[i]]
<1>1. PICK y : ReorderSteps(y, x, map, size)
  BY ReorderIs
<1> DEFINE T == {k \in 0 .. size : \A j \in Upto(k) : y[k][j] = x[map[j]]}
<1>2. 0 \in T
  BY DEF Upto
<1>3. ASSUME NEW k \in 1 .. size, k - 1 \in T PROVE k \in T
  <2>1. /\ y[k] = [y[k - 1] EXCEPT ![k - 1] = x[map[k - 1]]]
        /\ k - 1 \in 0 .. size /\ k - 1 \in Upto(size) /\ y[k - 1] \in [Upto(size) -> Int]
    <3>1. k - 1 \in 0 .. size /\ k - 1 \in Upto(size)
      BY DEF Upto
    <3>. QED BY <1>1, <3>1 DEF ReorderSteps
  <2>2. ASSUME NEW j \in Upto(k) PROVE y[k][j] = x[map[j]]
    <3>1. j \in Upto(size) /\ (j = k - 1 \/ j \in Upto(k - 1))
      BY DEF Upto
    <3>2. j \in Upto(k - 1) => y[k - 1][j] = x[map[j]]
      BY <1>3
    <3>3. j \in Upto(k - 1) => j # k - 1
      BY DEF Upto
    <3>. QED BY <2>1, <3>1, <3>2, <3>3
  <2>. QED BY <2>2
<1>4. size \in T
  <2>1. size \in 0 .. size
    OBVIOUS
  <2> HIDE DEF T
  <2>. QED BY <1>2, <1>3, <2>1, UptoInduction
<1>. QED BY <1>1, <1>4 DEF ReorderSteps

SortRight(s, map, y) ==
  LET x == Row(s, 0)
  IN  /\ \A i \in DOMAIN x : y[i] = x[map[i]]
      /\ \A i, j \in DOMAIN x : i < j => y[i] <= y[j]

SortedRight == Of("sort") => SortRight(signal, result.value[1], result.value[2])

LEMMA SortSorts ==
  ASSUME signal \in Signals, sort
  PROVE  SortedRight'
<1> DEFINE x == Row(signal, 0)
           size == signal.size
<1>1. PICK map \in SortingMaps(x) : Returns("sort", <<>>, <<map, Reordered(x, map)>>)
  BY DEF sort
<1>2. result'.value = <<map, Reordered(x, map)>> /\ signal' = signal
  BY <1>1, ReturnIs
<1>3. /\ size \in Nat /\ x \in [Upto(size) -> Int] /\ map \in [Upto(size) -> Upto(size)]
      /\ \A i, j \in Upto(size) : i < j => x[map[i]] <= x[map[j]]
  <2>1. 0 \in Upto(signal.channels)
    BY SignalIs DEF Upto
  <2>. QED BY <2>1, SampleIs, SignalIs DEF Row, SortingMaps
<1>4. \A i \in Upto(size) : Reordered(x, map)[i] = x[map[i]]
  <2> HIDE DEF x, size
  <2>. QED BY <1>3, ReorderedReads
<1>5. SortRight(signal, map, Reordered(x, map))
  <2>1. x = Row(signal, 0) /\ DOMAIN x = Upto(size)
    BY DEF Row
  <2> HIDE DEF x, size
  <2>. QED BY <1>3, <1>4, <2>1 DEF SortRight
<1> HIDE DEF x
<1>. QED BY <1>2, <1>5 DEF SortedRight

LEMMA SortedNext ==
  ASSUME SignalOK, SortedRight, [SignalNext]_<<signal, result>>
  PROVE  SortedRight'
<1>1. CASE SignalNext
  <2>1. signal \in Signals
    BY <1>1 DEF SignalOK, SignalNext
  <2>2. CASE sort
    BY <2>1, <2>2, SortSorts
  <2>3. ASSUME \/ findPeak \/ findZeroCrossing \/ requantize \/ normalize
               \/ removeDC \/ applyOnePole \/ convolveTd
        PROVE  SortedRight'
    <3>1. ~Of("sort")'
      BY <2>3 DEF findPeak, findZeroCrossing, requantize, normalize, removeDC, applyOnePole, convolveTd,
                  Returns, Of
    <3>. QED BY <3>1 DEF SortedRight
  <2>. QED BY <1>1, <2>2, <2>3 DEF SignalNext
<1>2. CASE UNCHANGED <<signal, result>>
  BY <1>2 DEF SortedRight, Of
<1>. QED BY <1>1, <1>2

LEMMA SortedIsRight == SortedIntoItself <=> SortedRight
  BY DEF SortedIntoItself, SortedRight, SortRight

\* Whatever the row and whatever order std::sort leaves among equals: sorted into
\* itself a vector is in order, and every element is one that the map says.
THEOREM SortsIntoItself == SignalSpec => []SortedIntoItself
<1>1. Init => SortedRight
  BY DEF Init, SortedRight, Of
<1>2. SignalOK /\ SortedRight /\ [SignalNext]_<<signal, result>> => SortedRight'
  BY SortedNext
<1>. QED BY <1>1, <1>2, SignalStays, SortedIsRight, PTL DEF SignalSpec

-----------------------------------------------------------------------------
(***************************************************************************)
(* The coupling of Vorbis.                                                 *)
(***************************************************************************)
LEMMA CouplingIs ==
  ASSUME NEW c \in Couplings
  PROVE  /\ c.channels \in Nat /\ Len(c.steps) \in Nat /\ DOMAIN c.steps = 1 .. Len(c.steps)
         /\ \A k \in 1 .. Len(c.steps) : /\ c.steps[k] \in Upto(c.channels) \X Upto(c.channels)
                                       /\ c.steps[k][1] \in Upto(c.channels) /\ c.steps[k][2] \in Upto(c.channels)
                                       /\ c.steps[k][1] # c.steps[k][2]
         /\ c.zero \subseteq Upto(c.channels)
         /\ c.sample \in [Upto(c.channels) -> Int]
<1> DEFINE S == Upto(c.channels) \X Upto(c.channels)
           q == c.steps
<1>1. /\ c.channels \in Nat /\ q \in Seq(S) /\ c.zero \subseteq Upto(c.channels)
      /\ c.sample \in [Upto(c.channels) -> Int]
      /\ \A k \in DOMAIN q : q[k][1] # q[k][2]
  BY CouplingsAssumption
<1>2. Len(q) \in Nat /\ DOMAIN q = 1 .. Len(q) /\ \A k \in 1 .. Len(q) : q[k] \in S
  <2> HIDE DEF S, q
  <2>. QED BY <1>1
<1>3. \A e \in S : e[1] \in Upto(c.channels) /\ e[2] \in Upto(c.channels)
  OBVIOUS
<1> HIDE DEF S
<1>4. \A k \in 1 .. Len(q) : q[k] \in S /\ q[k][1] \in Upto(c.channels) /\ q[k][2] \in Upto(c.channels)
  BY <1>2, <1>3
<1>. QED BY <1>1, <1>2, <1>4 DEF S

SilentAfter(zero, s) == IF s[1] \in zero /\ s[2] \in zero THEN zero ELSE zero \ {s[1], s[2]}

SilentSteps(z, c) ==
  /\ z[0] = c.zero /\ \A k \in 0 .. Len(c.steps) : z[k] \in SUBSET Upto(c.channels)
  /\ \A k \in 1 .. Len(c.steps) : z[k] = SilentAfter(z[k - 1], c.steps[k])
  /\ Silent(c) = z[Len(c.steps)]

LEMMA SilentIs ==
  ASSUME NEW c \in Couplings
  PROVE  \E z : SilentSteps(z, c)
<1> DEFINE n == Len(c.steps)
           V == SUBSET Upto(c.channels)
           b == c.zero
           Step(v, i) == IF i[1] \in v /\ i[2] \in v THEN v ELSE v \ {i[1], i[2]}
           q == c.steps
           F == [p \in (1 .. n) \X V |-> Step(p[2], q[p[1]])]
           E(g) == g = [s_ \in SUBSET DOMAIN q |->
                          IF s_ = {} THEN b ELSE Step(g[s_ \ {Max(s_)}], q[Max(s_)])]
<1>1. Silent(c) = (CHOOSE g : E(g))[DOMAIN q]
  BY DEF Silent, FoldLeft, MapThenFoldSet
<1>2. /\ n \in Nat /\ b \in V /\ DOMAIN q = 1 .. n /\ \A k \in 1 .. n : q[k] = c.steps[k]
      /\ \A k \in 1 .. n : \A v \in V : Step(v, q[k]) \in V
  BY CouplingIs
<1>3. \A k \in 1 .. n : \A v \in V : F[<<k, v>>] = Step(v, q[k])
  OBVIOUS
<1> HIDE DEF V, b, Step, F, q, n
<1>4. PICK h \in [SUBSET (1 .. n) -> V] : Folding(h, F, b, 1 .. n)
  <2>1. n \in Nat /\ b \in V /\ \A k \in 1 .. n : \A v \in V : F[<<k, v>>] \in V
    BY <1>2, <1>3
  <2> HIDE DEF E
  <2>. QED BY <2>1, FoldingsOfType
<1>5. E(h)
  <2>1. ASSUME NEW t \in SUBSET (1 .. n)
        PROVE  h[t] = IF t = {} THEN b ELSE Step(h[t \ {Max(t)}], q[Max(t)])
    <3>1. t # {} => Max(t) \in 1 .. n
      BY <1>2, UptoHasLast DEF HasLast
    <3>. QED BY <1>2, <1>3, <1>4, <3>1 DEF Folding
  <2>. QED BY <1>2, <1>4, <2>1
<1> DEFINE g == CHOOSE g : E(g)
<1>6. E(g)
  <2> HIDE DEF E
  <2>. QED BY <1>5
<1>7. Chain(g, F, b, V, n)
  <2> HIDE DEF g
  <2>1. ASSUME NEW t \in SUBSET (1 .. n), t # {}, g[t \ {Max(t)}] \in V
        PROVE  g[t] = F[<<Max(t), g[t \ {Max(t)}]>>]
    <3>1. Max(t) \in 1 .. n
      BY <1>2, <2>1, UptoHasLast DEF HasLast
    <3>2. g[t] = Step(g[t \ {Max(t)}], q[Max(t)])
      BY <1>2, <1>6, <2>1
    <3>. QED BY <1>2, <1>3, <2>1, <3>1, <3>2
  <2>2. g[{}] = b
    BY <1>6
  <2> HIDE DEF E
  <2>. QED BY <2>1, <2>2 DEF Chain
<1>8. PICK y \in [0 .. n -> V] : Iterates(y, F, b, n) /\ y[n] = g[1 .. n]
  <2>1. n \in Nat /\ b \in V /\ \A k \in 1 .. n : \A v \in V : F[<<k, v>>] \in V
    BY <1>2, <1>3
  <2> HIDE DEF g
  <2>. QED BY <2>1, <1>7, ChainIterates
<1>9. ASSUME NEW k \in 1 .. n PROVE y[k] = Step(y[k - 1], c.steps[k])
  <2>1. k - 1 \in 0 .. n /\ y[k - 1] \in V
    BY <1>2
  <2>2. y[k] = F[<<k, y[k - 1]>>] /\ q[k] = c.steps[k]
    BY <1>2, <1>8 DEF Iterates
  <2>. QED BY <1>3, <2>1, <2>2
<1>10. Silent(c) = y[n]
  BY <1>1, <1>2, <1>8
<1>. QED BY <1>8, <1>9, <1>10 DEF V, b, Step, n, Iterates, SilentSteps, SilentAfter

\* A channel that was found to be heard stays so.
LEMMA SilentShrinks ==
  ASSUME NEW c \in Couplings, NEW z, SilentSteps(z, c), NEW k \in 0 .. Len(c.steps)
  PROVE  z[k] \subseteq c.zero
<1> DEFINE n == Len(c.steps)
           T == {j \in 0 .. n : z[j] \subseteq c.zero}
<1>1. n \in Nat
  BY CouplingIs
<1>2. 0 \in T
  BY <1>1 DEF SilentSteps
<1>3. ASSUME NEW j \in 1 .. n, j - 1 \in T PROVE j \in T
  <2>1. z[j] = SilentAfter(z[j - 1], c.steps[j])
    BY DEF SilentSteps
  <2>2. z[j] \subseteq z[j - 1]
    BY <2>1 DEF SilentAfter
  <2>. QED BY <1>3, <2>2
<1> HIDE DEF T
<1>4. k \in T
  BY <1>1, <1>2, <1>3, UptoInduction
<1>. QED BY <1>4 DEF T

UndoneStep(buffer, s) ==
  [buffer EXCEPT ![s[1]] = Uncoupled(buffer[s[1]], buffer[s[2]])[1],
                 ![s[2]] = Uncoupled(buffer[s[1]], buffer[s[2]])[2]]

LastBlock == Int \cup {NULL}

HeardSteps(u, c) ==
  /\ u[0] = [ch \in Upto(c.channels) |-> IF ch \in Silent(c) THEN NULL ELSE c.sample[ch]]
  /\ \A k \in 0 .. Len(c.steps) : u[k] \in [Upto(c.channels) -> LastBlock]
  /\ \A k \in 1 .. Len(c.steps) : u[k] = UndoneStep(u[k - 1], c.steps[Len(c.steps) - k + 1])
  /\ Heard(c) = [ch \in Upto(c.channels) |-> IF ch \in c.zero THEN 0 ELSE u[Len(c.steps)][ch]]

LEMMA UncoupledIs ==
  ASSUME NEW m \in LastBlock, NEW a \in LastBlock
  PROVE  /\ Uncoupled(m, a)[1] \in LastBlock /\ Uncoupled(m, a)[2] \in LastBlock
         /\ m # NULL /\ a # NULL => Uncoupled(m, a)[1] \in Int /\ Uncoupled(m, a)[2] \in Int
<1>1. CASE m = NULL \/ a = NULL
  <2>1. Uncoupled(m, a) = <<NULL, NULL>>
    BY <1>1 DEF Uncoupled
  <2>. QED BY <1>1, <2>1 DEF LastBlock
<1>2. CASE m # NULL /\ a # NULL
  <2>1. m \in Int /\ a \in Int
    BY <1>2 DEF LastBlock
  <2>2. Uncoupled(m, a) \in Int \X Int
    BY <1>2, <2>1 DEF Uncoupled
  <2>. QED BY <2>2 DEF LastBlock
<1>. QED BY <1>1, <1>2

LEMMA HeardIs ==
  ASSUME NEW c \in Couplings
  PROVE  \E u : HeardSteps(u, c)
<1> DEFINE n == Len(c.steps)
           V == [Upto(c.channels) -> LastBlock]
           b == [ch \in Upto(c.channels) |-> IF ch \in Silent(c) THEN NULL ELSE c.sample[ch]]
           Step(v, i) == [v EXCEPT ![i[1]] = Uncoupled(v[i[1]], v[i[2]])[1], ![i[2]] = Uncoupled(v[i[1]], v[i[2]])[2]]
           q == Reverse(c.steps)
           F == [p \in (1 .. n) \X V |-> Step(p[2], q[p[1]])]
           E(g) == g = [s_ \in SUBSET DOMAIN q |->
                          IF s_ = {} THEN b ELSE Step(g[s_ \ {Max(s_)}], q[Max(s_)])]
<1>1. Heard(c) = [ch \in Upto(c.channels) |-> IF ch \in c.zero THEN 0 ELSE ((CHOOSE g : E(g))[DOMAIN q])[ch]]
  BY DEF Heard, FoldLeft, MapThenFoldSet
<1>2. /\ n \in Nat /\ b \in V /\ DOMAIN q = 1 .. n /\ \A k \in 1 .. n : q[k] = c.steps[Len(c.steps) - k + 1]
      /\ \A k \in 1 .. n : \A v \in V : Step(v, q[k]) \in V
  <2>1. n \in Nat /\ b \in V
    BY CouplingIs DEF LastBlock
  <2>2. DOMAIN q = 1 .. n /\ \A k \in 1 .. n : q[k] = c.steps[Len(c.steps) - k + 1]
    BY CouplingIs DEF Reverse
  <2>3. ASSUME NEW k \in 1 .. n, NEW v \in V PROVE Step(v, q[k]) \in V
    <3>1. Len(c.steps) - k + 1 \in 1 .. Len(c.steps)
      BY <2>1
    <3> DEFINE s == c.steps[Len(c.steps) - k + 1]
    <3>2. s[1] \in Upto(c.channels) /\ s[2] \in Upto(c.channels) /\ q[k] = s
      BY <2>2, <3>1, CouplingIs
    <3> HIDE DEF s, q
    <3>3. v[s[1]] \in LastBlock /\ v[s[2]] \in LastBlock
      BY <3>2
    <3>4. Uncoupled(v[s[1]], v[s[2]])[1] \in LastBlock /\ Uncoupled(v[s[1]], v[s[2]])[2] \in LastBlock
      BY <3>3, UncoupledIs
    <3>. QED BY <3>2, <3>4
  <2> HIDE DEF V, Step, q, b
  <2>. QED BY <2>1, <2>2, <2>3
<1>3. \A k \in 1 .. n : \A v \in V : F[<<k, v>>] = Step(v, q[k])
  OBVIOUS
<1> HIDE DEF V, b, Step, F, q, n
<1>4. PICK h \in [SUBSET (1 .. n) -> V] : Folding(h, F, b, 1 .. n)
  <2>1. n \in Nat /\ b \in V /\ \A k \in 1 .. n : \A v \in V : F[<<k, v>>] \in V
    BY <1>2, <1>3
  <2> HIDE DEF E
  <2>. QED BY <2>1, FoldingsOfType
<1>5. E(h)
  <2>1. ASSUME NEW t \in SUBSET (1 .. n)
        PROVE  h[t] = IF t = {} THEN b ELSE Step(h[t \ {Max(t)}], q[Max(t)])
    <3>1. t # {} => Max(t) \in 1 .. n
      BY <1>2, UptoHasLast DEF HasLast
    <3>. QED BY <1>2, <1>3, <1>4, <3>1 DEF Folding
  <2>. QED BY <1>2, <1>4, <2>1
<1> DEFINE g == CHOOSE g : E(g)
<1>6. E(g)
  <2> HIDE DEF E
  <2>. QED BY <1>5
<1>7. Chain(g, F, b, V, n)
  <2> HIDE DEF g
  <2>1. ASSUME NEW t \in SUBSET (1 .. n), t # {}, g[t \ {Max(t)}] \in V
        PROVE  g[t] = F[<<Max(t), g[t \ {Max(t)}]>>]
    <3>1. Max(t) \in 1 .. n
      BY <1>2, <2>1, UptoHasLast DEF HasLast
    <3>2. g[t] = Step(g[t \ {Max(t)}], q[Max(t)])
      BY <1>2, <1>6, <2>1
    <3>. QED BY <1>2, <1>3, <2>1, <3>1, <3>2
  <2>2. g[{}] = b
    BY <1>6
  <2> HIDE DEF E
  <2>. QED BY <2>1, <2>2 DEF Chain
<1>8. PICK y \in [0 .. n -> V] : Iterates(y, F, b, n) /\ y[n] = g[1 .. n]
  <2>1. n \in Nat /\ b \in V /\ \A k \in 1 .. n : \A v \in V : F[<<k, v>>] \in V
    BY <1>2, <1>3
  <2> HIDE DEF g
  <2>. QED BY <2>1, <1>7, ChainIterates
<1>9. ASSUME NEW k \in 1 .. n PROVE y[k] = Step(y[k - 1], c.steps[Len(c.steps) - k + 1])
  <2>1. k - 1 \in 0 .. n /\ y[k - 1] \in V
    BY <1>2
  <2>2. y[k] = F[<<k, y[k - 1]>>] /\ q[k] = c.steps[Len(c.steps) - k + 1]
    BY <1>2, <1>8 DEF Iterates
  <2>. QED BY <1>3, <2>1, <2>2
<1>10. Heard(c) = [ch \in Upto(c.channels) |-> IF ch \in c.zero THEN 0 ELSE y[n][ch]]
  BY <1>1, <1>2, <1>8
<1>. QED BY <1>8, <1>9, <1>10 DEF V, b, Step, n, Iterates, HeardSteps, UndoneStep

\* Before step k is undone only channels are left over from the last block that were
\* silent before it was looked at.
LEMMA LeftOversAreSilent ==
  ASSUME NEW c \in Couplings, NEW z, SilentSteps(z, c), NEW u, HeardSteps(u, c),
         NEW ch \in Upto(c.channels), u[Len(c.steps)][ch] = NULL
  PROVE  ch \in c.zero
<1> DEFINE n == Len(c.steps)
           T == {j \in 0 .. n : \A d \in Upto(c.channels) : u[j][d] = NULL => d \in z[n - j]}
<1>1. n \in Nat
  BY CouplingIs
<1>2. 0 \in T
  <2>1. \A d \in Upto(c.channels) : u[0][d] = NULL => d \in z[n]
    BY CouplingIs, CouplingsAssumption DEF HeardSteps, SilentSteps
  <2>. QED BY <1>1, <2>1
<1>3. ASSUME NEW j \in 1 .. n, j - 1 \in T PROVE j \in T
  <2> DEFINE k == n - j + 1
             s == c.steps[k]
             m == s[1]
             a == s[2]
             old == u[j - 1]
             both == Uncoupled(old[m], old[a])
  <2>1. k \in 1 .. n /\ k - 1 = n - j /\ n - (j - 1) = k /\ j - 1 \in 0 .. n
    BY <1>1
  <2>2. m \in Upto(c.channels) /\ a \in Upto(c.channels) /\ m # a
    BY <2>1, CouplingIs
  <2>3. z[k] = IF m \in z[k - 1] /\ a \in z[k - 1] THEN z[k - 1] ELSE z[k - 1] \ {m, a}
    BY <2>1 DEF SilentSteps, SilentAfter
  <2>4. old \in [Upto(c.channels) -> LastBlock]
    BY <2>1 DEF HeardSteps
  <2>5. u[j] = [old EXCEPT ![m] = both[1], ![a] = both[2]]
    BY DEF HeardSteps, UndoneStep
  <2>6. \A d \in Upto(c.channels) : old[d] = NULL => d \in z[k]
    BY <1>3, <2>1
  <2> HIDE DEF k, s, m, a, old, both, T
  <2>7. ASSUME NEW d \in Upto(c.channels), u[j][d] = NULL PROVE d \in z[k - 1]
    <3>1. CASE d # m /\ d # a
      <4>1. u[j][d] = old[d]
        BY <2>2, <2>4, <2>5, <3>1
      <4>. QED BY <2>3, <2>6, <2>7, <4>1
    <3>2. CASE m \in z[k - 1] /\ a \in z[k - 1] /\ (d = m \/ d = a)
      BY <3>2
    <3>3. CASE ~(m \in z[k - 1] /\ a \in z[k - 1]) /\ (d = m \/ d = a)
      <4>1. m \notin z[k] /\ a \notin z[k]
        BY <2>3, <3>3
      <4>2. old[m] # NULL /\ old[a] # NULL /\ old[m] \in LastBlock /\ old[a] \in LastBlock
        BY <2>2, <2>4, <2>6, <4>1
      <4>3. both[1] \in Int /\ both[2] \in Int
        BY <4>2, UncoupledIs DEF both
      <4>4. u[j][d] = both[1] \/ u[j][d] = both[2]
        BY <2>2, <2>4, <2>5, <3>3
      <4>. QED BY <2>7, <4>3, <4>4, CouplingsAssumption
    <3>. QED BY <3>1, <3>2, <3>3
  <2>8. j \in 0 .. n /\ \A d \in Upto(c.channels) : u[j][d] = NULL => d \in z[n - j]
    BY <2>1, <2>7
  <2>. QED BY <2>8 DEF T
<1>4. n \in T
  <2>1. n \in 0 .. n
    BY <1>1
  <2> HIDE DEF T, n
  <2>. QED BY <1>1, <1>2, <1>3, <2>1, UptoInduction
<1>5. n - n = 0
  BY <1>1
<1>6. ch \in z[0]
  BY <1>4, <1>5
<1>. QED BY <1>6 DEF SilentSteps

\* The samples of two channels that no other step couples.
LEMMA UndoneOnce ==
  ASSUME NEW c \in Couplings, NEW u, HeardSteps(u, c), NEW k \in 1 .. Len(c.steps), StandsAlone(c, k),
         c.steps[k][1] \notin c.zero, c.steps[k][2] \notin c.zero
  PROVE  LET m == c.steps[k][1]
             a == c.steps[k][2]
         IN  /\ u[Len(c.steps)][m] = Uncoupled(c.sample[m], c.sample[a])[1]
             /\ u[Len(c.steps)][a] = Uncoupled(c.sample[m], c.sample[a])[2]
<1> DEFINE n == Len(c.steps)
           m == c.steps[k][1]
           a == c.steps[k][2]
           both == Uncoupled(c.sample[m], c.sample[a])
           T == {j \in 0 .. n : /\ u[j][m] = IF j < n - k + 1 THEN c.sample[m] ELSE both[1]
                                /\ u[j][a] = IF j < n - k + 1 THEN c.sample[a] ELSE both[2]}
<1>1. n \in Nat /\ m \in Upto(c.channels) /\ a \in Upto(c.channels) /\ m # a
  BY CouplingIs
<1>2. 0 \in T
  <2>1. PICK z : SilentSteps(z, c)
    BY SilentIs
  <2>2. n \in 0 .. n
    BY <1>1
  <2>3. z[n] \subseteq c.zero /\ Silent(c) = z[n]
    BY <2>1, <2>2, SilentShrinks DEF SilentSteps
  <2>4. u[0][m] = c.sample[m] /\ u[0][a] = c.sample[a]
    BY <1>1, <2>3 DEF HeardSteps
  <2>5. 0 < n - k + 1 /\ 0 \in 0 .. n
    BY <1>1
  <2> HIDE DEF m, a, both, n
  <2>. QED BY <2>4, <2>5
<1>3. ASSUME NEW j \in 1 .. n, j - 1 \in T PROVE j \in T
  <2> DEFINE l == n - j + 1
             s == c.steps[l]
             old == u[j - 1]
  <2>1. l \in 1 .. n /\ j - 1 \in 0 .. n /\ j \in 0 .. n /\ (l = k <=> j = n - k + 1)
    <3>1. n \in Nat /\ k \in 1 .. n
      BY <1>1
    <3> HIDE DEF n, s, old, T, m, a, both
    <3>2. j \in Int /\ k \in Int /\ l \in Int /\ 1 <= j /\ j <= n
      BY <3>1
    <3>. QED BY <3>1, <3>2
  <2>2. /\ u[j] = [old EXCEPT ![s[1]] = Uncoupled(old[s[1]], old[s[2]])[1],
                              ![s[2]] = Uncoupled(old[s[1]], old[s[2]])[2]]
        /\ old \in [Upto(c.channels) -> LastBlock]
    BY <2>1 DEF HeardSteps, UndoneStep
  <2>3. CASE l = k
    <3>1. j - 1 < n - k + 1 /\ ~(j < n - k + 1)
      BY <1>1, <2>1, <2>3
    <3>2. old[m] = c.sample[m] /\ old[a] = c.sample[a] /\ s[1] = m /\ s[2] = a
      BY <1>3, <2>3, <3>1
    <3> HIDE DEF m, a, both, n, old, s
    <3>3. u[j][m] = both[1] /\ u[j][a] = both[2]
      BY <1>1, <2>2, <3>2 DEF both
    <3>. QED BY <2>1, <3>1, <3>3
  <2>4. CASE l # k
    <3>1. s[1] # m /\ s[2] # m /\ s[1] # a /\ s[2] # a
      BY <2>1, <2>4, CouplingIs DEF StandsAlone
    <3>2. u[j][m] = old[m] /\ u[j][a] = old[a]
      <4> HIDE DEF m, a, both, n, old, s
      <4>. QED BY <1>1, <2>2, <3>1
    <3>3. j < n - k + 1 <=> j - 1 < n - k + 1
      BY <1>1, <2>1, <2>4
    <3> HIDE DEF m, a, both
    <3>. QED BY <1>3, <2>1, <3>2, <3>3
  <2>. QED BY <2>3, <2>4
<1>4. n \in T
  <2>1. n \in 0 .. n
    BY <1>1
  <2> HIDE DEF T, n
  <2>. QED BY <1>1, <1>2, <1>3, <2>1, UptoInduction
<1>5. ~(n < n - k + 1)
  BY <1>1
<1> HIDE DEF both
<1>6. u[n][m] = both[1] /\ u[n][a] = both[2]
  BY <1>4, <1>5
<1>. QED BY <1>6 DEF both

LEMMA UncoupledWasCoupled ==
  ASSUME NEW m \in Int, NEW a \in Int, Abs(a) < 2 * Abs(m)
  PROVE  Coupled(Uncoupled(m, a)[1], Uncoupled(m, a)[2]) = <<m, a>>
<1>1. m # NULL /\ a # NULL /\ m # 0
  BY CouplingsAssumption DEF Abs
<1>2. CASE m > 0 /\ a > 0
  <2>1. Uncoupled(m, a) = <<m, m - a>>
    BY <1>1, <1>2 DEF Uncoupled
  <2>2. Coupled(m, m - a) = <<m, a>>
    BY <1>2 DEF Coupled, Abs
  <2>. QED BY <2>1, <2>2
<1>3. CASE m > 0 /\ a <= 0
  <2>1. Uncoupled(m, a) = <<m + a, m>>
    BY <1>1, <1>3 DEF Uncoupled
  <2>2. Coupled(m + a, m) = <<m, a>>
    BY <1>3 DEF Coupled, Abs
  <2>. QED BY <2>1, <2>2
<1>4. CASE m <= 0 /\ a > 0
  <2>1. Uncoupled(m, a) = <<m, m + a>>
    BY <1>1, <1>4 DEF Uncoupled
  <2>2. Coupled(m, m + a) = <<m, a>>
    BY <1>1, <1>4 DEF Coupled, Abs
  <2>. QED BY <2>1, <2>2
<1>5. CASE m <= 0 /\ a <= 0
  <2>1. Uncoupled(m, a) = <<m - a, m>>
    BY <1>1, <1>5 DEF Uncoupled
  <2>2. Coupled(m - a, m) = <<m, a>>
    BY <1>1, <1>5 DEF Coupled, Abs
  <2>. QED BY <2>1, <2>2
<1>. QED BY <1>2, <1>3, <1>4, <1>5

LEMMA HeardIsAsCoded ==
  ASSUME NEW c \in Couplings
  PROVE  HeardAsCoded(c, Heard(c))
<1> DEFINE n == Len(c.steps)
<1>1. PICK z : SilentSteps(z, c)
  BY SilentIs
<1>2. PICK u : HeardSteps(u, c)
  BY HeardIs
<1>3. ASSUME NEW ch \in Upto(c.channels) PROVE Heard(c)[ch] # NULL
  <2>1. Heard(c)[ch] = IF ch \in c.zero THEN 0 ELSE u[n][ch]
    BY <1>2 DEF HeardSteps
  <2>2. ch \notin c.zero => u[n][ch] # NULL
    BY <1>1, <1>2, LeftOversAreSilent
  <2>. QED BY <2>1, <2>2, CouplingsAssumption
<1>4. ASSUME NEW k \in DOMAIN c.steps, StandsAlone(c, k), {c.steps[k][1], c.steps[k][2]} \cap c.zero = {},
             Abs(c.sample[c.steps[k][2]]) < 2 * Abs(c.sample[c.steps[k][1]])
      PROVE  Coupled(Heard(c)[c.steps[k][1]], Heard(c)[c.steps[k][2]]) =
               <<c.sample[c.steps[k][1]], c.sample[c.steps[k][2]]>>
  <2> DEFINE m == c.steps[k][1]
             a == c.steps[k][2]
  <2>1. k \in 1 .. n /\ m \in Upto(c.channels) /\ a \in Upto(c.channels) /\ m \notin c.zero /\ a \notin c.zero
    BY <1>4, CouplingIs
  <2>2. Heard(c)[m] = u[n][m] /\ Heard(c)[a] = u[n][a]
    BY <1>2, <2>1 DEF HeardSteps
  <2>3. u[n][m] = Uncoupled(c.sample[m], c.sample[a])[1] /\ u[n][a] = Uncoupled(c.sample[m], c.sample[a])[2]
    BY <1>2, <1>4, <2>1, UndoneOnce
  <2>4. c.sample[m] \in Int /\ c.sample[a] \in Int
    BY <2>1, CouplingIs
  <2>5. Coupled(Uncoupled(c.sample[m], c.sample[a])[1], Uncoupled(c.sample[m], c.sample[a])[2]) =
          <<c.sample[m], c.sample[a]>>
    <3> DEFINE x == c.sample[m]
               y == c.sample[a]
    <3>1. x \in Int /\ y \in Int /\ Abs(y) < 2 * Abs(x)
      BY <1>4, <2>4
    <3> HIDE DEF x, y
    <3>2. Coupled(Uncoupled(x, y)[1], Uncoupled(x, y)[2]) = <<x, y>>
      BY <3>1, UncoupledWasCoupled
    <3>. QED BY <3>2 DEF x, y
  <2>. QED BY <2>2, <2>3, <2>5, Zenon
<1>. QED BY <1>3, <1>4 DEF HeardAsCoded

-----------------------------------------------------------------------------
HeardRight == Of("uncouple") => HeardAsCoded(result.args, result.value)

LEMMA HeardIsRight == CouplingIsUndone <=> HeardRight
  BY DEF CouplingIsUndone, HeardRight

LEMMA UncouplesAsCoded ==
  ASSUME uncouple
  PROVE  HeardRight'
<1>1. PICK c \in Couplings : Returns("uncouple", c, Heard(c))
  BY DEF uncouple
<1>2. result'.args = c /\ result'.value = Heard(c)
  BY <1>1, ReturnIs
<1>3. HeardAsCoded(c, Heard(c))
  BY HeardIsAsCoded
<1>. QED BY <1>2, <1>3 DEF HeardRight

LEMMA HeardNext ==
  ASSUME HeardRight, [SpectrumNext]_<<signal, result>>
  PROVE  HeardRight'
<1>1. CASE SpectrumNext
  <2>1. CASE uncouple
    BY <2>1, UncouplesAsCoded
  <2>2. CASE do_floor \/ decode_residue
    <3>1. ~Of("uncouple")'
      BY <2>2 DEF do_floor, decode_residue, Returns, Of
    <3>. QED BY <3>1 DEF HeardRight
  <2>. QED BY <1>1, <2>1, <2>2 DEF SpectrumNext
<1>2. CASE UNCHANGED <<signal, result>>
  BY <1>2 DEF HeardRight, Of
<1>. QED BY <1>1, <1>2

\* However many channels there are and however they are coupled: nothing that an
\* earlier block left in a channel that is not decoded is heard in any, and two
\* channels that are coupled with each other only come out as the samples that an
\* encoder makes that magnitude and angle of.
THEOREM UncouplesWhatWasCoupled == SpectrumSpec => []CouplingIsUndone
<1>1. SpectrumInit => HeardRight
  BY DEF SpectrumInit, HeardRight, Of
<1>2. HeardRight /\ [SpectrumNext]_<<signal, result>> => HeardRight'
  BY HeardNext
<1>. QED BY <1>1, <1>2, HeardIsRight, PTL DEF SpectrumSpec

-----------------------------------------------------------------------------
(***************************************************************************)
(* The floor: heights.                                                     *)
(***************************************************************************)
LEMMA FloorIs ==
  ASSUME NEW g \in Floors
  PROVE  LET n == Cardinality(DOMAIN g.X)
         IN  /\ n \in Nat /\ n >= 2 /\ Points(g) = 0 .. (n - 1)
             /\ g.X \in [0 .. (n - 1) -> Nat]
             /\ g.X[0] = 0 /\ \A i \in 2 .. (n - 1) : g.X[i] < g.X[1] /\ g.X[i] < g.n2
             /\ \A i, j \in 0 .. (n - 1) : i # j => g.X[i] # g.X[j]
             /\ g.n2 \in Nat \ {0} /\ g.multiplier \in Nat
             /\ g.range \in Nat \ {0} /\ g.y \in [0 .. (n - 1) -> 0 .. (g.range - 1)]
<1>1. Upto(Cardinality(DOMAIN g.X)) = 0 .. (Cardinality(DOMAIN g.X) - 1) /\ Upto(g.range) = 0 .. (g.range - 1)
  BY DEF Upto
<1> DEFINE n == Cardinality(DOMAIN g.X)
<1>2. /\ n \in Nat /\ n >= 2 /\ g.X \in [0 .. (n - 1) -> Nat]
      /\ g.X[0] = 0 /\ \A i \in 2 .. (n - 1) : g.X[i] < g.X[1] /\ g.X[i] < g.n2
      /\ \A i, j \in 0 .. (n - 1) : i # j => g.X[i] # g.X[j]
      /\ g.n2 \in Nat \ {0} /\ g.multiplier \in Nat
      /\ g.range \in Nat /\ g.y \in [0 .. (n - 1) -> 0 .. (g.range - 1)]
  BY <1>1, FloorsAssumption
<1>3. Points(g) = 0 .. (n - 1)
  BY <1>1 DEF Points
<1>4. g.range # 0
  <2>1. g.y[0] \in 0 .. (g.range - 1)
    <3> HIDE DEF n
    <3>. QED BY <1>2
  <2>. QED BY <2>1
<1>. QED BY <1>2, <1>3, <1>4

LEMMA LeastOfTwo ==
  ASSUME NEW a \in Int, NEW b \in Int
  PROVE  Min({a, b}) = IF a <= b THEN a ELSE b
<1>1. IsFiniteSet({a, b})
  <2>1. IsFiniteSet({a}) /\ {a, b} = {a} \cup {b}
    BY FS_Singleton
  <2> HIDE DEF Min
  <2>. QED BY <2>1, FS_AddElement
<1>2. Min({a, b}) \in {a, b} /\ \A y \in {a, b} : Min({a, b}) <= y
  BY <1>1, MinFound
<1>. QED BY <1>2

\* The room is twice what there is on the nearer side.
MovedTo(range, pred, val) ==
  LET highroom == range - pred
      room == IF highroom <= pred THEN 2 * highroom ELSE 2 * pred
  IN  IF val = 0 THEN pred
      ELSE IF val >= room THEN (IF highroom > pred THEN val ELSE range - val - 1)
      ELSE IF val % 2 = 1 THEN pred - (val + 1) \div 2 ELSE pred + val \div 2

LEMMA MovedIs ==
  ASSUME NEW range \in Nat, NEW pred \in 0 .. (range - 1), NEW val \in 0 .. (range - 1)
  PROVE  Moved(range, pred, val) = MovedTo(range, pred, val)
<1> DEFINE highroom == range - pred
           room == 2 * Min({highroom, pred})
<1>1. room = IF highroom <= pred THEN 2 * highroom ELSE 2 * pred
  BY LeastOfTwo
<1>2. room \in Int /\ highroom \in Int /\ val \in Nat /\ pred \in Nat
  BY <1>1
<1>3. val % 2 = 0 \/ val % 2 = 1
  BY <1>2
<1>4. val - pred + pred = val /\ pred - val + highroom - 1 = range - val - 1
  OBVIOUS
<1>5. Moved(range, pred, val) =
        CASE val = 0 -> pred
          [] val > 0 /\ val >= room /\ highroom > pred -> val - pred + pred
          [] val > 0 /\ val >= room /\ highroom <= pred -> pred - val + highroom - 1
          [] val > 0 /\ val < room /\ val % 2 = 1 -> pred - (val + 1) \div 2
          [] val > 0 /\ val < room /\ val % 2 = 0 -> pred + val \div 2
  BY Zenon DEF Moved, DownFromTop
<1> HIDE DEF room, highroom
<1>6. CASE val = 0
  BY <1>1, <1>2, <1>5, <1>6 DEF MovedTo, highroom
<1>7. CASE val > 0 /\ val >= room /\ highroom > pred
  <2>1. Moved(range, pred, val) = val
    BY <1>2, <1>4, <1>5, <1>7
  <2>. QED BY <1>1, <1>2, <1>7, <2>1 DEF MovedTo, highroom
<1>8. CASE val > 0 /\ val >= room /\ ~(highroom > pred)
  <2>1. Moved(range, pred, val) = pred - val + highroom - 1
    BY <1>2, <1>5, <1>8
  <2>. QED BY <1>1, <1>2, <1>4, <1>8, <2>1 DEF MovedTo, highroom
<1>9. CASE val > 0 /\ ~(val >= room)
  <2>1. Moved(range, pred, val) = IF val % 2 = 1 THEN pred - (val + 1) \div 2 ELSE pred + val \div 2
    BY <1>2, <1>3, <1>5, <1>9
  <2>. QED BY <1>1, <1>2, <1>9, <2>1 DEF MovedTo, highroom
<1>. QED BY <1>2, <1>6, <1>7, <1>8, <1>9

LEMMA HalfIs ==
  \A v \in Nat : /\ v \div 2 \in Nat /\ (v + 1) \div 2 \in Nat
                 /\ v % 2 = 1 => v + 1 = 2 * ((v + 1) \div 2)
                 /\ v % 2 # 1 => v = 2 * (v \div 2)
                 /\ (2 * v) % 2 = 0 /\ (2 * v) \div 2 = v
                 /\ (2 * v + 1) % 2 = 1 /\ (2 * v + 2) \div 2 = v + 1
OBVIOUS

LEMMA MovedStaysInside ==
  ASSUME NEW range \in Nat, NEW pred \in 0 .. (range - 1), NEW val \in 0 .. (range - 1)
  PROVE  Moved(range, pred, val) \in 0 .. (range - 1)
<1> DEFINE half == val \div 2
           upper == (val + 1) \div 2
<1>1. /\ half \in Nat /\ upper \in Nat
      /\ val % 2 = 1 => val + 1 = 2 * upper
      /\ val % 2 # 1 => val = 2 * half
  BY HalfIs
<1>2. MovedTo(range, pred, val) =
        LET highroom == range - pred
            room == IF highroom <= pred THEN 2 * highroom ELSE 2 * pred
        IN  IF val = 0 THEN pred
            ELSE IF val >= room THEN (IF highroom > pred THEN val ELSE range - val - 1)
            ELSE IF val % 2 = 1 THEN pred - upper ELSE pred + half
  BY DEF MovedTo
<1> HIDE DEF half, upper
<1>3. MovedTo(range, pred, val) \in 0 .. (range - 1)
  BY <1>1, <1>2
<1>. QED BY <1>3, MovedIs

LEMMA MovedReaches ==
  ASSUME NEW range \in Nat, NEW pred \in 0 .. (range - 1), NEW y \in 0 .. (range - 1)
  PROVE  \E val \in 0 .. (range - 1) : y = Moved(range, pred, val)
<1> DEFINE highroom == range - pred
           room == IF highroom <= pred THEN 2 * highroom ELSE 2 * pred
           up == y - pred
           down == pred - y - 1
<1>1. CASE y = pred
  <2>1. 0 \in 0 .. (range - 1) /\ MovedTo(range, pred, 0) = pred
    BY DEF MovedTo
  <2>. QED BY <1>1, <2>1, MovedIs
<1>2. CASE y > pred /\ 2 * up < room
  <2> DEFINE val == 2 * up
  <2>1. up \in Nat /\ val \in 0 .. (range - 1) /\ val # 0 /\ ~(val >= room)
    BY <1>2
  <2>2. val % 2 = 0 /\ val \div 2 = up
    BY <2>1, HalfIs
  <2>3. MovedTo(range, pred, val) = pred + val \div 2
    <3> HIDE DEF val, up
    <3>. QED BY <2>1, <2>2 DEF MovedTo
  <2>4. pred + up = y
    OBVIOUS
  <2> HIDE DEF val, up
  <2>. QED BY <2>1, <2>2, <2>3, <2>4, MovedIs
<1>3. CASE y < pred /\ 2 * down + 1 < room
  <2> DEFINE val == 2 * down + 1
  <2>1. down \in Nat /\ val \in 0 .. (range - 1) /\ val # 0 /\ ~(val >= room) /\ val + 1 = 2 * down + 2
    BY <1>3
  <2>2. val % 2 = 1 /\ (val + 1) \div 2 = down + 1
    BY <2>1, HalfIs
  <2>3. MovedTo(range, pred, val) = pred - (val + 1) \div 2
    <3> HIDE DEF val, down
    <3>. QED BY <2>1, <2>2 DEF MovedTo
  <2>4. pred - (down + 1) = y
    OBVIOUS
  <2> HIDE DEF val, down
  <2>. QED BY <2>1, <2>2, <2>3, <2>4, MovedIs
<1>4. CASE y >= room /\ highroom > pred /\ y # pred
  <2>1. y # 0 /\ MovedTo(range, pred, y) = y
    BY <1>4 DEF MovedTo
  <2>. QED BY <2>1, MovedIs
<1>5. CASE range - y - 1 >= room /\ ~(highroom > pred) /\ y # pred
  <2> DEFINE val == range - y - 1
  <2>1. val \in 0 .. (range - 1) /\ val # 0 /\ range - val - 1 = y
    BY <1>5
  <2>2. MovedTo(range, pred, val) = range - val - 1
    <3> HIDE DEF val
    <3>. QED BY <1>5, <2>1 DEF MovedTo, val
  <2> HIDE DEF val
  <2>. QED BY <2>1, <2>2, MovedIs
<1>6. \/ y = pred \/ (y > pred /\ 2 * up < room) \/ (y < pred /\ 2 * down + 1 < room)
      \/ (y >= room /\ highroom > pred /\ y # pred) \/ (range - y - 1 >= room /\ ~(highroom > pred) /\ y # pred)
  OBVIOUS
<1>. QED BY <1>1, <1>2, <1>3, <1>4, <1>5, <1>6

LEMMA MovedIsOnto ==
  ASSUME NEW range \in Nat, NEW pred \in 0 .. (range - 1)
  PROVE  {Moved(range, pred, val) : val \in 0 .. (range - 1)} = 0 .. (range - 1)
BY MovedStaysInside, MovedReaches

-----------------------------------------------------------------------------
\* The part t of a steps of a distance d, rounded down.
LEMMA PartOfDistance ==
  ASSUME NEW d \in Nat, NEW a \in Nat \ {0}, NEW t \in 0 .. a
  PROVE  (d * t) \div a \in 0 .. d
<1> DEFINE e == d * t
           k == e \div a
<1>1. e \in Nat /\ e <= d * a
  <2>1. d * a = d * t + d * (a - t) /\ d * t \in Nat /\ d * (a - t) \in Nat /\ d * a \in Nat
    <3>1. a - t \in Nat /\ t \in Nat /\ a = t + (a - t)
      OBVIOUS
    <3>2. d * (t + (a - t)) = d * t + d * (a - t)
      BY <3>1
    <3>3. d * t \in Nat /\ d * (a - t) \in Nat
      BY <3>1
    <3>. QED BY <3>1, <3>2, <3>3
  <2>. QED BY <2>1
<1>2. k \in Nat /\ k * a <= e
  <2>1. \A p \in Nat, b \in Nat \ {0} : p \div b \in Nat /\ b * (p \div b) <= p /\ (p \div b) * b = b * (p \div b)
    OBVIOUS
  <2> HIDE DEF e
  <2>. QED BY <1>1, <2>1
<1> HIDE DEF e, k
<1>3. k <= d
  <2>1. SUFFICES ASSUME k >= d + 1 PROVE FALSE
    BY <1>2
  <2>2. k * a = (d + 1) * a + (k - (d + 1)) * a /\ (d + 1) * a = d * a + a /\ (k - (d + 1)) * a \in Nat
    <3>1. k - (d + 1) \in Nat /\ k = (d + 1) + (k - (d + 1))
      BY <1>2, <2>1
    <3>2. \A p \in Nat, q \in Nat : (p + q) * a = p * a + q * a /\ q * a \in Nat
      OBVIOUS
    <3>. QED BY <3>1, <3>2
  <2>3. d * a \in Nat /\ k * a \in Nat /\ (d + 1) * a \in Nat
    BY <1>2
  <2>4. d * a + a <= e
    BY <1>1, <1>2, <2>2, <2>3
  <2>. QED BY <1>1, <2>3, <2>4
<1>. QED BY <1>2, <1>3 DEF e, k

LEMMA PredictedBetween ==
  ASSUME NEW x0 \in Nat, NEW x1 \in Nat, NEW x \in Nat, x0 <= x, x <= x1, x0 < x1,
         NEW y0 \in Int, NEW y1 \in Int
  PROVE  /\ predict_point(x, x0, x1, y0, y1) \in Int
         /\ y0 <= y1 => predict_point(x, x0, x1, y0, y1) \in y0 .. y1
         /\ y1 <= y0 => predict_point(x, x0, x1, y0, y1) \in y1 .. y0
<1> DEFINE d == Abs(y1 - y0)
           a == x1 - x0
           t == x - x0
           off == (d * t) \div a
<1>1. d \in Nat /\ a \in Nat \ {0} /\ t \in 0 .. a /\ (y1 < y0 => y1 = y0 - d) /\ (~(y1 < y0) => y1 = y0 + d)
  BY DEF Abs
<1>2. off \in 0 .. d
  <2> HIDE DEF d, a, t
  <2>. QED BY <1>1, PartOfDistance
<1>3. predict_point(x, x0, x1, y0, y1) = IF y1 < y0 THEN y0 - off ELSE y0 + off
  BY DEF predict_point
<1> HIDE DEF d, a, t, off
<1>. QED BY <1>1, <1>2, <1>3

LEMMA PredictedAtStart ==
  \A x0, x1 \in Nat, y0, y1 \in Int : x0 < x1 => predict_point(x0, x0, x1, y0, y1) = y0
<1> SUFFICES ASSUME NEW x0 \in Nat, NEW x1 \in Nat, NEW y0 \in Int, NEW y1 \in Int, x0 < x1
             PROVE  predict_point(x0, x0, x1, y0, y1) = y0
  OBVIOUS
<1> DEFINE d == Abs(y1 - y0)
           a == x1 - x0
<1>1. d \in Nat /\ a \in Nat \ {0} /\ x0 - x0 = 0
  BY DEF Abs
<1>2. (d * 0) \div a = 0
  <2>1. \A b \in Nat \ {0} : 0 \div b = 0
    OBVIOUS
  <2> HIDE DEF d, a
  <2>2. d * 0 = 0
    BY <1>1
  <2>. QED BY <1>1, <2>1, <2>2
<1>3. predict_point(x0, x0, x1, y0, y1) = IF y1 < y0 THEN y0 - (d * 0) \div a ELSE y0 + (d * 0) \div a
  BY <1>1 DEF predict_point
<1> HIDE DEF d, a
<1>. QED BY <1>2, <1>3

\* Among finitely many there is one that no other is beyond.
LEMMA GreatestOf ==
  ASSUME NEW S, IsFiniteSet(S), S # {}, NEW f, \A k \in S : f[k] \in Int
  PROVE  \E i \in S : \A k \in S : f[k] <= f[i]
<1> DEFINE fun == [k \in S |-> f[k]]
           T == {f[k] : k \in S}
<1>1. fun \in Surjection(S, T)
  BY DEF Surjection
<1>2. IsFiniteSet(T)
  <2> HIDE DEF fun, T
  <2>. QED BY <1>1, FS_Surjection
<1>3. T \subseteq Int /\ T # {}
  OBVIOUS
<1>4. PICK m \in T : \A y \in T : y <= m
  <2> HIDE DEF T
  <2>. QED BY <1>2, <1>3, MaxExists DEF Numbers
<1>. QED BY <1>4

LEMMA LeastOf ==
  ASSUME NEW S, IsFiniteSet(S), S # {}, NEW f, \A k \in S : f[k] \in Int
  PROVE  \E i \in S : \A k \in S : f[i] <= f[k]
<1> DEFINE m == [k \in S |-> -f[k]]
<1>1. \A k \in S : m[k] \in Int /\ m[k] = -f[k]
  OBVIOUS
<1> HIDE DEF m
<1>2. PICK i \in S : \A k \in S : m[k] <= m[i]
  BY <1>1, GreatestOf
<1>3. ASSUME NEW k \in S PROVE f[i] <= f[k]
  <2>1. m[k] <= m[i] /\ m[k] = -f[k] /\ m[i] = -f[i] /\ f[i] \in Int /\ f[k] \in Int
    BY <1>1, <1>2
  <2>. QED BY <2>1
<1>. QED BY <1>3

LEMMA NeighborsAre ==
  ASSUME NEW g \in Floors, NEW j \in 2 .. (Cardinality(DOMAIN g.X) - 1)
  PROVE  /\ Low(g, j) \in 0 .. (j - 1) /\ g.X[Low(g, j)] < g.X[j]
         /\ High(g, j) \in 0 .. (j - 1) /\ g.X[j] < g.X[High(g, j)]
<1> DEFINE n == Cardinality(DOMAIN g.X)
           X == g.X
<1>1. n \in Nat /\ \A k \in 0 .. (n - 1) : X[k] \in Nat
  BY FloorIs
<1>2. X[0] < X[j] /\ X[j] < X[1]
  <2>1. X[0] = 0 /\ X[j] # X[0] /\ X[j] < X[1] /\ X[j] \in Nat
    <3>1. j \in 0 .. (n - 1) /\ 0 \in 0 .. (n - 1) /\ j # 0
      BY <1>1
    <3>. QED BY <3>1, FloorIs
  <2>. QED BY <2>1
<1>3. Upto(j) = 0 .. (j - 1) /\ IsFiniteSet(0 .. (j - 1)) /\ \A k \in 0 .. (j - 1) : X[k] \in Int
  <2> HIDE DEF X, n
  <2>1. j \in 2 .. (n - 1)
    BY DEF n
  <2>2. \A k \in 0 .. (j - 1) : X[k] \in Int
    BY <1>1, <2>1
  <2>3. IsFiniteSet(0 .. (j - 1))
    BY <2>1, FS_Interval
  <2>. QED BY <2>2, <2>3 DEF Upto
<1> HIDE DEF X, n
<1>4. X[Low(g, j)] < X[j] /\ Low(g, j) \in 0 .. (j - 1)
  <2> DEFINE S == {i \in 0 .. (j - 1) : X[i] < X[j]}
             P(i) == /\ i \in Upto(j) /\ X[i] < X[j]
                     /\ \A k \in Upto(j) : X[k] < X[j] => X[k] <= X[i]
  <2>1. S \in SUBSET (0 .. (j - 1)) /\ S # {}
    <3>1. 0 \in S
      BY <1>2
    <3>. QED BY <3>1
  <2>2. IsFiniteSet(S)
    <3> HIDE DEF S
    <3>. QED BY <1>3, <2>1, FS_Subset
  <2>3. PICK i \in S : \A k \in S : X[k] <= X[i]
    <3>1. \A k \in S : X[k] \in Int
      BY <1>3
    <3> HIDE DEF S
    <3>. QED BY <2>1, <2>2, <3>1, GreatestOf
  <2>4. P(i)
    BY <1>3, <2>3
  <2>5. Low(g, j) = CHOOSE k : P(k)
    BY DEF Low, X
  <2>6. P(CHOOSE k : P(k))
    <3> HIDE DEF P
    <3>. QED BY <2>4
  <2>. QED BY <1>3, <2>5, <2>6
<1>5. X[j] < X[High(g, j)] /\ High(g, j) \in 0 .. (j - 1)
  <2> DEFINE S == {i \in 0 .. (j - 1) : X[i] > X[j]}
             P(i) == /\ i \in Upto(j) /\ X[i] > X[j]
                     /\ \A k \in Upto(j) : X[k] > X[j] => X[k] >= X[i]
  <2>1. S \in SUBSET (0 .. (j - 1)) /\ S # {}
    <3>1. 1 \in S
      BY <1>1, <1>2, <1>3
    <3>. QED BY <3>1
  <2>2. IsFiniteSet(S)
    <3> HIDE DEF S
    <3>. QED BY <1>3, <2>1, FS_Subset
  <2>3. PICK i \in S : \A k \in S : X[i] <= X[k]
    <3>1. \A k \in S : X[k] \in Int
      BY <1>3
    <3> HIDE DEF S
    <3>. QED BY <2>1, <2>2, <3>1, LeastOf
  <2>4. P(i)
    <3>1. i \in 0 .. (j - 1) /\ X[i] > X[j] /\ X[i] \in Int
      BY <1>3
    <3>2. \A k \in 0 .. (j - 1) : X[k] > X[j] => X[k] >= X[i]
      BY <1>3, <2>3, <3>1
    <3>. QED BY <1>3, <3>1, <3>2
  <2>5. High(g, j) = CHOOSE k : P(k)
    BY DEF High, X
  <2>6. P(CHOOSE k : P(k))
    <3> HIDE DEF P
    <3>. QED BY <2>4
  <2>7. X[High(g, j)] > X[j] /\ High(g, j) \in 0 .. (j - 1)
    BY <1>3, <2>5, <2>6
  <2>8. X[j] \in Nat /\ X[High(g, j)] \in Int
    BY <1>1, <1>3, <2>7 DEF n
  <2>. QED BY <2>7, <2>8
<1>. QED BY <1>4, <1>5 DEF X

\* AddPoint of Heights.
Pointed(floor, hs, j) ==
  [finalY |-> [hs.finalY EXCEPT ![j] = Moved(floor.range, Prediction(floor, hs.finalY, j), hs.finalY[j])],
   used |-> IF floor.y[j] = 0 THEN hs.used ELSE hs.used \cup {Low(floor, j), High(floor, j), j}]

HeightSteps(z, floor) ==
  LET n == Cardinality(DOMAIN floor.X)
  IN  /\ z \in [0 .. (n - 2) -> [finalY : [0 .. (n - 1) -> 0 .. (floor.range - 1)], used : SUBSET (0 .. (n - 1))]]
      /\ z[0] = [finalY |-> floor.y, used |-> {0, 1}]
      /\ \A k \in 1 .. (n - 2) : z[k] = Pointed(floor, z[k - 1], k + 1)
      /\ Heights(floor) = z[n - 2]

LEMMA PointedStaysInside ==
  ASSUME NEW floor \in Floors, NEW j \in 2 .. (Cardinality(DOMAIN floor.X) - 1),
         NEW hs \in [finalY : [0 .. (Cardinality(DOMAIN floor.X) - 1) -> 0 .. (floor.range - 1)],
                     used : SUBSET (0 .. (Cardinality(DOMAIN floor.X) - 1))]
  PROVE  Pointed(floor, hs, j) \in [finalY : [0 .. (Cardinality(DOMAIN floor.X) - 1) -> 0 .. (floor.range - 1)],
                                    used : SUBSET (0 .. (Cardinality(DOMAIN floor.X) - 1))]
<1> DEFINE n == Cardinality(DOMAIN floor.X)
           low == Low(floor, j)
           high == High(floor, j)
           pred == Prediction(floor, hs.finalY, j)
<1>1. /\ n \in Nat /\ floor.range \in Nat /\ \A k \in 0 .. (n - 1) : floor.X[k] \in Nat
      /\ j \in 0 .. (n - 1)
  <2>1. n \in Nat /\ floor.range \in Nat /\ floor.X \in [0 .. (n - 1) -> Nat]
    BY FloorIs
  <2>2. j \in 2 .. (n - 1)
    OBVIOUS
  <2> HIDE DEF n
  <2>. QED BY <2>1, <2>2
<1>2. low \in 0 .. (n - 1) /\ high \in 0 .. (n - 1) /\ floor.X[low] < floor.X[j] /\ floor.X[j] < floor.X[high]
  BY <1>1, NeighborsAre
<1>3. hs.finalY[low] \in 0 .. (floor.range - 1) /\ hs.finalY[high] \in 0 .. (floor.range - 1)
      /\ hs.finalY[j] \in 0 .. (floor.range - 1)
  BY <1>1, <1>2
<1>4. pred \in 0 .. (floor.range - 1)
  <2> DEFINE y0 == hs.finalY[low]
             y1 == hs.finalY[high]
             x == floor.X[j]
             x0 == floor.X[low]
             x1 == floor.X[high]
  <2>1. x \in Nat /\ x0 \in Nat /\ x1 \in Nat /\ x0 < x /\ x < x1 /\ y0 \in 0 .. (floor.range - 1) /\ y1 \in 0 .. (floor.range - 1)
    BY <1>1, <1>2, <1>3
  <2>2. pred = predict_point(x, x0, x1, y0, y1)
    BY DEF Prediction
  <2> HIDE DEF x, x0, x1, y0, y1, pred
  <2>3. y0 \in Int /\ y1 \in Int /\ x0 <= x /\ x <= x1 /\ x0 < x1
    BY <1>1, <2>1
  <2>4. /\ y0 <= y1 => pred \in y0 .. y1
        /\ y1 <= y0 => pred \in y1 .. y0
    BY <2>1, <2>2, <2>3, PredictedBetween
  <2>. QED BY <1>1, <2>1, <2>3, <2>4
<1>5. Moved(floor.range, pred, hs.finalY[j]) \in 0 .. (floor.range - 1)
  BY <1>1, <1>3, <1>4, MovedStaysInside
<1>6. Pointed(floor, hs, j) =
        [finalY |-> [hs.finalY EXCEPT ![j] = Moved(floor.range, pred, hs.finalY[j])],
         used |-> IF floor.y[j] = 0 THEN hs.used ELSE hs.used \cup {low, high, j}]
  BY DEF Pointed
<1> HIDE DEF pred, low, high, n
<1>7. hs.finalY \in [0 .. (n - 1) -> 0 .. (floor.range - 1)] /\ hs.used \in SUBSET (0 .. (n - 1))
  BY DEF n
<1>. QED BY <1>1, <1>2, <1>5, <1>6, <1>7 DEF n

LEMMA HeightsAre ==
  ASSUME NEW floor \in Floors
  PROVE  \E z : HeightSteps(z, floor)
<1> DEFINE n == Cardinality(DOMAIN floor.X) - 2
           V == [finalY : [0 .. (Cardinality(DOMAIN floor.X) - 1) -> 0 .. (floor.range - 1)], used : SUBSET (0 .. (Cardinality(DOMAIN floor.X) - 1))]
           b == [finalY |-> floor.y, used |-> {0, 1}]
           Step(v, i) == [finalY |-> [v.finalY EXCEPT ![i] = Moved(floor.range, Prediction(floor, v.finalY, i), v.finalY[i])],
                         used |-> IF floor.y[i] = 0 THEN v.used ELSE v.used \cup {Low(floor, i), High(floor, i), i}]
           q == Count(2, Cardinality(Points(floor)) - 1)
           F == [p \in (1 .. n) \X V |-> Step(p[2], q[p[1]])]
           E(g) == g = [s_ \in SUBSET DOMAIN q |->
                          IF s_ = {} THEN b ELSE Step(g[s_ \ {Max(s_)}], q[Max(s_)])]
<1>1. Heights(floor) = (CHOOSE g : E(g))[DOMAIN q]
  BY DEF Heights, FoldLeft, MapThenFoldSet
<1>2. /\ n \in Nat /\ b \in V /\ DOMAIN q = 1 .. n /\ \A k \in 1 .. n : q[k] = k + 1
      /\ \A k \in 1 .. n : \A v \in V : Step(v, q[k]) \in V
  <2> DEFINE c == Cardinality(DOMAIN floor.X)
  <2>1. c \in Nat /\ c >= 2 /\ Cardinality(Points(floor)) = c
    BY FloorIs, UptoIsFinite DEF Points
  <2>2. n \in Nat /\ n = c - 2
    BY <2>1
  <2>3. DOMAIN q = 1 .. n /\ \A k \in 1 .. n : q[k] = k + 1
    <3>1. q = Count(2, c - 1)
      BY <2>1
    <3>2. c - 1 - 2 + 1 = n
      BY <2>1, <2>2
    <3> HIDE DEF c, n, q
    <3>3. DOMAIN q = 1 .. n /\ \A k \in 1 .. n : q[k] = 2 + k - 1
      <4>1. c - 1 \in Int /\ 2 \in Int /\ c - 1 >= 2 - 1
        BY <2>1
      <4>. QED BY <3>1, <3>2, <4>1, CountIs
    <3>. QED BY <2>2, <3>3
  <2>4. b \in V
    <3>1. floor.y \in [0 .. (c - 1) -> 0 .. (floor.range - 1)] /\ {0, 1} \in SUBSET (0 .. (c - 1))
      BY <2>1, FloorIs
    <3>. QED BY <3>1
  <2>5. ASSUME NEW k \in 1 .. n, NEW v \in V PROVE Step(v, q[k]) \in V
    <3>1. q[k] = k + 1 /\ k + 1 \in 2 .. (c - 1)
      <4> HIDE DEF c, n, q
      <4>. QED BY <2>1, <2>2, <2>3
    <3>2. Pointed(floor, v, k + 1) \in V
      BY <3>1, PointedStaysInside
    <3>3. Step(v, k + 1) = Pointed(floor, v, k + 1)
      BY DEF Pointed
    <3>. QED BY <3>1, <3>2, <3>3
  <2> HIDE DEF V, Step, q, b, n
  <2>. QED BY <2>2, <2>3, <2>4, <2>5
<1>3. \A k \in 1 .. n : \A v \in V : F[<<k, v>>] = Step(v, q[k])
  OBVIOUS
<1> HIDE DEF V, b, Step, F, q, n
<1>4. PICK h \in [SUBSET (1 .. n) -> V] : Folding(h, F, b, 1 .. n)
  <2>1. n \in Nat /\ b \in V /\ \A k \in 1 .. n : \A v \in V : F[<<k, v>>] \in V
    BY <1>2, <1>3
  <2> HIDE DEF E
  <2>. QED BY <2>1, FoldingsOfType
<1>5. E(h)
  <2>1. ASSUME NEW t \in SUBSET (1 .. n)
        PROVE  h[t] = IF t = {} THEN b ELSE Step(h[t \ {Max(t)}], q[Max(t)])
    <3>1. t # {} => Max(t) \in 1 .. n
      BY <1>2, UptoHasLast DEF HasLast
    <3>. QED BY <1>2, <1>3, <1>4, <3>1 DEF Folding
  <2>. QED BY <1>2, <1>4, <2>1
<1> DEFINE g == CHOOSE g : E(g)
<1>6. E(g)
  <2> HIDE DEF E
  <2>. QED BY <1>5
<1>7. Chain(g, F, b, V, n)
  <2> HIDE DEF g
  <2>1. ASSUME NEW t \in SUBSET (1 .. n), t # {}, g[t \ {Max(t)}] \in V
        PROVE  g[t] = F[<<Max(t), g[t \ {Max(t)}]>>]
    <3>1. Max(t) \in 1 .. n
      BY <1>2, <2>1, UptoHasLast DEF HasLast
    <3>2. g[t] = Step(g[t \ {Max(t)}], q[Max(t)])
      BY <1>2, <1>6, <2>1
    <3>. QED BY <1>2, <1>3, <2>1, <3>1, <3>2
  <2>2. g[{}] = b
    BY <1>6
  <2> HIDE DEF E
  <2>. QED BY <2>1, <2>2 DEF Chain
<1>8. PICK y \in [0 .. n -> V] : Iterates(y, F, b, n) /\ y[n] = g[1 .. n]
  <2>1. n \in Nat /\ b \in V /\ \A k \in 1 .. n : \A v \in V : F[<<k, v>>] \in V
    BY <1>2, <1>3
  <2> HIDE DEF g
  <2>. QED BY <2>1, <1>7, ChainIterates
<1>9. ASSUME NEW k \in 1 .. n PROVE y[k] = Step(y[k - 1], k + 1)
  <2>1. k - 1 \in 0 .. n /\ y[k - 1] \in V
    BY <1>2
  <2>2. y[k] = F[<<k, y[k - 1]>>] /\ q[k] = k + 1
    BY <1>2, <1>8 DEF Iterates
  <2>. QED BY <1>3, <2>1, <2>2
<1>10. Heights(floor) = y[n]
  BY <1>1, <1>2, <1>8
<1>. QED BY <1>8, <1>9, <1>10 DEF V, b, Step, n, Iterates, HeightSteps, Pointed

HeightsOK(floor, hs) ==
  LET n == Cardinality(DOMAIN floor.X)
  IN  /\ hs.finalY \in [0 .. (n - 1) -> 0 .. (floor.range - 1)]
      /\ hs.used \in SUBSET (0 .. (n - 1)) /\ 0 \in hs.used /\ 1 \in hs.used
      /\ \A j \in 2 .. (n - 1) : floor.y[j] # 0 => j \in hs.used

\* Every height is inside the range, and a point that was moved is used.
LEMMA HeightsAreRight ==
  ASSUME NEW floor \in Floors
  PROVE  HeightsOK(floor, Heights(floor))
<1> DEFINE n == Cardinality(DOMAIN floor.X)
<1>1. n \in Nat /\ n >= 2
  BY FloorIs
<1>2. PICK z : HeightSteps(z, floor)
  BY HeightsAre
<1>3. /\ \A k \in 0 .. (n - 2) : /\ z[k].finalY \in [0 .. (n - 1) -> 0 .. (floor.range - 1)]
                                 /\ z[k].used \in SUBSET (0 .. (n - 1))
      /\ z[0].used = {0, 1} /\ Heights(floor) = z[n - 2]
      /\ \A k \in 1 .. (n - 2) : z[k].used = IF floor.y[k + 1] = 0 THEN z[k - 1].used
                                             ELSE z[k - 1].used \cup {Low(floor, k + 1), High(floor, k + 1), k + 1}
  <2>1. /\ z \in [0 .. (n - 2) -> [finalY : [0 .. (n - 1) -> 0 .. (floor.range - 1)], used : SUBSET (0 .. (n - 1))]]
        /\ z[0] = [finalY |-> floor.y, used |-> {0, 1}] /\ Heights(floor) = z[n - 2]
        /\ \A k \in 1 .. (n - 2) : z[k] = Pointed(floor, z[k - 1], k + 1)
    BY <1>2 DEF HeightSteps
  <2> HIDE DEF n
  <2>2. \A k \in 0 .. (n - 2) : /\ z[k].finalY \in [0 .. (n - 1) -> 0 .. (floor.range - 1)]
                                /\ z[k].used \in SUBSET (0 .. (n - 1))
    BY <2>1
  <2>4. z[0].used = {0, 1}
    BY <2>1
  <2>5. \A k \in 1 .. (n - 2) : z[k].used = IF floor.y[k + 1] = 0 THEN z[k - 1].used
                                ELSE z[k - 1].used \cup {Low(floor, k + 1), High(floor, k + 1), k + 1}
    <3>1. ASSUME NEW k \in 1 .. (n - 2)
          PROVE  z[k].used = IF floor.y[k + 1] = 0 THEN z[k - 1].used
                             ELSE z[k - 1].used \cup {Low(floor, k + 1), High(floor, k + 1), k + 1}
      <4>1. z[k] = Pointed(floor, z[k - 1], k + 1)
        BY <2>1
      <4> DEFINE more == IF floor.y[k + 1] = 0 THEN z[k - 1].used
                         ELSE z[k - 1].used \cup {Low(floor, k + 1), High(floor, k + 1), k + 1}
                 f == [z[k - 1].finalY EXCEPT ![k + 1] =
                         Moved(floor.range, Prediction(floor, z[k - 1].finalY, k + 1), z[k - 1].finalY[k + 1])]
      <4>2. z[k] = [finalY |-> f, used |-> more]
        BY <4>1, Zenon DEF Pointed
      <4> HIDE DEF f, more
      <4>3. z[k].used = more
        BY <4>2
      <4>. QED BY <4>3 DEF more
    <3>. QED BY <3>1, Zenon
  <2>6. Heights(floor) = z[n - 2]
    BY <2>1
  <2>. QED BY <2>2, <2>4, <2>5, <2>6, Zenon
<1> HIDE DEF n
<1> DEFINE T == {k \in 0 .. (n - 2) : /\ 0 \in z[k].used /\ 1 \in z[k].used
                                      /\ \A j \in 2 .. (k + 1) : floor.y[j] # 0 => j \in z[k].used}
<1>4. 0 \in T
  BY <1>1, <1>3
<1>5. ASSUME NEW k \in 1 .. (n - 2), k - 1 \in T PROVE k \in T
  <2>1. z[k - 1].used \subseteq z[k].used /\ (floor.y[k + 1] # 0 => k + 1 \in z[k].used)
    BY <1>3
  <2>2. k \in 0 .. (n - 2) /\ \A j \in 2 .. (k + 1) : j = k + 1 \/ j \in 2 .. (k - 1 + 1)
    BY <1>1
  <2>. QED BY <1>5, <2>1, <2>2
<1> HIDE DEF T
<1>6. n - 2 \in Nat /\ n - 2 \in 0 .. (n - 2) /\ n - 2 + 1 = n - 1
  BY <1>1
<1>7. n - 2 \in T
  BY <1>4, <1>5, <1>6, UptoInduction
<1>. QED BY <1>3, <1>6, <1>7 DEF T, HeightsOK, n

-----------------------------------------------------------------------------
(***************************************************************************)
(* The floor: a line.                                                      *)
(***************************************************************************)
LineSteps(w, x0, y0, x1, y1, n) ==
  LET m == Min({x1, n}) - 1 - x0
  IN  /\ w \in [0 .. m -> [err : Int, y : Int, strokes : Seq(Int \X Int)]]
      /\ w[0] = [err |-> 0, y |-> y0, strokes |-> <<<<x0, y0>>>>]
      /\ \A k \in 1 .. m : w[k] = LineStep(w[k - 1], x0 + k, y1 - y0, x1 - x0)
      /\ draw_line(x0, y0, x1, y1, n) = w[m].strokes

\* C's division, which goes towards zero.
LEMMA OverIs ==
  ASSUME NEW a \in Nat \ {0}, NEW dy \in Int
  PROVE  LET p == Abs(Over(dy, a))
             e == Abs(dy) - p * a
         IN  /\ Over(dy, a) \in Int /\ p \in Nat /\ e \in 0 .. (a - 1) /\ Abs(dy) = p * a + e
             /\ Over(dy, a) = IF dy < 0 THEN -p ELSE p
<1> DEFINE d == Abs(dy)
           q == d \div a
<1>1. d \in Nat
  BY DEF Abs
<1>2. q \in Nat /\ q * a \in Nat /\ d - q * a \in 0 .. (a - 1)
  <2>1. \A e \in Nat, b \in Nat \ {0} : /\ e \div b \in Nat /\ e % b \in 0 .. (b - 1)
                                       /\ e = b * (e \div b) + (e % b)
                                       /\ b * (e \div b) = (e \div b) * b
    OBVIOUS
  <2> HIDE DEF d
  <2>2. /\ q \in Nat /\ d % a \in 0 .. (a - 1) /\ d = a * q + (d % a) /\ a * q = q * a
    BY <1>1, <2>1
  <2> HIDE DEF q
  <2>3. q * a \in Nat
    BY <2>2
  <2>. QED BY <1>1, <2>2, <2>3
<1>3. Over(dy, a) = IF dy < 0 THEN -q ELSE q
  BY DEF Over, Abs
<1> HIDE DEF d, q
<1>4. Abs(Over(dy, a)) = q /\ Over(dy, a) \in Int
  BY <1>2, <1>3 DEF Abs
<1>5. Over(dy, a) = (IF dy < 0 THEN -q ELSE q) /\ d = q * a + (d - q * a)
  BY <1>1, <1>2, <1>3
<1>. QED BY <1>2, <1>4, <1>5 DEF d

LEMMA LineIs ==
  ASSUME NEW x0 \in Nat, NEW x1 \in Nat, x0 < x1, NEW y0 \in Int, NEW y1 \in Int, NEW n2 \in Nat, x0 < n2
  PROVE  \E w : LineSteps(w, x0, y0, x1, y1, n2)
<1> DEFINE adx == x1 - x0
           dy == y1 - y0
           slow == Min({x1, n2}) - 1
<1> DEFINE n == slow - x0
           V == [err : Int, y : Int, strokes : Seq(Int \X Int)]
           b == [err |-> 0, y |-> y0, strokes |-> <<<<x0, y0>>>>]
           Step(v, i) == LineStep(v, i, dy, adx)
           q == Count(x0 + 1, slow)
           F == [p \in (1 .. n) \X V |-> Step(p[2], q[p[1]])]
           E(g) == g = [s_ \in SUBSET DOMAIN q |->
                          IF s_ = {} THEN b ELSE Step(g[s_ \ {Max(s_)}], q[Max(s_)])]
<1>1. draw_line(x0, y0, x1, y1, n2) = ((CHOOSE g : E(g))[DOMAIN q]).strokes
  BY DEF draw_line, FoldLeft, MapThenFoldSet
<1>2. /\ n \in Nat /\ b \in V /\ DOMAIN q = 1 .. n /\ \A k \in 1 .. n : q[k] = x0 + k
      /\ \A k \in 1 .. n : \A v \in V : Step(v, q[k]) \in V
  <2>1. slow \in Int /\ slow - x0 \in Nat
    <3>1. Min({x1, n2}) = IF x1 <= n2 THEN x1 ELSE n2
      BY LeastOfTwo
    <3>. QED BY <3>1
  <2>2. adx \in Nat \ {0} /\ dy \in Int
    OBVIOUS
  <2>4. DOMAIN q = 1 .. n /\ \A k \in 1 .. n : q[k] = x0 + k
    <3> HIDE DEF slow
    <3>1. x0 + 1 \in Int /\ slow \in Int /\ slow >= x0 + 1 - 1 /\ slow - (x0 + 1) + 1 = slow - x0
          /\ \A k \in 1 .. (slow - x0) : x0 + 1 + k - 1 = x0 + k
      BY <2>1
    <3>. QED BY <3>1, CountIs
  <2>5. b \in V
    <3>1. <<<<x0, y0>>>> \in Seq(Int \X Int)
      OBVIOUS
    <3>. QED BY <3>1
  <2>6. ASSUME NEW k \in 1 .. n, NEW v \in V PROVE Step(v, q[k]) \in V
    <3> DEFINE base == Over(dy, adx)
               sy == IF dy < 0 THEN base - 1 ELSE base + 1
               err == v.err + (Abs(dy) - Abs(base) * adx)
               y == v.y + (IF IsDue(err, adx) THEN sy ELSE base)
    <3>1. base \in Int /\ Abs(dy) - Abs(base) * adx \in Int /\ sy \in Int
      <4> HIDE DEF adx, dy
      <4>1. base \in Int /\ Abs(dy) - Abs(base) * adx \in 0 .. (adx - 1)
        BY <2>2, OverIs, Zenon
      <4>2. Abs(dy) - Abs(base) * adx \in Int
        <5>1. \A c, d : c \in 0 .. d => c \in Int
          OBVIOUS
        <5>. QED BY <4>1, <5>1, Zenon
      <4> HIDE DEF base
      <4>. QED BY <4>1, <4>2
    <3>2. q[k] \in Int
      <4> HIDE DEF q, slow
      <4>. QED BY <2>1, <2>4
    <3>3. v.err \in Int /\ v.y \in Int /\ v.strokes \in Seq(Int \X Int)
      OBVIOUS
    <3>4. err \in Int /\ y \in Int
      <4> DEFINE ady == Abs(dy) - Abs(base) * adx
      <4>1. ady \in Int /\ err = v.err + ady
        BY <3>1
      <4> HIDE DEF base, sy, ady
      <4>. QED BY SMTT(20), <3>1, <3>3, <4>1
    <3>5. LineStep(v, q[k], dy, adx) =
            [err |-> IF IsDue(err, adx) THEN err - adx ELSE err, y |-> y, strokes |-> Append(v.strokes, <<q[k], y>>)]
      BY DEF LineStep
    <3> HIDE DEF err, y, base, sy, q, n
    <3>6. Append(v.strokes, <<q[k], y>>) \in Seq(Int \X Int)
      <4>1. <<q[k], y>> \in Int \X Int
        BY <3>2, <3>4
      <4>. QED BY <3>3, <4>1
    <3>7. (IF IsDue(err, adx) THEN err - adx ELSE err) \in Int
      BY <2>2, <3>4
    <3>8. LineStep(v, q[k], dy, adx) \in V
      <4> HIDE DEF adx, dy
      <4>. QED BY <3>4, <3>5, <3>6, <3>7
    <3>. QED BY <3>8
  <2> HIDE DEF V, Step, q, b, slow
  <2>. QED BY <2>1, <2>4, <2>5, <2>6
<1>3. \A k \in 1 .. n : \A v \in V : F[<<k, v>>] = Step(v, q[k])
  OBVIOUS
<1> HIDE DEF V, b, Step, F, q, n, slow, adx, dy
<1>4. PICK h \in [SUBSET (1 .. n) -> V] : Folding(h, F, b, 1 .. n)
  <2>1. n \in Nat /\ b \in V /\ \A k \in 1 .. n : \A v \in V : F[<<k, v>>] \in V
    BY <1>2, <1>3
  <2> HIDE DEF E
  <2>. QED BY <2>1, FoldingsOfType
<1>5. E(h)
  <2>1. ASSUME NEW t \in SUBSET (1 .. n)
        PROVE  h[t] = IF t = {} THEN b ELSE Step(h[t \ {Max(t)}], q[Max(t)])
    <3>1. t # {} => Max(t) \in 1 .. n
      BY <1>2, UptoHasLast DEF HasLast
    <3>. QED BY <1>2, <1>3, <1>4, <3>1 DEF Folding
  <2>. QED BY <1>2, <1>4, <2>1
<1> DEFINE g == CHOOSE g : E(g)
<1>6. E(g)
  <2> HIDE DEF E
  <2>. QED BY <1>5
<1>7. Chain(g, F, b, V, n)
  <2> HIDE DEF g
  <2>1. ASSUME NEW t \in SUBSET (1 .. n), t # {}, g[t \ {Max(t)}] \in V
        PROVE  g[t] = F[<<Max(t), g[t \ {Max(t)}]>>]
    <3>1. Max(t) \in 1 .. n
      BY <1>2, <2>1, UptoHasLast DEF HasLast
    <3>2. g[t] = Step(g[t \ {Max(t)}], q[Max(t)])
      BY <1>2, <1>6, <2>1
    <3>. QED BY <1>2, <1>3, <2>1, <3>1, <3>2
  <2>2. g[{}] = b
    BY <1>6
  <2> HIDE DEF E
  <2>. QED BY <2>1, <2>2 DEF Chain
<1>8. PICK y \in [0 .. n -> V] : Iterates(y, F, b, n) /\ y[n] = g[1 .. n]
  <2>1. n \in Nat /\ b \in V /\ \A k \in 1 .. n : \A v \in V : F[<<k, v>>] \in V
    BY <1>2, <1>3
  <2> HIDE DEF g
  <2>. QED BY <2>1, <1>7, ChainIterates
<1>9. ASSUME NEW k \in 1 .. n PROVE y[k] = Step(y[k - 1], x0 + k)
  <2>1. k - 1 \in 0 .. n /\ y[k - 1] \in V
    BY <1>2
  <2>2. y[k] = F[<<k, y[k - 1]>>] /\ q[k] = x0 + k
    BY <1>2, <1>8 DEF Iterates
  <2>. QED BY <1>3, <2>1, <2>2
<1>10. draw_line(x0, y0, x1, y1, n2) = (y[n]).strokes
  BY <1>1, <1>2, <1>8
<1>. QED BY <1>8, <1>9, <1>10 DEF V, b, Step, n, Iterates, LineSteps, dy, adx, slow

ErrorIs(a, p, e, d, u, r, k) ==
  /\ a \in Nat \ {0} /\ p \in Nat /\ e \in 0 .. (a - 1) /\ d \in Nat /\ d = p * a + e
  /\ u \in Int /\ r \in 0 .. (a - 1) /\ k \in Nat /\ u * a + r = d * k

ErrorWill(a, p, e, d, u, r, k) ==
  /\ r + e >= a => /\ (u + p + 1) * a + ((r + e) - a) = d * (k + 1)
                   /\ (r + e) - a \in 0 .. (a - 1)
  /\ ~(r + e >= a) => /\ (u + p) * a + (r + e) = d * (k + 1)
                      /\ r + e \in 0 .. (a - 1)

LEMMA ErrorGrows ==
  ASSUME NEW a, NEW p, NEW e, NEW d, NEW u, NEW r, NEW k, ErrorIs(a, p, e, d, u, r, k)
  PROVE  ErrorWill(a, p, e, d, u, r, k)
<1>0. /\ a \in Nat \ {0} /\ p \in Nat /\ e \in 0 .. (a - 1) /\ d \in Nat /\ d = p * a + e
      /\ u \in Int /\ r \in 0 .. (a - 1) /\ k \in Nat /\ u * a + r = d * k
  BY Zenon DEF ErrorIs
<1>1. d * (k + 1) = d * k + d /\ d * k \in Int
  BY <1>0
<1>2. (u + p) * a = u * a + p * a /\ (u + p + 1) * a = u * a + p * a + a /\ u * a \in Int /\ p * a \in Int
  <2>1. \A b, c \in Int : (b + c) * a = b * a + c * a /\ b * a \in Int /\ 1 * a = a
    BY <1>0
  <2>2. (u + p + 1) * a = (u + p) * a + 1 * a
    BY <1>0, <2>1
  <2>. QED BY <1>0, <2>1, <2>2
<1> DEFINE ua == u * a
           pa == p * a
           dk == d * k
           v == (u + p) * a
           w == (u + p + 1) * a
           t == d * (k + 1)
<1>3. /\ ua \in Int /\ pa \in Int /\ dk \in Int /\ t = dk + d /\ v = ua + pa /\ w = ua + pa + a
      /\ d = pa + e /\ ua + r = dk
  BY <1>0, <1>1, <1>2
<1> HIDE DEF ua, pa, dk, v, w, t
<1>4. /\ r + e >= a => w + ((r + e) - a) = t /\ (r + e) - a \in 0 .. (a - 1)
      /\ ~(r + e >= a) => v + (r + e) = t /\ r + e \in 0 .. (a - 1)
  BY <1>0, <1>3
<1>. QED BY <1>4, Zenon DEF v, w, t, ErrorWill

\* How far y is from y0 on the way to y1.
Gone(y, y0, y1) == IF y1 < y0 THEN y0 - y ELSE y - y0

\* How far the line has gone, and the error that is left, after k steps.
Going(a, y0, y1, k, y, r) ==
  y \in Int /\ r \in 0 .. (a - 1) /\ Gone(y, y0, y1) * a + r = Abs(y1 - y0) * k

LEMMA GoneFurther ==
  \A y, y0, y1, v \in Int : Gone(IF y1 < y0 THEN y - v ELSE y + v, y0, y1) = Gone(y, y0, y1) + v
BY DEF Gone

LEMMA OnTheWay ==
  ASSUME NEW x0 \in Nat, NEW x1 \in Nat, x0 < x1, NEW y0 \in Int, NEW y1 \in Int, NEW k \in Nat,
         NEW y, NEW r, Going(x1 - x0, y0, y1, k, y, r)
  PROVE  predict_point(x0 + k, x0, x1, y0, y1) = y
<1> DEFINE a == x1 - x0
           u == Gone(y, y0, y1)
           d == Abs(y1 - y0)
<1>0. y \in Int /\ r \in 0 .. (a - 1) /\ u * a + r = d * k
  BY Zenon DEF Going
<1>1. a \in Nat \ {0} /\ u \in Int /\ d \in Nat /\ x0 + k - x0 = k
  BY <1>0 DEF Gone, Abs
<1>2. (d * k) \div a = u
  <2>1. \A b \in Nat \ {0}, c \in Int, s \in Int : 0 <= s /\ s < b => (b * c + s) \div b = c
    OBVIOUS
  <2>2. u * a = a * u
    <3> HIDE DEF u, a
    <3>. QED BY <1>1
  <2>3. d * k = a * u + r
    BY <1>0, <2>2
  <2>4. r \in Int /\ 0 <= r /\ r < a
    BY <1>0, <1>1
  <2> HIDE DEF a, u, d
  <2>5. (a * u + r) \div a = u
    BY <1>1, <2>1, <2>4
  <2>. QED BY <2>3, <2>5
<1>3. predict_point(x0 + k, x0, x1, y0, y1) = IF y1 < y0 THEN y0 - (d * k) \div a ELSE y0 + (d * k) \div a
  BY <1>1 DEF predict_point
<1> HIDE DEF a, d
<1>4. predict_point(x0 + k, x0, x1, y0, y1) = IF y1 < y0 THEN y0 - u ELSE y0 + u
  BY <1>2, <1>3
<1>. QED BY <1>0, <1>4 DEF Gone

\* draw_line after k steps to the right.
Straight(w, x0, y0, x1, y1, k) ==
  /\ Going(x1 - x0, y0, y1, k, w.y, w.err)
  /\ w.strokes \in Seq(Int \X Int) /\ Len(w.strokes) = k + 1
  /\ \A i \in 1 .. (k + 1) : w.strokes[i] = <<x0 + i - 1, predict_point(x0 + i - 1, x0, x1, y0, y1)>>

\* The error and the height after a step on a slope of dy over a.
Slack(dy, a) == Abs(dy) - Abs(Over(dy, a)) * a

NewError(r, slack, a) == IF r + slack >= a THEN (r + slack) - a ELSE r + slack

NewHeight(r, slack, y, dy, a) ==
  y + (IF r + slack >= a THEN (IF dy < 0 THEN Over(dy, a) - 1 ELSE Over(dy, a) + 1) ELSE Over(dy, a))

LEMMA StepGoesOn ==
  ASSUME NEW a \in Nat \ {0}, NEW y0 \in Int, NEW y1 \in Int, NEW k \in Nat,
         NEW y, NEW r, Going(a, y0, y1, k, y, r)
  PROVE  Going(a, y0, y1, k + 1, NewHeight(r, Slack(y1 - y0, a), y, y1 - y0, a), NewError(r, Slack(y1 - y0, a), a))
<1>0. y \in Int /\ r \in 0 .. (a - 1) /\ Gone(y, y0, y1) * a + r = Abs(y1 - y0) * k
  BY Zenon DEF Going
<1> DEFINE dy == y1 - y0
           d == Abs(dy)
           base == Over(dy, a)
           p == Abs(base)
           e == Slack(dy, a)
           sy == IF dy < 0 THEN base - 1 ELSE base + 1
           u == Gone(y, y0, y1)
           up == IF r + e >= a THEN sy ELSE base
           new == IF r + e >= a THEN (r + e) - a ELSE r + e
<1>1. dy \in Int /\ d \in Nat /\ (dy < 0 <=> y1 < y0)
  BY DEF Abs
<1>2. base \in Int /\ p \in Nat /\ e \in 0 .. (a - 1) /\ d = p * a + e /\ base = IF dy < 0 THEN -p ELSE p
  <2> HIDE DEF dy
  <2>. QED BY <1>1, OverIs, Zenon DEF Slack
<1>3. NewError(r, e, a) = new /\ NewHeight(r, e, y, dy, a) = y + up
  <2> HIDE DEF e
  <2>. QED BY Zenon DEF NewError, NewHeight
<1>4. u * a + r = d * k /\ u \in Int
  BY <1>0 DEF Gone
<1>5. ErrorWill(a, p, e, d, u, r, k)
  <2>1. ErrorIs(a, p, e, d, u, r, k)
    <3> HIDE DEF dy, d, base, p, e, u
    <3>. QED BY <1>0, <1>1, <1>2, <1>4, Zenon DEF ErrorIs
  <2>. QED BY <2>1, ErrorGrows
<1> HIDE DEF dy, d, p, e, base
<1>6. \A v \in Int : Gone(IF y1 < y0 THEN y - v ELSE y + v, y0, y1) = u + v
  BY <1>0, GoneFurther
<1> HIDE DEF u
<1>7. CASE r + e >= a
  <2>1. new = (r + e) - a /\ up = sy
    BY <1>7, Zenon
  <2>2. y + sy = IF y1 < y0 THEN y - (p + 1) ELSE y + (p + 1)
    BY <1>0, <1>1, <1>2
  <2> HIDE DEF new, up, sy
  <2>3. p + 1 \in Int /\ u + (p + 1) = u + p + 1
    BY <1>2, <1>4
  <2>4. Gone(y + up, y0, y1) = u + p + 1
    BY <1>6, <2>1, <2>2, <2>3, Zenon
  <2>5. y + up \in Int
    BY <1>0, <1>2, <2>1, <2>2
  <2>6. (u + p + 1) * a + ((r + e) - a) = d * (k + 1) /\ (r + e) - a \in 0 .. (a - 1)
    BY <1>5, <1>7, Zenon DEF ErrorWill
  <2>. QED BY <1>3, <2>1, <2>4, <2>5, <2>6, Zenon DEF d, dy, e, Going
<1>8. CASE ~(r + e >= a)
  <2>1. new = r + e /\ up = base
    BY <1>8, Zenon
  <2>2. y + base = IF y1 < y0 THEN y - p ELSE y + p
    BY <1>0, <1>1, <1>2
  <2> HIDE DEF new, up
  <2>3. p \in Int
    BY <1>2
  <2>4. Gone(y + up, y0, y1) = u + p
    BY <1>6, <2>1, <2>2, <2>3, Zenon
  <2>5. y + up \in Int
    BY <1>0, <1>2, <2>1, <2>2
  <2>6. (u + p) * a + (r + e) = d * (k + 1) /\ r + e \in 0 .. (a - 1)
    BY <1>5, <1>8, Zenon DEF ErrorWill
  <2>. QED BY <1>3, <2>1, <2>4, <2>5, <2>6, Zenon DEF d, dy, e, Going
<1>. QED BY <1>7, <1>8, Zenon

LEMMA LineStepIs ==
  ASSUME NEW w, NEW x, NEW dy, NEW a
  PROVE  LineStep(w, x, dy, a) =
           [err |-> NewError(w.err, Slack(dy, a), a), y |-> NewHeight(w.err, Slack(dy, a), w.y, dy, a),
            strokes |-> Append(w.strokes, <<x, NewHeight(w.err, Slack(dy, a), w.y, dy, a)>>)]
BY DEF LineStep, NewError, NewHeight, Slack, IsDue

LEMMA StaysStraight ==
  ASSUME NEW x0 \in Nat, NEW x1 \in Nat, x0 < x1, NEW y0 \in Int, NEW y1 \in Int, NEW k \in Nat,
         NEW w, Straight(w, x0, y0, x1, y1, k)
  PROVE  Straight(LineStep(w, x0 + k + 1, y1 - y0, x1 - x0), x0, y0, x1, y1, k + 1)
<1> DEFINE a == x1 - x0
           y == NewHeight(w.err, Slack(y1 - y0, a), w.y, y1 - y0, a)
           new == NewError(w.err, Slack(y1 - y0, a), a)
           strokes == Append(w.strokes, <<x0 + k + 1, y>>)
           next == LineStep(w, x0 + k + 1, y1 - y0, a)
<1>1. next = [err |-> new, y |-> y, strokes |-> strokes]
  BY LineStepIs
<1>2. /\ Going(a, y0, y1, k, w.y, w.err) /\ w.strokes \in Seq(Int \X Int) /\ Len(w.strokes) = k + 1
      /\ \A i \in 1 .. (k + 1) : w.strokes[i] = <<x0 + i - 1, predict_point(x0 + i - 1, x0, x1, y0, y1)>>
  BY DEF Straight
<1>3. a \in Nat \ {0}
  OBVIOUS
<1>4. Going(a, y0, y1, k + 1, y, new)
  <2> HIDE DEF a
  <2>. QED BY <1>2, <1>3, StepGoesOn
<1>5. y \in Int
  BY <1>4, Zenon DEF Going
<1> HIDE DEF y, new, next
<1>10. predict_point(x0 + k + 1, x0, x1, y0, y1) = y
  <2>1. k + 1 \in Nat /\ x0 + (k + 1) = x0 + k + 1
    OBVIOUS
  <2>2. predict_point(x0 + (k + 1), x0, x1, y0, y1) = y
    BY <1>4, <2>1, OnTheWay
  <2>. QED BY <2>1, <2>2
<1>11. /\ strokes \in Seq(Int \X Int) /\ Len(strokes) = k + 1 + 1
       /\ \A i \in 1 .. (k + 1) : strokes[i] = w.strokes[i]
       /\ strokes[k + 1 + 1] = <<x0 + k + 1, y>>
  <2> DEFINE pair == <<x0 + k + 1, y>>
             s == w.strokes
  <2>1. pair \in Int \X Int
    BY <1>5
  <2>2. s \in Seq(Int \X Int) /\ Len(s) = k + 1
    BY <1>2
  <2> HIDE DEF pair, s
  <2>3. /\ Append(s, pair) \in Seq(Int \X Int) /\ Len(Append(s, pair)) = k + 1 + 1
        /\ \A i \in 1 .. (k + 1) : Append(s, pair)[i] = s[i]
        /\ Append(s, pair)[k + 1 + 1] = pair
    BY <2>1, <2>2
  <2>. QED BY <2>3 DEF pair, s
<1> HIDE DEF strokes
<1>12. ASSUME NEW i \in 1 .. (k + 1 + 1)
       PROVE  strokes[i] = <<x0 + i - 1, predict_point(x0 + i - 1, x0, x1, y0, y1)>>
  <2>1. CASE i \in 1 .. (k + 1)
    BY <1>2, <1>11, <2>1
  <2>2. CASE i = k + 1 + 1
    <3>1. x0 + i - 1 = x0 + k + 1
      BY <2>2
    <3>. QED BY <1>10, <1>11, <2>2, <3>1
  <2>. QED BY <2>1, <2>2
<1>13. next.err = new /\ next.y = y /\ next.strokes = strokes
  BY <1>1
<1>14. Straight(next, x0, y0, x1, y1, k + 1)
  BY <1>4, <1>11, <1>12, <1>13, Zenon DEF Straight
<1>. QED BY <1>14 DEF next

\* To the right, from a place inside the block.
Forwards(x0, x1, n2) == x0 < x1 /\ x0 < n2

\* One height at every place up to the end of the line or of the block, the one that
\* predict_point gives there.
StraightLine(x0, y0, x1, y1, n2) ==
  LET line == draw_line(x0, y0, x1, y1, n2)
      len == (IF x1 <= n2 THEN x1 ELSE n2) - x0
  IN  /\ line \in Seq(Int \X Int) /\ Len(line) = len
      /\ \A i \in 1 .. len : line[i] = <<x0 + i - 1, predict_point(x0 + i - 1, x0, x1, y0, y1)>>

LEMMA LineIsStraight ==
  \A x0, x1, n2 \in Nat, y0, y1 \in Int : Forwards(x0, x1, n2) => StraightLine(x0, y0, x1, y1, n2)
<1> SUFFICES ASSUME NEW x0 \in Nat, NEW x1 \in Nat, NEW n2 \in Nat, NEW y0 \in Int, NEW y1 \in Int,
                    x0 < x1, x0 < n2
             PROVE  StraightLine(x0, y0, x1, y1, n2)
  BY DEF Forwards
<1> DEFINE m == Min({x1, n2}) - 1 - x0
           line == draw_line(x0, y0, x1, y1, n2)
<1>1. PICK w : LineSteps(w, x0, y0, x1, y1, n2)
  BY LineIs
<1>2. m \in Nat /\ m + 1 = (IF x1 <= n2 THEN x1 ELSE n2) - x0
  <2>1. Min({x1, n2}) = IF x1 <= n2 THEN x1 ELSE n2
    BY LeastOfTwo
  <2>. QED BY <2>1
<1>3. /\ w[0] = [err |-> 0, y |-> y0, strokes |-> <<<<x0, y0>>>>]
      /\ \A k \in 1 .. m : w[k] = LineStep(w[k - 1], x0 + k, y1 - y0, x1 - x0)
      /\ line = w[m].strokes
  BY <1>1 DEF LineSteps
<1> HIDE DEF m, line
<1> DEFINE T == {k \in 0 .. m : Straight(w[k], x0, y0, x1, y1, k)}
<1>4. 0 \in T
  <2>1. w[0].err = 0 /\ w[0].y = y0 /\ w[0].strokes = <<<<x0, y0>>>>
    BY <1>3
  <2>2. Gone(y0, y0, y1) = 0 /\ Abs(y1 - y0) \in Nat
    BY DEF Gone, Abs
  <2>3. Going(x1 - x0, y0, y1, 0, y0, 0)
    <3> DEFINE d == Abs(y1 - y0)
               a == x1 - x0
    <3>1. a \in Int /\ d \in Nat
      BY <2>2
    <3> HIDE DEF d, a
    <3>2. 0 * a + 0 = d * 0
      BY <3>1
    <3>3. 0 \in 0 .. (x1 - x0 - 1)
      OBVIOUS
    <3>. QED BY <2>2, <3>2, <3>3, Zenon DEF d, a, Going
  <2>4. predict_point(x0 + 1 - 1, x0, x1, y0, y1) = y0
    <3>1. x0 + 1 - 1 = x0
      OBVIOUS
    <3>2. predict_point(x0, x0, x1, y0, y1) = y0
      BY PredictedAtStart, Zenon
    <3>. QED BY <3>1, <3>2, Zenon
  <2>5. <<<<x0, y0>>>> \in Seq(Int \X Int) /\ Len(<<<<x0, y0>>>>) = 0 + 1
        /\ \A i \in 1 .. (0 + 1) : i = 1 /\ <<<<x0, y0>>>>[i] = <<x0, y0>>
    OBVIOUS
  <2>6. x0 + 1 - 1 = x0
    OBVIOUS
  <2>7. Straight(w[0], x0, y0, x1, y1, 0)
    BY <2>1, <2>3, <2>4, <2>5, <2>6 DEF Straight
  <2>. QED BY <1>2, <2>7
<1>5. ASSUME NEW k \in 1 .. m, k - 1 \in T PROVE k \in T
  <2>1. k - 1 \in Nat /\ k - 1 + 1 = k /\ x0 + (k - 1) + 1 = x0 + k
    BY <1>2
  <2>2. Straight(w[k - 1], x0, y0, x1, y1, k - 1)
    BY <1>5
  <2>3. Straight(LineStep(w[k - 1], x0 + (k - 1) + 1, y1 - y0, x1 - x0), x0, y0, x1, y1, k - 1 + 1)
    BY <2>1, <2>2, StaysStraight
  <2>4. Straight(w[k], x0, y0, x1, y1, k)
    BY <1>3, <2>1, <2>3
  <2>. QED BY <1>2, <2>4
<1> HIDE DEF T
<1>6. m \in T
  <2>1. m \in 0 .. m
    BY <1>2
  <2>. QED BY <1>2, <1>4, <1>5, <2>1, UptoInduction
<1>7. Straight(w[m], x0, y0, x1, y1, m)
  BY <1>6 DEF T
<1>8. /\ line \in Seq(Int \X Int)
      /\ Len(line) = (IF x1 <= n2 THEN x1 ELSE n2) - x0
      /\ \A i \in 1 .. ((IF x1 <= n2 THEN x1 ELSE n2) - x0) :
           line[i] = <<x0 + i - 1, predict_point(x0 + i - 1, x0, x1, y0, y1)>>
  BY <1>2, <1>3, <1>7 DEF Straight
<1>. QED BY <1>8, Zenon DEF StraightLine, line

-----------------------------------------------------------------------------
(***************************************************************************)
(* The floor: its points in their order.                                   *)
(***************************************************************************)
\* k of m points in their order, all in front of the others.
FirstPoints(f, X, k, m) ==
  /\ f \in [1 .. k -> 1 .. m]
  /\ \A p, q \in 1 .. k : p < q => X[f[p]] < X[f[q]]
  /\ \A i \in 1 .. m : (\E p \in 1 .. k : f[p] = i) \/ (\A p \in 1 .. k : X[f[p]] < X[i])

LEMMA OneMorePoint ==
  ASSUME NEW m \in Nat, NEW X, \A i \in 1 .. m : X[i] \in Int,
         \A i, j \in 1 .. m : i # j => X[i] # X[j],
         NEW k \in 1 .. m, NEW f, FirstPoints(f, X, k - 1, m)
  PROVE  \E e : FirstPoints(e, X, k, m)
<1> DEFINE R == {i \in 1 .. m : \A p \in 1 .. (k - 1) : f[p] # i}
<1>1. f \in [1 .. (k - 1) -> 1 .. m] /\ k - 1 \in Nat
  BY DEF FirstPoints
<1>2. R # {}
  <2>1. SUFFICES ASSUME R = {} PROVE FALSE
    OBVIOUS
  <2>2. f \in Surjection(1 .. (k - 1), 1 .. m)
    BY <1>1, <2>1 DEF Surjection
  <2>3. IsFiniteSet(1 .. (k - 1)) /\ Cardinality(1 .. (k - 1)) = k - 1 /\ Cardinality(1 .. m) = m
    <3>1. Cardinality(1 .. (k - 1)) = (IF 1 > k - 1 THEN 0 ELSE (k - 1) - 1 + 1) /\ IsFiniteSet(1 .. (k - 1))
      BY <1>1, FS_Interval
    <3>2. Cardinality(1 .. m) = (IF 1 > m THEN 0 ELSE m - 1 + 1)
      BY FS_Interval
    <3>. QED BY <1>1, <3>1, <3>2
  <2>4. Cardinality(1 .. m) <= Cardinality(1 .. (k - 1))
    BY <2>2, <2>3, FS_Surjection
  <2>. QED BY <1>1, <2>3, <2>4
<1>3. PICK c \in R : \A i \in R : X[c] <= X[i]
  <2>1. IsFiniteSet(R)
    <3>1. IsFiniteSet(1 .. m) /\ R \in SUBSET (1 .. m)
      BY FS_Interval
    <3>. QED BY <3>1, FS_Subset
  <2>2. \A i \in R : X[i] \in Int
    OBVIOUS
  <2> HIDE DEF R
  <2>. QED BY <1>2, <2>1, <2>2, LeastOf
<1> DEFINE e == [p \in 1 .. k |-> IF p < k THEN f[p] ELSE c]
<1>4. c \in 1 .. m /\ \A p \in 1 .. (k - 1) : X[f[p]] < X[c]
  BY DEF FirstPoints
<1>5. e \in [1 .. k -> 1 .. m] /\ e[k] = c /\ \A p \in 1 .. (k - 1) : e[p] = f[p]
  BY <1>1, <1>4
<1> HIDE DEF e
<1>6. ASSUME NEW p \in 1 .. k, NEW q \in 1 .. k, p < q PROVE X[e[p]] < X[e[q]]
  <2>1. p \in 1 .. (k - 1) /\ (q \in 1 .. (k - 1) \/ q = k)
    BY <1>6
  <2>. QED BY <1>4, <1>5, <1>6, <2>1 DEF FirstPoints
<1>7. ASSUME NEW i \in 1 .. m
      PROVE  (\E p \in 1 .. k : e[p] = i) \/ (\A p \in 1 .. k : X[e[p]] < X[i])
  <2>1. CASE i \notin R
    <3>1. PICK p \in 1 .. (k - 1) : f[p] = i
      BY <2>1
    <3>2. p \in 1 .. k /\ e[p] = i
      BY <1>5, <3>1
    <3>. QED BY <3>2
  <2>2. CASE i = c
    <3>1. k \in 1 .. k /\ e[k] = i
      BY <1>5, <2>2
    <3>. QED BY <3>1
  <2>3. CASE i \in R /\ i # c
    <3>1. X[c] < X[i]
      <4>1. X[c] <= X[i] /\ X[c] # X[i] /\ X[c] \in Int /\ X[i] \in Int
        BY <1>3, <1>4, <2>3
      <4>. QED BY <4>1
    <3>2. ASSUME NEW p \in 1 .. k PROVE X[e[p]] < X[i]
      <4>1. CASE p = k
        BY <1>5, <3>1, <4>1
      <4>2. CASE p # k
        <5>1. p \in 1 .. (k - 1) /\ e[p] = f[p]
          BY <1>5, <4>2
        <5>. QED BY <2>3, <5>1 DEF FirstPoints
      <4>. QED BY <4>1, <4>2
    <3>. QED BY <3>2
  <2>. QED BY <2>1, <2>2, <2>3
<1>8. FirstPoints(e, X, k, m)
  BY <1>5, <1>6, <1>7 DEF FirstPoints
<1>. QED BY <1>8

LEMMA PointsHaveOrder ==
  ASSUME NEW m \in Nat, NEW X, \A i \in 1 .. m : X[i] \in Int,
         \A i, j \in 1 .. m : i # j => X[i] # X[j]
  PROVE  \E f : FirstPoints(f, X, m, m)
<1> DEFINE T == {k \in 0 .. m : \E f : FirstPoints(f, X, k, m)}
<1>1. 0 \in T
  <2> DEFINE f == [p \in 1 .. 0 |-> 1]
  <2>1. f \in [1 .. 0 -> 1 .. m] /\ \A p \in 1 .. 0 : FALSE
    OBVIOUS
  <2>2. FirstPoints(f, X, 0, m)
    BY <2>1 DEF FirstPoints
  <2>. QED BY <2>2
<1>2. ASSUME NEW k \in 1 .. m, k - 1 \in T PROVE k \in T
  BY <1>2, OneMorePoint
<1>3. m \in T
  <2>1. m \in 0 .. m
    OBVIOUS
  <2> HIDE DEF T
  <2>. QED BY <1>1, <1>2, <2>1, UptoInduction
<1>. QED BY <1>3

\* The order has every point but the first, from left to right.
InOrder(order, X, m) ==
  /\ order \in [1 .. m -> 1 .. m]
  /\ \A p, q \in 1 .. m : p < q => X[order[p]] < X[order[q]]
  /\ \A i \in 1 .. m : \E p \in 1 .. m : order[p] = i

LEMMA OrderIs ==
  ASSUME NEW floor \in Floors
  PROVE  InOrder(sorted_order(floor), floor.X, Cardinality(DOMAIN floor.X) - 1)
<1> DEFINE m == Cardinality(DOMAIN floor.X) - 1
           X == floor.X
           Rising(order) == \A p, q \in 1 .. m : p < q => X[order[p]] < X[order[q]]
<1>1. m \in Nat /\ (\A i \in 1 .. m : X[i] \in Int) /\ \A i, j \in 1 .. m : i # j => X[i] # X[j]
  <2>1. /\ m + 1 \in Nat /\ m + 1 >= 2 /\ X \in [0 .. ((m + 1) - 1) -> Nat]
        /\ \A i, j \in 0 .. ((m + 1) - 1) : i # j => X[i] # X[j]
    <3>1. m + 1 = Cardinality(DOMAIN floor.X)
      BY FloorIs
    <3>. QED BY <3>1, FloorIs
  <2>2. m + 1 = Cardinality(DOMAIN floor.X) /\ m \in Nat /\ 1 .. m \subseteq 0 .. ((m + 1) - 1)
    BY FloorIs
  <2> HIDE DEF X, m
  <2>. QED BY <2>1, <2>2
<1> DEFINE order == sorted_order(floor)
<1>2. order \in [1 .. m -> 1 .. m] /\ Rising(order)
  <2>1. \E f \in [1 .. m -> 1 .. m] : Rising(f)
    <3> HIDE DEF m, X
    <3>1. PICK f : FirstPoints(f, X, m, m)
      BY <1>1, PointsHaveOrder
    <3>. QED BY <3>1 DEF FirstPoints
  <2>2. order = CHOOSE f \in [1 .. m -> 1 .. m] : Rising(f)
    BY DEF sorted_order
  <2> HIDE DEF Rising, m, X, order
  <2>. QED BY <2>1, <2>2
<1> HIDE DEF order, X, m
<1>3. order \in Injection(1 .. m, 1 .. m)
  <2>1. ASSUME NEW p \in 1 .. m, NEW q \in 1 .. m, order[p] = order[q] PROVE p = q
    <3>1. ~(p < q) /\ ~(q < p)
      <4>1. order[p] \in 1 .. m /\ X[order[p]] \in Int
        BY <1>1, <1>2
      <4>. QED BY <1>2, <2>1, <4>1
    <3>. QED BY <3>1
  <2>. QED BY <1>2, <2>1 DEF Injection, IsInjective
<1>4. order \in Surjection(1 .. m, 1 .. m)
  <2>1. IsFiniteSet(1 .. m)
    BY <1>1, FS_Interval
  <2>. QED BY <1>3, <2>1, FS_Injection
<1>5. \A i \in 1 .. m : \E p \in 1 .. m : order[p] = i
  BY <1>4 DEF Surjection
<1>. QED BY <1>2, <1>5 DEF InOrder, order, m, X

-----------------------------------------------------------------------------
(***************************************************************************)
(* The floor: its lines one behind the other.                              *)
(***************************************************************************)
OnlyPlace(x0, y0, x1, y1, n2) == draw_line(x0, y0, x1, y1, n2) = <<<<x0, y0>>>>

\* A line that is not drawn forwards inside the block is its first place.
LEMMA LineIsPlace ==
  \A x0, x1, n2 \in Nat, y0, y1 \in Int :
    ~Forwards(x0, x1, n2) => OnlyPlace(x0, y0, x1, y1, n2)
<1> SUFFICES ASSUME NEW x0 \in Nat, NEW x1 \in Nat, NEW n2 \in Nat, NEW y0 \in Int, NEW y1 \in Int,
                    ~(x0 < x1 /\ x0 < n2)
             PROVE  draw_line(x0, y0, x1, y1, n2) = <<<<x0, y0>>>>
  BY DEF Forwards, OnlyPlace
<1> DEFINE adx == x1 - x0
           dy == y1 - y0
           q == Count(x0 + 1, Min({x1, n2}) - 1)
           b == [err |-> 0, y |-> y0, strokes |-> <<<<x0, y0>>>>]
           Step(v, i) == LineStep(v, i, dy, adx)
           E(g) == g = [s_ \in SUBSET DOMAIN q |->
                          IF s_ = {} THEN b ELSE Step(g[s_ \ {Max(s_)}], q[Max(s_)])]
<1>1. draw_line(x0, y0, x1, y1, n2) = ((CHOOSE g : E(g))[DOMAIN q]).strokes
  BY DEF draw_line, FoldLeft, MapThenFoldSet
<1>2. DOMAIN q = {}
  <2>1. Min({x1, n2}) = IF x1 <= n2 THEN x1 ELSE n2
    BY LeastOfTwo
  <2>2. Min({x1, n2}) - 1 - (x0 + 1) + 1 <= 0 /\ Min({x1, n2}) \in Int
    BY <2>1
  <2> DEFINE m == Min({x1, n2}) - 1
  <2>3. DOMAIN q = 1 .. (m - (x0 + 1) + 1) /\ m \in Int /\ m - (x0 + 1) + 1 <= 0
    BY <2>2 DEF Count
  <2> HIDE DEF q, m
  <2>. QED BY <2>3
<1> HIDE DEF q, b, Step
<1>3. E([s \in {{}} |-> b])
  <2> DEFINE w == [s \in {{}} |-> b]
  <2>1. SUBSET DOMAIN q = {{}}
    BY <1>2
  <2>2. w = [s_ \in {{}} |-> IF s_ = {} THEN b ELSE Step(w[s_ \ {Max(s_)}], q[Max(s_)])]
    OBVIOUS
  <2> HIDE DEF w
  <2>3. E(w)
    BY <2>1, <2>2
  <2>. QED BY <2>3 DEF w
<1> DEFINE g == CHOOSE g : E(g)
<1>4. E(g)
  <2> HIDE DEF E
  <2>. QED BY <1>3
<1>5. g[DOMAIN q] = b
  <2> HIDE DEF g
  <2>1. SUBSET DOMAIN q = {{}}
    BY <1>2
  <2>. QED BY <1>2, <1>4, <2>1
<1>6. draw_line(x0, y0, x1, y1, n2) = b.strokes
  BY <1>1, <1>5
<1>. QED BY <1>6 DEF b

LEMMA LineIsDrawn ==
  ASSUME NEW x0 \in Nat, NEW x1 \in Nat, NEW y0 \in Int, NEW y1 \in Int, NEW n2 \in Nat
  PROVE  draw_line(x0, y0, x1, y1, n2) \in Seq(Int \X Int)
<1>1. CASE Forwards(x0, x1, n2)
  <2>1. StraightLine(x0, y0, x1, y1, n2)
    BY <1>1, LineIsStraight
  <2>. QED BY <2>1, Zenon DEF StraightLine
<1>2. CASE ~Forwards(x0, x1, n2)
  <2>1. OnlyPlace(x0, y0, x1, y1, n2)
    BY <1>2, LineIsPlace
  <2>. QED BY <2>1 DEF OnlyPlace
<1>. QED BY <1>1, <1>2

DrawnThere == [lx : Nat, ly : Int, strokes : Seq(Int \X Int)]

FlatBehind(c, n2) == [k \in 1 .. (IF c.lx < n2 THEN n2 - c.lx ELSE 0) |-> <<c.lx + k - 1, c.ly>>]

CurveSteps(z, floor, hs) ==
  LET m == Cardinality(DOMAIN floor.X) - 1
  IN  /\ z \in [0 .. m -> DrawnThere]
      /\ z[0] = [lx |-> 0, ly |-> Scaled(floor, hs, 0), strokes |-> <<>>]
      /\ \A k \in 1 .. m : z[k] = DrawTo(floor, hs, z[k - 1], sorted_order(floor)[k])
      /\ Curve(floor, hs) = z[m].strokes \o FlatBehind(z[m], floor.n2)

LEMMA HeightIsInt ==
  ASSUME NEW floor \in Floors, NEW hs, HeightsOK(floor, hs), NEW j \in 0 .. (Cardinality(DOMAIN floor.X) - 1)
  PROVE  Scaled(floor, hs, j) \in Int
<1>1. hs.finalY[j] \in 0 .. (floor.range - 1)
  BY DEF HeightsOK
<1>2. floor.multiplier \in Nat /\ floor.range \in Nat
  BY FloorIs
<1>3. \A a \in Int, b \in Nat : a * b \in Int
  OBVIOUS
<1>. QED BY <1>1, <1>2, <1>3 DEF Scaled

LEMMA CurveIs ==
  ASSUME NEW floor \in Floors, NEW hs, HeightsOK(floor, hs)
  PROVE  \E z : CurveSteps(z, floor, hs)
<1> DEFINE m == Cardinality(DOMAIN floor.X) - 1
<1>0. /\ m \in Nat /\ InOrder(sorted_order(floor), floor.X, m) /\ floor.X \in [0 .. m -> Nat]
      /\ floor.n2 \in Nat
  BY FloorIs, OrderIs
<1> DEFINE n == m
           V == DrawnThere
           b == [lx |-> 0, ly |-> Scaled(floor, hs, 0), strokes |-> <<>>]
           Step(v, i) == DrawTo(floor, hs, v, i)
           q == sorted_order(floor)
           F == [p \in (1 .. n) \X V |-> Step(p[2], q[p[1]])]
           E(g) == g = [s_ \in SUBSET DOMAIN q |->
                          IF s_ = {} THEN b ELSE Step(g[s_ \ {Max(s_)}], q[Max(s_)])]
<1>1. Curve(floor, hs) = ((CHOOSE g : E(g))[DOMAIN q]).strokes \o FlatBehind((CHOOSE g : E(g))[DOMAIN q], floor.n2)
  BY DEF Curve, FlatBehind, FoldLeft, MapThenFoldSet
<1>2. /\ n \in Nat /\ b \in V /\ DOMAIN q = 1 .. n /\ \A k \in 1 .. n : q[k] = sorted_order(floor)[k]
      /\ \A k \in 1 .. n : \A v \in V : Step(v, q[k]) \in V
  <2>1. n \in Nat /\ DOMAIN q = 1 .. n /\ \A k \in 1 .. n : q[k] \in 1 .. n
    BY <1>0 DEF InOrder
  <2>2. b \in V
    <3>1. Scaled(floor, hs, 0) \in Int
      BY <1>0, HeightIsInt
    <3>. QED BY <3>1 DEF DrawnThere
  <2>3. ASSUME NEW k \in 1 .. n, NEW v \in V PROVE Step(v, q[k]) \in V
    <3> DEFINE j == q[k]
               line == draw_line(v.lx, v.ly, floor.X[j], Scaled(floor, hs, j), floor.n2)
    <3>1. j \in 0 .. m /\ floor.X[j] \in Nat /\ floor.n2 \in Nat
      <4> HIDE DEF q, m
      <4>. QED BY <1>0, <2>1
    <3>2. Scaled(floor, hs, j) \in Int
      BY <3>1, HeightIsInt
    <3>3. v.lx \in Nat /\ v.ly \in Int /\ v.strokes \in Seq(Int \X Int)
      BY DEF DrawnThere
    <3> HIDE DEF j
    <3>4. line \in Seq(Int \X Int)
      BY <3>1, <3>2, <3>3, LineIsDrawn
    <3>5. DrawTo(floor, hs, v, j) =
            IF j \notin hs.used THEN v
            ELSE [lx |-> floor.X[j], ly |-> Scaled(floor, hs, j), strokes |-> v.strokes \o line]
      BY DEF DrawTo
    <3> HIDE DEF line
    <3>6. v.strokes \o line \in Seq(Int \X Int)
      BY <3>3, <3>4
    <3>7. DrawTo(floor, hs, v, j) \in DrawnThere
      BY <3>1, <3>2, <3>5, <3>6 DEF DrawnThere
    <3>. QED BY <3>7 DEF j
  <2>4. \A k \in 1 .. n : q[k] = sorted_order(floor)[k]
    OBVIOUS
  <2> HIDE DEF V, Step, q, b, n
  <2>. QED BY <2>1, <2>2, <2>3, <2>4
<1>3. \A k \in 1 .. n : \A v \in V : F[<<k, v>>] = Step(v, q[k])
  OBVIOUS
<1> HIDE DEF V, b, Step, F, q, n, m
<1>4. PICK h \in [SUBSET (1 .. n) -> V] : Folding(h, F, b, 1 .. n)
  <2>1. n \in Nat /\ b \in V /\ \A k \in 1 .. n : \A v \in V : F[<<k, v>>] \in V
    BY <1>2, <1>3
  <2> HIDE DEF E
  <2>. QED BY <2>1, FoldingsOfType
<1>5. E(h)
  <2>1. ASSUME NEW t \in SUBSET (1 .. n)
        PROVE  h[t] = IF t = {} THEN b ELSE Step(h[t \ {Max(t)}], q[Max(t)])
    <3>1. t # {} => Max(t) \in 1 .. n
      BY <1>2, UptoHasLast DEF HasLast
    <3>. QED BY <1>2, <1>3, <1>4, <3>1 DEF Folding
  <2>. QED BY <1>2, <1>4, <2>1
<1> DEFINE g == CHOOSE g : E(g)
<1>6. E(g)
  <2> HIDE DEF E
  <2>. QED BY <1>5
<1>7. Chain(g, F, b, V, n)
  <2> HIDE DEF g
  <2>1. ASSUME NEW t \in SUBSET (1 .. n), t # {}, g[t \ {Max(t)}] \in V
        PROVE  g[t] = F[<<Max(t), g[t \ {Max(t)}]>>]
    <3>1. Max(t) \in 1 .. n
      BY <1>2, <2>1, UptoHasLast DEF HasLast
    <3>2. g[t] = Step(g[t \ {Max(t)}], q[Max(t)])
      BY <1>2, <1>6, <2>1
    <3>. QED BY <1>2, <1>3, <2>1, <3>1, <3>2
  <2>2. g[{}] = b
    BY <1>6
  <2> HIDE DEF E
  <2>. QED BY <2>1, <2>2 DEF Chain
<1>8. PICK y \in [0 .. n -> V] : Iterates(y, F, b, n) /\ y[n] = g[1 .. n]
  <2>1. n \in Nat /\ b \in V /\ \A k \in 1 .. n : \A v \in V : F[<<k, v>>] \in V
    BY <1>2, <1>3
  <2> HIDE DEF g
  <2>. QED BY <2>1, <1>7, ChainIterates
<1>9. ASSUME NEW k \in 1 .. n PROVE y[k] = Step(y[k - 1], sorted_order(floor)[k])
  <2>1. k - 1 \in 0 .. n /\ y[k - 1] \in V
    BY <1>2
  <2>2. y[k] = F[<<k, y[k - 1]>>] /\ q[k] = sorted_order(floor)[k]
    BY <1>2, <1>8 DEF Iterates
  <2>. QED BY <1>3, <2>1, <2>2
<1>10. Curve(floor, hs) = (y[n]).strokes \o FlatBehind(y[n], floor.n2)
  BY <1>1, <1>2, <1>8
<1>. QED BY <1>8, <1>9, <1>10 DEF V, b, Step, n, Iterates, CurveSteps, m

-----------------------------------------------------------------------------
(***************************************************************************)
(* The floor: the line between two used points.                            *)
(***************************************************************************)
\* What a floor and its heights are for the lines: points at places of their own, the
\* used ones among them.
Places(X, used, m) ==
  /\ m \in Nat /\ X \in [0 .. m -> Nat] /\ used \in SUBSET (0 .. m)
  /\ \A i, j \in 0 .. m : i # j => X[i] # X[j]

Neighboring(X, used, a, b) ==
  /\ a \in used /\ b \in used /\ X[a] < X[b]
  /\ \A k \in used : X[k] <= X[a] \/ X[k] >= X[b]

Within(X, a, x, b) == X[a] <= x /\ x < X[b]

LastUsed(X, used, a) == a \in used /\ \A k \in used : X[k] <= X[a]

LEMMA OnlyBefore ==
  ASSUME NEW floor, NEW hs, NEW m, Places(floor.X, hs.used, m), NEW x \in Nat,
         NEW a \in hs.used, floor.X[a] <= x,
         \A k \in hs.used : floor.X[k] <= x => floor.X[k] <= floor.X[a]
  PROVE  Before(floor, hs, x) = a
<1> DEFINE X == floor.X
           used == hs.used
           P(i) == i \in used /\ X[i] <= x /\ \A k \in used : X[k] <= x => X[k] <= X[i]
<1>1. ASSUME NEW i, P(i) PROVE i = a
  <2>1. X[i] <= X[a] /\ X[a] <= X[i]
    BY <1>1
  <2>2. i \in 0 .. m /\ a \in 0 .. m /\ X[i] \in Nat /\ X[a] \in Nat
    BY <1>1 DEF Places
  <2>3. X[i] = X[a]
    <3> HIDE DEF X
    <3>. QED BY <2>1, <2>2
  <2>. QED BY <2>2, <2>3 DEF Places
<1>2. P(a)
  OBVIOUS
<1>3. Before(floor, hs, x) = CHOOSE i \in used : X[i] <= x /\ \A k \in used : X[k] <= x => X[k] <= X[i]
  BY DEF Before
<1>4. \E i \in used : X[i] <= x /\ \A k \in used : X[k] <= x => X[k] <= X[i]
  BY <1>2
<1>5. P(Before(floor, hs, x))
  <2> HIDE DEF X, used
  <2>. QED BY <1>3, <1>4
<1> HIDE DEF P
<1>. QED BY <1>1, <1>5

LEMMA OnlyBehind ==
  ASSUME NEW floor, NEW hs, NEW m, Places(floor.X, hs.used, m), NEW x \in Nat,
         NEW b \in hs.used, floor.X[b] > x,
         \A k \in hs.used : floor.X[k] > x => floor.X[k] >= floor.X[b]
  PROVE  Behind(floor, hs, x) = b
<1> DEFINE X == floor.X
           used == hs.used
           P(i) == i \in used /\ X[i] > x /\ \A k \in used : X[k] > x => X[k] >= X[i]
<1>1. ASSUME NEW i, P(i) PROVE i = b
  <2>1. X[i] >= X[b] /\ X[b] >= X[i]
    BY <1>1
  <2>2. i \in 0 .. m /\ b \in 0 .. m /\ X[i] \in Nat /\ X[b] \in Nat
    BY <1>1 DEF Places
  <2>3. X[i] = X[b]
    <3> HIDE DEF X
    <3>. QED BY <2>1, <2>2
  <2>. QED BY <2>2, <2>3 DEF Places
<1>2. P(b)
  OBVIOUS
<1>3. Behind(floor, hs, x) = CHOOSE i \in used : X[i] > x /\ \A k \in used : X[k] > x => X[k] >= X[i]
  BY DEF Behind
<1>4. \E i \in used : X[i] > x /\ \A k \in used : X[k] > x => X[k] >= X[i]
  BY <1>2
<1>5. P(Behind(floor, hs, x))
  <2> HIDE DEF X, used
  <2>. QED BY <1>3, <1>4
<1> HIDE DEF P
<1>. QED BY <1>1, <1>5

LEMMA OnLineBetween ==
  ASSUME NEW floor, NEW hs, NEW m, Places(floor.X, hs.used, m), NEW x \in Nat, NEW a, NEW b,
         Neighboring(floor.X, hs.used, a, b), Within(floor.X, a, x, b)
  PROVE  OnLine(floor, hs, x) =
           predict_point(x, floor.X[a], floor.X[b], Scaled(floor, hs, a), Scaled(floor, hs, b))
<1> DEFINE X == floor.X
           used == hs.used
<1>1. /\ a \in used /\ b \in used /\ \A k \in used : X[k] \in Nat
      /\ \A k \in used : X[k] <= X[a] \/ X[k] >= X[b]
  BY DEF Neighboring, Places
<1>2. \A k \in used : X[k] <= x => X[k] <= X[a]
  <2> HIDE DEF X, used
  <2>1. x < X[b]
    BY DEF X, Within
  <2>. QED BY <1>1, <2>1
<1>3. \A k \in used : X[k] > x => X[k] >= X[b]
  <2> HIDE DEF X, used
  <2>1. X[a] <= x
    BY DEF X, Within
  <2>. QED BY <1>1, <2>1
<1>4. X[b] > x
  <2>1. X[b] \in Nat /\ x < X[b]
    BY <1>1 DEF Within
  <2> HIDE DEF X
  <2>. QED BY <2>1
<1>5. Before(floor, hs, x) = a
  BY <1>1, <1>2, OnlyBefore DEF Within
<1>6. Behind(floor, hs, x) = b
  BY <1>1, <1>3, <1>4, OnlyBehind
<1>7. \E i \in used : X[i] > x
  BY <1>1, <1>4
<1>. QED BY <1>5, <1>6, <1>7 DEF OnLine

OnTheLine(floor, hs, x, a, b) ==
  OnLine(floor, hs, x) = predict_point(x, floor.X[a], floor.X[b], Scaled(floor, hs, a), Scaled(floor, hs, b))

LEMMA BetweenIsOnLine ==
  ASSUME NEW floor, NEW hs, NEW m, Places(floor.X, hs.used, m), NEW x \in Nat, NEW a, NEW b,
         Neighboring(floor.X, hs.used, a, b), Within(floor.X, a, x, b)
  PROVE  OnTheLine(floor, hs, x, a, b)
BY OnLineBetween DEF OnTheLine

LEMMA OnLineFlat ==
  ASSUME NEW floor, NEW hs, NEW m, Places(floor.X, hs.used, m), NEW x \in Nat, NEW a,
         LastUsed(floor.X, hs.used, a), floor.X[a] <= x
  PROVE  OnLine(floor, hs, x) = Scaled(floor, hs, a)
<1> DEFINE X == floor.X
           used == hs.used
<1>1. a \in used /\ (\A k \in used : X[k] \in Nat) /\ \A k \in used : X[k] <= X[a]
  BY DEF LastUsed, Places
<1>2. Before(floor, hs, x) = a
  BY <1>1, OnlyBefore
<1>3. ~\E i \in used : X[i] > x
  <2>1. X[a] <= x
    OBVIOUS
  <2> HIDE DEF X, used
  <2>. QED BY <1>1, <2>1
<1>. QED BY <1>2, <1>3 DEF OnLine

\* The line goes through the used points.
LEMMA OnLineAtPoint ==
  ASSUME NEW floor, NEW hs, NEW m, Places(floor.X, hs.used, m), NEW j \in hs.used,
         \A k \in hs.used : Scaled(floor, hs, k) \in Int
  PROVE  OnLine(floor, hs, floor.X[j]) = Scaled(floor, hs, j)
<1> DEFINE X == floor.X
           used == hs.used
           B == {k \in used : X[k] > X[j]}
<1>1. \A k \in used : k \in 0 .. m /\ X[k] \in Nat
  BY DEF Places
<1>2. CASE B = {}
  <2>1. LastUsed(X, used, j) /\ X[j] \in Nat /\ X[j] <= X[j]
    <3> HIDE DEF X, used
    <3>1. \A k \in used : ~(X[k] > X[j])
      BY <1>2
    <3>2. j \in used
      BY DEF used
    <3>. QED BY <1>1, <3>1, <3>2 DEF LastUsed
  <2>. QED BY <2>1, OnLineFlat
<1>3. CASE B # {}
  <2>1. IsFiniteSet(B)
    <3>1. IsFiniteSet(0 .. m) /\ B \in SUBSET (0 .. m)
      BY <1>1, FS_Interval DEF Places
    <3>. QED BY <3>1, FS_Subset
  <2>2. PICK b \in B : \A k \in B : X[b] <= X[k]
    <3>1. \A k \in B : X[k] \in Int
      BY <1>1
    <3> HIDE DEF B
    <3>. QED BY <1>3, <2>1, <3>1, LeastOf
  <2>3. Neighboring(X, used, j, b) /\ X[j] \in Nat /\ X[b] \in Nat /\ X[j] < X[b]
    <3> HIDE DEF X, used
    <3>1. j \in used
      BY DEF used
    <3>2. X[j] \in Nat /\ X[b] \in Nat /\ X[j] < X[b]
      BY <1>1, <3>1
    <3>3. ASSUME NEW k \in used PROVE X[k] <= X[j] \/ X[k] >= X[b]
      <4>1. X[k] > X[j] => X[b] <= X[k]
        BY <2>2
      <4>. QED BY <1>1, <3>2, <4>1
    <3>. QED BY <3>1, <3>2, <3>3 DEF Neighboring
  <2>4. Within(X, j, X[j], b)
    <3> HIDE DEF X
    <3>. QED BY <2>3 DEF Within
  <2>5. OnLine(floor, hs, X[j]) = predict_point(X[j], X[j], X[b], Scaled(floor, hs, j), Scaled(floor, hs, b))
    <3> DEFINE x == X[j]
    <3>1. x \in Nat /\ Neighboring(floor.X, hs.used, j, b) /\ Within(floor.X, j, x, b)
      BY <2>3, <2>4
    <3> HIDE DEF x, B
    <3>2. OnLine(floor, hs, x) = predict_point(x, X[j], X[b], Scaled(floor, hs, j), Scaled(floor, hs, b))
      BY <3>1, OnLineBetween
    <3>. QED BY <3>2 DEF x
  <2>6. Scaled(floor, hs, j) \in Int /\ Scaled(floor, hs, b) \in Int
    OBVIOUS
  <2>. QED BY <2>3, <2>5, <2>6, PredictedAtStart
<1>. QED BY <1>2, <1>3

-----------------------------------------------------------------------------
(***************************************************************************)
(* The floor: the curve.                                                   *)
(***************************************************************************)
\* The places from 0 on, each with its height.
StrokesTo(strokes, floor, hs, len) ==
  /\ strokes \in Seq(Int \X Int) /\ Len(strokes) = len
  /\ \A i \in 1 .. len : strokes[i] = <<i - 1, OnLine(floor, hs, i - 1)>>

\* More strokes from the place where the others end.
StrokesFrom(strokes, floor, hs, x, len) ==
  /\ strokes \in Seq(Int \X Int) /\ Len(strokes) = len
  /\ \A i \in 1 .. len : strokes[i] = <<x + i - 1, OnLine(floor, hs, x + i - 1)>>

LEMMA JoinedIs ==
  ASSUME NEW S, NEW s \in Seq(S), NEW t \in Seq(S)
  PROVE  /\ s \o t \in Seq(S) /\ Len(s \o t) = Len(s) + Len(t)
         /\ \A i \in 1 .. (Len(s) + Len(t)) : (s \o t)[i] = IF i <= Len(s) THEN s[i] ELSE t[i - Len(s)]
OBVIOUS

LEMMA StrokesJoin ==
  ASSUME NEW floor, NEW hs, NEW x \in Nat, NEW len \in Nat, NEW s, NEW t,
         StrokesTo(s, floor, hs, x), StrokesFrom(t, floor, hs, x, len)
  PROVE  StrokesTo(s \o t, floor, hs, x + len)
<1> DEFINE e == s \o t
<1>1. s \in Seq(Int \X Int) /\ t \in Seq(Int \X Int) /\ Len(s) = x /\ Len(t) = len
  BY DEF StrokesTo, StrokesFrom
<1>2. /\ e \in Seq(Int \X Int) /\ Len(e) = x + len
      /\ \A i \in 1 .. (x + len) : e[i] = IF i <= x THEN s[i] ELSE t[i - x]
  <2>1. /\ e \in Seq(Int \X Int) /\ Len(e) = Len(s) + Len(t)
        /\ \A i \in 1 .. (Len(s) + Len(t)) : e[i] = IF i <= Len(s) THEN s[i] ELSE t[i - Len(s)]
    BY <1>1, JoinedIs
  <2> HIDE DEF e
  <2>. QED BY <1>1, <2>1
<1> HIDE DEF e
<1>3. ASSUME NEW i \in 1 .. (x + len) PROVE e[i] = <<i - 1, OnLine(floor, hs, i - 1)>>
  <2>1. CASE i <= x
    <3>1. i \in 1 .. x /\ e[i] = s[i]
      BY <1>2, <2>1
    <3>. QED BY <3>1 DEF StrokesTo
  <2>2. CASE ~(i <= x)
    <3>1. i - x \in 1 .. len /\ e[i] = t[i - x] /\ x + (i - x) - 1 = i - 1
      BY <1>2, <2>2
    <3>2. t[i - x] = <<x + (i - x) - 1, OnLine(floor, hs, x + (i - x) - 1)>>
      <4> DEFINE l == i - x
      <4>1. l \in 1 .. len
        BY <3>1
      <4> HIDE DEF l
      <4>2. t[l] = <<x + l - 1, OnLine(floor, hs, x + l - 1)>>
        BY <4>1 DEF StrokesFrom
      <4>. QED BY <4>2 DEF l
    <3>. QED BY <3>1, <3>2
  <2>. QED BY <2>1, <2>2
<1>. QED BY <1>2, <1>3 DEF StrokesTo, e

\* A line from one used point to the next.
LEMMA LineJoins ==
  ASSUME NEW floor, NEW hs, NEW m, Places(floor.X, hs.used, m), NEW n2 \in Nat, NEW a, NEW b,
         Neighboring(floor.X, hs.used, a, b), floor.X[a] < n2,
         NEW y0 \in Int, NEW y1 \in Int, y0 = Scaled(floor, hs, a), y1 = Scaled(floor, hs, b)
  PROVE  StrokesFrom(draw_line(floor.X[a], y0, floor.X[b], y1, n2), floor, hs, floor.X[a],
                     (IF floor.X[b] <= n2 THEN floor.X[b] ELSE n2) - floor.X[a])
<1> DEFINE x0 == floor.X[a]
           x1 == floor.X[b]
           len == (IF x1 <= n2 THEN x1 ELSE n2) - x0
           line == draw_line(x0, y0, x1, y1, n2)
<1>1. x0 \in Nat /\ x1 \in Nat /\ x0 < x1 /\ x0 < n2
  BY DEF Neighboring, Places
<1>2. /\ line \in Seq(Int \X Int) /\ Len(line) = len
      /\ \A i \in 1 .. len : line[i] = <<x0 + i - 1, predict_point(x0 + i - 1, x0, x1, y0, y1)>>
  <2>1. StraightLine(x0, y0, x1, y1, n2)
    <3>1. Forwards(x0, x1, n2)
      BY <1>1 DEF Forwards
    <3> HIDE DEF x0, x1
    <3>. QED BY <1>1, <3>1, LineIsStraight
  <2> HIDE DEF x0, x1
  <2>. QED BY <2>1, Zenon DEF StraightLine
<1>3. ASSUME NEW i \in 1 .. len PROVE line[i] = <<x0 + i - 1, OnLine(floor, hs, x0 + i - 1)>>
  <2> DEFINE x == x0 + i - 1
  <2>1. x \in Nat /\ x0 <= x /\ x < x1
    <3> HIDE DEF x0, x1
    <3>. QED BY <1>1
  <2>2. Within(floor.X, a, x, b)
    <3> HIDE DEF x
    <3>. QED BY <2>1 DEF Within
  <2>3. OnLine(floor, hs, x) = predict_point(x, x0, x1, Scaled(floor, hs, a), Scaled(floor, hs, b))
    <3>1. OnTheLine(floor, hs, x, a, b)
      <4> HIDE DEF x
      <4>. QED BY <2>1, <2>2, BetweenIsOnLine
    <3>. QED BY <3>1 DEF OnTheLine
  <2> HIDE DEF line, len, x0, x1
  <2>. QED BY <1>2, <2>3
<1> HIDE DEF line
<1>. QED BY <1>2, <1>3 DEF StrokesFrom, line

\* Where the curve is after k points in their order: at the last used one of them.
AtPoint(c, floor, hs, k, a) ==
  /\ a \in hs.used /\ (a = 0 \/ \E r \in 1 .. k : sorted_order(floor)[r] = a)
  /\ \A r \in 1 .. k : sorted_order(floor)[r] \in hs.used => floor.X[sorted_order(floor)[r]] <= floor.X[a]
  /\ c.lx = floor.X[a] /\ c.ly = Scaled(floor, hs, a)

DrawnUpTo(c, floor, hs, k) ==
  /\ \E a : AtPoint(c, floor, hs, k, a)
  /\ StrokesTo(c.strokes, floor, hs, IF c.lx <= floor.n2 THEN c.lx ELSE floor.n2)

LEMMA FloorPlaces ==
  ASSUME NEW floor \in Floors, NEW hs, HeightsOK(floor, hs)
  PROVE  LET m == Cardinality(DOMAIN floor.X) - 1
             X == floor.X
         IN  /\ m \in Nat \ {0} /\ Places(X, hs.used, m) /\ InOrder(sorted_order(floor), X, m)
             /\ 0 \in hs.used /\ 1 \in hs.used
             /\ X[0] = 0 /\ \A i \in 2 .. m : X[i] < X[1] /\ X[i] < floor.n2
             /\ floor.n2 \in Nat \ {0}
             /\ \A j \in 0 .. m : Scaled(floor, hs, j) \in Int
<1> DEFINE m == Cardinality(DOMAIN floor.X) - 1
<1>1. m \in Nat \ {0} /\ m = Cardinality(DOMAIN floor.X) - 1
  BY FloorIs
<1>2. \A j \in 0 .. m : Scaled(floor, hs, j) \in Int
  BY HeightIsInt
<1>3. InOrder(sorted_order(floor), floor.X, m)
  BY OrderIs
<1>4. Places(floor.X, hs.used, m) /\ 0 \in hs.used /\ 1 \in hs.used
  BY <1>1, FloorIs DEF Places, HeightsOK
<1>5. /\ floor.X[0] = 0 /\ \A i \in 2 .. m : floor.X[i] < floor.X[1] /\ floor.X[i] < floor.n2
      /\ floor.n2 \in Nat \ {0}
  BY FloorIs
<1>. QED BY <1>1, <1>2, <1>3, <1>4, <1>5

\* From the last used point to the next used one there is no other between them.
LEMMA NextIsNeighbor ==
  ASSUME NEW floor \in Floors, NEW hs, HeightsOK(floor, hs),
         NEW k \in 1 .. (Cardinality(DOMAIN floor.X) - 1), NEW c, NEW a, AtPoint(c, floor, hs, k - 1, a),
         sorted_order(floor)[k] \in hs.used
  PROVE  Neighboring(floor.X, hs.used, a, sorted_order(floor)[k]) /\ floor.X[a] < floor.n2
<1> DEFINE m == Cardinality(DOMAIN floor.X) - 1
           X == floor.X
           used == hs.used
           order == sorted_order(floor)
           j == order[k]
<1>1. /\ m \in Nat \ {0} /\ X \in [0 .. m -> Nat] /\ used \in SUBSET (0 .. m)
      /\ \A p, q \in 0 .. m : p # q => X[p] # X[q]
      /\ order \in [1 .. m -> 1 .. m]
      /\ \A p, q \in 1 .. m : p < q => X[order[p]] < X[order[q]]
      /\ \A i \in 1 .. m : \E p \in 1 .. m : order[p] = i
      /\ X[0] = 0 /\ (\A i \in 2 .. m : X[i] < X[1] /\ X[i] < floor.n2) /\ floor.n2 \in Nat \ {0}
  BY FloorPlaces DEF Places, InOrder
<1>2. /\ a \in used /\ (a = 0 \/ \E r \in 1 .. (k - 1) : order[r] = a)
      /\ \A r \in 1 .. (k - 1) : order[r] \in used => X[order[r]] <= X[a]
      /\ j \in used /\ k \in 1 .. m
  BY DEF AtPoint
<1> HIDE DEF m, X, used, order
<1>3. j \in 1 .. m /\ X[j] \in Nat /\ X[a] \in Nat /\ a \in 0 .. m
  BY <1>1, <1>2
<1>4. X[a] < X[j]
  <2>1. CASE a = 0
    <3>1. j \in 0 .. m /\ 0 \in 0 .. m /\ j # 0
      <4>1. m \in Nat /\ j \in 1 .. m
        BY <1>1, <1>3
      <4> HIDE DEF j
      <4>. QED BY <4>1
    <3> HIDE DEF j
    <3>2. X[j] # X[0] /\ X[0] = 0
      BY <1>1, <3>1, Zenon
    <3>. QED BY <1>3, <2>1, <3>2
  <2>2. CASE \E r \in 1 .. (k - 1) : order[r] = a
    <3>1. PICK r \in 1 .. (k - 1) : order[r] = a
      BY <2>2
    <3>2. r \in 1 .. m /\ r < k
      <4>1. m \in Nat /\ k \in 1 .. m
        BY <1>1, <1>2
      <4>. QED BY <4>1
    <3>. QED BY <1>1, <1>2, <3>1, <3>2
  <2>. QED BY <1>2, <2>1, <2>2
<1>5. ASSUME NEW i \in used PROVE X[i] <= X[a] \/ X[i] >= X[j]
  <2>1. i \in 0 .. m /\ X[i] \in Nat
    BY <1>1
  <2>2. CASE i = 0
    BY <1>1, <1>3, <2>2
  <2>3. CASE i # 0
    <3>1. PICK r \in 1 .. m : order[r] = i
      BY <1>1, <2>1, <2>3
    <3>2. CASE r < k
      <4>1. r \in 1 .. (k - 1)
        BY <1>2, <3>2
      <4>. QED BY <1>2, <3>1, <4>1
    <3>3. CASE r = k
      <4>1. i = j
        BY <3>1, <3>3
      <4>. QED BY <1>3, <4>1
    <3>4. CASE r > k
      <4>1. X[order[k]] < X[order[r]]
        BY <1>1, <1>2, <3>4
      <4>2. X[j] < X[i]
        BY <3>1, <4>1
      <4> HIDE DEF j
      <4>. QED BY <1>3, <2>1, <4>2
    <3>. QED BY <1>2, <3>2, <3>3, <3>4
  <2>. QED BY <2>2, <2>3
<1>6. X[a] < floor.n2
  <2>1. CASE a = 0
    <3>1. X[0] = 0 /\ floor.n2 \in Nat \ {0}
      BY <1>1
    <3>. QED BY <2>1, <3>1
  <2>2. CASE a = 1
    <3>1. j \in 2 .. m \/ j = 1
      BY <1>3
    <3>2. j # 1
      BY <1>3, <1>4, <2>2
    <3>3. X[j] < X[1]
      BY <1>1, <3>1, <3>2
    <3> HIDE DEF j
    <3>. QED BY <1>3, <1>4, <2>2, <3>3
  <2>3. CASE a \in 2 .. m
    BY <1>1, <2>3
  <2>. QED BY <1>3, <2>1, <2>2, <2>3
<1>. QED BY <1>2, <1>4, <1>5, <1>6 DEF Neighboring, X, used, order

LEMMA GoesToPoint ==
  ASSUME NEW floor \in Floors, NEW hs, HeightsOK(floor, hs),
         NEW k \in 1 .. (Cardinality(DOMAIN floor.X) - 1), NEW c \in DrawnThere,
         DrawnUpTo(c, floor, hs, k - 1)
  PROVE  DrawnUpTo(DrawTo(floor, hs, c, sorted_order(floor)[k]), floor, hs, k)
<1> DEFINE m == Cardinality(DOMAIN floor.X) - 1
           X == floor.X
           order == sorted_order(floor)
           j == order[k]
           n2 == floor.n2
           e == DrawTo(floor, hs, c, j)
<1>1. PICK a : AtPoint(c, floor, hs, k - 1, a)
  BY DEF DrawnUpTo
<1>2. /\ m \in Nat \ {0} /\ Places(X, hs.used, m) /\ InOrder(order, X, m) /\ n2 \in Nat
      /\ \A i \in 0 .. m : Scaled(floor, hs, i) \in Int
  BY FloorPlaces
<1>3. CASE j \notin hs.used
  <2>1. e = c
    BY <1>3 DEF DrawTo
  <2>2. AtPoint(c, floor, hs, k, a)
    <3>1. \A r \in 1 .. k : r \in 1 .. (k - 1) \/ r = k
      BY <1>2
    <3>2. 1 .. (k - 1) \subseteq 1 .. k
      BY <1>2
    <3>. QED BY <1>1, <1>3, <3>1, <3>2 DEF AtPoint
  <2>. QED BY <2>1, <2>2 DEF DrawnUpTo
<1>4. CASE j \in hs.used
  <2>1. Neighboring(X, hs.used, a, j) /\ X[a] < n2
    BY <1>1, <1>4, NextIsNeighbor
  <2>2. c.lx = X[a] /\ c.ly = Scaled(floor, hs, a)
    BY <1>1 DEF AtPoint
  <2>3. /\ e.lx = X[j] /\ e.ly = Scaled(floor, hs, j)
        /\ e.strokes = c.strokes \o draw_line(X[a], Scaled(floor, hs, a), X[j], Scaled(floor, hs, j), n2)
    BY <1>4, <2>2 DEF DrawTo
  <2>4. X[a] \in Nat /\ X[j] \in Nat /\ X[a] < X[j] /\ a \in 0 .. m /\ j \in 0 .. m
    BY <1>2, <2>1 DEF Places, Neighboring
  <2>5. AtPoint(e, floor, hs, k, j)
    <3>1. \A r \in 1 .. k : order[r] \in hs.used => X[order[r]] <= X[j]
      <4>1. ASSUME NEW r \in 1 .. k PROVE X[order[r]] <= X[j]
        <5>1. k \in 1 .. m /\ r \in 1 .. m /\ (r < k \/ r = k)
          BY <1>2
        <5>2. r < k => X[order[r]] < X[j]
          BY <1>2, <5>1 DEF InOrder
        <5>3. order[r] \in 0 .. m /\ X[order[r]] \in Nat
          <6>1. order \in [1 .. m -> 1 .. m] /\ X \in [0 .. m -> Nat] /\ m \in Nat
            BY <1>2 DEF InOrder, Places
          <6> HIDE DEF order, X, m
          <6>2. order[r] \in 1 .. m
            BY <5>1, <6>1
          <6>. QED BY <6>1, <6>2
        <5>4. r = k => X[order[r]] = X[j]
          OBVIOUS
        <5> HIDE DEF X, j, order
        <5>. QED BY <2>4, <5>1, <5>2, <5>3, <5>4
      <4>. QED BY <4>1
    <3>2. k \in 1 .. k
      BY <1>2
    <3>. QED BY <1>4, <2>3, <3>1, <3>2 DEF AtPoint
  <2>6. StrokesTo(c.strokes, floor, hs, X[a])
    <3>1. (IF c.lx <= n2 THEN c.lx ELSE n2) = X[a]
      <4> HIDE DEF X, n2
      <4>. QED BY <1>2, <2>1, <2>2, <2>4
    <3>. QED BY <3>1 DEF DrawnUpTo
  <2> DEFINE len == (IF X[j] <= n2 THEN X[j] ELSE n2) - X[a]
             line == draw_line(X[a], Scaled(floor, hs, a), X[j], Scaled(floor, hs, j), n2)
  <2>7. StrokesFrom(line, floor, hs, X[a], len)
    <3> DEFINE y0 == Scaled(floor, hs, a)
               y1 == Scaled(floor, hs, j)
    <3>1. y0 \in Int /\ y1 \in Int
      BY <1>2, <2>4
    <3> HIDE DEF m, j
    <3>. QED BY <1>2, <2>1, <3>1, LineJoins
  <2>8. len \in Nat /\ X[a] + len = IF e.lx <= n2 THEN e.lx ELSE n2
    <3> HIDE DEF X, n2, j, e
    <3>. QED BY SMTT(20), <1>2, <2>1, <2>3, <2>4
  <2>9. StrokesTo(c.strokes \o line, floor, hs, X[a] + len)
    <3> HIDE DEF line, len, X
    <3>. QED BY <2>4, <2>6, <2>7, <2>8, StrokesJoin
  <2> HIDE DEF len
  <2>10. StrokesTo(e.strokes, floor, hs, IF e.lx <= n2 THEN e.lx ELSE n2)
    <3> HIDE DEF X, e, j
    <3>. QED BY <2>3, <2>8, <2>9
  <2>. QED BY <2>5, <2>10 DEF DrawnUpTo
<1>. QED BY <1>3, <1>4

\* The curve has one height at every place of the block, the one on the line.
LEMMA CurveIsOnLine ==
  ASSUME NEW floor \in Floors, NEW hs, HeightsOK(floor, hs)
  PROVE  StrokesTo(Curve(floor, hs), floor, hs, floor.n2)
<1> DEFINE m == Cardinality(DOMAIN floor.X) - 1
           X == floor.X
           order == sorted_order(floor)
           n2 == floor.n2
<1>1. PICK z : CurveSteps(z, floor, hs)
  BY CurveIs
<1>2. /\ z \in [0 .. m -> DrawnThere]
      /\ z[0] = [lx |-> 0, ly |-> Scaled(floor, hs, 0), strokes |-> <<>>]
      /\ \A k \in 1 .. m : z[k] = DrawTo(floor, hs, z[k - 1], order[k])
      /\ Curve(floor, hs) = z[m].strokes \o FlatBehind(z[m], n2)
  BY <1>1 DEF CurveSteps
<1>3. /\ m \in Nat \ {0} /\ Places(X, hs.used, m) /\ InOrder(order, X, m)
      /\ 0 \in hs.used /\ X[0] = 0 /\ n2 \in Nat \ {0}
      /\ \A j \in 0 .. m : Scaled(floor, hs, j) \in Int
  BY FloorPlaces
<1> DEFINE T == {k \in 0 .. m : DrawnUpTo(z[k], floor, hs, k)}
<1>4. 0 \in T
  <2>1. z[0].lx = 0 /\ z[0].ly = Scaled(floor, hs, 0) /\ z[0].strokes = <<>>
    BY <1>2
  <2>2. AtPoint(z[0], floor, hs, 0, 0)
    <3>1. \A r \in 1 .. 0 : FALSE
      OBVIOUS
    <3>. QED BY <1>3, <2>1, <3>1 DEF AtPoint
  <2>3. StrokesTo(z[0].strokes, floor, hs, 0)
    <3>1. <<>> \in Seq(Int \X Int) /\ Len(<<>>) = 0 /\ \A i \in 1 .. 0 : FALSE
      OBVIOUS
    <3>. QED BY <2>1, <3>1 DEF StrokesTo
  <2>4. (IF z[0].lx <= n2 THEN z[0].lx ELSE n2) = 0
    <3> HIDE DEF n2
    <3>. QED BY <1>3, <2>1
  <2>5. DrawnUpTo(z[0], floor, hs, 0)
    BY <2>2, <2>3, <2>4 DEF DrawnUpTo
  <2>6. 0 \in 0 .. m
    BY <1>3
  <2>. QED BY <2>5, <2>6
<1>5. ASSUME NEW k \in 1 .. m, k - 1 \in T PROVE k \in T
  <2>1. DrawnUpTo(z[k - 1], floor, hs, k - 1)
    BY <1>5
  <2>2. k - 1 \in 0 .. m /\ k \in 0 .. m
    BY <1>3
  <2>3. z[k - 1] \in DrawnThere
    BY <1>2, <2>2
  <2>4. DrawnUpTo(DrawTo(floor, hs, z[k - 1], order[k]), floor, hs, k)
    BY <2>1, <2>3, GoesToPoint
  <2>5. DrawnUpTo(z[k], floor, hs, k)
    BY <1>2, <2>4
  <2>. QED BY <2>2, <2>5
<1>6. m \in T
  <2>1. m \in 0 .. m /\ m \in Nat
    BY <1>3
  <2> HIDE DEF T, m
  <2>. QED BY <1>4, <1>5, <2>1, UptoInduction
<1> DEFINE c == z[m]
<1>7. c \in DrawnThere /\ DrawnUpTo(c, floor, hs, m)
  <2>1. m \in 0 .. m
    BY <1>3
  <2>. QED BY <1>2, <1>6, <2>1
<1> HIDE DEF c
<1>8. PICK a : AtPoint(c, floor, hs, m, a)
  BY <1>7 DEF DrawnUpTo
<1>9. /\ a \in hs.used /\ c.lx = X[a] /\ c.ly = Scaled(floor, hs, a)
      /\ \A r \in 1 .. m : order[r] \in hs.used => X[order[r]] <= X[a]
  BY <1>8 DEF AtPoint
<1>10. X[a] \in Nat /\ a \in 0 .. m /\ Scaled(floor, hs, a) \in Int
  BY <1>3, <1>9 DEF Places
<1>11. LastUsed(X, hs.used, a)
  <2>1. ASSUME NEW i \in hs.used PROVE X[i] <= X[a]
    <3>1. i \in 0 .. m
      BY <1>3 DEF Places
    <3>2. CASE i = 0
      <4> HIDE DEF X
      <4>. QED BY <1>3, <1>10, <3>2
    <3>3. CASE i # 0
      <4>1. i \in 1 .. m
        <5>1. m \in Nat
          BY <1>3
        <5> HIDE DEF m
        <5>. QED BY <3>1, <3>3, <5>1
      <4>2. PICK r \in 1 .. m : order[r] = i
        BY <1>3, <4>1 DEF InOrder
      <4>. QED BY <1>9, <4>2
    <3>. QED BY <3>2, <3>3
  <2>. QED BY <1>9, <2>1 DEF LastUsed
<1> DEFINE x0 == IF X[a] <= n2 THEN X[a] ELSE n2
           len == n2 - x0
           flat == FlatBehind(c, n2)
<1>12. x0 \in Nat /\ len \in Nat /\ x0 + len = n2
  <2> HIDE DEF X, n2
  <2>. QED BY <1>3, <1>10
<1>13. StrokesFrom(flat, floor, hs, x0, len)
  <2>1. flat = [k \in 1 .. len |-> <<X[a] + k - 1, Scaled(floor, hs, a)>>]
    <3>1. (IF c.lx < n2 THEN n2 - c.lx ELSE 0) = len
      <4> HIDE DEF X, n2
      <4>. QED BY <1>3, <1>9, <1>10
    <3> HIDE DEF len
    <3>. QED BY <1>9, <3>1 DEF FlatBehind
  <2>2. ASSUME NEW k \in 1 .. len
        PROVE  X[a] = x0 /\ X[a] <= x0 + k - 1 /\ x0 + k - 1 \in Nat
    <3> HIDE DEF X, n2
    <3>. QED BY <1>3, <1>10
  <2>3. ASSUME NEW k \in 1 .. len PROVE Scaled(floor, hs, a) = OnLine(floor, hs, x0 + k - 1)
    <3> DEFINE x == x0 + k - 1
    <3>1. x \in Nat /\ X[a] <= x
      BY <2>2
    <3> HIDE DEF x
    <3>2. OnLine(floor, hs, x) = Scaled(floor, hs, a)
      BY <1>3, <1>11, <3>1, OnLineFlat
    <3>. QED BY <3>2 DEF x
  <2> HIDE DEF len, flat, x0
  <2>4. \A k \in 1 .. len : flat[k] = <<x0 + k - 1, Scaled(floor, hs, a)>>
    BY <2>1, <2>2
  <2>5. flat \in Seq(Int \X Int) /\ Len(flat) = len
    <3> DEFINE y == Scaled(floor, hs, a)
    <3>1. \A k \in 1 .. len : <<X[a] + k - 1, y>> \in Int \X Int
      <4> HIDE DEF y, X
      <4>1. y \in Int
        BY <1>10 DEF y
      <4>. QED BY <1>10, <1>12, <4>1
    <3>2. flat \in [1 .. len -> Int \X Int]
      BY <2>1, <3>1
    <3>. QED BY <1>12, <3>2
  <2>6. \A k \in 1 .. len : flat[k] = <<x0 + k - 1, OnLine(floor, hs, x0 + k - 1)>>
    BY <2>3, <2>4
  <2>. QED BY <2>5, <2>6 DEF StrokesFrom
<1>14. StrokesTo(c.strokes, floor, hs, x0)
  BY <1>7, <1>9 DEF DrawnUpTo
<1>15. StrokesTo(c.strokes \o flat, floor, hs, n2)
  <2> HIDE DEF flat, x0, len, n2
  <2>1. StrokesTo(c.strokes \o flat, floor, hs, x0 + len)
    BY <1>12, <1>13, <1>14, StrokesJoin
  <2>. QED BY <1>12, <2>1
<1>. QED BY <1>2, <1>15 DEF c

\* Every height of the range, and no other, can be reached from a prediction; the curve
\* has one height at every place, and goes through the points that were moved.
LEMMA HeightsAreDrawn ==
  ASSUME NEW floor \in Floors, NEW hs, HeightsOK(floor, hs)
  PROVE  Drawn(floor, hs, Curve(floor, hs))
<1> DEFINE m == Cardinality(DOMAIN floor.X) - 1
           X == floor.X
           n2 == floor.n2
           curve == Curve(floor, hs)
           range == 0 .. (floor.range - 1)
           ys == {curve[k][2] : k \in DOMAIN curve}
           height(x) == CHOOSE y \in ys : <<x, y>> \in ToSet(curve)
<1>1. /\ m \in Nat \ {0} /\ Places(X, hs.used, m) /\ 0 \in hs.used /\ 1 \in hs.used
      /\ n2 \in Nat \ {0} /\ \A j \in 0 .. m : Scaled(floor, hs, j) \in Int
  BY FloorPlaces
<1>2. Points(floor) = 0 .. m /\ floor.range \in Nat /\ Upto(n2) = 0 .. (n2 - 1)
  BY FloorIs DEF Upto
<1>3. \A pred \in range : {Moved(floor.range, pred, val) : val \in range} = range
  BY <1>2, MovedIsOnto
<1>4. \A j \in Points(floor) : hs.finalY[j] \in range
  BY <1>2 DEF HeightsOK
<1>5. /\ curve \in Seq(Int \X Int) /\ Len(curve) = n2 /\ DOMAIN curve = 1 .. n2
      /\ \A i \in 1 .. n2 : curve[i] = <<i - 1, OnLine(floor, hs, i - 1)>>
  <2>1. StrokesTo(curve, floor, hs, n2)
    BY CurveIsOnLine
  <2>2. /\ curve \in Seq(Int \X Int) /\ Len(curve) = n2
        /\ \A i \in 1 .. n2 : curve[i] = <<i - 1, OnLine(floor, hs, i - 1)>>
    BY <2>1 DEF StrokesTo
  <2>3. DOMAIN curve = 1 .. n2
    <3> HIDE DEF curve, n2
    <3>. QED BY <2>2
  <2>. QED BY <2>2, <2>3
<1> HIDE DEF curve, n2
<1>6. {curve[k][1] : k \in DOMAIN curve} = Upto(n2)
  <2>1. \A k \in 1 .. n2 : curve[k][1] = k - 1
    BY <1>5
  <2>2. \A x \in 0 .. (n2 - 1) : x + 1 \in 1 .. n2 /\ x + 1 - 1 = x
    BY <1>1
  <2>3. \A k \in 1 .. n2 : k - 1 \in 0 .. (n2 - 1)
    BY <1>1
  <2>4. {curve[k][1] : k \in 1 .. n2} = 0 .. (n2 - 1)
    BY <2>1, <2>2, <2>3
  <2>. QED BY <1>2, <1>5, <2>4
<1>7. ASSUME NEW x \in 0 .. (n2 - 1) PROVE height(x) = OnLine(floor, hs, x)
  <2> DEFINE y == OnLine(floor, hs, x)
  <2>1. x + 1 \in 1 .. n2 /\ x + 1 - 1 = x
    BY <1>1
  <2>2. curve[x + 1] = <<x, y>>
    BY <1>5, <2>1
  <2>3. ToSet(curve) = {curve[i] : i \in 1 .. n2}
    BY <1>5 DEF ToSet
  <2> HIDE DEF y
  <2>4. y \in ys /\ <<x, y>> \in ToSet(curve)
    <3>1. curve[x + 1][2] = y
      BY <2>2
    <3>. QED BY <1>5, <2>1, <2>2, <2>3, <3>1
  <2>5. ASSUME NEW u \in ys, <<x, u>> \in ToSet(curve) PROVE u = y
    <3>1. PICK i \in 1 .. n2 : <<x, u>> = curve[i]
      BY <2>3, <2>5
    <3>2. <<x, u>> = <<i - 1, OnLine(floor, hs, i - 1)>>
      BY <1>5, <3>1
    <3>3. x = i - 1 /\ u = OnLine(floor, hs, i - 1)
      BY <3>2
    <3>. QED BY <3>3 DEF y
  <2>6. height(x) \in ys /\ <<x, height(x)>> \in ToSet(curve)
    <3> HIDE DEF ys
    <3>. QED BY <2>4
  <2> HIDE DEF ys
  <2>7. height(x) = y
    <3> DEFINE u == height(x)
    <3>1. u \in ys /\ <<x, u>> \in ToSet(curve)
      BY <2>6
    <3> HIDE DEF u
    <3>2. u = y
      BY <2>5, <3>1
    <3>. QED BY <3>2 DEF u
  <2>. QED BY <2>7 DEF y
<1>8. ASSUME NEW j \in Points(floor), floor.y[j] # 0, X[j] < n2
      PROVE  height(X[j]) = Scaled(floor, hs, j)
  <2>1. j \in hs.used
    <3>1. j = 0 \/ j = 1 \/ j \in 2 .. (Cardinality(DOMAIN floor.X) - 1)
      BY <1>1, <1>2
    <3>. QED BY <1>1, <1>8, <3>1 DEF HeightsOK
  <2>2. X[j] \in 0 .. (n2 - 1)
    <3>1. X[j] \in Nat
      BY <1>1, <1>2 DEF Places
    <3> HIDE DEF X
    <3>. QED BY <1>1, <1>8, <3>1
  <2>3. \A k \in hs.used : Scaled(floor, hs, k) \in Int
    BY <1>1 DEF Places
  <2>4. OnLine(floor, hs, floor.X[j]) = Scaled(floor, hs, j)
    BY <1>1, <2>1, <2>3, OnLineAtPoint
  <2> HIDE DEF height
  <2>. QED BY <1>7, <2>2, <2>4
<1>9. \A x \in Upto(n2) : height(x) = OnLine(floor, hs, x)
  BY <1>2, <1>7
<1> HIDE DEF height
<1>10. /\ \A j \in Points(floor) : floor.y[j] # 0 /\ X[j] < n2 => height(X[j]) = Scaled(floor, hs, j)
       /\ \A x \in Upto(n2) : height(x) = OnLine(floor, hs, x)
  BY <1>8, <1>9
<1>. QED BY <1>3, <1>4, <1>5, <1>6, <1>10, Zenon DEF Drawn, height, ys, curve, n2

-----------------------------------------------------------------------------
FloorRight == Of("do_floor") => Drawn(result.args, result.value.heights, result.value.curve)

LEMMA FloorIsRight == FloorIsDrawn <=> FloorRight
  BY DEF FloorIsDrawn, FloorRight

LEMMA DrawsTheFloor ==
  ASSUME do_floor
  PROVE  FloorRight'
<1>1. PICK g \in Floors : Returns("do_floor", g, [curve |-> Curve(g, Heights(g)), heights |-> Heights(g)])
  BY DEF do_floor
<1>2. /\ result'.args = g
      /\ result'.value = [curve |-> Curve(g, Heights(g)), heights |-> Heights(g)]
  BY <1>1, ReturnIs
<1>3. Drawn(g, Heights(g), Curve(g, Heights(g)))
  BY HeightsAreRight, HeightsAreDrawn
<1>. QED BY <1>2, <1>3 DEF FloorRight

LEMMA FloorNext ==
  ASSUME FloorRight, [SpectrumNext]_<<signal, result>>
  PROVE  FloorRight'
<1>1. CASE SpectrumNext
  <2>1. CASE do_floor
    BY <2>1, DrawsTheFloor
  <2>2. CASE uncouple \/ decode_residue
    <3>1. ~Of("do_floor")'
      BY <2>2 DEF uncouple, decode_residue, Returns, Of
    <3>. QED BY <3>1 DEF FloorRight
  <2>. QED BY <1>1, <2>1, <2>2 DEF SpectrumNext
<1>2. CASE UNCHANGED <<signal, result>>
  BY <1>2 DEF FloorRight, Of
<1>. QED BY <1>1, <1>2

\* Whatever points a floor has and whatever heights were read for it, as long as it is
\* a legal one: a prediction can be moved to every height of the range and no other;
\* the curve has exactly one height at every place of the block, the one on the
\* straight line between the used points around it, rounded towards the left one, or
\* flat behind the last; and it goes through the points that were moved.
THEOREM FloorsAreDrawn == SpectrumSpec => []FloorIsDrawn
<1>1. SpectrumInit => FloorRight
  BY DEF SpectrumInit, FloorRight, Of
<1>2. FloorRight /\ [SpectrumNext]_<<signal, result>> => FloorRight'
  BY FloorNext
<1>. QED BY <1>1, <1>2, FloorIsRight, PTL DEF SpectrumSpec

-----------------------------------------------------------------------------
(***************************************************************************)
(* The residue: legal residues, and the order of components.               *)
(***************************************************************************)
LEMMA ResidueIs ==
  ASSUME NEW r \in Residues
  PROVE  /\ r.rtype \in 0 .. 2 /\ r.ch \in Nat \ {0} /\ r.skip \subseteq 0 .. (r.ch - 1)
         /\ r.begin \in Nat /\ r.part_size \in Nat \ {0} /\ r.classwords \in Nat \ {0} /\ r.left \in Nat
         /\ Parts(r) \in Nat /\ Passes(r) \in Nat
         /\ Sources(r) = IF Together(r) THEN 1 ELSE r.ch
         /\ Together(r) => r.rtype = 2
         /\ \A j \in 0 .. (Sources(r) - 1), p \in 0 .. (Parts(r) - 1), pass \in 0 .. (Passes(r) - 1) :
              /\ Dim(r, pass, p, j) \in Nat
              /\ Dim(r, pass, p, j) > 0 => r.part_size % Dim(r, pass, p, j) = 0
<1> DEFINE parts == Cardinality(DOMAIN r.class[0])
           passes == Cardinality(DOMAIN r.books[0])
<1>1. /\ r.rtype \in 0 .. 2 /\ r.ch \in Nat \ {0} /\ r.skip \subseteq 0 .. (r.ch - 1)
      /\ r.begin \in Nat /\ r.part_size \in Nat \ {0} /\ r.classwords \in Nat \ {0} /\ r.left \in Nat
      /\ parts \in Nat /\ passes \in Nat
  BY ResiduesAssumption DEF Upto
<1>2. \A j \in 0 .. ((IF r.rtype = 2 THEN 1 ELSE r.ch) - 1), p \in 0 .. (parts - 1), pass \in 0 .. (passes - 1) :
        LET dim == r.books[r.class[j][p]][pass]
        IN  dim \in Nat /\ (dim > 0 => r.part_size % dim = 0)
  BY ResiduesAssumption DEF Upto
<1>3. Sources(r) = IF r.rtype = 2 THEN 1 ELSE r.ch
  BY <1>1 DEF Sources, Together
<1>4. parts = Parts(r) /\ passes = Passes(r)
  BY DEF Parts, Passes
<1> HIDE DEF parts, passes
<1>5. \A j \in 0 .. (Sources(r) - 1), p \in 0 .. (Parts(r) - 1), pass \in 0 .. (Passes(r) - 1) :
        /\ Dim(r, pass, p, j) \in Nat
        /\ Dim(r, pass, p, j) > 0 => r.part_size % Dim(r, pass, p, j) = 0
  BY <1>2, <1>3, <1>4 DEF Dim
<1>6. Together(r) => r.rtype = 2
  BY <1>1 DEF Together
<1>. QED BY <1>1, <1>4, <1>5, <1>6 DEF Sources

\* There is one quotient.
LEMMA QuotientIs ==
  ASSUME NEW a \in Nat \ {0}, NEW q \in Nat, NEW m \in 0 .. (a - 1), NEW z \in Nat, z = a * q + m
  PROVE  z \div a = q /\ z % a = m
<1> DEFINE k == z \div a
           n == z % a
<1>1. k \in Nat /\ n \in 0 .. (a - 1) /\ z = a * k + n
  <2>1. \A e \in Nat, d \in Nat \ {0} : e \div d \in Nat /\ e % d \in 0 .. (d - 1) /\ e = d * (e \div d) + (e % d)
    OBVIOUS
  <2>. QED BY <2>1
<1> HIDE DEF k, n
<1>2. \A u \in Nat, v \in Nat : u < v => a * u + a <= a * v
  <2>1. SUFFICES ASSUME NEW u \in Nat, NEW v \in Nat, u < v PROVE a * u + a <= a * v
    OBVIOUS
  <2>2. PICK w \in Nat : v = (u + 1) + w
    <3>1. v - (u + 1) \in Nat /\ v = (u + 1) + (v - (u + 1))
      BY <2>1
    <3>. QED BY <3>1
  <2>3. a * v = (a * u + a) + a * w /\ a * w \in Nat /\ a * u \in Nat
    <3>1. \A x \in Nat, y \in Nat : a * ((x + 1) + y) = (a * x + a) + a * y /\ a * x \in Nat
      OBVIOUS
    <3>. QED BY <2>2, <3>1
  <2>. QED BY <2>3
<1>3. a * k \in Nat /\ a * q \in Nat
  BY <1>1
<1>4. k = q
  <2>1. ~(k < q)
    BY <1>1, <1>2, <1>3
  <2>2. ~(q < k)
    BY <1>1, <1>2, <1>3
  <2>. QED BY <1>1, <2>1, <2>2
<1>5. m = n
  BY <1>1, <1>3, <1>4
<1>. QED BY <1>4, <1>5 DEF k, n

LEMMA RemainderIs ==
  ASSUME NEW z \in Nat, NEW a \in Nat \ {0}
  PROVE  z \div a \in Nat /\ z % a \in 0 .. (a - 1) /\ z = a * (z \div a) + (z % a)
<1>1. \A e \in Nat, d \in Nat \ {0} : e \div d \in Nat /\ e % d \in 0 .. (d - 1) /\ e = d * (e \div d) + (e % d)
  OBVIOUS
<1>. QED BY <1>1

\* One further.
LEMMA NextPlace ==
  ASSUME NEW z \in Nat, NEW a \in Nat \ {0}
  PROVE  /\ (z % a) + 1 = a => (z + 1) % a = 0 /\ (z + 1) \div a = (z \div a) + 1
         /\ (z % a) + 1 # a => (z + 1) % a = (z % a) + 1 /\ (z + 1) \div a = z \div a
<1> DEFINE q == z \div a
           m == z % a
<1>1. q \in Nat /\ m \in 0 .. (a - 1) /\ z = a * q + m
  BY RemainderIs
<1> HIDE DEF q, m
<1>2. a * q \in Nat /\ a * (q + 1) = a * q + a
  BY <1>1
<1>3. ASSUME m + 1 = a PROVE (z + 1) % a = 0 /\ (z + 1) \div a = q + 1
  <2>1. PICK x, k, n : x = z + 1 /\ k = q + 1 /\ n = 0
    OBVIOUS
  <2>2. x = a * k + n /\ k \in Nat /\ n \in 0 .. (a - 1) /\ x \in Nat
    BY <1>1, <1>2, <1>3, <2>1
  <2>3. x \div a = k /\ x % a = n
    BY <2>2, QuotientIs
  <2>. QED BY <2>1, <2>3
<1>4. ASSUME m + 1 # a PROVE (z + 1) % a = m + 1 /\ (z + 1) \div a = q
  <2>1. PICK x, n : x = z + 1 /\ n = m + 1
    OBVIOUS
  <2>2. x = a * q + n /\ n \in 0 .. (a - 1) /\ x \in Nat
    BY <1>1, <1>2, <1>4, <2>1
  <2>3. x \div a = q /\ x % a = n
    BY <1>1, <2>2, QuotientIs
  <2>. QED BY <2>1, <2>3
<1>. QED BY <1>3, <1>4 DEF q, m

\* The names of vectors and of components, what is added, and the decoder.
VectorNames == Nat \X Nat \X Nat \X Nat
ComponentNames == Nat \X Nat \X Nat \X Nat \X Nat
Additions == (Nat \X Nat) \X ComponentNames
Decoders(ch) == [added : Seq(Additions), left : Nat, done : BOOLEAN, c : 0 .. (ch - 1), p : Nat]

\* The order of the vectors, spelled out.
Sooner(a1, a2, a3, a4, b1, b2, b3, b4) ==
  \/ a1 < b1
  \/ a1 = b1 /\ a2 < b2
  \/ a1 = b1 /\ a2 = b2 /\ a3 < b3
  \/ a1 = b1 /\ a2 = b2 /\ a3 = b3 /\ a4 < b4

LEMMA EarlierIs ==
  ASSUME NEW s, NEW t
  PROVE  Earlier(s, t) <=> Sooner(s[1], s[2], s[3], s[4], t[1], t[2], t[3], t[4])
<1> DEFINE P(k) == s[k] < t[k] /\ \A l \in 1 .. (k - 1) : s[l] = t[l]
<1>1. Earlier(s, t) <=> P(1) \/ P(2) \/ P(3) \/ P(4)
  <2>1. 1 .. 4 = {1, 2, 3, 4}
    OBVIOUS
  <2>2. Earlier(s, t) <=> \E k \in {1, 2, 3, 4} : P(k)
    BY <2>1, Zenon DEF Earlier
  <2> HIDE DEF P
  <2>. QED BY <2>2
<1>2. 1 .. (1 - 1) = {} /\ 1 .. (2 - 1) = {1} /\ 1 .. (3 - 1) = {1, 2} /\ 1 .. (4 - 1) = {1, 2, 3}
  OBVIOUS
<1>3. P(1) <=> s[1] < t[1]
  BY <1>2
<1>4. P(2) <=> s[1] = t[1] /\ s[2] < t[2]
  BY <1>2
<1>5. P(3) <=> s[1] = t[1] /\ s[2] = t[2] /\ s[3] < t[3]
  BY <1>2
<1>6. P(4) <=> s[1] = t[1] /\ s[2] = t[2] /\ s[3] = t[3] /\ s[4] < t[4]
  BY <1>2
<1> HIDE DEF P
<1>. QED BY <1>1, <1>3, <1>4, <1>5, <1>6 DEF Sooner

IsVector(r, t1, t2, t3, t4) ==
  /\ t1 \in 0 .. (Passes(r) - 1) /\ t2 \in 0 .. (Parts(r) - 1)
  /\ t3 \in 0 .. (Sources(r) - 1) /\ ~Undecoded(r, t3)
  /\ Dim(r, t1, t2, t3) > 0
  /\ t4 \in 0 .. ((r.part_size \div Dim(r, t1, t2, t3)) - 1)

\* A partition is a whole number of vectors.
LEMMA VectorsFill ==
  ASSUME NEW r \in Residues, NEW t1, NEW t2, NEW t3, NEW t4, IsVector(r, t1, t2, t3, t4)
  PROVE  LET dim == Dim(r, t1, t2, t3)
             q == r.part_size \div dim
         IN  /\ dim \in Nat \ {0} /\ q \in Nat \ {0} /\ r.part_size = dim * q /\ q <= r.part_size
             /\ t4 \in 0 .. (q - 1) /\ t1 \in Nat /\ t2 \in Nat /\ t3 \in Nat /\ t4 \in Nat
             /\ r.part_size \in Nat \ {0}
<1> DEFINE dim == Dim(r, t1, t2, t3)
           q == r.part_size \div dim
           size == r.part_size
<1>1. /\ dim \in Nat \ {0} /\ size \in Nat \ {0} /\ size % dim = 0
      /\ t1 \in Nat /\ t2 \in Nat /\ t3 \in Nat /\ t4 \in 0 .. (q - 1)
  BY ResidueIs DEF IsVector
<1> HIDE DEF dim, size
<1>2. q \in Nat /\ size = dim * q
  <2>1. size \div dim \in Nat /\ size = dim * (size \div dim) + (size % dim)
    BY <1>1, RemainderIs
  <2>. QED BY <1>1, <2>1 DEF size
<1> HIDE DEF q
<1>3. q # 0 /\ q <= size
  <2>1. q # 0
    BY <1>1, <1>2
  <2>2. PICK e \in Nat : dim = 1 + e
    <3>1. dim - 1 \in Nat /\ dim = 1 + (dim - 1)
      BY <1>1
    <3>. QED BY <3>1
  <2>3. dim * q = q + e * q /\ e * q \in Nat
    <3>1. \A a \in Nat, b \in Nat : (1 + a) * b = b + a * b /\ a * b \in Nat
      OBVIOUS
    <3>. QED BY <1>2, <2>2, <3>1
  <2>. QED BY <1>2, <2>1, <2>3
<1>. QED BY <1>1, <1>2, <1>3 DEF dim, q, size

IsComponent(r, s) ==
  /\ s \in ComponentNames /\ IsVector(r, s[1], s[2], s[3], s[4])
  /\ s[5] < Dim(r, s[1], s[2], s[3]) /\ Kept(r, s)

LEMMA ComponentIs ==
  ASSUME NEW r \in Residues, NEW s
  PROVE  s \in Components(r) <=> IsComponent(r, s)
<1>0. /\ Passes(r) \in Nat /\ Parts(r) \in Nat /\ Sources(r) \in Nat
      /\ \A j \in 0 .. (Sources(r) - 1), p \in 0 .. (Parts(r) - 1), pass \in 0 .. (Passes(r) - 1) :
           Dim(r, pass, p, j) \in Nat
  BY ResidueIs
<1>1. ASSUME NEW t \in Vectors(r), NEW i \in 0 .. (Dim(r, t[1], t[2], t[3]) - 1), s = Component(t, i), Kept(r, s)
      PROVE  IsComponent(r, s)
  <2>1. /\ t[1] \in 0 .. (Passes(r) - 1) /\ t[2] \in 0 .. (Parts(r) - 1)
        /\ t[3] \in 0 .. (Sources(r) - 1) /\ ~Undecoded(r, t[3]) /\ t[4] \in 0 .. (r.part_size - 1)
        /\ Dim(r, t[1], t[2], t[3]) > 0 /\ t[4] < r.part_size \div Dim(r, t[1], t[2], t[3])
    BY DEF Vectors, IsCoded, Undecoded, Upto
  <2>2. s = <<t[1], t[2], t[3], t[4], i>>
    BY <1>1 DEF Component
  <2>3. s[1] = t[1] /\ s[2] = t[2] /\ s[3] = t[3] /\ s[4] = t[4] /\ s[5] = i
    BY <2>2
  <2>4. Dim(r, t[1], t[2], t[3]) \in Nat
    BY <1>0, <2>1
  <2>5. i \in Nat /\ i < Dim(r, t[1], t[2], t[3])
    BY <2>4
  <2>6. s \in ComponentNames
    BY <1>0, <2>1, <2>2, <2>5 DEF ComponentNames
  <2>7. IsVector(r, t[1], t[2], t[3], t[4])
    <3>1. r.part_size \div Dim(r, t[1], t[2], t[3]) \in Nat
      <4>1. r.part_size \in Nat
        BY ResidueIs
      <4>2. PICK dim : dim = Dim(r, t[1], t[2], t[3])
        OBVIOUS
      <4>3. dim \in Nat \ {0}
        BY <2>1, <2>4, <4>2
      <4>4. r.part_size \div dim \in Nat
        BY <4>1, <4>3, RemainderIs
      <4>. QED BY <4>2, <4>4
    <3>. QED BY <2>1, <3>1 DEF IsVector
  <2>. QED BY <1>1, <2>3, <2>5, <2>6, <2>7 DEF IsComponent
<1>2. ASSUME IsComponent(r, s)
      PROVE  \E t \in Vectors(r) : s \in {Component(t, i) : i \in Upto(Dim(r, t[1], t[2], t[3]))}
  <2>1. PICK t : t = <<s[1], s[2], s[3], s[4]>>
    OBVIOUS
  <2>2. t[1] = s[1] /\ t[2] = s[2] /\ t[3] = s[3] /\ t[4] = s[4]
    BY <2>1
  <2>3. s = <<s[1], s[2], s[3], s[4], s[5]>> /\ s[5] \in Nat
    BY <1>2 DEF IsComponent, ComponentNames
  <2>4. s = Component(t, s[5])
    BY <2>2, <2>3 DEF Component
  <2>5. IsVector(r, s[1], s[2], s[3], s[4]) /\ s[5] < Dim(r, s[1], s[2], s[3])
    BY <1>2 DEF IsComponent
  <2>6. s[5] \in Upto(Dim(r, t[1], t[2], t[3]))
    <3>1. Dim(r, s[1], s[2], s[3]) \in Nat
      BY <1>0, <2>5 DEF IsVector
    <3>. QED BY <2>2, <2>3, <2>5, <3>1 DEF Upto
  <2>7. t \in Vectors(r)
    <3>1. r.part_size \div Dim(r, s[1], s[2], s[3]) \in Nat /\ r.part_size \in Nat
          /\ r.part_size \div Dim(r, s[1], s[2], s[3]) <= r.part_size /\ s[4] \in Nat
      BY <2>5, VectorsFill
    <3>2. s[4] \in 0 .. (r.part_size - 1) /\ s[4] < r.part_size \div Dim(r, s[1], s[2], s[3])
      BY <2>5, <3>1 DEF IsVector
    <3>3. t \in Upto(Passes(r)) \X Upto(Parts(r)) \X {j \in Upto(Sources(r)) : IsCoded(r, j)} \X Upto(r.part_size)
      BY <2>1, <2>5, <3>2 DEF IsVector, IsCoded, Undecoded, Upto
    <3>. QED BY <2>2, <2>5, <3>2, <3>3 DEF Vectors, IsVector
  <2>. QED BY <2>4, <2>6, <2>7
<1>3. s \in Components(r) <=>
        /\ \E t \in Vectors(r) : s \in {Component(t, i) : i \in Upto(Dim(r, t[1], t[2], t[3]))}
        /\ Kept(r, s)
  BY Zenon DEF Components
<1>4. ASSUME NEW t \in Vectors(r), s \in {Component(t, i) : i \in Upto(Dim(r, t[1], t[2], t[3]))}, Kept(r, s)
      PROVE  IsComponent(r, s)
  BY <1>1, <1>4 DEF Upto
<1>5. IsComponent(r, s) => Kept(r, s)
  BY DEF IsComponent
<1>. QED BY <1>2, <1>3, <1>4, <1>5

-----------------------------------------------------------------------------
(***************************************************************************)
(* The residue: what is added so far, and how it grows by a vector.        *)
(***************************************************************************)
\* What was added before the vector w: components at their places, each once and in
\* their order, and all that are earlier.
RightSoFar(r, x, w) ==
  /\ \A k \in 1 .. Len(x) : /\ x[k][2] \in Components(r)
                            /\ Earlier(x[k][2], w)
                            /\ x[k][1] = ComponentAt(r, x[k][2])
  /\ \A k, l \in 1 .. Len(x) : x[k][2] = x[l][2] => k = l
  /\ \A k, l \in 1 .. Len(x) : Earlier(x[k][2], x[l][2]) => k < l
  /\ \A s \in Components(r) : Earlier(s, w) => \E k \in 1 .. Len(x) : x[k][2] = s

LEMMA MovesOn ==
  ASSUME NEW r, NEW x, NEW w, NEW u, RightSoFar(r, x, w),
         \A s \in Components(r) : Earlier(s, w) <=> Earlier(s, u)
  PROVE  RightSoFar(r, x, u)
  BY DEF RightSoFar

\* The first m components of a vector were added.
Grown(r, x, z, vector, m) ==
  /\ x \in Seq(Additions) /\ z \in Seq(Additions) /\ Len(z) = Len(x) + m
  /\ \A k \in 1 .. Len(x) : z[k] = x[k]
  /\ \A i \in 0 .. (m - 1) :
       z[Len(x) + i + 1] = <<ComponentAt(r, Component(vector, i)), Component(vector, i)>>

LEMMA GrownIsRight ==
  ASSUME NEW r \in Residues, NEW pass, NEW p, NEW j, NEW v, IsVector(r, pass, p, j, v),
         NEW x, NEW z, NEW m \in Nat, m <= Dim(r, pass, p, j),
         \A i \in 0 .. (Dim(r, pass, p, j) - 1) : Kept(r, Component(<<pass, p, j, v>>, i)) <=> i < m,
         Grown(r, x, z, <<pass, p, j, v>>, m), RightSoFar(r, x, <<pass, p, j, v>>)
  PROVE  RightSoFar(r, z, <<pass, p, j, v + 1>>)
<1> DEFINE w == <<pass, p, j, v>>
           u == <<pass, p, j, v + 1>>
           dim == Dim(r, pass, p, j)
           n == Len(x)
           new(i) == Component(w, i)
<1>1. /\ pass \in Nat /\ p \in Nat /\ j \in Nat /\ v \in Nat /\ dim \in Nat /\ n \in Nat
      /\ x \in Seq(Additions) /\ z \in Seq(Additions) /\ Len(z) = n + m
  BY VectorsFill DEF Grown
<1>2. \A s : /\ Earlier(s, w) <=> Sooner(s[1], s[2], s[3], s[4], pass, p, j, v)
             /\ Earlier(s, u) <=> Sooner(s[1], s[2], s[3], s[4], pass, p, j, v + 1)
  BY EarlierIs
<1>3. \A i : /\ new(i) = <<pass, p, j, v, i>>
             /\ new(i)[1] = pass /\ new(i)[2] = p /\ new(i)[3] = j /\ new(i)[4] = v /\ new(i)[5] = i
  BY DEF Component
<1>4. \A i \in 0 .. (m - 1) : /\ z[n + i + 1] = <<ComponentAt(r, new(i)), new(i)>>
                              /\ z[n + i + 1][1] = ComponentAt(r, new(i)) /\ z[n + i + 1][2] = new(i)
  <2>1. \A i \in 0 .. (m - 1) : z[n + i + 1] = <<ComponentAt(r, new(i)), new(i)>>
    BY Zenon DEF Grown
  <2>2. \A a, b, c : c = <<a, b>> => c[1] = a /\ c[2] = b
    OBVIOUS
  <2> HIDE DEF new, n
  <2>. QED BY <2>1, <2>2
<1>5. \A k \in 1 .. n : z[k] = x[k]
  BY DEF Grown
<1>17. \A i \in 0 .. (dim - 1) : Kept(r, new(i)) <=> i < m
  OBVIOUS
<1> HIDE DEF w, u, n, new
<1>6. ASSUME NEW i \in 0 .. (m - 1)
      PROVE  new(i) \in Components(r) /\ Earlier(new(i), u) /\ ~Earlier(new(i), w)
  <2>1. i \in Nat /\ i < dim
    BY <1>1
  <2>2. IsComponent(r, new(i))
    <3>1. new(i) \in ComponentNames
      BY <1>1, <1>3, <2>1 DEF ComponentNames
    <3>2. Kept(r, new(i))
      <4>1. i \in 0 .. (dim - 1) /\ i < m
        BY <1>1, <2>1
      <4>. QED BY <1>17, <4>1
    <3>. QED BY <1>3, <2>1, <3>1, <3>2 DEF IsComponent
  <2>3. new(i) \in Components(r)
    BY <2>2, ComponentIs
  <2>4. Sooner(pass, p, j, v, pass, p, j, v + 1) /\ ~Sooner(pass, p, j, v, pass, p, j, v)
    BY <1>1 DEF Sooner
  <2>. QED BY <1>2, <1>3, <2>3, <2>4
<1>7. \A s \in Components(r) : /\ Earlier(s, w) => Earlier(s, u)
                               /\ Earlier(s, u) => Earlier(s, w) \/ \E i \in 0 .. (dim - 1) : s = new(i)
  <2>1. SUFFICES ASSUME NEW s \in Components(r)
                 PROVE  /\ Earlier(s, w) => Earlier(s, u)
                        /\ Earlier(s, u) => Earlier(s, w) \/ \E i \in 0 .. (dim - 1) : s = new(i)
    OBVIOUS
  <2>2. s \in ComponentNames /\ s[5] < Dim(r, s[1], s[2], s[3])
    BY ComponentIs DEF IsComponent
  <2>3. s = <<s[1], s[2], s[3], s[4], s[5]>> /\ s[1] \in Nat /\ s[2] \in Nat /\ s[3] \in Nat /\ s[4] \in Nat /\ s[5] \in Nat
    BY <2>2 DEF ComponentNames
  <2>4. \A b1, b2, b3, b4 \in Nat :
          /\ Sooner(b1, b2, b3, b4, pass, p, j, v) => Sooner(b1, b2, b3, b4, pass, p, j, v + 1)
          /\ Sooner(b1, b2, b3, b4, pass, p, j, v + 1) =>
               Sooner(b1, b2, b3, b4, pass, p, j, v) \/ (b1 = pass /\ b2 = p /\ b3 = j /\ b4 = v)
    BY <1>1 DEF Sooner
  <2>5. Earlier(s, w) => Earlier(s, u)
    BY <1>2, <2>3, <2>4
  <2>6. ASSUME Earlier(s, u), ~Earlier(s, w) PROVE \E i \in 0 .. (dim - 1) : s = new(i)
    <3>1. s[1] = pass /\ s[2] = p /\ s[3] = j /\ s[4] = v
      BY <1>2, <2>3, <2>4, <2>6
    <3>2. s[5] \in 0 .. (dim - 1)
      <4>1. s[5] < dim
        BY <2>2, <3>1
      <4>2. s[5] \in Nat
        BY <2>3
      <4> HIDE DEF dim
      <4>. QED BY <1>1, <4>1, <4>2
    <3>3. s = new(s[5])
      BY <1>3, <2>3, <3>1
    <3>. QED BY <3>2, <3>3
  <2>. QED BY <2>5, <2>6
<1>8. RightSoFar(r, x, w)
  BY DEF w
<1>9. /\ \A k \in 1 .. n : x[k][2] \in Components(r) /\ Earlier(x[k][2], w) /\ x[k][1] = ComponentAt(r, x[k][2])
      /\ \A k, l \in 1 .. n : x[k][2] = x[l][2] => k = l
      /\ \A k, l \in 1 .. n : Earlier(x[k][2], x[l][2]) => k < l
      /\ \A s \in Components(r) : Earlier(s, w) => \E k \in 1 .. n : x[k][2] = s
  BY <1>8 DEF RightSoFar, n
<1>10. \A k \in 1 .. (n + m) : k \in 1 .. n \/ \E i \in 0 .. (m - 1) : k = n + i + 1
  <2>1. SUFFICES ASSUME NEW k \in 1 .. (n + m), k \notin 1 .. n PROVE \E i \in 0 .. (m - 1) : k = n + i + 1
    OBVIOUS
  <2>2. k - (n + 1) \in 0 .. (m - 1) /\ k = n + (k - (n + 1)) + 1
    BY <1>1, <2>1
  <2>. QED BY <2>2
<1>11. ASSUME NEW k \in 1 .. (n + m)
       PROVE  z[k][2] \in Components(r) /\ Earlier(z[k][2], u) /\ z[k][1] = ComponentAt(r, z[k][2])
  <2>1. CASE k \in 1 .. n
    BY <1>5, <1>7, <1>9, <2>1
  <2>2. CASE \E i \in 0 .. (m - 1) : k = n + i + 1
    <3>1. PICK i \in 0 .. (m - 1) : k = n + i + 1
      BY <2>2
    <3>. QED BY <1>4, <1>6, <3>1
  <2>. QED BY <1>10, <2>1, <2>2
<1>12. ASSUME NEW k \in 1 .. (n + m), NEW l \in 1 .. (n + m), z[k][2] = z[l][2] PROVE k = l
  <2>1. CASE k \in 1 .. n /\ l \in 1 .. n
    BY <1>5, <1>9, <1>12, <2>1
  <2>2. ASSUME NEW a \in 1 .. n, NEW i \in 0 .. (m - 1) PROVE z[a][2] # z[n + i + 1][2]
    <3>1. Earlier(z[a][2], w)
      BY <1>5, <1>9
    <3>2. ~Earlier(z[n + i + 1][2], w)
      BY <1>4, <1>6
    <3>. QED BY <3>1, <3>2
  <2>3. ASSUME NEW a \in 0 .. (m - 1), NEW i \in 0 .. (m - 1), z[n + a + 1][2] = z[n + i + 1][2] PROVE a = i
    <3>1. new(a) = new(i)
      BY <1>4, <2>3
    <3>2. new(a)[5] = a /\ new(i)[5] = i
      BY <1>3
    <3>. QED BY <3>1, <3>2
  <2>4. CASE \E a \in 0 .. (m - 1), i \in 0 .. (m - 1) : k = n + a + 1 /\ l = n + i + 1
    BY <1>12, <2>3, <2>4
  <2>5. CASE k \in 1 .. n /\ \E i \in 0 .. (m - 1) : l = n + i + 1
    BY <1>12, <2>2, <2>5
  <2>6. CASE l \in 1 .. n /\ \E i \in 0 .. (m - 1) : k = n + i + 1
    BY <1>12, <2>2, <2>6
  <2>. QED BY <1>10, <2>1, <2>4, <2>5, <2>6
<1>13. ASSUME NEW s \in Components(r), Earlier(s, u) PROVE \E k \in 1 .. (n + m) : z[k][2] = s
  <2>1. CASE Earlier(s, w)
    <3>1. PICK k \in 1 .. n : x[k][2] = s
      BY <1>9, <2>1
    <3>2. k \in 1 .. (n + m) /\ z[k][2] = s
      BY <1>1, <1>5, <3>1
    <3>. QED BY <3>2
  <2>2. CASE \E i \in 0 .. (dim - 1) : s = new(i)
    <3>1. PICK i \in 0 .. (dim - 1) : s = new(i)
      BY <2>2
    <3>2. Kept(r, s)
      BY ComponentIs DEF IsComponent
    <3>3. i \in 0 .. (m - 1)
      <4>1. i < m
        BY <1>17, <3>1, <3>2
      <4>. QED BY <1>1, <4>1
    <3>4. n + i + 1 \in 1 .. (n + m) /\ z[n + i + 1][2] = s
      BY <1>1, <1>4, <3>1, <3>3
    <3>. QED BY <3>4
  <2>. QED BY <1>7, <1>13, <2>1, <2>2
<1>18. ASSUME NEW k \in 1 .. (n + m), NEW l \in 1 .. (n + m), Earlier(z[k][2], z[l][2]) PROVE k < l
  <2>1. CASE k \in 1 .. n /\ l \in 1 .. n
    BY <1>5, <1>9, <1>18, <2>1
  <2>2. CASE k \in 1 .. n /\ \E i \in 0 .. (m - 1) : l = n + i + 1
    BY <1>1, <2>2
  <2>3. ASSUME NEW i \in 0 .. (m - 1), k = n + i + 1 PROVE FALSE
    <3>1. z[k][2] = new(i)
      BY <1>4, <2>3
    <3>2. PICK t : t = z[l][2]
      OBVIOUS
    <3>3. Earlier(new(i), t) /\ t \in Components(r)
      BY <1>11, <1>18, <3>1, <3>2
    <3>4. Sooner(pass, p, j, v, t[1], t[2], t[3], t[4])
      BY <1>3, <3>3, EarlierIs
    <3>5. Earlier(t, u)
      BY <1>11, <3>2
    <3>6. Sooner(t[1], t[2], t[3], t[4], pass, p, j, v + 1)
      BY <1>2, <3>5
    <3>7. t[1] \in Nat /\ t[2] \in Nat /\ t[3] \in Nat /\ t[4] \in Nat
      BY <3>3, ComponentIs DEF IsComponent, ComponentNames
    <3>8. \A b1, b2, b3, b4 \in Nat :
            ~(Sooner(pass, p, j, v, b1, b2, b3, b4) /\ Sooner(b1, b2, b3, b4, pass, p, j, v + 1))
      BY <1>1 DEF Sooner
    <3>. QED BY <3>4, <3>6, <3>7, <3>8
  <2>. QED BY <1>10, <2>1, <2>2, <2>3
<1>14. Len(z) = n + m
  BY <1>1
<1>15. RightSoFar(r, z, u)
  BY <1>11, <1>12, <1>13, <1>14, <1>18 DEF RightSoFar
<1>. QED BY <1>15 DEF u

\* One more.
LEMMA GrowsByOne ==
  ASSUME NEW r, NEW x, NEW z, NEW vector, NEW m \in Nat, Grown(r, x, z, vector, m),
         NEW entry \in Additions, entry = <<ComponentAt(r, Component(vector, m)), Component(vector, m)>>
  PROVE  Grown(r, x, Append(z, entry), vector, m + 1)
<1> DEFINE y == Append(z, entry)
<1>1. /\ x \in Seq(Additions) /\ z \in Seq(Additions) /\ Len(z) = Len(x) + m
      /\ \A k \in 1 .. Len(x) : z[k] = x[k]
      /\ \A i \in 0 .. (m - 1) :
           z[Len(x) + i + 1] = <<ComponentAt(r, Component(vector, i)), Component(vector, i)>>
  BY DEF Grown
<1>2. /\ y \in Seq(Additions) /\ Len(y) = Len(z) + 1 /\ y[Len(z) + 1] = entry
      /\ \A k \in 1 .. Len(z) : y[k] = z[k]
  BY <1>1
<1> HIDE DEF y
<1>3. PICK n \in Nat : n = Len(x)
  BY <1>1
<1>4. Len(y) = n + (m + 1) /\ \A k \in 1 .. n : y[k] = x[k]
  BY <1>1, <1>2, <1>3
<1>5. ASSUME NEW i \in 0 .. ((m + 1) - 1)
      PROVE  y[n + i + 1] = <<ComponentAt(r, Component(vector, i)), Component(vector, i)>>
  <2>1. CASE i = m
    BY <1>1, <1>2, <1>3, <2>1
  <2>2. CASE i \in 0 .. (m - 1)
    <3>1. n + i + 1 \in 1 .. Len(z)
      BY <1>1, <1>3, <2>2
    <3>. QED BY <1>1, <1>2, <1>3, <2>2, <3>1
  <2>. QED BY <2>1, <2>2
<1>6. Grown(r, x, y, vector, m + 1)
  BY <1>1, <1>2, <1>3, <1>4, <1>5 DEF Grown
<1>. QED BY <1>6 DEF y

LEMMA SymbolIs ==
  ASSUME NEW ch \in Nat \ {0}, NEW d \in Decoders(ch)
  PROVE  /\ Symbol(d) \in Decoders(ch)
         /\ Symbol(d).added = d.added /\ Symbol(d).c = d.c /\ Symbol(d).p = d.p
         /\ d.done => Symbol(d).done
<1>1. CASE d.left = 0
  BY <1>1 DEF Symbol, Decoders
<1>2. CASE d.left # 0
  <2>1. d.left - 1 \in Nat
    BY <1>2 DEF Decoders
  <2>. QED BY <1>2, <2>1 DEF Symbol, Decoders
<1>. QED BY <1>1, <1>2

LEMMA FromIs ==
  ASSUME NEW ch \in Nat \ {0}, NEW d \in Decoders(ch), NEW z \in Nat
  PROVE  /\ From(d, ch, z) \in Decoders(ch)
         /\ From(d, ch, z).added = d.added /\ From(d, ch, z).done = d.done
         /\ From(d, ch, z).c = z % ch /\ From(d, ch, z).p = z \div ch
<1>1. z \div ch \in Nat /\ z % ch \in 0 .. (ch - 1)
  BY RemainderIs
<1>. QED BY <1>1 DEF From, Decoders

LEMMA DoneIs ==
  ASSUME NEW ch \in Nat \ {0}, NEW d \in Decoders(ch)
  PROVE  /\ [d EXCEPT !.done = TRUE] \in Decoders(ch)
         /\ [d EXCEPT !.done = TRUE].done = TRUE /\ [d EXCEPT !.done = TRUE].added = d.added
  BY DEF Decoders

LEMMA PutIs ==
  ASSUME NEW ch \in Nat \ {0}, NEW d \in Decoders(ch), NEW name \in ComponentNames
  PROVE  LET e == Put(d, ch, name)
         IN  /\ e \in Decoders(ch) /\ e.done = d.done
             /\ <<<<d.c, d.p>>, name>> \in Additions
             /\ e.added = Append(d.added, <<<<d.c, d.p>>, name>>)
             /\ d.c + 1 = ch => e.c = 0 /\ e.p = d.p + 1
             /\ d.c + 1 # ch => e.c = d.c + 1 /\ e.p = d.p
<1>1. /\ d.c \in 0 .. (ch - 1) /\ d.p \in Nat /\ d.added \in Seq(Additions) /\ d.done \in BOOLEAN /\ d.left \in Nat
      /\ d = [added |-> d.added, left |-> d.left, done |-> d.done, c |-> d.c, p |-> d.p]
  BY DEF Decoders
<1>2. <<<<d.c, d.p>>, name>> \in Additions
  BY <1>1 DEF Additions
<1>3. Append(d.added, <<<<d.c, d.p>>, name>>) \in Seq(Additions)
  BY <1>1, <1>2
<1>4. PICK more \in Seq(Additions) : more = Append(d.added, <<<<d.c, d.p>>, name>>)
  BY <1>3
<1>5. PICK c \in 0 .. (ch - 1), p \in Nat : /\ c = IF d.c + 1 = ch THEN 0 ELSE d.c + 1
                                         /\ p = IF d.c + 1 = ch THEN d.p + 1 ELSE d.p
  <2>1. CASE d.c + 1 = ch
    BY <1>1, <2>1
  <2>2. CASE d.c + 1 # ch
    <3>1. d.c + 1 \in 0 .. (ch - 1)
      BY <1>1, <2>2
    <3>. QED BY <1>1, <2>2, <3>1
  <2>. QED BY <2>1, <2>2
<1>6. Put(d, ch, name) = [d EXCEPT !.added = more, !.c = c, !.p = p]
  BY <1>4, <1>5, Zenon DEF Put
<1>7. [d EXCEPT !.added = more, !.c = c, !.p = p] \in Decoders(ch)
  BY DEF Decoders
<1>8. PICK e \in Decoders(ch) : e = [d EXCEPT !.added = more, !.c = c, !.p = p]
  BY <1>7
<1>9. e.added = more /\ e.c = c /\ e.p = p /\ e.done = d.done
  BY <1>8 DEF Decoders
<1>. QED BY <1>2, <1>4, <1>5, <1>6, <1>8, <1>9

LEMMA PutPairIs ==
  ASSUME NEW d \in Decoders(2), NEW vector, NEW i \in Nat,
         Component(vector, i) \in ComponentNames, Component(vector, i + 1) \in ComponentNames
  PROVE  LET e == PutPair(d, vector, i)
             one == <<<<0, d.p>>, Component(vector, i)>>
             two == <<<<1, d.p>>, Component(vector, i + 1)>>
         IN  /\ e \in Decoders(2) /\ e.done = d.done /\ one \in Additions /\ two \in Additions
             /\ e.added = Append(Append(d.added, one), two)
             /\ e.c = d.c /\ e.p = d.p + 1
<1> DEFINE one == <<<<0, d.p>>, Component(vector, i)>>
           two == <<<<1, d.p>>, Component(vector, i + 1)>>
           more == d.added \o <<one, two>>
<1>1. /\ d.c \in 0 .. 1 /\ d.p \in Nat /\ d.added \in Seq(Additions) /\ d.done \in BOOLEAN /\ d.left \in Nat
      /\ d = [added |-> d.added, left |-> d.left, done |-> d.done, c |-> d.c, p |-> d.p]
  BY DEF Decoders
<1>2. one \in Additions /\ two \in Additions
  BY <1>1 DEF Additions
<1>3. PutPair(d, vector, i) = [d EXCEPT !.added = more, !.p = d.p + 1]
  BY Zenon DEF PutPair
<1> HIDE DEF one, two
<1>4. more = Append(Append(d.added, one), two) /\ more \in Seq(Additions)
  <2>1. /\ more \in Seq(Additions) /\ Append(Append(d.added, one), two) \in Seq(Additions)
        /\ Len(more) = Len(d.added) + 2 /\ Len(Append(Append(d.added, one), two)) = Len(d.added) + 2
    BY <1>1, <1>2
  <2>2. \A k \in 1 .. (Len(d.added) + 2) : more[k] = Append(Append(d.added, one), two)[k]
    BY <1>1, <1>2
  <2> HIDE DEF more
  <2>. QED BY <2>1, <2>2
<1> HIDE DEF more
<1>5. [d EXCEPT !.added = more, !.p = d.p + 1] \in Decoders(2)
  <2>1. PICK z \in Seq(Additions), p \in Nat : z = more /\ p = d.p + 1
    <3>1. d.p + 1 \in Nat
      BY <1>1
    <3>2. more \in Seq(Additions)
      BY <1>4
    <3>. QED BY <3>1, <3>2
  <2>2. [d EXCEPT !.added = z, !.p = p] \in Decoders(2)
    BY DEF Decoders
  <2>. QED BY <2>1, <2>2
<1>6. PICK e \in Decoders(2) : e = [d EXCEPT !.added = more, !.p = d.p + 1]
  BY <1>5
<1>7. e.added = more /\ e.c = d.c /\ e.p = d.p + 1 /\ e.done = d.done
  BY <1>6 DEF Decoders
<1>8. /\ PutPair(d, vector, i) = e /\ e.added = Append(Append(d.added, one), two)
  BY <1>3, <1>4, <1>6, <1>7
<1>. QED BY <1>2, <1>7, <1>8 DEF one, two

LEMMA NamesComponents ==
  ASSUME NEW vector \in VectorNames, NEW i \in Nat
  PROVE  Component(vector, i) \in ComponentNames
  BY DEF VectorNames, ComponentNames, Component

LEMMA PutPairSteps ==
  ASSUME NEW d \in Decoders(2), NEW vector \in VectorNames, NEW m \in Nat
  PROVE  \E e \in Decoders(2), one \in Additions, two \in Additions :
           /\ e = PutPair(d, vector, m) /\ e.done = d.done
           /\ one = <<<<0, d.p>>, Component(vector, m)>>
           /\ two = <<<<1, d.p>>, Component(vector, m + 1)>>
           /\ e.added = Append(Append(d.added, one), two)
           /\ e.c = d.c /\ e.p = d.p + 1
<1>1. Component(vector, m) \in ComponentNames /\ Component(vector, m + 1) \in ComponentNames
  BY NamesComponents
<1>2. PutPair(d, vector, m) \in Decoders(2)
  BY <1>1, PutPairIs
<1>3. PICK e \in Decoders(2) : e = PutPair(d, vector, m)
  BY <1>2
<1>4. /\ e.done = d.done /\ e.c = d.c /\ e.p = d.p + 1
      /\ e.added = Append(Append(d.added, <<<<0, d.p>>, Component(vector, m)>>),
                         <<<<1, d.p>>, Component(vector, m + 1)>>)
  BY <1>1, <1>3, PutPairIs, ZenonT(40)
<1>5. /\ <<<<0, d.p>>, Component(vector, m)>> \in Additions
      /\ <<<<1, d.p>>, Component(vector, m + 1)>> \in Additions
  BY <1>1, PutPairIs, ZenonT(40)
<1>. QED BY <1>3, <1>4, <1>5

-----------------------------------------------------------------------------
(***************************************************************************)
(* The residue: the folds as sequences of decoders.                        *)
(***************************************************************************)
\* The runs of the decoder.
PairsRun(y, vector, odd, size, d) ==
  /\ y \in [0 .. size -> Decoders(2)] /\ y[0] = d
  /\ \A k \in 1 .. size : y[k] = PutPair(y[k - 1], vector, odd + 2 * (k - 1))
  /\ Pairs(vector, odd, size, d) = y[size]

LEMMA PairsIs ==
  ASSUME NEW vector \in VectorNames, NEW odd \in Nat, NEW size \in Nat, NEW d \in Decoders(2)
  PROVE  \E y : PairsRun(y, vector, odd, size, d)
<1> DEFINE n == size
           V == Decoders(2)
           b == d
           Step(v, i) == PutPair(v, vector, odd + 2 * i)
           q == Count(0, size - 1)
           F == [p \in (1 .. n) \X V |-> Step(p[2], q[p[1]])]
           E(g) == g = [s_ \in SUBSET DOMAIN q |->
                          IF s_ = {} THEN b ELSE Step(g[s_ \ {Max(s_)}], q[Max(s_)])]
<1>1. Pairs(vector, odd, size, d) = (CHOOSE g : E(g))[DOMAIN q]
  BY DEF Pairs, FoldLeft, MapThenFoldSet
<1>2. /\ n \in Nat /\ b \in V /\ DOMAIN q = 1 .. n /\ \A k \in 1 .. n : q[k] = k - 1
      /\ \A k \in 1 .. n : \A v \in V : Step(v, q[k]) \in V
  <2>1. n \in Nat /\ DOMAIN q = 1 .. n /\ \A k \in 1 .. n : q[k] = k - 1
    BY CountIs
  <2>2. b \in V
    OBVIOUS
  <2>3. ASSUME NEW v \in V, NEW i \in 0 .. (n - 1) PROVE Step(v, i) \in V
    <3>1. odd + 2 * i \in Nat /\ (odd + 2 * i) + 1 \in Nat
      OBVIOUS
    <3>2. PICK o \in Nat : o = odd + 2 * i
      BY <3>1
    <3>3. Component(vector, o) \in ComponentNames /\ Component(vector, o + 1) \in ComponentNames
      BY <3>1, <3>2, NamesComponents
    <3>4. PutPair(v, vector, o) \in Decoders(2)
      BY <3>3, PutPairIs
    <3>. QED BY <3>2, <3>4
  <2> HIDE DEF V, Step, q, b, n
  <2>4. \A k \in 1 .. n : q[k] \in 0 .. (n - 1)
    BY <2>1
  <2>. QED BY <2>1, <2>2, <2>3, <2>4
<1>3. \A k \in 1 .. n : \A v \in V : F[<<k, v>>] = Step(v, q[k])
  OBVIOUS
<1> HIDE DEF V, b, Step, F, q, n
<1>4. PICK h \in [SUBSET (1 .. n) -> V] : Folding(h, F, b, 1 .. n)
  <2>1. n \in Nat /\ b \in V /\ \A k \in 1 .. n : \A v \in V : F[<<k, v>>] \in V
    BY <1>2, <1>3
  <2> HIDE DEF E
  <2>. QED BY <2>1, FoldingsOfType
<1>5. E(h)
  <2>1. ASSUME NEW t \in SUBSET (1 .. n)
        PROVE  h[t] = IF t = {} THEN b ELSE Step(h[t \ {Max(t)}], q[Max(t)])
    <3>1. t # {} => Max(t) \in 1 .. n
      BY <1>2, UptoHasLast DEF HasLast
    <3>. QED BY <1>2, <1>3, <1>4, <3>1 DEF Folding
  <2>. QED BY <1>2, <1>4, <2>1
<1> DEFINE g == CHOOSE g : E(g)
<1>6. E(g)
  <2> HIDE DEF E
  <2>. QED BY <1>5
<1>7. Chain(g, F, b, V, n)
  <2> HIDE DEF g
  <2>1. ASSUME NEW t \in SUBSET (1 .. n), t # {}, g[t \ {Max(t)}] \in V
        PROVE  g[t] = F[<<Max(t), g[t \ {Max(t)}]>>]
    <3>1. Max(t) \in 1 .. n
      BY <1>2, <2>1, UptoHasLast DEF HasLast
    <3>2. g[t] = Step(g[t \ {Max(t)}], q[Max(t)])
      BY <1>2, <1>6, <2>1
    <3>. QED BY <1>2, <1>3, <2>1, <3>1, <3>2
  <2>2. g[{}] = b
    BY <1>6
  <2> HIDE DEF E
  <2>. QED BY <2>1, <2>2 DEF Chain
<1>8. PICK y \in [0 .. n -> V] : Iterates(y, F, b, n) /\ y[n] = g[1 .. n]
  <2>1. n \in Nat /\ b \in V /\ \A k \in 1 .. n : \A v \in V : F[<<k, v>>] \in V
    BY <1>2, <1>3
  <2> HIDE DEF g
  <2>. QED BY <2>1, <1>7, ChainIterates
<1>9. ASSUME NEW k \in 1 .. n PROVE y[k] = Step(y[k - 1], k - 1)
  <2>1. k - 1 \in 0 .. n /\ y[k - 1] \in V
    BY <1>2
  <2>2. y[k] = F[<<k, y[k - 1]>>] /\ q[k] = k - 1
    BY <1>2, <1>8 DEF Iterates
  <2>. QED BY <1>3, <2>1, <2>2
<1>10. Pairs(vector, odd, size, d) = y[n]
  BY <1>1, <1>2, <1>8
<1>. QED BY <1>8, <1>9, <1>10 DEF V, b, Step, n, Iterates, PairsRun

InTurnRun(y, ch, dim, vector, d) ==
  /\ y \in [0 .. dim -> Decoders(ch)] /\ y[0] = d
  /\ \A k \in 1 .. dim : y[k] = Put(y[k - 1], ch, Component(vector, k - 1))
  /\ InTurn(ch, dim, vector, d) = y[dim]

LEMMA InTurnIs ==
  ASSUME NEW ch \in Nat \ {0}, NEW dim \in Nat, NEW vector \in VectorNames, NEW d \in Decoders(ch)
  PROVE  \E y : InTurnRun(y, ch, dim, vector, d)
<1> DEFINE n == dim
           V == Decoders(ch)
           b == d
           Step(v, i) == Put(v, ch, Component(vector, i))
           q == Count(0, dim - 1)
           F == [p \in (1 .. n) \X V |-> Step(p[2], q[p[1]])]
           E(g) == g = [s_ \in SUBSET DOMAIN q |->
                          IF s_ = {} THEN b ELSE Step(g[s_ \ {Max(s_)}], q[Max(s_)])]
<1>1. InTurn(ch, dim, vector, d) = (CHOOSE g : E(g))[DOMAIN q]
  BY DEF InTurn, FoldLeft, MapThenFoldSet
<1>2. /\ n \in Nat /\ b \in V /\ DOMAIN q = 1 .. n /\ \A k \in 1 .. n : q[k] = k - 1
      /\ \A k \in 1 .. n : \A v \in V : Step(v, q[k]) \in V
  <2>1. n \in Nat /\ DOMAIN q = 1 .. n /\ \A k \in 1 .. n : q[k] = k - 1
    BY CountIs
  <2>2. b \in V
    OBVIOUS
  <2>3. ASSUME NEW v \in V, NEW i \in 0 .. (n - 1) PROVE Step(v, i) \in V
    <3>1. Component(vector, i) \in ComponentNames
      BY NamesComponents
    <3>. QED BY <3>1, PutIs
  <2> HIDE DEF V, Step, q, b, n
  <2>4. \A k \in 1 .. n : q[k] \in 0 .. (n - 1)
    BY <2>1
  <2>. QED BY <2>1, <2>2, <2>3, <2>4
<1>3. \A k \in 1 .. n : \A v \in V : F[<<k, v>>] = Step(v, q[k])
  OBVIOUS
<1> HIDE DEF V, b, Step, F, q, n
<1>4. PICK h \in [SUBSET (1 .. n) -> V] : Folding(h, F, b, 1 .. n)
  <2>1. n \in Nat /\ b \in V /\ \A k \in 1 .. n : \A v \in V : F[<<k, v>>] \in V
    BY <1>2, <1>3
  <2> HIDE DEF E
  <2>. QED BY <2>1, FoldingsOfType
<1>5. E(h)
  <2>1. ASSUME NEW t \in SUBSET (1 .. n)
        PROVE  h[t] = IF t = {} THEN b ELSE Step(h[t \ {Max(t)}], q[Max(t)])
    <3>1. t # {} => Max(t) \in 1 .. n
      BY <1>2, UptoHasLast DEF HasLast
    <3>. QED BY <1>2, <1>3, <1>4, <3>1 DEF Folding
  <2>. QED BY <1>2, <1>4, <2>1
<1> DEFINE g == CHOOSE g : E(g)
<1>6. E(g)
  <2> HIDE DEF E
  <2>. QED BY <1>5
<1>7. Chain(g, F, b, V, n)
  <2> HIDE DEF g
  <2>1. ASSUME NEW t \in SUBSET (1 .. n), t # {}, g[t \ {Max(t)}] \in V
        PROVE  g[t] = F[<<Max(t), g[t \ {Max(t)}]>>]
    <3>1. Max(t) \in 1 .. n
      BY <1>2, <2>1, UptoHasLast DEF HasLast
    <3>2. g[t] = Step(g[t \ {Max(t)}], q[Max(t)])
      BY <1>2, <1>6, <2>1
    <3>. QED BY <1>2, <1>3, <2>1, <3>1, <3>2
  <2>2. g[{}] = b
    BY <1>6
  <2> HIDE DEF E
  <2>. QED BY <2>1, <2>2 DEF Chain
<1>8. PICK y \in [0 .. n -> V] : Iterates(y, F, b, n) /\ y[n] = g[1 .. n]
  <2>1. n \in Nat /\ b \in V /\ \A k \in 1 .. n : \A v \in V : F[<<k, v>>] \in V
    BY <1>2, <1>3
  <2> HIDE DEF g
  <2>. QED BY <2>1, <1>7, ChainIterates
<1>9. ASSUME NEW k \in 1 .. n PROVE y[k] = Step(y[k - 1], k - 1)
  <2>1. k - 1 \in 0 .. n /\ y[k - 1] \in V
    BY <1>2
  <2>2. y[k] = F[<<k, y[k - 1]>>] /\ q[k] = k - 1
    BY <1>2, <1>8 DEF Iterates
  <2>. QED BY <1>3, <2>1, <2>2
<1>10. InTurn(ch, dim, vector, d) = y[n]
  BY <1>1, <1>2, <1>8
<1>. QED BY <1>8, <1>9, <1>10 DEF V, b, Step, n, Iterates, InTurnRun

-----------------------------------------------------------------------------
(***************************************************************************)
(* The residue: channels together.                                         *)
(***************************************************************************)
\* Where the decoder of type 2 is, and the vectors that go on from there.
AtPlace(d, ch, z) == d.c = z % ch /\ d.p = z \div ch

InTurnFrom(r, vector, dim, z, ch) ==
  \A i \in 0 .. (dim - 1) : ComponentAt(r, Component(vector, i)) = <<(z + i) % ch, (z + i) \div ch>>

LEMMA GrownByNone ==
  ASSUME NEW r, NEW x \in Seq(Additions), NEW vector
  PROVE  Grown(r, x, x, vector, 0)
  BY DEF Grown

LEMMA PutGrows ==
  ASSUME NEW r, NEW ch \in Nat \ {0}, NEW d \in Decoders(ch), NEW vector \in VectorNames, NEW dim \in Nat,
         NEW z \in Nat, NEW m \in 0 .. (dim - 1), InTurnFrom(r, vector, dim, z, ch), AtPlace(d, ch, z + m),
         NEW x, Grown(r, x, d.added, vector, m)
  PROVE  LET e == Put(d, ch, Component(vector, m))
         IN  /\ e \in Decoders(ch) /\ e.done = d.done
             /\ Grown(r, x, e.added, vector, m + 1) /\ AtPlace(e, ch, z + (m + 1))
<1>1. PICK name \in ComponentNames : name = Component(vector, m)
  <2>1. m \in Nat
    OBVIOUS
  <2>. QED BY <2>1, NamesComponents
<1>2. PICK e \in Decoders(ch) :
         /\ e = Put(d, ch, name) /\ e.done = d.done
         /\ <<<<d.c, d.p>>, name>> \in Additions
         /\ e.added = Append(d.added, <<<<d.c, d.p>>, name>>)
         /\ d.c + 1 = ch => e.c = 0 /\ e.p = d.p + 1
         /\ d.c + 1 # ch => e.c = d.c + 1 /\ e.p = d.p
  BY PutIs
<1>3. PICK y \in Nat : y = z + m
  OBVIOUS
<1>4. d.c = y % ch /\ d.p = y \div ch
  BY <1>3 DEF AtPlace
<1>5. AtPlace(e, ch, y + 1)
  <2>1. /\ (y % ch) + 1 = ch => (y + 1) % ch = 0 /\ (y + 1) \div ch = (y \div ch) + 1
        /\ (y % ch) + 1 # ch => (y + 1) % ch = (y % ch) + 1 /\ (y + 1) \div ch = y \div ch
    BY NextPlace
  <2>2. e.c = (y + 1) % ch /\ e.p = (y + 1) \div ch
    BY <1>2, <1>4, <2>1
  <2>. QED BY <2>2 DEF AtPlace
<1>6. ComponentAt(r, name) = <<d.c, d.p>>
  BY <1>1, <1>3, <1>4 DEF InTurnFrom
<1>7. PICK entry \in Additions : entry = <<<<d.c, d.p>>, name>>
  BY <1>2
<1>8. entry = <<ComponentAt(r, Component(vector, m)), Component(vector, m)>>
  BY <1>1, <1>6, <1>7
<1>9. Grown(r, x, Append(d.added, entry), vector, m + 1)
  <2>1. m \in Nat
    OBVIOUS
  <2>. QED BY <1>8, <2>1, GrowsByOne
<1>10. y + 1 = z + (m + 1)
  BY <1>3
<1>. QED BY <1>1, <1>2, <1>5, <1>7, <1>9, <1>10

LEMMA PairGrows ==
  ASSUME NEW r, NEW d \in Decoders(2), NEW vector \in VectorNames, NEW dim \in Nat,
         NEW z \in Nat, NEW m \in 0 .. (dim - 1), m + 1 \in 0 .. (dim - 1),
         InTurnFrom(r, vector, dim, z, 2), AtPlace(d, 2, z + m), d.c = 0,
         NEW x, Grown(r, x, d.added, vector, m)
  PROVE  LET e == PutPair(d, vector, m)
         IN  /\ e \in Decoders(2) /\ e.done = d.done /\ e.c = 0
             /\ Grown(r, x, e.added, vector, m + 2) /\ AtPlace(e, 2, z + (m + 2))
<1>1. m \in Nat /\ m + 1 \in Nat
  OBVIOUS
<1>3. PICK e \in Decoders(2), one \in Additions, two \in Additions :
         /\ e = PutPair(d, vector, m) /\ e.done = d.done
         /\ one = <<<<0, d.p>>, Component(vector, m)>>
         /\ two = <<<<1, d.p>>, Component(vector, m + 1)>>
         /\ e.added = Append(Append(d.added, one), two)
         /\ e.c = d.c /\ e.p = d.p + 1
  BY <1>1, PutPairSteps
<1>4. PICK y \in Nat : y = z + m
  OBVIOUS
<1>5. y % 2 = 0 /\ d.p = y \div 2
  BY <1>4 DEF AtPlace
<1>6. (y + 1) % 2 = 1 /\ (y + 1) \div 2 = d.p
  BY <1>5
<1>7. (y + 2) % 2 = 0 /\ (y + 2) \div 2 = d.p + 1
  BY <1>5
<1>8. one = <<ComponentAt(r, Component(vector, m)), Component(vector, m)>>
  <2>1. ComponentAt(r, Component(vector, m)) = <<(z + m) % 2, (z + m) \div 2>>
    BY DEF InTurnFrom
  <2>. QED BY <1>3, <1>4, <1>5, <2>1
<1>9. two = <<ComponentAt(r, Component(vector, m + 1)), Component(vector, m + 1)>>
  <2>1. ComponentAt(r, Component(vector, m + 1)) = <<(z + (m + 1)) % 2, (z + (m + 1)) \div 2>>
    BY DEF InTurnFrom
  <2>2. z + (m + 1) = y + 1
    BY <1>4
  <2>. QED BY <1>3, <1>6, <2>1, <2>2
<1>10. Grown(r, x, Append(d.added, one), vector, m + 1)
  BY <1>1, <1>8, GrowsByOne
<1>11. Grown(r, x, Append(Append(d.added, one), two), vector, (m + 1) + 1)
  BY <1>1, <1>9, <1>10, GrowsByOne
<1>12. AtPlace(e, 2, y + 2)
  BY <1>3, <1>7 DEF AtPlace
<1>13. z + (m + 2) = y + 2 /\ (m + 1) + 1 = m + 2
  BY <1>4
<1>. QED BY <1>3, <1>11, <1>12, <1>13

\* What m more components make of a decoder.
Went(r, d, e, vector, m, z, ch) ==
  /\ e \in Decoders(ch) /\ e.done = d.done
  /\ Grown(r, d.added, e.added, vector, m) /\ AtPlace(e, ch, z + m)

LEMMA PairWent ==
  ASSUME NEW r, NEW d, NEW c \in Decoders(2), NEW vector \in VectorNames, NEW dim \in Nat,
         NEW z \in Nat, NEW m \in 0 .. (dim - 1), m + 1 \in 0 .. (dim - 1), InTurnFrom(r, vector, dim, z, 2),
         Went(r, d, c, vector, m, z, 2), c.c = 0
  PROVE  Went(r, d, PutPair(c, vector, m), vector, m + 2, z, 2) /\ PutPair(c, vector, m).c = 0
<1>1. PICK x : x = d.added
  OBVIOUS
<1>2. c.done = d.done /\ Grown(r, x, c.added, vector, m) /\ AtPlace(c, 2, z + m)
  BY <1>1 DEF Went
<1>3. LET e == PutPair(c, vector, m)
      IN  /\ e \in Decoders(2) /\ e.done = c.done /\ e.c = 0
          /\ Grown(r, x, e.added, vector, m + 2) /\ AtPlace(e, 2, z + (m + 2))
  BY <1>2, PairGrows
<1>. QED BY <1>1, <1>2, <1>3 DEF Went

LEMMA PairsGrow ==
  ASSUME NEW r, NEW d, NEW first \in Decoders(2), NEW vector \in VectorNames, NEW dim \in Nat,
         NEW z \in Nat, InTurnFrom(r, vector, dim, z, 2), NEW odd \in Nat, NEW n \in Nat, odd + 2 * n <= dim,
         Went(r, d, first, vector, odd, z, 2), first.c = 0
  PROVE  Went(r, d, Pairs(vector, odd, n, first), vector, odd + 2 * n, z, 2)
<1>1. PICK y : PairsRun(y, vector, odd, n, first)
  BY PairsIs
<1>2. /\ y \in [0 .. n -> Decoders(2)] /\ y[0] = first
      /\ \A k \in 1 .. n : y[k] = PutPair(y[k - 1], vector, odd + 2 * (k - 1))
      /\ Pairs(vector, odd, n, first) = y[n]
  BY <1>1 DEF PairsRun
<1> DEFINE Good(k) == Went(r, d, y[k], vector, odd + 2 * k, z, 2) /\ y[k].c = 0
           T == {k \in 0 .. n : Good(k)}
<1>3. Good(0)
  <2>1. odd + 2 * 0 = odd
    OBVIOUS
  <2>. QED BY <1>2, <2>1
<1>4. ASSUME NEW k \in 1 .. n, Good(k - 1) PROVE Good(k)
  <2>1. PICK m \in 0 .. (dim - 1) : m = odd + 2 * (k - 1) /\ m + 1 \in 0 .. (dim - 1) /\ m + 2 = odd + 2 * k
    <3>1. odd + 2 * (k - 1) \in 0 .. (dim - 1) /\ (odd + 2 * (k - 1)) + 1 \in 0 .. (dim - 1)
          /\ (odd + 2 * (k - 1)) + 2 = odd + 2 * k
      OBVIOUS
    <3>. QED BY <3>1
  <2>2. PICK c : c = y[k - 1]
    OBVIOUS
  <2>3. c \in Decoders(2) /\ c.c = 0 /\ Went(r, d, c, vector, m, z, 2)
    BY <1>4, <2>1, <2>2 DEF Went
  <2>4. Went(r, d, PutPair(c, vector, m), vector, m + 2, z, 2) /\ PutPair(c, vector, m).c = 0
    <3>1. m + 1 \in 0 .. (dim - 1)
      BY <2>1
    <3>. QED BY <2>3, <3>1, PairWent, ZenonT(40)
  <2>5. y[k] = PutPair(c, vector, m)
    BY <1>2, <2>1, <2>2
  <2>6. Went(r, d, y[k], vector, m + 2, z, 2) /\ y[k].c = 0
    BY <2>4, <2>5
  <2>. QED BY <2>1, <2>6
<1>5. 0 \in T /\ \A k \in 1 .. n : k - 1 \in T => k \in T
  <2> HIDE DEF Good
  <2>. QED BY <1>3, <1>4
<1>6. n \in T
  <2> HIDE DEF T
  <2>. QED BY <1>5, UptoInduction
<1>. QED BY <1>2, <1>6

LEMMA PutWent ==
  ASSUME NEW r, NEW ch \in Nat \ {0}, NEW d, NEW c \in Decoders(ch), NEW vector \in VectorNames, NEW dim \in Nat,
         NEW z \in Nat, NEW m \in 0 .. (dim - 1), InTurnFrom(r, vector, dim, z, ch),
         Went(r, d, c, vector, m, z, ch)
  PROVE  Went(r, d, Put(c, ch, Component(vector, m)), vector, m + 1, z, ch)
<1>1. PICK x : x = d.added
  OBVIOUS
<1>2. c.done = d.done /\ Grown(r, x, c.added, vector, m) /\ AtPlace(c, ch, z + m)
  BY <1>1 DEF Went
<1>3. LET e == Put(c, ch, Component(vector, m))
      IN  /\ e \in Decoders(ch) /\ e.done = c.done
          /\ Grown(r, x, e.added, vector, m + 1) /\ AtPlace(e, ch, z + (m + 1))
  BY <1>2, PutGrows, Zenon
<1>. QED BY <1>1, <1>2, <1>3 DEF Went

LEMMA NoneWent ==
  ASSUME NEW r, NEW ch, NEW d \in Decoders(ch), NEW vector, NEW z \in Nat, AtPlace(d, ch, z)
  PROVE  Went(r, d, d, vector, 0, z, ch)
<1>1. d.added \in Seq(Additions) /\ z + 0 = z
  BY DEF Decoders
<1>2. Grown(r, d.added, d.added, vector, 0)
  BY <1>1, GrownByNone
<1>. QED BY <1>1, <1>2 DEF Went

LEMMA InTurnGrows ==
  ASSUME NEW r, NEW ch \in Nat \ {0}, NEW d \in Decoders(ch), NEW vector \in VectorNames, NEW dim \in Nat,
         NEW z \in Nat, InTurnFrom(r, vector, dim, z, ch), AtPlace(d, ch, z)
  PROVE  Went(r, d, InTurn(ch, dim, vector, d), vector, dim, z, ch)
<1>1. PICK y : InTurnRun(y, ch, dim, vector, d)
  BY InTurnIs
<1>2. /\ y \in [0 .. dim -> Decoders(ch)] /\ y[0] = d
      /\ \A k \in 1 .. dim : y[k] = Put(y[k - 1], ch, Component(vector, k - 1))
      /\ InTurn(ch, dim, vector, d) = y[dim]
  BY <1>1 DEF InTurnRun
<1> DEFINE Good(k) == Went(r, d, y[k], vector, k, z, ch)
           T == {k \in 0 .. dim : Good(k)}
<1>3. Good(0)
  BY <1>2, NoneWent
<1>4. ASSUME NEW k \in 1 .. dim, Good(k - 1) PROVE Good(k)
  <2>1. PICK m \in 0 .. (dim - 1) : m = k - 1 /\ k = m + 1
    <3>1. k - 1 \in 0 .. (dim - 1) /\ k = (k - 1) + 1
      OBVIOUS
    <3>. QED BY <3>1
  <2>2. PICK c \in Decoders(ch) : c = y[m]
    BY <1>4, <2>1 DEF Went
  <2>3. Went(r, d, c, vector, m, z, ch)
    BY <1>4, <2>1, <2>2
  <2>4. Went(r, d, Put(c, ch, Component(vector, m)), vector, m + 1, z, ch)
    BY <2>3, PutWent
  <2>5. y[k] = Put(c, ch, Component(vector, m))
    BY <1>2, <2>1, <2>2
  <2>. QED BY <2>1, <2>4, <2>5
<1>5. 0 \in T /\ \A k \in 1 .. dim : k - 1 \in T => k \in T
  <2> HIDE DEF Good
  <2>. QED BY <1>3, <1>4
<1>6. dim \in T
  <2> HIDE DEF T
  <2>. QED BY <1>5, UptoInduction
<1>. QED BY <1>2, <1>6

LEMMA PairedGrows ==
  ASSUME NEW r, NEW d \in Decoders(2), NEW vector \in VectorNames, NEW dim \in Nat \ {0},
         NEW z \in Nat, InTurnFrom(r, vector, dim, z, 2), AtPlace(d, 2, z)
  PROVE  Went(r, d, Paired(dim, vector, d), vector, dim, z, 2)
<1> DEFINE odd == d.c
           n == (dim - odd) \div 2
           rest == (dim - odd) % 2
           first == IF odd = 1 THEN Put(d, 2, Component(vector, 0)) ELSE d
           pairs == Pairs(vector, odd, n, first)
<1>1. odd \in 0 .. 1 /\ n \in Nat /\ rest \in 0 .. 1 /\ dim = odd + 2 * n + rest
  <2>1. d.c \in 0 .. 1
    BY DEF Decoders
  <2>2. PICK o \in 0 .. 1 : o = d.c
    BY <2>1
  <2>3. (dim - o) \div 2 \in Nat /\ (dim - o) % 2 \in 0 .. 1 /\ dim = o + 2 * ((dim - o) \div 2) + ((dim - o) % 2)
    OBVIOUS
  <2>. QED BY <2>2, <2>3
<1>2. Paired(dim, vector, d) = IF rest = 1 THEN Put(pairs, 2, Component(vector, dim - 1)) ELSE pairs
  BY Zenon DEF Paired, Alone
<1>3. Went(r, d, d, vector, 0, z, 2)
  BY NoneWent
<1>4. Went(r, d, first, vector, odd, z, 2) /\ first \in Decoders(2) /\ first.c = 0
  <2>1. CASE odd = 0
    BY <1>3, <2>1
  <2>2. CASE odd = 1
    <3>1. PICK m \in 0 .. (dim - 1) : m = 0
      OBVIOUS
    <3>2. Went(r, d, Put(d, 2, Component(vector, m)), vector, m + 1, z, 2)
      <4>1. Went(r, d, d, vector, m, z, 2)
        BY <1>3, <3>1
      <4>2. InTurnFrom(r, vector, dim, z, 2) /\ dim \in Nat /\ 2 \in Nat \ {0}
        OBVIOUS
      <4>. QED BY <4>1, <4>2, PutWent
    <3>3. first = Put(d, 2, Component(vector, m)) /\ m + 1 = odd
      BY <2>2, <3>1
    <3> HIDE DEF first
    <3>4. Went(r, d, first, vector, odd, z, 2)
      BY <3>2, <3>3
    <3>5. first.c = 0
      <4>1. m \in Nat
        OBVIOUS
      <4>2. Component(vector, m) \in ComponentNames
        BY <4>1, NamesComponents
      <4>3. Put(d, 2, Component(vector, m)).c = 0
        <5>1. d.c + 1 = 2 /\ 2 \in Nat \ {0}
          BY <2>2
        <5>. QED BY <4>2, <5>1, PutIs
      <4>. QED BY <3>3, <4>3
    <3>. QED BY <3>4, <3>5 DEF Went
  <2>. QED BY <1>1, <2>1, <2>2
<1> HIDE DEF n, rest, first
<1>5. Went(r, d, pairs, vector, odd + 2 * n, z, 2)
  <2>1. odd \in Nat /\ odd + 2 * n <= dim /\ dim \in Nat
    BY <1>1
  <2> HIDE DEF odd
  <2>. QED BY <1>1, <1>4, <2>1, PairsGrow
<1> HIDE DEF odd, pairs
<1>6. CASE rest = 0
  <2>1. odd + 2 * n = dim
    BY <1>1, <1>6
  <2>. QED BY <1>2, <1>5, <1>6, <2>1
<1>7. CASE rest = 1
  <2>1. PICK m \in 0 .. (dim - 1) : m = dim - 1 /\ m = odd + 2 * n /\ m + 1 = dim
    <3>1. dim - 1 \in 0 .. (dim - 1) /\ dim - 1 = odd + 2 * n /\ (dim - 1) + 1 = dim
      BY <1>1, <1>7
    <3>. QED BY <3>1
  <2>2. Went(r, d, pairs, vector, m, z, 2) /\ pairs \in Decoders(2)
    BY <1>5, <2>1 DEF Went
  <2>3. Went(r, d, Put(pairs, 2, Component(vector, m)), vector, m + 1, z, 2)
    <3>1. dim \in Nat /\ 2 \in Nat \ {0}
      OBVIOUS
    <3>. QED BY <2>2, <3>1, PutWent
  <2>. QED BY <1>2, <1>7, <2>1, <2>3
<1>. QED BY <1>1, <1>6, <1>7

-----------------------------------------------------------------------------
(***************************************************************************)
(* The residue: vectors at their places.                                   *)
(***************************************************************************)
LEMMA StartIs ==
  ASSUME NEW r \in Residues, NEW p \in Nat
  PROVE  /\ Start(r, p) \in Nat /\ Start(r, p) = r.begin + p * r.part_size
         /\ Start(r, p + 1) = Start(r, p) + r.part_size
<1>1. r.begin \in Nat /\ r.part_size \in Nat
  BY ResidueIs
<1>2. \A a \in Nat, b \in Nat : a * b \in Nat /\ (a + 1) * b = a * b + b
  OBVIOUS
<1>3. p * r.part_size \in Nat /\ (p + 1) * r.part_size = p * r.part_size + r.part_size
  BY <1>1, <1>2
<1>. QED BY <1>1, <1>3 DEF Start

LEMMA PlacesInTurn ==
  ASSUME NEW r \in Residues, Together(r), NEW pass, NEW p, NEW j, NEW v, IsVector(r, pass, p, j, v)
  PROVE  LET dim == Dim(r, pass, p, j)
             z == Start(r, p) + v * dim
         IN  /\ InTurnFrom(r, <<pass, p, j, v>>, dim, z, r.ch) /\ z \in Nat
             /\ z + dim = Start(r, p) + (v + 1) * dim
<1> DEFINE dim == Dim(r, pass, p, j)
           start == Start(r, p)
<1>1. dim \in Nat \ {0} /\ v \in Nat /\ p \in Nat
  BY VectorsFill
<1>2. start \in Nat
  BY <1>1, StartIs
<1>3. PICK a : a = v * dim
  OBVIOUS
<1>4. a \in Nat /\ (v + 1) * dim = a + dim
  <2>1. \A x \in Nat, y \in Nat : x * y \in Nat /\ (x + 1) * y = x * y + y
    OBVIOUS
  <2>2. dim \in Nat
    BY <1>1
  <2> HIDE DEF dim
  <2>. QED BY <1>1, <1>3, <2>1, <2>2
<1>5. ASSUME NEW i \in 0 .. (dim - 1)
      PROVE  ComponentAt(r, Component(<<pass, p, j, v>>, i)) =
               <<((start + a) + i) % r.ch, ((start + a) + i) \div r.ch>>
  <2>1. PICK t : t = Component(<<pass, p, j, v>>, i)
    OBVIOUS
  <2>2. t[1] = pass /\ t[2] = p /\ t[3] = j /\ t[4] = v /\ t[5] = i
    BY <2>1 DEF Component
  <2>3. r.rtype # 0
    BY ResidueIs
  <2>4. ComponentAt(r, t) = <<(start + (a + i)) % r.ch, (start + (a + i)) \div r.ch>>
    BY <1>3, <2>2, <2>3 DEF ComponentAt
  <2>5. start + (a + i) = (start + a) + i
    <3>1. i \in Int
      BY <1>1
    <3> HIDE DEF start
    <3>. QED BY <1>2, <1>4, <3>1
  <2>. QED BY <2>1, <2>4, <2>5
<1>6. InTurnFrom(r, <<pass, p, j, v>>, dim, start + a, r.ch)
  BY <1>5 DEF InTurnFrom
<1>7. start + a \in Nat /\ (start + a) + dim = start + (v + 1) * dim
  <2>1. dim \in Nat
    BY <1>1
  <2> HIDE DEF start, dim
  <2>. QED BY <1>2, <1>4, <2>1
<1>. QED BY <1>3, <1>6, <1>7

LEMMA RoomIs ==
  ASSUME NEW r \in Residues, NEW pass, NEW p, NEW j, NEW v, IsVector(r, pass, p, j, v)
  PROVE  LET dim == Dim(r, pass, p, j)
             room == Room(r, Start(r, p), dim, v)
         IN  /\ room \in Int /\ room <= dim
             /\ \A i \in 0 .. (dim - 1) : Kept(r, Component(<<pass, p, j, v>>, i)) <=> i < room
<1> DEFINE dim == Dim(r, pass, p, j)
           q == r.part_size \div dim
           offset == Start(r, p)
<1>1. /\ dim \in Nat \ {0} /\ q \in Nat \ {0} /\ r.part_size = dim * q /\ v \in 0 .. (q - 1)
      /\ v \in Nat /\ p \in Nat /\ r.part_size \in Nat
  BY VectorsFill
<1>2. offset \in Nat
  BY <1>1, StartIs
<1>3. PICK size \in Nat : size = r.part_size
  BY <1>1
<1>4. \A i : Kept(r, Component(<<pass, p, j, v>>, i)) <=> (r.rtype = 0 => offset + v + i < size)
  <2>1. SUFFICES ASSUME NEW i
                 PROVE  Kept(r, Component(<<pass, p, j, v>>, i)) <=> (r.rtype = 0 => offset + v + i < size)
    OBVIOUS
  <2>2. PICK s : s = Component(<<pass, p, j, v>>, i)
    OBVIOUS
  <2>3. s[2] = p /\ s[4] = v /\ s[5] = i
    BY <2>2 DEF Component
  <2>. QED BY <1>3, <2>2, <2>3 DEF Kept
<1> HIDE DEF dim, q, offset
<1>6. /\ Room(r, offset, dim, v) =
           IF r.rtype = 0 THEN Min({dim, size - offset - v}) ELSE Min({dim, size - v * dim})
  BY <1>3 DEF Room
<1>7. PICK a \in Nat : a = v * dim
  <2>1. \A x \in Nat, y \in Nat : x * y \in Nat
    OBVIOUS
  <2>. QED BY <1>1, <2>1
<1>8. Room(r, offset, dim, v) =
        IF r.rtype = 0 THEN (IF dim <= size - offset - v THEN dim ELSE size - offset - v)
                       ELSE (IF dim <= size - a THEN dim ELSE size - a)
  <2>1. dim \in Int /\ size - offset - v \in Int /\ size - a \in Int
    BY <1>1, <1>2, <1>3, <1>7
  <2>2. \A x \in Int, y \in Int : Min({x, y}) = IF x <= y THEN x ELSE y
    BY LeastOfTwo
  <2>. QED BY <1>6, <1>7, <2>1, <2>2
<1>9. dim <= size - a
  <2>1. PICK e \in Nat : q = (v + 1) + e
    <3>1. q - (v + 1) \in Nat /\ q = (v + 1) + (q - (v + 1))
      BY <1>1
    <3>. QED BY <3>1
  <2>2. \A x \in Nat, y \in Nat, z \in Nat : x * ((y + 1) + z) = y * x + x + x * z /\ x * z \in Nat
    OBVIOUS
  <2>3. dim * q = v * dim + dim + dim * e /\ dim * e \in Nat
    BY <1>1, <2>1, <2>2
  <2>4. PICK b \in Nat : b = dim * e
    BY <2>3
  <2>5. size = a + dim + b
    BY <1>1, <1>3, <1>7, <2>3, <2>4
  <2>. QED BY <1>1, <2>5
<1>10. ASSUME NEW i \in 0 .. (dim - 1)
       PROVE  Kept(r, Component(<<pass, p, j, v>>, i)) <=> i < Room(r, offset, dim, v)
  <2>1. i \in Int /\ i < dim
    BY <1>1
  <2>2. CASE r.rtype # 0
    BY <1>4, <1>8, <1>9, <2>1, <2>2
  <2>3. CASE r.rtype = 0
    <3>1. i < Room(r, offset, dim, v) <=> offset + v + i < size
      BY <1>1, <1>2, <1>8, <2>1, <2>3
    <3>. QED BY <1>4, <2>3, <3>1
  <2>. QED BY <2>2, <2>3
<1>12. Room(r, offset, dim, v) \in Int /\ Room(r, offset, dim, v) <= dim
  BY <1>1, <1>2, <1>7, <1>8
<1>. QED BY <1>10, <1>12 DEF dim, offset

LEMMA JoinIs ==
  ASSUME NEW S, NEW x \in Seq(S), NEW y \in Seq(S)
  PROVE  /\ x \o y \in Seq(S) /\ Len(x \o y) = Len(x) + Len(y)
         /\ \A k \in 1 .. Len(x) : (x \o y)[k] = x[k]
         /\ \A i \in 0 .. (Len(y) - 1) : (x \o y)[Len(x) + i + 1] = y[i + 1]
<1>1. x \o y \in Seq(S) /\ Len(x \o y) = Len(x) + Len(y) /\ Len(x) \in Nat /\ Len(y) \in Nat
  OBVIOUS
<1>2. \A k \in 1 .. Len(x) : (x \o y)[k] = x[k]
  OBVIOUS
<1>3. \A k \in 1 .. Len(y) : (x \o y)[Len(x) + k] = y[k]
  OBVIOUS
<1>4. \A i \in 0 .. (Len(y) - 1) : i + 1 \in 1 .. Len(y) /\ Len(x) + i + 1 = Len(x) + (i + 1)
  BY <1>1
<1>. QED BY <1>1, <1>2, <1>3, <1>4

LEMMA SeparateGrows ==
  ASSUME NEW r \in Residues, ~Together(r), NEW pass, NEW p, NEW j, NEW v, IsVector(r, pass, p, j, v),
         NEW d \in Decoders(r.ch)
  PROVE  LET dim == Dim(r, pass, p, j)
             e == Separate(r, dim, <<pass, p, j, v>>, d)
         IN  /\ e \in Decoders(r.ch) /\ e.done = d.done
             /\ \E m \in Nat : /\ m <= dim
                               /\ \A i \in 0 .. (dim - 1) : Kept(r, Component(<<pass, p, j, v>>, i)) <=> i < m
                               /\ Grown(r, d.added, e.added, <<pass, p, j, v>>, m)
<1> DEFINE dim == Dim(r, pass, p, j)
           vector == <<pass, p, j, v>>
           offset == Start(r, p)
           q == r.part_size \div dim
           e == Separate(r, dim, vector, d)
           Entry(i) == <<<<j, offset + PlaceIn(r, dim, v, i)>>, Component(vector, i)>>
<1>1. /\ dim \in Nat \ {0} /\ q \in Nat \ {0} /\ pass \in Nat /\ p \in Nat /\ j \in Nat /\ v \in Nat
  BY VectorsFill
<1>2. offset \in Nat
  BY <1>1, StartIs
<1>3. PICK room \in Int : /\ room = Room(r, offset, dim, v) /\ room <= dim
                         /\ \A i \in 0 .. (dim - 1) : Kept(r, Component(vector, i)) <=> i < room
  BY RoomIs
<1>4. PICK m \in Nat : /\ m <= dim /\ 1 .. room = 1 .. m
                      /\ \A i \in 0 .. (dim - 1) : Kept(r, Component(vector, i)) <=> i < m
  <2>1. CASE room >= 0
    BY <1>3, <2>1
  <2>2. CASE room < 0
    <3>1. 1 .. room = 1 .. 0
      BY <2>2
    <3>2. 0 <= dim
      BY <1>1
    <3>3. \A i \in 0 .. (dim - 1) : ~(i < room) /\ ~(i < 0)
      BY <1>1, <2>2
    <3> HIDE DEF dim, vector
    <3>4. \A i \in 0 .. (dim - 1) : Kept(r, Component(vector, i)) <=> i < 0
      BY <1>3, <3>3
    <3>. QED BY <3>1, <3>2, <3>4
  <2>. QED BY <2>1, <2>2
<1>5. vector \in VectorNames /\ vector[2] = p /\ vector[3] = j /\ vector[4] = v
  BY <1>1 DEF VectorNames
<1>6. e = [d EXCEPT !.added = d.added \o [k \in 1 .. m |-> Entry(k - 1)]]
  BY <1>3, <1>4, <1>5 DEF Separate
<1>7. ASSUME NEW i \in Nat
      PROVE  Entry(i) \in Additions /\ Entry(i) = <<ComponentAt(r, Component(vector, i)), Component(vector, i)>>
  <2>1. PICK t : t = Component(vector, i)
    OBVIOUS
  <2>2. t[1] = pass /\ t[2] = p /\ t[3] = j /\ t[4] = v /\ t[5] = i
    BY <2>1 DEF Component
  <2>3. t \in ComponentNames
    <3> HIDE DEF vector
    <3>. QED BY <1>5, <2>1, NamesComponents
  <2>4. ComponentAt(r, t) = <<j, offset + PlaceIn(r, dim, v, i)>>
    BY <2>2 DEF ComponentAt, PlaceIn
  <2>5. PlaceIn(r, dim, v, i) \in Nat
    <3>1. \A x \in Nat, y \in Nat : x * y \in Nat
      OBVIOUS
    <3>2. i * q \in Nat /\ v * dim \in Nat
      <4> HIDE DEF q, dim
      <4>. QED BY <1>1, <3>1
    <3>3. PlaceIn(r, dim, v, i) = IF r.rtype = 0 THEN i * q + v ELSE v * dim + i
      BY DEF PlaceIn
    <3> HIDE DEF q, dim
    <3>. QED BY <1>1, <3>2, <3>3
  <2>6. offset + PlaceIn(r, dim, v, i) \in Nat
    <3> HIDE DEF offset, dim
    <3>. QED BY <1>2, <2>5
  <2>7. Entry(i) = <<<<j, offset + PlaceIn(r, dim, v, i)>>, t>>
    BY <2>1
  <2> HIDE DEF Entry, offset, dim
  <2>8. Entry(i) \in Additions
    BY <1>1, <2>3, <2>6, <2>7 DEF Additions
  <2>. QED BY <2>1, <2>4, <2>7, <2>8
<1> HIDE DEF Entry, e, dim, vector, offset
<1>8. PICK new : new = [k \in 1 .. m |-> Entry(k - 1)]
  OBVIOUS
<1>9. new \in Seq(Additions) /\ Len(new) = m /\ \A k \in 1 .. m : new[k] = Entry(k - 1)
  <2>1. \A k \in 1 .. m : k - 1 \in Nat
    OBVIOUS
  <2>. QED BY <1>7, <1>8, <2>1
<1>10. d.added \in Seq(Additions)
  BY DEF Decoders
<1>11. PICK x \in Seq(Additions), z \in Seq(Additions) :
          /\ x = d.added /\ z = x \o new /\ Len(z) = Len(x) + m /\ \A k \in 1 .. Len(x) : z[k] = x[k]
          /\ \A i \in 0 .. (m - 1) : z[Len(x) + i + 1] = new[i + 1]
  <2>1. PICK x \in Seq(Additions) : x = d.added
    BY <1>10
  <2>2. /\ x \o new \in Seq(Additions) /\ Len(x \o new) = Len(x) + m
        /\ \A k \in 1 .. Len(x) : (x \o new)[k] = x[k]
        /\ \A i \in 0 .. (m - 1) : (x \o new)[Len(x) + i + 1] = new[i + 1]
    BY <1>9, JoinIs, SMTT(30)
  <2>. QED BY <2>1, <2>2
<1>12. e \in Decoders(r.ch) /\ e.done = d.done /\ e.added = z
  <2>1. e = [d EXCEPT !.added = z]
    BY <1>6, <1>8, <1>11
  <2>2. [d EXCEPT !.added = z] \in Decoders(r.ch)
    BY DEF Decoders
  <2>3. [d EXCEPT !.added = z].done = d.done /\ [d EXCEPT !.added = z].added = z
    BY DEF Decoders
  <2>. QED BY <2>1, <2>2, <2>3
<1>13. Grown(r, d.added, z, vector, m)
  <2>1. ASSUME NEW i \in 0 .. (m - 1)
        PROVE  z[Len(x) + i + 1] = <<ComponentAt(r, Component(vector, i)), Component(vector, i)>>
    <3>1. i + 1 \in 1 .. m /\ (i + 1) - 1 = i /\ i \in Nat
      OBVIOUS
    <3>2. new[i + 1] = Entry(i)
      BY <1>9, <3>1
    <3>. QED BY <1>7, <1>11, <3>1, <3>2
  <2>2. Grown(r, x, z, vector, m)
    BY <1>11, <2>1 DEF Grown
  <2>. QED BY <1>11, <2>2
<1>. QED BY <1>4, <1>12, <1>13 DEF e, dim, vector

-----------------------------------------------------------------------------
(***************************************************************************)
(* The residue: from a vector to a packet.                                 *)
(***************************************************************************)
LEMMA PairedIsDecoder ==
  ASSUME NEW d \in Decoders(2), NEW vector \in VectorNames, NEW dim \in Nat \ {0}
  PROVE  Paired(dim, vector, d) \in Decoders(2)
<1> DEFINE odd == d.c
           n == (dim - odd) \div 2
           first == IF odd = 1 THEN Put(d, 2, Component(vector, 0)) ELSE d
           pairs == Pairs(vector, odd, n, first)
<1>1. odd \in Nat /\ n \in Nat
  <2>1. d.c \in 0 .. 1
    BY DEF Decoders
  <2>2. PICK o \in 0 .. 1 : o = d.c
    BY <2>1
  <2>3. (dim - o) \div 2 \in Nat
    OBVIOUS
  <2>. QED BY <2>2, <2>3
<1>2. /\ Component(vector, 0) \in ComponentNames /\ Component(vector, dim - 1) \in ComponentNames
      /\ 2 \in Nat \ {0}
  <2>1. 0 \in Nat /\ dim - 1 \in Nat /\ 2 \in Nat \ {0}
    OBVIOUS
  <2>. QED BY <2>1, NamesComponents
<1>3. \A e \in Decoders(2), name \in ComponentNames : Put(e, 2, name) \in Decoders(2)
  BY <1>2, PutIs
<1>4. first \in Decoders(2)
  BY <1>2, <1>3
<1>5. Paired(dim, vector, d) =
        IF (dim - odd) % 2 = 1 THEN Put(pairs, 2, Component(vector, dim - 1)) ELSE pairs
  BY Zenon DEF Paired, Alone
<1> HIDE DEF odd, n, first
<1>6. pairs \in Decoders(2)
  <2>1. PICK y : PairsRun(y, vector, odd, n, first)
    BY <1>1, <1>4, PairsIs
  <2>2. y \in [0 .. n -> Decoders(2)] /\ pairs = y[n]
    BY <2>1 DEF PairsRun
  <2> HIDE DEF pairs
  <2>. QED BY <1>1, <2>2
<1> HIDE DEF pairs
<1>. QED BY <1>2, <1>3, <1>5, <1>6

LEMMA VectorIsDecoder ==
  ASSUME NEW r \in Residues, NEW pass, NEW p, NEW j, NEW v, IsVector(r, pass, p, j, v), NEW d \in Decoders(r.ch)
  PROVE  Vector(r, Dim(r, pass, p, j), <<pass, p, j, v>>, d) \in Decoders(r.ch)
<1> DEFINE dim == Dim(r, pass, p, j)
           vector == <<pass, p, j, v>>
           read == Symbol(d)
<1>1. /\ dim \in Nat \ {0} /\ pass \in Nat /\ p \in Nat /\ j \in Nat /\ v \in Nat /\ r.ch \in Nat \ {0}
  BY VectorsFill, ResidueIs
<1>2. vector \in VectorNames
  BY <1>1 DEF VectorNames
<1>3. read \in Decoders(r.ch) /\ [d EXCEPT !.done = TRUE] \in Decoders(r.ch)
  BY <1>1, SymbolIs, DoneIs
<1>4. ~Together(r) => Separate(r, dim, vector, read) \in Decoders(r.ch)
  BY <1>3, SeparateGrows
<1> HIDE DEF dim, vector, read
<1>5. r.ch = 2 => Paired(dim, vector, read) \in Decoders(r.ch)
  BY <1>1, <1>2, <1>3, PairedIsDecoder
<1>6. InTurn(r.ch, dim, vector, read) \in Decoders(r.ch)
  <2>1. PICK y : InTurnRun(y, r.ch, dim, vector, read)
    BY <1>1, <1>2, <1>3, InTurnIs
  <2>2. y \in [0 .. dim -> Decoders(r.ch)] /\ InTurn(r.ch, dim, vector, read) = y[dim]
    BY <2>1 DEF InTurnRun
  <2>. QED BY <1>1, <2>2
<1>7. Vector(r, dim, vector, d) =
        IF d.done \/ read.done THEN [d EXCEPT !.done = TRUE]
        ELSE IF ~Together(r) THEN Separate(r, dim, vector, read)
        ELSE IF r.ch = 2 THEN Paired(dim, vector, read)
        ELSE InTurn(r.ch, dim, vector, read)
  BY Zenon DEF Vector, read
<1>8. Vector(r, dim, vector, d) \in Decoders(r.ch)
  BY <1>3, <1>4, <1>5, <1>6, <1>7
<1>. QED BY <1>8 DEF dim, vector

\* The decoder goes on before the vector w, for type 2 at the place z; or it has ended.
EndedRight(r, x) == \E u \in VectorNames : RightSoFar(r, x, u)

Ongoing(r, d, w, z) ==
  /\ d \in Decoders(r.ch)
  /\ d.done => EndedRight(r, d.added)
  /\ ~d.done => RightSoFar(r, d.added, w)
  /\ ~d.done /\ Together(r) => AtPlace(d, r.ch, z)

LEMMA VectorGoes ==
  ASSUME NEW r \in Residues, NEW pass, NEW p, NEW j, NEW v, IsVector(r, pass, p, j, v), NEW d,
         Ongoing(r, d, <<pass, p, j, v>>, Start(r, p) + v * Dim(r, pass, p, j))
  PROVE  Ongoing(r, Vector(r, Dim(r, pass, p, j), <<pass, p, j, v>>, d), <<pass, p, j, v + 1>>,
               Start(r, p) + (v + 1) * Dim(r, pass, p, j))
<1> DEFINE dim == Dim(r, pass, p, j)
           vector == <<pass, p, j, v>>
           behind == <<pass, p, j, v + 1>>
           read == Symbol(d)
           z == Start(r, p) + v * dim
           e == Vector(r, dim, vector, d)
<1>1. /\ dim \in Nat \ {0} /\ pass \in Nat /\ p \in Nat /\ j \in Nat /\ v \in Nat /\ r.ch \in Nat \ {0}
  BY VectorsFill, ResidueIs
<1>2. vector \in VectorNames
  BY <1>1 DEF VectorNames
<1>3. d \in Decoders(r.ch)
  BY DEF Ongoing
<1>4. /\ read \in Decoders(r.ch) /\ read.added = d.added /\ read.c = d.c /\ read.p = d.p
  BY <1>1, <1>3, SymbolIs
<1>5. e \in Decoders(r.ch)
  BY <1>3, VectorIsDecoder
<1>6. ~d.done => RightSoFar(r, d.added, vector)
  BY DEF Ongoing
<1>7. ~d.done /\ Together(r) => AtPlace(read, r.ch, z)
  BY <1>4 DEF Ongoing, AtPlace
<1>8. d.done => EndedRight(r, d.added)
  BY DEF Ongoing
<1>9. e = IF d.done \/ read.done THEN [d EXCEPT !.done = TRUE]
          ELSE IF ~Together(r) THEN Separate(r, dim, vector, read)
          ELSE IF r.ch = 2 THEN Paired(dim, vector, read)
          ELSE InTurn(r.ch, dim, vector, read)
  BY Zenon DEF Vector
<1>10. ASSUME NEW m \in Nat, m <= dim, \A i \in 0 .. (dim - 1) : Kept(r, Component(vector, i)) <=> i < m,
              Grown(r, d.added, e.added, vector, m), ~d.done
       PROVE  RightSoFar(r, e.added, behind)
  BY <1>6, <1>10, GrownIsRight
<1>11. ASSUME Together(r)
       PROVE  InTurnFrom(r, vector, dim, z, r.ch) /\ z \in Nat /\ z + dim = Start(r, p) + (v + 1) * dim
  BY <1>11, PlacesInTurn
<1>12. ~Together(r) => LET s == Separate(r, dim, vector, read)
                       IN  /\ s.done = read.done
                           /\ \E m \in Nat : /\ m <= dim
                                             /\ \A i \in 0 .. (dim - 1) : Kept(r, Component(vector, i)) <=> i < m
                                             /\ Grown(r, read.added, s.added, vector, m)
  BY <1>4, SeparateGrows
<1> HIDE DEF dim, vector, read, e, behind, z
<1>13. CASE d.done \/ read.done
  <2>1. e.done = TRUE /\ e.added = d.added
    BY <1>1, <1>3, <1>9, <1>13, DoneIs
  <2>2. EndedRight(r, d.added)
    BY <1>2, <1>6, <1>8 DEF EndedRight
  <2>3. Ongoing(r, e, behind, Start(r, p) + (v + 1) * dim)
    BY <1>5, <2>1, <2>2 DEF Ongoing
  <2>. QED BY <2>3 DEF dim, vector, e, behind
<1>14. CASE ~d.done /\ ~read.done /\ ~Together(r)
  <2>1. e = Separate(r, dim, vector, read)
    BY <1>9, <1>14
  <2>2. PICK m \in Nat : /\ m <= dim /\ Grown(r, d.added, e.added, vector, m)
                        /\ \A i \in 0 .. (dim - 1) : Kept(r, Component(vector, i)) <=> i < m
    BY <1>4, <1>12, <1>14, <2>1
  <2>3. e.done = FALSE
    <3>1. read.done \in BOOLEAN
      BY <1>4 DEF Decoders
    <3>. QED BY <1>12, <1>14, <2>1, <3>1
  <2>4. RightSoFar(r, e.added, behind)
    BY <1>10, <1>14, <2>2
  <2>5. Ongoing(r, e, behind, Start(r, p) + (v + 1) * dim)
    BY <1>5, <1>14, <2>3, <2>4 DEF Ongoing
  <2>. QED BY <2>5 DEF dim, vector, e, behind
<1>15. CASE ~d.done /\ ~read.done /\ Together(r)
  <2>1. Went(r, read, e, vector, dim, z, r.ch)
    <3>1. InTurnFrom(r, vector, dim, z, r.ch) /\ z \in Nat /\ AtPlace(read, r.ch, z)
      BY <1>7, <1>11, <1>15
    <3>2. CASE r.ch = 2
      <4>1. read \in Decoders(2) /\ InTurnFrom(r, vector, dim, z, 2) /\ AtPlace(read, 2, z)
        BY <1>4, <3>1, <3>2
      <4>2. Went(r, read, Paired(dim, vector, read), vector, dim, z, 2)
        BY <1>1, <1>2, <3>1, <4>1, PairedGrows
      <4>. QED BY <1>9, <1>15, <3>2, <4>2
    <3>3. CASE r.ch # 2
      <4>1. Went(r, read, InTurn(r.ch, dim, vector, read), vector, dim, z, r.ch)
        BY <1>1, <1>2, <1>4, <3>1, InTurnGrows
      <4>. QED BY <1>9, <1>15, <3>3, <4>1
    <3>. QED BY <3>2, <3>3
  <2>2. e.done = FALSE /\ Grown(r, d.added, e.added, vector, dim) /\ AtPlace(e, r.ch, z + dim)
    <3>1. read.done \in BOOLEAN
      BY <1>4 DEF Decoders
    <3>. QED BY <1>4, <1>15, <2>1, <3>1 DEF Went
  <2>3. RightSoFar(r, e.added, behind)
    <3>1. dim \in Nat /\ dim <= dim /\ \A i \in 0 .. (dim - 1) : i < dim
      BY <1>1
    <3>2. r.rtype = 2
      BY <1>15, ResidueIs
    <3>3. \A i \in 0 .. (dim - 1) : Kept(r, Component(vector, i)) <=> i < dim
      BY <3>1, <3>2 DEF Kept
    <3>. QED BY <1>10, <1>15, <2>2, <3>1, <3>3
  <2>4. AtPlace(e, r.ch, Start(r, p) + (v + 1) * dim)
    BY <1>11, <1>15, <2>2
  <2>5. Ongoing(r, e, behind, Start(r, p) + (v + 1) * dim)
    BY <1>5, <2>2, <2>3, <2>4 DEF Ongoing
  <2>. QED BY <2>5 DEF dim, vector, e, behind
<1>. QED BY <1>13, <1>14, <1>15

\* There are vectors of this source in this partition and pass.
HasVectors(r, pass, p, j) ==
  /\ pass \in 0 .. (Passes(r) - 1) /\ p \in 0 .. (Parts(r) - 1)
  /\ j \in 0 .. (Sources(r) - 1) /\ ~Undecoded(r, j) /\ Dim(r, pass, p, j) > 0

LEMMA AreVectors ==
  ASSUME NEW r, NEW pass, NEW p, NEW j, HasVectors(r, pass, p, j),
         NEW v \in 0 .. ((r.part_size \div Dim(r, pass, p, j)) - 1)
  PROVE  IsVector(r, pass, p, j, v)
  BY DEF HasVectors, IsVector

LEMMA VectorsCount ==
  ASSUME NEW r \in Residues, NEW pass, NEW p, NEW j, HasVectors(r, pass, p, j)
  PROVE  LET dim == Dim(r, pass, p, j)
         IN  /\ dim \in Nat \ {0} /\ r.part_size \div dim \in Nat \ {0}
             /\ r.part_size = dim * (r.part_size \div dim)
             /\ pass \in Nat /\ p \in Nat /\ j \in Nat
<1> DEFINE dim == Dim(r, pass, p, j)
           size == r.part_size
           q == size \div dim
<1>1. /\ dim \in Nat \ {0} /\ size \in Nat \ {0} /\ size % dim = 0
      /\ pass \in Nat /\ p \in Nat /\ j \in Nat
  BY ResidueIs DEF HasVectors
<1> HIDE DEF dim, size
<1>2. q \in Nat /\ size = dim * q
  <2>1. size \div dim \in Nat /\ size = dim * (size \div dim) + (size % dim)
    BY <1>1, RemainderIs
  <2>2. dim * (size \div dim) \in Nat
    BY <1>1, <2>1
  <2>. QED BY <1>1, <2>1, <2>2
<1> HIDE DEF q
<1>3. q # 0
  BY <1>1, <1>2
<1>. QED BY <1>1, <1>2, <1>3 DEF dim, q, size

FilledRun(y, r, pass, part, source, size, d) ==
  /\ y \in [0 .. size -> Decoders(r.ch)] /\ y[0] = d
  /\ \A k \in 1 .. size : y[k] = Vector(r, Dim(r, pass, part, source), <<pass, part, source, k - 1>>, y[k - 1])
  /\ Filled(r, Dim(r, pass, part, source), pass, part, source, d) = y[size]

LEMMA FilledIs ==
  ASSUME NEW r \in Residues, NEW pass, NEW part, NEW source, HasVectors(r, pass, part, source),
         NEW size, size = r.part_size \div Dim(r, pass, part, source), NEW d \in Decoders(r.ch)
  PROVE  \E y : FilledRun(y, r, pass, part, source, size, d)
<1>0. size \in Nat /\ d \in Decoders(r.ch)
  BY VectorsCount
<1> DEFINE n == size
           V == Decoders(r.ch)
           b == d
           Step(v, i) == Vector(r, Dim(r, pass, part, source), <<pass, part, source, i>>, v)
           q == Count(0, r.part_size \div Dim(r, pass, part, source) - 1)
           F == [p \in (1 .. n) \X V |-> Step(p[2], q[p[1]])]
           E(g) == g = [s_ \in SUBSET DOMAIN q |->
                          IF s_ = {} THEN b ELSE Step(g[s_ \ {Max(s_)}], q[Max(s_)])]
<1>1. Filled(r, Dim(r, pass, part, source), pass, part, source, d) = (CHOOSE g : E(g))[DOMAIN q]
  BY DEF Filled, FoldLeft, MapThenFoldSet
<1>2. /\ n \in Nat /\ b \in V /\ DOMAIN q = 1 .. n /\ \A k \in 1 .. n : q[k] = k - 1
      /\ \A k \in 1 .. n : \A v \in V : Step(v, q[k]) \in V
  <2>1. n \in Nat /\ DOMAIN q = 1 .. n /\ \A k \in 1 .. n : q[k] = k - 1
    <3>1. q = Count(0, size - 1)
      OBVIOUS
    <3> HIDE DEF q
    <3>2. DOMAIN Count(0, size - 1) = 1 .. size /\ \A k \in 1 .. size : Count(0, size - 1)[k] = k - 1
      BY <1>0 DEF Count
    <3>. QED BY <1>0, <3>1, <3>2
  <2>2. b \in V
    BY <1>0
  <2>3. ASSUME NEW v \in V, NEW i \in 0 .. (n - 1) PROVE Step(v, i) \in V
    <3>1. IsVector(r, pass, part, source, i)
      BY AreVectors
    <3>. QED BY <3>1, VectorIsDecoder
  <2> HIDE DEF V, Step, q, b, n
  <2>4. \A k \in 1 .. n : q[k] \in 0 .. (n - 1)
    BY <2>1
  <2>. QED BY <2>1, <2>2, <2>3, <2>4
<1>3. \A k \in 1 .. n : \A v \in V : F[<<k, v>>] = Step(v, q[k])
  OBVIOUS
<1> HIDE DEF V, b, Step, F, q, n
<1>4. PICK h \in [SUBSET (1 .. n) -> V] : Folding(h, F, b, 1 .. n)
  <2>1. n \in Nat /\ b \in V /\ \A k \in 1 .. n : \A v \in V : F[<<k, v>>] \in V
    BY <1>2, <1>3
  <2> HIDE DEF E
  <2>. QED BY <2>1, FoldingsOfType
<1>5. E(h)
  <2>1. ASSUME NEW t \in SUBSET (1 .. n)
        PROVE  h[t] = IF t = {} THEN b ELSE Step(h[t \ {Max(t)}], q[Max(t)])
    <3>1. t # {} => Max(t) \in 1 .. n
      BY <1>2, UptoHasLast DEF HasLast
    <3>. QED BY <1>2, <1>3, <1>4, <3>1 DEF Folding
  <2>. QED BY <1>2, <1>4, <2>1
<1> DEFINE g == CHOOSE g : E(g)
<1>6. E(g)
  <2> HIDE DEF E
  <2>. QED BY <1>5
<1>7. Chain(g, F, b, V, n)
  <2> HIDE DEF g
  <2>1. ASSUME NEW t \in SUBSET (1 .. n), t # {}, g[t \ {Max(t)}] \in V
        PROVE  g[t] = F[<<Max(t), g[t \ {Max(t)}]>>]
    <3>1. Max(t) \in 1 .. n
      BY <1>2, <2>1, UptoHasLast DEF HasLast
    <3>2. g[t] = Step(g[t \ {Max(t)}], q[Max(t)])
      BY <1>2, <1>6, <2>1
    <3>. QED BY <1>2, <1>3, <2>1, <3>1, <3>2
  <2>2. g[{}] = b
    BY <1>6
  <2> HIDE DEF E
  <2>. QED BY <2>1, <2>2 DEF Chain
<1>8. PICK y \in [0 .. n -> V] : Iterates(y, F, b, n) /\ y[n] = g[1 .. n]
  <2>1. n \in Nat /\ b \in V /\ \A k \in 1 .. n : \A v \in V : F[<<k, v>>] \in V
    BY <1>2, <1>3
  <2> HIDE DEF g
  <2>. QED BY <2>1, <1>7, ChainIterates
<1>9. ASSUME NEW k \in 1 .. n PROVE y[k] = Step(y[k - 1], k - 1)
  <2>1. k - 1 \in 0 .. n /\ y[k - 1] \in V
    BY <1>2
  <2>2. y[k] = F[<<k, y[k - 1]>>] /\ q[k] = k - 1
    BY <1>2, <1>8 DEF Iterates
  <2>. QED BY <1>3, <2>1, <2>2
<1>10. Filled(r, Dim(r, pass, part, source), pass, part, source, d) = y[n]
  BY <1>1, <1>2, <1>8
<1>. QED BY <1>8, <1>9, <1>10 DEF V, b, Step, n, Iterates, FilledRun

LEMMA FilledGoes ==
  ASSUME NEW r \in Residues, NEW pass, NEW p, NEW j, HasVectors(r, pass, p, j), NEW d,
         Ongoing(r, d, <<pass, p, j, 0>>, Start(r, p))
  PROVE  LET dim == Dim(r, pass, p, j)
         IN  Ongoing(r, Filled(r, dim, pass, p, j, d), <<pass, p, j, r.part_size \div dim>>,
                     Start(r, p) + r.part_size)
<1> DEFINE dim == Dim(r, pass, p, j)
           q == r.part_size \div dim
           start == Start(r, p)
<1>1. /\ dim \in Nat \ {0} /\ q \in Nat \ {0} /\ r.part_size = dim * q /\ p \in Nat
  BY VectorsCount
<1>2. start \in Nat
  BY <1>1, StartIs
<1>3. d \in Decoders(r.ch)
  BY DEF Ongoing
<1>4. PICK y : FilledRun(y, r, pass, p, j, q, d)
  BY <1>3, FilledIs
<1>5. /\ y[0] = d /\ Filled(r, dim, pass, p, j, d) = y[q]
      /\ \A k \in 1 .. q : y[k] = Vector(r, dim, <<pass, p, j, k - 1>>, y[k - 1])
  BY <1>4 DEF FilledRun
<1> DEFINE Good(k) == Ongoing(r, y[k], <<pass, p, j, k>>, start + k * dim)
           T == {k \in 0 .. q : Good(k)}
<1>6. Good(0)
  <2>1. start + 0 * dim = start
    <3> HIDE DEF dim, start
    <3>. QED BY <1>1, <1>2
  <2>. QED BY <1>5, <2>1
<1>7. ASSUME NEW k \in 1 .. q, Good(k - 1) PROVE Good(k)
  <2>1. PICK m \in 0 .. (q - 1) : m = k - 1 /\ k = m + 1
    <3>1. k - 1 \in 0 .. (q - 1) /\ k = (k - 1) + 1
      <4> HIDE DEF q
      <4>. QED BY <1>1
    <3>. QED BY <3>1
  <2>2. IsVector(r, pass, p, j, m)
    BY AreVectors
  <2>3. PICK c : c = y[m]
    OBVIOUS
  <2>4. Ongoing(r, c, <<pass, p, j, m>>, start + m * dim)
    BY <1>7, <2>1, <2>3
  <2>5. Ongoing(r, Vector(r, dim, <<pass, p, j, m>>, c), <<pass, p, j, m + 1>>, start + (m + 1) * dim)
    BY <2>2, <2>4, VectorGoes
  <2>6. y[k] = Vector(r, dim, <<pass, p, j, m>>, c)
    <3> HIDE DEF dim, q
    <3>. QED BY <1>5, <2>1, <2>3
  <2>. QED BY <2>1, <2>5, <2>6
<1>8. 0 \in T /\ \A k \in 1 .. q : k - 1 \in T => k \in T
  <2>1. 0 \in 0 .. q /\ \A k \in 1 .. q : k \in 0 .. q
    <3> HIDE DEF q
    <3>. QED BY <1>1
  <2> HIDE DEF Good, q
  <2>. QED BY <1>6, <1>7, <2>1
<1>9. q \in T
  <2> HIDE DEF T, q
  <2>. QED BY <1>1, <1>8, UptoInduction
<1>10. start + q * dim = start + r.part_size
  <2>1. q * dim = dim * q
    <3> HIDE DEF q, dim
    <3>. QED BY <1>1
  <2>. QED BY <1>1, <2>1
<1>11. Ongoing(r, y[q], <<pass, p, j, q>>, start + q * dim)
  BY <1>9
<1>. QED BY <1>5, <1>10, <1>11

LEMMA OngoingMoves ==
  ASSUME NEW r, NEW d, NEW w, NEW u, NEW z, NEW z1, Ongoing(r, d, w, z), Together(r) => z = z1,
         \A s \in Components(r) : Earlier(s, w) <=> Earlier(s, u)
  PROVE  Ongoing(r, d, u, z1)
<1>1. ~d.done => RightSoFar(r, d.added, u)
  BY MovesOn DEF Ongoing
<1>2. ~d.done /\ Together(r) => AtPlace(d, r.ch, z1)
  BY DEF Ongoing
<1>. QED BY <1>1, <1>2 DEF Ongoing

\* No component is between two vectors.
LEMMA ComponentFields ==
  ASSUME NEW r \in Residues, NEW s \in Components(r)
  PROVE  /\ IsVector(r, s[1], s[2], s[3], s[4])
         /\ s[1] \in Nat /\ s[2] \in Nat /\ s[3] \in Nat /\ s[4] \in Nat /\ s[5] \in Nat
         /\ s[1] < Passes(r) /\ s[2] < Parts(r) /\ s[3] < Sources(r)
         /\ s[4] < r.part_size \div Dim(r, s[1], s[2], s[3]) /\ s[5] < Dim(r, s[1], s[2], s[3])
         /\ s = <<s[1], s[2], s[3], s[4], s[5]>>
<1>1. s \in ComponentNames /\ IsVector(r, s[1], s[2], s[3], s[4]) /\ s[5] < Dim(r, s[1], s[2], s[3])
  BY ComponentIs DEF IsComponent
<1>2. /\ s[1] \in Nat /\ s[2] \in Nat /\ s[3] \in Nat /\ s[4] \in Nat /\ s[5] \in Nat
      /\ s = <<s[1], s[2], s[3], s[4], s[5]>>
  BY <1>1 DEF ComponentNames
<1>3. Passes(r) \in Nat /\ Parts(r) \in Nat /\ Sources(r) \in Nat
  BY ResidueIs
<1>4. r.part_size \div Dim(r, s[1], s[2], s[3]) \in Nat
  BY <1>1, VectorsFill
<1>. QED BY <1>1, <1>2, <1>3, <1>4 DEF IsVector

LEMMA BehindSource ==
  ASSUME NEW r \in Residues, NEW pass \in Nat, NEW p \in Nat, NEW j \in Nat, NEW v \in Nat,
         \A s \in Components(r) : s[1] = pass /\ s[2] = p /\ s[3] = j => s[4] < v
  PROVE  \A s \in Components(r) : Earlier(s, <<pass, p, j, v>>) <=> Earlier(s, <<pass, p, j + 1, 0>>)
<1>1. SUFFICES ASSUME NEW s \in Components(r)
               PROVE  Earlier(s, <<pass, p, j, v>>) <=> Earlier(s, <<pass, p, j + 1, 0>>)
  OBVIOUS
<1>2. /\ Earlier(s, <<pass, p, j, v>>) <=> Sooner(s[1], s[2], s[3], s[4], pass, p, j, v)
      /\ Earlier(s, <<pass, p, j + 1, 0>>) <=> Sooner(s[1], s[2], s[3], s[4], pass, p, j + 1, 0)
  BY EarlierIs
<1>3. \A b1, b2, b3, b4 \in Nat : (b1 = pass /\ b2 = p /\ b3 = j => b4 < v) =>
        (Sooner(b1, b2, b3, b4, pass, p, j, v) <=> Sooner(b1, b2, b3, b4, pass, p, j + 1, 0))
  BY DEF Sooner
<1>4. s[1] \in Nat /\ s[2] \in Nat /\ s[3] \in Nat /\ s[4] \in Nat
  BY ComponentFields
<1>. QED BY <1>2, <1>3, <1>4

LEMMA BehindPartition ==
  ASSUME NEW r \in Residues, NEW pass \in Nat, NEW p \in Nat
  PROVE  \A s \in Components(r) : Earlier(s, <<pass, p, Sources(r), 0>>) <=> Earlier(s, <<pass, p + 1, 0, 0>>)
<1>1. SUFFICES ASSUME NEW s \in Components(r)
               PROVE  Earlier(s, <<pass, p, Sources(r), 0>>) <=> Earlier(s, <<pass, p + 1, 0, 0>>)
  OBVIOUS
<1>2. PICK n \in Nat : n = Sources(r)
  BY ResidueIs
<1>3. /\ Earlier(s, <<pass, p, n, 0>>) <=> Sooner(s[1], s[2], s[3], s[4], pass, p, n, 0)
      /\ Earlier(s, <<pass, p + 1, 0, 0>>) <=> Sooner(s[1], s[2], s[3], s[4], pass, p + 1, 0, 0)
  BY EarlierIs
<1>4. \A b1, b2, b3, b4 \in Nat : b3 < n =>
        (Sooner(b1, b2, b3, b4, pass, p, n, 0) <=> Sooner(b1, b2, b3, b4, pass, p + 1, 0, 0))
  BY DEF Sooner
<1>5. s[1] \in Nat /\ s[2] \in Nat /\ s[3] \in Nat /\ s[4] \in Nat /\ s[3] < n
  BY <1>2, ComponentFields
<1>. QED BY <1>2, <1>3, <1>4, <1>5

LEMMA BehindPass ==
  ASSUME NEW r \in Residues, NEW pass \in Nat
  PROVE  \A s \in Components(r) : Earlier(s, <<pass, Parts(r), 0, 0>>) <=> Earlier(s, <<pass + 1, 0, 0, 0>>)
<1>1. SUFFICES ASSUME NEW s \in Components(r)
               PROVE  Earlier(s, <<pass, Parts(r), 0, 0>>) <=> Earlier(s, <<pass + 1, 0, 0, 0>>)
  OBVIOUS
<1>2. PICK n \in Nat : n = Parts(r)
  BY ResidueIs
<1>3. /\ Earlier(s, <<pass, n, 0, 0>>) <=> Sooner(s[1], s[2], s[3], s[4], pass, n, 0, 0)
      /\ Earlier(s, <<pass + 1, 0, 0, 0>>) <=> Sooner(s[1], s[2], s[3], s[4], pass + 1, 0, 0, 0)
  BY EarlierIs
<1>4. \A b1, b2, b3, b4 \in Nat : b2 < n =>
        (Sooner(b1, b2, b3, b4, pass, n, 0, 0) <=> Sooner(b1, b2, b3, b4, pass + 1, 0, 0, 0))
  BY DEF Sooner
<1>5. s[1] \in Nat /\ s[2] \in Nat /\ s[3] \in Nat /\ s[4] \in Nat /\ s[2] < n
  BY <1>2, ComponentFields
<1>. QED BY <1>2, <1>3, <1>4, <1>5

\* A partition of one source.
IsPartition(r, pass, p) == pass \in 0 .. (Passes(r) - 1) /\ p \in 0 .. (Parts(r) - 1)

LEMMA PartitionIs ==
  ASSUME NEW r \in Residues, NEW pass, NEW p, NEW j \in 0 .. (Sources(r) - 1), IsPartition(r, pass, p)
  PROVE  /\ pass \in Nat /\ p \in Nat /\ j \in Nat /\ Dim(r, pass, p, j) \in Nat
         /\ r.ch \in Nat \ {0} /\ Start(r, p) \in Nat /\ Start(r, p) + r.part_size \in Nat
         /\ ~Undecoded(r, j) /\ Dim(r, pass, p, j) # 0 => HasVectors(r, pass, p, j)
<1>1. pass \in Nat /\ p \in Nat /\ j \in Nat /\ Dim(r, pass, p, j) \in Nat /\ r.ch \in Nat \ {0} /\ r.part_size \in Nat
  BY ResidueIs DEF IsPartition
<1>2. Start(r, p) \in Nat
  BY <1>1, StartIs
<1>3. ~Undecoded(r, j) /\ Dim(r, pass, p, j) # 0 => HasVectors(r, pass, p, j)
  BY <1>1 DEF HasVectors, IsPartition
<1>4. Start(r, p) + r.part_size \in Nat
  BY <1>1, <1>2
<1>. QED BY <1>1, <1>2, <1>3, <1>4

LEMMA PartitionIsDecoder ==
  ASSUME NEW r \in Residues, NEW pass, NEW p, NEW j \in 0 .. (Sources(r) - 1), IsPartition(r, pass, p),
         NEW d \in Decoders(r.ch)
  PROVE  Partition(r, pass, p, j, d) \in Decoders(r.ch)
<1> DEFINE dim == Dim(r, pass, p, j)
<1>1. HasVectors(r, pass, p, j) => Filled(r, dim, pass, p, j, d) \in Decoders(r.ch)
  <2>1. SUFFICES ASSUME HasVectors(r, pass, p, j) PROVE Filled(r, dim, pass, p, j, d) \in Decoders(r.ch)
    OBVIOUS
  <2>2. PICK size : size = r.part_size \div dim
    OBVIOUS
  <2>3. PICK y : FilledRun(y, r, pass, p, j, size, d)
    BY <2>1, <2>2, FilledIs
  <2>4. y \in [0 .. size -> Decoders(r.ch)] /\ Filled(r, dim, pass, p, j, d) = y[size]
    BY <2>3 DEF FilledRun
  <2>5. size \in Nat
    BY <2>1, <2>2, VectorsCount
  <2>. QED BY <2>4, <2>5
<1>2. From(d, r.ch, Start(r, p) + r.part_size) \in Decoders(r.ch)
  BY PartitionIs, FromIs
<1>3. ~Undecoded(r, j) /\ dim # 0 => HasVectors(r, pass, p, j)
  BY PartitionIs
<1>4. Partition(r, pass, p, j, d) =
        IF ~Undecoded(r, j) /\ dim # 0 THEN Filled(r, dim, pass, p, j, d)
        ELSE IF Together(r) THEN From(d, r.ch, Start(r, p) + r.part_size) ELSE d
  BY Zenon DEF Partition
<1> HIDE DEF dim
<1>. QED BY <1>1, <1>2, <1>3, <1>4

LEMMA PartitionGoes ==
  ASSUME NEW r \in Residues, NEW pass, NEW p, NEW j \in 0 .. (Sources(r) - 1), IsPartition(r, pass, p),
         NEW d, NEW z, Together(r) => z = Start(r, p), Ongoing(r, d, <<pass, p, j, 0>>, z)
  PROVE  Ongoing(r, Partition(r, pass, p, j, d), <<pass, p, j + 1, 0>>, Start(r, p) + r.part_size)
<1> DEFINE dim == Dim(r, pass, p, j)
           start == Start(r, p)
           q == r.part_size \div dim
           e == Partition(r, pass, p, j, d)
<1>1. /\ pass \in Nat /\ p \in Nat /\ j \in Nat /\ dim \in Nat /\ r.ch \in Nat \ {0}
      /\ start \in Nat /\ start + r.part_size \in Nat
      /\ ~Undecoded(r, j) /\ dim # 0 => HasVectors(r, pass, p, j)
  BY PartitionIs
<1>2. e = IF ~Undecoded(r, j) /\ dim # 0 THEN Filled(r, dim, pass, p, j, d)
          ELSE IF Together(r) THEN From(d, r.ch, start + r.part_size) ELSE d
  BY Zenon DEF Partition
<1>3. d \in Decoders(r.ch)
  BY DEF Ongoing
<1>5. CASE Undecoded(r, j) \/ dim = 0
  <2>1. \A s \in Components(r) : s[1] = pass /\ s[2] = p /\ s[3] = j => s[4] < 0
    <3>1. SUFFICES ASSUME NEW s \in Components(r), s[1] = pass, s[2] = p, s[3] = j PROVE FALSE
      OBVIOUS
    <3>2. IsVector(r, pass, p, j, s[4])
      BY <3>1, ComponentFields
    <3>. QED BY <1>1, <1>5, <3>2 DEF IsVector
  <2>2. \A s \in Components(r) : Earlier(s, <<pass, p, j, 0>>) <=> Earlier(s, <<pass, p, j + 1, 0>>)
    BY <1>1, <2>1, BehindSource
  <2>3. CASE ~Together(r)
    <3>1. e = d
      BY <1>2, <1>5, <2>3
    <3>2. Ongoing(r, d, <<pass, p, j + 1, 0>>, start + r.part_size)
      BY <2>2, <2>3, OngoingMoves
    <3>. QED BY <3>1, <3>2
  <2>4. CASE Together(r)
    <3>1. PICK c : c = From(d, r.ch, start + r.part_size)
      OBVIOUS
    <3>2. e = c
      BY <1>2, <1>5, <2>4, <3>1
    <3>3. /\ c \in Decoders(r.ch) /\ c.added = d.added /\ c.done = d.done
          /\ c.c = (start + r.part_size) % r.ch /\ c.p = (start + r.part_size) \div r.ch
      <4>1. PICK y \in Nat : y = start + r.part_size
        BY <1>1
      <4>2. c = From(d, r.ch, y)
        BY <3>1, <4>1
      <4>3. c \in Decoders(r.ch) /\ c.added = d.added /\ c.done = d.done /\ c.c = y % r.ch /\ c.p = y \div r.ch
        BY <1>1, <1>3, <4>2, FromIs, ZenonT(40)
      <4>. QED BY <4>1, <4>3, Zenon
    <3>4. Ongoing(r, d, <<pass, p, j + 1, 0>>, z)
      BY <2>2, OngoingMoves
    <3>5. Ongoing(r, c, <<pass, p, j + 1, 0>>, start + r.part_size)
      <4> HIDE DEF start
      <4>. QED BY <3>3, <3>4 DEF Ongoing, AtPlace
    <3>. QED BY <3>2, <3>5
  <2>. QED BY <2>3, <2>4
<1>6. CASE ~Undecoded(r, j) /\ dim # 0
  <2>1. HasVectors(r, pass, p, j)
    BY <1>1, <1>6
  <2>2. e = Filled(r, dim, pass, p, j, d)
    BY <1>2, <1>6
  <2>3. Ongoing(r, d, <<pass, p, j, 0>>, start)
    <3>1. \A s \in Components(r) : Earlier(s, <<pass, p, j, 0>>) <=> Earlier(s, <<pass, p, j, 0>>)
      OBVIOUS
    <3>. QED BY <3>1, OngoingMoves
  <2>4. Ongoing(r, e, <<pass, p, j, q>>, start + r.part_size)
    BY <2>1, <2>2, <2>3, FilledGoes
  <2>5. q \in Nat
    BY <2>1, VectorsCount
  <2>6. \A s \in Components(r) : s[1] = pass /\ s[2] = p /\ s[3] = j => s[4] < q
    BY ComponentFields
  <2>7. \A s \in Components(r) : Earlier(s, <<pass, p, j, q>>) <=> Earlier(s, <<pass, p, j + 1, 0>>)
    <3> HIDE DEF q
    <3>. QED BY <1>1, <2>5, <2>6, BehindSource
  <2> HIDE DEF e, q, start
  <2>8. Ongoing(r, e, <<pass, p, j + 1, 0>>, start + r.part_size)
    BY <2>4, <2>7, OngoingMoves
  <2>. QED BY <2>8 DEF e, start
<1>. QED BY <1>5, <1>6

SourcedRun(y, r, pass, part, d) ==
  /\ y \in [0 .. Sources(r) -> Decoders(r.ch)] /\ y[0] = d
  /\ \A k \in 1 .. Sources(r) : y[k] = Partition(r, pass, part, k - 1, y[k - 1])
  /\ Sourced(r, pass, part, d) = y[Sources(r)]

LEMMA SourcedIs ==
  ASSUME NEW r \in Residues, NEW pass, NEW part, IsPartition(r, pass, part), NEW d \in Decoders(r.ch)
  PROVE  \E y : SourcedRun(y, r, pass, part, d)
<1>0. Sources(r) \in Nat /\ d \in Decoders(r.ch)
  BY ResidueIs
<1> DEFINE n == Sources(r)
           V == Decoders(r.ch)
           b == d
           Step(v, i) == Partition(r, pass, part, i, v)
           q == Count(0, Sources(r) - 1)
           F == [p \in (1 .. n) \X V |-> Step(p[2], q[p[1]])]
           E(g) == g = [s_ \in SUBSET DOMAIN q |->
                          IF s_ = {} THEN b ELSE Step(g[s_ \ {Max(s_)}], q[Max(s_)])]
<1>1. Sourced(r, pass, part, d) = (CHOOSE g : E(g))[DOMAIN q]
  BY DEF Sourced, FoldLeft, MapThenFoldSet
<1>2. /\ n \in Nat /\ b \in V /\ DOMAIN q = 1 .. n /\ \A k \in 1 .. n : q[k] = k - 1
      /\ \A k \in 1 .. n : \A v \in V : Step(v, q[k]) \in V
  <2>1. n \in Nat /\ DOMAIN q = 1 .. n /\ \A k \in 1 .. n : q[k] = k - 1
    <3>1. q = Count(0, Sources(r) - 1)
      OBVIOUS
    <3> HIDE DEF q
    <3>2. DOMAIN Count(0, Sources(r) - 1) = 1 .. Sources(r) /\ \A k \in 1 .. Sources(r) : Count(0, Sources(r) - 1)[k] = k - 1
      BY <1>0 DEF Count
    <3>. QED BY <1>0, <3>1, <3>2
  <2>2. b \in V
    BY <1>0
  <2>3. ASSUME NEW v \in V, NEW i \in 0 .. (n - 1) PROVE Step(v, i) \in V
    BY PartitionIsDecoder
  <2> HIDE DEF V, Step, q, b, n
  <2>4. \A k \in 1 .. n : q[k] \in 0 .. (n - 1)
    BY <2>1
  <2>. QED BY <2>1, <2>2, <2>3, <2>4
<1>3. \A k \in 1 .. n : \A v \in V : F[<<k, v>>] = Step(v, q[k])
  OBVIOUS
<1> HIDE DEF V, b, Step, F, q, n
<1>4. PICK h \in [SUBSET (1 .. n) -> V] : Folding(h, F, b, 1 .. n)
  <2>1. n \in Nat /\ b \in V /\ \A k \in 1 .. n : \A v \in V : F[<<k, v>>] \in V
    BY <1>2, <1>3
  <2> HIDE DEF E
  <2>. QED BY <2>1, FoldingsOfType
<1>5. E(h)
  <2>1. ASSUME NEW t \in SUBSET (1 .. n)
        PROVE  h[t] = IF t = {} THEN b ELSE Step(h[t \ {Max(t)}], q[Max(t)])
    <3>1. t # {} => Max(t) \in 1 .. n
      BY <1>2, UptoHasLast DEF HasLast
    <3>. QED BY <1>2, <1>3, <1>4, <3>1 DEF Folding
  <2>. QED BY <1>2, <1>4, <2>1
<1> DEFINE g == CHOOSE g : E(g)
<1>6. E(g)
  <2> HIDE DEF E
  <2>. QED BY <1>5
<1>7. Chain(g, F, b, V, n)
  <2> HIDE DEF g
  <2>1. ASSUME NEW t \in SUBSET (1 .. n), t # {}, g[t \ {Max(t)}] \in V
        PROVE  g[t] = F[<<Max(t), g[t \ {Max(t)}]>>]
    <3>1. Max(t) \in 1 .. n
      BY <1>2, <2>1, UptoHasLast DEF HasLast
    <3>2. g[t] = Step(g[t \ {Max(t)}], q[Max(t)])
      BY <1>2, <1>6, <2>1
    <3>. QED BY <1>2, <1>3, <2>1, <3>1, <3>2
  <2>2. g[{}] = b
    BY <1>6
  <2> HIDE DEF E
  <2>. QED BY <2>1, <2>2 DEF Chain
<1>8. PICK y \in [0 .. n -> V] : Iterates(y, F, b, n) /\ y[n] = g[1 .. n]
  <2>1. n \in Nat /\ b \in V /\ \A k \in 1 .. n : \A v \in V : F[<<k, v>>] \in V
    BY <1>2, <1>3
  <2> HIDE DEF g
  <2>. QED BY <2>1, <1>7, ChainIterates
<1>9. ASSUME NEW k \in 1 .. n PROVE y[k] = Step(y[k - 1], k - 1)
  <2>1. k - 1 \in 0 .. n /\ y[k - 1] \in V
    BY <1>2
  <2>2. y[k] = F[<<k, y[k - 1]>>] /\ q[k] = k - 1
    BY <1>2, <1>8 DEF Iterates
  <2>. QED BY <1>3, <2>1, <2>2
<1>10. Sourced(r, pass, part, d) = y[n]
  BY <1>1, <1>2, <1>8
<1>. QED BY <1>8, <1>9, <1>10 DEF V, b, Step, n, Iterates, SourcedRun

ClassWordsRun(y, r, d) ==
  /\ y \in [0 .. Sources(r) -> Decoders(r.ch)] /\ y[0] = d
  /\ \A k \in 1 .. Sources(r) : y[k] = IF y[k - 1].done \/ Undecoded(r, k - 1) THEN y[k - 1] ELSE Symbol(y[k - 1])
  /\ ClassWords(r, d) = y[Sources(r)]

LEMMA ClassWordsIs ==
  ASSUME NEW r \in Residues, NEW d \in Decoders(r.ch)
  PROVE  \E y : ClassWordsRun(y, r, d)
<1>0. Sources(r) \in Nat /\ d \in Decoders(r.ch)
  BY ResidueIs
<1> DEFINE n == Sources(r)
           V == Decoders(r.ch)
           b == d
           Step(v, i) == IF v.done \/ Undecoded(r, i) THEN v ELSE Symbol(v)
           q == Count(0, Sources(r) - 1)
           F == [p \in (1 .. n) \X V |-> Step(p[2], q[p[1]])]
           E(g) == g = [s_ \in SUBSET DOMAIN q |->
                          IF s_ = {} THEN b ELSE Step(g[s_ \ {Max(s_)}], q[Max(s_)])]
<1>1. ClassWords(r, d) = (CHOOSE g : E(g))[DOMAIN q]
  BY DEF ClassWords, FoldLeft, MapThenFoldSet
<1>2. /\ n \in Nat /\ b \in V /\ DOMAIN q = 1 .. n /\ \A k \in 1 .. n : q[k] = k - 1
      /\ \A k \in 1 .. n : \A v \in V : Step(v, q[k]) \in V
  <2>1. n \in Nat /\ DOMAIN q = 1 .. n /\ \A k \in 1 .. n : q[k] = k - 1
    <3>1. q = Count(0, Sources(r) - 1)
      OBVIOUS
    <3> HIDE DEF q
    <3>2. DOMAIN Count(0, Sources(r) - 1) = 1 .. Sources(r) /\ \A k \in 1 .. Sources(r) : Count(0, Sources(r) - 1)[k] = k - 1
      BY <1>0 DEF Count
    <3>. QED BY <1>0, <3>1, <3>2
  <2>2. b \in V
    BY <1>0
  <2>3. ASSUME NEW v \in V, NEW i \in 0 .. (n - 1) PROVE Step(v, i) \in V
    <3>1. r.ch \in Nat \ {0}
      BY ResidueIs
    <3>2. Symbol(v) \in Decoders(r.ch)
      BY <3>1, SymbolIs
    <3>. QED BY <3>2
  <2> HIDE DEF V, Step, q, b, n
  <2>4. \A k \in 1 .. n : q[k] \in 0 .. (n - 1)
    BY <2>1
  <2>. QED BY <2>1, <2>2, <2>3, <2>4
<1>3. \A k \in 1 .. n : \A v \in V : F[<<k, v>>] = Step(v, q[k])
  OBVIOUS
<1> HIDE DEF V, b, Step, F, q, n
<1>4. PICK h \in [SUBSET (1 .. n) -> V] : Folding(h, F, b, 1 .. n)
  <2>1. n \in Nat /\ b \in V /\ \A k \in 1 .. n : \A v \in V : F[<<k, v>>] \in V
    BY <1>2, <1>3
  <2> HIDE DEF E
  <2>. QED BY <2>1, FoldingsOfType
<1>5. E(h)
  <2>1. ASSUME NEW t \in SUBSET (1 .. n)
        PROVE  h[t] = IF t = {} THEN b ELSE Step(h[t \ {Max(t)}], q[Max(t)])
    <3>1. t # {} => Max(t) \in 1 .. n
      BY <1>2, UptoHasLast DEF HasLast
    <3>. QED BY <1>2, <1>3, <1>4, <3>1 DEF Folding
  <2>. QED BY <1>2, <1>4, <2>1
<1> DEFINE g == CHOOSE g : E(g)
<1>6. E(g)
  <2> HIDE DEF E
  <2>. QED BY <1>5
<1>7. Chain(g, F, b, V, n)
  <2> HIDE DEF g
  <2>1. ASSUME NEW t \in SUBSET (1 .. n), t # {}, g[t \ {Max(t)}] \in V
        PROVE  g[t] = F[<<Max(t), g[t \ {Max(t)}]>>]
    <3>1. Max(t) \in 1 .. n
      BY <1>2, <2>1, UptoHasLast DEF HasLast
    <3>2. g[t] = Step(g[t \ {Max(t)}], q[Max(t)])
      BY <1>2, <1>6, <2>1
    <3>. QED BY <1>2, <1>3, <2>1, <3>1, <3>2
  <2>2. g[{}] = b
    BY <1>6
  <2> HIDE DEF E
  <2>. QED BY <2>1, <2>2 DEF Chain
<1>8. PICK y \in [0 .. n -> V] : Iterates(y, F, b, n) /\ y[n] = g[1 .. n]
  <2>1. n \in Nat /\ b \in V /\ \A k \in 1 .. n : \A v \in V : F[<<k, v>>] \in V
    BY <1>2, <1>3
  <2> HIDE DEF g
  <2>. QED BY <2>1, <1>7, ChainIterates
<1>9. ASSUME NEW k \in 1 .. n PROVE y[k] = Step(y[k - 1], k - 1)
  <2>1. k - 1 \in 0 .. n /\ y[k - 1] \in V
    BY <1>2
  <2>2. y[k] = F[<<k, y[k - 1]>>] /\ q[k] = k - 1
    BY <1>2, <1>8 DEF Iterates
  <2>. QED BY <1>3, <2>1, <2>2
<1>10. ClassWords(r, d) = y[n]
  BY <1>1, <1>2, <1>8
<1>. QED BY <1>8, <1>9, <1>10 DEF V, b, Step, n, Iterates, ClassWordsRun

LEMMA SourcedIsDecoder ==
  ASSUME NEW r \in Residues, NEW pass, NEW p, IsPartition(r, pass, p), NEW d \in Decoders(r.ch)
  PROVE  Sourced(r, pass, p, d) \in Decoders(r.ch)
<1>1. PICK y : SourcedRun(y, r, pass, p, d)
  BY SourcedIs
<1>2. y \in [0 .. Sources(r) -> Decoders(r.ch)] /\ Sourced(r, pass, p, d) = y[Sources(r)]
  BY <1>1 DEF SourcedRun
<1>3. Sources(r) \in Nat
  BY ResidueIs
<1>. QED BY <1>2, <1>3

LEMMA SourcedGoes ==
  ASSUME NEW r \in Residues, NEW pass, NEW p, IsPartition(r, pass, p), NEW d,
         Ongoing(r, d, <<pass, p, 0, 0>>, Start(r, p))
  PROVE  Ongoing(r, Sourced(r, pass, p, d), <<pass, p + 1, 0, 0>>, Start(r, p + 1))
<1> DEFINE start == Start(r, p)
           place(k) == IF k = 0 THEN start ELSE start + r.part_size
<1>1. PICK n \in Nat : n = Sources(r) /\ n # 0 /\ (Together(r) => n = 1)
  BY ResidueIs
<1>2. pass \in Nat /\ p \in Nat
  BY ResidueIs DEF IsPartition
<1>3. d \in Decoders(r.ch)
  BY DEF Ongoing
<1>4. PICK y : SourcedRun(y, r, pass, p, d)
  BY <1>3, SourcedIs
<1>5. /\ y[0] = d /\ Sourced(r, pass, p, d) = y[n]
      /\ \A k \in 1 .. n : y[k] = Partition(r, pass, p, k - 1, y[k - 1])
  BY <1>1, <1>4 DEF SourcedRun
<1> DEFINE Good(k) == Ongoing(r, y[k], <<pass, p, k, 0>>, place(k))
           T == {k \in 0 .. n : Good(k)}
<1>6. Good(0)
  BY <1>5
<1>7. ASSUME NEW k \in 1 .. n, Good(k - 1) PROVE Good(k)
  <2>1. PICK j \in 0 .. (Sources(r) - 1) : j = k - 1 /\ k = j + 1 /\ j \in Nat /\ (Together(r) => j = 0)
    <3>1. k - 1 \in 0 .. (n - 1) /\ k = (k - 1) + 1 /\ k - 1 \in Nat /\ (n = 1 => k - 1 = 0)
      BY <1>1
    <3>. QED BY <1>1, <3>1
  <2>2. PICK c, z : c = y[j] /\ z = place(j)
    OBVIOUS
  <2>3. Ongoing(r, c, <<pass, p, j, 0>>, z)
    BY <1>7, <2>1, <2>2
  <2>4. Together(r) => z = Start(r, p)
    BY <2>1, <2>2
  <2>5. Ongoing(r, Partition(r, pass, p, j, c), <<pass, p, j + 1, 0>>, Start(r, p) + r.part_size)
    BY <2>3, <2>4, PartitionGoes
  <2>6. y[k] = Partition(r, pass, p, j, c)
    BY <1>5, <2>1, <2>2
  <2>7. place(k) = Start(r, p) + r.part_size
    BY <2>1
  <2> HIDE DEF place, start
  <2>. QED BY <2>1, <2>5, <2>6, <2>7
<1>8. 0 \in T /\ \A k \in 1 .. n : k - 1 \in T => k \in T
  <2> HIDE DEF Good
  <2>. QED BY <1>6, <1>7
<1>9. n \in T
  <2> HIDE DEF T
  <2>. QED BY <1>8, UptoInduction
<1>10. Ongoing(r, y[n], <<pass, p, Sources(r), 0>>, place(n))
  BY <1>1, <1>9
<1>11. place(n) = Start(r, p + 1)
  BY <1>1, <1>2, StartIs
<1>12. \A s \in Components(r) : Earlier(s, <<pass, p, Sources(r), 0>>) <=> Earlier(s, <<pass, p + 1, 0, 0>>)
  BY <1>2, BehindPartition
<1> HIDE DEF place
<1>13. Ongoing(r, y[n], <<pass, p + 1, 0, 0>>, Start(r, p + 1))
  BY <1>10, <1>11, <1>12, OngoingMoves
<1>. QED BY <1>5, <1>13

LEMMA ClassWordsKeep ==
  ASSUME NEW r \in Residues, NEW d \in Decoders(r.ch)
  PROVE  LET e == ClassWords(r, d)
         IN  e \in Decoders(r.ch) /\ e.added = d.added /\ e.c = d.c /\ e.p = d.p /\ (d.done => e.done)
<1>1. PICK n \in Nat : n = Sources(r)
  BY ResidueIs
<1>2. PICK y : ClassWordsRun(y, r, d)
  BY ClassWordsIs
<1>3. /\ y \in [0 .. n -> Decoders(r.ch)] /\ y[0] = d /\ ClassWords(r, d) = y[n]
      /\ \A k \in 1 .. n : y[k] = IF y[k - 1].done \/ Undecoded(r, k - 1) THEN y[k - 1] ELSE Symbol(y[k - 1])
  BY <1>1, <1>2 DEF ClassWordsRun
<1> DEFINE Same(e) == e.added = d.added /\ e.c = d.c /\ e.p = d.p /\ (d.done => e.done)
           T == {k \in 0 .. n : Same(y[k])}
<1>4. Same(y[0])
  BY <1>3
<1>5. ASSUME NEW k \in 1 .. n, Same(y[k - 1]) PROVE Same(y[k])
  <2>1. k - 1 \in 0 .. n
    OBVIOUS
  <2>2. PICK c \in Decoders(r.ch) : c = y[k - 1]
    BY <1>3, <2>1
  <2>3. Symbol(c).added = c.added /\ Symbol(c).c = c.c /\ Symbol(c).p = c.p /\ (c.done => Symbol(c).done)
    <3>1. r.ch \in Nat \ {0}
      BY ResidueIs
    <3>. QED BY <3>1, SymbolIs
  <2>4. y[k] = c \/ y[k] = Symbol(c)
    BY <1>3, <2>2
  <2>. QED BY <1>5, <2>2, <2>3, <2>4
<1>6. 0 \in T /\ \A k \in 1 .. n : k - 1 \in T => k \in T
  <2> HIDE DEF Same
  <2>. QED BY <1>4, <1>5
<1>7. n \in T
  <2> HIDE DEF T
  <2>. QED BY <1>6, UptoInduction
<1>8. Same(y[n]) /\ y[n] \in Decoders(r.ch)
  BY <1>3, <1>7
<1>. QED BY <1>3, <1>8

\* Before a partition.  In the first one of a pass the place is not yet known.
Waiting(r, d, pass, p) ==
  /\ d \in Decoders(r.ch)
  /\ d.done => EndedRight(r, d.added)
  /\ ~d.done => RightSoFar(r, d.added, <<pass, p, 0, 0>>)
  /\ ~d.done /\ Together(r) /\ p # 0 => AtPlace(d, r.ch, Start(r, p))

LEMMA ClassedKeeps ==
  ASSUME NEW r \in Residues, NEW pass, NEW p \in Nat, NEW d \in Decoders(r.ch)
  PROVE  LET e == Classed(r, pass, p, d)
         IN  /\ e \in Decoders(r.ch) /\ e.added = d.added /\ (d.done => e.done)
             /\ Together(r) /\ p % r.classwords = 0 => AtPlace(e, r.ch, Start(r, p))
             /\ p % r.classwords # 0 => e = d
<1> DEFINE placed == IF Together(r) THEN From(d, r.ch, Start(r, p)) ELSE d
           e == Classed(r, pass, p, d)
<1>1. /\ placed \in Decoders(r.ch) /\ placed.added = d.added /\ placed.done = d.done
      /\ Together(r) => AtPlace(placed, r.ch, Start(r, p))
  <2>1. Start(r, p) \in Nat /\ r.ch \in Nat \ {0}
    BY StartIs, ResidueIs
  <2>2. PICK z \in Nat : z = Start(r, p)
    BY <2>1
  <2>3. /\ From(d, r.ch, z) \in Decoders(r.ch) /\ From(d, r.ch, z).added = d.added
        /\ From(d, r.ch, z).done = d.done /\ AtPlace(From(d, r.ch, z), r.ch, z)
    BY <2>1, FromIs DEF AtPlace
  <2>. QED BY <2>2, <2>3
<1>2. e = IF p % r.classwords # 0 THEN d ELSE IF pass # 0 THEN placed ELSE ClassWords(r, placed)
  BY Zenon DEF Classed
<1> HIDE DEF placed, e
<1>3. PICK w : w = ClassWords(r, placed)
  OBVIOUS
<1>4. /\ w \in Decoders(r.ch) /\ w.added = placed.added /\ w.c = placed.c /\ w.p = placed.p
      /\ placed.done => w.done
  BY <1>1, <1>3, ClassWordsKeep
<1>5. /\ e \in Decoders(r.ch) /\ e.added = d.added /\ (d.done => e.done)
      /\ Together(r) /\ p % r.classwords = 0 => AtPlace(e, r.ch, Start(r, p))
      /\ p % r.classwords # 0 => e = d
  <2>1. Together(r) => AtPlace(w, r.ch, Start(r, p))
    BY <1>1, <1>4 DEF AtPlace
  <2>. QED BY <1>1, <1>2, <1>3, <1>4, <2>1
<1>. QED BY <1>5 DEF e

LEMMA PartitionsIsDecoder ==
  ASSUME NEW r \in Residues, NEW pass, NEW p, IsPartition(r, pass, p), NEW d \in Decoders(r.ch)
  PROVE  Partitions(r, pass, p, d) \in Decoders(r.ch)
<1> DEFINE classed == Classed(r, pass, p, d)
<1>1. p \in Nat /\ r.ch \in Nat \ {0}
  BY ResidueIs DEF IsPartition
<1>2. classed \in Decoders(r.ch)
  BY <1>1, ClassedKeeps
<1>3. Partitions(r, pass, p, d) =
        IF d.done \/ classed.done THEN [d EXCEPT !.done = TRUE] ELSE Sourced(r, pass, p, classed)
  BY Zenon DEF Partitions
<1> HIDE DEF classed
<1>4. Sourced(r, pass, p, classed) \in Decoders(r.ch)
  BY <1>2, SourcedIsDecoder
<1>5. [d EXCEPT !.done = TRUE] \in Decoders(r.ch)
  BY <1>1, DoneIs
<1>. QED BY <1>3, <1>4, <1>5

LEMMA PartitionsGo ==
  ASSUME NEW r \in Residues, NEW pass, NEW p, IsPartition(r, pass, p), NEW d, Waiting(r, d, pass, p)
  PROVE  Waiting(r, Partitions(r, pass, p, d), pass, p + 1)
<1> DEFINE classed == Classed(r, pass, p, d)
           e == Partitions(r, pass, p, d)
<1>1. pass \in Nat /\ p \in Nat /\ r.ch \in Nat \ {0} /\ r.classwords \in Nat \ {0}
  BY ResidueIs DEF IsPartition
<1>2. /\ d \in Decoders(r.ch)
      /\ d.done => EndedRight(r, d.added)
      /\ ~d.done => RightSoFar(r, d.added, <<pass, p, 0, 0>>)
      /\ ~d.done /\ Together(r) /\ p # 0 => AtPlace(d, r.ch, Start(r, p))
  BY DEF Waiting
<1>3. /\ classed \in Decoders(r.ch) /\ classed.added = d.added /\ (d.done => classed.done)
      /\ Together(r) /\ p % r.classwords = 0 => AtPlace(classed, r.ch, Start(r, p))
      /\ p % r.classwords # 0 => classed = d
  BY <1>1, <1>2, ClassedKeeps
<1>4. e = IF d.done \/ classed.done THEN [d EXCEPT !.done = TRUE] ELSE Sourced(r, pass, p, classed)
  BY Zenon DEF Partitions
<1>5. e \in Decoders(r.ch)
  BY <1>2, PartitionsIsDecoder
<1>6. p % r.classwords # 0 => p # 0
  <2>1. \A a \in Nat \ {0} : 0 % a = 0
    <3>1. SUFFICES ASSUME NEW a \in Nat \ {0} PROVE 0 % a = 0
      OBVIOUS
    <3>2. PICK z \in Nat, o \in 0 .. (a - 1) : z = 0 /\ o = 0
      OBVIOUS
    <3>3. z = a * z + o
      BY <3>2
    <3>4. z % a = o
      BY <3>3, QuotientIs
    <3>. QED BY <3>2, <3>4
  <2>. QED BY <1>1, <2>1
<1> HIDE DEF classed, e
<1>7. CASE d.done \/ classed.done
  <2>1. e.done = TRUE /\ e.added = d.added
    BY <1>1, <1>2, <1>4, <1>7, DoneIs
  <2>2. EndedRight(r, d.added)
    <3>1. <<pass, p, 0, 0>> \in VectorNames
      BY <1>1 DEF VectorNames
    <3>. QED BY <1>2, <3>1 DEF EndedRight
  <2>3. Waiting(r, e, pass, p + 1)
    BY <1>5, <2>1, <2>2 DEF Waiting
  <2>. QED BY <2>3 DEF e
<1>8. CASE ~d.done /\ ~classed.done
  <2>1. Together(r) => AtPlace(classed, r.ch, Start(r, p))
    BY <1>2, <1>3, <1>6, <1>8
  <2>2. Ongoing(r, classed, <<pass, p, 0, 0>>, Start(r, p))
    BY <1>2, <1>3, <1>8, <2>1 DEF Ongoing
  <2>3. Ongoing(r, Sourced(r, pass, p, classed), <<pass, p + 1, 0, 0>>, Start(r, p + 1))
    BY <2>2, SourcedGoes
  <2>4. e = Sourced(r, pass, p, classed)
    BY <1>4, <1>8
  <2>5. Waiting(r, e, pass, p + 1)
    BY <2>3, <2>4 DEF Waiting, Ongoing
  <2>. QED BY <2>5 DEF e
<1>. QED BY <1>7, <1>8

PassRun(y, r, pass, d) ==
  /\ y \in [0 .. Parts(r) -> Decoders(r.ch)] /\ y[0] = d
  /\ \A k \in 1 .. Parts(r) : y[k] = Partitions(r, pass, k - 1, y[k - 1])
  /\ Pass(r, pass, d) = y[Parts(r)]

LEMMA PassIs ==
  ASSUME NEW r \in Residues, NEW pass \in 0 .. (Passes(r) - 1), NEW d \in Decoders(r.ch)
  PROVE  \E y : PassRun(y, r, pass, d)
<1>0. Parts(r) \in Nat /\ d \in Decoders(r.ch)
  BY ResidueIs
<1> DEFINE n == Parts(r)
           V == Decoders(r.ch)
           b == d
           Step(v, i) == Partitions(r, pass, i, v)
           q == Count(0, Parts(r) - 1)
           F == [p \in (1 .. n) \X V |-> Step(p[2], q[p[1]])]
           E(g) == g = [s_ \in SUBSET DOMAIN q |->
                          IF s_ = {} THEN b ELSE Step(g[s_ \ {Max(s_)}], q[Max(s_)])]
<1>1. Pass(r, pass, d) = (CHOOSE g : E(g))[DOMAIN q]
  BY DEF Pass, FoldLeft, MapThenFoldSet
<1>2. /\ n \in Nat /\ b \in V /\ DOMAIN q = 1 .. n /\ \A k \in 1 .. n : q[k] = k - 1
      /\ \A k \in 1 .. n : \A v \in V : Step(v, q[k]) \in V
  <2>1. n \in Nat /\ DOMAIN q = 1 .. n /\ \A k \in 1 .. n : q[k] = k - 1
    <3>1. q = Count(0, Parts(r) - 1)
      OBVIOUS
    <3> HIDE DEF q
    <3>2. DOMAIN Count(0, Parts(r) - 1) = 1 .. Parts(r) /\ \A k \in 1 .. Parts(r) : Count(0, Parts(r) - 1)[k] = k - 1
      BY <1>0 DEF Count
    <3>. QED BY <1>0, <3>1, <3>2
  <2>2. b \in V
    BY <1>0
  <2>3. ASSUME NEW v \in V, NEW i \in 0 .. (n - 1) PROVE Step(v, i) \in V
    <3>1. IsPartition(r, pass, i)
      BY DEF IsPartition
    <3>. QED BY <3>1, PartitionsIsDecoder
  <2> HIDE DEF V, Step, q, b, n
  <2>4. \A k \in 1 .. n : q[k] \in 0 .. (n - 1)
    BY <2>1
  <2>. QED BY <2>1, <2>2, <2>3, <2>4
<1>3. \A k \in 1 .. n : \A v \in V : F[<<k, v>>] = Step(v, q[k])
  OBVIOUS
<1> HIDE DEF V, b, Step, F, q, n
<1>4. PICK h \in [SUBSET (1 .. n) -> V] : Folding(h, F, b, 1 .. n)
  <2>1. n \in Nat /\ b \in V /\ \A k \in 1 .. n : \A v \in V : F[<<k, v>>] \in V
    BY <1>2, <1>3
  <2> HIDE DEF E
  <2>. QED BY <2>1, FoldingsOfType
<1>5. E(h)
  <2>1. ASSUME NEW t \in SUBSET (1 .. n)
        PROVE  h[t] = IF t = {} THEN b ELSE Step(h[t \ {Max(t)}], q[Max(t)])
    <3>1. t # {} => Max(t) \in 1 .. n
      BY <1>2, UptoHasLast DEF HasLast
    <3>. QED BY <1>2, <1>3, <1>4, <3>1 DEF Folding
  <2>. QED BY <1>2, <1>4, <2>1
<1> DEFINE g == CHOOSE g : E(g)
<1>6. E(g)
  <2> HIDE DEF E
  <2>. QED BY <1>5
<1>7. Chain(g, F, b, V, n)
  <2> HIDE DEF g
  <2>1. ASSUME NEW t \in SUBSET (1 .. n), t # {}, g[t \ {Max(t)}] \in V
        PROVE  g[t] = F[<<Max(t), g[t \ {Max(t)}]>>]
    <3>1. Max(t) \in 1 .. n
      BY <1>2, <2>1, UptoHasLast DEF HasLast
    <3>2. g[t] = Step(g[t \ {Max(t)}], q[Max(t)])
      BY <1>2, <1>6, <2>1
    <3>. QED BY <1>2, <1>3, <2>1, <3>1, <3>2
  <2>2. g[{}] = b
    BY <1>6
  <2> HIDE DEF E
  <2>. QED BY <2>1, <2>2 DEF Chain
<1>8. PICK y \in [0 .. n -> V] : Iterates(y, F, b, n) /\ y[n] = g[1 .. n]
  <2>1. n \in Nat /\ b \in V /\ \A k \in 1 .. n : \A v \in V : F[<<k, v>>] \in V
    BY <1>2, <1>3
  <2> HIDE DEF g
  <2>. QED BY <2>1, <1>7, ChainIterates
<1>9. ASSUME NEW k \in 1 .. n PROVE y[k] = Step(y[k - 1], k - 1)
  <2>1. k - 1 \in 0 .. n /\ y[k - 1] \in V
    BY <1>2
  <2>2. y[k] = F[<<k, y[k - 1]>>] /\ q[k] = k - 1
    BY <1>2, <1>8 DEF Iterates
  <2>. QED BY <1>3, <2>1, <2>2
<1>10. Pass(r, pass, d) = y[n]
  BY <1>1, <1>2, <1>8
<1>. QED BY <1>8, <1>9, <1>10 DEF V, b, Step, n, Iterates, PassRun

LEMMA PassIsDecoder ==
  ASSUME NEW r \in Residues, NEW pass \in 0 .. (Passes(r) - 1), NEW d \in Decoders(r.ch)
  PROVE  Pass(r, pass, d) \in Decoders(r.ch)
<1>1. PICK y : PassRun(y, r, pass, d)
  BY PassIs
<1>2. y \in [0 .. Parts(r) -> Decoders(r.ch)] /\ Pass(r, pass, d) = y[Parts(r)]
  BY <1>1 DEF PassRun
<1>3. Parts(r) \in Nat
  BY ResidueIs
<1>. QED BY <1>2, <1>3

LEMMA PassGoes ==
  ASSUME NEW r \in Residues, NEW pass \in 0 .. (Passes(r) - 1), NEW d, Waiting(r, d, pass, 0)
  PROVE  Waiting(r, Pass(r, pass, d), pass + 1, 0)
<1>1. PICK n \in Nat : n = Parts(r)
  BY ResidueIs
<1>2. pass \in Nat
  OBVIOUS
<1>3. d \in Decoders(r.ch)
  BY DEF Waiting
<1>4. PICK y : PassRun(y, r, pass, d)
  BY <1>3, PassIs
<1>5. /\ y[0] = d /\ Pass(r, pass, d) = y[n]
      /\ \A k \in 1 .. n : y[k] = Partitions(r, pass, k - 1, y[k - 1])
  BY <1>1, <1>4 DEF PassRun
<1> DEFINE T == {k \in 0 .. n : Waiting(r, y[k], pass, k)}
<1>6. ASSUME NEW k \in 1 .. n, Waiting(r, y[k - 1], pass, k - 1) PROVE Waiting(r, y[k], pass, k)
  <2>1. PICK p \in 0 .. (n - 1) : p = k - 1 /\ k = p + 1
    <3>1. k - 1 \in 0 .. (n - 1) /\ k = (k - 1) + 1
      OBVIOUS
    <3>. QED BY <3>1
  <2>2. PICK c : c = y[p]
    OBVIOUS
  <2>3. IsPartition(r, pass, p)
    BY <1>1 DEF IsPartition
  <2>4. Waiting(r, c, pass, p)
    BY <1>6, <2>1, <2>2
  <2>5. Waiting(r, Partitions(r, pass, p, c), pass, p + 1)
    BY <2>3, <2>4, PartitionsGo
  <2>6. y[k] = Partitions(r, pass, p, c)
    BY <1>5, <2>1, <2>2
  <2>. QED BY <2>1, <2>5, <2>6
<1>7. 0 \in T /\ \A k \in 1 .. n : k - 1 \in T => k \in T
  BY <1>5, <1>6
<1>8. n \in T
  <2> HIDE DEF T
  <2>. QED BY <1>7, UptoInduction
<1>9. PICK e : e = y[n]
  OBVIOUS
<1>10. Waiting(r, e, pass, n)
  BY <1>8, <1>9
<1>11. ~e.done => RightSoFar(r, e.added, <<pass + 1, 0, 0, 0>>)
  <2>1. \A s \in Components(r) : Earlier(s, <<pass, n, 0, 0>>) <=> Earlier(s, <<pass + 1, 0, 0, 0>>)
    BY <1>1, <1>2, BehindPass
  <2>. QED BY <1>10, <2>1, MovesOn DEF Waiting
<1>12. Waiting(r, e, pass + 1, 0)
  BY <1>10, <1>11 DEF Waiting
<1>. QED BY <1>5, <1>9, <1>12

\* The decoder at the beginning.
Fresh(r) == [added |-> <<>>, left |-> r.left, done |-> FALSE, c |-> 0, p |-> 0]

FillingRun(y, r, d) ==
  /\ y \in [0 .. Passes(r) -> Decoders(r.ch)] /\ y[0] = d
  /\ \A k \in 1 .. Passes(r) : y[k] = Pass(r, k - 1, y[k - 1])
  /\ Filling(r) = y[Passes(r)]

LEMMA FillingIs ==
  ASSUME NEW r \in Residues, NEW d \in Decoders(r.ch), d = Fresh(r)
  PROVE  \E y : FillingRun(y, r, d)
<1>0. Passes(r) \in Nat /\ d \in Decoders(r.ch)
  BY ResidueIs
<1> DEFINE n == Passes(r)
           V == Decoders(r.ch)
           b == d
           Step(v, i) == Pass(r, i, v)
           q == Count(0, Passes(r) - 1)
           F == [p \in (1 .. n) \X V |-> Step(p[2], q[p[1]])]
           E(g) == g = [s_ \in SUBSET DOMAIN q |->
                          IF s_ = {} THEN b ELSE Step(g[s_ \ {Max(s_)}], q[Max(s_)])]
<1>1. Filling(r) = (CHOOSE g : E(g))[DOMAIN q]
  BY DEF Filling, Fresh, FoldLeft, MapThenFoldSet
<1>2. /\ n \in Nat /\ b \in V /\ DOMAIN q = 1 .. n /\ \A k \in 1 .. n : q[k] = k - 1
      /\ \A k \in 1 .. n : \A v \in V : Step(v, q[k]) \in V
  <2>1. n \in Nat /\ DOMAIN q = 1 .. n /\ \A k \in 1 .. n : q[k] = k - 1
    <3>1. q = Count(0, Passes(r) - 1)
      OBVIOUS
    <3> HIDE DEF q
    <3>2. DOMAIN Count(0, Passes(r) - 1) = 1 .. Passes(r) /\ \A k \in 1 .. Passes(r) : Count(0, Passes(r) - 1)[k] = k - 1
      BY <1>0 DEF Count
    <3>. QED BY <1>0, <3>1, <3>2
  <2>2. b \in V
    BY <1>0
  <2>3. ASSUME NEW v \in V, NEW i \in 0 .. (n - 1) PROVE Step(v, i) \in V
    <3>1. i \in 0 .. (Passes(r) - 1)
      OBVIOUS
    <3>. QED BY <3>1, PassIsDecoder
  <2> HIDE DEF V, Step, q, b, n
  <2>4. \A k \in 1 .. n : q[k] \in 0 .. (n - 1)
    BY <2>1
  <2>. QED BY <2>1, <2>2, <2>3, <2>4
<1>3. \A k \in 1 .. n : \A v \in V : F[<<k, v>>] = Step(v, q[k])
  OBVIOUS
<1> HIDE DEF V, b, Step, F, q, n
<1>4. PICK h \in [SUBSET (1 .. n) -> V] : Folding(h, F, b, 1 .. n)
  <2>1. n \in Nat /\ b \in V /\ \A k \in 1 .. n : \A v \in V : F[<<k, v>>] \in V
    BY <1>2, <1>3
  <2> HIDE DEF E
  <2>. QED BY <2>1, FoldingsOfType
<1>5. E(h)
  <2>1. ASSUME NEW t \in SUBSET (1 .. n)
        PROVE  h[t] = IF t = {} THEN b ELSE Step(h[t \ {Max(t)}], q[Max(t)])
    <3>1. t # {} => Max(t) \in 1 .. n
      BY <1>2, UptoHasLast DEF HasLast
    <3>. QED BY <1>2, <1>3, <1>4, <3>1 DEF Folding
  <2>. QED BY <1>2, <1>4, <2>1
<1> DEFINE g == CHOOSE g : E(g)
<1>6. E(g)
  <2> HIDE DEF E
  <2>. QED BY <1>5
<1>7. Chain(g, F, b, V, n)
  <2> HIDE DEF g
  <2>1. ASSUME NEW t \in SUBSET (1 .. n), t # {}, g[t \ {Max(t)}] \in V
        PROVE  g[t] = F[<<Max(t), g[t \ {Max(t)}]>>]
    <3>1. Max(t) \in 1 .. n
      BY <1>2, <2>1, UptoHasLast DEF HasLast
    <3>2. g[t] = Step(g[t \ {Max(t)}], q[Max(t)])
      BY <1>2, <1>6, <2>1
    <3>. QED BY <1>2, <1>3, <2>1, <3>1, <3>2
  <2>2. g[{}] = b
    BY <1>6
  <2> HIDE DEF E
  <2>. QED BY <2>1, <2>2 DEF Chain
<1>8. PICK y \in [0 .. n -> V] : Iterates(y, F, b, n) /\ y[n] = g[1 .. n]
  <2>1. n \in Nat /\ b \in V /\ \A k \in 1 .. n : \A v \in V : F[<<k, v>>] \in V
    BY <1>2, <1>3
  <2> HIDE DEF g
  <2>. QED BY <2>1, <1>7, ChainIterates
<1>9. ASSUME NEW k \in 1 .. n PROVE y[k] = Step(y[k - 1], k - 1)
  <2>1. k - 1 \in 0 .. n /\ y[k - 1] \in V
    BY <1>2
  <2>2. y[k] = F[<<k, y[k - 1]>>] /\ q[k] = k - 1
    BY <1>2, <1>8 DEF Iterates
  <2>. QED BY <1>3, <2>1, <2>2
<1>10. Filling(r) = y[n]
  BY <1>1, <1>2, <1>8
<1>. QED BY <1>8, <1>9, <1>10 DEF V, b, Step, n, Iterates, FillingRun

LEMMA FillingGoes ==
  ASSUME NEW r \in Residues
  PROVE  Waiting(r, Filling(r), Passes(r), 0)
<1>1. PICK n \in Nat : n = Passes(r)
  BY ResidueIs
<1>2. PICK d : d = Fresh(r)
  OBVIOUS
<1>3. d \in Decoders(r.ch) /\ d.added = <<>> /\ d.done = FALSE
  <2>1. r.left \in Nat /\ 0 \in 0 .. (r.ch - 1)
    BY ResidueIs
  <2>2. <<>> \in Seq(Additions)
    OBVIOUS
  <2>. QED BY <1>2, <2>1, <2>2 DEF Fresh, Decoders
<1>4. Waiting(r, d, 0, 0)
  <2>1. Len(d.added) = 0
    BY <1>3
  <2>2. \A s \in Components(r) : ~Earlier(s, <<0, 0, 0, 0>>)
    <3>1. SUFFICES ASSUME NEW s \in Components(r) PROVE ~Earlier(s, <<0, 0, 0, 0>>)
      OBVIOUS
    <3>2. Earlier(s, <<0, 0, 0, 0>>) <=> Sooner(s[1], s[2], s[3], s[4], 0, 0, 0, 0)
      BY EarlierIs
    <3>3. s[1] \in Nat /\ s[2] \in Nat /\ s[3] \in Nat /\ s[4] \in Nat
      BY ComponentFields
    <3>4. \A b1, b2, b3, b4 \in Nat : ~Sooner(b1, b2, b3, b4, 0, 0, 0, 0)
      BY DEF Sooner
    <3>. QED BY <3>2, <3>3, <3>4
  <2>3. RightSoFar(r, d.added, <<0, 0, 0, 0>>)
    BY <2>1, <2>2 DEF RightSoFar
  <2>. QED BY <1>3, <2>3 DEF Waiting
<1>5. PICK y : FillingRun(y, r, d)
  BY <1>2, <1>3, FillingIs
<1>6. /\ y[0] = d /\ Filling(r) = y[n]
      /\ \A k \in 1 .. n : y[k] = Pass(r, k - 1, y[k - 1])
  BY <1>1, <1>5 DEF FillingRun
<1> DEFINE T == {k \in 0 .. n : Waiting(r, y[k], k, 0)}
<1>7. ASSUME NEW k \in 1 .. n, Waiting(r, y[k - 1], k - 1, 0) PROVE Waiting(r, y[k], k, 0)
  <2>1. PICK pass \in 0 .. (Passes(r) - 1) : pass = k - 1 /\ k = pass + 1
    <3>1. k - 1 \in 0 .. (n - 1) /\ k = (k - 1) + 1
      OBVIOUS
    <3>. QED BY <1>1, <3>1
  <2>2. PICK c : c = y[pass]
    OBVIOUS
  <2>3. Waiting(r, c, pass, 0)
    BY <1>7, <2>1, <2>2
  <2>4. Waiting(r, Pass(r, pass, c), pass + 1, 0)
    BY <2>3, PassGoes
  <2>5. y[k] = Pass(r, pass, c)
    BY <1>6, <2>1, <2>2
  <2>. QED BY <2>1, <2>4, <2>5
<1>8. 0 \in T /\ \A k \in 1 .. n : k - 1 \in T => k \in T
  BY <1>4, <1>6, <1>7
<1>9. n \in T
  <2> HIDE DEF T
  <2>. QED BY <1>8, UptoInduction
<1>. QED BY <1>1, <1>6, <1>9

-----------------------------------------------------------------------------
(***************************************************************************)
(* The residue: one component to a place.                                  *)
(***************************************************************************)
\* Two digits of a number, and their bound.
LEMMA DigitsFit ==
  ASSUME NEW a \in Nat \ {0}, NEW b \in Nat, NEW i \in 0 .. (b - 1), NEW m \in 0 .. (a - 1)
  PROVE  /\ a * i + m \in 0 .. (a * b - 1)
         /\ (a * i + m) \div a = i /\ (a * i + m) % a = m
<1>1. PICK w \in Nat : b = (i + 1) + w
  <2>1. b - (i + 1) \in Nat /\ b = (i + 1) + (b - (i + 1))
    OBVIOUS
  <2>. QED BY <2>1
<1>2. a * b = (a * i + a) + a * w /\ a * i \in Nat /\ a * w \in Nat
  <2>1. \A k \in Nat, x \in Nat, y \in Nat : k * ((x + 1) + y) = (k * x + k) + k * y /\ k * x \in Nat
    OBVIOUS
  <2>. QED BY <1>1, <2>1
<1>3. PICK z : z = a * i + m
  OBVIOUS
<1>4. z \in Nat /\ z \in 0 .. (a * b - 1)
  BY <1>2, <1>3
<1>5. i \in Nat
  OBVIOUS
<1>6. z \div a = i /\ z % a = m
  BY <1>3, <1>4, <1>5, QuotientIs
<1>. QED BY <1>3, <1>4, <1>6

\* Where a component is in its partition.
InPartition(r, t) ==
  LET dim == Dim(r, t[1], t[2], t[3])
  IN  IF r.rtype = 0 THEN t[5] * (r.part_size \div dim) + t[4] ELSE t[4] * dim + t[5]

LEMMA InPartitionFits ==
  ASSUME NEW r \in Residues, NEW s \in Components(r)
  PROVE  LET dim == Dim(r, s[1], s[2], s[3])
             q == r.part_size \div dim
         IN  /\ InPartition(r, s) \in 0 .. (r.part_size - 1)
             /\ r.rtype = 0 => InPartition(r, s) \div q = s[5] /\ InPartition(r, s) % q = s[4]
             /\ r.rtype # 0 => InPartition(r, s) \div dim = s[4] /\ InPartition(r, s) % dim = s[5]
<1>1. PICK dim : dim = Dim(r, s[1], s[2], s[3])
  OBVIOUS
<1>2. PICK q : q = r.part_size \div dim
  OBVIOUS
<1>3. dim \in Nat \ {0} /\ q \in Nat \ {0} /\ r.part_size = dim * q
  BY <1>1, <1>2, ComponentFields, VectorsFill
<1>4. PICK i, v : i = s[5] /\ v = s[4]
  OBVIOUS
<1>5. i \in 0 .. (dim - 1) /\ v \in 0 .. (q - 1)
  <2>1. i \in Nat /\ v \in Nat /\ i < dim /\ v < q
    BY <1>1, <1>2, <1>4, ComponentFields
  <2>. QED BY <1>3, <2>1
<1>6. i * q = q * i /\ v * dim = dim * v /\ q * dim = dim * q
  <2>1. \A x \in Int, y \in Int : x * y = y * x
    OBVIOUS
  <2>2. i \in Int /\ v \in Int /\ q \in Int /\ dim \in Int
    BY <1>3, <1>5
  <2>. QED BY <2>1, <2>2
<1>7. PICK z : z = InPartition(r, s)
  OBVIOUS
<1>8. CASE r.rtype = 0
  <2>1. z = q * i + v
    BY <1>1, <1>2, <1>4, <1>6, <1>7, <1>8 DEF InPartition
  <2>2. z \in 0 .. (q * dim - 1) /\ z \div q = i /\ z % q = v
    BY <1>3, <1>5, <2>1, DigitsFit
  <2>. QED BY <1>1, <1>2, <1>3, <1>4, <1>6, <1>7, <1>8, <2>2
<1>9. CASE r.rtype # 0
  <2>1. z = dim * v + i
    BY <1>1, <1>2, <1>4, <1>6, <1>7, <1>9 DEF InPartition
  <2>2. z \in 0 .. (dim * q - 1) /\ z \div dim = v /\ z % dim = i
    BY <1>3, <1>5, <2>1, DigitsFit
  <2>. QED BY <1>1, <1>2, <1>3, <1>4, <1>6, <1>7, <1>9, <2>2
<1>. QED BY <1>8, <1>9

LEMMA PlaceIs ==
  ASSUME NEW r \in Residues, NEW s \in Components(r)
  PROVE  LET z == Start(r, s[2]) + InPartition(r, s)
         IN  /\ ComponentAt(r, s) = IF Together(r) THEN <<z % r.ch, z \div r.ch>> ELSE <<s[3], z>>
             /\ z \in Nat
             /\ (z - r.begin) \div r.part_size = s[2] /\ (z - r.begin) % r.part_size = InPartition(r, s)
<1>1. PICK p \in Nat : p = s[2]
  BY ComponentFields
<1>2. PICK w : w = InPartition(r, s)
  OBVIOUS
<1>3. PICK size, begin : size = r.part_size /\ begin = r.begin
  OBVIOUS
<1>4. size \in Nat \ {0} /\ begin \in Nat
  BY <1>3, ResidueIs
<1>5. w \in 0 .. (size - 1)
  BY <1>2, <1>3, InPartitionFits
<1>6. Start(r, p) = begin + size * p
  <2>1. Start(r, p) = begin + p * size
    BY <1>3, StartIs
  <2>2. p * size = size * p
    BY <1>4
  <2>. QED BY <2>1, <2>2
<1>7. size * p \in Nat
  BY <1>4
<1>8. PICK z, y : z = Start(r, p) + w /\ y = size * p + w
  OBVIOUS
<1>9. y \in Nat /\ z \in Nat /\ z - begin = y
  BY <1>4, <1>5, <1>6, <1>7, <1>8
<1>10. y \div size = p /\ y % size = w
  <2>1. p \in Nat /\ size \in Nat \ {0} /\ w \in 0 .. (size - 1) /\ y \in Nat /\ y = size * p + w
    BY <1>1, <1>4, <1>5, <1>8, <1>9
  <2>. QED BY <2>1, QuotientIs, ZenonT(30)
<1>11. ComponentAt(r, s) = IF Together(r) THEN <<z % r.ch, z \div r.ch>> ELSE <<s[3], z>>
  BY <1>1, <1>2, <1>8, Zenon DEF ComponentAt, InPartition
<1>. QED BY <1>1, <1>2, <1>3, <1>8, <1>9, <1>10, <1>11

\* A place and a pass name the component.
LEMMA OneToAPlace ==
  ASSUME NEW r \in Residues, NEW s \in Components(r), NEW t \in Components(r), s[1] = t[1],
         ComponentAt(r, s) = ComponentAt(r, t)
  PROVE  s = t
<1>1. PICK x, y : x = Start(r, s[2]) + InPartition(r, s) /\ y = Start(r, t[2]) + InPartition(r, t)
  OBVIOUS
<1>2. /\ ComponentAt(r, s) = IF Together(r) THEN <<x % r.ch, x \div r.ch>> ELSE <<s[3], x>>
      /\ x \in Nat
      /\ (x - r.begin) \div r.part_size = s[2] /\ (x - r.begin) % r.part_size = InPartition(r, s)
  BY <1>1, PlaceIs
<1>3. /\ ComponentAt(r, t) = IF Together(r) THEN <<y % r.ch, y \div r.ch>> ELSE <<t[3], y>>
      /\ y \in Nat
      /\ (y - r.begin) \div r.part_size = t[2] /\ (y - r.begin) % r.part_size = InPartition(r, t)
  BY <1>1, PlaceIs
<1>4. x = y /\ s[3] = t[3]
  <2>1. CASE Together(r)
    <3>1. <<x % r.ch, x \div r.ch>> = <<y % r.ch, y \div r.ch>>
      BY <1>2, <1>3, <2>1
    <3>2. x % r.ch = y % r.ch /\ x \div r.ch = y \div r.ch
      BY <3>1
    <3>3. PICK ch \in Nat \ {0} : ch = r.ch
      BY ResidueIs
    <3>4. x = ch * (x \div ch) + (x % ch) /\ y = ch * (y \div ch) + (y % ch)
      BY <1>2, <1>3, RemainderIs
    <3>5. x = y
      BY <3>2, <3>3, <3>4
    <3>6. Sources(r) = 1
      BY <2>1 DEF Sources
    <3>7. s[3] \in Nat /\ t[3] \in Nat /\ s[3] < Sources(r) /\ t[3] < Sources(r)
      BY ComponentFields
    <3>. QED BY <3>5, <3>6, <3>7
  <2>2. CASE ~Together(r)
    <3>1. <<s[3], x>> = <<t[3], y>>
      BY <1>2, <1>3, <2>2
    <3>. QED BY <3>1
  <2>. QED BY <2>1, <2>2
<1>5. s[2] = t[2] /\ InPartition(r, s) = InPartition(r, t)
  BY <1>2, <1>3, <1>4
<1>6. Dim(r, s[1], s[2], s[3]) = Dim(r, t[1], t[2], t[3])
  BY <1>4, <1>5
<1>7. PICK dim, q, a, b : /\ dim = Dim(r, s[1], s[2], s[3]) /\ q = r.part_size \div dim
                          /\ a = InPartition(r, s) /\ b = InPartition(r, t)
  OBVIOUS
<1>8. /\ r.rtype = 0 => a \div q = s[5] /\ a % q = s[4]
      /\ r.rtype # 0 => a \div dim = s[4] /\ a % dim = s[5]
  BY <1>7, InPartitionFits
<1>9. /\ r.rtype = 0 => b \div q = t[5] /\ b % q = t[4]
      /\ r.rtype # 0 => b \div dim = t[4] /\ b % dim = t[5]
  BY <1>6, <1>7, InPartitionFits
<1>10. s[4] = t[4] /\ s[5] = t[5]
  BY <1>5, <1>7, <1>8, <1>9
<1>11. s = <<s[1], s[2], s[3], s[4], s[5]>> /\ t = <<t[1], t[2], t[3], t[4], t[5]>>
  BY ComponentFields
<1>. QED BY <1>4, <1>5, <1>10, <1>11

\* As many as there are numbers for them.
LEMMA AsManyAsNumbers ==
  ASSUME NEW n \in Nat, NEW x, \A k, l \in 1 .. n : x[k][2] = x[l][2] => k = l
  PROVE  Cardinality({x[k][2] : k \in 1 .. n}) = n
<1> DEFINE S == {x[k][2] : k \in 1 .. n}
           F == [k \in 1 .. n |-> x[k][2]]
<1>1. F \in [1 .. n -> S]
  OBVIOUS
<1>2. F \in Bijection(1 .. n, S)
  BY <1>1 DEF Bijection, Injection, Surjection, IsInjective
<1>3. ExistsBijection(1 .. n, S)
  BY <1>2 DEF ExistsBijection
<1>. QED BY <1>3, FS_CountingElements

LEMMA EarlierGoesOn ==
  ASSUME NEW r \in Residues, NEW s \in Components(r), NEW t \in Components(r), NEW w \in VectorNames,
         Earlier(s, t), Earlier(t, w)
  PROVE  Earlier(s, w)
<1>1. /\ s[1] \in Nat /\ s[2] \in Nat /\ s[3] \in Nat /\ s[4] \in Nat
      /\ t[1] \in Nat /\ t[2] \in Nat /\ t[3] \in Nat /\ t[4] \in Nat
  BY ComponentFields
<1>2. w[1] \in Nat /\ w[2] \in Nat /\ w[3] \in Nat /\ w[4] \in Nat
  BY DEF VectorNames
<1>3. /\ Sooner(s[1], s[2], s[3], s[4], t[1], t[2], t[3], t[4])
      /\ Sooner(t[1], t[2], t[3], t[4], w[1], w[2], w[3], w[4])
  BY EarlierIs
<1>4. Sooner(s[1], s[2], s[3], s[4], w[1], w[2], w[3], w[4])
  BY <1>1, <1>2, <1>3 DEF Sooner
<1>. QED BY <1>4, EarlierIs

\* The least of some numbers up to n.
LEMMA LeastIs ==
  ASSUME NEW n \in Nat, NEW S, S \subseteq 1 .. n, S # {}
  PROVE  Min(S) \in S /\ \A k \in S : Min(S) <= k
<1> DEFINE T == {k \in 0 .. n : \A i \in 1 .. k : i \notin S}
<1>1. n \notin T
  OBVIOUS
<1>2. 0 \in T
  OBVIOUS
<1>3. ~(\A k \in 1 .. n : k - 1 \in T => k \in T)
  <2> HIDE DEF T
  <2>. QED BY <1>1, <1>2, UptoInduction
<1>4. PICK k \in 1 .. n : k - 1 \in T /\ k \notin T
  BY <1>3
<1>5. k \in S /\ \A i \in S : k <= i
  BY <1>4
<1>6. \E x \in S : \A y \in S : x <= y
  BY <1>5
<1>. QED BY <1>6, Zenon DEF Min

\* Every component goes to its place, none twice, and in their order.
LEMMA DecodedIsPlaced ==
  ASSUME NEW r \in Residues
  PROVE  Placed(r, Decoded(r))
<1>1. PICK d : d = Filling(r)
  OBVIOUS
<1>2. PICK last : last = <<Passes(r), 0, 0, 0>>
  OBVIOUS
<1>3. /\ d \in Decoders(r.ch)
      /\ d.done => EndedRight(r, d.added)
      /\ ~d.done => RightSoFar(r, d.added, last)
  BY <1>1, <1>2, FillingGoes DEF Waiting
<1>4. last \in VectorNames
  BY <1>2, ResidueIs DEF VectorNames
<1>5. PICK w \in VectorNames : RightSoFar(r, d.added, w) /\ (d.done = FALSE => w = last)
  <2>1. d.done \in BOOLEAN
    BY <1>3 DEF Decoders
  <2>. QED BY <1>3, <1>4, <2>1 DEF EndedRight
<1>6. PICK x \in Seq(Additions), n \in Nat : x = d.added /\ n = Len(x) /\ DOMAIN x = 1 .. n
  <2>1. d.added \in Seq(Additions)
    BY <1>3 DEF Decoders
  <2>. QED BY <2>1
<1>7. /\ \A k \in 1 .. n : x[k][2] \in Components(r) /\ Earlier(x[k][2], w) /\ x[k][1] = ComponentAt(r, x[k][2])
      /\ \A k, l \in 1 .. n : x[k][2] = x[l][2] => k = l
      /\ \A k, l \in 1 .. n : Earlier(x[k][2], x[l][2]) => k < l
      /\ \A s \in Components(r) : Earlier(s, w) => \E k \in 1 .. n : x[k][2] = s
  BY <1>5, <1>6 DEF RightSoFar
<1> DEFINE strays == {k \in 1 .. n : x[k][1][1] \in r.skip}
<1>8. Decoded(r) = IF strays = {} THEN [added |-> x, done |-> d.done, fault |-> "none"]
                   ELSE [added |-> SubSeq(x, 1, Min(strays) - 1), done |-> d.done, fault |-> "access"]
  BY <1>1, <1>6, Zenon DEF Decoded
<1>9. PICK e : e = Decoded(r)
  OBVIOUS
<1> DEFINE CutAt(m_) ==
             /\ e.added \in Seq(Additions) /\ Len(e.added) = m_ /\ e.done = d.done
             /\ \A k \in 1 .. m_ : e.added[k] = x[k] /\ x[k][1][1] \notin r.skip
             /\ e.fault = "none" => m_ = n
             /\ e.fault # "none" => m_ + 1 \in 1 .. n /\ x[m_ + 1][1][1] \in r.skip
<1>19. PICK m \in 0 .. n : CutAt(m)
  <2>1. CASE strays = {}
    <3>1. e.added = x /\ e.done = d.done /\ e.fault = "none"
      BY <1>8, <1>9, <2>1
    <3>2. n \in 0 .. n /\ \A k \in 1 .. n : x[k][1][1] \notin r.skip
      BY <2>1
    <3>3. CutAt(n)
      BY <1>6, <3>1, <3>2
    <3>. QED BY <3>2, <3>3
  <2>2. CASE strays # {}
    <3>1. Min(strays) \in strays /\ \A k \in strays : Min(strays) <= k
      <4> HIDE DEF strays
      <4>1. strays \subseteq 1 .. n
        BY DEF strays
      <4>. QED BY <2>2, <4>1, LeastIs
    <3>2. PICK first \in 1 .. n : first = Min(strays) /\ x[first][1][1] \in r.skip
                                  /\ \A k \in 1 .. n : x[k][1][1] \in r.skip => first <= k
      BY <3>1
    <3> HIDE DEF strays
    <3>3. PICK m \in 0 .. n : m = first - 1 /\ m + 1 = first
      <4>1. first - 1 \in 0 .. n /\ (first - 1) + 1 = first
        OBVIOUS
      <4>. QED BY <4>1
    <3>5. e.added = SubSeq(x, 1, m) /\ e.done = d.done /\ e.fault = "access"
      BY <1>8, <1>9, <2>2, <3>2, <3>3
    <3>6. SubSeq(x, 1, m) \in Seq(Additions) /\ Len(SubSeq(x, 1, m)) = m /\ \A k \in 1 .. m : SubSeq(x, 1, m)[k] = x[k]
      BY <1>6
    <3>7. \A k \in 1 .. m : x[k][1][1] \notin r.skip
      <4>1. SUFFICES ASSUME NEW k \in 1 .. m, x[k][1][1] \in r.skip PROVE FALSE
        OBVIOUS
      <4>2. k \in 1 .. n /\ ~(first <= k)
        BY <3>3
      <4>. QED BY <3>2, <4>1, <4>2
    <3>8. m + 1 \in 1 .. n /\ x[m + 1][1][1] \in r.skip
      BY <3>2, <3>3
    <3>9. CutAt(m)
      BY <3>5, <3>6, <3>7, <3>8
    <3>. QED BY <3>9
  <2>. QED BY <2>1, <2>2
<1> HIDE DEF strays
<1> DEFINE there == {e.added[k][2] : k \in DOMAIN e.added}
<1>10. DOMAIN e.added = 1 .. m /\ 1 .. m \subseteq 1 .. n
  BY <1>19
<1>11. \A k \in DOMAIN e.added : /\ e.added[k][2] \in Components(r)
                                 /\ e.added[k][1] = ComponentAt(r, e.added[k][2])
                                 /\ e.added[k][1][1] \notin r.skip
  BY <1>7, <1>19, <1>10
<1>12. there = {x[k][2] : k \in 1 .. m} /\ Cardinality(there) = Len(e.added)
  <2>1. there = {x[k][2] : k \in 1 .. m}
    BY <1>19, <1>10
  <2> HIDE DEF there
  <2>2. m \in Nat /\ \A k, l \in 1 .. m : x[k][2] = x[l][2] => k = l
    BY <1>7, <1>10, <1>19
  <2>3. Cardinality({x[k][2] : k \in 1 .. m}) = m
    BY <2>2, AsManyAsNumbers
  <2>. QED BY <1>19, <2>1, <2>3
<1> HIDE DEF there
<1>13. \A s \in there : s \in Components(r) /\ \E k \in 1 .. m : s = x[k][2]
  BY <1>7, <1>10, <1>12
<1>14. \A s, t \in there : s # t /\ s[1] = t[1] => ComponentAt(r, s) # ComponentAt(r, t)
  <2>1. SUFFICES ASSUME NEW s \in there, NEW t \in there, s # t, s[1] = t[1], ComponentAt(r, s) = ComponentAt(r, t)
                 PROVE  FALSE
    OBVIOUS
  <2>2. s \in Components(r) /\ t \in Components(r)
    BY <1>13
  <2>. QED BY <2>1, <2>2, OneToAPlace
<1>15. ASSUME NEW s \in Components(r), NEW t \in there, Earlier(s, t) PROVE s \in there
  <2>1. PICK l \in 1 .. m : t = x[l][2]
    BY <1>13
  <2>2. l \in 1 .. n /\ t \in Components(r) /\ Earlier(t, w)
    BY <1>7, <1>10, <2>1
  <2>3. Earlier(s, w)
    BY <1>15, <2>2, EarlierGoesOn
  <2>4. PICK k \in 1 .. n : x[k][2] = s
    BY <1>7, <2>3
  <2>5. k < l
    BY <1>7, <1>15, <2>1, <2>2, <2>4
  <2>6. k \in 1 .. m
    BY <1>19, <2>5
  <2>. QED BY <1>12, <2>4, <2>6
<1>16. ASSUME e.fault = "none", ~e.done PROVE there = Components(r)
  <2>1. \A s \in Components(r) : Earlier(s, last)
    <3>1. SUFFICES ASSUME NEW s \in Components(r) PROVE Earlier(s, last)
      OBVIOUS
    <3>2. s[1] < Passes(r)
      BY ComponentFields
    <3>3. last[1] = Passes(r)
      BY <1>2
    <3>4. Sooner(s[1], s[2], s[3], s[4], last[1], last[2], last[3], last[4])
      BY <3>2, <3>3 DEF Sooner
    <3>. QED BY <3>4, EarlierIs
  <2>2. w = last
    <3>1. d.done \in BOOLEAN
      BY <1>3 DEF Decoders
    <3>. QED BY <1>5, <1>19, <1>16, <3>1
  <2>3. m = n
    BY <1>19, <1>16
  <2>4. \A s \in Components(r) : s \in there
    BY <1>7, <1>12, <2>1, <2>2, <2>3
  <2>. QED BY <1>13, <2>4
<1>17. ASSUME e.fault # "none"
       PROVE  \E s \in Components(r) : s \notin there /\ ComponentAt(r, s)[1] \in r.skip
  <2>1. PICK k \in 1 .. n : k = m + 1 /\ x[k][1][1] \in r.skip
    BY <1>19, <1>17
  <2>2. x[k][2] \in Components(r) /\ ComponentAt(r, x[k][2])[1] \in r.skip
    BY <1>7, <2>1
  <2>3. x[k][2] \notin there
    <3>1. SUFFICES ASSUME x[k][2] \in there PROVE FALSE
      OBVIOUS
    <3>2. PICK l \in 1 .. m : x[k][2] = x[l][2]
      BY <1>13, <3>1
    <3>3. k = l
      BY <1>7, <1>10, <3>2
    <3>. QED BY <1>19, <2>1, <3>3
  <2>. QED BY <2>2, <2>3
<1>18. Placed(r, e)
  BY <1>11, <1>12, <1>14, <1>15, <1>16, <1>17, Zenon DEF Placed, there
<1>. QED BY <1>9, <1>18

-----------------------------------------------------------------------------
ResidueRight == Of("decode_residue") => Placed(result.args, result.value)

LEMMA ResidueIsRight == ResidueIsDecoded <=> ResidueRight /\ CouplingIsUndone
  BY DEF ResidueIsDecoded, ResidueIsPlaced, ResidueRight

LEMMA DecodesTheResidue ==
  ASSUME decode_residue
  PROVE  ResidueRight'
<1>1. PICK r \in Residues : Returns("decode_residue", r, Decoded(r))
  BY DEF decode_residue
<1>2. result'.args = r /\ result'.value = Decoded(r)
  BY <1>1, ReturnIs
<1>3. Placed(r, Decoded(r))
  BY DecodedIsPlaced
<1>. QED BY <1>2, <1>3 DEF ResidueRight

LEMMA ResidueNext ==
  ASSUME ResidueRight, [SpectrumNext]_<<signal, result>>
  PROVE  ResidueRight'
<1>1. CASE SpectrumNext
  <2>1. CASE decode_residue
    BY <2>1, DecodesTheResidue
  <2>2. CASE uncouple \/ do_floor
    <3>1. ~Of("decode_residue")'
      BY <2>2 DEF uncouple, do_floor, Returns, Of
    <3>. QED BY <3>1 DEF ResidueRight
  <2>. QED BY <1>1, <2>1, <2>2 DEF SpectrumNext
<1>2. CASE UNCHANGED <<signal, result>>
  BY <1>2 DEF ResidueRight, Of
<1>. QED BY <1>1, <1>2

\* However a residue is coded, of one channel after the other or of all together, in as
\* many passes, partitions and books of as many dimensions: every component that is
\* added goes where the format puts it, none twice, no two of a pass to one place and
\* none to a channel that is not decoded.  A packet that is long enough gives all of
\* them and one that ends early those of the vectors before some vector, except that
\* decoding stops, with an access through a null pointer, at the first component that
\* falls to a channel that is not decoded; of type 0, all of them are those that are
\* not taken to be behind the end of their partition.  And the coupling of the channels
\* is undone.
THEOREM ResiduesAreDecoded == SpectrumSpec => []ResidueIsDecoded
<1>1. SpectrumInit => ResidueRight
  BY DEF SpectrumInit, ResidueRight, Of
<1>2. ResidueRight /\ [SpectrumNext]_<<signal, result>> => ResidueRight'
  BY ResidueNext
<1>3. SpectrumSpec => []ResidueRight
  BY <1>1, <1>2, PTL DEF SpectrumSpec
<1>. QED BY <1>3, UncouplesWhatWasCoupled, ResidueIsRight, PTL
=============================================================================
