------------------------------ MODULE SumProofs ------------------------------
(***************************************************************************)
(* What SumFunctionOnSet of the community modules computes, for every      *)
(* finite set.  It takes the elements in the order of CHOOSE; the theorems *)
(* say that it adds them up in any order.                                  *)
(*                                                                         *)
(* The induction goes over the sizes of sets, by a counterexample of the   *)
(* least size, since a theorem with a predicate as its parameter cannot be *)
(* instantiated by the provers.                                            *)
(***************************************************************************)
EXTENDS FiniteSetsExt, FiniteSetTheorems, WellFoundedInduction, TLAPS

First(s) == CHOOSE x \in s : TRUE

\* h is the function that the recursive definition chooses.
Sums(h, f, S) ==
  h = [s \in SUBSET S |-> IF s = {} THEN 0 ELSE f[First(s)] + h[s \ {First(s)}]]

-----------------------------------------------------------------------------
\* A set of natural numbers has a least one.
LEMMA Smallest ==
  ASSUME NEW T, T \subseteq Nat, T # {}
  PROVE  \E n \in T : \A m \in T : n <= m
<1> DEFINE less == OpToRel(<, Nat)
<1>1. \A x, y \in Nat : y < x => <<y, x>> \in less
  BY DEF OpToRel
<1>2. IsWellFoundedOn(less, Nat)
  BY NatLessThanWellFounded
<1> HIDE DEF less
<1>3. PICK n \in T : \A m \in T : ~(<<m, n>> \in less)
  BY <1>2, WFMin
<1>4. ASSUME NEW m \in T PROVE n <= m
  <2>1. n \in Nat /\ m \in Nat
    BY <1>3
  <2>2. ~(m < n)
    BY <2>1, <1>1, <1>3, Zenon
  <2>. QED BY <2>1, <2>2
<1>. QED BY <1>3, <1>4

\* Among subsets of a finite set there is one that contains none of the others.
LEMMA SmallestSet ==
  ASSUME NEW S, IsFiniteSet(S), NEW D, D \subseteq SUBSET S, D # {}
  PROVE  \E T \in D : \A U \in SUBSET T : U \in D => U = T
<1>1. \A T \in D : IsFiniteSet(T) /\ Cardinality(T) \in Nat
  BY FS_Subset, FS_CardinalityType
<1> DEFINE sizes == {Cardinality(T) : T \in D}
<1>2. sizes \subseteq Nat /\ sizes # {}
  BY <1>1
<1>3. PICK n \in sizes : \A m \in sizes : n <= m
  <2> HIDE DEF sizes
  <2>. QED BY <1>2, Smallest
<1>4. PICK T \in D : n = Cardinality(T)
  OBVIOUS
<1>5. ASSUME NEW U \in SUBSET T, U \in D PROVE U = T
  <2>1. Cardinality(U) <= Cardinality(T) /\ (Cardinality(T) = Cardinality(U) => T = U)
    BY <1>1, FS_Subset
  <2>2. Cardinality(T) <= Cardinality(U)
    BY <1>3, <1>4, <1>5
  <2>. QED BY <1>1, <1>5, <2>1, <2>2
<1>. QED BY <1>5

\* The choice is one of the set.
LEMMA FirstIsIn ==
  ASSUME NEW s, s # {}
  PROVE  First(s) \in s
  BY DEF First

-----------------------------------------------------------------------------
\* Two such functions agree wherever both are defined.
LEMMA SumsAgree ==
  ASSUME NEW f, NEW V, IsFiniteSet(V), NEW W \in SUBSET V,
         NEW h, Sums(h, f, V), NEW k, Sums(k, f, W)
  PROVE  h[W] = k[W]
<1> DEFINE D == {U \in SUBSET W : h[U] # k[U]}
<1>1. SUFFICES ASSUME D # {} PROVE FALSE
  OBVIOUS
<1>2. IsFiniteSet(W)
  BY FS_Subset
<1>3. PICK U \in D : \A Z \in SUBSET U : Z \in D => Z = U
  <2>1. D \subseteq SUBSET W
    OBVIOUS
  <2> HIDE DEF D
  <2>. QED BY <1>1, <1>2, <2>1, SmallestSet
<1>4. /\ h[U] = IF U = {} THEN 0 ELSE f[First(U)] + h[U \ {First(U)}]
      /\ k[U] = IF U = {} THEN 0 ELSE f[First(U)] + k[U \ {First(U)}]
  BY DEF Sums
<1>5. U # {}
  BY <1>4
<1>6. h[U \ {First(U)}] = k[U \ {First(U)}]
  BY <1>3, <1>5, FirstIsIn
<1>. QED BY <1>4, <1>5, <1>6

\* The function for V, where there is one.
For(f, V) == CHOOSE h : Sums(h, f, V)

LEMMA SumsExist ==
  ASSUME NEW f, NEW S, IsFiniteSet(S)
  PROVE  Sums(For(f, S), f, S)
<1> DEFINE D == {U \in SUBSET S : ~Sums(For(f, U), f, U)}
<1>1. SUFFICES ASSUME D # {} PROVE FALSE
  OBVIOUS
<1>2. PICK T \in D : \A U \in SUBSET T : U \in D => U = T
  <2>1. D \subseteq SUBSET S
    OBVIOUS
  <2> HIDE DEF D
  <2>. QED BY <1>1, <2>1, SmallestSet
<1>3. \A U \in SUBSET T : IsFiniteSet(U) /\ (U # T => Sums(For(f, U), f, U))
  BY <1>2, FS_Subset
<1> DEFINE Less(U) == U \ {First(U)}
           h == [U \in SUBSET T |-> IF U = {} THEN 0 ELSE f[First(U)] + For(f, Less(U))[Less(U)]]
<1>4. ASSUME NEW U \in SUBSET T, U # {}
      PROVE  Less(U) \in SUBSET T /\ Less(U) # T
  BY <1>4, FirstIsIn
<1>5. ASSUME NEW V \in SUBSET T, V # T
      PROVE  h[V] = For(f, V)[V]
  <2>1. Sums(For(f, V), f, V) /\ IsFiniteSet(V)
    BY <1>3, <1>5
  <2>2. For(f, V)[V] = IF V = {} THEN 0 ELSE f[First(V)] + For(f, V)[Less(V)]
    BY <2>1 DEF Sums
  <2>3. CASE V = {}
    BY <2>2, <2>3
  <2>4. CASE V # {}
    <3>1. Sums(For(f, Less(V)), f, Less(V))
      BY <1>3, <1>4, <2>4
    <3>2. For(f, V)[Less(V)] = For(f, Less(V))[Less(V)]
      <4>1. Less(V) \in SUBSET V
        OBVIOUS
      <4> HIDE DEF Less
      <4>. QED BY <2>1, <3>1, <4>1, SumsAgree
    <3>. QED BY <2>2, <2>4, <3>2
  <2>. QED BY <2>3, <2>4
<1>6. Sums(h, f, T)
  <2>1. ASSUME NEW U \in SUBSET T
        PROVE  h[U] = IF U = {} THEN 0 ELSE f[First(U)] + h[Less(U)]
    BY <1>4, <1>5
  <2>2. h = [U \in SUBSET T |-> IF U = {} THEN 0 ELSE f[First(U)] + h[Less(U)]]
    <3>1. \A U \in SUBSET T : h[U] = IF U = {} THEN 0 ELSE f[First(U)] + For(f, Less(U))[Less(U)]
      OBVIOUS
    <3>. QED BY <2>1, <3>1
  <2>. QED BY <2>2 DEF Sums
<1>7. Sums(For(f, T), f, T)
  <2> HIDE DEF h
  <2>. QED BY <1>6 DEF For
<1>. QED BY <1>2, <1>7

\* SumFunctionOnSet by that function.
LEMMA SumIs ==
  ASSUME NEW f, NEW S
  PROVE  SumFunctionOnSet(f, S) = For(f, S)[S]
  BY DEF SumFunctionOnSet, FoldFunctionOnSet, MapThenFoldSet, Sums, First, For

-----------------------------------------------------------------------------
THEOREM SumOfNone ==
  ASSUME NEW f
  PROVE  SumFunctionOnSet(f, {}) = 0
<1>1. Sums(For(f, {}), f, {})
  BY SumsExist, FS_EmptySet
<1>2. For(f, {})[{}] = 0
  BY <1>1 DEF Sums
<1>. QED BY <1>2, SumIs

LEMMA SumFromFirst ==
  ASSUME NEW f, NEW S, IsFiniteSet(S), S # {}
  PROVE  SumFunctionOnSet(f, S) = f[First(S)] + SumFunctionOnSet(f, S \ {First(S)})
<1> DEFINE R == S \ {First(S)}
<1>1. R \in SUBSET S /\ IsFiniteSet(R)
  BY FS_Subset
<1>2. Sums(For(f, S), f, S) /\ Sums(For(f, R), f, R)
  BY <1>1, SumsExist
<1>3. For(f, S)[S] = f[First(S)] + For(f, S)[R]
  BY <1>2 DEF Sums
<1>4. For(f, S)[R] = For(f, R)[R]
  <2> HIDE DEF R
  <2>. QED BY <1>1, <1>2, SumsAgree
<1>. QED BY <1>3, <1>4, SumIs

THEOREM SumIsInt ==
  ASSUME NEW f, NEW S, IsFiniteSet(S), \A x \in S : f[x] \in Int
  PROVE  SumFunctionOnSet(f, S) \in Int
<1> DEFINE D == {U \in SUBSET S : SumFunctionOnSet(f, U) \notin Int}
<1>1. SUFFICES ASSUME D # {} PROVE FALSE
  OBVIOUS
<1>2. PICK T \in D : \A U \in SUBSET T : U \in D => U = T
  <2>1. D \subseteq SUBSET S
    OBVIOUS
  <2> HIDE DEF D
  <2>. QED BY <1>1, <2>1, SmallestSet
<1>3. T # {}
  <2>1. SumFunctionOnSet(f, {}) \in Int
    BY SumOfNone
  <2>. QED BY <1>2, <2>1
<1>4. First(T) \in T /\ IsFiniteSet(T)
  BY <1>3, FirstIsIn, FS_Subset
<1>5. SumFunctionOnSet(f, T \ {First(T)}) \in Int
  BY <1>2, <1>4
<1>6. SumFunctionOnSet(f, T) = f[First(T)] + SumFunctionOnSet(f, T \ {First(T)})
  BY <1>3, <1>4, SumFromFirst
<1>7. f[First(T)] \in Int
  BY <1>4
<1>. QED BY <1>2, <1>5, <1>6, <1>7

THEOREM SumOfOneMore ==
  ASSUME NEW f, NEW S, IsFiniteSet(S), NEW x, x \in S, \A y \in S : f[y] \in Int
  PROVE  SumFunctionOnSet(f, S) = f[x] + SumFunctionOnSet(f, S \ {x})
<1> DEFINE Sum(U) == SumFunctionOnSet(f, U)
           D == {U \in SUBSET S : \E y \in U : Sum(U) # f[y] + Sum(U \ {y})}
<1>1. SUFFICES ASSUME D # {} PROVE FALSE
  OBVIOUS
<1>2. PICK T \in D : \A U \in SUBSET T : U \in D => U = T
  <2>1. D \subseteq SUBSET S
    OBVIOUS
  <2> HIDE DEF D
  <2>. QED BY <1>1, <2>1, SmallestSet
<1>3. PICK y \in T : Sum(T) # f[y] + Sum(T \ {y})
  OBVIOUS
<1> DEFINE z == First(T)
<1>4. z \in T /\ IsFiniteSet(T)
  BY <1>3, FirstIsIn, FS_Subset
<1>5. Sum(T) = f[z] + Sum(T \ {z})
  BY <1>4, SumFromFirst
<1> HIDE DEF z
<1>6. y # z
  BY <1>3, <1>5
<1>7. T \ {z} \notin D /\ T \ {y} \notin D
  <2>1. /\ T \ {z} \in SUBSET T /\ T \ {z} # T
        /\ T \ {y} \in SUBSET T /\ T \ {y} # T
    BY <1>4
  <2> HIDE DEF D
  <2>. QED BY <1>2, <2>1
<1>8. Sum(T \ {z}) = f[y] + Sum((T \ {z}) \ {y})
  BY <1>4, <1>6, <1>7
<1>9. Sum(T \ {y}) = f[z] + Sum((T \ {y}) \ {z})
  BY <1>4, <1>6, <1>7
<1>10. (T \ {y}) \ {z} = (T \ {z}) \ {y}
  OBVIOUS
<1>11. f[y] \in Int /\ f[z] \in Int /\ Sum((T \ {z}) \ {y}) \in Int
  <2>1. IsFiniteSet((T \ {z}) \ {y}) /\ \A w \in (T \ {z}) \ {y} : f[w] \in Int
    BY <1>4, FS_Subset
  <2>. QED BY <1>4, <2>1, SumIsInt
<1> HIDE DEF Sum
<1>. QED BY <1>3, <1>5, <1>8, <1>9, <1>10, <1>11

THEOREM SumOfZeros ==
  ASSUME NEW f, NEW S, IsFiniteSet(S), \A x \in S : f[x] = 0
  PROVE  SumFunctionOnSet(f, S) = 0
<1> DEFINE D == {U \in SUBSET S : SumFunctionOnSet(f, U) # 0}
<1>1. SUFFICES ASSUME D # {} PROVE FALSE
  OBVIOUS
<1>2. PICK T \in D : \A U \in SUBSET T : U \in D => U = T
  <2>1. D \subseteq SUBSET S
    OBVIOUS
  <2> HIDE DEF D
  <2>. QED BY <1>1, <2>1, SmallestSet
<1>3. T # {}
  <2>1. SumFunctionOnSet(f, {}) = 0
    BY SumOfNone
  <2>. QED BY <1>2, <2>1
<1>4. First(T) \in T /\ IsFiniteSet(T)
  BY <1>3, FirstIsIn, FS_Subset
<1>5. SumFunctionOnSet(f, T \ {First(T)}) = 0
  BY <1>2, <1>4
<1>6. SumFunctionOnSet(f, T) = f[First(T)] + SumFunctionOnSet(f, T \ {First(T)})
  BY <1>3, <1>4, SumFromFirst
<1>7. f[First(T)] = 0
  BY <1>4
<1>. QED BY <1>2, <1>5, <1>6, <1>7

\* A set is as much as a part of it and the rest.
THEOREM SumOfParts ==
  ASSUME NEW f, NEW S, IsFiniteSet(S), NEW T \in SUBSET S, \A x \in S : f[x] \in Int
  PROVE  SumFunctionOnSet(f, S) = SumFunctionOnSet(f, T) + SumFunctionOnSet(f, S \ T)
<1> DEFINE Sum(U) == SumFunctionOnSet(f, U)
           D == {U \in SUBSET S : Sum(S) # Sum(U) + Sum(S \ U)}
<1>1. SUFFICES ASSUME D # {} PROVE FALSE
  OBVIOUS
<1>2. PICK U \in D : \A V \in SUBSET U : V \in D => V = U
  <2>1. D \subseteq SUBSET S
    OBVIOUS
  <2> HIDE DEF D
  <2>. QED BY <1>1, <2>1, SmallestSet
<1>3. \A V \in SUBSET S : IsFiniteSet(V) /\ Sum(V) \in Int
  BY FS_Subset, SumIsInt
<1>4. U # {}
  <2>1. Sum({}) = 0 /\ S \ {} = S /\ Sum(S) \in Int
    BY SumOfNone, <1>3
  <2>2. Sum(U) + Sum(S \ U) # Sum(S)
    BY <1>2
  <2> HIDE DEF Sum
  <2>3. Sum({}) + Sum(S \ {}) = Sum(S)
    BY <2>1
  <2>. QED BY <2>2, <2>3
<1>5. PICK x \in U : TRUE
  BY <1>4
<1> DEFINE V == U \ {x}
           R == S \ U
<1>6. Sum(S) = Sum(V) + Sum(S \ V)
  BY <1>2, <1>5
<1>7. Sum(U) = f[x] + Sum(V)
  BY <1>3, <1>5, SumOfOneMore
<1>8. Sum(S \ V) = f[x] + Sum(R)
  <2>1. x \in S \ V /\ IsFiniteSet(S \ V) /\ (S \ V) \ {x} = R
    BY <1>3, <1>5
  <2>. QED BY <2>1, SumOfOneMore
<1>9. Sum(V) \in Int /\ Sum(R) \in Int /\ f[x] \in Int
  BY <1>3, <1>5
<1>10. Sum(S) # Sum(U) + Sum(R)
  BY <1>2
<1> HIDE DEF Sum, V, R
<1>. QED BY <1>6, <1>7, <1>8, <1>9, <1>10

THEOREM SumIsAtMost ==
  ASSUME NEW f, NEW g, NEW S, IsFiniteSet(S), \A x \in S : f[x] \in Int /\ g[x] \in Int /\ f[x] <= g[x]
  PROVE  SumFunctionOnSet(f, S) <= SumFunctionOnSet(g, S)
<1> DEFINE D == {U \in SUBSET S : ~(SumFunctionOnSet(f, U) <= SumFunctionOnSet(g, U))}
<1>1. SUFFICES ASSUME D # {} PROVE FALSE
  OBVIOUS
<1>2. PICK T \in D : \A U \in SUBSET T : U \in D => U = T
  <2>1. D \subseteq SUBSET S
    OBVIOUS
  <2> HIDE DEF D
  <2>. QED BY <1>1, <2>1, SmallestSet
<1>3. T # {}
  <2>1. SumFunctionOnSet(f, {}) <= SumFunctionOnSet(g, {})
    BY SumOfNone
  <2>. QED BY <1>2, <2>1
<1>4. PICK x \in T : TRUE
  BY <1>3
<1> DEFINE U == T \ {x}
<1>5. IsFiniteSet(T) /\ IsFiniteSet(U) /\ SumFunctionOnSet(f, U) <= SumFunctionOnSet(g, U)
  BY <1>2, <1>4, FS_Subset
<1>6. /\ SumFunctionOnSet(f, T) = f[x] + SumFunctionOnSet(f, U)
      /\ SumFunctionOnSet(g, T) = g[x] + SumFunctionOnSet(g, U)
  BY <1>4, <1>5, SumOfOneMore
<1>7. SumFunctionOnSet(f, U) \in Int /\ SumFunctionOnSet(g, U) \in Int
  BY <1>5, SumIsInt
<1>8. f[x] \in Int /\ g[x] \in Int /\ f[x] <= g[x]
  BY <1>4
<1> HIDE DEF U
<1>9. SumFunctionOnSet(f, T) <= SumFunctionOnSet(g, T)
  BY <1>5, <1>6, <1>7, <1>8
<1>. QED BY <1>2, <1>9

\* Only what the functions are on the set counts.
THEOREM SumOfEquals ==
  ASSUME NEW f, NEW g, NEW S, IsFiniteSet(S), \A x \in S : f[x] \in Int /\ f[x] = g[x]
  PROVE  SumFunctionOnSet(f, S) = SumFunctionOnSet(g, S)
<1>1. SumFunctionOnSet(f, S) <= SumFunctionOnSet(g, S) /\ SumFunctionOnSet(g, S) <= SumFunctionOnSet(f, S)
  BY SumIsAtMost
<1>2. SumFunctionOnSet(f, S) \in Int /\ SumFunctionOnSet(g, S) \in Int
  BY SumIsInt
<1>. QED BY <1>1, <1>2

\* Scaled and moved, a sum is scaled, and moved once for every element.
THEOREM SumOfScaled ==
  ASSUME NEW f, NEW g, NEW S, IsFiniteSet(S), NEW a \in Int, NEW b \in Int,
         \A x \in S : f[x] \in Int /\ g[x] = f[x] * a - b
  PROVE  SumFunctionOnSet(g, S) = SumFunctionOnSet(f, S) * a - Cardinality(S) * b
<1> DEFINE OK(U) == SumFunctionOnSet(g, U) = SumFunctionOnSet(f, U) * a - Cardinality(U) * b
           D == {U \in SUBSET S : ~OK(U)}
<1>1. SUFFICES ASSUME D # {} PROVE FALSE
  OBVIOUS
<1>2. PICK T \in D : \A U \in SUBSET T : U \in D => U = T
  <2>1. D \subseteq SUBSET S
    OBVIOUS
  <2> HIDE DEF D
  <2>. QED BY <1>1, <2>1, SmallestSet
<1>3. T # {}
  <2>1. OK({})
    BY SumOfNone, FS_EmptySet
  <2> HIDE DEF OK
  <2>. QED BY <1>2, <2>1
<1>4. PICK x \in T : TRUE
  BY <1>3
<1> DEFINE U == T \ {x}
<1>5. IsFiniteSet(T) /\ IsFiniteSet(U) /\ U \in SUBSET S /\ T \in SUBSET S
  BY <1>2, FS_Subset
<1>6. OK(U)
  <2> HIDE DEF OK
  <2>. QED BY <1>2, <1>4
<1>7. \A y \in T : f[y] \in Int /\ g[y] \in Int
  BY <1>5
<1>8. /\ SumFunctionOnSet(f, T) = f[x] + SumFunctionOnSet(f, U)
      /\ SumFunctionOnSet(g, T) = g[x] + SumFunctionOnSet(g, U)
  BY <1>4, <1>5, <1>7, SumOfOneMore
<1>9. SumFunctionOnSet(f, U) \in Int /\ SumFunctionOnSet(g, U) \in Int
  BY <1>5, <1>7, SumIsInt
<1>10. Cardinality(T) = Cardinality(U) + 1 /\ Cardinality(U) \in Nat
  BY <1>4, <1>5, FS_RemoveElement, FS_CardinalityType
<1>11. f[x] \in Int /\ g[x] = f[x] * a - b
  BY <1>4, <1>5
<1> DEFINE F == SumFunctionOnSet(f, U)
           k == Cardinality(U)
           e == f[x]
<1>12. SumFunctionOnSet(g, T) = (e * a - b) + (F * a - k * b)
  BY <1>6, <1>8, <1>11
<1>13. SumFunctionOnSet(f, T) * a - Cardinality(T) * b = (e + F) * a - (k + 1) * b
  BY <1>8, <1>10
<1>14. F \in Int /\ k \in Int /\ e \in Int
  BY <1>9, <1>10, <1>11
<1> HIDE DEF F, k, e, D
<1>15. (e * a - b) + (F * a - k * b) = (e + F) * a - (k + 1) * b
  BY <1>14
<1>16. OK(T)
  BY <1>12, <1>13, <1>15
<1>. QED BY <1>2, <1>16 DEF D

\* A sum over other places with the same values.
THEOREM SumOfPlaces ==
  ASSUME NEW f, NEW g, NEW b, NEW S, IsFiniteSet(S),
         \A x, z \in S : b[x] = b[z] => x = z,
         \A x \in S : f[x] \in Int /\ g[b[x]] = f[x]
  PROVE  SumFunctionOnSet(g, {b[x] : x \in S}) = SumFunctionOnSet(f, S)
<1> DEFINE Im(U) == {b[x] : x \in U}
           OK(U) == SumFunctionOnSet(g, Im(U)) = SumFunctionOnSet(f, U)
           D == {U \in SUBSET S : ~OK(U)}
<1>1. SUFFICES ASSUME D # {} PROVE FALSE
  OBVIOUS
<1>2. PICK T \in D : \A U \in SUBSET T : U \in D => U = T
  <2>1. D \subseteq SUBSET S
    OBVIOUS
  <2> HIDE DEF D
  <2>. QED BY <1>1, <2>1, SmallestSet
<1>3. T # {}
  <2>1. Im({}) = {}
    OBVIOUS
  <2>2. OK({})
    BY <2>1, SumOfNone
  <2> HIDE DEF OK
  <2>. QED BY <1>2, <2>2
<1>4. PICK x \in T : TRUE
  BY <1>3
<1> DEFINE U == T \ {x}
<1>5. IsFiniteSet(T) /\ IsFiniteSet(U) /\ U \in SUBSET S /\ T \in SUBSET S
  BY <1>2, FS_Subset
<1>6. OK(U)
  <2> HIDE DEF OK
  <2>. QED BY <1>2, <1>4
<1>7. \A z \in T : f[z] \in Int /\ g[b[z]] = f[z]
  BY <1>5
<1>8. SumFunctionOnSet(f, T) = f[x] + SumFunctionOnSet(f, U)
  BY <1>4, <1>5, <1>7, SumOfOneMore
<1>9. b[x] \in Im(T) /\ Im(T) \ {b[x]} = Im(U) /\ \A w \in Im(T) : g[w] \in Int
  BY <1>4, <1>5, <1>7
<1>10. IsFiniteSet(Im(T))
  <2> DEFINE e == [z \in T |-> b[z]]
             J == Im(T)
  <2>1. e \in Surjection(T, J)
    BY DEF Surjection
  <2> HIDE DEF e, J
  <2>2. IsFiniteSet(J)
    BY <1>5, <2>1, FS_Surjection
  <2>. QED BY <2>2 DEF J
<1>11. SumFunctionOnSet(g, Im(T)) = g[b[x]] + SumFunctionOnSet(g, Im(U))
  <2> DEFINE J == Im(T)
             z == b[x]
  <2>1. z \in J /\ IsFiniteSet(J) /\ \A w \in J : g[w] \in Int
    BY <1>9, <1>10
  <2> HIDE DEF J, z
  <2>2. SumFunctionOnSet(g, J) = g[z] + SumFunctionOnSet(g, J \ {z})
    BY <2>1, SumOfOneMore
  <2>3. J \ {z} = Im(U)
    BY <1>9 DEF J, z
  <2>. QED BY <2>2, <2>3 DEF J, z
<1>12. OK(T)
  BY <1>4, <1>6, <1>7, <1>8, <1>11
<1> HIDE DEF OK
<1>. QED BY <1>2, <1>12
==============================================================================
