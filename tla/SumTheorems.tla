----------------------------- MODULE SumTheorems -----------------------------
(***************************************************************************)
(* What SumFunctionOnSet computes: facts about sums over finite sets, by    *)
(* induction.  The induction principles are stated over sets of numbers and *)
(* sets of sets, which a proof can name, instead of over predicates.        *)
(***************************************************************************)
EXTENDS Integers, FiniteSets, Functions, FiniteSetTheorems, WellFoundedInduction, TLAPS

\* Induction on natural numbers, for a set of them.
LEMMA NatSetInduction ==
  ASSUME NEW T, 0 \in T, \A n \in Nat : n \in T => n + 1 \in T
  PROVE  Nat \subseteq T
<1> DEFINE Bad == Nat \ T
           Less == {p \in Nat \X Nat : p[1] < p[2]}
<1> SUFFICES ASSUME Bad # {} PROVE FALSE
  OBVIOUS
<1>1. IsWellFoundedOn(Less, Nat)
  BY NatLessThanWellFounded DEF OpToRel
<1> HIDE DEF Less
<1>2. PICK n \in Bad : \A m \in Bad : <<m, n>> \notin Less
  BY <1>1, WFMin, Bad \subseteq Nat
<1>3. n \in Nat /\ n \notin T /\ n # 0
  BY <1>2
<1>4. n - 1 \in Nat /\ <<n - 1, n>> \in Less /\ (n - 1) + 1 = n
  BY <1>3 DEF Less
<1>5. n - 1 \in T
  BY <1>2, <1>4
<1> QED
  BY <1>3, <1>4, <1>5

\* Induction on finite sets: a family that holds a set whenever it holds the set
\* without any one of its elements holds every finite set.
LEMMA RemovalInduction ==
  ASSUME NEW S, IsFiniteSet(S), NEW F,
         \A A \in SUBSET S : (\A x \in A : A \ {x} \in F) => A \in F
  PROVE  S \in F
<1> DEFINE T == {n \in Nat : \A A \in SUBSET S : Cardinality(A) = n => A \in F}
<1>1. 0 \in T
  <2> SUFFICES ASSUME NEW A \in SUBSET S, Cardinality(A) = 0 PROVE A \in F
    OBVIOUS
  <2>1. A = {}
    BY FS_Subset, FS_EmptySet
  <2> QED
    BY <2>1
<1>2. ASSUME NEW n \in Nat, n \in T PROVE n + 1 \in T
  <2> SUFFICES ASSUME NEW A \in SUBSET S, Cardinality(A) = n + 1 PROVE A \in F
    OBVIOUS
  <2>1. ASSUME NEW x \in A PROVE A \ {x} \in F
    <3>1. IsFiniteSet(A)
      BY FS_Subset
    <3>2. Cardinality(A \ {x}) = Cardinality(A) - 1
      BY <3>1, FS_RemoveElement
    <3>3. Cardinality(A \ {x}) = n
      BY <3>2
    <3> QED
      BY <3>3, <1>2
  <2> QED
    BY <2>1
<1> HIDE DEF T
<1>3. Nat \subseteq T
  BY <1>1, <1>2, NatSetInduction
<1>4. Cardinality(S) \in Nat
  BY FS_CardinalityType
<1> QED
  BY <1>3, <1>4 DEF T

-----------------------------------------------------------------------------
(* The function SumFunctionOnSet is defined by, and that it exists *)

Pick(s) == CHOOSE x \in s : TRUE
IsIter(g, f, S) ==
  g = [s \in SUBSET S |-> IF s = {} THEN 0 ELSE f[Pick(s)] + g[s \ {Pick(s)}]]

\* The recursion, cut off at sets of n elements.
Level(S, n) == {s \in SUBSET S : Cardinality(s) <= n}
IsIterUpto(g, f, S, n) ==
  g = [s \in Level(S, n) |-> IF s = {} THEN 0 ELSE f[Pick(s)] + g[s \ {Pick(s)}]]

\* The recursion defines a function on the subsets of a finite set.
LEMMA IterExists ==
  ASSUME NEW S, IsFiniteSet(S), NEW f
  PROVE  \E g : IsIter(g, f, S)
<1> DEFINE T == {n \in Nat : \E g : IsIterUpto(g, f, S, n)}
<1>1. 0 \in T
  <2> DEFINE g == [s \in Level(S, 0) |-> 0]
  <2>1. ASSUME NEW s \in Level(S, 0) PROVE s = {}
    BY FS_Subset, FS_EmptySet, FS_CardinalityType DEF Level
  <2>2. IsIterUpto(g, f, S, 0)
    BY <2>1 DEF IsIterUpto
  <2> QED
    BY <2>2
<1>2. ASSUME NEW n \in Nat, n \in T PROVE n + 1 \in T
  <2>1. PICK h : IsIterUpto(h, f, S, n)
    BY <1>2
  <2> DEFINE g == [s \in Level(S, n + 1) |->
                     IF s = {} THEN 0 ELSE f[Pick(s)] + h[s \ {Pick(s)}]]
  <2>2. ASSUME NEW s \in Level(S, n + 1), s # {}
        PROVE  g[s \ {Pick(s)}] = h[s \ {Pick(s)}]
    <3>1. IsFiniteSet(s) /\ Pick(s) \in s /\ s \ {Pick(s)} \subseteq S
      BY <2>2, FS_Subset DEF Level, Pick
    <3>2. Cardinality(s \ {Pick(s)}) = Cardinality(s) - 1 /\ Cardinality(s) \in Nat
      BY <3>1, FS_RemoveElement, FS_CardinalityType
    <3>3. s \ {Pick(s)} \in Level(S, n) /\ s \ {Pick(s)} \in Level(S, n + 1)
      BY <3>1, <3>2 DEF Level
    <3> QED
      BY <3>3, <2>1 DEF IsIterUpto
  <2>3. IsIterUpto(g, f, S, n + 1)
    BY <2>2 DEF IsIterUpto
  <2> QED
    BY <2>3
<1> HIDE DEF T
<1>3. Nat \subseteq T
  BY <1>1, <1>2, NatSetInduction
<1>4. Cardinality(S) \in T
  BY <1>3, FS_CardinalityType
<1>5. PICK g : IsIterUpto(g, f, S, Cardinality(S))
  BY <1>4 DEF T
<1>6. Level(S, Cardinality(S)) = SUBSET S
  BY FS_Subset DEF Level
<1> QED
  BY <1>5, <1>6 DEF IsIter, IsIterUpto

\* Two functions so defined agree where both are.
LEMMA IterUnique ==
  ASSUME NEW S, NEW T, T \subseteq S, IsFiniteSet(T), NEW f,
         NEW g, IsIter(g, f, S), NEW h, IsIter(h, f, T)
  PROVE  g[T] = h[T]
<1> DEFINE F == {A \in SUBSET T : g[A] = h[A]}
<1>1. ASSUME NEW A \in SUBSET T, \A x \in A : A \ {x} \in F PROVE A \in F
  <2>1. CASE A = {}
    BY <2>1 DEF IsIter
  <2>2. CASE A # {}
    <3>1. Pick(A) \in A
      BY <2>2 DEF Pick
    <3>2. g[A \ {Pick(A)}] = h[A \ {Pick(A)}]
      BY <1>1, <3>1
    <3>3. g[A] = f[Pick(A)] + g[A \ {Pick(A)}] /\ h[A] = f[Pick(A)] + h[A \ {Pick(A)}]
      BY <2>2 DEF IsIter
    <3> QED
      BY <3>2, <3>3
  <2> QED
    BY <2>1, <2>2
<1> HIDE DEF F
<1>2. T \in F
  BY <1>1, RemovalInduction
<1> QED
  BY <1>2 DEF F

\* SumFunctionOnSet is the value of such a function.
LEMMA SumIsIter ==
  ASSUME NEW S, IsFiniteSet(S), NEW f
  PROVE  \E g : IsIter(g, f, S) /\ SumFunctionOnSet(f, S) = g[S]
<1> DEFINE iter[s \in SUBSET S] ==
             IF s = {} THEN 0
             ELSE LET x == CHOOSE x \in s : TRUE IN f[x] + iter[s \ {x}]
<1>1. SumFunctionOnSet(f, S) = iter[S]
  BY DEF SumFunctionOnSet, FoldFunctionOnSet, MapThenFoldSet
<1>2. PICK h : IsIter(h, f, S)
  BY IterExists
<1>3. IsIter(iter, f, S)
  BY <1>2 DEF IsIter, Pick
<1> QED
  BY <1>1, <1>3

-----------------------------------------------------------------------------
(* The sums *)

\* Nothing sums to nothing.
LEMMA SumEmpty ==
  ASSUME NEW f PROVE SumFunctionOnSet(f, {}) = 0
BY SumIsIter, FS_EmptySet DEF IsIter

\* A sum is one value and the sum of the others: here for the value it takes first.
LEMMA SumPick ==
  ASSUME NEW S, IsFiniteSet(S), S # {}, NEW f
  PROVE  SumFunctionOnSet(f, S) = f[Pick(S)] + SumFunctionOnSet(f, S \ {Pick(S)})
<1> DEFINE T == S \ {Pick(S)}
<1>1. IsFiniteSet(T) /\ T \subseteq S
  BY FS_Subset
<1>2. PICK g : IsIter(g, f, S) /\ SumFunctionOnSet(f, S) = g[S]
  BY SumIsIter
<1>3. PICK h : IsIter(h, f, T) /\ SumFunctionOnSet(f, T) = h[T]
  BY SumIsIter, <1>1
<1>4. g[T] = h[T]
  BY <1>1, <1>2, <1>3, IterUnique
<1>5. g[S] = f[Pick(S)] + g[T]
  BY <1>2 DEF IsIter
<1> QED
  BY <1>2, <1>3, <1>4, <1>5

\* Sums of integers are integers.
LEMMA SumInt ==
  ASSUME NEW D, NEW f \in [D -> Int], NEW S \in SUBSET D, IsFiniteSet(S)
  PROVE  SumFunctionOnSet(f, S) \in Int
<1> DEFINE F == {A \in SUBSET S : SumFunctionOnSet(f, A) \in Int}
<1>1. ASSUME NEW A \in SUBSET S, \A x \in A : A \ {x} \in F PROVE A \in F
  <2>1. CASE A = {}
    BY <2>1, SumEmpty
  <2>2. CASE A # {}
    <3>1. IsFiniteSet(A) /\ Pick(A) \in A
      BY <2>2, FS_Subset DEF Pick
    <3>2. SumFunctionOnSet(f, A) = f[Pick(A)] + SumFunctionOnSet(f, A \ {Pick(A)})
      BY <2>2, <3>1, SumPick
    <3> QED
      BY <1>1, <3>1, <3>2
  <2> QED
    BY <2>1, <2>2
<1> HIDE DEF F
<1>2. S \in F
  BY <1>1, RemovalInduction
<1> QED
  BY <1>2 DEF F

\* Sums of natural numbers are natural numbers.
LEMMA SumNat ==
  ASSUME NEW D, NEW f \in [D -> Nat], NEW S \in SUBSET D, IsFiniteSet(S)
  PROVE  SumFunctionOnSet(f, S) \in Nat
<1> DEFINE F == {A \in SUBSET S : SumFunctionOnSet(f, A) \in Nat}
<1>1. ASSUME NEW A \in SUBSET S, \A x \in A : A \ {x} \in F PROVE A \in F
  <2>1. CASE A = {}
    BY <2>1, SumEmpty
  <2>2. CASE A # {}
    <3>1. IsFiniteSet(A) /\ Pick(A) \in A
      BY <2>2, FS_Subset DEF Pick
    <3>2. SumFunctionOnSet(f, A) = f[Pick(A)] + SumFunctionOnSet(f, A \ {Pick(A)})
      BY <2>2, <3>1, SumPick
    <3> QED
      BY <1>1, <3>1, <3>2
  <2> QED
    BY <2>1, <2>2
<1> HIDE DEF F
<1>2. S \in F
  BY <1>1, RemovalInduction
<1> QED
  BY <1>2 DEF F

\* A sum is one value and the sum of the others, whichever is taken out.
LEMMA SumRemove ==
  ASSUME NEW D, NEW f \in [D -> Int], NEW S \in SUBSET D, IsFiniteSet(S), NEW x \in S
  PROVE  SumFunctionOnSet(f, S) = f[x] + SumFunctionOnSet(f, S \ {x})
<1> DEFINE F == {A \in SUBSET S : \A y \in A :
                   SumFunctionOnSet(f, A) = f[y] + SumFunctionOnSet(f, A \ {y})}
<1>1. ASSUME NEW A \in SUBSET S, \A y \in A : A \ {y} \in F PROVE A \in F
  <2> SUFFICES ASSUME NEW y \in A
               PROVE  SumFunctionOnSet(f, A) = f[y] + SumFunctionOnSet(f, A \ {y})
    OBVIOUS
  <2> DEFINE p == Pick(A)
  <2>1. IsFiniteSet(A) /\ p \in A
    BY FS_Subset DEF Pick
  <2>2. SumFunctionOnSet(f, A) = f[p] + SumFunctionOnSet(f, A \ {p})
    BY <2>1, SumPick
  <2>3. CASE y = p
    BY <2>2, <2>3
  <2>4. CASE y # p
    <3> DEFINE B == A \ {p, y}
    <3> HIDE DEF p
    <3>1. B = (A \ {p}) \ {y} /\ B = (A \ {y}) \ {p}
      OBVIOUS
    <3>2. SumFunctionOnSet(f, A \ {p}) = f[y] + SumFunctionOnSet(f, B)
      BY <1>1, <2>1, <2>4, <3>1
    <3>3. SumFunctionOnSet(f, A \ {y}) = f[p] + SumFunctionOnSet(f, B)
      BY <1>1, <2>1, <2>4, <3>1
    <3>4. IsFiniteSet(B) /\ B \in SUBSET D
      BY <2>1, FS_Subset
    <3>5. f[p] \in Int /\ f[y] \in Int /\ SumFunctionOnSet(f, B) \in Int
      BY <2>1, <3>4, SumInt
    <3> QED
      BY <2>2, <3>2, <3>3, <3>5
  <2> QED
    BY <2>3, <2>4
<1> HIDE DEF F
<1>2. S \in F
  BY <1>1, RemovalInduction
<1> QED
  BY <1>2 DEF F

\* A sum depends on nothing but the values it adds.
LEMMA SumAgree ==
  ASSUME NEW S, IsFiniteSet(S), NEW f, NEW g, \A x \in S : f[x] = g[x]
  PROVE  SumFunctionOnSet(f, S) = SumFunctionOnSet(g, S)
<1> DEFINE F == {A \in SUBSET S : SumFunctionOnSet(f, A) = SumFunctionOnSet(g, A)}
<1>1. ASSUME NEW A \in SUBSET S, \A x \in A : A \ {x} \in F PROVE A \in F
  <2>1. CASE A = {}
    BY <2>1, SumEmpty
  <2>2. CASE A # {}
    <3>1. IsFiniteSet(A) /\ Pick(A) \in A
      BY <2>2, FS_Subset DEF Pick
    <3>2. /\ SumFunctionOnSet(f, A) = f[Pick(A)] + SumFunctionOnSet(f, A \ {Pick(A)})
          /\ SumFunctionOnSet(g, A) = g[Pick(A)] + SumFunctionOnSet(g, A \ {Pick(A)})
      BY <2>2, <3>1, SumPick
    <3> QED
      BY <1>1, <3>1, <3>2
  <2> QED
    BY <2>1, <2>2
<1> HIDE DEF F
<1>2. S \in F
  BY <1>1, RemovalInduction
<1> QED
  BY <1>2 DEF F

\* When an index joins, the sum grows by its value.
LEMMA SumAdd ==
  ASSUME NEW D, NEW f \in [D -> Int], NEW S \in SUBSET D, IsFiniteSet(S),
         NEW x \in D, x \notin S
  PROVE  SumFunctionOnSet(f, S \cup {x}) = SumFunctionOnSet(f, S) + f[x]
<1> DEFINE U == S \cup {x}
<1>1. IsFiniteSet(U) /\ U \in SUBSET D /\ x \in U /\ U \ {x} = S
  BY FS_AddElement
<1>2. SumFunctionOnSet(f, U) = f[x] + SumFunctionOnSet(f, U \ {x})
  BY <1>1, SumRemove
<1>3. f[x] \in Int /\ SumFunctionOnSet(f, S) \in Int
  BY SumInt
<1>4. SumFunctionOnSet(f, U \ {x}) = SumFunctionOnSet(f, S)
  BY <1>1
<1> HIDE DEF U
<1>5. SumFunctionOnSet(f, U) = SumFunctionOnSet(f, S) + f[x]
  BY <1>2, <1>3, <1>4
<1> QED
  BY <1>5 DEF U

\* The sum over two disjoint sets of indices is the sum of their sums.
LEMMA SumUnion ==
  ASSUME NEW D, NEW f \in [D -> Int], NEW S \in SUBSET D, IsFiniteSet(S),
         NEW T \in SUBSET D, IsFiniteSet(T), S \cap T = {}
  PROVE  SumFunctionOnSet(f, S \cup T) = SumFunctionOnSet(f, S) + SumFunctionOnSet(f, T)
<1> DEFINE F == {A \in SUBSET T : SumFunctionOnSet(f, S \cup A) =
                                    SumFunctionOnSet(f, S) + SumFunctionOnSet(f, A)}
<1>1. ASSUME NEW A \in SUBSET T, \A x \in A : A \ {x} \in F PROVE A \in F
  <2>1. CASE A = {}
    <3>1. S \cup A = S
      BY <2>1
    <3>2. SumFunctionOnSet(f, A) = 0 /\ SumFunctionOnSet(f, S) \in Int
      BY <2>1, SumEmpty, SumInt
    <3>3. SumFunctionOnSet(f, S \cup A) = SumFunctionOnSet(f, S)
      BY <3>1
    <3>4. SumFunctionOnSet(f, S \cup A) =
            SumFunctionOnSet(f, S) + SumFunctionOnSet(f, A)
      <4> DEFINE a == SumFunctionOnSet(f, A)
                 s == SumFunctionOnSet(f, S)
                 u == SumFunctionOnSet(f, S \cup A)
      <4>1. a = 0 /\ s \in Int /\ u = s
        BY <3>2, <3>3
      <4> HIDE DEF a, s, u
      <4>2. u = s + a
        BY <4>1
      <4> QED
        BY <4>2 DEF a, s, u
    <3> QED
      BY <3>4
  <2>2. CASE A # {}
    <3>1. PICK x \in A : x \in D /\ x \notin S
      BY <2>2
    <3> DEFINE B == A \ {x}
               U == S \cup B
    <3>2. /\ IsFiniteSet(B) /\ B \in SUBSET D /\ x \notin B
          /\ IsFiniteSet(U) /\ U \in SUBSET D /\ x \notin U
      BY <3>1, FS_Subset, FS_Union
    <3>3. A = B \cup {x} /\ S \cup A = U \cup {x}
      BY <3>1
    <3>4. SumFunctionOnSet(f, U) = SumFunctionOnSet(f, S) + SumFunctionOnSet(f, B)
      BY <1>1, <3>1
    <3> HIDE DEF B, U
    <3>5. SumFunctionOnSet(f, B \cup {x}) = SumFunctionOnSet(f, B) + f[x]
      BY <3>1, <3>2, SumAdd
    <3>6. SumFunctionOnSet(f, U \cup {x}) = SumFunctionOnSet(f, U) + f[x]
      BY <3>1, <3>2, SumAdd
    <3>7. /\ SumFunctionOnSet(f, S) \in Int /\ SumFunctionOnSet(f, B) \in Int
          /\ f[x] \in Int
      BY <3>1, <3>2, SumInt
    <3> DEFINE a == SumFunctionOnSet(f, A)
               b == SumFunctionOnSet(f, B)
               s == SumFunctionOnSet(f, S)
               u == SumFunctionOnSet(f, U)
               t == SumFunctionOnSet(f, S \cup A)
    <3>8. a = b + f[x] /\ t = u + f[x] /\ u = s + b /\ s \in Int /\ b \in Int
      BY <3>3, <3>4, <3>5, <3>6, <3>7
    <3> HIDE DEF a, b, s, u, t
    <3>9. t = s + a
      BY <3>7, <3>8
    <3> QED
      BY <3>9 DEF a, s, t
  <2> QED
    BY <2>1, <2>2
<1> HIDE DEF F
<1>2. T \in F
  BY <1>1, RemovalInduction
<1> QED
  BY <1>2 DEF F

\* No value exceeds a sum of natural numbers it is part of.
LEMMA SumBounds ==
  ASSUME NEW D, NEW f \in [D -> Nat], NEW S \in SUBSET D, IsFiniteSet(S), NEW x \in S
  PROVE  f[x] <= SumFunctionOnSet(f, S)
<1>1. IsFiniteSet(S \ {x}) /\ S \ {x} \in SUBSET D /\ f \in [D -> Int]
  BY FS_Subset
<1>2. SumFunctionOnSet(f, S) = f[x] + SumFunctionOnSet(f, S \ {x})
  BY <1>1, SumRemove
<1>3. f[x] \in Nat /\ SumFunctionOnSet(f, S \ {x}) \in Nat
  BY <1>1, SumNat
<1> QED
  BY <1>2, <1>3

\* Taking from one value takes as much from the sum, which covers it.
LEMMA SumTake ==
  ASSUME NEW D, NEW f \in [D -> Nat], NEW S \in SUBSET D, IsFiniteSet(S), NEW x \in S,
         NEW n \in Nat, n <= f[x], NEW g \in [D -> Int], g[x] = f[x] - n,
         \A y \in S \ {x} : g[y] = f[y]
  PROVE  /\ SumFunctionOnSet(g, S) = SumFunctionOnSet(f, S) - n
         /\ n <= SumFunctionOnSet(f, S)
<1> DEFINE T == S \ {x}
<1>1. f \in [D -> Int] /\ f[x] \in Nat
  OBVIOUS
<1>2. IsFiniteSet(T) /\ T \in SUBSET D /\ \A y \in T : g[y] = f[y]
  BY FS_Subset
<1>3. SumFunctionOnSet(g, T) = SumFunctionOnSet(f, T)
  BY <1>2, SumAgree
<1>4. SumFunctionOnSet(f, S) = f[x] + SumFunctionOnSet(f, T)
  BY <1>1, SumRemove
<1>5. SumFunctionOnSet(g, S) = g[x] + SumFunctionOnSet(g, T)
  BY <1>1, SumRemove
<1>6. SumFunctionOnSet(f, T) \in Nat
  BY <1>2, SumNat
<1> HIDE DEF T
<1> QED
  BY <1>1, <1>3, <1>4, <1>5, <1>6
=============================================================================
