------------------------ MODULE Conservation_proofs ------------------------
(***************************************************************************)
(* Mass and outflow add up to what there was at the start, for every       *)
(* number of dimensions, size of nodes, set of trees, field and fluxes,    *)
(* as long as no division leaves a rest.                                   *)
(*                                                                         *)
(* Three sums are rearranged.  Over the leaves: what a refined node shares *)
(* out among its children adds up, over the leaves, to what the root has,  *)
(* so that a regrid, after all levels have restricted, changes nothing.    *)
(* Over the faces: what enters a leaf through a face within the domain     *)
(* leaves another, or her nieces or her aunt once their fluxes are         *)
(* corrected, so that a stage changes mass by what leaves the domain.      *)
(* Over the cells of a leaf: what flows between two of its cells cancels,  *)
(* and so do the slopes toward a cell's octants.                           *)
(***************************************************************************)
EXTENDS Conservation, FiniteSetTheorems, WellFoundedInduction, TLAPS

(* A set of natural numbers has a least one.                               *)
LEMMA LeastElement ==
  ASSUME NEW T \in SUBSET Nat, T # {}
  PROVE  \E k \in T : \A j \in T : k <= j
<1> DEFINE R == {ss \in Nat \X Nat : ss[1] < ss[2]}
<1>1. R = OpToRel(<, Nat)
  BY DEF OpToRel
<1>2. IsWellFoundedOn(R, Nat)
  BY <1>1, NatLessThanWellFounded, Zenon
<1>3. PICK k \in T : \A j \in T : ~(<<j, k>> \in R)
  <2> HIDE DEF R
  <2> QED
    BY <1>2, WFMin
<1>4. ASSUME NEW j \in T PROVE k <= j
  <2>1. j \in Nat /\ k \in Nat /\ <<j, k>> \notin R
    BY <1>3
  <2> QED
    BY <2>1
<1> QED
  BY <1>4

(* What holds of the empty set and of every set if it holds of that without*)
(* one of its elements: no set is a least counterexample.                  *)
LEMMA SmallestSubset ==
  ASSUME NEW S, IsFiniteSet(S), NEW Good,
         {} \in Good,
         \A T \in SUBSET S : (T # {} /\ \A x \in T : T \ {x} \in Good) => T \in Good
  PROVE  \A T \in SUBSET S : T \in Good
<1> SUFFICES ASSUME NEW T0 \in SUBSET S, T0 \notin Good PROVE FALSE
  OBVIOUS
<1> DEFINE Bad == {k \in Nat : \E T \in SUBSET S : Cardinality(T) = k /\ T \notin Good}
<1>1. \A T \in SUBSET S : IsFiniteSet(T) /\ Cardinality(T) \in Nat
  BY FS_Subset, FS_CardinalityType
<1>2. Bad # {} /\ Bad \in SUBSET Nat
  BY <1>1
<1>3. PICK k \in Bad : \A j \in Bad : k <= j
  <2> HIDE DEF Bad
  <2> QED
    BY <1>2, LeastElement
<1>4. PICK T \in SUBSET S : Cardinality(T) = k /\ T \notin Good
  BY <1>3
<1>5. ASSUME NEW x \in T PROVE T \ {x} \in Good
  <2>1. T \ {x} \in SUBSET S /\ Cardinality(T \ {x}) = k - 1 /\ k \in Nat
    BY <1>1, <1>4, FS_RemoveElement
  <2>2. k - 1 \in Nat
    BY <1>1, <2>1
  <2>3. T \ {x} \notin Good => k - 1 \in Bad
    BY <2>1, <2>2
  <2> HIDE DEF Bad
  <2>4. T \ {x} \notin Good => k <= k - 1
    BY <1>3, <2>3
  <2> QED
    BY <2>1, <2>4
<1> QED
  BY <1>4, <1>5

-----------------------------------------------------------------------------
(* The recursion by which a fold adds up.                                  *)
Adds(S, f, g) == g = [T \in SUBSET S |->
  IF T = {} THEN 0 ELSE f[CHOOSE x \in T : TRUE] + g[T \ {CHOOSE x \in T : TRUE}]]

(* The sum is the value of one of them, at all of the domain.              *)
LEMMA SumAdds ==
  ASSUME NEW f PROVE SumFunction(f) = LET g == CHOOSE g : Adds(DOMAIN f, f, g) IN g[DOMAIN f]
BY DEF Adds, SumFunction, SumFunctionOnSet, FoldFunctionOnSet, MapThenFoldSet

(* It has a solution: one for the sets of up to k elements, for each k.    *)
LEMMA AddsExists ==
  ASSUME NEW S, IsFiniteSet(S), NEW f PROVE \E g : Adds(S, f, g)
<1> DEFINE Small(k) == {T \in SUBSET S : Cardinality(T) <= k}
           x(T) == CHOOSE x \in T : TRUE
           Solves(k, g) == \A T \in Small(k) :
             g[T] = IF T = {} THEN 0 ELSE f[x(T)] + g[T \ {x(T)}]
           Bad == {k \in Nat : ~ \E g : Solves(k, g)}
<1>1. \A T \in SUBSET S : /\ IsFiniteSet(T) /\ Cardinality(T) \in Nat
                          /\ Cardinality(T) = 0 <=> T = {}
                          /\ T # {} => /\ x(T) \in T /\ T \ {x(T)} \in SUBSET S
                                       /\ Cardinality(T \ {x(T)}) = Cardinality(T) - 1
  <2> SUFFICES ASSUME NEW T \in SUBSET S
               PROVE  /\ IsFiniteSet(T) /\ Cardinality(T) \in Nat
                      /\ Cardinality(T) = 0 <=> T = {}
                      /\ T # {} => /\ x(T) \in T /\ T \ {x(T)} \in SUBSET S
                                   /\ Cardinality(T \ {x(T)}) = Cardinality(T) - 1
    OBVIOUS
  <2>1. IsFiniteSet(T)
    BY FS_Subset
  <2>2. T # {} => x(T) \in T
    OBVIOUS
  <2> HIDE DEF x
  <2> QED
    BY <2>1, <2>2, FS_CardinalityType, FS_EmptySet, FS_RemoveElement
<1> HIDE DEF x
<1>2. Bad = {}
  <2> SUFFICES ASSUME Bad # {} PROVE FALSE
    OBVIOUS
  <2>1. PICK k \in Bad : \A j \in Bad : k <= j
    <3>1. Bad \in SUBSET Nat
      OBVIOUS
    <3> HIDE DEF Bad
    <3> QED
      BY <3>1, LeastElement
  <2>2. k \in Nat
    OBVIOUS
  <2>3. CASE k = 0
    <3> DEFINE g == [T \in SUBSET S |-> 0]
    <3>1. ASSUME NEW T \in Small(0) PROVE g[T] = 0 /\ T = {}
      <4>1. T \in SUBSET S /\ Cardinality(T) <= 0
        OBVIOUS
      <4>2. Cardinality(T) \in Nat /\ (Cardinality(T) = 0 <=> T = {})
        BY <1>1, <4>1
      <4> QED
        BY <4>1, <4>2
    <3>2. Solves(0, g)
      <4> HIDE DEF g
      <4> QED
        BY <3>1
    <3> QED
      BY <2>3, <3>2
  <2>4. CASE k # 0
    <3>1. k - 1 \in Nat /\ k - 1 \notin Bad
      <4>1. k - 1 \in Nat /\ ~(k <= k - 1)
        BY <2>2, <2>4
      <4> HIDE DEF Bad
      <4> QED
        BY <2>1, <4>1
    <3>2. PICK g : Solves(k - 1, g)
      BY <3>1
    <3> DEFINE h == [T \in SUBSET S |-> IF Cardinality(T) <= k - 1 THEN g[T]
                                        ELSE f[x(T)] + g[T \ {x(T)}]]
    <3>3. ASSUME NEW T \in Small(k) PROVE h[T] = IF T = {} THEN 0 ELSE f[x(T)] + h[T \ {x(T)}]
      <4>1. T \in SUBSET S /\ Cardinality(T) <= k /\ Cardinality(T) \in Nat
        BY <1>1
      <4>2. T # {} => h[T \ {x(T)}] = g[T \ {x(T)}]
        <5> SUFFICES ASSUME T # {} PROVE h[T \ {x(T)}] = g[T \ {x(T)}]
          OBVIOUS
        <5>1. Cardinality(T \ {x(T)}) <= k - 1 /\ T \ {x(T)} \in SUBSET S
          BY <1>1, <2>2, <4>1
        <5> QED
          BY <5>1
      <4>3. CASE Cardinality(T) <= k - 1
        <5>1. g[T] = IF T = {} THEN 0 ELSE f[x(T)] + g[T \ {x(T)}]
          BY <3>2, <4>1, <4>3
        <5>2. h[T] = g[T]
          BY <4>1, <4>3
        <5> HIDE DEF h, Solves
        <5> QED
          BY <4>2, <5>1, <5>2
      <4>4. CASE ~(Cardinality(T) <= k - 1)
        <5>1. T # {}
          <6>1. Cardinality(T) = 0 <=> T = {}
            BY <1>1, <4>1
          <6> QED
            BY <3>1, <4>4, <6>1
        <5>2. h[T] = f[x(T)] + g[T \ {x(T)}]
          BY <4>1, <4>4
        <5> HIDE DEF h, Solves
        <5> QED
          BY <4>2, <5>1, <5>2
      <4> QED
        BY <4>3, <4>4
    <3>4. Solves(k, h)
      <4> HIDE DEF h, Small
      <4> QED
        BY <3>3
    <3> HIDE DEF h, Solves
    <3> QED
      BY <3>4
  <2> QED
    BY <2>3, <2>4
<1>3. PICK g : Solves(Cardinality(S), g)
  <2>1. Cardinality(S) \in Nat
    BY <1>1
  <2> HIDE DEF Solves
  <2> QED
    BY <1>2, <2>1
<1>4. \A T \in SUBSET S : T \in Small(Cardinality(S))
  BY FS_Subset
<1> DEFINE h == [T \in SUBSET S |-> g[T]]
<1>5. ASSUME NEW T \in SUBSET S PROVE h[T] = IF T = {} THEN 0 ELSE f[x(T)] + h[T \ {x(T)}]
  <2>1. g[T] = IF T = {} THEN 0 ELSE f[x(T)] + g[T \ {x(T)}]
    <3> HIDE DEF Small
    <3> QED
      BY <1>3, <1>4
  <2> QED
    BY <1>1, <2>1
<1>6. h = [T \in SUBSET S |-> IF T = {} THEN 0 ELSE f[x(T)] + h[T \ {x(T)}]]
  BY <1>5
<1> HIDE DEF h
<1> QED
  BY <1>6 DEF Adds, x

(* Every solution adds up, in any order.                                   *)
LEMMA AddsIs ==
  ASSUME NEW S, IsFiniteSet(S), NEW f \in [S -> Int], NEW g, Adds(S, f, g)
  PROVE  \A T \in SUBSET S : /\ g[T] \in Int
                             /\ T = {} => g[T] = 0
                             /\ \A x \in T : g[T] = f[x] + g[T \ {x}]
<1>1. /\ g[{}] = 0
      /\ \A T \in SUBSET S : T # {} => \E y \in T : g[T] = f[y] + g[T \ {y}]
  <2>1. \A T \in SUBSET S : g[T] = IF T = {} THEN 0
          ELSE f[CHOOSE x \in T : TRUE] + g[T \ {CHOOSE x \in T : TRUE}]
    BY DEF Adds
  <2>2. \A T \in SUBSET S : T # {} => (CHOOSE x \in T : TRUE) \in T
    OBVIOUS
  <2> QED
    BY <2>1, <2>2
<1>2. \A T \in SUBSET S : g[T] \in Int
  <2> DEFINE Good == {T \in SUBSET S : g[T] \in Int}
  <2>1. {} \in Good
    BY <1>1
  <2>2. ASSUME NEW T \in SUBSET S, T # {}, \A x \in T : T \ {x} \in Good PROVE T \in Good
    <3>1. PICK y \in T : g[T] = f[y] + g[T \ {y}]
      BY <1>1, <2>2
    <3>2. f[y] \in Int /\ g[T \ {y}] \in Int
      BY <2>2
    <3> QED
      BY <3>1, <3>2
  <2> HIDE DEF Good
  <2>3. \A T \in SUBSET S : T \in Good
    BY <2>1, <2>2, SmallestSubset
  <2> QED
    BY <2>3 DEF Good
<1> DEFINE Good == {T \in SUBSET S : \A x \in T : g[T] = f[x] + g[T \ {x}]}
<1>3. {} \in Good
  OBVIOUS
<1>4. ASSUME NEW T \in SUBSET S, T # {}, \A x \in T : T \ {x} \in Good PROVE T \in Good
  <2>1. PICK y \in T : g[T] = f[y] + g[T \ {y}]
    BY <1>1, <1>4
  <2>2. ASSUME NEW x \in T PROVE g[T] = f[x] + g[T \ {x}]
    <3>1. CASE x = y
      BY <2>1, <3>1
    <3>2. CASE x # y
      <4>1. (T \ {x}) \ {y} = (T \ {y}) \ {x}
        OBVIOUS
      <4>2. g[T \ {x}] = f[y] + g[(T \ {x}) \ {y}] /\ g[T \ {y}] = f[x] + g[(T \ {y}) \ {x}]
        BY <1>4, <3>2
      <4>3. f[x] \in Int /\ f[y] \in Int /\ g[(T \ {y}) \ {x}] \in Int
        BY <1>2
      <4> DEFINE a == g[(T \ {y}) \ {x}]
      <4>4. g[T \ {x}] = f[y] + a /\ g[T \ {y}] = f[x] + a /\ a \in Int
        BY <4>1, <4>2, <4>3
      <4> HIDE DEF a
      <4> QED
        BY <2>1, <4>3, <4>4
    <3> QED
      BY <3>1, <3>2
  <2> QED
    BY <2>2
<1> HIDE DEF Good
<1>5. \A T \in SUBSET S : T \in Good
  BY <1>3, <1>4, SmallestSubset
<1> QED
  BY <1>1, <1>2, <1>5 DEF Good

-----------------------------------------------------------------------------
(* A function on a part of its domain.                                     *)
Over(f, T) == [x \in T |-> f[x]]

(* So a sum is what some solution has for all of the domain.               *)
LEMMA SumOf ==
  ASSUME NEW S, IsFiniteSet(S), NEW f \in [S -> Int]
  PROVE  \E g : Adds(S, f, g) /\ SumFunction(f) = g[S]
<1> DEFINE g == CHOOSE g : Adds(S, f, g)
<1>1. DOMAIN f = S
  OBVIOUS
<1>2. SumFunction(f) = g[S]
  BY <1>1, SumAdds
<1>3. Adds(S, f, g)
  BY AddsExists
<1> QED
  BY <1>2, <1>3

(* What a sum is: nothing over the empty set, and one value more for each  *)
(* element more.                                                           *)
LEMMA SumLaws ==
  ASSUME NEW S, IsFiniteSet(S), NEW f \in [S -> Int]
  PROVE  /\ f = Over(f, S)
         /\ \A T \in SUBSET S :
              /\ IsFiniteSet(T) /\ Over(f, T) \in [T -> Int]
              /\ SumFunction(Over(f, T)) \in Int
              /\ T = {} => SumFunction(Over(f, T)) = 0
              /\ \A x \in T : SumFunction(Over(f, T)) = f[x] + SumFunction(Over(f, T \ {x}))
<1>1. PICK g : Adds(S, f, g) /\ SumFunction(f) = g[S]
  BY SumOf
<1>2. ASSUME NEW T \in SUBSET S
      PROVE  IsFiniteSet(T) /\ Over(f, T) \in [T -> Int] /\ SumFunction(Over(f, T)) = g[T]
  <2>1. IsFiniteSet(T) /\ Over(f, T) \in [T -> Int]
    BY FS_Subset DEF Over
  <2>2. PICK h : Adds(T, Over(f, T), h) /\ SumFunction(Over(f, T)) = h[T]
    BY <2>1, SumOf
  <2> DEFINE Good == {R \in SUBSET T : h[R] = g[R]}
  <2>3. \A R \in SUBSET T : /\ R = {} => h[R] = 0
                            /\ \A x \in R : h[R] = f[x] + h[R \ {x}]
    <3>1. \A R \in SUBSET T : /\ R = {} => h[R] = 0
                              /\ \A x \in R : h[R] = Over(f, T)[x] + h[R \ {x}]
      BY <2>1, <2>2, AddsIs
    <3>2. \A x \in T : Over(f, T)[x] = f[x]
      BY DEF Over
    <3> QED
      BY <3>1, <3>2
  <2>4. \A R \in SUBSET T : /\ R = {} => g[R] = 0
                            /\ \A x \in R : g[R] = f[x] + g[R \ {x}]
    <3>1. \A R \in SUBSET T : R \in SUBSET S
      OBVIOUS
    <3> QED
      BY <1>1, <3>1, AddsIs
  <2>5. {} \in Good
    BY <2>3, <2>4
  <2>6. ASSUME NEW R \in SUBSET T, R # {}, \A x \in R : R \ {x} \in Good PROVE R \in Good
    <3>1. PICK x \in R : TRUE
      BY <2>6
    <3>2. h[R \ {x}] = g[R \ {x}]
      BY <2>6
    <3> QED
      BY <2>3, <2>4, <3>2
  <2> HIDE DEF Good
  <2>7. \A R \in SUBSET T : R \in Good
    BY <2>1, <2>5, <2>6, SmallestSubset
  <2>8. T \in Good
    BY <2>7
  <2> QED
    BY <2>1, <2>2, <2>8 DEF Good
<1>3. \A T \in SUBSET S : /\ g[T] \in Int
                          /\ T = {} => g[T] = 0
                          /\ \A x \in T : T \ {x} \in SUBSET S /\ g[T] = f[x] + g[T \ {x}]
  <2>1. \A T \in SUBSET S : /\ g[T] \in Int
                            /\ T = {} => g[T] = 0
                            /\ \A x \in T : g[T] = f[x] + g[T \ {x}]
    BY <1>1, AddsIs
  <2>2. \A T \in SUBSET S : \A x \in T : T \ {x} \in SUBSET S
    OBVIOUS
  <2> QED
    BY <2>1, <2>2, Zenon
<1>4. f = Over(f, S)
  BY DEF Over
<1> QED
  BY <1>2, <1>3, <1>4

(* A sum of integers is one.                                               *)
LEMMA SumInt ==
  ASSUME NEW S, IsFiniteSet(S), NEW f, f \in [S -> Int] PROVE SumFunction(f) \in Int
<1>1. S \in SUBSET S
  OBVIOUS
<1> QED
  BY <1>1, SumLaws

(* The sum of sums.                                                        *)
LEMMA SumPlus ==
  ASSUME NEW S, IsFiniteSet(S), NEW f, f \in [S -> Int], NEW g, g \in [S -> Int],
         NEW h, h \in [S -> Int], \A x \in S : h[x] = f[x] + g[x]
  PROVE  SumFunction(h) = SumFunction(f) + SumFunction(g)
<1> DEFINE Good == {T \in SUBSET S : SumFunction(Over(h, T)) = SumFunction(Over(f, T)) + SumFunction(Over(g, T))}
<1>1. \A x \in S : f[x] \in Int /\ g[x] \in Int
  OBVIOUS
<1>2. {} \in Good
  <2>1. {} \in SUBSET S
    OBVIOUS
  <2>2. /\ SumFunction(Over(h, {})) = 0 /\ SumFunction(Over(f, {})) = 0
        /\ SumFunction(Over(g, {})) = 0
    BY <1>1, <2>1, SumLaws
  <2> QED
    BY <2>2
<1>3. ASSUME NEW T \in SUBSET S, T # {}, \A x \in T : T \ {x} \in Good PROVE T \in Good
  <2>1. PICK x \in T : TRUE
    BY <1>3
  <2> DEFINE R == T \ {x}
  <2>2. R \in SUBSET S /\ R \in Good /\ x \in S
    BY <1>3
  <2>3. /\ SumFunction(Over(h, T)) = h[x] + SumFunction(Over(h, R))
        /\ SumFunction(Over(f, T)) = f[x] + SumFunction(Over(f, R))
        /\ SumFunction(Over(g, T)) = g[x] + SumFunction(Over(g, R))
    BY <1>1, SumLaws
  <2>4. SumFunction(Over(f, R)) \in Int /\ SumFunction(Over(g, R)) \in Int
    BY <2>2, SumLaws
  <2> HIDE DEF R
  <2> QED
    BY <1>1, <2>2, <2>3, <2>4
<1> HIDE DEF Good
<1>4. S \in Good
  BY <1>2, <1>3, SmallestSubset
<1> QED
  BY <1>1, <1>4, SumLaws DEF Good

(* A common factor.                                                        *)
LEMMA SumTimes ==
  ASSUME NEW S, IsFiniteSet(S), NEW f, f \in [S -> Int], NEW k \in Int,
         NEW h, h \in [S -> Int], \A x \in S : h[x] = k * f[x]
  PROVE  SumFunction(h) = k * SumFunction(f)
<1> DEFINE Good == {T \in SUBSET S : SumFunction(Over(h, T)) = k * SumFunction(Over(f, T))}
<1>1. \A x \in S : f[x] \in Int
  OBVIOUS
<1>2. {} \in Good
  <2>1. {} \in SUBSET S
    OBVIOUS
  <2>2. SumFunction(Over(h, {})) = 0 /\ SumFunction(Over(f, {})) = 0
    BY <1>1, <2>1, SumLaws
  <2> QED
    BY <2>2
<1>3. ASSUME NEW T \in SUBSET S, T # {}, \A x \in T : T \ {x} \in Good PROVE T \in Good
  <2>1. PICK x \in T : TRUE
    BY <1>3
  <2> DEFINE R == T \ {x}
  <2>2. R \in SUBSET S /\ R \in Good /\ x \in S
    BY <1>3
  <2>3. /\ SumFunction(Over(h, T)) = h[x] + SumFunction(Over(h, R))
        /\ SumFunction(Over(f, T)) = f[x] + SumFunction(Over(f, R))
    BY <1>1, SumLaws
  <2>4. SumFunction(Over(f, R)) \in Int
    BY <2>2, SumLaws
  <2>5. \A a, b \in Int : k * (a + b) = k * a + k * b
    OBVIOUS
  <2> HIDE DEF R
  <2> QED
    BY <1>1, <2>2, <2>3, <2>4, <2>5
<1> HIDE DEF Good
<1>4. S \in Good
  BY <1>2, <1>3, SmallestSubset
<1> QED
  BY <1>1, <1>4, SumLaws DEF Good

(* A sum over two sets that are apart.                                     *)
LEMMA SumUnion ==
  ASSUME NEW S, IsFiniteSet(S), NEW f, f \in [S -> Int], NEW A \in SUBSET S, NEW B \in SUBSET S,
         A \cap B = {}
  PROVE  SumFunction(Over(f, A \cup B)) = SumFunction(Over(f, A)) + SumFunction(Over(f, B))
<1> DEFINE Good == {T \in SUBSET B : SumFunction(Over(f, A \cup T)) =
                                       SumFunction(Over(f, A)) + SumFunction(Over(f, T))}
<1>1. {} \in Good
  <2>1. SumFunction(Over(f, {})) = 0 /\ SumFunction(Over(f, A)) \in Int
    BY SumLaws
  <2>2. A \cup {} = A
    OBVIOUS
  <2> QED
    BY <2>1, <2>2
<1>2. ASSUME NEW T \in SUBSET B, T # {}, \A x \in T : T \ {x} \in Good PROVE T \in Good
  <2>1. PICK x \in T : TRUE
    BY <1>2
  <2> DEFINE R == T \ {x}
  <2>2. R \in SUBSET S /\ R \in Good /\ x \in S /\ T \in SUBSET S /\ f[x] \in Int
    BY <1>2
  <2>3. A \cup T \in SUBSET S /\ x \in A \cup T /\ (A \cup T) \ {x} = A \cup R
    OBVIOUS
  <2>4. /\ SumFunction(Over(f, A \cup T)) = f[x] + SumFunction(Over(f, A \cup R))
        /\ SumFunction(Over(f, T)) = f[x] + SumFunction(Over(f, R))
    <3>1. SumFunction(Over(f, A \cup T)) = f[x] + SumFunction(Over(f, (A \cup T) \ {x}))
      BY <2>3, SumLaws
    <3>2. SumFunction(Over(f, T)) = f[x] + SumFunction(Over(f, T \ {x}))
      BY <2>2, SumLaws
    <3> QED
      BY <2>3, <3>1, <3>2
  <2>5. SumFunction(Over(f, R)) \in Int /\ SumFunction(Over(f, A)) \in Int
    BY <2>2, SumLaws
  <2> HIDE DEF R
  <2> QED
    BY <2>2, <2>4, <2>5
<1> HIDE DEF Good
<1>3. IsFiniteSet(B)
  BY FS_Subset
<1>4. B \in Good
  BY <1>1, <1>2, <1>3, SmallestSubset
<1> QED
  BY <1>4 DEF Good

(* A sum is over values, whatever they are called.                         *)
Renames(S, f, T, g, b) ==
  /\ IsFiniteSet(S) /\ IsFiniteSet(T) /\ f \in [S -> Int] /\ g \in [T -> Int]
  /\ b \in [S -> T] /\ \A x, y \in S : b[x] = b[y] => x = y
  /\ \A t \in T : \E x \in S : b[x] = t
  /\ \A x \in S : f[x] = g[b[x]]

(* Terms may be renamed.                                                   *)
LEMMA SumRename ==
  ASSUME NEW S, NEW f, NEW T, NEW g, NEW b, Renames(S, f, T, g, b)
  PROVE  SumFunction(f) = SumFunction(g)
<1> DEFINE Image(R) == {b[x] : x \in R}
           Good == {R \in SUBSET S : SumFunction(Over(f, R)) = SumFunction(Over(g, Image(R)))}
<1> USE DEF Renames
<1>1. \A R \in SUBSET S : Image(R) \in SUBSET T
  OBVIOUS
<1>2. {} \in Good
  <2>1. {} \in SUBSET S /\ {} \in SUBSET T /\ Image({}) = {}
    OBVIOUS
  <2>2. SumFunction(Over(f, {})) = 0 /\ SumFunction(Over(g, {})) = 0
    BY <2>1, SumLaws
  <2> QED
    BY <2>1, <2>2
<1>3. ASSUME NEW R \in SUBSET S, R # {}, \A x \in R : R \ {x} \in Good PROVE R \in Good
  <2>1. PICK x \in R : TRUE
    BY <1>3
  <2>2. R \ {x} \in Good /\ x \in S
    BY <1>3
  <2>3. Image(R \ {x}) = Image(R) \ {b[x]} /\ b[x] \in Image(R)
    OBVIOUS
  <2>4. SumFunction(Over(f, R)) = f[x] + SumFunction(Over(f, R \ {x}))
    BY SumLaws
  <2>5. SumFunction(Over(g, Image(R))) = g[b[x]] + SumFunction(Over(g, Image(R) \ {b[x]}))
    <3> HIDE DEF Image
    <3> QED
      BY <1>1, <2>3, SumLaws
  <2>6. SumFunction(Over(f, R \ {x})) = SumFunction(Over(g, Image(R \ {x})))
    BY <2>2
  <2>7. f[x] = g[b[x]]
    BY <2>2
  <2> HIDE DEF Image
  <2> QED
    BY <2>3, <2>4, <2>5, <2>6, <2>7
<1>4. S \in Good
  <2> HIDE DEF Good
  <2>1. S \in SUBSET S
    OBVIOUS
  <2> QED
    BY ONLY <1>2, <1>3, <2>1, SmallestSubset, IsFiniteSet(S)
<1>5. Image(S) = T
  OBVIOUS
<1>6. SumFunction(Over(f, S)) = SumFunction(Over(g, T))
  <2>1. SumFunction(Over(f, S)) = SumFunction(Over(g, Image(S)))
    BY <1>4
  <2> HIDE DEF Image
  <2> QED
    BY <1>5, <2>1
<1> QED
  BY <1>6, SumLaws

(* A sum of sums is a sum over pairs.                                      *)
RowSums(S, T, row, f, r) ==
  /\ IsFiniteSet(S) /\ IsFiniteSet(T) /\ row \in [S -> [T -> Int]]
  /\ f \in [S \X T -> Int] /\ \A x \in S : \A y \in T : f[<<x, y>>] = row[x][y]
  /\ r \in [S -> Int] /\ \A x \in S : r[x] = SumFunction(row[x])

(* A sum over pairs is the sum of the sums of its rows.                    *)
LEMMA SumPairs ==
  ASSUME NEW S, NEW T, NEW row, NEW f, NEW r, RowSums(S, T, row, f, r)
  PROVE  SumFunction(r) = SumFunction(f)
<1> DEFINE Good == {R \in SUBSET S : SumFunction(Over(r, R)) = SumFunction(Over(f, R \X T))}
<1>1. IsFiniteSet(S \X T) /\ f \in [S \X T -> Int]
  BY FS_Product DEF RowSums
<1>2. IsFiniteSet(S) /\ r \in [S -> Int]
  BY DEF RowSums
<1>3. \A P \in SUBSET (S \X T) : IsFiniteSet(P) /\ Over(f, P) \in [P -> Int] /\ SumFunction(Over(f, P)) \in Int
  BY <1>1, SumLaws
<1>4. {} \in Good
  <2>1. {} \in SUBSET S /\ {} \in SUBSET (S \X T) /\ {} \X T = {}
    OBVIOUS
  <2>2. SumFunction(Over(r, {})) = 0
    BY <1>2, <2>1, SumLaws
  <2>3. SumFunction(Over(f, {})) = 0
    BY <1>1, <2>1, SumLaws
  <2> QED
    BY <2>1, <2>2, <2>3
<1>5. ASSUME NEW R \in SUBSET S, R # {}, \A x \in R : R \ {x} \in Good PROVE R \in Good
  <2>1. PICK x \in R : TRUE
    BY <1>5
  <2> DEFINE A == (R \ {x}) \X T
             B == {x} \X T
  <2>2. R \ {x} \in Good /\ x \in S
    BY <1>5
  <2>3. A \cup B = R \X T /\ A \cap B = {} /\ A \in SUBSET (S \X T) /\ B \in SUBSET (S \X T)
    OBVIOUS
  <2>4. SumFunction(Over(r, R)) = r[x] + SumFunction(Over(r, R \ {x}))
    BY <1>2, SumLaws
  <2>5. SumFunction(row[x]) = SumFunction(Over(f, B))
    <3> DEFINE b == [y \in T |-> <<x, y>>]
    <3>1. /\ b \in [T -> B] /\ \A y, z \in T : b[y] = b[z] => y = z
          /\ \A t \in B : \E y \in T : b[y] = t
          /\ \A y \in T : row[x][y] = Over(f, B)[b[y]]
      BY <2>2 DEF Over, RowSums
    <3>2. IsFiniteSet(B) /\ Over(f, B) \in [B -> Int] /\ row[x] \in [T -> Int] /\ IsFiniteSet(T)
      <4>1. row[x] \in [T -> Int] /\ IsFiniteSet(T)
        BY <2>2 DEF RowSums
      <4> HIDE DEF B
      <4> QED
        BY <1>3, <2>3, <4>1
    <3> HIDE DEF b, B
    <3>3. Renames(T, row[x], B, Over(f, B), b)
      BY ONLY <3>1, <3>2 DEF Renames
    <3> QED
      BY <3>3, SumRename
  <2> HIDE DEF A, B
  <2>6. SumFunction(Over(f, A \cup B)) = SumFunction(Over(f, A)) + SumFunction(Over(f, B))
    BY <1>1, <2>3, SumUnion
  <2>7. SumFunction(Over(r, R \ {x})) = SumFunction(Over(f, A))
    BY <2>2 DEF A
  <2>8. SumFunction(Over(f, B)) \in Int /\ SumFunction(Over(f, A)) \in Int
    BY <1>3, <2>3
  <2>9. r[x] = SumFunction(Over(f, B))
    BY <2>2, <2>5 DEF RowSums
  <2>10. SumFunction(Over(r, R)) = SumFunction(Over(f, B)) + SumFunction(Over(f, A))
    BY ONLY <2>4, <2>7, <2>9
  <2>11. SumFunction(Over(f, R \X T)) = SumFunction(Over(f, A)) + SumFunction(Over(f, B))
    BY ONLY <2>3, <2>6
  <2> QED
    BY <2>8, <2>10, <2>11
<1> HIDE DEF Good
<1>6. S \in Good
  BY <1>2, <1>4, <1>5, SmallestSubset
<1>7. r = Over(r, S) /\ f = Over(f, S \X T)
  BY <1>1, <1>2, SumLaws
<1>8. SumFunction(Over(r, S)) = SumFunction(Over(f, S \X T))
  BY <1>6 DEF Good
<1> QED
  BY <1>7, <1>8

(* The order of two sums.                                                  *)
ColumnSums(S, T, row, r, col, q) ==
  /\ IsFiniteSet(S) /\ IsFiniteSet(T)
  /\ row \in [S -> [T -> Int]] /\ r \in [S -> Int] /\ \A x \in S : r[x] = SumFunction(row[x])
  /\ col \in [T -> [S -> Int]] /\ q \in [T -> Int] /\ \A y \in T : q[y] = SumFunction(col[y])
  /\ \A x \in S : \A y \in T : row[x][y] = col[y][x]

(* Rows or columns may be summed first.                                    *)
LEMMA SumSwap ==
  ASSUME NEW S, NEW T, NEW row, NEW r, NEW col, NEW q, ColumnSums(S, T, row, r, col, q)
  PROVE  SumFunction(r) = SumFunction(q)
<1> USE DEF ColumnSums
<1> DEFINE f == [z \in S \X T |-> row[z[1]][z[2]]]
           g == [z \in T \X S |-> col[z[1]][z[2]]]
           b == [z \in S \X T |-> <<z[2], z[1]>>]
<1>1. RowSums(S, T, row, f, r)
  BY DEF RowSums
<1>2. RowSums(T, S, col, g, q)
  BY DEF RowSums
<1>3. Renames(S \X T, f, T \X S, g, b)
  <2>1. \A t \in T \X S : <<t[2], t[1]>> \in S \X T /\ b[<<t[2], t[1]>>] = t
    OBVIOUS
  <2>2. \A z \in S \X T : b[z] \in T \X S /\ g[b[z]] = f[z]
    OBVIOUS
  <2>3. \A z, w \in S \X T : b[z] = b[w] => z = w
    OBVIOUS
  <2>4. b \in [S \X T -> T \X S] /\ f \in [S \X T -> Int] /\ g \in [T \X S -> Int]
    OBVIOUS
  <2>5. IsFiniteSet(S \X T) /\ IsFiniteSet(T \X S)
    BY FS_Product
  <2> HIDE DEF b, f, g
  <2> QED
    BY ONLY <2>1, <2>2, <2>3, <2>4, <2>5 DEF Renames
<1> HIDE DEF f, g, b, ColumnSums
<1> QED
  BY <1>1, <1>2, <1>3, SumPairs, SumRename

(* What differs in nothing from what is the same on either side.           *)
LEMMA SumSame ==
  ASSUME NEW S, NEW f, f \in [S -> Int], NEW g, g \in [S -> Int], \A x \in S : f[x] = g[x]
  PROVE  f = g
OBVIOUS

(* As many times one value.                                                *)
LEMMA SumConstant ==
  ASSUME NEW S, IsFiniteSet(S), NEW k \in Int, NEW f, f \in [S -> Int], \A x \in S : f[x] = k
  PROVE  SumFunction(f) = Cardinality(S) * k
<1> DEFINE Good == {T \in SUBSET S : SumFunction(Over(f, T)) = Cardinality(T) * k}
<1>1. {} \in Good
  <2>1. {} \in SUBSET S /\ Cardinality({}) = 0
    BY FS_EmptySet
  <2>2. SumFunction(Over(f, {})) = 0
    BY <2>1, SumLaws
  <2> QED
    BY <2>1, <2>2
<1>2. ASSUME NEW T \in SUBSET S, T # {}, \A x \in T : T \ {x} \in Good PROVE T \in Good
  <2>1. PICK x \in T : TRUE
    BY <1>2
  <2>2. IsFiniteSet(T)
    BY SumLaws
  <2>3. PICK m : m = Cardinality(T \ {x})
    OBVIOUS
  <2>4. Cardinality(T) \in Nat /\ m = Cardinality(T) - 1
    BY <2>2, <2>3, FS_RemoveElement, FS_CardinalityType
  <2>5. SumFunction(Over(f, T \ {x})) = m * k
    BY <1>2, <2>3
  <2>6. SumFunction(Over(f, T)) = f[x] + SumFunction(Over(f, T \ {x})) /\ f[x] = k
    BY SumLaws
  <2>7. SumFunction(Over(f, T)) = k + m * k
    BY <2>5, <2>6
  <2>8. SumFunction(Over(f, T)) = Cardinality(T) * k
    BY ONLY <2>4, <2>7, k \in Int
  <2> QED
    BY <2>8
<1> HIDE DEF Good
<1>3. S \in Good
  BY <1>1, <1>2, SmallestSubset
<1> QED
  BY <1>3, SumLaws DEF Good

(* Values that a renaming takes to their opposites cancel.                 *)
LEMMA SumCancels ==
  ASSUME NEW S, IsFiniteSet(S), NEW f, f \in [S -> Int], NEW b, b \in [S -> S],
         \A x \in S : b[b[x]] = x /\ f[b[x]] = 0 - f[x]
  PROVE  SumFunction(f) = 0
<1> DEFINE g == [x \in S |-> (0 - 1) * f[x]]
<1>1. g \in [S -> Int] /\ \A x \in S : g[x] = (0 - 1) * f[x] /\ f[x] = g[b[x]]
  <2>1. \A x \in S : f[x] \in Int /\ f[b[x]] \in Int /\ b[x] \in S
    OBVIOUS
  <2> QED
    BY <2>1
<1> HIDE DEF g
<1>2. (\A x, y \in S : b[x] = b[y] => x = y) /\ \A t \in S : \E x \in S : b[x] = t
  <2>1. \A t \in S : b[t] \in S /\ b[b[t]] = t
    OBVIOUS
  <2> QED
    BY <2>1
<1>3. SumFunction(f) = SumFunction(g)
  <2>1. Renames(S, f, S, g, b)
    BY <1>1, <1>2 DEF Renames
  <2> QED
    BY <2>1, SumRename
<1>4. 0 - 1 \in Int
  OBVIOUS
<1>5. SumFunction(g) = (0 - 1) * SumFunction(f) /\ SumFunction(f) \in Int
  BY <1>1, <1>4, SumTimes, SumInt
<1> QED
  BY <1>3, <1>5

(* A sum over three parts of a set, where the rest adds nothing.           *)
IsParts(S, h, A, B, C) ==
  /\ IsFiniteSet(S) /\ h \in [S -> Int] /\ A \in SUBSET S /\ B \in SUBSET S /\ C \in SUBSET S
  /\ A \cap B = {} /\ A \cap C = {} /\ B \cap C = {}
  /\ \A x \in S : x \notin A /\ x \notin B /\ x \notin C => h[x] = 0

(* The sums over parts outside of which there are zeros add up.            *)
LEMMA SumParts ==
  ASSUME NEW S, NEW h, NEW A, NEW B, NEW C, IsParts(S, h, A, B, C)
  PROVE  SumFunction(h) =
           SumFunction(Over(h, A)) + SumFunction(Over(h, B)) + SumFunction(Over(h, C))
<1> USE DEF IsParts
<1> DEFINE D == S \ (A \cup B \cup C)
           X == A \cup B
           Y == X \cup C
<1>1. IsFiniteSet(S) /\ h \in [S -> Int]
  OBVIOUS
<1>2. /\ A \in SUBSET S /\ B \in SUBSET S /\ A \cap B = {}
      /\ X \in SUBSET S /\ C \in SUBSET S /\ X \cap C = {}
      /\ Y \in SUBSET S /\ D \in SUBSET S /\ Y \cap D = {} /\ Y \cup D = S
  OBVIOUS
<1>3. \A x \in D : Over(h, D)[x] = 0
  BY DEF Over
<1> HIDE DEF IsParts, D, Y
<1>4. SumFunction(Over(h, X)) = SumFunction(Over(h, A)) + SumFunction(Over(h, B))
  BY <1>1, <1>2, SumUnion
<1> HIDE DEF X
<1>5. SumFunction(Over(h, Y)) = SumFunction(Over(h, X)) + SumFunction(Over(h, C))
  BY <1>1, <1>2, SumUnion DEF Y
<1>6. SumFunction(Over(h, S)) = SumFunction(Over(h, Y)) + SumFunction(Over(h, D))
  <2>1. SumFunction(Over(h, Y \cup D)) = SumFunction(Over(h, Y)) + SumFunction(Over(h, D))
    BY <1>1, <1>2, SumUnion
  <2> QED
    BY <1>2, <2>1
<1>7. SumFunction(Over(h, D)) = 0
  <2>1. IsFiniteSet(D) /\ Over(h, D) \in [D -> Int]
    BY <1>1, <1>2, SumLaws
  <2>2. SumFunction(Over(h, D)) = Cardinality(D) * 0 /\ Cardinality(D) \in Nat
    BY <1>3, <2>1, SumConstant, FS_CardinalityType
  <2> QED
    BY <2>2
<1>8. /\ SumFunction(Over(h, A)) \in Int /\ SumFunction(Over(h, B)) \in Int
      /\ SumFunction(Over(h, C)) \in Int
  BY <1>1, <1>2, SumLaws
<1>9. h = Over(h, S)
  BY <1>1, SumLaws
<1> QED
  BY <1>4, <1>5, <1>6, <1>7, <1>8, <1>9

(* The number of coordinates on a level doubles from one to the next:      *)
(* counted by the subsets of an interval, as the provers do not compute    *)
(* powers.                                                                 *)
LEMMA Doubling == 2^0 = 1 /\ \A l \in Nat : 2^(l + 1) = 2^l + 2^l
<1>1. 2^0 = 1
  <2>1. SUBSET {} = {{}}
    OBVIOUS
  <2>2. Cardinality(SUBSET {}) = 2^Cardinality({})
    BY FS_EmptySet, FS_SUBSET
  <2> QED
    BY <2>1, <2>2, FS_EmptySet, FS_Singleton
<1>2. ASSUME NEW l \in Nat PROVE 2^(l + 1) = 2^l + 2^l
  <2> DEFINE S == 1..l
             T == 1..(l + 1)
             Old == SUBSET S
             New == {P \cup {l + 1} : P \in Old}
             f == [P \in Old |-> P \cup {l + 1}]
  <2>1. /\ IsFiniteSet(S) /\ Cardinality(S) = l
        /\ IsFiniteSet(T) /\ Cardinality(T) = l + 1
    BY FS_Interval
  <2>2. /\ IsFiniteSet(Old) /\ Cardinality(Old) = 2^l
        /\ Cardinality(SUBSET T) = 2^(l + 1)
    BY <2>1, FS_SUBSET
  <2>3. SUBSET T = Old \cup New
    <3>1. T = S \cup {l + 1}
      OBVIOUS
    <3>2. ASSUME NEW Q \in SUBSET T, Q \notin Old PROVE Q \in New
      <4>1. l + 1 \in Q /\ Q \ {l + 1} \in Old /\ Q = (Q \ {l + 1}) \cup {l + 1}
        BY <3>1, <3>2
      <4> QED
        BY <4>1
    <3>3. Old \subseteq SUBSET T /\ New \subseteq SUBSET T
      BY <3>1
    <3> QED
      <4> HIDE DEF S, T, New
      <4> QED
        BY <3>2, <3>3
  <2>4. \A P \in Old : l + 1 \notin P
    OBVIOUS
  <2>5. Old \cap New = {}
    BY <2>4
  <2>6. IsFiniteSet(New) /\ Cardinality(New) = Cardinality(Old)
    <3>1. f \in Bijection(Old, New)
      <4>1. f \in [Old -> New] /\ \A Q \in New : \E P \in Old : f[P] = Q
        OBVIOUS
      <4>2. ASSUME NEW P \in Old, NEW Q \in Old, f[P] = f[Q] PROVE P = Q
        <5>1. P \cup {l + 1} = Q \cup {l + 1}
          BY <4>2
        <5> QED
          BY <2>4, <5>1
      <4> QED
        BY <4>1, <4>2 DEF Bijection, Injection, Surjection, IsInjective
    <3> QED
      BY <2>2, <3>1, FS_Bijection DEF ExistsBijection
  <2> HIDE DEF S, T, Old, New
  <2>7. /\ Cardinality(Old \cup New)
             = Cardinality(Old) + Cardinality(New) - Cardinality({})
        /\ Cardinality(Old) \in Nat
    BY <2>2, <2>5, <2>6, FS_Union, FS_CardinalityType
  <2>8. Cardinality(SUBSET T) = Cardinality(Old) + Cardinality(Old)
    <3>1. Cardinality(SUBSET T) = Cardinality(Old \cup New)
      BY <2>3, Zenon
    <3>2. Cardinality({}) = 0
      BY FS_EmptySet
    <3>3. Cardinality(SUBSET T) = Cardinality(Old) + Cardinality(New) - 0
      BY <2>7, <3>1, <3>2, Zenon
    <3> QED
      BY <2>6, <2>7, <3>3
  <2> QED
    BY <2>2, <2>8
<1> QED
  BY <1>1, <1>2

(* A level has coordinates.                                                *)
LEMMA Powers == \A k \in Nat : 2^k \in Nat \ {0}
<1> DEFINE T == {k \in Nat : ~(2^k \in Nat \ {0})}
<1>1. ASSUME T # {} PROVE FALSE
  <2>1. PICK k \in T : \A j \in T : k <= j
    BY <1>1, LeastElement
  <2>2. k # 0
    <3>1. 2^0 \in Nat \ {0}
      BY Doubling
    <3>2. ~(2^k \in Nat \ {0})
      BY <2>1
    <3> QED
      BY ONLY <3>1, <3>2
  <2>3. k - 1 \in Nat /\ k - 1 \notin T
    BY <2>1, <2>2
  <2>4. 2^k = 2^(k - 1) + 2^(k - 1)
    <3>1. k = (k - 1) + 1
      BY <2>3
    <3> QED
      BY <2>3, <3>1, Doubling
  <2> QED
    BY <2>1, <2>3, <2>4
<1> QED
  BY <1>1

(* Powers of sums.                                                         *)
LEMMA PowerSum == \A a, b \in Nat : 2^(a + b) = 2^a * 2^b
<1> SUFFICES ASSUME NEW a \in Nat PROVE \A b \in Nat : 2^(a + b) = 2^a * 2^b
  OBVIOUS
<1> DEFINE T == {b \in Nat : 2^(a + b) # 2^a * 2^b}
<1>1. ASSUME T # {} PROVE FALSE
  <2>1. PICK b \in T : \A j \in T : b <= j
    <3>1. T \in SUBSET Nat
      OBVIOUS
    <3> HIDE DEF T
    <3> QED
      BY <1>1, <3>1, LeastElement
  <2>2. b # 0
    <3>1. 2^(a + 0) = 2^a * 2^0
      <4>1. a + 0 = a /\ 2^0 = 1 /\ 2^a \in Nat
        BY Doubling, Powers
      <4> QED
        BY <4>1
    <3>2. 2^(a + b) # 2^a * 2^b
      BY <2>1
    <3> QED
      BY ONLY <3>1, <3>2
  <2>3. b - 1 \in Nat /\ b - 1 \notin T
    BY <2>1, <2>2
  <2>4. 2^(a + (b - 1)) = 2^a * 2^(b - 1)
    BY <2>3
  <2>5. 2^b = 2^(b - 1) + 2^(b - 1) /\ 2^(a + b) = 2^(a + (b - 1)) + 2^(a + (b - 1))
    <3>1. b = (b - 1) + 1 /\ a + b = (a + (b - 1)) + 1 /\ b - 1 \in Nat /\ a + (b - 1) \in Nat
      BY <2>3
    <3>2. 2^((b - 1) + 1) = 2^(b - 1) + 2^(b - 1)
      BY <3>1, Doubling
    <3>3. 2^((a + (b - 1)) + 1) = 2^(a + (b - 1)) + 2^(a + (b - 1))
      BY <3>1, Doubling
    <3> QED
      BY <3>1, <3>2, <3>3
  <2>6. 2^a \in Nat /\ 2^(b - 1) \in Nat
    BY <2>3, Powers
  <2>7. PICK p \in Nat, q \in Nat : p = 2^a /\ q = 2^(b - 1)
    BY <2>6
  <2>8. 2^b = q + q /\ 2^(a + b) = p * q + p * q
    BY <2>4, <2>5, <2>7
  <2>9. p * (q + q) = p * q + p * q
    OBVIOUS
  <2>10. 2^(a + b) = 2^a * 2^b
    BY <2>7, <2>8, <2>9
  <2> QED
    BY <2>1, <2>10
<1> QED
  BY <1>1

(* The powers that are volumes and areas.                                  *)
LEMMA ThreePowers == \A k \in Nat : 3^k \in Int
OBVIOUS

-----------------------------------------------------------------------------
(* Sums and multiples of vectors of integers.                              *)
LEMMA Vectors ==
  ASSUME NEW v, v \in Vector(Int), NEW w, w \in Vector(Int)
  PROVE  /\ Plus(v, w) \in Vector(Int)
         /\ \A k \in Int : Times(k, v) \in Vector(Int)
         /\ \A d \in Dim : /\ v[d] \in Int /\ w[d] \in Int
                           /\ Plus(v, w)[d] = v[d] + w[d]
                           /\ \A k \in Int : Times(k, v)[d] = k * v[d]
         /\ (\A d \in Dim : v[d] = w[d]) => v = w
<1>1. /\ Plus(v, w) \in Vector(Int)
      /\ \A k \in Int : Times(k, v) \in Vector(Int)
      /\ \A d \in Dim : /\ v[d] \in Int /\ w[d] \in Int
                        /\ Plus(v, w)[d] = v[d] + w[d]
                        /\ \A k \in Int : Times(k, v)[d] = k * v[d]
  BY DEF Vector, Plus, Times
<1>2. ASSUME \A d \in Dim : v[d] = w[d] PROVE v = w
  <2>1. v = [d \in Dim |-> v[d]] /\ w = [d \in Dim |-> w[d]]
    BY DEF Vector
  <2> QED
    BY <1>2, <2>1
<1> QED
  BY <1>1, <1>2

(* Vectors that agree in each coordinate.                                  *)
LEMMA SameVector ==
  ASSUME NEW v, v \in Vector(Int), NEW w, w \in Vector(Int), \A d \in Dim : v[d] = w[d]
  PROVE  v = w
<1>1. v = [d \in Dim |-> v[d]] /\ w = [d \in Dim |-> w[d]]
  BY DEF Vector
<1> QED
  BY <1>1

(* Vectors of the members of a finite set are finitely many.               *)
LEMMA FiniteVectors ==
  ASSUME NEW S, IsFiniteSet(S)
  PROVE  IsFiniteSet(Vector(S))
<1> DEFINE Graph(v) == {<<d, v[d]>> : d \in Dim}
           f == [v \in Vector(S) |-> Graph(v)]
           T == SUBSET (Dim \X S)
<1>1. NDIM \in Nat
  BY GridAssumption
<1>2. IsFiniteSet(Dim)
  BY <1>1, FS_Interval DEF Dim
<1>3. IsFiniteSet(T)
  <2>1. IsFiniteSet(Dim \X S)
    BY <1>2, FS_Product
  <2> QED
    BY <2>1, FS_SUBSET
<1>4. \A v \in Vector(S) : Graph(v) \in T
  BY DEF Vector
<1>5. \A v, w \in Vector(S) : Graph(v) = Graph(w) => v = w
  <2> SUFFICES ASSUME NEW v \in Vector(S), NEW w \in Vector(S), Graph(v) = Graph(w)
               PROVE  v = w
    OBVIOUS
  <2>1. \A d \in Dim : v[d] = w[d]
    <3> SUFFICES ASSUME NEW d \in Dim PROVE v[d] = w[d]
      OBVIOUS
    <3>1. <<d, v[d]>> \in Graph(w)
      OBVIOUS
    <3> QED
      BY <3>1
  <2>2. v = [d \in Dim |-> v[d]] /\ w = [d \in Dim |-> w[d]]
    BY DEF Vector
  <2> QED
    BY <2>1, <2>2
<1> HIDE DEF Graph, T
<1>6. f \in [Vector(S) -> T] /\ \A v, w \in Vector(S) : f[v] = f[w] => v = w
  BY <1>4, <1>5
<1>7. f \in Injection(Vector(S), T)
  BY <1>6 DEF Injection, IsInjective
<1> QED
  BY <1>3, <1>7, FS_Injection

(* A node has as many octants as its dimensions have subsets.              *)
LEMMA Octants == IsFiniteSet(Octant) /\ Cardinality(Octant) = 2^NDIM
<1> DEFINE f == [o \in Octant |-> {d \in Dim : o[d] = 1}]
           T == SUBSET Dim
<1>1. NDIM \in Nat
  BY GridAssumption
<1>2. IsFiniteSet(Dim) /\ Cardinality(Dim) = NDIM
  BY <1>1, FS_Interval DEF Dim
<1>3. IsFiniteSet(T) /\ Cardinality(T) = 2^NDIM
  BY <1>2, FS_SUBSET
<1>4. f \in [Octant -> T]
  OBVIOUS
<1>5. \A v, w \in Octant : f[v] = f[w] => v = w
  <2> SUFFICES ASSUME NEW v \in Octant, NEW w \in Octant, f[v] = f[w] PROVE v = w
    OBVIOUS
  <2>1. \A d \in Dim : v[d] \in {0, 1} /\ w[d] \in {0, 1} /\ (v[d] = 1 <=> w[d] = 1)
    <3> SUFFICES ASSUME NEW d \in Dim PROVE v[d] \in {0, 1} /\ w[d] \in {0, 1} /\ (v[d] = 1 <=> w[d] = 1)
      OBVIOUS
    <3>1. v[d] \in 0..1 /\ w[d] \in 0..1
      BY DEF Octant, Vector
    <3>2. d \in f[v] <=> d \in f[w]
      OBVIOUS
    <3> QED
      BY <3>1, <3>2
  <2>2. \A d \in Dim : v[d] = w[d]
    BY <2>1
  <2>3. v = [d \in Dim |-> v[d]] /\ w = [d \in Dim |-> w[d]]
    BY DEF Octant, Vector
  <2> QED
    BY <2>2, <2>3
<1>6. \A P \in T : \E o \in Octant : f[o] = P
  <2> SUFFICES ASSUME NEW P \in T PROVE \E o \in Octant : f[o] = P
    OBVIOUS
  <2> DEFINE o == [d \in Dim |-> IF d \in P THEN 1 ELSE 0]
  <2>1. o \in Octant /\ \A d \in Dim : o[d] = 1 <=> d \in P
    BY DEF Octant, Vector
  <2> HIDE DEF o
  <2>2. f[o] = P
    BY <2>1
  <2> QED
    BY <2>1, <2>2
<1> HIDE DEF f, T
<1>7. f \in Surjection(Octant, T)
  BY <1>4, <1>6 DEF Surjection
<1>8. f \in Injection(Octant, T)
  BY <1>4, <1>5 DEF Injection, IsInjective
<1> QED
  BY <1>3, <1>7, <1>8, FS_Injection

Half == INX \div 2

(* A node's cells fall into halves.                                        *)
LEMMA Halves == Half \in Nat \ {0} /\ INX = 2 * Half /\ INX \in Nat
<1>1. INX \in Nat \ {0} /\ INX % 2 = 0
  BY GridAssumption
<1>2. INX \div 2 \in Nat /\ INX = 2 * (INX \div 2)
  BY <1>1
<1> QED
  BY <1>1, <1>2 DEF Half

(* Two digits of a number below 2h, the second below h.                    *)
LEMMA Digits ==
  ASSUME NEW h \in Nat \ {0}, NEW c \in 0..(2 * h - 1)
  PROVE  /\ c < h => c \div h = 0 /\ c % h = c
         /\ c >= h => c \div h = 1 /\ c % h = c - h
<1>1. c < h => c \div h = 0 /\ c % h = c
  OBVIOUS
<1>2. h <= c /\ c < 2 * h => c \div h = 1 /\ c % h = c - h
  OBVIOUS
<1> QED
  BY <1>1, <1>2

(* The child that is below a cell, the first of the finer cells, and back: *)
(* the cell and the octant of it that a child's cell is.                   *)
OctantOf(c) == [d \in Dim |-> c[d] \div Half]
First(c) == [d \in Dim |-> 2 * (c[d] % Half)]
Above(ci, c) == [d \in Dim |-> Plus(c, Times(INX, ci))[d] \div 2]
Side(ci, c) == [d \in Dim |-> Plus(c, Times(INX, ci))[d] % 2]

(* Cells and octants by their indices.                                     *)
LEMMA CellsAre ==
  /\ Cell \subseteq Vector(Int) /\ Octant \subseteq Vector(Int)
  /\ \A c \in Cell : \A d \in Dim : c[d] \in 0..(2 * Half - 1) /\ c[d] \in Int
  /\ \A c \in Octant : \A d \in Dim : c[d] \in {0, 1} /\ c[d] \in Int
  /\ \A c \in Vector(Int) : (\A d \in Dim : 0 <= c[d] /\ c[d] < 2 * Half) => c \in Cell
  /\ \A c \in Vector(Int) : (\A d \in Dim : c[d] \in {0, 1}) => c \in Octant
<1>1. Half \in Nat /\ INX = 2 * Half
  BY Halves
<1>2. INX - 1 = 2 * Half - 1
  BY <1>1
<1>3. Cell = Vector(0..(2 * Half - 1))
  BY <1>2 DEF Cell
<1>4. Cell \subseteq Vector(Int) /\ \A c \in Cell : \A d \in Dim : c[d] \in 0..(2 * Half - 1) /\ c[d] \in Int
  BY <1>3 DEF Vector
<1>5. Octant \subseteq Vector(Int) /\ \A c \in Octant : \A d \in Dim : c[d] \in {0, 1} /\ c[d] \in Int
  BY DEF Octant, Vector
<1>6. ASSUME NEW c \in Vector(Int), \A d \in Dim : 0 <= c[d] /\ c[d] < 2 * Half PROVE c \in Cell
  <2>1. c = [d \in Dim |-> c[d]] /\ \A d \in Dim : c[d] \in Int
    BY DEF Vector
  <2>2. \A d \in Dim : c[d] \in 0..(2 * Half - 1)
    BY <1>1, <1>6, <2>1
  <2> QED
    BY <1>3, <2>1, <2>2 DEF Vector
<1>7. ASSUME NEW c \in Vector(Int), \A d \in Dim : c[d] \in {0, 1} PROVE c \in Octant
  <2>1. c = [d \in Dim |-> c[d]]
    BY DEF Vector
  <2>2. \A d \in Dim : c[d] \in 0..1
    BY <1>7
  <2> QED
    BY <2>1, <2>2 DEF Octant, Vector
<1> QED
  BY <1>4, <1>5, <1>6, <1>7

(* Which child a cell's finer cells are in, and where.                     *)
LEMMA FinerIs ==
  ASSUME NEW c \in Cell, NEW o \in Octant
  PROVE  /\ OctantOf(c) \in Octant /\ First(c) \in Vector(Int) /\ Plus(First(c), o) \in Cell
         /\ \A d \in Dim : /\ c[d] < Half => /\ OctantOf(c)[d] = 0
                                             /\ Plus(First(c), o)[d] = 2 * c[d] + o[d]
                           /\ c[d] >= Half => /\ OctantOf(c)[d] = 1
                                              /\ Plus(First(c), o)[d] = 2 * (c[d] - Half) + o[d]
<1>1. Half \in Nat \ {0} /\ o \in Vector(Int)
  BY Halves, CellsAre
<1>2. ASSUME NEW d \in Dim
      PROVE  /\ c[d] \in 0..(2 * Half - 1) /\ o[d] \in {0, 1}
             /\ c[d] < Half => c[d] \div Half = 0 /\ c[d] % Half = c[d]
             /\ c[d] >= Half => c[d] \div Half = 1 /\ c[d] % Half = c[d] - Half
             /\ OctantOf(c)[d] = c[d] \div Half /\ First(c)[d] = 2 * (c[d] % Half)
  <2>1. c[d] \in 0..(2 * Half - 1) /\ o[d] \in {0, 1}
    BY CellsAre
  <2> QED
    BY <1>1, <2>1, Digits DEF OctantOf, First
<1>3. \A d \in Dim : c[d] \div Half \in {0, 1} /\ 2 * (c[d] % Half) \in Int
  BY <1>1, <1>2
<1>4. OctantOf(c) \in Vector(Int) /\ First(c) \in Vector(Int)
  BY <1>3 DEF OctantOf, First, Vector
<1>5. OctantOf(c) \in Octant
  BY <1>2, <1>3, <1>4, CellsAre
<1>6. Plus(First(c), o) \in Vector(Int) /\ \A d \in Dim : Plus(First(c), o)[d] = First(c)[d] + o[d]
  BY <1>1, <1>4, Vectors
<1>7. ASSUME NEW d \in Dim
      PROVE  /\ c[d] < Half => /\ OctantOf(c)[d] = 0
                               /\ Plus(First(c), o)[d] = 2 * c[d] + o[d]
             /\ c[d] >= Half => /\ OctantOf(c)[d] = 1
                                /\ Plus(First(c), o)[d] = 2 * (c[d] - Half) + o[d]
             /\ 0 <= Plus(First(c), o)[d] /\ Plus(First(c), o)[d] < 2 * Half
  <2>1. Plus(First(c), o)[d] = First(c)[d] + o[d]
    BY <1>6
  <2>2. PICK x, y, z : x = c[d] /\ y = First(c)[d] /\ z = o[d]
    OBVIOUS
  <2>3. /\ x < Half => c[d] \div Half = 0 /\ y = 2 * x
        /\ x >= Half => c[d] \div Half = 1 /\ y = 2 * (x - Half)
        /\ OctantOf(c)[d] = c[d] \div Half /\ x \in 0..(2 * Half - 1) /\ z \in {0, 1}
    BY <1>2, <2>2
  <2>4. /\ 0 <= y + z /\ y + z < 2 * Half
    BY ONLY <1>1, <2>3
  <2> QED
    BY <2>1, <2>2, <2>3, <2>4
<1>8. Plus(First(c), o) \in Cell
  BY <1>6, <1>7, CellsAre
<1> QED
  BY <1>4, <1>5, <1>7, <1>8

(* Which cell a child's cell is averaged into, and at which side.          *)
LEMMA AboveIs ==
  ASSUME NEW ci \in Octant, NEW c \in Cell
  PROVE  /\ Above(ci, c) \in Cell /\ Side(ci, c) \in Octant
         /\ \A d \in Dim : /\ c[d] + 2 * Half * ci[d] = 2 * Above(ci, c)[d] + Side(ci, c)[d]
                           /\ ci[d] = 0 <=> Above(ci, c)[d] < Half
<1>1. Half \in Nat \ {0} /\ INX = 2 * Half /\ c \in Vector(Int) /\ ci \in Vector(Int) /\ INX \in Int
  BY Halves, CellsAre
<1> DEFINE y == Plus(c, Times(INX, ci))
<1>2. Times(INX, ci) \in Vector(Int) /\ \A d \in Dim : Times(INX, ci)[d] = INX * ci[d]
  BY <1>1, Vectors
<1>3. y \in Vector(Int) /\ \A d \in Dim : y[d] = c[d] + Times(INX, ci)[d]
  BY <1>1, <1>2, Vectors
<1>4. ASSUME NEW d \in Dim
      PROVE  /\ y[d] = c[d] + 2 * Half * ci[d]
             /\ y[d] \div 2 \in Int /\ y[d] % 2 \in {0, 1} /\ y[d] % 2 = y[d] - 2 * (y[d] \div 2)
             /\ 0 <= y[d] \div 2 /\ y[d] \div 2 < 2 * Half
             /\ ci[d] = 0 <=> y[d] \div 2 < Half
  <2>1. c[d] \in 0..(2 * Half - 1) /\ ci[d] \in {0, 1}
    BY CellsAre
  <2>2. y[d] = c[d] + 2 * Half * ci[d]
    <3>1. y[d] = c[d] + INX * ci[d]
      BY <1>2, <1>3
    <3> HIDE DEF y
    <3> QED
      BY <1>1, <2>1, <3>1
  <2>3. PICK a, b, e : a = y[d] /\ b = c[d] /\ e = ci[d]
    OBVIOUS
  <2> HIDE DEF y
  <2>4. /\ a = b + 2 * Half * e /\ b \in 0..(2 * Half - 1) /\ e \in {0, 1}
    BY <2>1, <2>2, <2>3
  <2>5. a \in Int /\ (e = 0 => a = b) /\ (e = 1 => a = b + 2 * Half)
    BY ONLY <1>1, <2>4
  <2>6. a \div 2 \in Int /\ a % 2 \in {0, 1} /\ a % 2 = a - 2 * (a \div 2)
    <3>1. a \in Int
      BY ONLY <2>5
    <3>2. a \div 2 \in Int
      BY ONLY <3>1
    <3>3. a % 2 \in {0, 1}
      BY ONLY <3>1
    <3>4. a % 2 = a - 2 * (a \div 2)
      BY ONLY <3>1
    <3> QED
      BY ONLY <3>2, <3>3, <3>4
  <2>7. 0 <= a \div 2 /\ a \div 2 < 2 * Half /\ (e = 0 <=> a \div 2 < Half)
    BY ONLY <1>1, <2>4, <2>5, <2>6
  <2> QED
    BY <2>2, <2>3, <2>6, <2>7
<1>5. Above(ci, c) = [d \in Dim |-> y[d] \div 2] /\ Side(ci, c) = [d \in Dim |-> y[d] % 2]
  BY DEF Above, Side
<1> HIDE DEF y
<1>6. Above(ci, c) \in Vector(Int) /\ Side(ci, c) \in Vector(Int)
  BY <1>4, <1>5 DEF Vector
<1>7. \A d \in Dim : Above(ci, c)[d] = y[d] \div 2 /\ Side(ci, c)[d] = y[d] % 2
  BY <1>5
<1>8. Above(ci, c) \in Cell
  BY <1>4, <1>6, <1>7, CellsAre
<1>9. Side(ci, c) \in Octant
  BY <1>4, <1>6, <1>7, CellsAre
<1>10. ASSUME NEW d \in Dim
       PROVE  /\ c[d] + 2 * Half * ci[d] = 2 * Above(ci, c)[d] + Side(ci, c)[d]
              /\ ci[d] = 0 <=> Above(ci, c)[d] < Half
  <2>1. /\ y[d] = c[d] + 2 * Half * ci[d] /\ y[d] % 2 = y[d] - 2 * (y[d] \div 2)
        /\ ci[d] = 0 <=> y[d] \div 2 < Half
    BY <1>4
  <2>2. Above(ci, c)[d] = y[d] \div 2 /\ Side(ci, c)[d] = y[d] % 2
    BY <1>7
  <2>3. PICK q, r, z : q = Above(ci, c)[d] /\ r = Side(ci, c)[d] /\ z = c[d] + 2 * Half * ci[d]
    OBVIOUS
  <2>5. y[d] \in Int /\ y[d] \div 2 \in Int /\ y[d] % 2 \in Int
    <3>1. y[d] \in Int
      BY <1>3, Vectors
    <3>2. y[d] \div 2 \in Int /\ y[d] % 2 \in {0, 1}
      BY <1>4
    <3> QED
      BY <3>1, <3>2
  <2>6. z \in Int /\ q \in Int /\ r \in Int
    BY ONLY <2>1, <2>2, <2>3, <2>5
  <2>7. r = z - 2 * q /\ (ci[d] = 0 <=> q < Half)
    BY ONLY <2>1, <2>2, <2>3
  <2>4. z = 2 * q + r /\ (ci[d] = 0 <=> q < Half)
    BY ONLY <2>6, <2>7
  <2> QED
    BY ONLY <2>3, <2>4
<1> QED
  BY <1>8, <1>9, <1>10

(* The finer cells of a node's cells are its children's cells, each once.  *)
Finer == [z \in Cell \X Octant |-> <<OctantOf(z[1]), Plus(First(z[1]), z[2])>>]
Coarser == [z \in Octant \X Cell |-> <<Above(z[1], z[2]), Side(z[1], z[2])>>]

(* One after the other, both leave a cell where it was.                    *)
LEMMA FinerCellsAre ==
  /\ Finer \in [Cell \X Octant -> Octant \X Cell]
  /\ Coarser \in [Octant \X Cell -> Cell \X Octant]
  /\ \A z \in Cell \X Octant : Coarser[Finer[z]] = z
  /\ \A z \in Octant \X Cell : Finer[Coarser[z]] = z
<1>1. Finer \in [Cell \X Octant -> Octant \X Cell]
  BY FinerIs DEF Finer
<1>2. Coarser \in [Octant \X Cell -> Cell \X Octant]
  BY AboveIs DEF Coarser
<1>3. ASSUME NEW c \in Cell, NEW o \in Octant PROVE Coarser[Finer[<<c, o>>]] = <<c, o>>
  <2> DEFINE ci == OctantOf(c)
             f == Plus(First(c), o)
  <2>1. Finer[<<c, o>>] = <<ci, f>> /\ ci \in Octant /\ f \in Cell
    BY FinerIs DEF Finer
  <2>2. Coarser[<<ci, f>>] = <<Above(ci, f), Side(ci, f)>>
    BY <2>1 DEF Coarser
  <2>3. Above(ci, f) \in Vector(Int) /\ Side(ci, f) \in Vector(Int) /\ c \in Vector(Int) /\ o \in Vector(Int)
    BY <2>1, AboveIs, CellsAre
  <2>4. ASSUME NEW d \in Dim PROVE Above(ci, f)[d] = c[d] /\ Side(ci, f)[d] = o[d]
    <3>1. PICK x, y, a, b, e, g : /\ x = c[d] /\ y = o[d] /\ a = Above(ci, f)[d]
                                  /\ b = Side(ci, f)[d] /\ e = ci[d] /\ g = f[d]
      OBVIOUS
    <3>2. /\ x \in 0..(2 * Half - 1) /\ y \in {0, 1} /\ a \in 0..(2 * Half - 1) /\ b \in {0, 1}
      BY <2>1, <3>1, AboveIs, CellsAre
    <3>3. /\ x < Half => e = 0 /\ g = 2 * x + y
          /\ x >= Half => e = 1 /\ g = 2 * (x - Half) + y
      BY <3>1, FinerIs
    <3>4. g + 2 * Half * e = 2 * a + b
      BY <2>1, <3>1, AboveIs
    <3>5. Half \in Nat
      BY Halves
    <3>6. a = x /\ b = y
      BY ONLY <3>2, <3>3, <3>4, <3>5
    <3> QED
      BY <3>1, <3>6
  <2> HIDE DEF ci, f
  <2>5. Above(ci, f) = c /\ Side(ci, f) = o
    BY <2>3, <2>4, SameVector
  <2> QED
    BY <2>1, <2>2, <2>5
<1>4. ASSUME NEW ci \in Octant, NEW f \in Cell PROVE Finer[Coarser[<<ci, f>>]] = <<ci, f>>
  <2> DEFINE c == Above(ci, f)
             o == Side(ci, f)
  <2>1. Coarser[<<ci, f>>] = <<c, o>> /\ c \in Cell /\ o \in Octant
    BY AboveIs DEF Coarser
  <2>2. Finer[<<c, o>>] = <<OctantOf(c), Plus(First(c), o)>>
    BY <2>1 DEF Finer
  <2>3. OctantOf(c) \in Vector(Int) /\ Plus(First(c), o) \in Vector(Int) /\ ci \in Vector(Int) /\ f \in Vector(Int)
    BY <2>1, FinerIs, CellsAre
  <2>4. ASSUME NEW d \in Dim PROVE OctantOf(c)[d] = ci[d] /\ Plus(First(c), o)[d] = f[d]
    <3>1. PICK x, y, a, b, e, g : /\ x = c[d] /\ y = o[d] /\ a = OctantOf(c)[d]
                                  /\ b = Plus(First(c), o)[d] /\ e = ci[d] /\ g = f[d]
      OBVIOUS
    <3>2. /\ x \in 0..(2 * Half - 1) /\ y \in {0, 1} /\ e \in {0, 1} /\ g \in 0..(2 * Half - 1)
      BY <2>1, <3>1, CellsAre
    <3>3. /\ x < Half => a = 0 /\ b = 2 * x + y
          /\ x >= Half => a = 1 /\ b = 2 * (x - Half) + y
      BY <2>1, <3>1, FinerIs
    <3>4. g + 2 * Half * e = 2 * x + y
      BY <3>1, AboveIs
    <3>5. Half \in Nat
      BY Halves
    <3>6. e = 0 <=> x < Half
      BY <3>1, AboveIs
    <3>7. a = e /\ b = g
      BY ONLY <3>2, <3>3, <3>4, <3>5, <3>6
    <3> QED
      BY <3>1, <3>7
  <2> HIDE DEF c, o
  <2>5. OctantOf(c) = ci /\ Plus(First(c), o) = f
    BY <2>3, <2>4, SameVector
  <2> QED
    BY <2>1, <2>2, <2>5
<1>5. \A z \in Cell \X Octant : z = <<z[1], z[2]>> /\ z[1] \in Cell /\ z[2] \in Octant
  OBVIOUS
<1>6. \A z \in Octant \X Cell : z = <<z[1], z[2]>> /\ z[1] \in Octant /\ z[2] \in Cell
  OBVIOUS
<1>7. ASSUME NEW z \in Cell \X Octant PROVE Coarser[Finer[z]] = z
  BY <1>3, <1>5
<1>8. ASSUME NEW z \in Octant \X Cell PROVE Finer[Coarser[z]] = z
  BY <1>4, <1>6
<1> QED
  BY <1>1, <1>2, <1>7, <1>8

Loc == [lev : Nat, x : Vector(Int)]

(* A child's level, coordinates, parent and index.                         *)
LEMMA ChildIs ==
  ASSUME NEW n, n \in Loc, NEW ci, ci \in Octant
  PROVE  /\ Child(n, ci) \in Loc /\ Child(n, ci).lev = n.lev + 1
         /\ \A d \in Dim : Child(n, ci).x[d] = 2 * n.x[d] + ci[d] /\ n.x[d] \in Int /\ ci[d] \in {0, 1}
         /\ Parent(Child(n, ci)) = n /\ ChildIndex(Child(n, ci)) = ci
         /\ Child(n, ci) # Root
<1>1. n.lev \in Nat /\ n.x \in Vector(Int) /\ n = [lev |-> n.lev, x |-> n.x]
  BY DEF Loc
<1>2. ci \in Vector(Int) /\ \A d \in Dim : ci[d] \in {0, 1}
  BY CellsAre
<1>3. 2 \in Int
  OBVIOUS
<1>4. Times(2, n.x) \in Vector(Int) /\ \A d \in Dim : Times(2, n.x)[d] = 2 * n.x[d] /\ n.x[d] \in Int
  BY <1>1, <1>3, Vectors
<1>5. /\ Plus(Times(2, n.x), ci) \in Vector(Int)
      /\ \A d \in Dim : Plus(Times(2, n.x), ci)[d] = Times(2, n.x)[d] + ci[d]
  BY <1>2, <1>4, Vectors
<1> DEFINE m == Child(n, ci)
<1>6. m.lev = n.lev + 1 /\ m.x = Plus(Times(2, n.x), ci) /\ m = [lev |-> m.lev, x |-> m.x]
  BY DEF Child
<1>7. Child(n, ci) \in Loc
  BY <1>1, <1>5, <1>6 DEF Loc
<1>8. \A d \in Dim : Child(n, ci).x[d] = 2 * n.x[d] + ci[d]
  BY <1>4, <1>5, <1>6
<1> HIDE DEF m
<1>9. ASSUME NEW d \in Dim PROVE m.x[d] \div 2 = n.x[d] /\ m.x[d] % 2 = ci[d]
  <2>1. PICK x, y : x = n.x[d] /\ y = ci[d]
    OBVIOUS
  <2>2. x \in Int /\ y \in {0, 1} /\ m.x[d] = 2 * x + y
    BY <1>2, <1>4, <1>8, <2>1 DEF m
  <2>3. (2 * x + y) \div 2 = x /\ (2 * x + y) % 2 = y
    BY ONLY <2>2
  <2> QED
    BY <2>1, <2>2, <2>3
<1>10. Parent(m) = n
  <2>1. m.lev - 1 = n.lev
    BY <1>1, <1>6
  <2>2. [d \in Dim |-> m.x[d] \div 2] = [d \in Dim |-> n.x[d]]
    BY <1>9
  <2>3. [d \in Dim |-> n.x[d]] = n.x
    BY <1>1 DEF Vector
  <2> QED
    BY <1>1, <2>1, <2>2, <2>3 DEF Parent
<1>11. ChildIndex(m) = ci
  <2>1. [d \in Dim |-> m.x[d] % 2] = [d \in Dim |-> ci[d]]
    BY <1>9
  <2>2. [d \in Dim |-> ci[d]] = ci
    BY <1>2 DEF Vector
  <2> QED
    BY <2>1, <2>2 DEF ChildIndex
<1>12. m # Root
  <2>1. m.lev # 0
    BY <1>1, <1>6
  <2> QED
    BY <2>1 DEF Root
<1> QED
  BY <1>2, <1>4, <1>6, <1>7, <1>8, <1>10, <1>11, <1>12 DEF m

(* Each node is the child of one, with one index.                          *)
LEMMA SameChild ==
  ASSUME NEW n, n \in Loc, NEW ci, ci \in Octant, NEW m, m \in Loc, NEW cj, cj \in Octant,
         Child(n, ci) = Child(m, cj)
  PROVE  n = m /\ ci = cj
<1>1. Parent(Child(n, ci)) = n /\ ChildIndex(Child(n, ci)) = ci
  BY ChildIs
<1>2. Parent(Child(m, cj)) = m /\ ChildIndex(Child(m, cj)) = cj
  BY ChildIs
<1> QED
  BY <1>1, <1>2

(* The root's level and coordinates.                                       *)
LEMMA RootIs == Root \in Loc /\ Root.lev = 0 /\ \A d \in Dim : Root.x[d] = 0
BY DEF Root, Loc, Vector

(* The nodes of a tree.                                                    *)
LEMMA NodesAre ==
  ASSUME NEW t, t \in Trees
  PROVE  /\ t \subseteq Nodes(t) /\ Nodes(t) \subseteq Loc /\ IsFiniteSet(t) /\ IsFiniteSet(Nodes(t))
         /\ Root \in Nodes(t)
         /\ \A n \in t : /\ n.lev \in 0..(MaxLevel - 1)
                         /\ \A ci \in Octant : Child(n, ci) \in Nodes(t)
         /\ \A n \in Nodes(t) : n = Root \/ \E m \in t : \E ci \in Octant : n = Child(m, ci)
         /\ \A n \in Loc : \A ci \in Octant : Child(n, ci) \in Nodes(t) => n \in t
<1>1. /\ IsFiniteSet(t) /\ t \subseteq Nodes(t)
      /\ \A n \in t : n.lev \in 0..(MaxLevel - 1) /\ InDomain(n)
  BY TreesAssumption
<1>2. MaxLevel \in Nat
  BY GridAssumption
<1>3. \A n \in Nodes(t) : n = Root \/ \E m \in t : \E ci \in Octant : n = Child(m, ci)
  BY DEF Nodes
<1>4. ASSUME NEW n \in t PROVE n \in Loc
  <2>1. n.lev \in Nat
    BY <1>1, <1>2
  <2>2. n.x \in Vector(Int)
    <3>1. 2^n.lev \in Nat
      BY <2>1, Powers
    <3>2. n.x \in Vector(0..(2^n.lev - 1))
      BY <1>1 DEF InDomain
    <3> QED
      BY <3>1, <3>2 DEF Vector
  <2>3. n = [lev |-> n.lev, x |-> n.x]
    <3>1. n = Root \/ \E m \in t : \E ci \in Octant : n = Child(m, ci)
      BY <1>1, <1>3
    <3> QED
      BY <3>1 DEF Root, Child
  <2> QED
    BY <2>1, <2>2, <2>3 DEF Loc
<1>5. \A n \in t : \A ci \in Octant : Child(n, ci) \in Nodes(t)
  BY DEF Nodes
<1>6. Root \in Nodes(t)
  BY DEF Nodes
<1>7. Nodes(t) \subseteq Loc
  BY <1>3, <1>4, RootIs, ChildIs
<1>8. ASSUME NEW n \in Loc, NEW ci \in Octant, Child(n, ci) \in Nodes(t) PROVE n \in t
  <2>1. Child(n, ci) # Root
    BY ChildIs
  <2>2. PICK m \in t, cj \in Octant : Child(n, ci) = Child(m, cj)
    BY <1>3, <1>8, <2>1
  <2> QED
    BY <1>4, <2>2, SameChild
<1>9. IsFiniteSet(Nodes(t))
  <2> DEFINE C == {Child(n, ci) : n \in t, ci \in Octant}
             f == [z \in t \X Octant |-> Child(z[1], z[2])]
  <2>1. f \in [t \X Octant -> C] /\ \A c \in C : \E z \in t \X Octant : f[z] = c
    <3>1. \A c \in C : \E n \in t : \E ci \in Octant : c = Child(n, ci) /\ f[<<n, ci>>] = c
      OBVIOUS
    <3>2. f \in [t \X Octant -> C]
      OBVIOUS
    <3> HIDE DEF f, C
    <3> QED
      BY <3>1, <3>2
  <2>2. f \in Surjection(t \X Octant, C)
    <3> HIDE DEF f, C
    <3> QED
      BY <2>1 DEF Surjection
  <2>3. IsFiniteSet(t \X Octant)
    BY <1>1, Octants, FS_Product
  <2>4. IsFiniteSet(C)
    <3> HIDE DEF f, C
    <3> QED
      BY <2>2, <2>3, FS_Surjection
  <2>5. Nodes(t) = C \cup {Root}
    BY DEF Nodes
  <2> HIDE DEF C
  <2> QED
    BY <2>4, <2>5, FS_AddElement
<1> QED
  BY <1>1, <1>3, <1>5, <1>6, <1>7, <1>8, <1>9

(* A value that every refined node shares out among its children adds up,  *)
(* over the leaves, to the root's.                                         *)
LEMMA LeafSum ==
  ASSUME NEW t, t \in Trees, NEW w, w \in [Nodes(t) -> Int],
         \A n \in t : w[n] = SumFunction([ci \in Octant |-> w[Child(n, ci)]])
  PROVE  SumFunction(Over(w, Nodes(t) \ t)) = w[Root]
<1> DEFINE N == Nodes(t)
           P == t \X Octant
           f == [z \in P |-> w[Child(z[1], z[2])]]
           b == [z \in P |-> Child(z[1], z[2])]
           row == [n \in t |-> [ci \in Octant |-> w[Child(n, ci)]]]
           rest == N \ {Root}
<1>1. /\ t \subseteq N /\ N \subseteq Loc /\ IsFiniteSet(t) /\ IsFiniteSet(N) /\ Root \in N
      /\ \A n \in t : \A ci \in Octant : Child(n, ci) \in N
      /\ \A n \in N : n = Root \/ \E m \in t : \E ci \in Octant : n = Child(m, ci)
  BY NodesAre
<1>2. SumFunction(w) = w[Root] + SumFunction(Over(w, rest))
  BY <1>1, SumLaws
<1>3. SumFunction(w) = SumFunction(Over(w, t)) + SumFunction(Over(w, N \ t))
  <2>1. t \cup (N \ t) = N /\ t \in SUBSET N /\ N \ t \in SUBSET N /\ t \cap (N \ t) = {}
    BY <1>1
  <2>2. SumFunction(Over(w, t \cup (N \ t))) = SumFunction(Over(w, t)) + SumFunction(Over(w, N \ t))
    BY <1>1, <2>1, SumUnion
  <2>3. w = Over(w, N)
    BY <1>1, SumLaws
  <2> QED
    BY <2>1, <2>2, <2>3
<1>4. SumFunction(Over(w, t)) = SumFunction(f)
  <2>1. f \in [P -> Int]
    BY <1>1
  <2>2. row \in [t -> [Octant -> Int]] /\ \A n \in t : \A ci \in Octant : f[<<n, ci>>] = row[n][ci]
    BY <1>1
  <2>3. Over(w, t) \in [t -> Int] /\ \A n \in t : Over(w, t)[n] = SumFunction(row[n])
    BY <1>1 DEF Over
  <2>4. IsFiniteSet(t) /\ IsFiniteSet(Octant)
    BY <1>1, Octants
  <2> HIDE DEF f, row, N
  <2>5. RowSums(t, Octant, row, f, Over(w, t))
    BY ONLY <2>1, <2>2, <2>3, <2>4 DEF RowSums
  <2> QED
    BY <2>5, SumPairs
<1>5. SumFunction(f) = SumFunction(Over(w, rest))
  <2>1. f \in [P -> Int] /\ IsFiniteSet(P)
    BY <1>1, Octants, FS_Product
  <2>2. b \in [P -> rest]
    BY <1>1, ChildIs
  <2>3. \A y, z \in P : b[y] = b[z] => y = z
    <3> SUFFICES ASSUME NEW y \in P, NEW z \in P, b[y] = b[z] PROVE y = z
      OBVIOUS
    <3>1. /\ y = <<y[1], y[2]>> /\ y[1] \in t /\ y[2] \in Octant
          /\ z = <<z[1], z[2]>> /\ z[1] \in t /\ z[2] \in Octant
      OBVIOUS
    <3>2. y[1] \in Loc /\ z[1] \in Loc /\ Child(y[1], y[2]) = Child(z[1], z[2])
      BY <1>1
    <3>3. y[1] = z[1] /\ y[2] = z[2]
      BY <3>1, <3>2, SameChild
    <3> QED
      BY <3>1, <3>3
  <2>4. \A n \in rest : \E z \in P : b[z] = n
    <3> SUFFICES ASSUME NEW n \in rest PROVE \E z \in P : b[z] = n
      OBVIOUS
    <3>1. PICK m \in t, ci \in Octant : n = Child(m, ci)
      BY <1>1
    <3>2. <<m, ci>> \in P /\ b[<<m, ci>>] = n
      BY <3>1
    <3> QED
      BY <3>2
  <2>5. Over(w, rest) \in [rest -> Int] /\ \A z \in P : f[z] = Over(w, rest)[b[z]]
    <3>1. \A n \in rest : Over(w, rest)[n] = w[n]
      BY DEF Over
    <3>2. \A z \in P : b[z] \in rest /\ f[z] = w[b[z]]
      BY <2>2
    <3>3. Over(w, rest) \in [rest -> Int]
      BY DEF Over
    <3> HIDE DEF f, b, rest, P
    <3> QED
      BY <3>1, <3>2, <3>3
  <2>6. IsFiniteSet(rest)
    BY <1>1, FS_Subset
  <2> HIDE DEF f, b, rest, P
  <2>7. Renames(P, f, rest, Over(w, rest), b)
    BY ONLY <2>1, <2>2, <2>3, <2>4, <2>5, <2>6 DEF Renames
  <2> QED
    BY <2>7, SumRename
<1>6. w[Root] \in Int /\ SumFunction(Over(w, t)) \in Int /\ SumFunction(Over(w, N \ t)) \in Int
  <2>1. t \in SUBSET N /\ N \ t \in SUBSET N
    BY <1>1
  <2> QED
    BY <1>1, <2>1, SumLaws
<1> HIDE DEF f, rest, N
<1>7. SumFunction(Over(w, N \ t)) = w[Root]
  <2>1. PICK r, x, a, c : /\ r = w[Root] /\ x = SumFunction(Over(w, rest))
                          /\ a = SumFunction(Over(w, t)) /\ c = SumFunction(Over(w, N \ t))
    OBVIOUS
  <2>2. r + x = a + c /\ a = x /\ r \in Int /\ a \in Int /\ c \in Int
    BY ONLY <1>2, <1>3, <1>4, <1>5, <1>6, <2>1
  <2>3. c = r
    BY ONLY <2>2
  <2> QED
    BY <2>1, <2>3
<1> QED
  BY <1>7 DEF N

(* Nodes lie in the domain, and their faces where they have a place.       *)
LEMMA InDomainIs ==
  ASSUME NEW n, n \in Loc
  PROVE  InDomain(n) <=> \A d \in Dim : 0 <= n.x[d] /\ n.x[d] <= 2^n.lev - 1
<1>1. n.lev \in Nat /\ n.x = [d \in Dim |-> n.x[d]] /\ \A d \in Dim : n.x[d] \in Int
  BY DEF Loc, Vector
<1>2. 2^n.lev \in Nat
  BY <1>1, Powers
<1>3. \A d \in Dim : n.x[d] \in 0..(2^n.lev - 1) <=> 0 <= n.x[d] /\ n.x[d] <= 2^n.lev - 1
  BY <1>1, <1>2
<1>4. ASSUME \A d \in Dim : n.x[d] \in 0..(2^n.lev - 1) PROVE n.x \in Vector(0..(2^n.lev - 1))
  BY <1>1, <1>4 DEF Vector
<1>5. ASSUME n.x \in Vector(0..(2^n.lev - 1)) PROVE \A d \in Dim : n.x[d] \in 0..(2^n.lev - 1)
  BY <1>5 DEF Vector
<1> QED
  BY <1>3, <1>4, <1>5 DEF InDomain

(* Children of a node in the domain are in it.                             *)
LEMMA ChildInDomain ==
  ASSUME NEW n, n \in Loc, InDomain(n), NEW ci, ci \in Octant
  PROVE  InDomain(Child(n, ci))
<1>1. /\ Child(n, ci) \in Loc /\ Child(n, ci).lev = n.lev + 1 /\ n.lev \in Nat
      /\ \A d \in Dim : Child(n, ci).x[d] = 2 * n.x[d] + ci[d] /\ n.x[d] \in Int /\ ci[d] \in {0, 1}
  BY ChildIs DEF Loc
<1>2. PICK p \in Nat : p = 2^n.lev /\ 2^(n.lev + 1) = p + p
  BY <1>1, Powers, Doubling
<1>3. ASSUME NEW d \in Dim PROVE 0 <= Child(n, ci).x[d] /\ Child(n, ci).x[d] <= (p + p) - 1
  <2>1. 0 <= n.x[d] /\ n.x[d] <= p - 1
    BY <1>2, InDomainIs
  <2> QED
    BY <1>1, <2>1
<1> QED
  BY <1>1, <1>2, <1>3, InDomainIs

(* All nodes are in the domain, and no finer than allowed.                 *)
LEMMA NodesInDomain ==
  ASSUME NEW t, t \in Trees, NEW n, n \in Nodes(t)
  PROVE  /\ n \in Loc /\ n.lev \in 0..MaxLevel /\ InDomain(n)
         /\ \A d \in Dim : n.x[d] \in Int /\ 0 <= n.x[d] /\ n.x[d] <= 2^n.lev - 1
<1>1. n \in Loc
  BY NodesAre
<1>2. MaxLevel \in Nat
  BY GridAssumption
<1>3. CASE n = Root
  <2>1. 2^0 = 1
    BY Doubling
  <2>2. Root \in Loc /\ Root.lev = 0 /\ \A d \in Dim : Root.x[d] = 0
    BY RootIs
  <2>3. \A d \in Dim : 0 <= Root.x[d] /\ Root.x[d] <= 2^Root.lev - 1
    BY <2>1, <2>2
  <2>4. InDomain(Root)
    BY <2>2, <2>3, InDomainIs
  <2> QED
    BY <1>1, <1>2, <1>3, <2>2, <2>3, <2>4
<1>4. CASE n # Root
  <2>1. PICK m \in t, ci \in Octant : n = Child(m, ci)
    BY <1>4, NodesAre
  <2>2. m \in Loc /\ m.lev \in 0..(MaxLevel - 1) /\ InDomain(m)
    BY NodesAre, TreesAssumption
  <2>3. InDomain(n) /\ n.lev = m.lev + 1
    BY <2>1, <2>2, ChildInDomain, ChildIs
  <2>4. \A d \in Dim : n.x[d] \in Int
    BY <1>1 DEF Loc, Vector
  <2> QED
    BY <1>1, <1>2, <2>2, <2>3, <2>4, InDomainIs
<1> QED
  BY <1>3, <1>4

-----------------------------------------------------------------------------
(* The nodes beside a node.                                                *)
Sign == {0 - 1, 1}

(* A neighbor's level and coordinates.                                     *)
LEMMA NeighborIs ==
  ASSUME NEW n, n \in Loc, NEW d, d \in Dim, NEW s, s \in Sign
  PROVE  /\ Neighbor(n, d, s) \in Loc /\ Neighbor(n, d, s).lev = n.lev
         /\ \A e \in Dim : Neighbor(n, d, s).x[e] = IF e = d THEN n.x[e] + s ELSE n.x[e]
         /\ Neighbor(Neighbor(n, d, s), d, 0 - s) = n
<1>1. n.lev \in Nat /\ n.x \in Vector(Int) /\ n = [lev |-> n.lev, x |-> n.x] /\ s \in Int
  BY DEF Loc, Sign
<1>2. n.x = [e \in Dim |-> n.x[e]] /\ \A e \in Dim : n.x[e] \in Int
  BY <1>1 DEF Vector
<1> DEFINE m == Neighbor(n, d, s)
<1>3. m.lev = n.lev /\ m.x = [n.x EXCEPT ![d] = n.x[d] + s] /\ m = [lev |-> m.lev, x |-> m.x]
  BY DEF Neighbor
<1>4. \A e \in Dim : m.x[e] = IF e = d THEN n.x[e] + s ELSE n.x[e]
  BY <1>2, <1>3
<1>5. m.x \in Vector(Int)
  BY <1>1, <1>2, <1>3 DEF Vector
<1>6. m \in Loc
  BY <1>1, <1>3, <1>5 DEF Loc
<1> DEFINE k == Neighbor(m, d, 0 - s)
<1>7. k.lev = m.lev /\ k.x = [m.x EXCEPT ![d] = m.x[d] + (0 - s)] /\ k = [lev |-> k.lev, x |-> k.x]
  BY DEF Neighbor
<1> HIDE DEF m, k
<1>8. k.x \in Vector(Int) /\ \A e \in Dim : k.x[e] = IF e = d THEN m.x[e] + (0 - s) ELSE m.x[e]
  BY <1>1, <1>5, <1>7 DEF Vector
<1>9. \A e \in Dim : k.x[e] = n.x[e]
  BY <1>1, <1>2, <1>4, <1>8
<1>10. k.x = n.x
  BY <1>1, <1>8, <1>9, SameVector
<1>11. k = n
  BY <1>1, <1>3, <1>7, <1>10
<1> QED
  BY <1>3, <1>4, <1>6, <1>11 DEF m, k

(* The child of the node beyond a face that lies at it.                    *)
Facing(ci, d, s) == [e \in Dim |-> IF e = d THEN IF s = 1 THEN 0 ELSE 1 ELSE ci[e]]
Niece(n, ci, d, s) == Child(Neighbor(n, d, s), Facing(ci, d, s))
Flat(d) == {o \in Octant : o[d] = 0}

(* The octants at a face of the neighbor.                                  *)
LEMMA FacingIs ==
  ASSUME NEW ci, ci \in Octant, NEW d, d \in Dim, NEW s, s \in Sign
  PROVE  /\ Facing(ci, d, s) \in Octant
         /\ \A e \in Dim : Facing(ci, d, s)[e] = IF e = d THEN IF s = 1 THEN 0 ELSE 1 ELSE ci[e]
         /\ \A cj \in Octant : ci[d] = cj[d] /\ Facing(ci, d, s) = Facing(cj, d, s) => ci = cj
<1>1. \A e \in Dim : Facing(ci, d, s)[e] = IF e = d THEN IF s = 1 THEN 0 ELSE 1 ELSE ci[e]
  BY DEF Facing
<1>2. \A e \in Dim : ci[e] \in {0, 1}
  BY CellsAre
<1>3. Facing(ci, d, s) \in Vector(Int)
  BY <1>2 DEF Facing, Vector
<1>4. Facing(ci, d, s) \in Octant
  <2>1. \A e \in Dim : Facing(ci, d, s)[e] \in {0, 1}
    BY <1>1, <1>2
  <2> QED
    BY <1>3, <2>1, CellsAre
<1>5. ASSUME NEW cj \in Octant, ci[d] = cj[d], Facing(ci, d, s) = Facing(cj, d, s) PROVE ci = cj
  <2>1. \A e \in Dim : Facing(cj, d, s)[e] = IF e = d THEN IF s = 1 THEN 0 ELSE 1 ELSE cj[e]
    BY DEF Facing
  <2>2. \A e \in Dim : ci[e] = cj[e]
    BY <1>1, <1>5, <2>1
  <2>3. ci \in Vector(Int) /\ cj \in Vector(Int)
    BY CellsAre
  <2> QED
    BY <2>2, <2>3, SameVector
<1> QED
  BY <1>1, <1>4, <1>5

(* The neighbor of a child: a sibling, or a child of the parent's neighbor.*)
LEMMA ChildNeighbor ==
  ASSUME NEW p, p \in Loc, NEW ci, ci \in Octant, NEW d, d \in Dim, NEW s, s \in Sign
  PROVE  /\ ci[d] = (IF s = 1 THEN 0 ELSE 1) =>
              \E cj \in Octant : Neighbor(Child(p, ci), d, s) = Child(p, cj)
         /\ ci[d] = (IF s = 1 THEN 1 ELSE 0) =>
              Neighbor(Child(p, ci), d, s) = Niece(p, ci, d, s)
<1> DEFINE c == Child(p, ci)
           m == Neighbor(c, d, s)
           over == IF s = 1 THEN 1 ELSE 0
           cj == [e \in Dim |-> IF e = d THEN over ELSE ci[e]]
<1>1. /\ c \in Loc /\ c.lev = p.lev + 1
      /\ \A e \in Dim : c.x[e] = 2 * p.x[e] + ci[e] /\ p.x[e] \in Int /\ ci[e] \in {0, 1}
  BY ChildIs
<1>2. /\ m \in Loc /\ m.lev = c.lev
      /\ \A e \in Dim : m.x[e] = IF e = d THEN c.x[e] + s ELSE c.x[e]
  BY <1>1, NeighborIs
<1> HIDE DEF c, m
<1>3. \A a \in Loc : a.lev = m.lev /\ (\A e \in Dim : a.x[e] = m.x[e]) => m = a
  <2> SUFFICES ASSUME NEW a \in Loc, a.lev = m.lev, \A e \in Dim : a.x[e] = m.x[e] PROVE m = a
    OBVIOUS
  <2>1. /\ a = [lev |-> a.lev, x |-> a.x] /\ m = [lev |-> m.lev, x |-> m.x]
        /\ a.x \in Vector(Int) /\ m.x \in Vector(Int)
    BY <1>2 DEF Loc
  <2>2. a.x = m.x
    BY <2>1, SameVector
  <2> QED
    BY <2>1, <2>2
<1>4. ASSUME ci[d] = (IF s = 1 THEN 0 ELSE 1) PROVE \E cc \in Octant : m = Child(p, cc)
  <2>1. \A e \in Dim : cj[e] = IF e = d THEN over ELSE ci[e]
    OBVIOUS
  <2>2. cj \in Vector(Int)
    BY <1>1 DEF Vector
  <2> HIDE DEF cj
  <2>3. cj \in Octant
    BY <1>1, <2>1, <2>2, CellsAre
  <2>4. /\ Child(p, cj) \in Loc /\ Child(p, cj).lev = p.lev + 1
        /\ \A e \in Dim : Child(p, cj).x[e] = 2 * p.x[e] + cj[e]
    BY <2>3, ChildIs
  <2>5. ASSUME NEW e \in Dim PROVE Child(p, cj).x[e] = m.x[e]
    <3>1. CASE e = d
      <4>1. over = ci[d] + s
        BY <1>4 DEF Sign
      <4>2. Child(p, cj).x[d] = 2 * p.x[d] + over /\ m.x[d] = (2 * p.x[d] + ci[d]) + s
        BY <1>1, <1>2, <2>1, <2>4
      <4>3. p.x[d] \in Int /\ ci[d] \in Int /\ s \in Int
        BY <1>1 DEF Sign
      <4> HIDE DEF over
      <4> QED
        BY <3>1, <4>1, <4>2, <4>3
    <3>2. CASE e # d
      BY <1>1, <1>2, <2>1, <2>4, <3>2
    <3> QED
      BY <3>1, <3>2
  <2>6. m = Child(p, cj)
    BY <1>1, <1>2, <1>3, <2>4, <2>5
  <2> QED
    BY <2>3, <2>6
<1>5. ASSUME ci[d] = (IF s = 1 THEN 1 ELSE 0) PROVE m = Niece(p, ci, d, s)
  <2> DEFINE q == Neighbor(p, d, s)
             cf == Facing(ci, d, s)
  <2>1. /\ q \in Loc /\ q.lev = p.lev
        /\ \A e \in Dim : q.x[e] = IF e = d THEN p.x[e] + s ELSE p.x[e]
    BY NeighborIs
  <2>2. /\ cf \in Octant
        /\ \A e \in Dim : cf[e] = IF e = d THEN IF s = 1 THEN 0 ELSE 1 ELSE ci[e]
    BY FacingIs
  <2> HIDE DEF q, cf
  <2>3. /\ Child(q, cf) \in Loc /\ Child(q, cf).lev = q.lev + 1
        /\ \A e \in Dim : Child(q, cf).x[e] = 2 * q.x[e] + cf[e]
    BY <2>1, <2>2, ChildIs
  <2>4. ASSUME NEW e \in Dim PROVE Child(q, cf).x[e] = m.x[e]
    <3>1. CASE e = d
      <4>1. cf[d] = IF s = 1 THEN 0 ELSE 1
        BY <2>2
      <4>2. Child(q, cf).x[d] = 2 * (p.x[d] + s) + cf[d] /\ m.x[d] = (2 * p.x[d] + ci[d]) + s
        BY <1>1, <1>2, <2>1, <2>3
      <4>3. p.x[d] \in Int /\ ci[d] \in Int /\ (s = 1 \/ s = 0 - 1)
        BY <1>1 DEF Sign
      <4> QED
        BY <1>5, <3>1, <4>1, <4>2, <4>3
    <3>2. CASE e # d
      BY <1>1, <1>2, <2>1, <2>2, <2>3, <3>2
    <3> QED
      BY <3>1, <3>2
  <2>5. m = Child(q, cf)
    BY <1>1, <1>2, <1>3, <2>1, <2>3, <2>4
  <2> QED
    BY <2>5 DEF Niece, q, cf
<1> QED
  BY <1>4, <1>5 DEF m, c

Lv(t) == Nodes(t) \ t
Inner(n, d, s) == IF s = 1 THEN n.x[d] # 2^n.lev - 1 ELSE n.x[d] # 0
Even(t, d, s) == {n \in Lv(t) : Neighbor(n, d, s) \in Lv(t)}
Aunts(t, d, s) == {n \in Lv(t) : Neighbor(n, d, s) \in t}
Nieces(t, d, s) == {n \in Lv(t) : Inner(n, d, s) /\ Neighbor(n, d, s) \notin Nodes(t)}

(* The side opposite to a side.                                            *)
LEMMA OtherSign == \A s \in Sign : 0 - s \in Sign /\ 0 - (0 - s) = s
BY DEF Sign

(* Faces within the domain have a neighbor in it.                          *)
LEMMA InnerIs ==
  ASSUME NEW n, n \in Loc, InDomain(n), NEW d, d \in Dim, NEW s, s \in Sign
  PROVE  Inner(n, d, s) <=> InDomain(Neighbor(n, d, s))
<1> DEFINE m == Neighbor(n, d, s)
<1>1. /\ m \in Loc /\ m.lev = n.lev
      /\ \A e \in Dim : m.x[e] = IF e = d THEN n.x[e] + s ELSE n.x[e]
  BY NeighborIs
<1> HIDE DEF m
<1>2. \A e \in Dim : n.x[e] \in Int /\ 0 <= n.x[e] /\ n.x[e] <= 2^n.lev - 1
  BY InDomainIs DEF Loc, Vector
<1>3. n.lev \in Nat
  BY DEF Loc
<1>4. PICK p \in Nat : p = 2^n.lev
  BY <1>3, Powers
<1>5. InDomain(m) <=> \A e \in Dim : 0 <= m.x[e] /\ m.x[e] <= p - 1
  BY <1>1, <1>4, InDomainIs
<1>6. ASSUME NEW e \in Dim, e # d PROVE 0 <= m.x[e] /\ m.x[e] <= p - 1
  BY <1>1, <1>2, <1>4, <1>6
<1>7. Inner(n, d, s) <=> 0 <= m.x[d] /\ m.x[d] <= p - 1
  <2>1. m.x[d] = n.x[d] + s
    BY <1>1
  <2>2. n.x[d] \in Int /\ 0 <= n.x[d] /\ n.x[d] <= p - 1
    BY <1>2, <1>4
  <2>3. Inner(n, d, s) <=> IF s = 1 THEN n.x[d] # p - 1 ELSE n.x[d] # 0
    BY <1>4 DEF Inner
  <2>4. s = 1 \/ s = 0 - 1
    BY DEF Sign
  <2>5. CASE s = 1
    BY <2>1, <2>2, <2>3, <2>5
  <2>6. CASE s = 0 - 1
    BY <2>1, <2>2, <2>3, <2>6
  <2> QED
    BY <2>4, <2>5, <2>6
<1> QED
  BY <1>5, <1>6, <1>7 DEF m

(* A node that is beside another node has it beside it.                    *)
LEMMA BesideIs ==
  ASSUME NEW t, t \in Trees, NEW n, n \in Nodes(t), NEW d, d \in Dim, NEW s, s \in Sign,
         Neighbor(n, d, s) \in Nodes(t)
  PROVE  /\ Inner(n, d, s) /\ Inner(Neighbor(n, d, s), d, 0 - s)
         /\ Neighbor(Neighbor(n, d, s), d, 0 - s) = n /\ 0 - s \in Sign
<1>1. n \in Loc /\ InDomain(n)
  BY NodesInDomain
<1>2. Neighbor(n, d, s) \in Loc /\ InDomain(Neighbor(n, d, s))
  BY NodesInDomain
<1>3. 0 - s \in Sign
  BY OtherSign
<1>4. Neighbor(Neighbor(n, d, s), d, 0 - s) = n
  BY <1>1, NeighborIs
<1>5. Inner(n, d, s)
  BY <1>1, <1>2, InnerIs
<1>6. Inner(Neighbor(n, d, s), d, 0 - s)
  BY <1>1, <1>2, <1>3, <1>4, InnerIs
<1> QED
  BY <1>3, <1>4, <1>5, <1>6

(* The parent of a node in the domain is in it.                            *)
LEMMA ParentInDomain ==
  ASSUME NEW n, n \in Loc, NEW ci, ci \in Octant, InDomain(Child(n, ci))
  PROVE  InDomain(n)
<1>1. /\ Child(n, ci) \in Loc /\ Child(n, ci).lev = n.lev + 1 /\ n.lev \in Nat
      /\ \A d \in Dim : Child(n, ci).x[d] = 2 * n.x[d] + ci[d] /\ n.x[d] \in Int /\ ci[d] \in {0, 1}
  BY ChildIs DEF Loc
<1>2. PICK p \in Nat : p = 2^n.lev /\ 2^(n.lev + 1) = p + p
  BY <1>1, Powers, Doubling
<1>3. ASSUME NEW d \in Dim PROVE 0 <= n.x[d] /\ n.x[d] <= p - 1
  <2>1. 0 <= Child(n, ci).x[d] /\ Child(n, ci).x[d] <= (p + p) - 1
    BY <1>1, <1>2, InDomainIs
  <2> QED
    BY <1>1, <2>1
<1> QED
  BY <1>2, <1>3, InDomainIs

(* A leaf's neighbor in the domain that is no node has a leaf for parent,  *)
(* which the leaf faces as a niece.                                        *)
LEMMA NiecesAre ==
  ASSUME NEW t, t \in Trees, NEW d, d \in Dim, NEW s, s \in Sign, NEW n, n \in Nieces(t, d, s)
  PROVE  \E q \in Aunts(t, d, 0 - s) : \E ci \in Flat(d) : n = Niece(q, ci, d, 0 - s)
<1>1. n \in Nodes(t) /\ n \notin t /\ Inner(n, d, s) /\ Neighbor(n, d, s) \notin Nodes(t)
  BY DEF Nieces, Lv
<1>2. n \in Loc /\ InDomain(n)
  BY <1>1, NodesInDomain
<1>3. InDomain(Neighbor(n, d, s))
  BY <1>1, <1>2, InnerIs
<1>4. n # Root
  <2>1. 2^0 = 1 /\ Root.lev = 0 /\ Root.x[d] = 0
    BY Doubling, RootIs
  <2>2. 2^Root.lev - 1 = 0
    BY <2>1
  <2>3. ~Inner(Root, d, s)
    BY <2>1, <2>2 DEF Inner
  <2> QED
    BY <1>1, <2>3
<1>5. PICK p \in t, cj \in Octant : n = Child(p, cj)
  BY <1>1, <1>4, NodesAre
<1>6. p \in Loc /\ \A ci \in Octant : Child(p, ci) \in Nodes(t)
  BY NodesAre
<1>7. cj[d] = IF s = 1 THEN 1 ELSE 0
  <2>1. cj[d] \in {0, 1} /\ (s = 1 \/ s = 0 - 1)
    BY CellsAre DEF Sign
  <2>2. cj[d] # IF s = 1 THEN 0 ELSE 1
    BY <1>1, <1>5, <1>6, ChildNeighbor
  <2> QED
    BY <2>1, <2>2
<1> DEFINE q == Neighbor(p, d, s)
           cf == Facing(cj, d, s)
<1>8. Neighbor(n, d, s) = Child(q, cf)
  BY <1>5, <1>6, <1>7, ChildNeighbor DEF Niece
<1>9. /\ q \in Loc /\ cf \in Octant /\ Neighbor(q, d, 0 - s) = p
  BY <1>6, NeighborIs, FacingIs
<1>10. InDomain(q)
  <2> HIDE DEF q, cf
  <2> QED
    BY <1>3, <1>8, <1>9, ParentInDomain
<1>11. q \in Nodes(t)
  BY <1>10, TreesAssumption DEF Sign
<1>12. q \notin t
  <2> HIDE DEF q, cf
  <2> QED
    BY <1>1, <1>8, <1>9, NodesAre
<1>13. q \in Aunts(t, d, 0 - s)
  BY <1>9, <1>11, <1>12 DEF Aunts, Lv
<1> DEFINE ci == [e \in Dim |-> IF e = d THEN 0 ELSE cj[e]]
<1>14. \A e \in Dim : ci[e] = IF e = d THEN 0 ELSE cj[e]
  OBVIOUS
<1>15. ci \in Vector(Int) /\ \A e \in Dim : cj[e] \in {0, 1}
  BY CellsAre DEF Vector
<1> HIDE DEF ci, q, cf
<1>16. ci \in Flat(d)
  <2>1. ci \in Octant
    BY <1>14, <1>15, CellsAre
  <2> QED
    BY <1>14, <2>1 DEF Flat
<1>17. Facing(ci, d, 0 - s) = cj
  <2>1. 0 - s \in Sign /\ ((0 - s = 1) <=> s # 1)
    BY DEF Sign
  <2>2. ci \in Octant
    BY <1>16 DEF Flat
  <2>3. /\ Facing(ci, d, 0 - s) \in Octant
        /\ \A e \in Dim : Facing(ci, d, 0 - s)[e] = IF e = d THEN IF 0 - s = 1 THEN 0 ELSE 1 ELSE ci[e]
    BY <2>1, <2>2, FacingIs
  <2>4. \A e \in Dim : Facing(ci, d, 0 - s)[e] = cj[e]
    BY <1>7, <1>14, <2>1, <2>3
  <2>5. Facing(ci, d, 0 - s) \in Vector(Int) /\ cj \in Vector(Int)
    BY <2>3, CellsAre
  <2> QED
    BY <2>4, <2>5, SameVector
<1>18. n = Niece(q, ci, d, 0 - s)
  BY <1>5, <1>9, <1>17 DEF Niece
<1> QED
  BY <1>13, <1>16, <1>18

(* The children beyond a leaf's face are leaves, and nieces of it.         *)
LEMMA AuntsAre ==
  ASSUME NEW t, t \in Trees, NEW d, d \in Dim, NEW s, s \in Sign, NEW n, n \in Aunts(t, d, s),
         NEW ci, ci \in Octant
  PROVE  /\ Niece(n, ci, d, s) \in Nieces(t, d, 0 - s) /\ Niece(n, ci, d, s).lev = n.lev + 1
         /\ Inner(n, d, s)
<1>1. n \in Nodes(t) /\ n \notin t /\ Neighbor(n, d, s) \in t
  BY DEF Aunts, Lv
<1>2. n \in Loc /\ InDomain(n)
  BY <1>1, NodesInDomain
<1> DEFINE m == Neighbor(n, d, s)
           f == Facing(ci, d, s)
           k == Child(m, f)
<1>3. /\ m \in Loc /\ m.lev = n.lev /\ Neighbor(m, d, 0 - s) = n
  BY <1>2, NeighborIs
<1>4. f \in Octant /\ f[d] = IF s = 1 THEN 0 ELSE 1
  BY FacingIs
<1>5. m \in t /\ 0 - s \in Sign /\ ((0 - s = 1) <=> s # 1)
  BY <1>1 DEF Sign
<1> HIDE DEF m, f
<1>6. k \in Nodes(t) /\ k \in Loc /\ k.lev = n.lev + 1
  BY <1>3, <1>4, <1>5, NodesAre, ChildIs
<1> DEFINE g == Facing(f, d, 0 - s)
<1>7. Neighbor(k, d, 0 - s) = Child(n, g) /\ g \in Octant
  <2>1. f[d] = IF 0 - s = 1 THEN 1 ELSE 0
    BY <1>4, <1>5 DEF Sign
  <2>2. Neighbor(k, d, 0 - s) = Niece(m, f, d, 0 - s)
    BY <1>3, <1>4, <1>5, <2>1, ChildNeighbor
  <2> QED
    BY <1>3, <1>4, <1>5, <2>2, FacingIs DEF Niece
<1> HIDE DEF g, k
<1>8. Child(n, g) \notin Nodes(t) /\ InDomain(Child(n, g))
  BY <1>1, <1>2, <1>7, NodesAre, ChildInDomain
<1>9. k \notin t
  BY <1>5, <1>7, <1>8, TreesAssumption DEF Sign
<1>10. InDomain(k)
  BY <1>6, NodesInDomain
<1>11. Inner(k, d, 0 - s)
  BY <1>5, <1>6, <1>7, <1>8, <1>10, InnerIs
<1>12. k \in Nieces(t, d, 0 - s)
  BY <1>6, <1>7, <1>8, <1>9, <1>11 DEF Nieces, Lv
<1>13. Inner(n, d, s)
  <2>1. m \in Nodes(t)
    BY <1>5, NodesAre
  <2> QED
    BY <1>1, <2>1, BesideIs DEF m
<1> QED
  BY <1>6, <1>12, <1>13 DEF Niece, k, m, f

(* Each niece has one aunt.                                                *)
LEMMA OneAunt ==
  ASSUME NEW d, d \in Dim, NEW s, s \in Sign, NEW n, n \in Loc, NEW m, m \in Loc,
         NEW ci, ci \in Flat(d), NEW cj, cj \in Flat(d), Niece(n, ci, d, s) = Niece(m, cj, d, s)
  PROVE  n = m /\ ci = cj
<1>1. ci \in Octant /\ cj \in Octant /\ ci[d] = cj[d]
  BY DEF Flat
<1>2. Facing(ci, d, s) \in Octant /\ Facing(cj, d, s) \in Octant
  BY <1>1, FacingIs
<1>3. /\ Neighbor(n, d, s) \in Loc /\ Neighbor(Neighbor(n, d, s), d, 0 - s) = n
  BY NeighborIs
<1>4. /\ Neighbor(m, d, s) \in Loc /\ Neighbor(Neighbor(m, d, s), d, 0 - s) = m
  BY NeighborIs
<1>5. Neighbor(n, d, s) = Neighbor(m, d, s) /\ Facing(ci, d, s) = Facing(cj, d, s)
  BY <1>2, <1>3, <1>4, SameChild DEF Niece
<1> QED
  BY <1>1, <1>3, <1>4, <1>5, FacingIs

FaceOf(c, d, s) == IF s = 1 THEN Plus(c, Times(INX, Unit(d))) ELSE c
Flow(G, n, d, s) == SumFunction([c \in Lowest(d) |-> G[n][d][FaceOf(c, d, s)]])
Thru(G, n, d, s) == Area(n) * Flow(G, n, d, s)

(* Leaves see the same flux through a face they share, and an aunt sees    *)
(* the average of her nieces'.                                             *)
Corrected(t, G) ==
  /\ G \in [Lv(t) -> [Dim -> [Face -> Int]]]
  /\ \A d \in Dim : \A n \in Even(t, d, 1) : \A c \in Lowest(d) :
       G[n][d][FaceOf(c, d, 1)] = G[Neighbor(n, d, 1)][d][c]
  /\ \A d \in Dim : \A s \in Sign : \A n \in Aunts(t, d, s) : \A c \in Lowest(d) :
       2^(NDIM - 1) * G[n][d][FaceOf(c, d, s)] =
         SumFunction([o \in Flat(d) |->
           G[Niece(n, OctantOf(c), d, s)][d][FaceOf(Plus(First(c), o), d, 0 - s)]])

-----------------------------------------------------------------------------
(* A step along a dimension.                                               *)
LEMMA UnitIs == \A d \in Dim : Unit(d) \in Vector(Int) /\ \A e \in Dim : Unit(d)[e] = IF e = d THEN 1 ELSE 0
BY DEF Unit, Vector

(* The cells and octants of a node's lowest layer are finitely many.       *)
LEMMA LowestAre ==
  ASSUME NEW d, d \in Dim
  PROVE  /\ Lowest(d) \subseteq Cell /\ IsFiniteSet(Cell) /\ IsFiniteSet(Lowest(d))
         /\ Flat(d) \subseteq Octant /\ IsFiniteSet(Flat(d))
         /\ IsFiniteSet(Dim)
<1>1. IsFiniteSet(Cell)
  <2>1. INX \in Nat
    BY GridAssumption
  <2>2. IsFiniteSet(0..(INX - 1))
    BY <2>1, FS_Interval
  <2> QED
    BY <2>2, FiniteVectors DEF Cell
<1>2. Lowest(d) \subseteq Cell /\ Flat(d) \subseteq Octant
  BY DEF Lowest, Flat
<1>3. IsFiniteSet(Octant)
  BY Octants
<1>4. IsFiniteSet(Dim)
  <2>1. NDIM \in Nat
    BY GridAssumption
  <2> QED
    BY <2>1, FS_Interval DEF Dim
<1> QED
  BY <1>1, <1>2, <1>3, <1>4, FS_Subset

(* The faces at both sides of a node.                                      *)
LEMMA FacesAre ==
  ASSUME NEW d, d \in Dim, NEW c, c \in Cell
  PROVE  /\ c \in Face /\ Plus(c, Unit(d)) \in Face
         /\ \A e \in Dim : Plus(c, Unit(d))[e] = IF e = d THEN c[e] + 1 ELSE c[e]
         /\ c[d] = 0 => \A s \in Sign : /\ FaceOf(c, d, s) \in Face
                                        /\ \A e \in Dim : FaceOf(c, d, s)[e] =
                                             IF e = d /\ s = 1 THEN INX ELSE c[e]
<1>1. INX \in Nat /\ INX = 2 * Half /\ INX \in Int
  BY Halves
<1>2. c \in Vector(Int) /\ \A e \in Dim : c[e] \in 0..(2 * Half - 1)
  BY CellsAre
<1>3. ASSUME NEW v \in Vector(Int), \A e \in Dim : 0 <= v[e] /\ v[e] <= INX PROVE v \in Face
  <2>1. v = [e \in Dim |-> v[e]] /\ \A e \in Dim : v[e] \in Int
    BY DEF Vector
  <2>2. \A e \in Dim : v[e] \in 0..INX
    BY <1>1, <1>3, <2>1
  <2> QED
    BY <2>1, <2>2 DEF Face, Vector
<1>4. c \in Face
  BY <1>1, <1>2, <1>3
<1>5. Unit(d) \in Vector(Int) /\ \A e \in Dim : Unit(d)[e] = IF e = d THEN 1 ELSE 0
  BY UnitIs
<1>6. /\ Plus(c, Unit(d)) \in Vector(Int)
      /\ \A e \in Dim : Plus(c, Unit(d))[e] = c[e] + Unit(d)[e]
  BY <1>2, <1>5, Vectors
<1>7. \A e \in Dim : Plus(c, Unit(d))[e] = IF e = d THEN c[e] + 1 ELSE c[e]
  BY <1>2, <1>5, <1>6
<1>8. Plus(c, Unit(d)) \in Face
  BY <1>1, <1>2, <1>3, <1>6, <1>7
<1>9. ASSUME c[d] = 0, NEW s \in Sign
      PROVE  /\ FaceOf(c, d, s) \in Face
             /\ \A e \in Dim : FaceOf(c, d, s)[e] = IF e = d /\ s = 1 THEN INX ELSE c[e]
  <2>1. CASE s # 1
    BY <1>4, <2>1 DEF FaceOf
  <2>2. CASE s = 1
    <3>1. FaceOf(c, d, s) = Plus(c, Times(INX, Unit(d)))
      BY <2>2 DEF FaceOf
    <3>2. Times(INX, Unit(d)) \in Vector(Int) /\ \A e \in Dim : Times(INX, Unit(d))[e] = INX * Unit(d)[e]
      BY <1>1, <1>5, Vectors
    <3>3. /\ FaceOf(c, d, s) \in Vector(Int)
          /\ \A e \in Dim : FaceOf(c, d, s)[e] = c[e] + Times(INX, Unit(d))[e]
      BY <1>2, <3>1, <3>2, Vectors
    <3>4. \A e \in Dim : Times(INX, Unit(d))[e] = IF e = d THEN INX ELSE 0
      BY <1>1, <1>5, <3>2
    <3>5. \A e \in Dim : FaceOf(c, d, s)[e] = IF e = d THEN INX ELSE c[e]
      BY <1>1, <1>2, <1>9, <3>3, <3>4
    <3>6. FaceOf(c, d, s) \in Face
      BY <1>1, <1>2, <1>3, <3>3, <3>5
    <3> QED
      BY <2>2, <3>5, <3>6
  <2> QED
    BY <2>1, <2>2
<1> QED
  BY <1>4, <1>7, <1>8, <1>9

(* What flows through a leaf's face is a whole number.                     *)
LEMMA FlowType ==
  ASSUME NEW t, t \in Trees, NEW G, G \in [Lv(t) -> [Dim -> [Face -> Int]]],
         NEW n, n \in Lv(t), NEW d, d \in Dim, NEW s, s \in Sign
  PROVE  /\ [c \in Lowest(d) |-> G[n][d][FaceOf(c, d, s)]] \in [Lowest(d) -> Int]
         /\ Flow(G, n, d, s) \in Int /\ Thru(G, n, d, s) \in Int
         /\ Area(n) \in Nat /\ Area(n) = 2^((NDIM - 1) * (MaxLevel - n.lev))
<1>1. \A c \in Lowest(d) : FaceOf(c, d, s) \in Face
  BY FacesAre DEF Lowest
<1>2. G[n][d] \in [Face -> Int]
  OBVIOUS
<1>3. [c \in Lowest(d) |-> G[n][d][FaceOf(c, d, s)]] \in [Lowest(d) -> Int]
  BY <1>1, <1>2
<1>4. Flow(G, n, d, s) \in Int
  BY <1>3, LowestAre, SumInt DEF Flow
<1>5. Area(n) \in Nat
  <2>1. n.lev \in 0..MaxLevel /\ MaxLevel \in Nat /\ NDIM - 1 \in Nat
    BY NodesInDomain, GridAssumption DEF Lv
  <2>2. MaxLevel - n.lev \in Nat
    BY <2>1
  <2>3. (NDIM - 1) * (MaxLevel - n.lev) \in Nat
    BY <2>1, <2>2
  <2> QED
    BY <2>3, Powers DEF Area
<1>6. Thru(G, n, d, s) \in Int
  BY <1>4, <1>5 DEF Thru
<1> QED
  BY <1>3, <1>4, <1>5, <1>6 DEF Area

(* Leaves of one level that meet have the same flow through their face.    *)
LEMMA EvenFlow ==
  ASSUME NEW t, t \in Trees, NEW G, Corrected(t, G), NEW d, d \in Dim, NEW n, n \in Even(t, d, 1)
  PROVE  Thru(G, n, d, 1) = Thru(G, Neighbor(n, d, 1), d, 0 - 1)
<1> DEFINE m == Neighbor(n, d, 1)
<1>1. n \in Loc /\ m.lev = n.lev
  BY NodesAre, NeighborIs DEF Even, Lv, Sign
<1>2. Area(m) = Area(n)
  BY <1>1 DEF Area
<1>3. \A c \in Lowest(d) : G[n][d][FaceOf(c, d, 1)] = G[m][d][FaceOf(c, d, 0 - 1)]
  BY DEF Corrected, FaceOf
<1> HIDE DEF m
<1>4. [c \in Lowest(d) |-> G[n][d][FaceOf(c, d, 1)]] = [c \in Lowest(d) |-> G[m][d][FaceOf(c, d, 0 - 1)]]
  BY <1>3
<1>5. Flow(G, n, d, 1) = Flow(G, m, d, 0 - 1)
  BY <1>4 DEF Flow
<1> QED
  BY <1>2, <1>5 DEF Thru, m

(* An area is that of a quarter of the finer ones, in three dimensions.    *)
LEMMA FinerArea ==
  ASSUME NEW n, NEW m, n.lev \in Nat, m.lev = n.lev + 1, m.lev <= MaxLevel
  PROVE  /\ Area(n) = 2^(NDIM - 1) * Area(m) /\ Area(m) \in Nat /\ 2^(NDIM - 1) \in Nat \ {0}
         /\ Volume(n) = 2^NDIM * Volume(m) /\ Volume(m) \in Nat /\ 2^NDIM \in Nat \ {0}
<1>1. NDIM \in Nat /\ NDIM - 1 \in Nat /\ MaxLevel \in Nat
  BY GridAssumption
<1>2. PICK k \in Nat : MaxLevel - m.lev = k /\ MaxLevel - n.lev = k + 1
  BY <1>1
<1>3. ASSUME NEW a \in Nat PROVE /\ a * k \in Nat /\ a * (k + 1) = a + a * k
                                 /\ 2^(a * (k + 1)) = 2^a * 2^(a * k)
                                 /\ 2^(a * k) \in Nat /\ 2^a \in Nat \ {0}
  <2>1. a * k \in Nat /\ a * (k + 1) = a + a * k
    OBVIOUS
  <2>2. 2^(a + a * k) = 2^a * 2^(a * k)
    BY <2>1, PowerSum
  <2> QED
    BY <2>1, <2>2, Powers
<1>4. /\ 2^((NDIM - 1) * (k + 1)) = 2^(NDIM - 1) * 2^((NDIM - 1) * k)
      /\ 2^((NDIM - 1) * k) \in Nat /\ 2^(NDIM - 1) \in Nat \ {0}
  BY <1>1, <1>3
<1>5. 2^(NDIM * (k + 1)) = 2^NDIM * 2^(NDIM * k) /\ 2^(NDIM * k) \in Nat /\ 2^NDIM \in Nat \ {0}
  BY <1>1, <1>3
<1>6. Area(n) = 2^((NDIM - 1) * (k + 1)) /\ Area(m) = 2^((NDIM - 1) * k)
  BY <1>2 DEF Area
<1>7. Volume(n) = 2^(NDIM * (k + 1)) /\ Volume(m) = 2^(NDIM * k)
  BY <1>2 DEF Volume
<1> QED
  BY <1>4, <1>5, <1>6, <1>7

(* The finer faces of a layer's cells are those of the layers of children. *)
LEMMA FlatFiner ==
  ASSUME NEW d, d \in Dim
  PROVE  LET b == [z \in Lowest(d) \X Flat(d) |-> Finer[z]]
         IN /\ b \in [Lowest(d) \X Flat(d) -> Flat(d) \X Lowest(d)]
            /\ \A y, z \in Lowest(d) \X Flat(d) : b[y] = b[z] => y = z
            /\ \A w \in Flat(d) \X Lowest(d) : \E z \in Lowest(d) \X Flat(d) : b[z] = w
<1> DEFINE S == Lowest(d) \X Flat(d)
           T == Flat(d) \X Lowest(d)
           b == [z \in S |-> Finer[z]]
<1>1. Lowest(d) \subseteq Cell /\ Flat(d) \subseteq Octant
  BY LowestAre
<1>2. Half \in Nat \ {0}
  BY Halves
<1>3. ASSUME NEW c \in Lowest(d), NEW o \in Flat(d) PROVE Finer[<<c, o>>] \in T
  <2>1. Finer[<<c, o>>] = <<OctantOf(c), Plus(First(c), o)>>
    BY <1>1 DEF Finer
  <2>2. c \in Cell /\ o \in Octant /\ c[d] = 0 /\ o[d] = 0
    BY DEF Lowest, Flat
  <2>3. /\ OctantOf(c) \in Octant /\ Plus(First(c), o) \in Cell
        /\ OctantOf(c)[d] = 0 /\ Plus(First(c), o)[d] = 2 * c[d] + o[d]
    <3>1. c[d] < Half
      BY <1>2, <2>2
    <3> QED
      BY <2>2, <3>1, FinerIs
  <2>4. Plus(First(c), o)[d] = 0
    BY <2>2, <2>3
  <2> QED
    BY <2>1, <2>3, <2>4 DEF Lowest, Flat
<1>4. ASSUME NEW ci \in Flat(d), NEW f \in Lowest(d) PROVE Coarser[<<ci, f>>] \in S
  <2>1. Coarser[<<ci, f>>] = <<Above(ci, f), Side(ci, f)>>
    BY <1>1 DEF Coarser
  <2>2. ci \in Octant /\ f \in Cell /\ ci[d] = 0 /\ f[d] = 0
    BY DEF Lowest, Flat
  <2>3. /\ Above(ci, f) \in Cell /\ Side(ci, f) \in Octant
        /\ f[d] + 2 * Half * ci[d] = 2 * Above(ci, f)[d] + Side(ci, f)[d]
    BY <2>2, AboveIs
  <2>4. PICK x, y : x = Above(ci, f)[d] /\ y = Side(ci, f)[d]
    OBVIOUS
  <2>5. 0 = 2 * x + y /\ x \in Int /\ y \in {0, 1}
    BY <1>2, <2>2, <2>3, <2>4, CellsAre
  <2>6. x = 0 /\ y = 0
    BY ONLY <2>5
  <2>7. Above(ci, f) \in Lowest(d) /\ Side(ci, f) \in Flat(d)
    BY ONLY <2>3, <2>4, <2>6 DEF Lowest, Flat
  <2> QED
    BY <2>1, <2>7
<1>5. \A z \in S : z = <<z[1], z[2]>> /\ z[1] \in Lowest(d) /\ z[2] \in Flat(d) /\ z \in Cell \X Octant
  BY <1>1
<1>6. \A z \in T : z = <<z[1], z[2]>> /\ z[1] \in Flat(d) /\ z[2] \in Lowest(d) /\ z \in Octant \X Cell
  BY <1>1
<1>7. ASSUME NEW z \in S PROVE Finer[z] \in T /\ Coarser[Finer[z]] = z
  BY <1>3, <1>5, FinerCellsAre
<1>8. ASSUME NEW z \in T PROVE Coarser[z] \in S /\ Finer[Coarser[z]] = z
  BY <1>4, <1>6, FinerCellsAre
<1>9. \A z \in S : b[z] = Finer[z]
  OBVIOUS
<1>10. b \in [S -> T]
  BY <1>7
<1> HIDE DEF b, S, T
<1>11. \A y, z \in S : b[y] = b[z] => y = z
  BY <1>7, <1>9
<1>12. \A w \in T : \E z \in S : b[z] = w
  BY <1>8, <1>9
<1> QED
  BY <1>10, <1>11, <1>12 DEF b, S, T

(* Through an aunt's face flows what flows through her nieces'.            *)
LEMMA AuntFlow ==
  ASSUME NEW t, t \in Trees, NEW G, Corrected(t, G), NEW d, d \in Dim, NEW s, s \in Sign,
         NEW n, n \in Aunts(t, d, s)
  PROVE  /\ [ci \in Flat(d) |-> Thru(G, Niece(n, ci, d, s), d, 0 - s)] \in [Flat(d) -> Int]
         /\ Thru(G, n, d, s) = SumFunction([ci \in Flat(d) |-> Thru(G, Niece(n, ci, d, s), d, 0 - s)])
<1> DEFINE S == Lowest(d)
           T == Flat(d)
           k(ci) == Niece(n, ci, d, s)
           p == 2^(NDIM - 1)
           mine == [c \in S |-> G[n][d][FaceOf(c, d, s)]]
           g == [z \in T \X S |-> G[k(z[1])][d][FaceOf(z[2], d, 0 - s)]]
           h == [z \in S \X T |-> g[Finer[z]]]
           b == [z \in S \X T |-> Finer[z]]
           row == [c \in S |-> [o \in T |-> h[<<c, o>>]]]
           r == [c \in S |-> SumFunction(row[c])]
           col == [ci \in T |-> [f \in S |-> g[<<ci, f>>]]]
           q == [ci \in T |-> SumFunction(col[ci])]
           w == [ci \in T |-> Thru(G, k(ci), d, 0 - s)]
<1>1. /\ S \subseteq Cell /\ T \subseteq Octant /\ IsFiniteSet(S) /\ IsFiniteSet(T)
      /\ IsFiniteSet(S \X T) /\ IsFiniteSet(T \X S)
  BY LowestAre, FS_Product
<1>2. n \in Lv(t) /\ n \in Nodes(t) /\ n.lev \in Nat
  BY NodesInDomain DEF Aunts, Lv
<1>3. 0 - s \in Sign
  BY OtherSign
<1>4. ASSUME NEW ci \in T PROVE k(ci) \in Lv(t) /\ k(ci).lev = n.lev + 1 /\ k(ci).lev <= MaxLevel
  <2>1. k(ci) \in Nieces(t, d, 0 - s) /\ k(ci).lev = n.lev + 1
    BY <1>1, AuntsAre
  <2>2. k(ci) \in Lv(t) /\ k(ci) \in Nodes(t)
    BY <2>1 DEF Nieces, Lv
  <2>3. k(ci).lev \in 0..MaxLevel /\ MaxLevel \in Nat
    BY <2>2, NodesInDomain, GridAssumption
  <2> QED
    BY <2>1, <2>2, <2>3
<1>5. G \in [Lv(t) -> [Dim -> [Face -> Int]]]
  BY DEF Corrected
<1>6. /\ \A f \in S : \A e \in Sign : FaceOf(f, d, e) \in Face
      /\ \A m \in Lv(t) : \A i \in Face : G[m][d][i] \in Int
  BY <1>5, FacesAre DEF Lowest
<1>7. mine \in [S -> Int] /\ g \in [T \X S -> Int]
  BY <1>2, <1>3, <1>4, <1>6
<1>8. /\ b \in [S \X T -> T \X S] /\ \A y, z \in S \X T : b[y] = b[z] => y = z
      /\ \A v \in T \X S : \E z \in S \X T : b[z] = v
  BY FlatFiner
<1>9. h \in [S \X T -> Int] /\ \A z \in S \X T : h[z] = g[b[z]]
  <2>1. \A z \in S \X T : b[z] = Finer[z] /\ b[z] \in T \X S
    BY <1>8
  <2>2. \A v \in T \X S : g[v] \in Int
    BY <1>7
  <2> HIDE DEF b, g
  <2> QED
    BY <2>1, <2>2
<1>10. SumFunction(h) = SumFunction(g)
  <2> HIDE DEF b, g, h
  <2>1. Renames(S \X T, h, T \X S, g, b)
    BY ONLY <1>1, <1>7, <1>8, <1>9 DEF Renames
  <2> QED
    BY <2>1, SumRename
<1>11. \A c \in S : row[c] \in [T -> Int] /\ \A o \in T : row[c][o] = h[<<c, o>>]
  <2> HIDE DEF h
  <2> QED
    BY <1>9
<1>12. r \in [S -> Int] /\ SumFunction(r) = SumFunction(h)
  <2>1. \A c \in S : SumFunction(row[c]) \in Int
    <3> HIDE DEF row
    <3> QED
      BY <1>1, <1>11, SumInt
  <2>2. r \in [S -> Int] /\ \A c \in S : r[c] = SumFunction(row[c])
    <3> HIDE DEF row
    <3> QED
      BY <2>1
  <2>3. row \in [S -> [T -> Int]]
    <3> HIDE DEF h
    <3> QED
      BY <1>9
  <2> HIDE DEF row, h, r
  <2>4. RowSums(S, T, row, h, r)
    BY ONLY <1>1, <1>9, <1>11, <2>2, <2>3 DEF RowSums
  <2> QED
    BY <2>2, <2>4, SumPairs
<1>13. \A ci \in T : col[ci] \in [S -> Int] /\ \A f \in S : col[ci][f] = g[<<ci, f>>]
  <2> HIDE DEF g
  <2> QED
    BY <1>7
<1>14. q \in [T -> Int] /\ SumFunction(q) = SumFunction(g)
  <2>1. \A ci \in T : SumFunction(col[ci]) \in Int
    <3> HIDE DEF col
    <3> QED
      BY <1>1, <1>13, SumInt
  <2>2. q \in [T -> Int] /\ \A ci \in T : q[ci] = SumFunction(col[ci])
    <3> HIDE DEF col
    <3> QED
      BY <2>1
  <2>3. col \in [T -> [S -> Int]]
    <3> HIDE DEF g
    <3> QED
      BY <1>7
  <2> HIDE DEF col, g, q
  <2>4. RowSums(T, S, col, g, q)
    BY ONLY <1>1, <1>7, <1>13, <2>2, <2>3 DEF RowSums
  <2> QED
    BY <2>2, <2>4, SumPairs
<1>15. ASSUME NEW c \in S PROVE r[c] = p * mine[c]
  <2>1. ASSUME NEW o \in T PROVE h[<<c, o>>] = G[k(OctantOf(c))][d][FaceOf(Plus(First(c), o), d, 0 - s)]
    <3>1. Finer[<<c, o>>] = <<OctantOf(c), Plus(First(c), o)>>
      BY <1>1 DEF Finer
    <3>2. Finer[<<c, o>>] \in T \X S
      <4>1. <<c, o>> \in S \X T /\ b[<<c, o>>] = Finer[<<c, o>>]
        OBVIOUS
      <4> HIDE DEF b
      <4> QED
        BY <1>8, <4>1
    <3>3. g[<<OctantOf(c), Plus(First(c), o)>>] = G[k(OctantOf(c))][d][FaceOf(Plus(First(c), o), d, 0 - s)]
      BY <3>1, <3>2
    <3>4. h[<<c, o>>] = g[Finer[<<c, o>>]]
      OBVIOUS
    <3> QED
      BY <3>1, <3>3, <3>4
  <2>2. row[c] = [o \in T |-> G[k(OctantOf(c))][d][FaceOf(Plus(First(c), o), d, 0 - s)]]
    <3> HIDE DEF h
    <3> QED
      BY <2>1
  <2>3. p * G[n][d][FaceOf(c, d, s)] =
          SumFunction([o \in T |-> G[k(OctantOf(c))][d][FaceOf(Plus(First(c), o), d, 0 - s)]])
    BY DEF Corrected
  <2> HIDE DEF row
  <2> QED
    BY <2>2, <2>3
<1>16. p \in Nat \ {0}
  <2>1. NDIM - 1 \in Nat
    BY GridAssumption
  <2> QED
    BY <2>1, Powers
<1> HIDE DEF p
<1>17. SumFunction(r) = p * Flow(G, n, d, s)
  <2>1. SumFunction(mine) = Flow(G, n, d, s)
    BY DEF Flow
  <2>2. p \in Int
    BY <1>16
  <2> HIDE DEF r, mine
  <2>3. SumFunction(r) = p * SumFunction(mine)
    BY <1>1, <1>7, <1>12, <1>15, <2>2, SumTimes
  <2> QED
    BY <2>1, <2>3
<1>18. ASSUME NEW ci \in T PROVE q[ci] = Flow(G, k(ci), d, 0 - s)
  <2>1. col[ci] = [f \in S |-> G[k(ci)][d][FaceOf(f, d, 0 - s)]]
    OBVIOUS
  <2> QED
    BY <2>1 DEF Flow
<1> DEFINE a == 2^((NDIM - 1) * (MaxLevel - (n.lev + 1)))
<1>19. \A ci \in T : Area(k(ci)) = a
  BY <1>4 DEF Area
<1> HIDE DEF a
<1>20. ASSUME NEW ci \in T PROVE w[ci] = a * q[ci]
  BY <1>18, <1>19 DEF Thru
<1>21. T # {}
  <2>1. [e \in Dim |-> 0] \in Octant
    BY DEF Octant, Vector
  <2> QED
    BY <2>1 DEF Flat
<1>22. a \in Nat /\ Area(n) = p * a
  <2>1. PICK ci \in T : TRUE
    BY <1>21
  <2>2. Area(n) = p * Area(k(ci)) /\ Area(k(ci)) \in Nat
    BY <1>2, <1>4, FinerArea DEF p
  <2> QED
    BY <1>19, <2>2
<1>23. w \in [T -> Int]
  <2>1. \A ci \in T : Thru(G, k(ci), d, 0 - s) \in Int
    BY <1>3, <1>4, <1>5, FlowType
  <2> QED
    BY <2>1
<1> HIDE DEF w, q
<1>24. SumFunction(w) = a * SumFunction(q) /\ SumFunction(q) \in Int
  <2>1. a \in Int
    BY <1>22
  <2> QED
    BY <1>1, <1>14, <1>20, <1>23, <2>1, SumTimes, SumInt
<1>25. Thru(G, n, d, s) = SumFunction(w)
  <2>1. PICK x, y : x = SumFunction(q) /\ y = Flow(G, n, d, s)
    OBVIOUS
  <2>2. x = p * y
    BY <1>10, <1>12, <1>14, <1>17, <2>1
  <2>3. y \in Int
    BY <1>2, <1>5, <2>1, FlowType
  <2>4. Thru(G, n, d, s) = (p * a) * y
    BY <1>22, <2>1 DEF Thru
  <2>5. (p * a) * y = a * (p * y)
    BY <1>16, <1>22, <2>3
  <2> QED
    BY <1>24, <2>1, <2>2, <2>4, <2>5
<1> QED
  BY <1>23, <1>25 DEF w

(* What flows through the faces of leaves that lie within the domain.      *)
Gain(t, G, d, s) == [n \in Lv(t) |-> IF Inner(n, d, s) THEN Thru(G, n, d, s) ELSE 0]

(* These are integers, for finitely many leaves.                           *)
LEMMA GainType ==
  ASSUME NEW t, t \in Trees, NEW G, Corrected(t, G), NEW d, d \in Dim, NEW s, s \in Sign
  PROVE  /\ IsFiniteSet(Lv(t)) /\ Gain(t, G, d, s) \in [Lv(t) -> Int]
         /\ \A n \in Lv(t) : Gain(t, G, d, s)[n] = IF Inner(n, d, s) THEN Thru(G, n, d, s) ELSE 0
<1>1. IsFiniteSet(Lv(t))
  BY NodesAre, FS_Subset DEF Lv
<1>2. \A n \in Lv(t) : Thru(G, n, d, s) \in Int
  BY FlowType DEF Corrected
<1> QED
  BY <1>1, <1>2 DEF Gain

(* They come from leaves of the same level, from nieces and from aunts.    *)
LEMMA GainParts ==
  ASSUME NEW t, t \in Trees, NEW G, Corrected(t, G), NEW d, d \in Dim, NEW s, s \in Sign
  PROVE  /\ SumFunction(Gain(t, G, d, s)) = SumFunction(Over(Gain(t, G, d, s), Even(t, d, s)))
                                            + SumFunction(Over(Gain(t, G, d, s), Aunts(t, d, s)))
                                            + SumFunction(Over(Gain(t, G, d, s), Nieces(t, d, s)))
         /\ SumFunction(Over(Gain(t, G, d, s), Even(t, d, s))) \in Int
         /\ SumFunction(Over(Gain(t, G, d, s), Aunts(t, d, s))) \in Int
         /\ SumFunction(Over(Gain(t, G, d, s), Nieces(t, d, s))) \in Int
<1> DEFINE S == Lv(t)
           h == Gain(t, G, d, s)
           A == Even(t, d, s)
           B == Aunts(t, d, s)
           C == Nieces(t, d, s)
<1>1. /\ IsFiniteSet(S) /\ h \in [S -> Int]
      /\ \A n \in S : h[n] = IF Inner(n, d, s) THEN Thru(G, n, d, s) ELSE 0
  BY GainType
<1>2. A \in SUBSET S /\ B \in SUBSET S /\ C \in SUBSET S
  BY DEF Even, Aunts, Nieces
<1>3. A \cap B = {} /\ A \cap C = {} /\ B \cap C = {}
  <2>1. t \subseteq Nodes(t)
    BY NodesAre
  <2> QED
    BY <2>1 DEF Even, Aunts, Nieces, Lv
<1>4. ASSUME NEW n \in S, n \notin A, n \notin B, n \notin C PROVE h[n] = 0
  <2>1. ~Inner(n, d, s)
    BY <1>4 DEF Even, Aunts, Nieces, Lv
  <2> QED
    BY <1>1, <2>1
<1> HIDE DEF S, h, A, B, C
<1>5. IsParts(S, h, A, B, C)
  BY ONLY <1>1, <1>2, <1>3, <1>4 DEF IsParts
<1>6. SumFunction(h) = SumFunction(Over(h, A)) + SumFunction(Over(h, B)) + SumFunction(Over(h, C))
  BY <1>5, SumParts
<1>7. /\ SumFunction(Over(h, A)) \in Int /\ SumFunction(Over(h, B)) \in Int
      /\ SumFunction(Over(h, C)) \in Int
  BY <1>1, <1>2, SumLaws
<1> QED
  BY <1>6, <1>7 DEF S, h, A, B, C

(* Leaves of one level give each other what they get.                      *)
LEMMA EvenBalance ==
  ASSUME NEW t, t \in Trees, NEW G, Corrected(t, G), NEW d, d \in Dim
  PROVE  SumFunction(Over(Gain(t, G, d, 1), Even(t, d, 1)))
           = SumFunction(Over(Gain(t, G, d, 0 - 1), Even(t, d, 0 - 1)))
<1> DEFINE f == Gain(t, G, d, 1)
           g == Gain(t, G, d, 0 - 1)
           S == Even(t, d, 1)
           T == Even(t, d, 0 - 1)
           b == [n \in S |-> Neighbor(n, d, 1)]
<1>1. 1 \in Sign /\ 0 - 1 \in Sign /\ 0 - (0 - 1) = 1
  BY DEF Sign
<1>2. /\ IsFiniteSet(Lv(t))
      /\ f \in [Lv(t) -> Int] /\ g \in [Lv(t) -> Int]
      /\ \A n \in Lv(t) : f[n] = IF Inner(n, d, 1) THEN Thru(G, n, d, 1) ELSE 0
      /\ \A n \in Lv(t) : g[n] = IF Inner(n, d, 0 - 1) THEN Thru(G, n, d, 0 - 1) ELSE 0
  BY <1>1, GainType
<1> HIDE DEF f, g
<1>3. S \subseteq Lv(t) /\ T \subseteq Lv(t) /\ IsFiniteSet(S) /\ IsFiniteSet(T) /\ Lv(t) \subseteq Nodes(t)
  BY <1>2, FS_Subset DEF Even, Lv
<1>4. ASSUME NEW n \in S
      PROVE  /\ Neighbor(n, d, 1) \in T /\ Neighbor(Neighbor(n, d, 1), d, 0 - 1) = n
             /\ Inner(n, d, 1) /\ Inner(Neighbor(n, d, 1), d, 0 - 1)
  <2>1. n \in Lv(t) /\ Neighbor(n, d, 1) \in Lv(t)
    BY DEF Even
  <2>2. /\ Neighbor(Neighbor(n, d, 1), d, 0 - 1) = n
        /\ Inner(n, d, 1) /\ Inner(Neighbor(n, d, 1), d, 0 - 1)
    BY <1>1, <1>3, <2>1, BesideIs
  <2> QED
    BY <2>1, <2>2 DEF Even
<1>5. ASSUME NEW n \in T PROVE Neighbor(n, d, 0 - 1) \in S /\ Neighbor(Neighbor(n, d, 0 - 1), d, 1) = n
  <2>1. n \in Lv(t) /\ Neighbor(n, d, 0 - 1) \in Lv(t)
    BY DEF Even
  <2>2. Neighbor(Neighbor(n, d, 0 - 1), d, 1) = n
    <3>1. Neighbor(Neighbor(n, d, 0 - 1), d, 0 - (0 - 1)) = n
      BY <1>1, <1>3, <2>1, BesideIs
    <3> QED
      BY <1>1, <3>1
  <2> QED
    BY <2>1, <2>2 DEF Even
<1>6. b \in [S -> T] /\ \A n \in S : b[n] = Neighbor(n, d, 1)
  BY <1>4
<1> HIDE DEF b
<1>7. \A x, y \in S : b[x] = b[y] => x = y
  BY <1>4, <1>6
<1>8. \A y \in T : \E x \in S : b[x] = y
  BY <1>5, <1>6
<1>9. \A n \in S : f[n] = g[b[n]]
  <2> SUFFICES ASSUME NEW n \in S PROVE f[n] = g[b[n]]
    OBVIOUS
  <2>1. f[n] = Thru(G, n, d, 1)
    BY <1>2, <1>3, <1>4
  <2>2. g[b[n]] = Thru(G, Neighbor(n, d, 1), d, 0 - 1)
    BY <1>2, <1>3, <1>4, <1>6
  <2> QED
    BY <2>1, <2>2, EvenFlow
<1>10. /\ Over(f, S) \in [S -> Int] /\ Over(g, T) \in [T -> Int]
       /\ \A n \in S : Over(f, S)[n] = Over(g, T)[b[n]]
  <2>1. \A n \in S : b[n] \in T
    BY <1>6
  <2>2. (\A n \in S : Over(f, S)[n] = f[n]) /\ \A n \in T : Over(g, T)[n] = g[n]
    BY DEF Over
  <2>3. Over(f, S) \in [S -> Int] /\ Over(g, T) \in [T -> Int]
    BY <1>2, <1>3 DEF Over
  <2> QED
    BY <1>9, <2>1, <2>2, <2>3
<1> HIDE DEF S, T
<1>11. Renames(S, Over(f, S), T, Over(g, T), b)
  BY ONLY <1>3, <1>6, <1>7, <1>8, <1>10 DEF Renames
<1> QED
  BY <1>11, SumRename DEF f, g, S, T

(* Aunts get what their nieces give, and the other way round.              *)
LEMMA AuntBalance ==
  ASSUME NEW t, t \in Trees, NEW G, Corrected(t, G), NEW d, d \in Dim, NEW s, s \in Sign
  PROVE  SumFunction(Over(Gain(t, G, d, s), Aunts(t, d, s)))
           = SumFunction(Over(Gain(t, G, d, 0 - s), Nieces(t, d, 0 - s)))
<1> DEFINE f == Gain(t, G, d, s)
           g == Gain(t, G, d, 0 - s)
           S == Aunts(t, d, s)
           C == Flat(d)
           T == Nieces(t, d, 0 - s)
           P == S \X C
           b == [z \in P |-> Niece(z[1], z[2], d, s)]
           h == [z \in P |-> Thru(G, Niece(z[1], z[2], d, s), d, 0 - s)]
           row == [n \in S |-> [ci \in C |-> Thru(G, Niece(n, ci, d, s), d, 0 - s)]]
<1>1. 0 - s \in Sign /\ 0 - (0 - s) = s
  BY OtherSign
<1>2. /\ IsFiniteSet(Lv(t))
      /\ f \in [Lv(t) -> Int] /\ g \in [Lv(t) -> Int]
      /\ \A n \in Lv(t) : f[n] = IF Inner(n, d, s) THEN Thru(G, n, d, s) ELSE 0
      /\ \A n \in Lv(t) : g[n] = IF Inner(n, d, 0 - s) THEN Thru(G, n, d, 0 - s) ELSE 0
  BY <1>1, GainType
<1> HIDE DEF f, g
<1>3. /\ S \subseteq Lv(t) /\ T \subseteq Lv(t) /\ IsFiniteSet(S) /\ IsFiniteSet(T)
      /\ S \subseteq Loc /\ C \subseteq Octant /\ IsFiniteSet(C) /\ IsFiniteSet(P)
  <2>1. S \subseteq Lv(t) /\ T \subseteq Lv(t)
    BY DEF Aunts, Nieces
  <2>2. Lv(t) \subseteq Loc
    BY NodesAre DEF Lv
  <2>3. C \subseteq Octant /\ IsFiniteSet(C)
    BY LowestAre
  <2>4. IsFiniteSet(S) /\ IsFiniteSet(T)
    BY <1>2, <2>1, FS_Subset
  <2>5. IsFiniteSet(P)
    BY <2>3, <2>4, FS_Product
  <2> QED
    BY <2>1, <2>2, <2>3, <2>4, <2>5
<1>4. ASSUME NEW n \in S
      PROVE  /\ \A ci \in C : Niece(n, ci, d, s) \in T
             /\ row[n] \in [C -> Int] /\ f[n] = SumFunction(row[n])
  <2>1. \A ci \in C : Niece(n, ci, d, s) \in T /\ Inner(n, d, s)
    BY <1>3, AuntsAre
  <2>2. /\ row[n] \in [C -> Int]
        /\ Thru(G, n, d, s) = SumFunction(row[n])
    <3>1. row[n] = [ci \in C |-> Thru(G, Niece(n, ci, d, s), d, 0 - s)]
      OBVIOUS
    <3> QED
      BY <3>1, AuntFlow
  <2>3. Inner(n, d, s)
    <3>1. Neighbor(n, d, s) \in Nodes(t) /\ n \in Nodes(t)
      BY NodesAre DEF Aunts, Lv
    <3> QED
      BY <3>1, BesideIs
  <2>4. f[n] = Thru(G, n, d, s)
    BY <1>2, <1>3, <2>3
  <2> HIDE DEF row
  <2> QED
    BY <2>1, <2>2, <2>4
<1>5. b \in [P -> T] /\ \A n \in S : \A ci \in C : b[<<n, ci>>] = Niece(n, ci, d, s)
  BY <1>4
<1>6. \A y, z \in P : b[y] = b[z] => y = z
  <2> SUFFICES ASSUME NEW y \in P, NEW z \in P, b[y] = b[z] PROVE y = z
    OBVIOUS
  <2>1. /\ y = <<y[1], y[2]>> /\ y[1] \in S /\ y[2] \in C
        /\ z = <<z[1], z[2]>> /\ z[1] \in S /\ z[2] \in C
    OBVIOUS
  <2>2. Niece(y[1], y[2], d, s) = Niece(z[1], z[2], d, s) /\ y[1] \in Loc /\ z[1] \in Loc
    BY <1>3, <2>1
  <2>3. y[1] = z[1] /\ y[2] = z[2]
    BY <2>1, <2>2, OneAunt
  <2> QED
    BY <2>1, <2>3
<1>7. \A m \in T : \E z \in P : b[z] = m
  <2> SUFFICES ASSUME NEW m \in T PROVE \E z \in P : b[z] = m
    OBVIOUS
  <2>1. PICK q \in Aunts(t, d, 0 - (0 - s)) : \E ci \in C : m = Niece(q, ci, d, 0 - (0 - s))
    BY <1>1, NiecesAre
  <2>2. PICK ci \in C : m = Niece(q, ci, d, s)
    BY <1>1, <2>1
  <2>3. q \in S
    BY <1>1, <2>1
  <2>4. <<q, ci>> \in P /\ b[<<q, ci>>] = m
    BY <2>2, <2>3
  <2> QED
    BY <2>4
<1>8. ASSUME NEW m \in T PROVE g[m] = Thru(G, m, d, 0 - s)
  <2>1. Inner(m, d, 0 - s) /\ m \in Lv(t)
    BY DEF Nieces
  <2> QED
    BY <1>2, <2>1
<1>9. /\ Over(g, T) \in [T -> Int] /\ \A m \in T : Over(g, T)[m] = g[m]
      /\ Over(f, S) \in [S -> Int] /\ \A n \in S : Over(f, S)[n] = f[n]
  BY <1>2, <1>3 DEF Over
<1>10. \A z \in P : b[z] \in T /\ h[z] = Thru(G, b[z], d, 0 - s)
  <2>1. \A z \in P : h[z] = Thru(G, Niece(z[1], z[2], d, s), d, 0 - s) /\ b[z] = Niece(z[1], z[2], d, s)
    OBVIOUS
  <2> HIDE DEF b, h, P
  <2> QED
    BY <1>5, <2>1
<1>11. h = [z \in P |-> h[z]]
  OBVIOUS
<1>12. row \in [S -> [C -> Int]] /\ \A n \in S : \A ci \in C : h[<<n, ci>>] = row[n][ci]
  <2>1. \A n \in S : \A ci \in C : h[<<n, ci>>] = row[n][ci]
    OBVIOUS
  <2>2. row = [n \in S |-> row[n]]
    OBVIOUS
  <2> HIDE DEF row, h
  <2> QED
    BY <1>4, <2>1, <2>2
<1> HIDE DEF b, h, row, P, S, T, C
<1>13. h \in [P -> Int] /\ \A z \in P : h[z] = Over(g, T)[b[z]]
  <2>1. \A z \in P : h[z] = Over(g, T)[b[z]]
    BY <1>8, <1>9, <1>10
  <2>2. \A z \in P : h[z] \in Int
    BY <1>9, <1>10, <2>1
  <2> QED
    BY <1>11, <2>1, <2>2
<1>14. Renames(P, h, T, Over(g, T), b)
  BY ONLY <1>3, <1>5, <1>6, <1>7, <1>9, <1>13 DEF Renames
<1>15. SumFunction(h) = SumFunction(Over(g, T))
  BY <1>14, SumRename
<1>16. RowSums(S, C, row, h, Over(f, S))
  <2>1. \A n \in S : Over(f, S)[n] = SumFunction(row[n])
    BY <1>4, <1>9
  <2>2. h \in [S \X C -> Int]
    BY <1>13 DEF P
  <2> QED
    BY ONLY <1>3, <1>9, <1>12, <2>1, <2>2 DEF RowSums
<1>17. SumFunction(Over(f, S)) = SumFunction(h)
  BY <1>16, SumPairs
<1> QED
  BY <1>15, <1>17 DEF f, g, S, T

(* What enters leaves through faces within the domain leaves others.       *)
LEMMA FacesBalance ==
  ASSUME NEW t, t \in Trees, NEW G, Corrected(t, G), NEW d, d \in Dim
  PROVE  SumFunction(Gain(t, G, d, 1)) = SumFunction(Gain(t, G, d, 0 - 1))
<1>1. 1 \in Sign /\ 0 - 1 \in Sign /\ 0 - (0 - 1) = 1
  BY DEF Sign
<1>2. PICK a, b, c, x, y, z, u, v :
        /\ a = SumFunction(Over(Gain(t, G, d, 1), Even(t, d, 1)))
        /\ b = SumFunction(Over(Gain(t, G, d, 1), Aunts(t, d, 1)))
        /\ c = SumFunction(Over(Gain(t, G, d, 1), Nieces(t, d, 1)))
        /\ x = SumFunction(Over(Gain(t, G, d, 0 - 1), Even(t, d, 0 - 1)))
        /\ y = SumFunction(Over(Gain(t, G, d, 0 - 1), Aunts(t, d, 0 - 1)))
        /\ z = SumFunction(Over(Gain(t, G, d, 0 - 1), Nieces(t, d, 0 - 1)))
        /\ u = SumFunction(Gain(t, G, d, 1)) /\ v = SumFunction(Gain(t, G, d, 0 - 1))
  OBVIOUS
<1>3. a = x
  BY <1>2, EvenBalance
<1>4. b = z
  BY <1>1, <1>2, AuntBalance
<1>5. y = c
  <2>1. SumFunction(Over(Gain(t, G, d, 0 - 1), Aunts(t, d, 0 - 1)))
           = SumFunction(Over(Gain(t, G, d, 0 - (0 - 1)), Nieces(t, d, 0 - (0 - 1))))
    BY <1>1, AuntBalance
  <2> QED
    BY <1>1, <1>2, <2>1
<1>6. u = a + b + c /\ v = x + y + z /\ a \in Int /\ b \in Int /\ c \in Int
  BY <1>1, <1>2, GainParts
<1>7. u = v
  BY ONLY <1>3, <1>4, <1>5, <1>6
<1> QED
  BY <1>2, <1>7

(* Fluxes into a node's cells, and out of the domain, as NetFlux and DuOut *)
(* have them for F.                                                        *)
Net(G, n, c) == SumFunction([d \in Dim |-> G[n][d][c] - G[n][d][Plus(c, Unit(d))]])
Lost(G, n) ==
  Area(n) * SumFunction([d \in Dim |-> SumFunction([c \in Lowest(d) |->
    (IF n.x[d] = 2^n.lev - 1 THEN G[n][d][Plus(c, Times(INX, Unit(d)))] ELSE 0)
    - (IF n.x[d] = 0 THEN G[n][d][c] ELSE 0)])])

Shift(c, d, k) == Plus(c, Times(k, Unit(d)))

(* A cell shifted has the other indices it had.                            *)
LEMMA ShiftIs ==
  ASSUME NEW c, c \in Vector(Int), NEW d, d \in Dim, NEW k, k \in Int
  PROVE  /\ Shift(c, d, k) \in Vector(Int)
         /\ \A e \in Dim : Shift(c, d, k)[e] = IF e = d THEN c[e] + k ELSE c[e]
         /\ k = 1 => Shift(c, d, k) = Plus(c, Unit(d))
<1>1. Unit(d) \in Vector(Int) /\ \A e \in Dim : Unit(d)[e] = IF e = d THEN 1 ELSE 0
  BY UnitIs
<1>2. Times(k, Unit(d)) \in Vector(Int) /\ \A e \in Dim : Times(k, Unit(d))[e] = k * Unit(d)[e]
  BY <1>1, Vectors
<1>3. \A e \in Dim : Times(k, Unit(d))[e] = IF e = d THEN k ELSE 0
  BY <1>1, <1>2
<1>4. /\ Shift(c, d, k) \in Vector(Int)
      /\ \A e \in Dim : c[e] \in Int /\ Shift(c, d, k)[e] = c[e] + Times(k, Unit(d))[e]
  BY <1>2, Vectors DEF Shift
<1>5. \A e \in Dim : Shift(c, d, k)[e] = IF e = d THEN c[e] + k ELSE c[e]
  BY <1>3, <1>4
<1>6. ASSUME k = 1 PROVE Shift(c, d, k) = Plus(c, Unit(d))
  <2>1. \A e \in Dim : Times(k, Unit(d))[e] = Unit(d)[e]
    BY <1>1, <1>3, <1>6
  <2>2. Times(k, Unit(d)) = Unit(d)
    BY <1>1, <1>2, <2>1, SameVector
  <2> QED
    BY <2>2 DEF Shift
<1> QED
  BY <1>4, <1>5, <1>6

(* There and back.                                                         *)
LEMMA ShiftBack ==
  ASSUME NEW c, c \in Vector(Int), NEW d, d \in Dim, NEW k, k \in Int, NEW j, j \in Int
  PROVE  Shift(Shift(c, d, k), d, j) = Shift(c, d, k + j) /\ Shift(c, d, 0) = c
<1>1. k + j \in Int /\ 0 \in Int
  OBVIOUS
<1>2. \A e \in Dim : c[e] \in Int
  BY DEF Vector
<1>3. /\ Shift(c, d, k) \in Vector(Int) /\ Shift(c, d, k + j) \in Vector(Int) /\ Shift(c, d, 0) \in Vector(Int)
      /\ \A e \in Dim : /\ Shift(c, d, k)[e] = IF e = d THEN c[e] + k ELSE c[e]
                        /\ Shift(c, d, k + j)[e] = IF e = d THEN c[e] + (k + j) ELSE c[e]
                        /\ Shift(c, d, 0)[e] = IF e = d THEN c[e] + 0 ELSE c[e]
  BY <1>1, ShiftIs
<1>4. /\ Shift(Shift(c, d, k), d, j) \in Vector(Int)
      /\ \A e \in Dim : Shift(Shift(c, d, k), d, j)[e] =
                          IF e = d THEN Shift(c, d, k)[e] + j ELSE Shift(c, d, k)[e]
  BY <1>3, ShiftIs
<1>5. \A e \in Dim : Shift(Shift(c, d, k), d, j)[e] = Shift(c, d, k + j)[e] /\ Shift(c, d, 0)[e] = c[e]
  BY <1>2, <1>3, <1>4
<1> QED
  BY <1>3, <1>4, <1>5, SameVector

(* Along a row of cells, what leaves one enters the next.                  *)
LEMMA Telescopes ==
  ASSUME NEW d, d \in Dim, NEW v, v \in [Face -> Int]
  PROVE  /\ [c \in Cell |-> v[c] - v[Plus(c, Unit(d))]] \in [Cell -> Int]
         /\ [c \in Lowest(d) |-> v[FaceOf(c, d, 1)]] \in [Lowest(d) -> Int]
         /\ [c \in Lowest(d) |-> v[FaceOf(c, d, 0 - 1)]] \in [Lowest(d) -> Int]
         /\ SumFunction([c \in Cell |-> v[c] - v[Plus(c, Unit(d))]])
              = SumFunction([c \in Lowest(d) |-> v[FaceOf(c, d, 0 - 1)]])
                - SumFunction([c \in Lowest(d) |-> v[FaceOf(c, d, 1)]])
<1> DEFINE f == [c \in Cell |-> v[c]]
           g == [c \in Cell |-> v[Plus(c, Unit(d))]]
           h == [c \in Cell |-> v[c] - v[Plus(c, Unit(d))]]
           low == [c \in Lowest(d) |-> v[FaceOf(c, d, 0 - 1)]]
           high == [c \in Lowest(d) |-> v[FaceOf(c, d, 1)]]
           L == Lowest(d)
           U1 == Cell \ L
           T == {c \in Cell : c[d] = INX - 1}
           W == Cell \ T
<1>1. INX \in Nat \ {0} /\ INX = 2 * Half /\ INX \in Int
  BY Halves
<1>2. /\ L \subseteq Cell /\ U1 \subseteq Cell /\ T \subseteq Cell /\ W \subseteq Cell
      /\ IsFiniteSet(Cell) /\ IsFiniteSet(L) /\ IsFiniteSet(U1) /\ IsFiniteSet(T) /\ IsFiniteSet(W)
  BY LowestAre, FS_Subset
<1>3. Cell \subseteq Vector(Int) /\ \A c \in Cell : \A e \in Dim : c[e] \in Int /\ 0 <= c[e] /\ c[e] <= INX - 1
  BY <1>1, CellsAre
<1>4. \A c \in Vector(Int) : (\A e \in Dim : 0 <= c[e] /\ c[e] <= INX - 1) => c \in Cell
  BY <1>1, CellsAre DEF Vector
<1>5. \A c \in Cell : c \in Face /\ Plus(c, Unit(d)) \in Face
  BY FacesAre
<1>6. \A c \in L : FaceOf(c, d, 1) \in Face /\ FaceOf(c, d, 0 - 1) \in Face /\ FaceOf(c, d, 0 - 1) = c
                   /\ FaceOf(c, d, 1) = Shift(c, d, INX)
  BY FacesAre DEF Lowest, Sign, FaceOf, Shift
<1>7. /\ f \in [Cell -> Int] /\ g \in [Cell -> Int] /\ h \in [Cell -> Int]
      /\ low \in [L -> Int] /\ high \in [L -> Int]
  BY <1>5, <1>6
<1>8. SumFunction(f) = SumFunction(h) + SumFunction(g)
  <2>1. \A c \in Cell : f[c] = h[c] + g[c]
    <3>1. \A c \in Cell : v[c] \in Int /\ v[Plus(c, Unit(d))] \in Int
      BY <1>5
    <3> QED
      BY <3>1
  <2> HIDE DEF f, g, h
  <2> QED
    BY <1>2, <1>7, <2>1, SumPlus
<1>9. /\ SumFunction(f) = SumFunction(Over(f, L)) + SumFunction(Over(f, U1))
      /\ SumFunction(g) = SumFunction(Over(g, T)) + SumFunction(Over(g, W))
  <2>1. L \cup U1 = Cell /\ L \cap U1 = {} /\ T \cup W = Cell /\ T \cap W = {}
    BY <1>2
  <2> HIDE DEF f, g, L, U1, T, W
  <2>2. f = Over(f, Cell) /\ g = Over(g, Cell)
    BY <1>2, <1>7, SumLaws
  <2>3. /\ L \in SUBSET Cell /\ U1 \in SUBSET Cell /\ T \in SUBSET Cell /\ W \in SUBSET Cell
    BY <1>2
  <2>4. SumFunction(Over(f, L \cup U1)) = SumFunction(Over(f, L)) + SumFunction(Over(f, U1))
    BY <1>2, <1>7, <2>1, <2>3, SumUnion
  <2>5. SumFunction(Over(g, T \cup W)) = SumFunction(Over(g, T)) + SumFunction(Over(g, W))
    BY <1>2, <1>7, <2>1, <2>3, SumUnion
  <2> QED
    BY <2>1, <2>2, <2>4, <2>5
<1>10. Over(f, L) = low
  BY <1>2, <1>6 DEF Over
<1>11. SumFunction(Over(g, W)) = SumFunction(Over(f, U1))
  <2> DEFINE b == [c \in W |-> Shift(c, d, 1)]
  <2>1. ASSUME NEW c \in W PROVE Shift(c, d, 1) \in U1 /\ Shift(Shift(c, d, 1), d, 0 - 1) = c
    <3>1. c \in Vector(Int) /\ c \in Cell /\ c[d] # INX - 1 /\ \A e \in Dim : c[e] \in Int /\ 0 <= c[e] /\ c[e] <= INX - 1
      BY <1>3
    <3>2. /\ Shift(c, d, 1) \in Vector(Int)
          /\ \A e \in Dim : Shift(c, d, 1)[e] = IF e = d THEN c[e] + 1 ELSE c[e]
      BY <3>1, ShiftIs
    <3>3. Shift(c, d, 1) \in Cell
      BY <1>1, <1>4, <3>1, <3>2
    <3>4. Shift(c, d, 1) \notin L
      BY <3>1, <3>2 DEF Lowest
    <3>5. Shift(Shift(c, d, 1), d, 0 - 1) = Shift(c, d, 1 + (0 - 1)) /\ Shift(c, d, 0) = c
      BY <3>1, ShiftBack
    <3>6. 1 + (0 - 1) = 0
      OBVIOUS
    <3> QED
      BY <3>3, <3>4, <3>5, <3>6
  <2>2. ASSUME NEW c \in U1 PROVE Shift(c, d, 0 - 1) \in W /\ Shift(Shift(c, d, 0 - 1), d, 1) = c
    <3>1. c \in Vector(Int) /\ c \in Cell /\ c[d] # 0 /\ \A e \in Dim : c[e] \in Int /\ 0 <= c[e] /\ c[e] <= INX - 1
      BY <1>3 DEF Lowest
    <3>2. /\ Shift(c, d, 0 - 1) \in Vector(Int)
          /\ \A e \in Dim : Shift(c, d, 0 - 1)[e] = IF e = d THEN c[e] + (0 - 1) ELSE c[e]
      BY <3>1, ShiftIs
    <3>3. Shift(c, d, 0 - 1) \in Cell
      BY <1>1, <1>4, <3>1, <3>2
    <3>4. Shift(c, d, 0 - 1)[d] # INX - 1
      BY <1>1, <3>1, <3>2
    <3>5. Shift(Shift(c, d, 0 - 1), d, 1) = Shift(c, d, (0 - 1) + 1) /\ Shift(c, d, 0) = c
      BY <3>1, ShiftBack
    <3>6. (0 - 1) + 1 = 0
      OBVIOUS
    <3> QED
      BY <3>3, <3>4, <3>5, <3>6
  <2>3. b \in [W -> U1] /\ \A c \in W : b[c] = Shift(c, d, 1)
    BY <2>1
  <2>4. \A c \in W : Shift(c, d, 1) = Plus(c, Unit(d))
    BY <1>2, <1>3, ShiftIs
  <2>5. \A c \in W : g[c] = v[b[c]] /\ b[c] \in Cell
    BY <2>3, <2>4
  <2>6. /\ Over(g, W) \in [W -> Int] /\ Over(f, U1) \in [U1 -> Int]
        /\ \A c \in W : Over(g, W)[c] = Over(f, U1)[b[c]]
    <3>1. \A c \in Cell : f[c] = v[c]
      OBVIOUS
    <3> HIDE DEF f, g, b, U1, W
    <3>2. \A c \in W : b[c] \in U1
      BY <2>3
    <3>3. (\A c \in W : Over(g, W)[c] = g[c]) /\ \A c \in U1 : Over(f, U1)[c] = f[c]
      BY DEF Over
    <3>4. Over(g, W) \in [W -> Int] /\ Over(f, U1) \in [U1 -> Int]
      BY <1>2, <1>7 DEF Over
    <3> QED
      BY <2>5, <3>1, <3>2, <3>3, <3>4
  <2> HIDE DEF b, f, g, U1, W
  <2>7. \A x, y \in W : b[x] = b[y] => x = y
    BY <2>1, <2>3
  <2>8. \A y \in U1 : \E x \in W : b[x] = y
    BY <2>2, <2>3
  <2>9. Renames(W, Over(g, W), U1, Over(f, U1), b)
    BY ONLY <1>2, <2>3, <2>6, <2>7, <2>8 DEF Renames
  <2> QED
    BY <2>9, SumRename
<1>12. SumFunction(high) = SumFunction(Over(g, T))
  <2> DEFINE b == [c \in L |-> Shift(c, d, INX - 1)]
  <2>0. INX - 1 \in Int /\ 0 - (INX - 1) \in Int
    BY <1>1
  <2>1. ASSUME NEW c \in L
        PROVE  /\ Shift(c, d, INX - 1) \in T /\ Shift(Shift(c, d, INX - 1), d, 0 - (INX - 1)) = c
               /\ Plus(Shift(c, d, INX - 1), Unit(d)) = FaceOf(c, d, 1)
    <3>1. c \in Vector(Int) /\ c \in Cell /\ c[d] = 0 /\ \A e \in Dim : c[e] \in Int /\ 0 <= c[e] /\ c[e] <= INX - 1
      BY <1>3 DEF Lowest
    <3>2. /\ Shift(c, d, INX - 1) \in Vector(Int)
          /\ \A e \in Dim : Shift(c, d, INX - 1)[e] = IF e = d THEN c[e] + (INX - 1) ELSE c[e]
      <4>1. PICK k \in Int : k = INX - 1
        BY <2>0
      <4>2. /\ Shift(c, d, k) \in Vector(Int)
            /\ \A e \in Dim : Shift(c, d, k)[e] = IF e = d THEN c[e] + k ELSE c[e]
        BY <3>1, ShiftIs
      <4> QED
        BY <4>1, <4>2
    <3>3. Shift(c, d, INX - 1) \in Cell
      BY <1>1, <1>4, <3>1, <3>2
    <3>4. Shift(c, d, INX - 1)[d] = INX - 1
      BY <1>1, <3>1, <3>2
    <3>5. Shift(Shift(c, d, INX - 1), d, 0 - (INX - 1)) = Shift(c, d, (INX - 1) + (0 - (INX - 1))) /\ Shift(c, d, 0) = c
      BY <2>0, <3>1, ShiftBack
    <3>6. (INX - 1) + (0 - (INX - 1)) = 0 /\ (INX - 1) + 1 = INX
      BY <1>1
    <3>7. Plus(Shift(c, d, INX - 1), Unit(d)) = Shift(Shift(c, d, INX - 1), d, 1)
      BY <3>2, ShiftIs
    <3>8. Shift(Shift(c, d, INX - 1), d, 1) = Shift(c, d, INX)
      BY <2>0, <3>1, <3>6, ShiftBack
    <3> QED
      BY <1>6, <3>3, <3>4, <3>5, <3>6, <3>7, <3>8
  <2>2. ASSUME NEW c \in T PROVE Shift(c, d, 0 - (INX - 1)) \in L /\ Shift(Shift(c, d, 0 - (INX - 1)), d, INX - 1) = c
    <3>1. c \in Vector(Int) /\ c \in Cell /\ c[d] = INX - 1 /\ \A e \in Dim : c[e] \in Int /\ 0 <= c[e] /\ c[e] <= INX - 1
      BY <1>3
    <3>2. /\ Shift(c, d, 0 - (INX - 1)) \in Vector(Int)
          /\ \A e \in Dim : Shift(c, d, 0 - (INX - 1))[e] = IF e = d THEN c[e] + (0 - (INX - 1)) ELSE c[e]
      <4>1. PICK k \in Int : k = 0 - (INX - 1)
        BY <2>0
      <4>2. /\ Shift(c, d, k) \in Vector(Int)
            /\ \A e \in Dim : Shift(c, d, k)[e] = IF e = d THEN c[e] + k ELSE c[e]
        BY <3>1, ShiftIs
      <4> QED
        BY <4>1, <4>2
    <3>3. Shift(c, d, 0 - (INX - 1)) \in Cell
      BY <1>1, <1>4, <3>1, <3>2
    <3>4. Shift(c, d, 0 - (INX - 1))[d] = 0
      BY <1>1, <3>1, <3>2
    <3>5. Shift(Shift(c, d, 0 - (INX - 1)), d, INX - 1) = Shift(c, d, (0 - (INX - 1)) + (INX - 1)) /\ Shift(c, d, 0) = c
      BY <2>0, <3>1, ShiftBack
    <3>6. (0 - (INX - 1)) + (INX - 1) = 0
      BY <1>1
    <3> QED
      BY <3>3, <3>4, <3>5, <3>6 DEF Lowest
  <2>3. b \in [L -> T] /\ \A c \in L : b[c] = Shift(c, d, INX - 1)
    BY <2>1
  <2>4. /\ Over(g, T) \in [T -> Int]
        /\ \A c \in L : high[c] = Over(g, T)[b[c]]
    <3>1. \A c \in L : high[c] = v[FaceOf(c, d, 1)]
      OBVIOUS
    <3>2. \A c \in Cell : g[c] = v[Plus(c, Unit(d))]
      OBVIOUS
    <3> HIDE DEF f, g, b, high, L, T
    <3>3. \A c \in L : b[c] \in T
      BY <2>3
    <3>4. \A c \in T : Over(g, T)[c] = g[c]
      BY DEF Over
    <3>5. Over(g, T) \in [T -> Int]
      BY <1>2, <1>7 DEF Over
    <3> QED
      BY <1>2, <2>1, <2>3, <3>1, <3>2, <3>3, <3>4, <3>5
  <2> HIDE DEF b, f, g, L, T, high
  <2>5. \A x, y \in L : b[x] = b[y] => x = y
    BY <2>1, <2>3
  <2>6. \A y \in T : \E x \in L : b[x] = y
    BY <2>2, <2>3
  <2>7. Renames(L, high, T, Over(g, T), b)
    BY ONLY <1>2, <1>7, <2>3, <2>4, <2>5, <2>6 DEF Renames
  <2> QED
    BY <2>7, SumRename
<1>13. SumFunction(h) = SumFunction(low) - SumFunction(high)
  <2> HIDE DEF f, g, h, low, high, L, U1, T, W
  <2>1. PICK a, b, x, y, z, w :
          /\ a = SumFunction(f) /\ b = SumFunction(g) /\ x = SumFunction(h)
          /\ y = SumFunction(low) /\ z = SumFunction(high) /\ w = SumFunction(Over(f, U1))
    OBVIOUS
  <2>2. x \in Int /\ y \in Int /\ z \in Int /\ w \in Int
    <3>1. U1 \in SUBSET Cell
      BY <1>2
    <3>2. SumFunction(Over(f, U1)) \in Int
      BY <1>2, <1>7, <3>1, SumLaws
    <3> QED
      BY <1>2, <1>7, <2>1, <3>2, SumInt
  <2>3. a = x + b /\ a = y + w /\ b = z + w
    BY <1>8, <1>9, <1>10, <1>11, <1>12, <2>1
  <2>4. x = y - z
    BY ONLY <2>2, <2>3
  <2> QED
    BY <2>1, <2>4
<1> QED
  BY <1>7, <1>13

(* What a node's cells get is what enters through its faces.               *)
LEMMA NetSum ==
  ASSUME NEW t, t \in Trees, NEW G, G \in [Lv(t) -> [Dim -> [Face -> Int]]], NEW n, n \in Lv(t)
  PROVE  /\ [c \in Cell |-> Net(G, n, c)] \in [Cell -> Int]
         /\ [d \in Dim |-> Flow(G, n, d, 0 - 1) - Flow(G, n, d, 1)] \in [Dim -> Int]
         /\ SumFunction([c \in Cell |-> Net(G, n, c)])
              = SumFunction([d \in Dim |-> Flow(G, n, d, 0 - 1) - Flow(G, n, d, 1)])
<1> DEFINE row == [c \in Cell |-> [d \in Dim |-> G[n][d][c] - G[n][d][Plus(c, Unit(d))]]]
           r == [c \in Cell |-> Net(G, n, c)]
           col == [d \in Dim |-> [c \in Cell |-> G[n][d][c] - G[n][d][Plus(c, Unit(d))]]]
           q == [d \in Dim |-> Flow(G, n, d, 0 - 1) - Flow(G, n, d, 1)]
<1>1. IsFiniteSet(Cell) /\ IsFiniteSet(Dim)
  <2>1. 1 \in Dim
    BY GridAssumption DEF Dim
  <2> QED
    BY <2>1, LowestAre
<1>2. \A d \in Dim : \A c \in Cell : c \in Face /\ Plus(c, Unit(d)) \in Face
  BY FacesAre
<1>3. \A d \in Dim : G[n][d] \in [Face -> Int]
  OBVIOUS
<1>4. ASSUME NEW c \in Cell PROVE row[c] \in [Dim -> Int] /\ r[c] = SumFunction(row[c])
  <2>1. row[c] \in [Dim -> Int]
    BY <1>2, <1>3
  <2>2. r[c] = SumFunction(row[c])
    BY DEF Net
  <2> QED
    BY <2>1, <2>2
<1>5. ASSUME NEW d \in Dim PROVE col[d] \in [Cell -> Int] /\ q[d] = SumFunction(col[d]) /\ q[d] \in Int
  <2>1. PICK v \in [Face -> Int] : v = G[n][d]
    BY <1>3
  <2>2. /\ [c \in Cell |-> v[c] - v[Plus(c, Unit(d))]] \in [Cell -> Int]
        /\ SumFunction([c \in Cell |-> v[c] - v[Plus(c, Unit(d))]])
              = SumFunction([c \in Lowest(d) |-> v[FaceOf(c, d, 0 - 1)]])
                - SumFunction([c \in Lowest(d) |-> v[FaceOf(c, d, 1)]])
    BY Telescopes
  <2>3. col[d] = [c \in Cell |-> v[c] - v[Plus(c, Unit(d))]]
    BY <2>1
  <2>4. /\ Flow(G, n, d, 0 - 1) = SumFunction([c \in Lowest(d) |-> v[FaceOf(c, d, 0 - 1)]])
        /\ Flow(G, n, d, 1) = SumFunction([c \in Lowest(d) |-> v[FaceOf(c, d, 1)]])
    BY <2>1 DEF Flow
  <2>5. q[d] = Flow(G, n, d, 0 - 1) - Flow(G, n, d, 1)
    OBVIOUS
  <2>6. SumFunction(col[d]) \in Int
    <3> HIDE DEF col
    <3> QED
      BY <1>1, <2>2, <2>3, SumInt
  <2> HIDE DEF col, q
  <2> QED
    BY <2>2, <2>3, <2>4, <2>5, <2>6
<1>6. /\ row \in [Cell -> [Dim -> Int]] /\ col \in [Dim -> [Cell -> Int]]
      /\ \A c \in Cell : \A d \in Dim : row[c][d] = col[d][c]
  <2>1. row = [c \in Cell |-> row[c]] /\ col = [d \in Dim |-> col[d]]
    OBVIOUS
  <2>2. \A c \in Cell : \A d \in Dim : row[c][d] = col[d][c]
    OBVIOUS
  <2> HIDE DEF row, col
  <2> QED
    BY <1>4, <1>5, <2>1, <2>2
<1>7. r \in [Cell -> Int]
  <2>1. \A c \in Cell : SumFunction(row[c]) \in Int
    <3> HIDE DEF row, r
    <3> QED
      BY <1>1, <1>4, SumInt
  <2>2. r = [c \in Cell |-> r[c]]
    OBVIOUS
  <2> HIDE DEF r, row
  <2> QED
    BY <1>4, <2>1, <2>2
<1>8. q \in [Dim -> Int]
  <2>1. q = [d \in Dim |-> q[d]]
    OBVIOUS
  <2> HIDE DEF q
  <2> QED
    BY <1>5, <2>1
<1> HIDE DEF row, col, r, q
<1>9. ColumnSums(Cell, Dim, row, r, col, q)
  BY ONLY <1>1, <1>4, <1>5, <1>6, <1>7, <1>8 DEF ColumnSums
<1>10. SumFunction(r) = SumFunction(q)
  BY <1>9, SumSwap
<1> QED
  BY <1>7, <1>8, <1>10 DEF r, q

(* A layer of cells makes a volume of its area.                            *)
LEMMA VolumeIs ==
  ASSUME NEW n, n.lev \in 0..MaxLevel
  PROVE  /\ Volume(n) = Area(n) * Dx(n)
         /\ Volume(n) \in Nat \ {0} /\ Area(n) \in Nat \ {0} /\ Dx(n) \in Nat \ {0}
<1>1. MaxLevel \in Nat /\ NDIM \in Nat \ {0}
  BY GridAssumption
<1>2. PICK k \in Nat : MaxLevel - n.lev = k
  BY <1>1
<1>3. NDIM * k \in Nat /\ (NDIM - 1) * k \in Nat /\ (NDIM - 1) * k + k = NDIM * k
  <2>1. PICK m \in Nat : m = NDIM - 1
    BY <1>1
  <2>2. m * k \in Nat /\ (m + 1) * k = m * k + k
    OBVIOUS
  <2>3. NDIM = m + 1
    BY <1>1, <2>1
  <2> QED
    BY <2>1, <2>2, <2>3
<1>4. 2^((NDIM - 1) * k + k) = 2^((NDIM - 1) * k) * 2^k
  BY <1>3, PowerSum
<1>5. Volume(n) = 2^(NDIM * k) /\ Area(n) = 2^((NDIM - 1) * k) /\ Dx(n) = 2^k
  BY <1>2 DEF Volume, Area, Dx
<1> QED
  BY <1>3, <1>4, <1>5, Powers

(* What leaves the domain flows through its boundary.                      *)
LEMMA LostIs ==
  ASSUME NEW t, t \in Trees, NEW G, G \in [Lv(t) -> [Dim -> [Face -> Int]]], NEW n, n \in Lv(t)
  PROVE  /\ [d \in Dim |-> (IF Inner(n, d, 1) THEN 0 ELSE Flow(G, n, d, 1))
                           - (IF Inner(n, d, 0 - 1) THEN 0 ELSE Flow(G, n, d, 0 - 1))] \in [Dim -> Int]
         /\ Lost(G, n) =
              Area(n) * SumFunction([d \in Dim |-> (IF Inner(n, d, 1) THEN 0 ELSE Flow(G, n, d, 1))
                           - (IF Inner(n, d, 0 - 1) THEN 0 ELSE Flow(G, n, d, 0 - 1))])
<1> DEFINE cell(d, c) == (IF n.x[d] = 2^n.lev - 1 THEN G[n][d][Plus(c, Times(INX, Unit(d)))] ELSE 0)
                         - (IF n.x[d] = 0 THEN G[n][d][c] ELSE 0)
           net(d) == (IF Inner(n, d, 1) THEN 0 ELSE Flow(G, n, d, 1))
                     - (IF Inner(n, d, 0 - 1) THEN 0 ELSE Flow(G, n, d, 0 - 1))
<1>1. ASSUME NEW d \in Dim
      PROVE  /\ SumFunction([c \in Lowest(d) |-> cell(d, c)]) = net(d) /\ net(d) \in Int
  <2> DEFINE L == Lowest(d)
             up == [c \in L |-> G[n][d][FaceOf(c, d, 1)]]
             down == [c \in L |-> G[n][d][FaceOf(c, d, 0 - 1)]]
             over == IF Inner(n, d, 1) THEN 0 ELSE 1
             under == IF Inner(n, d, 0 - 1) THEN 0 ELSE 0 - 1
             f == [c \in L |-> over * up[c]]
             g == [c \in L |-> under * down[c]]
             h == [c \in L |-> cell(d, c)]
  <2>1. IsFiniteSet(L) /\ 1 \in Sign /\ 0 - 1 \in Sign
    BY LowestAre DEF Sign
  <2>2. up \in [L -> Int] /\ down \in [L -> Int]
    BY <2>1, FlowType
  <2>3. SumFunction(up) = Flow(G, n, d, 1) /\ SumFunction(down) = Flow(G, n, d, 0 - 1)
    BY DEF Flow
  <2>4. over \in {0, 1} /\ under \in {0, 0 - 1}
    OBVIOUS
  <2>5. ASSUME NEW c \in L PROVE h[c] = f[c] + g[c] /\ f[c] \in Int /\ g[c] \in Int
    <3>1. up[c] = G[n][d][Plus(c, Times(INX, Unit(d)))] /\ down[c] = G[n][d][c]
      BY DEF FaceOf
    <3>2. up[c] \in Int /\ down[c] \in Int
      BY <2>2
    <3>3. h[c] = (IF n.x[d] = 2^n.lev - 1 THEN up[c] ELSE 0) - (IF n.x[d] = 0 THEN down[c] ELSE 0)
      BY <3>1
    <3>4. f[c] = over * up[c] /\ g[c] = under * down[c]
      OBVIOUS
    <3>5. (Inner(n, d, 1) <=> n.x[d] # 2^n.lev - 1) /\ (Inner(n, d, 0 - 1) <=> n.x[d] # 0)
      BY DEF Inner
    <3>6. over = (IF n.x[d] = 2^n.lev - 1 THEN 1 ELSE 0) /\ under = (IF n.x[d] = 0 THEN 0 - 1 ELSE 0)
      BY <3>5
    <3> HIDE DEF up, down, over, under, f, g, h
    <3>7. f[c] = (IF n.x[d] = 2^n.lev - 1 THEN up[c] ELSE 0)
      BY <3>2, <3>4, <3>6
    <3>8. g[c] = (IF n.x[d] = 0 THEN 0 - down[c] ELSE 0)
      BY <3>2, <3>4, <3>6
    <3> QED
      BY <3>2, <3>3, <3>7, <3>8
  <2>6. f \in [L -> Int] /\ g \in [L -> Int] /\ h \in [L -> Int]
    <3>1. f = [c \in L |-> f[c]] /\ g = [c \in L |-> g[c]] /\ h = [c \in L |-> h[c]]
      OBVIOUS
    <3> HIDE DEF f, g, h
    <3>2. \A c \in L : f[c] \in Int /\ g[c] \in Int /\ h[c] \in Int
      BY <2>5
    <3> QED
      BY <3>1, <3>2
  <2>7. (\A c \in L : f[c] = over * up[c]) /\ \A c \in L : g[c] = under * down[c]
    OBVIOUS
  <2>8. Flow(G, n, d, 1) \in Int /\ Flow(G, n, d, 0 - 1) \in Int
    BY <2>1, FlowType
  <2>9. net(d) = over * Flow(G, n, d, 1) + under * Flow(G, n, d, 0 - 1) /\ net(d) \in Int
    BY <2>8
  <2> HIDE DEF up, down, over, under, f, g, h, cell, net
  <2>10. over \in Int /\ under \in Int
    BY <2>4
  <2>11. SumFunction(f) = over * SumFunction(up) /\ SumFunction(g) = under * SumFunction(down)
    <3>1. IsFiniteSet(L)
      BY <2>1
    <3> HIDE DEF L
    <3> QED
      <4>1. SumFunction(f) = over * SumFunction(up)
        BY ONLY <2>2, <2>6, <2>7, <2>10, <3>1, SumTimes
      <4>2. SumFunction(g) = under * SumFunction(down)
        BY ONLY <2>2, <2>6, <2>7, <2>10, <3>1, SumTimes
      <4> QED
        BY <4>1, <4>2
  <2>12. SumFunction(h) = SumFunction(f) + SumFunction(g)
    <3>1. IsFiniteSet(L)
      BY <2>1
    <3> HIDE DEF L
    <3> QED
      BY ONLY <2>5, <2>6, <3>1, SumPlus
  <2>13. SumFunction(h) = net(d)
    BY <2>3, <2>9, <2>11, <2>12
  <2> QED
    BY <2>9, <2>13 DEF h
<1>2. [d \in Dim |-> net(d)] \in [Dim -> Int]
  <2> HIDE DEF net
  <2> QED
    BY <1>1
<1>3. [d \in Dim |-> SumFunction([c \in Lowest(d) |-> cell(d, c)])] = [d \in Dim |-> net(d)]
  <2> HIDE DEF net, cell
  <2> QED
    BY <1>1
<1>4. Lost(G, n) = Area(n) * SumFunction([d \in Dim |-> SumFunction([c \in Lowest(d) |-> cell(d, c)])])
  BY DEF Lost
<1>5. Lost(G, n) = Area(n) * SumFunction([d \in Dim |-> net(d)])
  <2> HIDE DEF cell, net
  <2> QED
    BY <1>3, <1>4
<1> QED
  BY <1>2, <1>5

(* What enters a leaf through its faces within the domain.                 *)
Enters(t, G, n) == [d \in Dim |-> Gain(t, G, d, 0 - 1)[n] - Gain(t, G, d, 1)[n]]

(* What a leaf's cells get and what leaves the domain there is what enters *)
(* the leaf through its faces within the domain.                           *)
LEMMA NodeGain ==
  ASSUME NEW t, t \in Trees, NEW G, Corrected(t, G), NEW n, n \in Lv(t)
  PROVE  /\ SumFunction([c \in Cell |-> Net(G, n, c)]) \in Int /\ Lost(G, n) \in Int
         /\ Enters(t, G, n) \in [Dim -> Int]
         /\ Area(n) * SumFunction([c \in Cell |-> Net(G, n, c)]) + Lost(G, n)
              = SumFunction(Enters(t, G, n))
<1> DEFINE into(d) == Flow(G, n, d, 0 - 1) - Flow(G, n, d, 1)
           away(d) == (IF Inner(n, d, 1) THEN 0 ELSE Flow(G, n, d, 1))
                      - (IF Inner(n, d, 0 - 1) THEN 0 ELSE Flow(G, n, d, 0 - 1))
           p == [d \in Dim |-> into(d)]
           q == [d \in Dim |-> away(d)]
           r == [d \in Dim |-> into(d) + away(d)]
           h == [d \in Dim |-> Gain(t, G, d, 0 - 1)[n] - Gain(t, G, d, 1)[n]]
           a == Area(n)
           x == SumFunction([c \in Cell |-> Net(G, n, c)])
<1>1. G \in [Lv(t) -> [Dim -> [Face -> Int]]]
  BY DEF Corrected
<1>2. IsFiniteSet(Dim) /\ IsFiniteSet(Cell) /\ 1 \in Sign /\ 0 - 1 \in Sign
  <2>1. 1 \in Dim
    BY GridAssumption DEF Dim
  <2> QED
    BY <2>1, LowestAre DEF Sign
<1>3. p \in [Dim -> Int] /\ x = SumFunction(p) /\ [c \in Cell |-> Net(G, n, c)] \in [Cell -> Int]
  <2>1. /\ [c \in Cell |-> Net(G, n, c)] \in [Cell -> Int]
        /\ [d \in Dim |-> Flow(G, n, d, 0 - 1) - Flow(G, n, d, 1)] \in [Dim -> Int]
        /\ SumFunction([c \in Cell |-> Net(G, n, c)])
              = SumFunction([d \in Dim |-> Flow(G, n, d, 0 - 1) - Flow(G, n, d, 1)])
    BY <1>1, NetSum
  <2>2. p = [d \in Dim |-> Flow(G, n, d, 0 - 1) - Flow(G, n, d, 1)]
    OBVIOUS
  <2> HIDE DEF p
  <2> QED
    BY <2>1, <2>2
<1>4. q \in [Dim -> Int] /\ Lost(G, n) = a * SumFunction(q)
  BY <1>1, LostIs
<1>5. a \in Nat
  <2>1. 1 \in Dim
    BY GridAssumption DEF Dim
  <2> QED
    BY <1>1, <1>2, <2>1, FlowType
<1>6. ASSUME NEW d \in Dim
      PROVE  /\ Gain(t, G, d, 0 - 1)[n] - Gain(t, G, d, 1)[n] = a * r[d]
             /\ r[d] \in Int /\ a * r[d] \in Int /\ r[d] = p[d] + q[d]
  <2>1. PICK u, v : u = Flow(G, n, d, 1) /\ v = Flow(G, n, d, 0 - 1)
    OBVIOUS
  <2>2. u \in Int /\ v \in Int
    BY <1>1, <1>2, <2>1, FlowType
  <2>3. /\ Gain(t, G, d, 1)[n] = IF Inner(n, d, 1) THEN a * u ELSE 0
        /\ Gain(t, G, d, 0 - 1)[n] = IF Inner(n, d, 0 - 1) THEN a * v ELSE 0
    BY <2>1 DEF Gain, Thru
  <2>4. p[d] = v - u /\ q[d] = (IF Inner(n, d, 1) THEN 0 ELSE u) - (IF Inner(n, d, 0 - 1) THEN 0 ELSE v)
    BY <2>1
  <2>5. r[d] = p[d] + q[d]
    OBVIOUS
  <2> HIDE DEF a, p, q, r
  <2>6. r[d] = (IF Inner(n, d, 0 - 1) THEN v ELSE 0) - (IF Inner(n, d, 1) THEN u ELSE 0)
    BY <2>2, <2>4, <2>5
  <2>7. PICK y, z : y = (IF Inner(n, d, 0 - 1) THEN v ELSE 0) /\ z = (IF Inner(n, d, 1) THEN u ELSE 0)
    OBVIOUS
  <2>8. y \in Int /\ z \in Int /\ r[d] = y - z
    BY <2>2, <2>6, <2>7
  <2>9. Gain(t, G, d, 0 - 1)[n] = a * y /\ Gain(t, G, d, 1)[n] = a * z
    <3>1. a * 0 = 0
      BY <1>5
    <3> QED
      BY <2>3, <2>7, <3>1
  <2>10. a * (y - z) = a * y - a * z /\ a * (y - z) \in Int
    BY <1>5, <2>8
  <2> QED
    BY <2>5, <2>8, <2>9, <2>10
<1>7. r \in [Dim -> Int] /\ h \in [Dim -> Int] /\ \A d \in Dim : h[d] = a * r[d]
  <2>1. r = [d \in Dim |-> r[d]] /\ h = [d \in Dim |-> h[d]]
    OBVIOUS
  <2>2. \A d \in Dim : h[d] = Gain(t, G, d, 0 - 1)[n] - Gain(t, G, d, 1)[n]
    OBVIOUS
  <2> HIDE DEF r, h, a
  <2> QED
    BY <1>6, <2>1, <2>2
<1> HIDE DEF p, q, r, h, a
<1>8. SumFunction(r) = SumFunction(p) + SumFunction(q)
  <2>1. \A d \in Dim : r[d] = p[d] + q[d]
    BY <1>6
  <2> QED
    BY ONLY <1>2, <1>3, <1>4, <1>7, <2>1, SumPlus
<1>9. SumFunction(h) = a * SumFunction(r)
  <2>1. a \in Int
    BY <1>5
  <2> QED
    BY ONLY <1>2, <1>7, <2>1, SumTimes
<1>10. SumFunction(p) \in Int /\ SumFunction(q) \in Int
  BY <1>2, <1>3, <1>4, SumInt
<1>11. PICK u, v, w, z : u = SumFunction(p) /\ v = SumFunction(q) /\ w = SumFunction(r) /\ z = SumFunction(h)
  OBVIOUS
<1>12. u \in Int /\ v \in Int /\ w = u + v /\ z = a * w /\ x = u /\ Lost(G, n) = a * v
  BY <1>3, <1>4, <1>8, <1>9, <1>10, <1>11
<1>13. z = a * x + Lost(G, n) /\ x \in Int /\ Lost(G, n) \in Int
  <2>1. a * (u + v) = a * u + a * v /\ a * v \in Int
    BY <1>5, <1>12
  <2> HIDE DEF x
  <2> QED
    BY <1>12, <2>1
<1> QED
  BY <1>7, <1>11, <1>13 DEF h, a, x, Enters

(* What flows into the cells of the leaves and what next_u finds to leave  *)
(* the domain add up to nothing: none is lost or made at faces within a    *)
(* leaf, between leaves of one level, or between a leaf and finer ones,    *)
(* with which fluxes were corrected.                                       *)
THEOREM NothingLost ==
  ASSUME NEW t, t \in Trees, NEW G, Corrected(t, G),
         NEW w, w \in [Lv(t) -> Int],
         \A n \in Lv(t) : w[n] = Area(n) * SumFunction([c \in Cell |-> Net(G, n, c)]) + Lost(G, n)
  PROVE  SumFunction(w) = 0
<1> DEFINE L == Lv(t)
           row == [n \in L |-> [d \in Dim |-> Gain(t, G, d, 0 - 1)[n] - Gain(t, G, d, 1)[n]]]
           col == [d \in Dim |-> [n \in L |-> Gain(t, G, d, 0 - 1)[n] - Gain(t, G, d, 1)[n]]]
           q == [d \in Dim |-> 0]
<1>1. IsFiniteSet(Dim) /\ 1 \in Sign /\ 0 - 1 \in Sign /\ IsFiniteSet(L)
  <2>1. 1 \in Dim
    BY GridAssumption DEF Dim
  <2> QED
    BY <2>1, LowestAre, GainType DEF Sign
<1>2. ASSUME NEW n \in L PROVE row[n] \in [Dim -> Int] /\ w[n] = SumFunction(row[n])
  <2>1. row[n] = Enters(t, G, n)
    BY DEF Enters
  <2>2. /\ Enters(t, G, n) \in [Dim -> Int]
        /\ Area(n) * SumFunction([c \in Cell |-> Net(G, n, c)]) + Lost(G, n)
              = SumFunction(Enters(t, G, n))
    <3> HIDE DEF row, col
    <3> QED
      BY NodeGain
  <2> HIDE DEF row
  <2> QED
    BY <2>1, <2>2
<1>3. ASSUME NEW d \in Dim PROVE col[d] \in [L -> Int] /\ SumFunction(col[d]) = 0
  <2> DEFINE f == Gain(t, G, d, 1)
             g == Gain(t, G, d, 0 - 1)
             c == col[d]
  <2>1. f \in [L -> Int] /\ g \in [L -> Int]
    BY <1>1, GainType
  <2>2. SumFunction(f) = SumFunction(g)
    BY FacesBalance
  <2>3. c = [n \in L |-> g[n] - f[n]]
    OBVIOUS
  <2> HIDE DEF f, g, c, col
  <2>4. c \in [L -> Int] /\ \A n \in L : g[n] = c[n] + f[n]
    <3>1. \A n \in L : g[n] \in Int /\ f[n] \in Int
      BY <2>1
    <3> HIDE DEF L
    <3> QED
      BY <2>3, <3>1
  <2> HIDE DEF L
  <2>5. SumFunction(g) = SumFunction(c) + SumFunction(f)
    BY ONLY <1>1, <2>1, <2>4, SumPlus
  <2>6. SumFunction(c) \in Int /\ SumFunction(f) \in Int
    BY ONLY <1>1, <2>1, <2>4, SumInt
  <2>7. SumFunction(c) = 0
    BY ONLY <2>2, <2>5, <2>6
  <2> QED
    BY <2>4, <2>7 DEF c
<1>4. /\ row \in [L -> [Dim -> Int]] /\ col \in [Dim -> [L -> Int]]
      /\ \A n \in L : \A d \in Dim : row[n][d] = col[d][n]
  <2>1. row = [n \in L |-> row[n]] /\ col = [d \in Dim |-> col[d]]
    OBVIOUS
  <2>2. \A n \in L : \A d \in Dim : row[n][d] = col[d][n]
    OBVIOUS
  <2> HIDE DEF row, col, L
  <2> QED
    BY <1>2, <1>3, <2>1, <2>2
<1>5. q \in [Dim -> Int] /\ \A d \in Dim : q[d] = 0
  OBVIOUS
<1> HIDE DEF row, col, q, L
<1>6. ColumnSums(L, Dim, row, w, col, q)
  <2>1. w \in [L -> Int]
    BY DEF L
  <2> QED
    BY ONLY <1>1, <1>2, <1>3, <1>4, <1>5, <2>1 DEF ColumnSums
<1>7. SumFunction(w) = SumFunction(q)
  BY <1>6, SumSwap
<1>8. SumFunction(q) = 0
  <2>1. 0 \in Int /\ \A d \in Dim : q[d] = 0 * q[d]
    BY <1>5
  <2>2. SumFunction(q) = 0 * SumFunction(q) /\ SumFunction(q) \in Int
    BY ONLY <1>1, <1>5, <2>1, SumTimes, SumInt
  <2> QED
    BY <2>2
<1> QED
  BY <1>7, <1>8

(* An index counted through the domain is within it.                       *)
LEMMA Within ==
  ASSUME NEW a \in Nat, NEW x \in Int, NEW p \in Nat, NEW q \in Nat, NEW i \in (0 - 1)..a,
         0 <= x, x <= p - 1, p <= q
  PROVE  a * x + i \in (0 - 1)..(a * q)
<1>1. PICK u \in Nat : q = x + 1 + u
  <2>1. q - 1 - x \in Nat /\ q = x + 1 + (q - 1 - x)
    OBVIOUS
  <2> QED
    BY <2>1
<1>2. a * q = a * x + a + a * u /\ a * u \in Nat /\ a * x \in Nat
  <2>1. a * (x + 1 + u) = a * x + a + a * u
    OBVIOUS
  <2>2. a * u \in Nat /\ a * x \in Nat
    OBVIOUS
  <2> QED
    BY <1>1, <2>1, <2>2
<1>3. PICK b, c, e : b = a * x /\ c = a * u /\ e = a * q
  OBVIOUS
<1>4. e = b + a + c /\ b \in Nat /\ c \in Nat
  BY <1>2, <1>3
<1>5. b + i \in (0 - 1)..e
  BY <1>4
<1> QED
  BY <1>3, <1>5

(* Cells, faces and the cells around a node have a place.                  *)
LEMMA PlaceIs ==
  ASSUME NEW t, t \in Trees, NEW n, n \in Nodes(t), NEW d, d \in 0..NDIM,
         NEW i, i \in Vector((0 - 1)..INX)
  PROVE  Place(n, d, i) \in Places
<1>1. /\ n \in Loc /\ n.lev \in 0..MaxLevel
      /\ \A e \in Dim : n.x[e] \in Int /\ 0 <= n.x[e] /\ n.x[e] <= 2^n.lev - 1
  BY NodesInDomain
<1>2. MaxLevel \in Nat /\ INX \in Nat
  BY GridAssumption
<1>3. PICK k \in Nat : MaxLevel = n.lev + k /\ n.lev \in Nat
  <2>1. MaxLevel - n.lev \in Nat /\ MaxLevel = n.lev + (MaxLevel - n.lev) /\ n.lev \in Nat
    BY <1>1, <1>2
  <2> QED
    BY <2>1
<1>4. PICK p \in Nat, q \in Nat : p = 2^n.lev /\ q = 2^MaxLevel /\ p <= q
  <2>1. 2^(n.lev + k) = 2^n.lev * 2^k
    BY <1>3, PowerSum
  <2>2. PICK p \in Nat, j \in Nat \ {0} : p = 2^n.lev /\ j = 2^k
    BY <1>3, Powers
  <2>3. 2^MaxLevel = p * j
    BY <1>3, <2>1, <2>2
  <2>4. PICK l \in Nat : j = 1 + l
    <3>1. j - 1 \in Nat /\ j = 1 + (j - 1)
      OBVIOUS
    <3> QED
      BY <3>1
  <2>5. p * (1 + l) = p + p * l /\ p * l \in Nat
    OBVIOUS
  <2>6. p * j \in Nat /\ p <= p * j
    BY <2>4, <2>5
  <2> QED
    BY <2>2, <2>3, <2>6
<1>5. i = [e \in Dim |-> i[e]] /\ \A e \in Dim : i[e] \in (0 - 1)..INX /\ i[e] \in Int
  BY <1>2 DEF Vector
<1> DEFINE y == Plus(Times(INX, n.x), i)
<1>6. n.x \in Vector(Int) /\ INX \in Int /\ i \in Vector(Int)
  BY <1>1, <1>2, <1>5 DEF Loc, Vector
<1>7. Times(INX, n.x) \in Vector(Int) /\ \A e \in Dim : Times(INX, n.x)[e] = INX * n.x[e]
  BY <1>6, Vectors
<1>8. y \in Vector(Int) /\ \A e \in Dim : y[e] = INX * n.x[e] + i[e]
  BY <1>6, <1>7, Vectors
<1> HIDE DEF y
<1>9. ASSUME NEW e \in Dim PROVE y[e] \in (0 - 1)..(INX * 2^MaxLevel)
  <2>1. n.x[e] \in Int /\ 0 <= n.x[e] /\ n.x[e] <= p - 1
    BY <1>1, <1>4
  <2>2. INX * n.x[e] + i[e] \in (0 - 1)..(INX * q)
    BY <1>2, <1>4, <1>5, <2>1, Within
  <2> QED
    BY <1>4, <1>8, <2>2
<1>10. y \in Vector((0 - 1)..(INX * 2^MaxLevel))
  <2>1. y = [e \in Dim |-> y[e]]
    BY <1>8 DEF Vector
  <2> QED
    BY <1>9, <2>1 DEF Vector
<1> QED
  BY <1>1, <1>10 DEF Place, Places, y

-----------------------------------------------------------------------------
(* The finer values under a cell, and a child's.                           *)
Fine(g, c) == [o \in Octant |-> g[<<OctantOf(c), Plus(First(c), o)>>]]
FineSums(g) == [c \in Cell |-> SumFunction(Fine(g, c))]
Below(g, ci) == [f \in Cell |-> g[<<ci, f>>]]
BelowSums(g) == [ci \in Octant |-> SumFunction(Below(g, ci))]

(* Both ways to add up the finer values of a node give the same.           *)
LEMMA FinerSum ==
  ASSUME NEW g, g \in [Octant \X Cell -> Int]
  PROVE  /\ FineSums(g) \in [Cell -> Int] /\ BelowSums(g) \in [Octant -> Int]
         /\ SumFunction(FineSums(g)) = SumFunction(BelowSums(g))
<1> DEFINE S == Cell
           T == Octant
           h == [z \in S \X T |-> g[Finer[z]]]
           row == [c \in S |-> Fine(g, c)]
           col == [ci \in T |-> Below(g, ci)]
           r == FineSums(g)
           q == BelowSums(g)
<1>1. IsFiniteSet(S) /\ IsFiniteSet(T) /\ IsFiniteSet(S \X T) /\ IsFiniteSet(T \X S)
  <2>1. 1 \in Dim
    BY GridAssumption DEF Dim
  <2>2. IsFiniteSet(S) /\ IsFiniteSet(T)
    BY <2>1, LowestAre, Octants
  <2> QED
    BY <2>2, FS_Product
<1>2. /\ Finer \in [S \X T -> T \X S] /\ \A y, z \in S \X T : Finer[y] = Finer[z] => y = z
      /\ \A v \in T \X S : \E z \in S \X T : Finer[z] = v
      /\ \A c \in S : \A o \in T : Finer[<<c, o>>] = <<OctantOf(c), Plus(First(c), o)>>
  <2>1. /\ Finer \in [S \X T -> T \X S] /\ Coarser \in [T \X S -> S \X T]
        /\ \A z \in S \X T : Coarser[Finer[z]] = z
        /\ \A z \in T \X S : Finer[Coarser[z]] = z
    BY FinerCellsAre
  <2>2. \A c \in S : \A o \in T : Finer[<<c, o>>] = <<OctantOf(c), Plus(First(c), o)>>
    BY DEF Finer
  <2> HIDE DEF S, T
  <2> QED
    BY <2>1, <2>2
<1>3. h \in [S \X T -> Int] /\ \A z \in S \X T : h[z] = g[Finer[z]]
  BY <1>2
<1>4. Renames(S \X T, h, T \X S, g, Finer)
  <2> HIDE DEF h, S, T
  <2>1. g \in [T \X S -> Int]
    BY DEF S, T
  <2> QED
    BY ONLY <1>1, <1>2, <1>3, <2>1 DEF Renames
<1>5. SumFunction(h) = SumFunction(g)
  BY <1>4, SumRename
<1>6. \A c \in S : /\ row[c] \in [T -> Int] /\ r[c] = SumFunction(row[c])
                   /\ \A o \in T : row[c][o] = h[<<c, o>>]
  <2> SUFFICES ASSUME NEW c \in S
               PROVE  /\ row[c] \in [T -> Int] /\ r[c] = SumFunction(row[c])
                      /\ \A o \in T : row[c][o] = h[<<c, o>>]
    OBVIOUS
  <2>1. \A o \in T : row[c][o] = h[<<c, o>>]
    <3> SUFFICES ASSUME NEW o \in T PROVE row[c][o] = h[<<c, o>>]
      OBVIOUS
    <3>1. row[c][o] = g[<<OctantOf(c), Plus(First(c), o)>>]
      BY DEF Fine
    <3>2. h[<<c, o>>] = g[Finer[<<c, o>>]]
      OBVIOUS
    <3> HIDE DEF row, h, r
    <3> QED
      BY <1>2, <3>1, <3>2
  <2>2. row[c] = [o \in T |-> row[c][o]] /\ r[c] = SumFunction(row[c])
    BY DEF Fine, FineSums
  <2>3. \A o \in T : h[<<c, o>>] \in Int
    <3> HIDE DEF h
    <3> QED
      BY <1>3
  <2> HIDE DEF row, h, r
  <2> QED
    BY <2>1, <2>2, <2>3
<1>7. \A ci \in T : /\ col[ci] \in [S -> Int] /\ q[ci] = SumFunction(col[ci])
                    /\ \A f \in S : col[ci][f] = g[<<ci, f>>]
  BY DEF Below, BelowSums
<1>8. row \in [S -> [T -> Int]] /\ col \in [T -> [S -> Int]]
  <2>1. row = [c \in S |-> row[c]] /\ col = [ci \in T |-> col[ci]]
    OBVIOUS
  <2> HIDE DEF row, col, r, q, h
  <2> QED
    BY <1>6, <1>7, <2>1
<1>9. r \in [S -> Int] /\ q \in [T -> Int]
  <2>1. r = [c \in S |-> r[c]] /\ q = [ci \in T |-> q[ci]]
    BY DEF FineSums, BelowSums
  <2> HIDE DEF row, col, r, q, h, S, T
  <2>2. (\A c \in S : r[c] \in Int) /\ \A ci \in T : q[ci] \in Int
    BY <1>1, <1>6, <1>7, SumInt
  <2> QED
    BY <2>1, <2>2
<1> HIDE DEF row, col, r, q, h, S, T
<1>10. RowSums(S, T, row, h, r)
  BY ONLY <1>1, <1>3, <1>6, <1>8, <1>9 DEF RowSums
<1>11. RowSums(T, S, col, g, q)
  <2>1. g \in [T \X S -> Int]
    BY DEF S, T
  <2> QED
    BY ONLY <1>1, <1>7, <1>8, <1>9, <2>1 DEF RowSums
<1>12. SumFunction(r) = SumFunction(q)
  BY <1>5, <1>10, <1>11, SumPairs
<1> QED
  BY <1>9, <1>12 DEF r, q, S, T

(* Amounts are integers.                                                   *)
LEMMA AmountType ==
  ASSUME NEW t, t \in Trees, NEW n, n \in Nodes(t),
         NEW u, u \in [Nodes(t) -> [Cell -> Int]], NEW o, o \in [Nodes(t) -> Int]
  PROVE  Amount(u, o, n) \in Int /\ SumFunction(u[n]) \in Int /\ Volume(n) \in Nat \ {0}
<1>1. Volume(n) \in Nat \ {0}
  BY NodesInDomain, VolumeIs
<1>2. IsFiniteSet(Cell)
  <2>1. 1 \in Dim
    BY GridAssumption DEF Dim
  <2> QED
    BY <2>1, LowestAre
<1>3. u[n] \in [Cell -> Int] /\ o[n] \in Int
  OBVIOUS
<1>4. SumFunction(u[n]) \in Int
  BY <1>2, <1>3, SumInt
<1>5. PICK a, b, c : a = Volume(n) /\ b = SumFunction(u[n]) /\ c = o[n]
  OBVIOUS
<1>6. a \in Int /\ b \in Int /\ c \in Int /\ Amount(u, o, n) = a * b + c
  BY <1>1, <1>3, <1>4, <1>5 DEF Amount
<1>7. a * b + c \in Int
  BY ONLY <1>6
<1> QED
  BY <1>1, <1>4, <1>6, <1>7

(* The finer values of a cell add up to 2^NDIM times it, and the outflows  *)
(* of the children to the node's.                                          *)
Halved(u, n) == \A c \in Cell : 2^NDIM * u[n][c] =
  SumFunction([k \in Octant |-> u[Child(n, OctantOf(c))][Plus(First(c), k)]])
SharesOutflow(o, n) == o[n] = SumFunction([ci \in Octant |-> o[Child(n, ci)]])
Additive(u, o, n) == Amount(u, o, n) = SumFunction([ci \in Octant |-> Amount(u, o, Child(n, ci))])

(* Then the node has what its children have together.                      *)
LEMMA SharedOut ==
  ASSUME NEW t, t \in Trees, NEW n, n \in t,
         NEW u, u \in [Nodes(t) -> [Cell -> Int]], NEW o, o \in [Nodes(t) -> Int],
         Halved(u, n), SharesOutflow(o, n)
  PROVE  Additive(u, o, n)
<1> DEFINE g == [z \in Octant \X Cell |-> u[Child(n, z[1])][z[2]]]
           p == 2^NDIM
           v == 2^(NDIM * (MaxLevel - (n.lev + 1)))
           x == [ci \in Octant |-> o[Child(n, ci)]]
           y == [ci \in Octant |-> v * BelowSums(g)[ci]]
           w == [ci \in Octant |-> Amount(u, o, Child(n, ci))]
<1>1. /\ n \in Loc /\ n \in Nodes(t) /\ n.lev \in 0..(MaxLevel - 1)
      /\ \A ci \in Octant : Child(n, ci) \in Nodes(t) /\ Child(n, ci).lev = n.lev + 1
  BY NodesAre, ChildIs, TreesAssumption
<1>2. IsFiniteSet(Cell) /\ IsFiniteSet(Octant) /\ MaxLevel \in Nat
  <2>1. 1 \in Dim
    BY GridAssumption DEF Dim
  <2> QED
    BY <2>1, LowestAre, Octants, GridAssumption
<1>3. g \in [Octant \X Cell -> Int]
  BY <1>1
<1>4. /\ FineSums(g) \in [Cell -> Int] /\ BelowSums(g) \in [Octant -> Int]
      /\ SumFunction(FineSums(g)) = SumFunction(BelowSums(g))
  <2> HIDE DEF g
  <2> QED
    BY <1>3, FinerSum
<1>5. \A c \in Cell : FineSums(g)[c] = p * u[n][c]
  <2> SUFFICES ASSUME NEW c \in Cell PROVE FineSums(g)[c] = p * u[n][c]
    OBVIOUS
  <2>1. \A k \in Octant : OctantOf(c) \in Octant /\ Plus(First(c), k) \in Cell
    BY FinerIs
  <2>2. \A k \in Octant : g[<<OctantOf(c), Plus(First(c), k)>>] = u[Child(n, OctantOf(c))][Plus(First(c), k)]
    BY <2>1
  <2>3. Fine(g, c) = [k \in Octant |-> u[Child(n, OctantOf(c))][Plus(First(c), k)]]
    <3> HIDE DEF g
    <3> QED
      BY <2>2 DEF Fine
  <2>4. FineSums(g)[c] = SumFunction(Fine(g, c))
    BY DEF FineSums
  <2>5. p * u[n][c] = SumFunction([k \in Octant |-> u[Child(n, OctantOf(c))][Plus(First(c), k)]])
    BY DEF Halved
  <2> HIDE DEF g, p
  <2> QED
    BY <2>3, <2>4, <2>5
<1>6. \A ci \in Octant : BelowSums(g)[ci] = SumFunction(u[Child(n, ci)])
  <2> SUFFICES ASSUME NEW ci \in Octant PROVE BelowSums(g)[ci] = SumFunction(u[Child(n, ci)])
    OBVIOUS
  <2>1. \A f \in Cell : g[<<ci, f>>] = u[Child(n, ci)][f]
    OBVIOUS
  <2>2. u[Child(n, ci)] = [f \in Cell |-> u[Child(n, ci)][f]]
    BY <1>1
  <2>3. Below(g, ci) = u[Child(n, ci)]
    <3> HIDE DEF g
    <3> QED
      BY <2>1, <2>2 DEF Below
  <2> QED
    BY <2>3 DEF BelowSums
<1>7. p \in Nat \ {0} /\ v \in Nat /\ Volume(n) = p * v
      /\ \A ci \in Octant : Volume(Child(n, ci)) = v
  <2>1. [e \in Dim |-> 0] \in Octant
    BY DEF Octant, Vector
  <2>2. PICK m : m \in Nodes(t) /\ m.lev = n.lev + 1
    BY <1>1, <2>1
  <2>3. n.lev \in Nat /\ m.lev <= MaxLevel
    BY <1>1, <1>2, <2>2
  <2>4. Volume(n) = p * Volume(m) /\ Volume(m) \in Nat /\ p \in Nat \ {0}
    BY <2>2, <2>3, FinerArea
  <2>5. Volume(m) = v /\ \A ci \in Octant : Volume(Child(n, ci)) = v
    BY <1>1, <2>2 DEF Volume
  <2> HIDE DEF p, v
  <2> QED
    BY <2>4, <2>5
<1> HIDE DEF g, p, v
<1>8. x \in [Octant -> Int] /\ SumFunction(x) = o[n]
  BY <1>1 DEF SharesOutflow
<1>9. y \in [Octant -> Int] /\ \A ci \in Octant : y[ci] = v * BelowSums(g)[ci]
  BY <1>4, <1>7
<1>10. w \in [Octant -> Int] /\ \A ci \in Octant : w[ci] = y[ci] + x[ci]
  <2>1. \A ci \in Octant : w[ci] \in Int
    <3>1. \A ci \in Octant : Amount(u, o, Child(n, ci)) \in Int
      BY <1>1, AmountType
    <3> QED
      BY <3>1
  <2>2. w = [ci \in Octant |-> w[ci]]
    OBVIOUS
  <2>3. \A ci \in Octant : w[ci] = Amount(u, o, Child(n, ci)) /\ x[ci] = o[Child(n, ci)]
    OBVIOUS
  <2> HIDE DEF w, x, y
  <2>4. \A ci \in Octant : w[ci] = y[ci] + x[ci]
    BY <1>6, <1>7, <1>9, <2>3 DEF Amount
  <2> QED
    BY <2>1, <2>2, <2>4
<1> HIDE DEF x, y, w
<1>11. SumFunction(w) = SumFunction(y) + SumFunction(x)
  BY ONLY <1>2, <1>8, <1>9, <1>10, SumPlus
<1>12. SumFunction(y) = v * SumFunction(BelowSums(g))
  <2>1. v \in Int
    BY <1>7
  <2> QED
    BY ONLY <1>2, <1>4, <1>9, <2>1, SumTimes
<1>13. SumFunction(FineSums(g)) = p * SumFunction(u[n]) /\ SumFunction(u[n]) \in Int
  <2>1. p \in Int /\ u[n] \in [Cell -> Int]
    BY <1>1, <1>7
  <2>2. PICK z, h, S : z = u[n] /\ h = FineSums(g) /\ S = Cell
    OBVIOUS
  <2>3. /\ h \in [S -> Int] /\ IsFiniteSet(S) /\ p \in Int
        /\ z \in [S -> Int] /\ \A c \in S : h[c] = p * z[c]
    BY ONLY <1>2, <1>4, <1>5, <2>1, <2>2
  <2>4. SumFunction(h) = p * SumFunction(z)
    BY ONLY <2>3, SumTimes
  <2>5. SumFunction(z) \in Int
    BY ONLY <2>3, SumInt
  <2> QED
    BY <2>2, <2>4, <2>5
<1>14. Amount(u, o, n) = SumFunction(w)
  <2>1. PICK a, b, c : a = SumFunction(u[n]) /\ b = SumFunction(BelowSums(g)) /\ c = o[n]
    OBVIOUS
  <2>2. b = p * a /\ SumFunction(w) = v * b + c /\ Amount(u, o, n) = (p * v) * a + c /\ a \in Int
    BY <1>4, <1>7, <1>8, <1>11, <1>12, <1>13, <2>1 DEF Amount
  <2>3. (p * v) * a = v * (p * a)
    BY <1>7, <2>2
  <2> QED
    BY <2>2, <2>3
<1> QED
  BY <1>14 DEF w, Additive

TypeOK ==
  /\ refined \in Trees
  /\ U \in [Nodes(refined) -> [Cell -> Int]] /\ out \in [Nodes(refined) -> Int]
  /\ U0 \in [Nodes(refined) -> [Cell -> Int]] /\ out0 \in [Nodes(refined) -> Int]
  /\ total \in Int
  /\ phase \in {"exchange", "fluxes", "correct", "next_u", "regrid"}
  /\ level \in 0..MaxLevel /\ rk \in 0..NRK /\ regrids \in 0..MaxRegrids

(* The stage in which fluxes are computed, and where restriction starts.   *)
Order ==
  /\ phase \in {"fluxes", "correct", "next_u"} => rk \in 0..(NRK - 1)
  /\ phase # "exchange" => level = MaxLevel

(* The fluxes of one field, and once corrected, with finer ones averaged.  *)
Shared(flow) == [n \in Leaves |-> [d \in Dim |-> [i \in Face |-> flow[Place(n, d, i)]]]]
FluxesMeet ==
  /\ phase = "correct" => \E flow \in Flows[rk] : F = Shared(flow)
  /\ phase = "next_u" => Corrected(refined, F)

(* Nodes that have restricted have what their children have.               *)
Restores ==
  /\ phase = "exchange" => \A n \in refined : n.lev > level => Additive(U, out, n)
  /\ phase = "regrid" => \A n \in refined : Additive(U, out, n)

(* What the stages blend with has the mass there was at the start.         *)
Mass(t, u, o) == SumFunction([n \in Lv(t) |-> Amount(u, o, n)])
Keeps == (rk \in {1, 2} \/ phase \in {"correct", "next_u"}) => Mass(refined, U0, out0) = total

IInv == TypeOK /\ Order /\ FluxesMeet /\ Restores /\ Keeps /\ Conserved

(* A quotient that leaves no rest.                                         *)
LEMMA ExactQuotient ==
  ASSUME NEW a \in Int, NEW b \in Nat \ {0}, a % b = 0
  PROVE  Quotient(a, b) \in Int /\ b * Quotient(a, b) = a
<1>1. a \div b \in Int /\ a % b = a - b * (a \div b)
  OBVIOUS
<1>2. PICK q, r : q = a \div b /\ r = b * (a \div b)
  OBVIOUS
<1>3. r \in Int
  <2>1. b * q \in Int
    BY <1>1, <1>2
  <2> QED
    BY <1>2, <2>1
<1>4. b * q = a
  BY <1>1, <1>2, <1>3
<1>5. Quotient(a, b) = q
  BY <1>2, <1>4 DEF Quotient
<1> QED
  BY <1>1, <1>2, <1>4, <1>5

(* The mass in a tree is an integer.                                       *)
LEMMA MassType ==
  ASSUME NEW t, t \in Trees, NEW u, u \in [Nodes(t) -> [Cell -> Int]], NEW o, o \in [Nodes(t) -> Int]
  PROVE  /\ [n \in Lv(t) |-> Amount(u, o, n)] \in [Lv(t) -> Int] /\ IsFiniteSet(Lv(t))
         /\ Mass(t, u, o) \in Int
<1>1. IsFiniteSet(Lv(t)) /\ Lv(t) \subseteq Nodes(t)
  BY NodesAre, FS_Subset DEF Lv
<1>2. [n \in Lv(t) |-> Amount(u, o, n)] \in [Lv(t) -> Int]
  <2>1. \A n \in Lv(t) : Amount(u, o, n) \in Int
    BY <1>1, AmountType
  <2> QED
    BY <2>1
<1>3. PICK f, S : f = [n \in Lv(t) |-> Amount(u, o, n)] /\ S = Lv(t)
  OBVIOUS
<1>4. SumFunction(f) \in Int
  <2>1. f \in [S -> Int] /\ IsFiniteSet(S)
    BY <1>1, <1>2, <1>3
  <2> QED
    BY ONLY <2>1, SumInt
<1> QED
  BY <1>1, <1>2, <1>3, <1>4 DEF Mass

(* The mass is that of the leaves alone.                                   *)
LEMMA SameMass ==
  ASSUME NEW t, NEW u, NEW v, NEW o, NEW q, \A n \in Lv(t) : u[n] = v[n] /\ o[n] = q[n]
  PROVE  Mass(t, u, o) = Mass(t, v, q)
<1>1. \A n \in Lv(t) : Amount(u, o, n) = Amount(v, q, n)
  BY DEF Amount
<1>2. [n \in Lv(t) |-> Amount(u, o, n)] = [n \in Lv(t) |-> Amount(v, q, n)]
  BY <1>1
<1> QED
  BY <1>2 DEF Mass

(* The diagnostics sum up the mass in the tree.                            *)
LEMMA DiagnosticsAre == Diagnostics = Mass(refined, U, out) /\ Leaves = Lv(refined)
BY DEF Diagnostics, Mass, Leaves, Lv

(* The cells of a node are around it.                                      *)
LEMMA CellIsAround == Cell \subseteq Vector((0 - 1)..INX) /\ Face \subseteq Vector((0 - 1)..INX)
<1>1. INX \in Nat
  BY GridAssumption
<1>2. 0..(INX - 1) \subseteq (0 - 1)..INX /\ 0..INX \subseteq (0 - 1)..INX
  BY <1>1
<1> QED
  BY <1>2 DEF Cell, Face, Vector

(* The invariant holds initially.                                          *)
LEMMA InitHolds == Init => IInv
<1> SUFFICES ASSUME Init PROVE IInv
  OBVIOUS
<1>1. refined \in Trees
  BY DEF Init
<1>2. PICK v \in Data : U = [n \in Nodes(refined) |-> [c \in Cell |->
                           IF n \in refined THEN 0 ELSE v[Place(n, 0, c)]]]
  BY DEF Init
<1>3. ASSUME NEW n \in Nodes(refined), NEW c \in Cell PROVE v[Place(n, 0, c)] \in Int
  <2>1. 0 \in 0..NDIM /\ c \in Vector((0 - 1)..INX)
    BY CellIsAround, GridAssumption
  <2>2. Place(n, 0, c) \in Places
    BY <1>1, <2>1, PlaceIs
  <2>3. v \in [Places -> Int]
    BY DataAssumption
  <2> QED
    BY <2>2, <2>3
<1>4. U \in [Nodes(refined) -> [Cell -> Int]] /\ out \in [Nodes(refined) -> Int] /\ U0 = U /\ out0 = out
  BY <1>2, <1>3 DEF Init
<1>5. Conserved /\ total \in Int
  <2>1. total = Diagnostics
    BY DEF Init
  <2>2. Mass(refined, U, out) \in Int
    BY <1>1, <1>4, MassType
  <2> QED
    BY <2>1, <2>2, DiagnosticsAre DEF Conserved
<1>6. phase = "exchange" /\ level = MaxLevel /\ rk = 0 /\ regrids = 0 /\ MaxLevel \in Nat /\ MaxRegrids \in Nat
  BY GridAssumption DEF Init
<1>7. TypeOK
  BY <1>1, <1>4, <1>5, <1>6 DEF TypeOK, NRK
<1>8. Restores
  <2>1. \A n \in refined : ~(n.lev > level)
    BY <1>1, <1>6, TreesAssumption
  <2> QED
    BY <1>6, <2>1 DEF Restores
<1>9. Order /\ FluxesMeet /\ Keeps
  BY <1>6 DEF Order, FluxesMeet, Keeps
<1> QED
  BY <1>5, <1>7, <1>8, <1>9 DEF IInv

-----------------------------------------------------------------------------
(* What a cell restricts, and from which cells of which child.             *)
LEMMA FinerCellsOf ==
  ASSUME TypeOK, NEW n, n \in refined, NEW c, c \in Cell
  PROVE  /\ FinerCells(n, c) \in Int
         /\ FinerCells(n, c) =
              SumFunction([k \in Octant |-> U[Child(n, OctantOf(c))][Plus(First(c), k)]])
<1>1. FinerCells(n, c) = SumFunction([k \in Octant |-> U[Child(n, OctantOf(c))][Plus(First(c), k)]])
  BY DEF FinerCells, OctantOf, First, Half
<1>2. [k \in Octant |-> U[Child(n, OctantOf(c))][Plus(First(c), k)]] \in [Octant -> Int]
  <2>1. \A k \in Octant : OctantOf(c) \in Octant /\ Plus(First(c), k) \in Cell
    BY FinerIs
  <2>2. \A ci \in Octant : U[Child(n, ci)] \in [Cell -> Int]
    BY NodesAre DEF TypeOK
  <2>3. \A k \in Octant : U[Child(n, OctantOf(c))][Plus(First(c), k)] \in Int
    BY <2>1, <2>2
  <2> QED
    BY <2>3
<1>3. SumFunction([k \in Octant |-> U[Child(n, OctantOf(c))][Plus(First(c), k)]]) \in Int
  <2>1. PICK f : f = [k \in Octant |-> U[Child(n, OctantOf(c))][Plus(First(c), k)]]
    OBVIOUS
  <2>2. SumFunction(f) \in Int
    BY <1>2, <2>1, Octants, SumInt
  <2> QED
    BY <2>1, <2>2
<1> QED
  BY <1>1, <1>3

(* What has left a node's children.                                        *)
LEMMA ChildOutflowsOf ==
  ASSUME TypeOK, NEW n, n \in refined
  PROVE  ChildOutflows(n) \in Int
<1>1. [ci \in Octant |-> out[Child(n, ci)]] \in [Octant -> Int]
  BY NodesAre DEF TypeOK
<1>2. PICK f : f = [ci \in Octant |-> out[Child(n, ci)]]
  OBVIOUS
<1>3. SumFunction(f) \in Int
  BY <1>1, <1>2, Octants, SumInt
<1> QED
  BY <1>2, <1>3 DEF ChildOutflows

(* A level restricts: its nodes have what their children have, as those of *)
(* the finer levels.                                                       *)
LEMMA ExchangeKeeps ==
  ASSUME IInv, Exact, ExchangeInterlevel
  PROVE  /\ U' \in [Nodes(refined) -> [Cell -> Int]] /\ out' \in [Nodes(refined) -> Int]
         /\ \A n \in Lv(refined) : U'[n] = U[n] /\ out'[n] = out[n]
         /\ \A n \in refined : n.lev >= level => Additive(U', out', n)
<1> DEFINE restricts(n) == n \in refined /\ n.lev = level
<1>1. /\ phase = "exchange"
      /\ U' = [n \in Nodes(refined) |-> IF restricts(n) THEN Restricted(n) ELSE U[n]]
      /\ out' = [n \in Nodes(refined) |-> IF restricts(n) THEN ChildOutflows(n) ELSE out[n]]
  BY DEF ExchangeInterlevel
<1>2. TypeOK /\ refined \in Trees /\ level \in Nat
  BY GridAssumption DEF IInv, TypeOK
<1>3. U \in [Nodes(refined) -> [Cell -> Int]] /\ out \in [Nodes(refined) -> Int]
  BY <1>2 DEF TypeOK
<1>4. 2^NDIM \in Nat \ {0}
  BY Powers, GridAssumption
<1>5. ASSUME NEW n, restricts(n)
      PROVE  /\ Restricted(n) \in [Cell -> Int] /\ ChildOutflows(n) \in Int
             /\ \A c \in Cell : 2^NDIM * Restricted(n)[c] = FinerCells(n, c)
  <2>1. ASSUME NEW c \in Cell
        PROVE  Quotient(FinerCells(n, c), 2^NDIM) \in Int /\ 2^NDIM * Quotient(FinerCells(n, c), 2^NDIM) = FinerCells(n, c)
    <3>1. FinerCells(n, c) \in Int /\ FinerCells(n, c) % 2^NDIM = 0
      BY <1>1, <1>2, <1>5, FinerCellsOf DEF Exact
    <3> QED
      BY <1>4, <3>1, ExactQuotient
  <2>2. ChildOutflows(n) \in Int
    BY <1>2, <1>5, ChildOutflowsOf
  <2> QED
    BY <2>1, <2>2 DEF Restricted
<1>6. U' \in [Nodes(refined) -> [Cell -> Int]] /\ out' \in [Nodes(refined) -> Int]
  <2> HIDE DEF restricts
  <2> QED
    BY <1>1, <1>3, <1>5
<1>7. \A n \in Lv(refined) : U'[n] = U[n] /\ out'[n] = out[n]
  <2>1. \A n \in Lv(refined) : n \in Nodes(refined) /\ ~restricts(n)
    BY DEF Lv
  <2> HIDE DEF restricts
  <2> QED
    BY <1>1, <2>1
<1>8. ASSUME NEW n \in refined
      PROVE  /\ n \in Nodes(refined) /\ n.lev \in Nat
             /\ \A ci \in Octant : Child(n, ci) \in Nodes(refined) /\ Child(n, ci).lev = n.lev + 1
  BY <1>2, NodesAre, ChildIs DEF Loc
<1>9. ASSUME NEW n \in refined, n.lev >= level
      PROVE  \A ci \in Octant : U'[Child(n, ci)] = U[Child(n, ci)] /\ out'[Child(n, ci)] = out[Child(n, ci)]
  <2>1. \A ci \in Octant : Child(n, ci) \in Nodes(refined) /\ ~restricts(Child(n, ci))
    BY <1>2, <1>8, <1>9
  <2> HIDE DEF restricts
  <2> QED
    BY <1>1, <2>1
<1>10. ASSUME NEW n \in refined, n.lev = level PROVE Additive(U', out', n)
  <2>1. restricts(n) /\ n \in Nodes(refined) /\ n.lev >= level
    BY <1>2, <1>8, <1>10
  <2>2. U'[n] = Restricted(n) /\ out'[n] = ChildOutflows(n)
    <3> HIDE DEF restricts
    <3> QED
      BY <1>1, <2>1
  <2>3. Halved(U', n)
    <3> SUFFICES ASSUME NEW c \in Cell
                 PROVE  2^NDIM * U'[n][c] =
                          SumFunction([k \in Octant |-> U'[Child(n, OctantOf(c))][Plus(First(c), k)]])
      BY DEF Halved
    <3>1. 2^NDIM * U'[n][c] = SumFunction([k \in Octant |-> U[Child(n, OctantOf(c))][Plus(First(c), k)]])
      BY <1>2, <1>5, <2>1, <2>2, FinerCellsOf
    <3>2. \A k \in Octant : OctantOf(c) \in Octant
      BY FinerIs
    <3>3. [k \in Octant |-> U[Child(n, OctantOf(c))][Plus(First(c), k)]]
            = [k \in Octant |-> U'[Child(n, OctantOf(c))][Plus(First(c), k)]]
      BY <1>9, <2>1, <3>2
    <3> QED
      BY <3>1, <3>3
  <2>4. SharesOutflow(out', n)
    <3>1. [ci \in Octant |-> out[Child(n, ci)]] = [ci \in Octant |-> out'[Child(n, ci)]]
      BY <1>9, <2>1
    <3> QED
      BY <2>2, <3>1 DEF SharesOutflow, ChildOutflows
  <2> QED
    BY <1>2, <1>6, <2>3, <2>4, SharedOut
<1>11. ASSUME NEW n \in refined, n.lev > level PROVE Additive(U', out', n)
  <2>1. n.lev >= level /\ ~restricts(n) /\ n \in Nodes(refined)
    BY <1>2, <1>8, <1>11
  <2>2. U'[n] = U[n] /\ out'[n] = out[n]
    <3> HIDE DEF restricts
    <3> QED
      BY <1>1, <2>1
  <2>3. Additive(U, out, n)
    BY <1>1, <1>11 DEF IInv, Restores
  <2>4. Amount(U', out', n) = Amount(U, out, n)
    BY <2>2 DEF Amount
  <2>5. \A ci \in Octant : Amount(U', out', Child(n, ci)) = Amount(U, out, Child(n, ci))
    BY <1>9, <2>1 DEF Amount
  <2>6. [ci \in Octant |-> Amount(U', out', Child(n, ci))] = [ci \in Octant |-> Amount(U, out, Child(n, ci))]
    BY <2>5
  <2> QED
    BY <2>3, <2>4, <2>6 DEF Additive
<1>12. \A n \in refined : n.lev >= level => Additive(U', out', n)
  <2>1. \A n \in refined : n.lev >= level => n.lev = level \/ n.lev > level
    BY <1>2, <1>8
  <2> QED
    BY <1>10, <1>11, <2>1
<1> QED
  BY <1>6, <1>7, <1>12

(* Restriction preserves the invariant.                                    *)
LEMMA ExchangeStep == IInv /\ Exact /\ ExchangeInterlevel => IInv'
<1> SUFFICES ASSUME IInv, Exact, ExchangeInterlevel PROVE IInv'
  OBVIOUS
<1>1. /\ U' \in [Nodes(refined) -> [Cell -> Int]] /\ out' \in [Nodes(refined) -> Int]
      /\ \A n \in Lv(refined) : U'[n] = U[n] /\ out'[n] = out[n]
      /\ \A n \in refined : n.lev >= level => Additive(U', out', n)
  BY ExchangeKeeps
<1>2. /\ phase = "exchange" /\ rk' = rk /\ refined' = refined /\ U0' = U0 /\ out0' = out0
      /\ regrids' = regrids /\ total' = total
      /\ level > 0 => level' = level - 1 /\ phase' = "exchange"
      /\ ~(level > 0) => level' = MaxLevel /\ phase' = IF rk = NRK THEN "regrid" ELSE "fluxes"
  BY DEF ExchangeInterlevel
<1>3. TypeOK /\ level \in 0..MaxLevel /\ MaxLevel \in Nat /\ rk \in 0..NRK
  BY GridAssumption DEF IInv, TypeOK
<1>4. TypeOK'
  <2>1. level' \in 0..MaxLevel
    BY <1>2, <1>3
  <2>2. phase' \in {"exchange", "fluxes", "correct", "next_u", "regrid"}
    BY <1>2
  <2> QED
    BY <1>1, <1>2, <1>3, <2>1, <2>2 DEF TypeOK
<1>5. Order'
  BY <1>2, <1>3 DEF Order, NRK
<1>6. FluxesMeet'
  BY <1>2 DEF FluxesMeet
<1>7. Restores'
  <2>1. \A n \in refined : n.lev \in Nat
    BY <1>3, TreesAssumption DEF TypeOK
  <2>2. CASE level > 0
    BY <1>1, <1>2, <1>3, <2>1, <2>2 DEF Restores
  <2>3. CASE ~(level > 0)
    <3>1. \A n \in refined : n.lev >= level
      BY <1>3, <2>1, <2>3
    <3>2. \A n \in refined : Additive(U', out', n)
      BY <1>1, <3>1
    <3> QED
      BY <1>2, <2>3, <3>2 DEF Restores
  <2> QED
    BY <2>2, <2>3
<1>8. Keeps'
  <2>1. phase' \notin {"correct", "next_u"}
    BY <1>2
  <2> QED
    BY <1>2, <2>1 DEF IInv, Keeps
<1>9. Conserved'
  <2>1. Mass(refined, U', out') = Mass(refined, U, out)
    BY <1>1, SameMass
  <2>2. Diagnostics' = Mass(refined, U', out')
    BY <1>2 DEF Diagnostics, Leaves, Mass, Lv
  <2>3. Diagnostics = Mass(refined, U, out) /\ Diagnostics = total
    BY DiagnosticsAre DEF IInv, Conserved
  <2> QED
    BY <1>2, <2>1, <2>2, <2>3 DEF Conserved
<1> QED
  BY <1>4, <1>5, <1>6, <1>7, <1>8, <1>9 DEF IInv

(* Computing fluxes preserves the invariant.                               *)
LEMMA FluxesStep == IInv /\ ComputeFluxes => IInv'
<1> SUFFICES ASSUME IInv, ComputeFluxes PROVE IInv'
  OBVIOUS
<1>1. /\ phase = "fluxes" /\ phase' = "correct" /\ refined' = refined /\ U' = U /\ out' = out
      /\ level' = level /\ rk' = rk /\ regrids' = regrids /\ total' = total
      /\ rk = 0 => U0' = U /\ out0' = out
      /\ rk # 0 => U0' = U0 /\ out0' = out0
  BY DEF ComputeFluxes, Store
<1>2. TypeOK /\ level = MaxLevel /\ rk \in 0..(NRK - 1)
  BY <1>1 DEF IInv, Order
<1>3. TypeOK'
  BY <1>1, <1>2 DEF TypeOK
<1>4. Order'
  BY <1>1, <1>2 DEF Order
<1>5. FluxesMeet'
  <2>1. PICK flow \in Flows[rk] : F' = [n \in Leaves |-> [d \in Dim |-> [i \in Face |-> flow[Place(n, d, i)]]]]
    BY DEF ComputeFluxes
  <2>2. F' = Shared(flow)'
    BY <1>1, <2>1 DEF Shared, Leaves
  <2> QED
    BY <1>1, <2>2 DEF FluxesMeet
<1>6. Restores'
  BY <1>1 DEF Restores
<1>7. Keeps'
  <2>1. CASE rk = 0
    <3>1. Mass(refined, U, out) = total
      BY DiagnosticsAre DEF IInv, Conserved
    <3> QED
      BY <1>1, <2>1, <3>1 DEF Keeps
  <2>2. CASE rk # 0
    <3>1. rk \in {1, 2}
      BY <1>2, <2>2 DEF NRK
    <3> QED
      BY <1>1, <2>2, <3>1 DEF IInv, Keeps
  <2> QED
    BY <2>1, <2>2
<1>8. Conserved'
  BY <1>1 DEF IInv, Conserved, Diagnostics, Leaves
<1> QED
  BY <1>3, <1>4, <1>5, <1>6, <1>7, <1>8 DEF IInv

-----------------------------------------------------------------------------
(* The faces on a side of a node, counted by the cells of its lowest layer.*)
LEMMA BeyondIs ==
  ASSUME NEW n, NEW d, d \in Dim, NEW c, c \in Lowest(d), NEW s, s \in Sign
  PROVE  /\ FaceOf(c, d, s) \in Face /\ Beyond(n, d, FaceOf(c, d, s)) = Neighbor(n, d, s)
         /\ MeetsFiner(n, d, FaceOf(c, d, s)) <=> Neighbor(n, d, s) \in refined
<1> DEFINE i == FaceOf(c, d, s)
<1>1. c \in Cell /\ c[d] = 0
  BY DEF Lowest
<1>2. INX \in Nat \ {0} /\ INX = 2 * Half
  BY GridAssumption, Halves
<1>3. i \in Face /\ \A e \in Dim : i[e] = IF e = d /\ s = 1 THEN INX ELSE c[e]
  BY <1>1, FacesAre
<1> HIDE DEF i
<1>4. s = 1 \/ s = 0 - 1
  BY DEF Sign
<1>5. i[d] = IF s = 1 THEN INX ELSE 0
  BY <1>1, <1>3
<1>6. s = IF i[d] = 0 THEN 0 - 1 ELSE 1
  BY <1>2, <1>4, <1>5
<1>7. Beyond(n, d, i) = Neighbor(n, d, s)
  BY <1>6 DEF Beyond
<1>8. i[d] \in {0, INX} /\ \A e \in Dim \ {d} : i[e] < INX
  <2>1. \A e \in Dim : c[e] \in 0..(2 * Half - 1)
    BY <1>1, CellsAre
  <2>2. \A e \in Dim \ {d} : i[e] = c[e]
    BY <1>3
  <2>3. \A e \in Dim \ {d} : i[e] < INX
    BY <1>2, <2>1, <2>2
  <2> QED
    BY <1>5, <2>3
<1> QED
  BY <1>3, <1>7, <1>8 DEF MeetsFiner, i

(* Faces that meet finer ones are at a side of a node.                     *)
LEMMA MeetsAre ==
  ASSUME NEW n, NEW d, d \in Dim, NEW i, i \in Face, MeetsFiner(n, d, i)
  PROVE  \E c \in Lowest(d) : \E s \in Sign : i = FaceOf(c, d, s)
<1> DEFINE s == IF i[d] = 0 THEN 0 - 1 ELSE 1
           c == [e \in Dim |-> IF e = d THEN 0 ELSE i[e]]
<1>1. INX \in Nat \ {0} /\ INX = 2 * Half
  BY GridAssumption, Halves
<1>2. i \in Vector(Int) /\ \A e \in Dim : i[e] \in 0..INX
  BY <1>1 DEF Face, Vector
<1>3. i[d] \in {0, INX} /\ \A e \in Dim \ {d} : i[e] < INX
  BY DEF MeetsFiner
<1>4. \A e \in Dim : c[e] = IF e = d THEN 0 ELSE i[e]
  OBVIOUS
<1>5. c \in Vector(Int)
  BY <1>2 DEF Vector
<1>6. s \in Sign
  BY DEF Sign
<1>7. s = IF i[d] = 0 THEN 0 - 1 ELSE 1
  OBVIOUS
<1> HIDE DEF s, c
<1>8. c \in Cell /\ c[d] = 0
  <2>1. \A e \in Dim : 0 <= c[e] /\ c[e] < 2 * Half
    BY <1>1, <1>2, <1>3, <1>4
  <2> QED
    BY <1>4, <1>5, <2>1, CellsAre
<1>9. FaceOf(c, d, s) \in Face /\ \A e \in Dim : FaceOf(c, d, s)[e] = IF e = d /\ s = 1 THEN INX ELSE c[e]
  BY <1>6, <1>8, FacesAre
<1>10. \A e \in Dim : FaceOf(c, d, s)[e] = i[e]
  <2>1. s = 1 <=> i[d] = INX
    BY <1>1, <1>3, <1>7
  <2>2. s # 1 => i[d] = 0
    BY <1>7
  <2> QED
    BY <1>4, <1>9, <2>1, <2>2
<1>11. FaceOf(c, d, s) \in Vector(Int)
  BY <1>1, <1>9 DEF Face, Vector
<1>12. FaceOf(c, d, s) = i
  BY <1>2, <1>10, <1>11, SameVector
<1>13. c \in Lowest(d)
  BY <1>8 DEF Lowest
<1> QED
  BY <1>6, <1>12, <1>13

(* The finer faces an aunt's flux averages are her nieces' opposite ones.  *)
LEMMA FinerFluxesOf ==
  ASSUME NEW n, NEW d, d \in Dim, NEW c, c \in Lowest(d), NEW s, s \in Sign
  PROVE  FinerFluxes(Beyond(n, d, FaceOf(c, d, s)), d, FaceOf(c, d, s)) =
           SumFunction([o \in Flat(d) |->
             F[Niece(n, OctantOf(c), d, s)][d][FaceOf(Plus(First(c), o), d, 0 - s)]])
<1> DEFINE i == FaceOf(c, d, s)
           m == Beyond(n, d, i)
           ci == [e \in Dim |-> IF e # d THEN i[e] \div Half ELSE IF i[d] = 0 THEN 1 ELSE 0]
           first == [e \in Dim |-> IF e # d THEN 2 * (i[e] % Half) ELSE INX - i[d]]
<1>1. c \in Cell /\ c[d] = 0 /\ m = Neighbor(n, d, s) /\ 0 - s \in Sign
  BY BeyondIs, OtherSign DEF Lowest
<1>2. INX \in Nat \ {0} /\ INX = 2 * Half /\ Half \in Nat \ {0}
  BY GridAssumption, Halves
<1>3. \A e \in Dim : i[e] = IF e = d /\ s = 1 THEN INX ELSE c[e]
  BY <1>1, FacesAre
<1>4. FinerFluxes(m, d, i) = SumFunction([o \in Flat(d) |-> F[Child(m, ci)][d][Plus(first, o)]])
  BY DEF FinerFluxes, Half, Flat
<1>5. i[d] = IF s = 1 THEN INX ELSE 0
  BY <1>1, <1>3
<1>6. \A e \in Dim : /\ ci[e] = IF e # d THEN i[e] \div Half ELSE IF i[d] = 0 THEN 1 ELSE 0
                     /\ first[e] = IF e # d THEN 2 * (i[e] % Half) ELSE INX - i[d]
                     /\ OctantOf(c)[e] = c[e] \div Half /\ First(c)[e] = 2 * (c[e] % Half)
  BY DEF OctantOf, First
<1>7. ci = Facing(OctantOf(c), d, s)
  <2>1. \A e \in Dim : ci[e] = IF e = d THEN IF s = 1 THEN 0 ELSE 1 ELSE OctantOf(c)[e]
    <3> HIDE DEF ci, first, i
    <3> QED
      BY <1>2, <1>3, <1>5, <1>6
  <2>2. ci = [e \in Dim |-> ci[e]]
    OBVIOUS
  <2> HIDE DEF ci
  <2> QED
    BY <2>1, <2>2 DEF Facing
<1>8. Child(m, ci) = Niece(n, OctantOf(c), d, s)
  <2> HIDE DEF ci, m
  <2> QED
    BY <1>1, <1>7 DEF Niece
<1>9. ASSUME NEW o \in Flat(d) PROVE Plus(first, o) = FaceOf(Plus(First(c), o), d, 0 - s)
  <2>1. o \in Octant /\ o[d] = 0 /\ o \in Vector(Int)
    BY CellsAre DEF Flat
  <2>2. First(c) \in Vector(Int) /\ Plus(First(c), o) \in Cell
    BY <1>1, <2>1, FinerIs
  <2>3. \A e \in Dim : Plus(First(c), o)[e] = First(c)[e] + o[e] /\ First(c)[e] \in Int /\ o[e] \in Int
    BY <2>1, <2>2, Vectors
  <2>4. First(c)[d] = 0
    <3>1. 0 % Half = 0
      BY <1>2
    <3> QED
      BY <1>1, <1>6, <3>1
  <2>5. Plus(First(c), o)[d] = 0
    BY <2>1, <2>3, <2>4
  <2>6. /\ FaceOf(Plus(First(c), o), d, 0 - s) \in Face
        /\ \A e \in Dim : FaceOf(Plus(First(c), o), d, 0 - s)[e] =
                            IF e = d /\ 0 - s = 1 THEN INX ELSE Plus(First(c), o)[e]
    BY <1>1, <2>2, <2>5, FacesAre
  <2>7. (s = 1 \/ s = 0 - 1) /\ (0 - s = 1 <=> s # 1)
    BY DEF Sign
  <2>8. first[d] = IF s = 1 THEN 0 ELSE INX
    <3> HIDE DEF first, i
    <3> QED
      BY <1>2, <1>5, <1>6
  <2>9. \A e \in Dim : e # d => first[e] = First(c)[e]
    <3> HIDE DEF first, i
    <3> QED
      BY <1>3, <1>6
  <2>10. first \in Vector(Int)
    <3>1. \A e \in Dim : first[e] \in Int
      BY <1>2, <2>3, <2>8, <2>9
    <3>2. first = [e \in Dim |-> first[e]]
      OBVIOUS
    <3> HIDE DEF first
    <3> QED
      BY <3>1, <3>2 DEF Vector
  <2> HIDE DEF first, i
  <2>11. Plus(first, o) \in Vector(Int) /\ \A e \in Dim : Plus(first, o)[e] = first[e] + o[e]
    BY <2>1, <2>10, Vectors
  <2>12. \A e \in Dim : Plus(first, o)[e] = FaceOf(Plus(First(c), o), d, 0 - s)[e]
    <3> SUFFICES ASSUME NEW e \in Dim PROVE Plus(first, o)[e] = FaceOf(Plus(First(c), o), d, 0 - s)[e]
      OBVIOUS
    <3>1. CASE e # d
      BY <2>3, <2>6, <2>9, <2>11, <3>1
    <3>2. CASE e = d
      <4>1. Plus(first, o)[d] = IF s = 1 THEN 0 ELSE INX
        BY <1>2, <2>1, <2>8, <2>11
      <4>2. FaceOf(Plus(First(c), o), d, 0 - s)[d] = IF s = 1 THEN 0 ELSE INX
        BY <2>5, <2>6, <2>7
      <4> QED
        BY <3>2, <4>1, <4>2
    <3> QED
      BY <3>1, <3>2
  <2>13. FaceOf(Plus(First(c), o), d, 0 - s) \in Vector(Int)
    BY <1>2, <2>6 DEF Face, Vector
  <2> QED
    BY <2>11, <2>12, <2>13, SameVector
<1>10. [o \in Flat(d) |-> F[Child(m, ci)][d][Plus(first, o)]]
         = [o \in Flat(d) |-> F[Niece(n, OctantOf(c), d, s)][d][FaceOf(Plus(First(c), o), d, 0 - s)]]
  <2> HIDE DEF first, ci, m, i
  <2> QED
    BY <1>8, <1>9
<1> HIDE DEF first, ci
<1> QED
  BY <1>4, <1>10

(* The octant a cell is in.                                                *)
LEMMA OctantType ==
  ASSUME NEW c, c \in Cell
  PROVE  OctantOf(c) \in Octant
<1>1. [e \in Dim |-> 0] \in Octant
  BY DEF Octant, Vector
<1> QED
  BY <1>1, FinerIs

(* A face has one place, whichever of the nodes beside it counts it.       *)
LEMMA SamePlace ==
  ASSUME NEW n, n \in Loc, NEW d, d \in Dim, NEW c, c \in Lowest(d)
  PROVE  Place(n, d, FaceOf(c, d, 1)) = Place(Neighbor(n, d, 1), d, c)
<1> DEFINE m == Neighbor(n, d, 1)
           i == FaceOf(c, d, 1)
<1>1. c \in Cell /\ c[d] = 0 /\ c \in Vector(Int) /\ 1 \in Sign /\ \A e \in Dim : c[e] \in Int
  BY CellsAre DEF Lowest, Sign
<1>2. INX \in Nat /\ INX \in Int
  BY GridAssumption
<1>3. /\ m \in Loc /\ m.lev = n.lev
      /\ \A e \in Dim : m.x[e] = IF e = d THEN n.x[e] + 1 ELSE n.x[e]
  BY <1>1, NeighborIs
<1>4. i \in Face /\ \A e \in Dim : i[e] = IF e = d THEN INX ELSE c[e]
  BY <1>1, FacesAre
<1> HIDE DEF m, i
<1>5. i \in Vector(Int)
  BY <1>2, <1>4 DEF Face, Vector
<1>6. n.x \in Vector(Int) /\ m.x \in Vector(Int) /\ \A e \in Dim : n.x[e] \in Int
  BY <1>3 DEF Loc, Vector
<1>7. /\ Times(INX, n.x) \in Vector(Int) /\ \A e \in Dim : Times(INX, n.x)[e] = INX * n.x[e]
      /\ Times(INX, m.x) \in Vector(Int) /\ \A e \in Dim : Times(INX, m.x)[e] = INX * m.x[e]
  BY <1>2, <1>6, Vectors
<1>8. /\ Plus(Times(INX, n.x), i) \in Vector(Int) /\ Plus(Times(INX, m.x), c) \in Vector(Int)
      /\ \A e \in Dim : /\ Plus(Times(INX, n.x), i)[e] = Times(INX, n.x)[e] + i[e]
                        /\ Plus(Times(INX, m.x), c)[e] = Times(INX, m.x)[e] + c[e]
  BY <1>1, <1>5, <1>7, Vectors
<1>9. ASSUME NEW e \in Dim PROVE Plus(Times(INX, n.x), i)[e] = Plus(Times(INX, m.x), c)[e]
  <2>1. CASE e # d
    BY <1>3, <1>4, <1>7, <1>8, <2>1
  <2>2. CASE e = d
    <3>1. PICK x : x = n.x[d]
      OBVIOUS
    <3>2. x \in Int /\ m.x[d] = x + 1 /\ i[d] = INX /\ c[d] = 0
      BY <1>1, <1>3, <1>4, <1>6, <3>1
    <3>3. Plus(Times(INX, n.x), i)[d] = INX * x + INX /\ Plus(Times(INX, m.x), c)[d] = INX * (x + 1) + 0
      BY <1>7, <1>8, <3>1, <3>2
    <3>4. INX * x + INX = INX * (x + 1) + 0
      BY ONLY <1>2, <3>2
    <3> QED
      BY <2>2, <3>3, <3>4
  <2> QED
    BY <2>1, <2>2
<1>10. Plus(Times(INX, n.x), i) = Plus(Times(INX, m.x), c)
  BY <1>8, <1>9, SameVector
<1> QED
  BY <1>3, <1>10 DEF Place, m, i

(* The fluxes of a field, by leaf, dimension and face.                     *)
LEMMA SharedType ==
  ASSUME TypeOK, rk \in 0..(NRK - 1), NEW flow, flow \in Flows[rk], F = Shared(flow)
  PROVE  /\ F \in [Lv(refined) -> [Dim -> [Face -> Int]]]
         /\ \A n \in Lv(refined) : \A d \in Dim : \A i \in Face : F[n][d][i] = flow[Place(n, d, i)]
<1>1. flow \in [Places -> Int]
  BY DataAssumption
<1>2. Leaves = Lv(refined) /\ Lv(refined) \subseteq Nodes(refined) /\ refined \in Trees
  BY DEF Leaves, Lv, TypeOK
<1>3. Dim \subseteq 0..NDIM
  BY GridAssumption DEF Dim
<1>4. \A n \in Lv(refined) : \A d \in Dim : \A i \in Face : flow[Place(n, d, i)] \in Int
  <2> SUFFICES ASSUME NEW n \in Lv(refined), NEW d \in Dim, NEW i \in Face
               PROVE  flow[Place(n, d, i)] \in Int
    OBVIOUS
  <2>1. Place(n, d, i) \in Places
    BY <1>2, <1>3, CellIsAround, PlaceIs
  <2> QED
    BY <1>1, <2>1
<1> QED
  BY <1>2, <1>4 DEF Shared

(* Corrected fluxes are those of the field but where finer ones meet them, *)
(* whose average they are.                                                 *)
LEMMA Corrects ==
  ASSUME IInv, Exact, ExchangeFluxCorrections
  PROVE  Corrected(refined, F')
<1> DEFINE t == refined
           G == F'
<1>1. phase = "correct" /\ TypeOK /\ t \in Trees /\ rk \in 0..(NRK - 1) /\ Leaves = Lv(t)
  BY DEF ExchangeFluxCorrections, IInv, Order, TypeOK, Leaves, Lv
<1>2. PICK flow \in Flows[rk] : F = Shared(flow)
  BY <1>1 DEF IInv, FluxesMeet
<1>3. /\ F \in [Lv(t) -> [Dim -> [Face -> Int]]]
      /\ \A n \in Lv(t) : \A d \in Dim : \A i \in Face : F[n][d][i] = flow[Place(n, d, i)]
  BY <1>1, <1>2, SharedType
<1>4. G = [n \in Lv(t) |-> [d \in Dim |-> [i \in Face |->
             IF MeetsFiner(n, d, i) THEN FluxRestrict(Beyond(n, d, i), d, i) ELSE F[n][d][i]]]]
  BY <1>1 DEF ExchangeFluxCorrections
<1> HIDE DEF G
<1>5. \A n \in Lv(t) : \A d \in Dim : \A i \in Face :
        G[n][d][i] = IF MeetsFiner(n, d, i) THEN FluxRestrict(Beyond(n, d, i), d, i) ELSE F[n][d][i]
  BY <1>4
<1>6. Lv(t) \subseteq Nodes(t) /\ t \subseteq Nodes(t) /\ Lv(t) \cap t = {} /\ Nodes(t) \subseteq Loc
  BY <1>1, NodesAre DEF Lv
<1>7. 2^(NDIM - 1) \in Nat \ {0}
  <2>1. NDIM - 1 \in Nat
    BY GridAssumption
  <2> QED
    BY <2>1, Powers
<1>8. ASSUME NEW n \in Lv(t), NEW d \in Dim, NEW s \in Sign, NEW c \in Lowest(d),
             Neighbor(n, d, s) \in t
      PROVE  LET i == FaceOf(c, d, s)
             IN /\ G[n][d][i] \in Int
                /\ 2^(NDIM - 1) * G[n][d][i] = FinerFluxes(Beyond(n, d, i), d, i)
  <2> DEFINE i == FaceOf(c, d, s)
             x == FinerFluxes(Beyond(n, d, i), d, i)
             f == [o \in Flat(d) |-> F[Niece(n, OctantOf(c), d, s)][d][FaceOf(Plus(First(c), o), d, 0 - s)]]
  <2>1. i \in Face /\ MeetsFiner(n, d, i)
    BY <1>8, BeyondIs
  <2>2. x = SumFunction(f)
    BY FinerFluxesOf
  <2>3. f \in [Flat(d) -> Int]
    <3>1. n \in Aunts(t, d, s)
      BY <1>8 DEF Aunts
    <3>2. OctantOf(c) \in Octant /\ c \in Cell /\ c[d] = 0 /\ Half \in Nat \ {0}
      BY OctantType, Halves DEF Lowest
    <3>3. Niece(n, OctantOf(c), d, s) \in Lv(t)
      <4>1. Niece(n, OctantOf(c), d, s) \in Nieces(t, d, 0 - s)
        BY <1>1, <3>1, <3>2, AuntsAre
      <4> QED
        BY <4>1 DEF Nieces
    <3>4. ASSUME NEW o \in Flat(d) PROVE FaceOf(Plus(First(c), o), d, 0 - s) \in Face
      <4>1. o \in Octant /\ o[d] = 0
        BY DEF Flat
      <4>2. c[d] < Half
        BY <3>2
      <4>3. Plus(First(c), o) \in Cell /\ Plus(First(c), o)[d] = 2 * c[d] + o[d]
        BY <3>2, <4>1, <4>2, FinerIs
      <4>4. Plus(First(c), o)[d] = 0
        BY <3>2, <4>1, <4>3
      <4> QED
        BY <4>3, <4>4, OtherSign, FacesAre
    <3> QED
      BY <1>3, <3>3, <3>4
  <2>4. x \in Int
    <3>1. IsFiniteSet(Flat(d))
      BY LowestAre
    <3> HIDE DEF f
    <3> QED
      BY <2>2, <2>3, <3>1, SumInt
  <2>5. x % 2^(NDIM - 1) = 0
    BY <1>1, <2>1 DEF Exact
  <2>6. G[n][d][i] = Quotient(x, 2^(NDIM - 1))
    BY <1>5, <2>1 DEF FluxRestrict
  <2> HIDE DEF x
  <2>7. Quotient(x, 2^(NDIM - 1)) \in Int /\ 2^(NDIM - 1) * Quotient(x, 2^(NDIM - 1)) = x
    BY <1>7, <2>4, <2>5, ExactQuotient
  <2> QED
    BY <2>6, <2>7 DEF x
<1>9. G \in [Lv(t) -> [Dim -> [Face -> Int]]]
  <2>1. \A n \in Lv(t) : \A d \in Dim : \A i \in Face : G[n][d][i] \in Int
    <3> SUFFICES ASSUME NEW n \in Lv(t), NEW d \in Dim, NEW i \in Face PROVE G[n][d][i] \in Int
      OBVIOUS
    <3>1. CASE ~MeetsFiner(n, d, i)
      BY <1>3, <1>5, <3>1
    <3>2. CASE MeetsFiner(n, d, i)
      <4>1. PICK c \in Lowest(d), s \in Sign : i = FaceOf(c, d, s)
        BY <3>2, MeetsAre
      <4>2. Neighbor(n, d, s) \in t
        BY <3>2, <4>1, BeyondIs
      <4> QED
        BY <1>8, <4>1, <4>2
    <3> QED
      BY <3>1, <3>2
  <2>2. G = [n \in Lv(t) |-> [d \in Dim |-> [i \in Face |-> G[n][d][i]]]]
    BY <1>4, <1>5
  <2> QED
    BY <2>1, <2>2
<1>10. ASSUME NEW n \in Lv(t), NEW d \in Dim, NEW s \in Sign, NEW c \in Lowest(d), Neighbor(n, d, s) \notin t
       PROVE  G[n][d][FaceOf(c, d, s)] = F[n][d][FaceOf(c, d, s)]
  <2>1. FaceOf(c, d, s) \in Face /\ ~MeetsFiner(n, d, FaceOf(c, d, s))
    BY <1>10, BeyondIs
  <2> QED
    BY <1>5, <2>1
<1>11. ASSUME NEW d \in Dim, NEW n \in Even(t, d, 1), NEW c \in Lowest(d)
       PROVE  G[n][d][FaceOf(c, d, 1)] = G[Neighbor(n, d, 1)][d][c]
  <2> DEFINE m == Neighbor(n, d, 1)
  <2>1. n \in Lv(t) /\ m \in Lv(t) /\ n \in Loc /\ m \notin t /\ n \notin t
    BY <1>6 DEF Even
  <2>2. 1 \in Sign /\ 0 - 1 \in Sign /\ FaceOf(c, d, 0 - 1) = c
    BY DEF Sign, FaceOf
  <2>3. Neighbor(m, d, 0 - 1) = n
    BY <2>1, <2>2, NeighborIs
  <2>4. G[n][d][FaceOf(c, d, 1)] = F[n][d][FaceOf(c, d, 1)]
    BY <1>10, <2>1, <2>2
  <2>5. G[m][d][c] = F[m][d][c]
    <3> HIDE DEF m
    <3> QED
      BY <1>10, <2>1, <2>2, <2>3
  <2>6. FaceOf(c, d, 1) \in Face /\ c \in Face
    BY <2>2, BeyondIs, FacesAre DEF Lowest
  <2>7. F[n][d][FaceOf(c, d, 1)] = flow[Place(n, d, FaceOf(c, d, 1))] /\ F[m][d][c] = flow[Place(m, d, c)]
    <3> HIDE DEF m
    <3> QED
      BY <1>3, <2>1, <2>6
  <2> QED
    BY <2>1, <2>4, <2>5, <2>7, SamePlace
<1>12. ASSUME NEW d \in Dim, NEW s \in Sign, NEW n \in Aunts(t, d, s), NEW c \in Lowest(d)
       PROVE  2^(NDIM - 1) * G[n][d][FaceOf(c, d, s)] =
                SumFunction([o \in Flat(d) |->
                  G[Niece(n, OctantOf(c), d, s)][d][FaceOf(Plus(First(c), o), d, 0 - s)]])
  <2> DEFINE k == Niece(n, OctantOf(c), d, s)
  <2>1. n \in Lv(t) /\ Neighbor(n, d, s) \in t
    BY DEF Aunts
  <2>2. 2^(NDIM - 1) * G[n][d][FaceOf(c, d, s)] =
          SumFunction([o \in Flat(d) |-> F[k][d][FaceOf(Plus(First(c), o), d, 0 - s)]])
    BY <1>8, <2>1, FinerFluxesOf
  <2>3. OctantOf(c) \in Octant /\ c \in Cell /\ c[d] = 0 /\ Half \in Nat \ {0}
    BY OctantType, Halves DEF Lowest
  <2>4. k \in Lv(t) /\ Neighbor(k, d, 0 - s) \notin t
    <3>1. k \in Nieces(t, d, 0 - s)
      BY <1>1, <2>3, AuntsAre
    <3> HIDE DEF k
    <3> QED
      BY <1>6, <3>1 DEF Nieces
  <2>5. ASSUME NEW o \in Flat(d) PROVE Plus(First(c), o) \in Lowest(d)
    <3>1. o \in Octant /\ o[d] = 0
      BY DEF Flat
    <3>2. c[d] < Half
      BY <2>3
    <3>3. Plus(First(c), o) \in Cell /\ Plus(First(c), o)[d] = 2 * c[d] + o[d]
      BY <2>3, <3>1, <3>2, FinerIs
    <3> QED
      BY <2>3, <3>1, <3>3 DEF Lowest
  <2> HIDE DEF k
  <2>6. \A o \in Flat(d) : G[k][d][FaceOf(Plus(First(c), o), d, 0 - s)] = F[k][d][FaceOf(Plus(First(c), o), d, 0 - s)]
    BY <1>10, <2>4, <2>5, OtherSign
  <2>7. [o \in Flat(d) |-> G[k][d][FaceOf(Plus(First(c), o), d, 0 - s)]]
          = [o \in Flat(d) |-> F[k][d][FaceOf(Plus(First(c), o), d, 0 - s)]]
    BY <2>6
  <2> QED
    BY <2>2, <2>7 DEF k
<1> QED
  BY <1>9, <1>11, <1>12 DEF Corrected, G

(* Flux correction preserves the invariant.                                *)
LEMMA CorrectionStep == IInv /\ Exact /\ ExchangeFluxCorrections => IInv'
<1> SUFFICES ASSUME IInv, Exact, ExchangeFluxCorrections PROVE IInv'
  OBVIOUS
<1>1. /\ phase = "correct" /\ phase' = "next_u" /\ refined' = refined /\ U' = U /\ out' = out
      /\ U0' = U0 /\ out0' = out0
      /\ level' = level /\ rk' = rk /\ regrids' = regrids /\ total' = total
  BY DEF ExchangeFluxCorrections
<1>2. TypeOK' /\ Order' /\ Restores'
  BY <1>1 DEF IInv, TypeOK, Order, Restores
<1>3. FluxesMeet'
  BY <1>1, Corrects DEF FluxesMeet
<1>4. Keeps' /\ Conserved'
  BY <1>1 DEF IInv, Keeps, Conserved, Diagnostics, Leaves
<1> QED
  BY <1>2, <1>3, <1>4 DEF IInv

(* Sums of values blended one by one.                                      *)
Blends(S, b, e, a, h, f, g, k) ==
  /\ IsFiniteSet(S) /\ b \in Int /\ e \in Int /\ a \in Int
  /\ h \in [S -> Int] /\ f \in [S -> Int] /\ g \in [S -> Int] /\ k \in [S -> Int]
  /\ \A x \in S : b * h[x] = e * f[x] + a * (g[x] + k[x])
(* What is blended term by term has a blended sum.                         *)
LEMMA SumBlend ==
  ASSUME NEW S, NEW b, NEW e, NEW a, NEW h, NEW f, NEW g, NEW k, Blends(S, b, e, a, h, f, g, k)
  PROVE  b * SumFunction(h) = e * SumFunction(f) + a * (SumFunction(g) + SumFunction(k))
<1> DEFINE p == [x \in S |-> b * h[x]]
           q == [x \in S |-> e * f[x]]
           r == [x \in S |-> g[x] + k[x]]
           z == [x \in S |-> a * r[x]]
<1> USE DEF Blends
<1>1. \A x \in S : h[x] \in Int /\ f[x] \in Int /\ g[x] \in Int /\ k[x] \in Int
  OBVIOUS
<1>2. r \in [S -> Int] /\ \A x \in S : r[x] = g[x] + k[x]
  BY <1>1
<1> HIDE DEF r
<1>3. z \in [S -> Int] /\ \A x \in S : z[x] = a * r[x]
  <2>1. \A x \in S : r[x] \in Int
    BY <1>2
  <2> QED
    BY <2>1
<1>4. p \in [S -> Int] /\ \A x \in S : p[x] = b * h[x]
  BY <1>1
<1>5. q \in [S -> Int] /\ \A x \in S : q[x] = e * f[x]
  BY <1>1
<1> HIDE DEF p, q, z
<1>6. \A x \in S : p[x] = q[x] + z[x]
  BY <1>2, <1>3, <1>4, <1>5
<1>7. IsFiniteSet(S) /\ b \in Int /\ e \in Int /\ a \in Int
  OBVIOUS
<1>8. h \in [S -> Int] /\ f \in [S -> Int] /\ g \in [S -> Int] /\ k \in [S -> Int]
  OBVIOUS
<1>9. SumFunction(p) = b * SumFunction(h)
  BY ONLY <1>4, <1>7, <1>8, SumTimes
<1>10. SumFunction(q) = e * SumFunction(f)
  BY ONLY <1>5, <1>7, <1>8, SumTimes
<1>11. SumFunction(r) = SumFunction(g) + SumFunction(k)
  BY ONLY <1>2, <1>7, <1>8, SumPlus
<1>12. SumFunction(z) = a * SumFunction(r)
  BY ONLY <1>2, <1>3, <1>7, SumTimes
<1>13. SumFunction(p) = SumFunction(q) + SumFunction(z)
  BY ONLY <1>3, <1>4, <1>5, <1>6, <1>7, SumPlus
<1> QED
  BY <1>9, <1>10, <1>11, <1>12, <1>13

(* What flows into a cell.                                                 *)
LEMMA NetType ==
  ASSUME NEW t, t \in Trees, NEW G, G \in [Lv(t) -> [Dim -> [Face -> Int]]], NEW n, n \in Lv(t)
  PROVE  \A c \in Cell : Net(G, n, c) \in Int
<1>1. /\ [c \in Cell |-> Net(G, n, c)] \in [Cell -> Int]
      /\ [d \in Dim |-> Flow(G, n, d, 0 - 1) - Flow(G, n, d, 1)] \in [Dim -> Int]
      /\ SumFunction([c \in Cell |-> Net(G, n, c)])
           = SumFunction([d \in Dim |-> Flow(G, n, d, 0 - 1) - Flow(G, n, d, 1)])
  BY NetSum
<1> QED
  BY <1>1

(* The weights of a stage.                                                 *)
LEMMA Betas ==
  ASSUME rk \in 0..(NRK - 1)
  PROVE  /\ BetaUnder[rk + 1] \in Nat \ {0} /\ BetaOver[rk + 1] \in Int
         /\ BetaUnder[rk + 1] - BetaOver[rk + 1] \in Int
<1>1. rk \in {0, 1, 2}
  BY DEF NRK
<1>2. CASE rk = 0
  <2>1. rk + 1 = 1
    BY <1>2
  <2>2. BetaUnder[1] = 1 /\ BetaOver[1] = 1
    BY DEF BetaUnder, BetaOver
  <2> QED
    BY <2>1, <2>2
<1>3. CASE rk = 1
  <2>1. rk + 1 = 2
    BY <1>3
  <2>2. BetaUnder[2] = 4 /\ BetaOver[2] = 1
    BY DEF BetaUnder, BetaOver
  <2> QED
    BY <2>1, <2>2
<1>4. CASE rk = 2
  <2>1. rk + 1 = 3
    BY <1>4
  <2>2. BetaUnder[3] = 3 /\ BetaOver[3] = 2
    BY DEF BetaUnder, BetaOver
  <2> QED
    BY <2>1, <2>2
<1> QED
  BY <1>1, <1>2, <1>3, <1>4

(* A leaf after a stage.                                                   *)
LEMMA LeafBlends ==
  ASSUME IInv, Exact, NextU, NEW n, n \in Lv(refined)
  PROVE  /\ U'[n] \in [Cell -> Int] /\ out'[n] \in Int
         /\ BetaUnder[rk + 1] * Amount(U', out', n) =
              (BetaUnder[rk + 1] - BetaOver[rk + 1]) * Amount(U0, out0, n)
              + BetaOver[rk + 1] * (Amount(U, out, n)
                                    + (Area(n) * SumFunction([c \in Cell |-> Net(F, n, c)]) + Lost(F, n)))
<1> DEFINE t == refined
           b == BetaUnder[rk + 1]
           a == BetaOver[rk + 1]
           e == b - a
           du == [c \in Cell |-> Dudt(n, c)]
           net == [c \in Cell |-> Net(F, n, c)]
<1>1. /\ phase = "next_u" /\ TypeOK /\ t \in Trees /\ rk \in 0..(NRK - 1)
      /\ n \in Leaves /\ n \in Nodes(t) /\ n \notin t
  BY DEF NextU, IInv, Order, TypeOK, Leaves, Lv
<1>2. Corrected(t, F)
  BY <1>1 DEF IInv, FluxesMeet
<1>3. b \in Nat \ {0} /\ a \in Int /\ e \in Int
  BY <1>1, Betas
<1>4. /\ U[n] \in [Cell -> Int] /\ U0[n] \in [Cell -> Int] /\ out[n] \in Int /\ out0[n] \in Int
      /\ U \in [Nodes(t) -> [Cell -> Int]] /\ U0 \in [Nodes(t) -> [Cell -> Int]]
      /\ out \in [Nodes(t) -> Int] /\ out0 \in [Nodes(t) -> Int]
  BY <1>1 DEF TypeOK
<1>5. /\ Volume(n) = Area(n) * Dx(n) /\ Volume(n) \in Nat \ {0} /\ Area(n) \in Nat \ {0}
      /\ Dx(n) \in Nat \ {0}
  BY <1>1, NodesInDomain, VolumeIs
<1>6. IsFiniteSet(Cell)
  <2>1. 1 \in Dim
    BY GridAssumption DEF Dim
  <2> QED
    BY <2>1, LowestAre
<1>7. net \in [Cell -> Int] /\ SumFunction(net) \in Int /\ Lost(F, n) \in Int
  <2>1. F \in [Lv(t) -> [Dim -> [Face -> Int]]]
    BY <1>2 DEF Corrected
  <2>2. net \in [Cell -> Int]
    <3>1. \A c \in Cell : Net(F, n, c) \in Int
      <4> HIDE DEF net, du
      <4> QED
        BY <1>1, <2>1, NetType
    <3> QED
      BY <3>1
  <2>3. SumFunction(net) \in Int /\ Lost(F, n) \in Int
    BY <1>1, <1>2, NodeGain
  <2> QED
    BY <2>2, <2>3
<1>8. ASSUME NEW c \in Cell PROVE net[c] = NetFlux(n, c) /\ du[c] = Dudt(n, c) /\ Dx(n) * du[c] = net[c] /\ du[c] \in Int
  <2>1. net[c] = NetFlux(n, c)
    BY DEF Net, NetFlux
  <2>2. NetFlux(n, c) % Dx(n) = 0
    BY <1>1 DEF Exact
  <2>3. du[c] = Quotient(NetFlux(n, c), Dx(n)) /\ du[c] = Dudt(n, c)
    BY DEF Dudt
  <2>4. net[c] \in Int
    <3> HIDE DEF net
    <3> QED
      BY <1>7
  <2> HIDE DEF net, du
  <2>5. Quotient(NetFlux(n, c), Dx(n)) \in Int /\ Dx(n) * Quotient(NetFlux(n, c), Dx(n)) = NetFlux(n, c)
    BY <1>5, <2>1, <2>2, <2>4, ExactQuotient
  <2> QED
    BY <2>1, <2>3, <2>5
<1>9. du \in [Cell -> Int]
  <2>1. du = [c \in Cell |-> du[c]]
    OBVIOUS
  <2> HIDE DEF du, net
  <2> QED
    BY <1>8, <2>1
<1>10. U'[n] = [c \in Cell |-> Blend(U0[n][c], U[n][c] + Dudt(n, c))]
       /\ out'[n] = Blend(out0[n], out[n] + DuOut(n))
  BY <1>1 DEF NextU
<1>11. DuOut(n) = Lost(F, n)
  BY DEF DuOut, Lost
<1> HIDE DEF net, du, a, b
<1>12. ASSUME NEW x \in Int, NEW y \in Int, Parts(x, y) % b = 0
       PROVE  Blend(x, y) \in Int /\ b * Blend(x, y) = e * x + a * y
  <2>1. Parts(x, y) = e * x + a * y /\ Blend(x, y) = Quotient(Parts(x, y), b)
    BY DEF Parts, Blend, a, b
  <2>2. Parts(x, y) \in Int
    <3>1. e * x \in Int /\ a * y \in Int
      BY <1>3
    <3> QED
      BY <2>1, <3>1
  <2> HIDE DEF e
  <2>3. Quotient(Parts(x, y), b) \in Int /\ b * Quotient(Parts(x, y), b) = Parts(x, y)
    BY <1>3, <1>12, <2>2, ExactQuotient
  <2> QED
    BY <2>1, <2>3
<1> HIDE DEF e
<1>13. ASSUME NEW c \in Cell
       PROVE  U'[n][c] \in Int /\ b * U'[n][c] = e * U0[n][c] + a * (U[n][c] + du[c])
  <2>1. U0[n][c] \in Int /\ U[n][c] \in Int /\ du[c] \in Int /\ U[n][c] + du[c] \in Int
    BY <1>4, <1>8
  <2>2. Parts(U0[n][c], U[n][c] + du[c]) % b = 0
    BY <1>1, <1>8 DEF Exact, b
  <2>3. U'[n][c] = Blend(U0[n][c], U[n][c] + du[c])
    BY <1>8, <1>10
  <2> QED
    BY <1>12, <2>1, <2>2, <2>3
<1>14. out'[n] \in Int /\ b * out'[n] = e * out0[n] + a * (out[n] + Lost(F, n))
  <2>1. out[n] + Lost(F, n) \in Int
    BY <1>4, <1>7
  <2>2. Parts(out0[n], out[n] + Lost(F, n)) % b = 0
    BY <1>1, <1>11 DEF Exact, b
  <2> QED
    BY <1>4, <1>10, <1>11, <1>12, <2>1, <2>2
<1>15. U'[n] \in [Cell -> Int]
  BY <1>10, <1>13
<1>16. PICK h, f, g : h = U'[n] /\ f = U0[n] /\ g = U[n]
  OBVIOUS
<1>17. /\ h \in [Cell -> Int] /\ f \in [Cell -> Int] /\ g \in [Cell -> Int]
       /\ \A c \in Cell : b * h[c] = e * f[c] + a * (g[c] + du[c])
  BY <1>4, <1>13, <1>15, <1>16
<1>18. b \in Int /\ e \in Int /\ a \in Int
  BY <1>3
<1>19. b * SumFunction(h) = e * SumFunction(f) + a * (SumFunction(g) + SumFunction(du))
  <2>1. Blends(Cell, b, e, a, h, f, g, du)
    BY ONLY <1>6, <1>9, <1>17, <1>18 DEF Blends
  <2> QED
    BY <2>1, SumBlend
<1>20. SumFunction(net) = Dx(n) * SumFunction(du)
  <2>1. Dx(n) \in Int /\ \A c \in Cell : net[c] = Dx(n) * du[c]
    BY <1>5, <1>8
  <2>2. PICK x : x = Dx(n)
    OBVIOUS
  <2>3. x \in Int /\ \A c \in Cell : net[c] = x * du[c]
    BY <2>1, <2>2
  <2>4. SumFunction(net) = x * SumFunction(du)
    BY ONLY <1>6, <1>7, <1>9, <2>3, SumTimes
  <2> QED
    BY <2>2, <2>4
<1>21. SumFunction(h) \in Int /\ SumFunction(f) \in Int /\ SumFunction(g) \in Int /\ SumFunction(du) \in Int
  BY <1>6, <1>9, <1>17, SumInt
<1>22. PICK v, s, x, hs, fs, gs, ds, ho, fo, go, lo :
         /\ v = Volume(n) /\ s = Area(n) /\ x = Dx(n)
         /\ hs = SumFunction(h) /\ fs = SumFunction(f) /\ gs = SumFunction(g) /\ ds = SumFunction(du)
         /\ ho = out'[n] /\ fo = out0[n] /\ go = out[n] /\ lo = Lost(F, n)
  OBVIOUS
<1>23. /\ Amount(U', out', n) = v * hs + ho /\ Amount(U0, out0, n) = v * fs + fo
       /\ Amount(U, out, n) = v * gs + go
  BY <1>16, <1>22 DEF Amount
<1>24. /\ b * hs = e * fs + a * (gs + ds) /\ b * ho = e * fo + a * (go + lo)
       /\ v = s * x /\ SumFunction(net) = x * ds
       /\ v \in Int /\ s \in Int /\ x \in Int /\ hs \in Int /\ fs \in Int /\ gs \in Int /\ ds \in Int
       /\ ho \in Int /\ fo \in Int /\ go \in Int /\ lo \in Int
  BY <1>4, <1>5, <1>7, <1>14, <1>19, <1>20, <1>21, <1>22
<1>25. b * (v * hs + ho) = e * (v * fs + fo) + a * ((v * gs + go) + (s * (x * ds) + lo))
  <2>1. b * (v * hs + ho) = v * (b * hs) + b * ho
    BY ONLY <1>18, <1>24
  <2>2. v * (e * fs + a * (gs + ds)) = e * (v * fs) + a * (v * gs) + a * (v * ds)
    BY ONLY <1>18, <1>24
  <2>3. v * ds = s * (x * ds)
    BY ONLY <1>24
  <2>4. PICK y, z, w : y = v * fs /\ z = v * gs /\ w = v * ds
    OBVIOUS
  <2>5. y \in Int /\ z \in Int /\ w \in Int
    BY ONLY <1>24, <2>4
  <2>6. b * (v * hs + ho) = (e * y + a * z + a * w) + (e * fo + a * (go + lo))
    BY ONLY <1>24, <2>1, <2>2, <2>4
  <2>7. e * (y + fo) + a * ((z + go) + (w + lo)) = (e * y + a * z + a * w) + (e * fo + a * (go + lo))
    BY ONLY <1>18, <1>24, <2>5
  <2> QED
    BY ONLY <2>3, <2>4, <2>6, <2>7
<1>26. /\ Amount(U, out, n) + (Area(n) * SumFunction(net) + Lost(F, n))
            = (v * gs + go) + (s * (x * ds) + lo)
  BY <1>22, <1>23, <1>24
<1> QED
  BY <1>14, <1>15, <1>23, <1>25, <1>26 DEF b, a, e, net

(* A stage blends what was stored and what the last one left, and both     *)
(* have the mass there was; the fluxes take none of it.                    *)
LEMMA StageMass ==
  ASSUME IInv, Exact, NextU
  PROVE  /\ U' \in [Nodes(refined) -> [Cell -> Int]] /\ out' \in [Nodes(refined) -> Int]
         /\ Mass(refined, U', out') = total
<1> DEFINE t == refined
           L == Lv(t)
           b == BetaUnder[rk + 1]
           a == BetaOver[rk + 1]
           e == b - a
           h == [n \in L |-> Amount(U', out', n)]
           f == [n \in L |-> Amount(U0, out0, n)]
           g == [n \in L |-> Amount(U, out, n)]
           k == [n \in L |-> Area(n) * SumFunction([c \in Cell |-> Net(F, n, c)]) + Lost(F, n)]
<1>1. /\ phase = "next_u" /\ TypeOK /\ t \in Trees /\ rk \in 0..(NRK - 1) /\ Leaves = L
      /\ U' = [n \in Nodes(t) |->
             IF n \in t THEN U[n]
             ELSE [c \in Cell |-> Blend(U0[n][c], U[n][c] + Dudt(n, c))]]
      /\ out' = [n \in Nodes(t) |->
               IF n \in t THEN out[n] ELSE Blend(out0[n], out[n] + DuOut(n))]
  BY DEF NextU, IInv, Order, TypeOK, Leaves, Lv
<1>2. /\ U \in [Nodes(t) -> [Cell -> Int]] /\ out \in [Nodes(t) -> Int]
      /\ U0 \in [Nodes(t) -> [Cell -> Int]] /\ out0 \in [Nodes(t) -> Int] /\ total \in Int
  BY <1>1 DEF TypeOK
<1>3. Corrected(t, F)
  BY <1>1 DEF IInv, FluxesMeet
<1>4. b \in Nat \ {0} /\ a \in Int /\ e \in Int
  BY <1>1, Betas
<1>5. ASSUME NEW n \in L
      PROVE  /\ U'[n] \in [Cell -> Int] /\ out'[n] \in Int
             /\ b * h[n] = e * f[n] + a * (g[n] + k[n])
  BY LeafBlends
<1>6. U' \in [Nodes(t) -> [Cell -> Int]] /\ out' \in [Nodes(t) -> Int]
  <2>1. U' = [n \in Nodes(t) |-> U'[n]] /\ out' = [n \in Nodes(t) |-> out'[n]]
    BY <1>1
  <2>2. \A n \in Nodes(t) : U'[n] \in [Cell -> Int] /\ out'[n] \in Int
    <3> SUFFICES ASSUME NEW n \in Nodes(t) PROVE U'[n] \in [Cell -> Int] /\ out'[n] \in Int
      OBVIOUS
    <3>1. CASE n \in t
      <4>1. U'[n] = U[n] /\ out'[n] = out[n]
        BY <1>1, <3>1
      <4> QED
        BY <1>2, <4>1
    <3>2. CASE n \notin t
      BY <1>5, <3>2 DEF Lv
    <3> QED
      BY <3>1, <3>2
  <2> QED
    BY <2>1, <2>2
<1>7. /\ IsFiniteSet(L) /\ h \in [L -> Int] /\ f \in [L -> Int] /\ g \in [L -> Int]
      /\ SumFunction(h) = Mass(t, U', out') /\ SumFunction(f) = Mass(t, U0, out0)
      /\ SumFunction(g) = Mass(t, U, out)
      /\ Mass(t, U', out') \in Int
  <2>1. /\ IsFiniteSet(L) /\ h \in [L -> Int] /\ f \in [L -> Int] /\ g \in [L -> Int]
        /\ Mass(t, U', out') \in Int
    <3>1. t \in Trees
      BY <1>1
    <3>2. h \in [L -> Int] /\ Mass(t, U', out') \in Int /\ IsFiniteSet(L)
      BY <1>6, <3>1, MassType
    <3>3. f \in [L -> Int]
      BY <1>2, <3>1, MassType
    <3>4. g \in [L -> Int]
      BY <1>2, <3>1, MassType
    <3> QED
      BY <3>2, <3>3, <3>4
  <2> QED
    BY <2>1 DEF Mass
<1>8. k \in [L -> Int] /\ SumFunction(k) = 0
  <2>1. ASSUME NEW n \in L
        PROVE  Area(n) * SumFunction([c \in Cell |-> Net(F, n, c)]) + Lost(F, n) \in Int
    <3>1. PICK x, y, z : x = Area(n) /\ y = SumFunction([c \in Cell |-> Net(F, n, c)]) /\ z = Lost(F, n)
      OBVIOUS
    <3>2. y \in Int /\ z \in Int
      BY <1>1, <1>3, <3>1, NodeGain
    <3>3. x \in Nat
      <4>1. n \in Nodes(t)
        BY DEF Lv
      <4> QED
        BY <1>1, <3>1, <4>1, NodesInDomain, VolumeIs
    <3>4. x * y + z \in Int
      BY ONLY <3>2, <3>3
    <3> QED
      BY <3>1, <3>4
  <2>2. \A n \in L : k[n] = Area(n) * SumFunction([c \in Cell |-> Net(F, n, c)]) + Lost(F, n)
    OBVIOUS
  <2>3. k \in [L -> Int]
    BY <2>1
  <2> HIDE DEF k
  <2>4. SumFunction(k) = 0
    BY <1>1, <1>3, <2>2, <2>3, NothingLost
  <2> QED
    BY <2>3, <2>4
<1>9. Mass(t, U, out) = total /\ Mass(t, U0, out0) = total
  BY <1>1, DiagnosticsAre DEF IInv, Conserved, Keeps
<1> HIDE DEF h, f, g, k, b, a, L
<1>10. Blends(L, b, e, a, h, f, g, k)
  <2>1. b \in Int /\ e \in Int /\ a \in Int
    BY <1>4
  <2>2. \A n \in L : b * h[n] = e * f[n] + a * (g[n] + k[n])
    BY <1>5
  <2> HIDE DEF e
  <2> QED
    BY ONLY <1>7, <1>8, <2>1, <2>2 DEF Blends
<1>11. b * SumFunction(h) = e * SumFunction(f) + a * (SumFunction(g) + SumFunction(k))
  BY <1>10, SumBlend
<1>12. Mass(t, U', out') = total
  <2>1. PICK m, x : m = Mass(t, U', out') /\ x = total
    OBVIOUS
  <2>2. b * m = e * x + a * (x + 0) /\ m \in Int /\ x \in Int
    BY <1>2, <1>7, <1>8, <1>9, <1>11, <2>1
  <2>3. e * x + a * (x + 0) = b * x
    <3>1. (b - a) * x + a * x = b * x
      BY <1>4, <2>2
    <3> QED
      BY <2>2, <3>1
  <2>4. b * (m - x) = 0
    BY <1>4, <2>2, <2>3
  <2>5. m - x = 0
    BY <1>4, <2>2, <2>4
  <2> QED
    BY <2>1, <2>2, <2>5
<1> QED
  BY <1>6, <1>12

(* A stage preserves the invariant.                                        *)
LEMMA StageStep == IInv /\ Exact /\ NextU => IInv'
<1> SUFFICES ASSUME IInv, Exact, NextU PROVE IInv'
  OBVIOUS
<1>1. /\ phase = "next_u" /\ phase' = "exchange" /\ rk' = rk + 1 /\ refined' = refined
      /\ U0' = U0 /\ out0' = out0 /\ level' = level /\ regrids' = regrids /\ total' = total
  BY DEF NextU
<1>2. /\ U' \in [Nodes(refined) -> [Cell -> Int]] /\ out' \in [Nodes(refined) -> Int]
      /\ Mass(refined, U', out') = total
  BY StageMass
<1>3. TypeOK /\ rk \in 0..(NRK - 1) /\ level = MaxLevel
  BY <1>1 DEF IInv, Order
<1>4. rk' \in 0..NRK
  BY <1>1, <1>3 DEF NRK
<1>5. TypeOK'
  BY <1>1, <1>2, <1>3, <1>4 DEF TypeOK
<1>6. Order' /\ FluxesMeet'
  BY <1>1 DEF Order, FluxesMeet
<1>7. Restores'
  <2>1. \A n \in refined : ~(n.lev > MaxLevel)
    <3>1. refined \in Trees /\ MaxLevel \in Nat
      BY <1>3, GridAssumption DEF TypeOK
    <3> QED
      BY <3>1, TreesAssumption
  <2> QED
    BY <1>1, <1>3, <2>1 DEF Restores
<1>8. Keeps'
  <2>1. Mass(refined, U0, out0) = total
    BY <1>1 DEF IInv, Keeps
  <2> QED
    BY <1>1, <2>1 DEF Keeps
<1>9. Conserved'
  <2>1. Diagnostics' = Mass(refined, U', out')
    BY <1>1 DEF Diagnostics, Leaves, Mass, Lv
  <2> QED
    BY <1>1, <1>2, <2>1 DEF Conserved
<1> QED
  BY <1>5, <1>6, <1>7, <1>8, <1>9 DEF IInv

(* The limited slope of the reversed differences.                          *)
LEMMA MinmodIs ==
  ASSUME NEW x \in Int, NEW y \in Int
  PROVE  Minmod(x, y) \in Int /\ Minmod(0 - y, 0 - x) = 0 - Minmod(x, y)
BY DEF Minmod

(* The direction opposite to an octant's.                                  *)
Flip(o) == [d \in Dim |-> 1 - o[d]]
(* Opposite octants, each the other's.                                     *)
LEMMA FlipIs ==
  ASSUME NEW o, o \in Octant
  PROVE  Flip(o) \in Octant /\ Flip(Flip(o)) = o
<1>1. \A d \in Dim : o[d] \in {0, 1}
  BY CellsAre
<1>2. o \in Vector(Int)
  BY CellsAre
<1>3. \A d \in Dim : Flip(o)[d] = 1 - o[d]
  BY DEF Flip
<1>4. Flip(o) \in Octant
  <2>1. \A d \in Dim : 1 - o[d] \in 0..1
    BY <1>1
  <2> QED
    BY <2>1 DEF Flip, Octant, Vector
<1>5. Flip(Flip(o)) \in Vector(Int) /\ \A d \in Dim : Flip(Flip(o))[d] = o[d]
  <2>1. \A d \in Dim : Flip(Flip(o))[d] = 1 - Flip(o)[d]
    BY DEF Flip
  <2>2. \A d \in Dim : Flip(Flip(o))[d] = o[d]
    BY <1>1, <1>3, <2>1
  <2>3. Flip(Flip(o)) = [d \in Dim |-> Flip(Flip(o))[d]]
    BY DEF Flip
  <2>4. \A d \in Dim : Flip(Flip(o))[d] \in Int
    BY <1>1, <2>2
  <2> QED
    BY <2>2, <2>3, <2>4 DEF Vector
<1> QED
  BY <1>2, <1>4, <1>5, SameVector

(* Toward the opposite octant is away from an octant.                      *)
LEMMA TowardIs ==
  ASSUME NEW o, o \in Octant, NEW S, S \in SUBSET Dim
  PROVE  /\ Toward(S, o) \in Vector(Int) /\ Times(0 - 1, Toward(S, o)) \in Vector(Int)
         /\ \A d \in Dim : /\ Toward(S, o)[d] \in {0 - 1, 0, 1}
                           /\ Times(0 - 1, Toward(S, o))[d] = 0 - Toward(S, o)[d]
         /\ Toward(S, Flip(o)) = Times(0 - 1, Toward(S, o))
         /\ Times(0 - 1, Toward(S, Flip(o))) = Toward(S, o)
<1>1. \A d \in Dim : o[d] \in {0, 1}
  BY CellsAre
<1>2. \A p \in Octant : /\ Toward(S, p) \in Vector(Int)
                        /\ \A d \in Dim : Toward(S, p)[d] = IF d \notin S THEN 0 ELSE IF p[d] = 1 THEN 1 ELSE 0 - 1
  BY DEF Toward, Vector
<1>3. 0 - 1 \in Int
  OBVIOUS
<1>4. \A p \in Octant : /\ Times(0 - 1, Toward(S, p)) \in Vector(Int)
                        /\ \A d \in Dim : Times(0 - 1, Toward(S, p))[d] = 0 - Toward(S, p)[d]
  <2> SUFFICES ASSUME NEW p \in Octant
               PROVE  /\ Times(0 - 1, Toward(S, p)) \in Vector(Int)
                      /\ \A d \in Dim : Times(0 - 1, Toward(S, p))[d] = 0 - Toward(S, p)[d]
    OBVIOUS
  <2>1. PICK k, v : k = 0 - 1 /\ v = Toward(S, p)
    OBVIOUS
  <2>2. k \in Int /\ v \in Vector(Int)
    BY <1>2, <2>1
  <2>3. Times(k, v) \in Vector(Int) /\ \A d \in Dim : Times(k, v)[d] = k * v[d] /\ v[d] \in Int
    BY <2>2, Vectors
  <2>4. \A d \in Dim : Times(k, v)[d] = 0 - v[d]
    BY <2>1, <2>3
  <2> QED
    BY <2>1, <2>3, <2>4
<1>5. Flip(o) \in Octant /\ \A d \in Dim : Flip(o)[d] = 1 - o[d]
  BY FlipIs DEF Flip
<1>6. \A d \in Dim : /\ Toward(S, Flip(o))[d] = 0 - Toward(S, o)[d]
                     /\ 0 - Toward(S, Flip(o))[d] = Toward(S, o)[d]
                     /\ Toward(S, o)[d] \in {0 - 1, 0, 1}
  BY <1>1, <1>2, <1>5
<1>7. Toward(S, Flip(o)) = Times(0 - 1, Toward(S, o))
  BY <1>2, <1>4, <1>5, <1>6, SameVector
<1>8. Times(0 - 1, Toward(S, Flip(o))) = Toward(S, o)
  BY <1>2, <1>4, <1>5, <1>6, SameVector
<1> QED
  BY <1>2, <1>4, <1>6, <1>7, <1>8

(* The cells around a cell, the ghosts included, are integers.             *)
LEMMA AroundType ==
  ASSUME TypeOK, NEW n, n \in Nodes(refined), NEW c, c \in Cell, NEW v, v \in Vector(Int),
         \A d \in Dim : v[d] \in {0 - 1, 0, 1}, NEW ghost, ghost \in Data
  PROVE  Around(n, c, v, ghost) \in Int
<1>1. INX = 2 * Half /\ INX \in Nat \ {0}
  BY GridAssumption, Halves
<1>2. c \in Vector(Int) /\ \A d \in Dim : c[d] \in 0..(INX - 1)
  BY <1>1, CellsAre
<1> DEFINE j == Plus(c, v)
<1>3. j \in Vector(Int) /\ \A d \in Dim : j[d] = c[d] + v[d]
  BY <1>2, Vectors
<1>4. j \in Vector((0 - 1)..INX)
  <2>1. \A d \in Dim : j[d] \in (0 - 1)..INX
    <3> HIDE DEF j
    <3> QED
      BY <1>1, <1>2, <1>3
  <2>2. j = [d \in Dim |-> j[d]]
    BY DEF Plus
  <2> HIDE DEF j
  <2> QED
    BY <2>1, <2>2 DEF Vector
<1> HIDE DEF j
<1>5. Place(n, 0, j) \in Places
  <2>1. refined \in Trees /\ 0 \in 0..NDIM
    BY GridAssumption DEF TypeOK
  <2> QED
    BY <1>4, <2>1, PlaceIs
<1>6. ghost[Place(n, 0, j)] \in Int
  BY <1>5, DataAssumption
<1>7. j \in Cell => U[n][j] \in Int
  BY DEF TypeOK
<1>8. Around(n, c, v, ghost) = IF j \in Cell THEN U[n][j] ELSE ghost[Place(n, 0, j)]
  BY DEF Around, j
<1> QED
  BY <1>6, <1>7, <1>8

(* A slope is the negative of the one the opposite way.                    *)
LEMMA SlopeIs ==
  ASSUME TypeOK, NEW n, n \in Nodes(refined), NEW c, c \in Cell, NEW o, o \in Octant,
         NEW S, S \in SUBSET Dim, NEW ghost, ghost \in Data
  PROVE  Slope(n, c, o, S, ghost) \in Int /\ Slope(n, c, Flip(o), S, ghost) = 0 - Slope(n, c, o, S, ghost)
<1>1. PICK v, w : v = Toward(S, o) /\ w = Times(0 - 1, Toward(S, o))
  OBVIOUS
<1>2. v \in Vector(Int) /\ w \in Vector(Int) /\ \A d \in Dim : v[d] \in {0 - 1, 0, 1} /\ w[d] \in {0 - 1, 0, 1}
  <2>1. /\ v \in Vector(Int) /\ w \in Vector(Int)
        /\ \A d \in Dim : v[d] \in {0 - 1, 0, 1} /\ w[d] = 0 - v[d]
    BY <1>1, TowardIs
  <2> QED
    BY <2>1
<1>3. PICK x, y, u : x = Around(n, c, v, ghost) /\ y = Around(n, c, w, ghost) /\ u = U[n][c]
  OBVIOUS
<1>4. x \in Int /\ y \in Int /\ u \in Int
  BY <1>2, <1>3, AroundType DEF TypeOK
<1>5. Slope(n, c, o, S, ghost) = Minmod(x - u, u - y)
  BY <1>1, <1>3 DEF Slope
<1>6. Slope(n, c, Flip(o), S, ghost) = Minmod(y - u, u - x)
  <2>1. Toward(S, Flip(o)) = w /\ Times(0 - 1, Toward(S, Flip(o))) = v
    BY <1>1, TowardIs
  <2> QED
    BY <1>3, <2>1 DEF Slope
<1>7. x - u \in Int /\ u - y \in Int /\ 0 - (u - y) = y - u /\ 0 - (x - u) = u - x
  BY <1>4
<1>8. PICK p \in Int, q \in Int : p = x - u /\ q = u - y /\ 0 - q = y - u /\ 0 - p = u - x
  BY <1>7
<1>9. Minmod(p, q) \in Int /\ Minmod(0 - q, 0 - p) = 0 - Minmod(p, q)
  BY MinmodIs
<1> QED
  BY <1>5, <1>6, <1>8, <1>9

(* There are finitely many directions, with integer weights.               *)
LEMMA DirectionSets ==
  /\ IsFiniteSet((SUBSET Dim) \ {{}}) /\ IsFiniteSet(Octant)
  /\ \A S \in SUBSET Dim : 3^(NDIM - Cardinality(S)) \in Int
<1>1. NDIM \in Nat
  BY GridAssumption
<1>2. IsFiniteSet(Dim) /\ Cardinality(Dim) = NDIM
  BY <1>1, FS_Interval DEF Dim
<1>3. IsFiniteSet(SUBSET Dim)
  BY <1>2, FS_SUBSET
<1>4. IsFiniteSet((SUBSET Dim) \ {{}})
  BY <1>3, FS_Subset
<1>5. ASSUME NEW S \in SUBSET Dim PROVE 3^(NDIM - Cardinality(S)) \in Int
  <2>1. IsFiniteSet(S) /\ Cardinality(S) <= NDIM /\ Cardinality(S) \in Nat
    BY <1>2, FS_Subset, FS_CardinalityType
  <2>2. NDIM - Cardinality(S) \in Nat
    BY <1>1, <2>1
  <2> QED
    BY <2>2, ThreePowers
<1> QED
  BY <1>4, <1>5, Octants

(* The slopes of get_prolong toward the octants of a cell cancel, whatever *)
(* is around it: minmod is odd, and toward the opposite octant the         *)
(* differences it compares change places and signs.                        *)
THEOREM SlopesCancel ==
  ASSUME TypeOK, NEW n, n \in Nodes(refined), NEW c, c \in Cell, NEW ghost, ghost \in Data,
         NEW f, f = [o \in Octant |-> Slopes(n, c, o, ghost)]
  PROVE  f \in [Octant -> Int] /\ SumFunction(f) = 0
<1> DEFINE D == (SUBSET Dim) \ {{}}
           k(S) == 3^(NDIM - Cardinality(S))
           row == [o \in Octant |-> [S \in D |-> k(S) * Slope(n, c, o, S, ghost)]]
           col == [S \in D |-> [o \in Octant |-> k(S) * Slope(n, c, o, S, ghost)]]
           q == [S \in D |-> 0]
           b == [o \in Octant |-> Flip(o)]
<1>1. IsFiniteSet(D) /\ IsFiniteSet(Octant) /\ \A S \in D : k(S) \in Int
  BY DirectionSets
<1>2. \A S \in D : \A o \in Octant :
        /\ Slope(n, c, o, S, ghost) \in Int
        /\ Slope(n, c, Flip(o), S, ghost) = 0 - Slope(n, c, o, S, ghost)
  BY SlopeIs
<1> HIDE DEF k
<1>3. ASSUME NEW o \in Octant PROVE row[o] \in [D -> Int] /\ f[o] = SumFunction(row[o])
  <2>1. \A S \in D : k(S) * Slope(n, c, o, S, ghost) \in Int
    <3> SUFFICES ASSUME NEW S \in D PROVE k(S) * Slope(n, c, o, S, ghost) \in Int
      OBVIOUS
    <3>1. PICK x, y : x = k(S) /\ y = Slope(n, c, o, S, ghost)
      OBVIOUS
    <3>2. x \in Int /\ y \in Int
      BY <1>1, <1>2, <3>1
    <3>3. x * y \in Int
      BY ONLY <3>2
    <3> QED
      BY <3>1, <3>3
  <2>2. row[o] = [S \in D |-> k(S) * Slope(n, c, o, S, ghost)]
    OBVIOUS
  <2>3. f[o] = SumFunction([S \in D |-> k(S) * Slope(n, c, o, S, ghost)])
    BY DEF Slopes, k
  <2> HIDE DEF D, row
  <2> QED
    BY <2>1, <2>2, <2>3
<1>4. b \in [Octant -> Octant] /\ \A o \in Octant : b[b[o]] = o /\ b[o] = Flip(o)
  <2>1. b \in [Octant -> Octant] /\ \A o \in Octant : b[o] = Flip(o)
    BY FlipIs
  <2> HIDE DEF b
  <2>2. \A o \in Octant : b[b[o]] = o
    BY <2>1, FlipIs
  <2> QED
    BY <2>1, <2>2
<1>5. ASSUME NEW S \in D PROVE col[S] \in [Octant -> Int] /\ SumFunction(col[S]) = 0
  <2>1. PICK g : g = [o \in Octant |-> k(S) * Slope(n, c, o, S, ghost)]
    OBVIOUS
  <2>2. col[S] = g
    BY <2>1
  <2> HIDE DEF D, b
  <2>3. \A o \in Octant : /\ g[o] \in Int
                          /\ k(S) * (0 - Slope(n, c, o, S, ghost)) = 0 - k(S) * Slope(n, c, o, S, ghost)
    BY <1>1, <1>2, <2>1
  <2>4. g \in [Octant -> Int]
    BY <2>1, <2>3
  <2>5. \A o \in Octant : b[b[o]] = o /\ g[b[o]] = 0 - g[o]
    <3> SUFFICES ASSUME NEW o \in Octant PROVE b[b[o]] = o /\ g[b[o]] = 0 - g[o]
      OBVIOUS
    <3>1. b[o] \in Octant /\ b[o] = Flip(o)
      BY <1>4
    <3>2. g[b[o]] = k(S) * Slope(n, c, Flip(o), S, ghost)
      BY <2>1, <3>1
    <3>3. g[o] = k(S) * Slope(n, c, o, S, ghost)
      BY <2>1
    <3> QED
      BY <1>2, <1>4, <2>3, <3>2, <3>3
  <2>6. SumFunction(g) = 0
    BY ONLY <1>1, <1>4, <2>4, <2>5, SumCancels
  <2> QED
    BY <2>2, <2>4, <2>6
<1>6. /\ row \in [Octant -> [D -> Int]] /\ col \in [D -> [Octant -> Int]]
      /\ \A o \in Octant : \A S \in D : row[o][S] = col[S][o]
  <2>1. row = [o \in Octant |-> row[o]] /\ col = [S \in D |-> col[S]]
    OBVIOUS
  <2>2. \A o \in Octant : \A S \in D : row[o][S] = col[S][o]
    OBVIOUS
  <2> HIDE DEF row, col, D
  <2> QED
    BY <1>3, <1>5, <2>1, <2>2
<1>7. f \in [Octant -> Int]
  <2>1. \A o \in Octant : SumFunction(row[o]) \in Int
    <3> HIDE DEF row, D
    <3> QED
      BY <1>1, <1>3, SumInt
  <2>2. f = [o \in Octant |-> f[o]]
    OBVIOUS
  <2> HIDE DEF row, D
  <2> QED
    BY <1>3, <2>1, <2>2
<1>8. q \in [D -> Int] /\ \A S \in D : q[S] = 0
  OBVIOUS
<1> HIDE DEF D, row, col, q, b
<1>9. \A S \in D : q[S] = SumFunction(col[S])
  BY <1>5, <1>8
<1>10. ColumnSums(Octant, D, row, f, col, q)
  BY ONLY <1>1, <1>3, <1>5, <1>6, <1>7, <1>8, <1>9 DEF ColumnSums
<1>11. SumFunction(f) = SumFunction(q)
  BY <1>10, SumSwap
<1>12. SumFunction(q) = 0
  <2>1. 0 \in Int /\ \A S \in D : q[S] = 0 * q[S]
    BY <1>8
  <2>2. SumFunction(q) = 0 * SumFunction(q) /\ SumFunction(q) \in Int
    BY ONLY <1>1, <1>8, <2>1, SumTimes, SumInt
  <2> QED
    BY <2>2
<1> QED
  BY <1>7, <1>11, <1>12

(* What a cell's slopes add to its children's cells adds up to nothing.    *)
LEMMA ProlongSum ==
  ASSUME TypeOK, NEW n, n \in Nodes(refined), NEW c, c \in Cell, NEW ghost, ghost \in Data,
         \A o \in Octant : Slopes(n, c, o, ghost) % 2^(2 * NDIM) = 0,
         NEW h, h = [o \in Octant |-> Prolong(n, c, o, ghost)]
  PROVE  h \in [Octant -> Int] /\ SumFunction(h) = 2^NDIM * U[n][c]
<1> DEFINE f == [o \in Octant |-> Slopes(n, c, o, ghost)]
           g == [o \in Octant |-> Quotient(f[o], 2^(2 * NDIM))]
           w == [o \in Octant |-> U[n][c]]
<1>1. f \in [Octant -> Int] /\ SumFunction(f) = 0
  BY SlopesCancel
<1>2. IsFiniteSet(Octant) /\ Cardinality(Octant) = 2^NDIM /\ 2^NDIM \in Nat
  BY Octants, Powers, GridAssumption
<1>3. PICK b : b = 2^(2 * NDIM) /\ b \in Nat \ {0}
  <2>1. 2 * NDIM \in Nat
    BY GridAssumption
  <2> QED
    BY <2>1, Powers
<1>4. PICK x : x = U[n][c] /\ x \in Int
  BY DEF TypeOK
<1>5. ASSUME NEW o \in Octant
      PROVE  g[o] \in Int /\ f[o] = b * g[o] /\ h[o] = w[o] + g[o]
  <2>1. f[o] = Slopes(n, c, o, ghost) /\ f[o] \in Int /\ f[o] % b = 0
    BY <1>1, <1>3
  <2>2. g[o] = Quotient(f[o], b)
    BY <1>3
  <2>3. h[o] = U[n][c] + Quotient(f[o], 2^(2 * NDIM))
    BY <2>1 DEF Prolong
  <2>4. h[o] = w[o] + g[o]
    BY <2>3
  <2> HIDE DEF f, g, w
  <2>5. Quotient(f[o], b) \in Int /\ b * Quotient(f[o], b) = f[o]
    BY <1>3, <2>1, ExactQuotient
  <2> QED
    BY <2>2, <2>4, <2>5
<1>6. w \in [Octant -> Int] /\ \A o \in Octant : w[o] = x
  BY <1>4
<1>7. g = [o \in Octant |-> g[o]] /\ h = [o \in Octant |-> h[o]]
  OBVIOUS
<1> HIDE DEF f, g, w
<1>8. g \in [Octant -> Int] /\ \A o \in Octant : f[o] = b * g[o]
  BY <1>5, <1>7
<1>9. h \in [Octant -> Int] /\ \A o \in Octant : h[o] = w[o] + g[o]
  <2>1. \A o \in Octant : h[o] = w[o] + g[o]
    BY <1>5
  <2>2. \A o \in Octant : w[o] + g[o] \in Int
    BY <1>6, <1>8
  <2> QED
    BY <1>7, <2>1, <2>2
<1>10. SumFunction(h) = SumFunction(w) + SumFunction(g)
  <2>1. PICK S : S = Octant
    OBVIOUS
  <2>2. /\ IsFiniteSet(S) /\ w \in [S -> Int] /\ g \in [S -> Int] /\ h \in [S -> Int]
        /\ \A o \in S : h[o] = w[o] + g[o]
    BY <1>2, <1>6, <1>8, <1>9, <2>1
  <2> QED
    BY ONLY <2>2, SumPlus
<1>11. SumFunction(f) = b * SumFunction(g) /\ SumFunction(g) \in Int
  <2>1. PICK S : S = Octant
    OBVIOUS
  <2>2. /\ IsFiniteSet(S) /\ f \in [S -> Int] /\ g \in [S -> Int] /\ b \in Int
        /\ \A o \in S : f[o] = b * g[o]
    BY <1>1, <1>2, <1>3, <1>8, <2>1
  <2>3. SumFunction(f) = b * SumFunction(g)
    BY ONLY <2>2, SumTimes
  <2>4. SumFunction(g) \in Int
    BY ONLY <2>2, SumInt
  <2> QED
    BY <2>3, <2>4
<1>12. SumFunction(g) = 0
  <2>1. PICK y : y = SumFunction(g)
    OBVIOUS
  <2>2. b * y = 0 /\ y \in Int
    BY <1>1, <1>11, <2>1
  <2>3. y = 0
    BY <1>3, <2>2
  <2> QED
    BY <2>1, <2>3
<1>13. SumFunction(w) = 2^NDIM * x
  <2>1. PICK S : S = Octant
    OBVIOUS
  <2>2. IsFiniteSet(S) /\ w \in [S -> Int] /\ x \in Int /\ \A o \in S : w[o] = x
    BY <1>2, <1>4, <1>6, <2>1
  <2>3. SumFunction(w) = Cardinality(S) * x
    BY ONLY <2>2, SumConstant
  <2> QED
    BY <1>2, <2>1, <2>3
<1>14. SumFunction(h) = 2^NDIM * x
  <2>1. PICK y : y = 2^NDIM * x
    OBVIOUS
  <2>2. y \in Int
    BY <1>2, <1>4, <2>1
  <2>3. y + 0 = y
    BY <2>2
  <2> QED
    BY <1>10, <1>12, <1>13, <2>1, <2>3
<1> QED
  BY <1>4, <1>9, <1>14

-----------------------------------------------------------------------------
(* If refined nodes share out what they have, the mass is what the root has*)
LEMMA TreeMass ==
  ASSUME NEW t, t \in Trees, NEW u, u \in [Nodes(t) -> [Cell -> Int]],
         NEW o, o \in [Nodes(t) -> Int], \A n \in t : Additive(u, o, n)
  PROVE  Mass(t, u, o) = Amount(u, o, Root)
<1> DEFINE w == [n \in Nodes(t) |-> Amount(u, o, n)]
<1>1. w \in [Nodes(t) -> Int]
  <2>1. \A n \in Nodes(t) : Amount(u, o, n) \in Int
    BY AmountType
  <2> QED
    BY <2>1
<1>2. \A n \in t : w[n] = SumFunction([ci \in Octant |-> w[Child(n, ci)]])
  <2> SUFFICES ASSUME NEW n \in t PROVE w[n] = SumFunction([ci \in Octant |-> w[Child(n, ci)]])
    OBVIOUS
  <2>1. n \in Nodes(t) /\ \A ci \in Octant : Child(n, ci) \in Nodes(t)
    BY NodesAre
  <2>2. w[n] = Amount(u, o, n) /\ \A ci \in Octant : w[Child(n, ci)] = Amount(u, o, Child(n, ci))
    BY <2>1
  <2> HIDE DEF w
  <2>3. [ci \in Octant |-> w[Child(n, ci)]] = [ci \in Octant |-> Amount(u, o, Child(n, ci))]
    BY <2>2
  <2> QED
    BY <2>2, <2>3 DEF Additive
<1>3. w[Root] = Amount(u, o, Root)
  BY NodesAre
<1>4. [n \in Lv(t) |-> Amount(u, o, n)] = Over(w, Nodes(t) \ t)
  BY DEF Lv, Over
<1> HIDE DEF w
<1>5. SumFunction(Over(w, Nodes(t) \ t)) = w[Root]
  BY <1>1, <1>2, LeafSum
<1> QED
  BY <1>3, <1>4, <1>5 DEF Mass

(* An outflow handed to the first child and nothing to the others.         *)
LEMMA ToFirstChild ==
  ASSUME NEW f, f \in [Octant -> Int], NEW x \in Int,
         \A o \in Octant : f[o] = IF \A d \in Dim : o[d] = 0 THEN x ELSE 0
  PROVE  SumFunction(f) = x
<1> DEFINE z == [d \in Dim |-> 0]
           R == Octant \ {z}
           g == Over(f, R)
<1>1. z \in Octant /\ \A d \in Dim : z[d] = 0
  BY DEF Octant, Vector
<1>2. \A o \in R : ~ \A d \in Dim : o[d] = 0
  <2> SUFFICES ASSUME NEW o \in R, \A d \in Dim : o[d] = 0 PROVE FALSE
    OBVIOUS
  <2>1. o \in Vector(Int) /\ z \in Vector(Int)
    BY <1>1, CellsAre
  <2>2. \A d \in Dim : o[d] = z[d]
    BY <1>1
  <2> HIDE DEF z
  <2>3. o = z
    BY <2>1, <2>2, SameVector
  <2> QED
    BY <2>3
<1> HIDE DEF z
<1>3. IsFiniteSet(Octant) /\ f = Over(f, Octant) /\ Octant \in SUBSET Octant /\ R \in SUBSET Octant
  BY Octants, SumLaws
<1>4. /\ SumFunction(Over(f, Octant)) = f[z] + SumFunction(g)
      /\ IsFiniteSet(R) /\ g \in [R -> Int]
  BY <1>1, <1>3, SumLaws
<1>5. f[z] = x
  BY <1>1
<1>6. \A o \in R : g[o] = 0
  <2>1. \A o \in R : g[o] = f[o] /\ o \in Octant
    BY DEF Over
  <2> HIDE DEF g, R
  <2> QED
    BY <1>2, <2>1
<1> HIDE DEF g, R
<1>7. SumFunction(g) = 0
  <2>1. 0 \in Int /\ \A o \in R : g[o] = 0 * g[o]
    BY <1>4, <1>6
  <2>2. SumFunction(g) = 0 * SumFunction(g)
    BY ONLY <1>4, <2>1, SumTimes
  <2>3. SumFunction(g) \in Int
    BY ONLY <1>4, SumInt
  <2> QED
    BY <2>2, <2>3
<1> QED
  BY <1>3, <1>4, <1>5, <1>7

(* The nodes of the tree regrid leaves: those there were, and children of  *)
(* leaves it refines.                                                      *)
LEMMA NewNodes ==
  ASSUME NEW t, t \in Trees, NEW s, s \in Trees, s \subseteq Nodes(t)
  PROVE  /\ \A n \in s : /\ n \in Nodes(t) /\ n \in Nodes(s) /\ n.lev \in 0..(MaxLevel - 1)
                         /\ \A ci \in Octant :
                              /\ Child(n, ci) \in Nodes(s)
                              /\ Child(n, ci) \in Nodes(t) <=> n \in t
                              /\ Parent(Child(n, ci)) = n /\ ChildIndex(Child(n, ci)) = ci
         /\ \A n \in Nodes(s) \ Nodes(t) : \E m \in s \ t : \E ci \in Octant : n = Child(m, ci)
         /\ Root \in Nodes(t) /\ Root \in Nodes(s)
<1>1. /\ s \subseteq Nodes(s) /\ Nodes(s) \subseteq Loc /\ Root \in Nodes(s)
      /\ \A n \in s : /\ n.lev \in 0..(MaxLevel - 1)
                      /\ \A ci \in Octant : Child(n, ci) \in Nodes(s)
      /\ \A n \in Nodes(s) : n = Root \/ \E m \in s : \E ci \in Octant : n = Child(m, ci)
  BY NodesAre
<1>2. /\ Root \in Nodes(t)
      /\ \A n \in t : \A ci \in Octant : Child(n, ci) \in Nodes(t)
      /\ \A n \in Loc : \A ci \in Octant : Child(n, ci) \in Nodes(t) => n \in t
  BY NodesAre
<1>3. ASSUME NEW n \in s, NEW ci \in Octant
      PROVE  /\ Child(n, ci) \in Nodes(t) <=> n \in t
             /\ Parent(Child(n, ci)) = n /\ ChildIndex(Child(n, ci)) = ci
  <2>1. n \in Loc
    BY <1>1
  <2> QED
    BY <1>2, <2>1, ChildIs
<1>4. ASSUME NEW n \in Nodes(s), n \notin Nodes(t)
      PROVE  \E m \in s \ t : \E ci \in Octant : n = Child(m, ci)
  <2>1. PICK m \in s, ci \in Octant : n = Child(m, ci)
    BY <1>1, <1>2, <1>4
  <2>2. m \notin t
    BY <1>2, <1>4, <2>1
  <2> QED
    BY <2>1, <2>2
<1> QED
  BY <1>1, <1>2, <1>3, <1>4

(* A finer cell lies in the cell it is averaged into.                      *)
LEMMA FinerLies ==
  ASSUME NEW c, c \in Cell, NEW k, k \in Octant
  PROVE  /\ OctantOf(c) \in Octant /\ Plus(First(c), k) \in Cell
         /\ Above(OctantOf(c), Plus(First(c), k)) = c
         /\ Side(OctantOf(c), Plus(First(c), k)) = k
<1>1. OctantOf(c) \in Octant /\ Plus(First(c), k) \in Cell
  BY FinerIs
<1>2. Finer[<<c, k>>] = <<OctantOf(c), Plus(First(c), k)>>
  BY DEF Finer
<1>3. Coarser[<<OctantOf(c), Plus(First(c), k)>>]
        = <<Above(OctantOf(c), Plus(First(c), k)), Side(OctantOf(c), Plus(First(c), k))>>
  BY <1>1 DEF Coarser
<1>4. Coarser[Finer[<<c, k>>]] = <<c, k>>
  <2>1. <<c, k>> \in Cell \X Octant
    OBVIOUS
  <2> QED
    BY <2>1, FinerCellsAre
<1> QED
  BY <1>1, <1>2, <1>3, <1>4

(* Every refined node of the new tree has what its children have           *)
(* together, and the root has what it had.                                 *)
LEMMA RegridKeeps ==
  ASSUME IInv, Exact, Regrid
  PROVE  /\ U' \in [Nodes(refined') -> [Cell -> Int]] /\ out' \in [Nodes(refined') -> Int]
         /\ \A n \in refined' : Additive(U', out', n)
         /\ U'[Root] = U[Root] /\ out'[Root] = out[Root]
<1> DEFINE t == refined
           s == refined'
           Old(n) == n \in Nodes(t)
<1>1. /\ phase = "regrid" /\ regrids < MaxRegrids /\ s \in Trees /\ s \subseteq Nodes(t)
      /\ out' = [n \in Nodes(s) |-> IF Old(n) THEN out[n] ELSE Outflows(n)]
  BY DEF Regrid
<1>2. PICK ghost \in Data :
        U' = [n \in Nodes(s) |-> IF Old(n) THEN U[n] ELSE [c \in Cell |->
               Prolong(Parent(n), Above(ChildIndex(n), c), Side(ChildIndex(n), c), ghost)]]
  BY DEF Regrid, Above, Side
<1>3. TypeOK /\ t \in Trees /\ \A n \in t : Additive(U, out, n)
  BY <1>1 DEF IInv, TypeOK, Restores
<1>4. U \in [Nodes(t) -> [Cell -> Int]] /\ out \in [Nodes(t) -> Int]
  BY <1>3 DEF TypeOK
<1>5. /\ \A n \in s : /\ n \in Nodes(t) /\ n \in Nodes(s) /\ n.lev \in 0..(MaxLevel - 1)
                      /\ \A ci \in Octant :
                           /\ Child(n, ci) \in Nodes(s)
                           /\ Child(n, ci) \in Nodes(t) <=> n \in t
                           /\ Parent(Child(n, ci)) = n /\ ChildIndex(Child(n, ci)) = ci
      /\ \A n \in Nodes(s) \ Nodes(t) : \E m \in s \ t : \E ci \in Octant : n = Child(m, ci)
      /\ Root \in Nodes(t) /\ Root \in Nodes(s)
  BY <1>1, <1>3, NewNodes
<1>6. ASSUME NEW n \in s, n \notin t, NEW c \in Cell
      PROVE  /\ [o \in Octant |-> Prolong(n, c, o, ghost)] \in [Octant -> Int]
             /\ SumFunction([o \in Octant |-> Prolong(n, c, o, ghost)]) = 2^NDIM * U[n][c]
  <2>1. n \in Leaves /\ n.lev < MaxLevel /\ n \in Nodes(refined)
    <3>1. n.lev \in 0..(MaxLevel - 1) /\ MaxLevel \in Nat
      BY <1>5, GridAssumption
    <3> QED
      BY <1>5, <1>6, <3>1 DEF Leaves
  <2>2. \A o \in Octant : Slopes(n, c, o, ghost) % 2^(2 * NDIM) = 0
    BY <1>1, <2>1 DEF Exact
  <2> QED
    BY <1>3, <2>1, <2>2, ProlongSum
<1>7. ASSUME NEW n \in s, n \notin t, NEW ci \in Octant
      PROVE  /\ \A c \in Cell : U'[Child(n, ci)][c] = Prolong(n, Above(ci, c), Side(ci, c), ghost)
             /\ out'[Child(n, ci)] = IF \A d \in Dim : ci[d] = 0 THEN out[n] ELSE 0
             /\ U'[Child(n, ci)] \in [Cell -> Int] /\ out'[Child(n, ci)] \in Int
  <2>1. PICK m : m = Child(n, ci)
    OBVIOUS
  <2>2. m \in Nodes(s) /\ ~Old(m) /\ Parent(m) = n /\ ChildIndex(m) = ci
    BY <1>5, <1>7, <2>1
  <2> HIDE DEF Old
  <2>3. U'[m] = [c \in Cell |-> Prolong(n, Above(ci, c), Side(ci, c), ghost)]
    <3>1. U'[m] = [c \in Cell |->
               Prolong(Parent(m), Above(ChildIndex(m), c), Side(ChildIndex(m), c), ghost)]
      BY <1>2, <2>2
    <3> QED
      BY <2>2, <3>1
  <2>4. out'[m] = IF \A d \in Dim : ci[d] = 0 THEN out[n] ELSE 0
    <3>1. out'[m] = Outflows(m)
      BY <1>1, <2>2
    <3> QED
      BY <2>2, <3>1 DEF Outflows
  <2>5. \A c \in Cell : Prolong(n, Above(ci, c), Side(ci, c), ghost) \in Int
    <3> SUFFICES ASSUME NEW c \in Cell PROVE Prolong(n, Above(ci, c), Side(ci, c), ghost) \in Int
      OBVIOUS
    <3>1. PICK a, k : a = Above(ci, c) /\ k = Side(ci, c) /\ a \in Cell /\ k \in Octant
      BY AboveIs
    <3>2. [o \in Octant |-> Prolong(n, a, o, ghost)] \in [Octant -> Int]
      BY <1>6, <1>7, <3>1
    <3>3. Prolong(n, a, k, ghost) \in Int
      BY <3>1, <3>2
    <3> QED
      BY <3>1, <3>3
  <2>6. out[n] \in Int
    BY <1>4, <1>5, <1>7
  <2> QED
    BY <2>1, <2>3, <2>4, <2>5, <2>6
<1>8. ASSUME NEW n \in Nodes(s), Old(n) PROVE U'[n] = U[n] /\ out'[n] = out[n]
  <2> HIDE DEF Old
  <2> QED
    BY <1>1, <1>2, <1>8
<1>9. U' \in [Nodes(s) -> [Cell -> Int]] /\ out' \in [Nodes(s) -> Int]
  <2>1. \A n \in Nodes(s) : U'[n] \in [Cell -> Int] /\ out'[n] \in Int
    <3> SUFFICES ASSUME NEW n \in Nodes(s) PROVE U'[n] \in [Cell -> Int] /\ out'[n] \in Int
      OBVIOUS
    <3>1. CASE Old(n)
      BY <1>4, <1>8, <3>1
    <3>2. CASE ~Old(n)
      <4>1. PICK m \in s \ t, ci \in Octant : n = Child(m, ci)
        BY <1>5, <3>2
      <4> QED
        BY <1>7, <4>1
    <3> QED
      BY <3>1, <3>2
  <2>2. U' = [n \in Nodes(s) |-> U'[n]] /\ out' = [n \in Nodes(s) |-> out'[n]]
    <3> HIDE DEF Old
    <3>1. U' = [n \in Nodes(s) |-> U'[n]]
      BY <1>2
    <3>2. out' = [n \in Nodes(s) |-> out'[n]]
      BY <1>1
    <3> QED
      BY <3>1, <3>2
  <2> QED
    BY <2>1, <2>2
<1>10. ASSUME NEW n \in s, n \in t PROVE Additive(U', out', n)
  <2>1. U'[n] = U[n] /\ out'[n] = out[n]
    BY <1>5, <1>8
  <2>2. \A ci \in Octant : U'[Child(n, ci)] = U[Child(n, ci)] /\ out'[Child(n, ci)] = out[Child(n, ci)]
    BY <1>5, <1>8, <1>10
  <2>3. Amount(U', out', n) = Amount(U, out, n)
    BY <2>1 DEF Amount
  <2>4. [ci \in Octant |-> Amount(U', out', Child(n, ci))] = [ci \in Octant |-> Amount(U, out, Child(n, ci))]
    <3>1. \A ci \in Octant : Amount(U', out', Child(n, ci)) = Amount(U, out, Child(n, ci))
      BY <2>2 DEF Amount
    <3> QED
      BY <3>1
  <2>5. Additive(U, out, n)
    BY <1>3, <1>10
  <2> QED
    BY <2>3, <2>4, <2>5 DEF Additive
<1>11. ASSUME NEW n \in s, n \notin t PROVE Additive(U', out', n)
  <2>1. U'[n] = U[n] /\ out'[n] = out[n] /\ out[n] \in Int
    BY <1>4, <1>5, <1>8
  <2>2. Halved(U', n)
    <3> SUFFICES ASSUME NEW c \in Cell
                 PROVE  2^NDIM * U'[n][c] =
                          SumFunction([k \in Octant |-> U'[Child(n, OctantOf(c))][Plus(First(c), k)]])
      BY DEF Halved
    <3>1. ASSUME NEW k \in Octant
          PROVE  U'[Child(n, OctantOf(c))][Plus(First(c), k)] = Prolong(n, c, k, ghost)
      <4>1. PICK ci, f : ci = OctantOf(c) /\ f = Plus(First(c), k)
        OBVIOUS
      <4>2. ci \in Octant /\ f \in Cell /\ Above(ci, f) = c /\ Side(ci, f) = k
        BY <4>1, FinerLies
      <4>3. U'[Child(n, ci)][f] = Prolong(n, Above(ci, f), Side(ci, f), ghost)
        BY <1>7, <1>11, <4>2
      <4> QED
        BY <4>1, <4>2, <4>3
    <3>2. [k \in Octant |-> U'[Child(n, OctantOf(c))][Plus(First(c), k)]]
            = [k \in Octant |-> Prolong(n, c, k, ghost)]
      BY <3>1
    <3>3. SumFunction([k \in Octant |-> Prolong(n, c, k, ghost)]) = 2^NDIM * U[n][c]
      BY <1>6, <1>11
    <3> QED
      BY <2>1, <3>2, <3>3
  <2>3. SharesOutflow(out', n)
    <3> DEFINE g == [ci \in Octant |-> out'[Child(n, ci)]]
    <3>1. g \in [Octant -> Int] /\ \A ci \in Octant : g[ci] = IF \A d \in Dim : ci[d] = 0 THEN out[n] ELSE 0
      BY <1>7, <1>11
    <3> HIDE DEF g
    <3>2. SumFunction(g) = out[n]
      BY <2>1, <3>1, ToFirstChild
    <3> QED
      BY <2>1, <3>2 DEF g, SharesOutflow
  <2> QED
    BY <1>1, <1>9, <2>2, <2>3, SharedOut
<1> QED
  BY <1>5, <1>8, <1>9, <1>10, <1>11

(* Regrid preserves the invariant.                                         *)
LEMMA RegridStep == IInv /\ Exact /\ Regrid => IInv'
<1> SUFFICES ASSUME IInv, Exact, Regrid PROVE IInv'
  OBVIOUS
<1>1. /\ U' \in [Nodes(refined') -> [Cell -> Int]] /\ out' \in [Nodes(refined') -> Int]
      /\ \A n \in refined' : Additive(U', out', n)
      /\ U'[Root] = U[Root] /\ out'[Root] = out[Root]
  BY RegridKeeps
<1>2. /\ phase = "regrid" /\ regrids < MaxRegrids /\ refined' \in Trees /\ refined' \subseteq Nodes(refined)
      /\ U0' = [n \in Nodes(refined') |-> IF n \in Nodes(refined) THEN U0[n] ELSE [c \in Cell |-> 0]]
      /\ out0' = [n \in Nodes(refined') |-> IF n \in Nodes(refined) THEN out0[n] ELSE 0]
      /\ phase' = "exchange" /\ rk' = 0 /\ regrids' = regrids + 1 /\ level' = level /\ total' = total
  BY DEF Regrid
<1>3. TypeOK /\ level = MaxLevel /\ MaxLevel \in Nat
  BY <1>2, GridAssumption DEF IInv, Order
<1>4. U0' \in [Nodes(refined') -> [Cell -> Int]] /\ out0' \in [Nodes(refined') -> Int]
  <2>1. U0 \in [Nodes(refined) -> [Cell -> Int]] /\ out0 \in [Nodes(refined) -> Int]
    BY <1>3 DEF TypeOK
  <2>2. [c \in Cell |-> 0] \in [Cell -> Int]
    OBVIOUS
  <2>3. U0' \in [Nodes(refined') -> [Cell -> Int]]
    BY <1>2, <2>1, <2>2
  <2>4. out0' \in [Nodes(refined') -> Int]
    BY <1>2, <2>1
  <2> QED
    BY <2>3, <2>4
<1>5. regrids' \in 0..MaxRegrids /\ rk' \in 0..NRK
  BY <1>2, <1>3, GridAssumption DEF TypeOK, NRK
<1>6. TypeOK'
  BY <1>1, <1>2, <1>3, <1>4, <1>5 DEF TypeOK
<1>7. Order' /\ FluxesMeet' /\ Keeps'
  BY <1>2 DEF Order, FluxesMeet, Keeps
<1>8. Restores'
  <2>1. \A n \in refined' : ~(n.lev > MaxLevel)
    BY <1>2, <1>3, TreesAssumption
  <2> QED
    BY <1>2, <1>3, <2>1 DEF Restores
<1>9. Conserved'
  <2>1. Mass(refined', U', out') = Amount(U', out', Root)
    BY <1>1, <1>2, TreeMass
  <2>2. Mass(refined, U, out) = Amount(U, out, Root)
    <3>1. \A n \in refined : Additive(U, out, n)
      BY <1>2 DEF IInv, Restores
    <3> QED
      BY <1>3, <3>1, TreeMass DEF TypeOK
  <2>3. Amount(U', out', Root) = Amount(U, out, Root)
    BY <1>1 DEF Amount
  <2>4. Diagnostics' = Mass(refined', U', out')
    BY DEF Diagnostics, Leaves, Mass, Lv
  <2>5. Diagnostics = Mass(refined, U, out) /\ Diagnostics = total
    BY DiagnosticsAre DEF IInv, Conserved
  <2> QED
    BY <1>2, <2>1, <2>2, <2>3, <2>4, <2>5 DEF Conserved
<1> QED
  BY <1>6, <1>7, <1>8, <1>9 DEF IInv

(* Every step whose divisions leave no rest preserves the invariant.       *)
LEMMA StepHolds == IInv /\ Exact /\ [Next]_vars => IInv'
<1> SUFFICES ASSUME IInv, Exact, [Next]_vars PROVE IInv'
  OBVIOUS
<1>1. CASE ExchangeInterlevel
  BY <1>1, ExchangeStep
<1>2. CASE ComputeFluxes
  BY <1>2, FluxesStep
<1>3. CASE ExchangeFluxCorrections
  BY <1>3, CorrectionStep
<1>4. CASE NextU
  BY <1>4, StageStep
<1>5. CASE Regrid
  BY <1>5, RegridStep
<1>6. CASE UNCHANGED vars
  <2>1. /\ refined' = refined /\ U' = U /\ U0' = U0 /\ out' = out /\ out0' = out0 /\ F' = F
        /\ phase' = phase /\ level' = level /\ rk' = rk /\ regrids' = regrids /\ total' = total
    BY <1>6 DEF vars
  <2>2. TypeOK' /\ Order'
    BY <2>1 DEF IInv, TypeOK, Order
  <2>3. FluxesMeet'
    <3>1. CASE phase = "correct"
      <4>1. PICK flow \in Flows[rk] : F = Shared(flow)
        BY <3>1 DEF IInv, FluxesMeet
      <4>2. Shared(flow)' = Shared(flow)
        BY <2>1 DEF Shared, Leaves
      <4> QED
        BY <2>1, <3>1, <4>1, <4>2 DEF FluxesMeet
    <3>2. CASE phase = "next_u"
      BY <2>1, <3>2 DEF IInv, FluxesMeet
    <3>3. CASE phase \notin {"correct", "next_u"}
      BY <2>1, <3>3 DEF FluxesMeet
    <3> QED
      BY <3>1, <3>2, <3>3
  <2>4. Restores'
    BY <2>1 DEF IInv, Restores
  <2>5. Keeps'
    BY <2>1 DEF IInv, Keeps
  <2>6. Conserved'
    BY <2>1 DEF IInv, Conserved, Diagnostics, Leaves
  <2> QED
    BY <2>2, <2>3, <2>4, <2>5, <2>6 DEF IInv
<1> QED
  BY <1>1, <1>2, <1>3, <1>4, <1>5, <1>6 DEF Next

(* The inductive invariant: with Conserved, which fluxes agree at which    *)
(* moment of a stage, which nodes have restricted, and that what the stages*)
(* blend with has the same mass.                                           *)
THEOREM MassInvariant == Spec /\ []Exact => []IInv
BY InitHolds, StepHolds, PTL DEF Spec

(* The mass in the domain and what has left it add up to what there was,   *)
(* at every moment of every behavior whose divisions leave no rest: no     *)
(* step of the exchanges, of the fluxes and their correction, of the       *)
(* stages or of regrid makes or loses any.                                 *)
THEOREM MassIsConserved == Spec /\ []Exact => []Conserved
<1>1. IInv => Conserved
  BY DEF IInv
<1> QED
  BY <1>1, MassInvariant, PTL
=============================================================================
