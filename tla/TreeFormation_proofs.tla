------------------------ MODULE TreeFormation_proofs ------------------------
(***************************************************************************)
(* Proofs about modules Refinement and TreeFormation, for every number of  *)
(* dimensions, every depth, every test on the cells, every number of       *)
(* localities and every order in which the calls of force_nodes_to_exist,  *)
(* form_tree and set_child_aunt are handled.                               *)
(*                                                                         *)
(* The first part is about Refinement: that the aborts of                  *)
(* force_nodes_to_exist are out of reach, and the tree is graded.  Without *)
(* that, the neighbor of a node's parent, which has to name the node's     *)
(* neighbors to it, need not exist, and a leaf could have no aunt.         *)
(*                                                                         *)
(* The last part is about the numbering.  With the subtree of a node goes  *)
(* an interval of numbers; those of children are apart and within their    *)
(* parent's, so the numbers differ, and there are as many as nodes.        *)
(***************************************************************************)
EXTENDS TreeFormation, FiniteSetTheorems, WellFoundedInduction, TLAPS

-----------------------------------------------------------------------------
(* The marks of a regrid (module Refinement).                              *)

(* What a call asks for: locations of the domain, all of them finer than   *)
(* the node that is asked.                                                 *)
Sound(c) == /\ c.to \in Loc
            /\ \A l \in c.locs : l \in Loc /\ c.to.lev < l.lev

CallInv == \A c \in calls : Sound(c)

(* A location of the domain has a level.                                   *)
LEMMA LocLevel == \A n \in Loc : n.lev \in Nat
  BY LevelAssumption DEF Loc, LocAt

(* What is passed to one receiver goes to it alone.                        *)
LEMMA CallFacts ==
  ASSUME NEW n, NEW locs, NEW c \in Call(n, locs)
  PROVE  c.to = n /\ c.locs = locs
BY DEF Call

(* A location of the domain is below the root, if it is not the root.      *)
LEMMA RootIsAbove ==
  ASSUME NEW l \in Loc, l.lev > 0 PROVE IsChildOf(l, Root)
<1>1. /\ l.lev \in Nat /\ l.lev - 0 = l.lev
      /\ \A d \in Dim : l.x[d] \in 0..(2^l.lev - 1)
  BY LevelAssumption DEF Loc, LocAt
<1>2. ASSUME NEW p \in Int, NEW y \in 0..(p - 1) PROVE y \div p = 0
  BY <1>2
<1>3. 2^l.lev \in Int
  BY <1>1
<1>4. \A d \in Dim : l.x[d] \div 2^(l.lev - 0) = 0
  BY <1>1, <1>2, <1>3
<1> QED
  BY <1>4, <1>1 DEF IsChildOf, Root

-----------------------------------------------------------------------------
(* The coordinates of a level double from one to the next: counted by the  *)
(* subsets of an interval, as the provers do not compute powers.           *)
LEMMA Doubling == 2^0 = 1 /\ \A l \in Nat : 2^(l + 1) = 2^l + 2^l
<1>1. 2^0 = 1
  <2>1. SUBSET {} = {{}}
    OBVIOUS
  <2>2. Cardinality(SUBSET {}) = 2^Cardinality({})
    BY FS_EmptySet, FS_SUBSET
  <2> QED
    BY <2>1, <2>2, FS_EmptySet, FS_Singleton
<1>2. ASSUME NEW l \in Nat PROVE 2^(l + 1) = 2^l + 2^l
  <2> DEFINE S == 1..l
             T == 1..(l + 1)
             Old == SUBSET S
             New == {P \cup {l + 1} : P \in Old}
             f == [P \in Old |-> P \cup {l + 1}]
  <2>1. /\ IsFiniteSet(S) /\ Cardinality(S) = l
        /\ IsFiniteSet(T) /\ Cardinality(T) = l + 1
    BY FS_Interval
  <2>2. /\ IsFiniteSet(Old) /\ Cardinality(Old) = 2^l
        /\ Cardinality(SUBSET T) = 2^(l + 1)
    BY <2>1, FS_SUBSET
  <2>3. SUBSET T = Old \cup New
    <3>1. T = S \cup {l + 1}
      OBVIOUS
    <3>2. ASSUME NEW Q \in SUBSET T, Q \notin Old PROVE Q \in New
      <4>1. l + 1 \in Q /\ Q \ {l + 1} \in Old /\ Q = (Q \ {l + 1}) \cup {l + 1}
        BY <3>1, <3>2
      <4> QED
        BY <4>1
    <3>3. Old \subseteq SUBSET T /\ New \subseteq SUBSET T
      BY <3>1
    <3> QED
      <4> HIDE DEF S, T, New
      <4> QED
        BY <3>2, <3>3
  <2>4. \A P \in Old : l + 1 \notin P
    OBVIOUS
  <2>5. Old \cap New = {}
    BY <2>4
  <2>6. IsFiniteSet(New) /\ Cardinality(New) = Cardinality(Old)
    <3>1. f \in Bijection(Old, New)
      <4>1. f \in [Old -> New] /\ \A Q \in New : \E P \in Old : f[P] = Q
        OBVIOUS
      <4>2. ASSUME NEW P \in Old, NEW Q \in Old, f[P] = f[Q] PROVE P = Q
        <5>1. P \cup {l + 1} = Q \cup {l + 1}
          BY <4>2
        <5> QED
          BY <2>4, <5>1
      <4> QED
        BY <4>1, <4>2 DEF Bijection, Injection, Surjection, IsInjective
    <3> QED
      BY <2>2, <3>1, FS_Bijection DEF ExistsBijection
  <2> HIDE DEF S, T, Old, New
  <2>7. /\ Cardinality(Old \cup New)
             = Cardinality(Old) + Cardinality(New) - Cardinality({})
        /\ Cardinality(Old) \in Nat
    BY <2>2, <2>5, <2>6, FS_Union, FS_CardinalityType
  <2>8. Cardinality(SUBSET T) = Cardinality(Old) + Cardinality(Old)
    <3>1. Cardinality(SUBSET T) = Cardinality(Old \cup New)
      BY <2>3, Zenon
    <3>2. Cardinality({}) = 0
      BY FS_EmptySet
    <3>3. Cardinality(SUBSET T) = Cardinality(Old) + Cardinality(New) - 0
      BY <2>7, <3>1, <3>2, Zenon
    <3> QED
      BY <2>6, <2>7, <3>3
  <2> QED
    BY <2>2, <2>8
<1> QED
  BY <1>1, <1>2

(* The parent of every location but the root is a location.                *)
LEMMA ParentIsLoc ==
  ASSUME NEW n \in Loc, n # Root
  PROVE  Parent(n) \in Loc /\ Parent(n).lev = n.lev - 1
<1>1. /\ n.lev \in 0..MaxLevel /\ n.lev \in Nat
      /\ n = [lev |-> n.lev, x |-> n.x] /\ n.x \in [Dim -> 0..(2^n.lev - 1)]
  BY LevelAssumption DEF Loc, LocAt
<1>2. n.lev # 0
  <2> SUFFICES ASSUME n.lev = 0 PROVE FALSE
    OBVIOUS
  <2>1. n.x \in [Dim -> 0..0]
    BY <1>1, Doubling
  <2>2. n.x = [d \in Dim |-> 0]
    BY <2>1
  <2> QED
    BY <1>1, <2>2 DEF Root
<1>3. n.lev - 1 \in 0..MaxLevel /\ n.lev - 1 \in Nat
  BY <1>1, <1>2, LevelAssumption
<1>4. 2^n.lev = 2^(n.lev - 1) + 2^(n.lev - 1) /\ 2^(n.lev - 1) \in Int
  <2>1. n.lev = (n.lev - 1) + 1
    BY <1>1
  <2> QED
    BY <1>3, <2>1, Doubling
<1>5. ASSUME NEW d \in Dim PROVE n.x[d] \div 2 \in 0..(2^(n.lev - 1) - 1)
  <2>1. ASSUME NEW h \in Int, NEW y \in 0..(h + h - 1)
        PROVE  y \div 2 \in 0..(h - 1)
    BY <2>1
  <2> QED
    BY <1>1, <1>4, <2>1
<1>6. Parent(n) \in LocAt(n.lev - 1)
  BY <1>3, <1>5 DEF Parent, LocAt
<1> QED
  BY <1>3, <1>6 DEF Loc, Parent

(* Neighbors and children of a location are locations.                     *)
LEMMA AroundIsLoc ==
  ASSUME NEW n \in Loc
  PROVE  /\ \A m \in GetNeighbors[n] : m \in Loc /\ m.lev = n.lev
         /\ \A m \in ChildrenOf[n] : m \in Loc
<1>1. n.lev \in 0..MaxLevel /\ n.lev \in Nat
  BY LevelAssumption DEF Loc, LocAt
<1>2. \A m \in GetNeighbors[n] : m \in LocAt(n.lev) /\ m.lev = n.lev
  BY DEF GetNeighbors, LocAt
<1>3. ASSUME NEW m \in ChildrenOf[n] PROVE m \in Loc
  <2>1. n.lev < MaxLevel /\ m \in LocAt(n.lev + 1)
    BY DEF ChildrenOf
  <2>2. n.lev + 1 \in 0..MaxLevel
    BY <1>1, <2>1, LevelAssumption
  <2> QED
    BY <2>1, <2>2 DEF Loc
<1> QED
  BY <1>1, <1>2, <1>3 DEF Loc

(* A node asks its parent for locations of its own level.                  *)
LEMMA DemandIsSound ==
  ASSUME NEW n \in Loc, NEW c \in Demand(n) PROVE Sound(c)
<1>1. n # Root /\ c \in Call(Parent(n), GetNeighbors[n])
  BY DEF Demand
<1>2. c.to = Parent(n) /\ c.locs = GetNeighbors[n]
  BY <1>1, CallFacts
<1>3. Parent(n) \in Loc /\ Parent(n).lev < n.lev
  BY <1>1, ParentIsLoc, LocLevel
<1> QED
  BY <1>2, <1>3, AroundIsLoc DEF Sound

(* A call is passed on only to nodes above its locations: to a child or a  *)
(* neighbor that they are below, or up.                                    *)
LEMMA ForceIsSound ==
  ASSUME CallInv, NEW c \in calls, ForceNodesToExist(c) PROVE CallInv'
<1> DEFINE n == c.to
           inside == {l \in c.locs : IsChildOf(l, n)}
           below(m) == {l \in c.locs : IsChildOf(l, m)}
           kids == {m \in ChildrenOf[n] : Exists(m)}
           rest == {l \in c.locs \ inside :
                      \A m \in Around(n) : ~IsChildOf(l, m)}
<1>1. n \in Loc /\ \A l \in c.locs : l \in Loc /\ n.lev < l.lev
  BY DEF CallInv, Sound
<1>2. \A m \in kids \cup Around(n) : m \in Loc
  BY <1>1, AroundIsLoc DEF Around
<1>3. /\ rest # {} => n # Root
      /\ calls' = (calls \ {c})
           \cup (IF inside # {} THEN Demand(n) ELSE {})
           \cup (UNION {Call(m, below(m)) : m \in kids \cup Around(n)})
           \cup (IF rest # {} THEN Call(Parent(n), rest) ELSE {})
  BY DEF ForceNodesToExist
<1>4. ASSUME NEW m \in kids \cup Around(n), NEW k \in Call(m, below(m))
      PROVE  Sound(k)
  <2>1. k.to = m /\ k.locs = below(m)
    BY <1>4, CallFacts
  <2>2. \A l \in below(m) : l \in Loc /\ m.lev < l.lev
    BY <1>1 DEF IsChildOf
  <2> QED
    BY <1>2, <2>1, <2>2 DEF Sound
<1>5. ASSUME rest # {}, NEW k \in Call(Parent(n), rest) PROVE Sound(k)
  <2>1. k.to = Parent(n) /\ k.locs = rest
    BY <1>5, CallFacts
  <2>2. Parent(n) \in Loc /\ Parent(n).lev = n.lev - 1
    BY <1>1, <1>3, <1>5, ParentIsLoc
  <2>3. \A l \in rest : l \in Loc /\ Parent(n).lev < l.lev
    BY <1>1, <2>2, LocLevel
  <2> QED
    BY <2>1, <2>2, <2>3 DEF Sound
<1>6. \A k \in Demand(n) : Sound(k)
  BY <1>1, DemandIsSound
<1>7. ASSUME NEW k \in calls' PROVE Sound(k)
  <2>1. \/ k \in calls
        \/ k \in Demand(n)
        \/ \E m \in kids \cup Around(n) : k \in Call(m, below(m))
        \/ rest # {} /\ k \in Call(Parent(n), rest)
    <3> DEFINE passed == {Call(m, below(m)) : m \in kids \cup Around(n)}
               asked == IF inside # {} THEN Demand(n) ELSE {}
               up == IF rest # {} THEN Call(Parent(n), rest) ELSE {}
    <3>1. calls' = (calls \ {c}) \cup asked \cup (UNION passed) \cup up
      BY <1>3
    <3>2. k \in asked => k \in Demand(n)
      OBVIOUS
    <3>3. k \in up => rest # {} /\ k \in Call(Parent(n), rest)
      OBVIOUS
    <3>4. k \in UNION passed =>
            \E m \in kids \cup Around(n) : k \in Call(m, below(m))
      <4> HIDE DEF below, kids
      <4> QED
        BY Zenon
    <3> HIDE DEF n, inside, below, kids, rest, passed, asked, up
    <3>5. k \in calls \/ k \in asked \/ k \in UNION passed \/ k \in up
      BY <1>7, <3>1
    <3> QED
      BY <3>2, <3>3, <3>4, <3>5, Zenon
  <2> HIDE DEF n, inside, below, kids, rest
  <2> QED
    BY <1>4, <1>5, <1>6, <2>1 DEF CallInv
<1> QED
  BY <1>7 DEF CallInv, Sound

(* Every action keeps the calls sound.                                     *)
LEMMA CallStep == CallInv /\ [Next]_vars => CallInv'
<1> SUFFICES ASSUME CallInv, [Next]_vars PROVE CallInv'
  OBVIOUS
<1>1. ASSUME NEW n \in Candidates, Check(n) PROVE CallInv'
  <2>1. n \in Loc
    BY LevelAssumption
  <2>2. \A c \in calls' : c \in calls \/ c \in Demand(n)
    BY <1>1 DEF Check
  <2> QED
    BY <2>1, <2>2, DemandIsSound DEF CallInv
<1>2. ASSUME NEW c \in calls, ForceNodesToExist(c) PROVE CallInv'
  BY <1>2, ForceIsSound
<1>3. CASE Gather
  BY <1>3 DEF Gather, CallInv
<1>4. CASE UNCHANGED vars
  BY <1>4 DEF vars, CallInv
<1> QED
  BY <1>1, <1>2, <1>3, <1>4 DEF Next

(* In any number of dimensions, at any depth and whatever the cells wish:  *)
(* no node is asked to create itself, and the root is never left with a    *)
(* location it has no place for.                                           *)
THEOREM AbortsOutOfReach == Spec => []NeverAborts
<1>1. Init => CallInv
  BY DEF Init, CallInv
<1>2. CallInv => NeverAborts
  <2> SUFFICES ASSUME CallInv, NEW c \in calls
               PROVE  /\ c.to \notin c.locs
                      /\ c.to = Root => \A l \in c.locs : IsChildOf(l, Root)
    BY DEF NeverAborts
  <2>1. c.to \in Loc /\ \A l \in c.locs : l \in Loc /\ c.to.lev < l.lev
    BY DEF CallInv, Sound
  <2>2. c.to \notin c.locs
    BY <2>1, LocLevel
  <2>3. ASSUME c.to = Root, NEW l \in c.locs PROVE IsChildOf(l, Root)
    <3>1. l \in Loc /\ l.lev > 0
      BY <2>1, <2>3, LocLevel DEF Root
    <3> QED
      BY <3>1, RootIsAbove
  <2> QED
    BY <2>2, <2>3
<1> QED
  BY <1>1, <1>2, CallStep, PTL DEF Spec

-----------------------------------------------------------------------------
(* Every set of natural numbers has a least element: what inductions over  *)
(* the levels rest on.                                                     *)
LEMMA LeastElement ==
  ASSUME NEW T \in SUBSET Nat, T # {}
  PROVE  \E k \in T : \A j \in T : k <= j
<1> DEFINE R == {ss \in Nat \X Nat : ss[1] < ss[2]}
<1>1. R = OpToRel(<, Nat)
  BY DEF OpToRel
<1>2. IsWellFoundedOn(R, Nat)
  BY <1>1, NatLessThanWellFounded, Zenon
<1>3. PICK k \in T : \A j \in T : ~(<<j, k>> \in R)
  <2> HIDE DEF R
  <2> QED
    BY <1>2, WFMin
<1>4. ASSUME NEW j \in T PROVE k <= j
  <2>1. j \in Nat /\ k \in Nat /\ <<j, k>> \notin R
    BY <1>3
  <2> QED
    BY <2>1
<1> QED
  BY <1>4

LEMMA Powers == \A k \in Nat : 2^k \in Nat \ {0}
<1> DEFINE T == {k \in Nat : ~(2^k \in Nat \ {0})}
<1>1. ASSUME T # {} PROVE FALSE
  <2>1. PICK k \in T : \A j \in T : k <= j
    BY <1>1, LeastElement
  <2>2. k # 0
    <3>1. 2^0 \in Nat \ {0}
      BY Doubling
    <3>2. ~(2^k \in Nat \ {0})
      BY <2>1
    <3> QED
      BY ONLY <3>1, <3>2
  <2>3. k - 1 \in Nat /\ k - 1 \notin T
    BY <2>1, <2>2
  <2>4. 2^k = 2^(k - 1) + 2^(k - 1)
    <3>1. k = (k - 1) + 1
      BY <2>3
    <3> QED
      BY <2>3, <3>1, Doubling
  <2> QED
    BY <2>1, <2>3, <2>4
<1> QED
  BY <1>1

(* Halving first and dividing then, as going up the tree level by level.   *)
LEMMA HalfFirst ==
  ASSUME NEW x \in Nat, NEW p \in Nat \ {0}
  PROVE  (x \div 2) \div p = x \div (p + p)
<1>1. PICK h \in Nat : h = x \div 2 /\ 2 * h <= x /\ x <= 2 * h + 1
  OBVIOUS
<1>2. PICK q \in Nat : q = h \div p
  <2>1. h \div p \in Nat
    BY <1>1
  <2> QED
    BY <2>1
<1>3. PICK qp \in Nat : qp = q * p
  OBVIOUS
<1>4. qp <= h /\ h < qp + p
  BY <1>1, <1>2, <1>3
<1>5. PICK r \in Nat : r = p + p
  OBVIOUS
<1>6. q * r = qp + qp
  BY <1>3, <1>5
<1>7. qp + qp <= x /\ x < qp + qp + r /\ r # 0
  BY <1>1, <1>4, <1>5
<1>8. ASSUME NEW t \in Nat, t = q * r, t <= x, x < t + r PROVE x \div r = q
  BY ONLY <1>7, <1>8
<1>9. x \div r = q
  <2>1. qp + qp \in Nat
    OBVIOUS
  <2> QED
    BY <1>6, <1>7, <1>8, <2>1
<1> QED
  BY <1>1, <1>2, <1>5, <1>9

(* What a location is made of.                                             *)
LEMMA LocFacts ==
  /\ \A n \in Loc : /\ n.lev \in 0..MaxLevel /\ n.lev \in Nat
                    /\ n = [lev |-> n.lev, x |-> n.x]
                    /\ n.x \in [Dim -> 0..(2^n.lev - 1)]
                    /\ \A d \in Dim : n.x[d] \in Nat
  /\ \A l \in 0..MaxLevel : \A x \in [Dim -> 0..(2^l - 1)] : [lev |-> l, x |-> x] \in Loc
<1>1. ASSUME NEW n \in Loc
      PROVE  /\ n.lev \in 0..MaxLevel /\ n.lev \in Nat
             /\ n = [lev |-> n.lev, x |-> n.x]
             /\ n.x \in [Dim -> 0..(2^n.lev - 1)]
  BY LevelAssumption DEF Loc, LocAt
<1>2. ASSUME NEW n \in Loc, NEW d \in Dim PROVE n.x[d] \in Nat
  <2>1. n.x[d] \in 0..(2^n.lev - 1) /\ 2^n.lev \in Nat \ {0}
    BY <1>1, Powers
  <2> QED
    BY <2>1
<1>3. ASSUME NEW l \in 0..MaxLevel, NEW x \in [Dim -> 0..(2^l - 1)]
      PROVE  [lev |-> l, x |-> x] \in Loc
  BY DEF Loc, LocAt
<1> QED
  BY <1>1, <1>2, <1>3

(* The parent is the one location that a node is below by one level.       *)
LEMMA ParentIsAbove ==
  ASSUME NEW n \in Loc, NEW m \in Loc, n.lev = m.lev + 1
  PROVE  IsChildOf(n, m) <=> m = Parent(n)
<1>1. /\ n.lev \in Nat /\ m.lev \in Nat /\ m = [lev |-> m.lev, x |-> m.x]
      /\ m.x = [d \in Dim |-> m.x[d]]
  BY LocFacts
<1>2. 2^(n.lev - m.lev) = 2
  <2>1. n.lev - m.lev = 1
    BY <1>1
  <2>2. 2^(0 + 1) = 1 + 1
    BY Doubling
  <2>3. 2^1 = 2
    BY <2>2
  <2> QED
    BY <2>1, <2>3
<1>3. n.lev - 1 = m.lev /\ m.lev < n.lev
  BY <1>1
<1>4. IsChildOf(n, m) <=> \A d \in Dim : n.x[d] \div 2 = m.x[d]
  BY <1>2, <1>3 DEF IsChildOf
<1>5. (\A d \in Dim : n.x[d] \div 2 = m.x[d]) => m = Parent(n)
  <2> SUFFICES ASSUME \A d \in Dim : n.x[d] \div 2 = m.x[d] PROVE m = Parent(n)
    OBVIOUS
  <2>1. [d \in Dim |-> m.x[d]] = [d \in Dim |-> n.x[d] \div 2]
    OBVIOUS
  <2> QED
    BY <1>1, <1>3, <2>1 DEF Parent
<1>6. m = Parent(n) => \A d \in Dim : n.x[d] \div 2 = m.x[d]
  BY DEF Parent
<1> QED
  BY <1>4, <1>5, <1>6

(* A set of nodes that has the parent of each has all that is above them.  *)
LEMMA AllAbove ==
  ASSUME NEW R \in SUBSET Loc, \A n \in R : n = Root \/ Parent(n) \in R,
         NEW n \in R, NEW m \in Loc, IsChildOf(n, m)
  PROVE  m \in R
<1> DEFINE T == {l \in Nat : \E k \in R : k.lev = l /\ IsChildOf(k, m) /\ m \notin R}
<1>1. ASSUME T # {} PROVE FALSE
  <2>1. PICK l \in T : \A j \in T : l <= j
    BY <1>1, LeastElement
  <2>2. PICK k \in R : k.lev = l /\ IsChildOf(k, m) /\ m \notin R
    BY <2>1
  <2>3. /\ k.lev \in Nat /\ m.lev \in Nat /\ m.lev < k.lev /\ k \in Loc
        /\ \A d \in Dim : k.x[d] \in Nat
        /\ \A d \in Dim : k.x[d] \div 2^(k.lev - m.lev) = m.x[d]
    BY <2>2, LocFacts DEF IsChildOf
  <2>4. k # Root
    BY <2>3 DEF Root
  <2>5. /\ Parent(k) \in R /\ Parent(k).lev = k.lev - 1
        /\ \A d \in Dim : Parent(k).x[d] = k.x[d] \div 2
    BY <2>4, ParentIsLoc DEF Parent
  <2>6. CASE k.lev = m.lev + 1
    BY <2>2, <2>3, <2>5, <2>6, ParentIsAbove
  <2>7. CASE k.lev # m.lev + 1
    <3>1. PICK h \in Nat : h = k.lev - 1 - m.lev
      BY <2>3
    <3>2. 2^(k.lev - m.lev) = 2^h + 2^h /\ 2^h \in Nat \ {0}
      <4>1. k.lev - m.lev = h + 1
        BY <2>3, <3>1
      <4> QED
        BY <4>1, Doubling, Powers
    <3>3. \A d \in Dim : (k.x[d] \div 2) \div 2^h = m.x[d]
      BY <2>3, <3>2, HalfFirst
    <3>4. Parent(k).lev - m.lev = h /\ m.lev < Parent(k).lev
      BY <2>3, <2>5, <2>7, <3>1
    <3>5. IsChildOf(Parent(k), m)
      BY <2>5, <3>3, <3>4 DEF IsChildOf
    <3>6. k.lev - 1 \in T
      BY <2>2, <2>3, <2>4, <2>5, <3>5
    <3> QED
      BY <2>1, <2>2, <2>3, <3>6
  <2> QED
    BY <2>6, <2>7
<1>2. n.lev \in Nat
  BY LocFacts
<1> QED
  BY <1>1, <1>2

(* The parents of neighbors are neighbors, or the same.                    *)
LEMMA NeighborParents ==
  ASSUME NEW n \in Loc, NEW l \in GetNeighbors[n]
  PROVE  /\ n # Root /\ l \in Loc /\ l.lev = n.lev /\ l # Root
         /\ Parent(n) \in Loc /\ Parent(l) \in Loc
         /\ Parent(l) = Parent(n) \/ Parent(l) \in GetNeighbors[Parent(n)]
<1>1. /\ l \in Loc /\ l \in LocAt(n.lev) /\ l.lev = n.lev /\ l # n
      /\ \A d \in Dim : l.x[d] - n.x[d] \in -1..1
  BY AroundIsLoc DEF GetNeighbors
<1>2. ASSUME n.lev = 0 PROVE FALSE
  <2>1. n = [lev |-> 0, x |-> n.x] /\ l = [lev |-> 0, x |-> l.x]
    BY <1>1, <1>2, LocFacts
  <2>2. n.x \in [Dim -> 0..0] /\ l.x \in [Dim -> 0..0]
    <3>1. n.x \in [Dim -> 0..(2^0 - 1)] /\ l.x \in [Dim -> 0..(2^0 - 1)]
      BY <1>1, <1>2, LocFacts
    <3> QED
      BY ONLY <3>1, Doubling
  <2>3. n.x = l.x
    BY <2>2
  <2> QED
    BY <1>1, <2>1, <2>3
<1>3. n # Root /\ l # Root
  BY <1>1, <1>2 DEF Root
<1>4. /\ Parent(n) \in Loc /\ Parent(n).lev = n.lev - 1
      /\ Parent(l) \in Loc /\ Parent(l).lev = n.lev - 1
  BY <1>1, <1>3, ParentIsLoc
<1>5. ASSUME NEW d \in Dim PROVE Parent(l).x[d] - Parent(n).x[d] \in -1..1
  <2>1. l.x[d] \in Nat /\ n.x[d] \in Nat /\ l.x[d] - n.x[d] \in -1..1
    BY <1>1, LocFacts
  <2>2. (l.x[d] \div 2) - (n.x[d] \div 2) \in -1..1
    BY <2>1
  <2> QED
    BY <2>2 DEF Parent
<1>6. ASSUME Parent(l) # Parent(n) PROVE Parent(l) \in GetNeighbors[Parent(n)]
  <2>1. Parent(l) \in LocAt(Parent(n).lev)
    BY <1>4, LocFacts DEF LocAt
  <2> QED
    BY <1>4, <1>5, <1>6, <2>1 DEF GetNeighbors
<1> QED
  BY <1>1, <1>3, <1>4, <1>6

(* Every node but the root has a sibling.                                  *)
LEMMA HasSibling ==
  ASSUME NEW n \in Loc, n # Root
  PROVE  \E l \in GetNeighbors[n] : Parent(l) = Parent(n)
<1> DEFINE y == IF n.x[1] % 2 = 0 THEN n.x[1] + 1 ELSE n.x[1] - 1
           s == [n.x EXCEPT ![1] = y]
           l == [lev |-> n.lev, x |-> s]
<1>1. /\ n.lev \in Nat /\ n.lev # 0 /\ n = [lev |-> n.lev, x |-> n.x] /\ 1 \in Dim
      /\ n.x \in [Dim -> 0..(2^n.lev - 1)] /\ \A d \in Dim : n.x[d] \in Nat
  <2>1. Parent(n).lev = n.lev - 1 /\ Parent(n).lev \in Nat
    BY ParentIsLoc, LocFacts
  <2> QED
    BY <2>1, LocFacts, LevelAssumption DEF Dim
<1>2. PICK h \in Nat \ {0} : 2^n.lev = h + h
  <2>1. n.lev = (n.lev - 1) + 1 /\ n.lev - 1 \in Nat
    BY <1>1
  <2> QED
    BY <2>1, Doubling, Powers
<1>3. /\ y \in 0..(2^n.lev - 1) /\ y # n.x[1] /\ y - n.x[1] \in -1..1
      /\ y \div 2 = n.x[1] \div 2
  <2>1. n.x[1] \in 0..(h + h - 1)
    BY <1>1, <1>2
  <2> QED
    BY <1>2, <2>1
<1> HIDE DEF y
<1>4. /\ s \in [Dim -> 0..(2^n.lev - 1)] /\ s[1] = y
      /\ \A d \in Dim : d # 1 => s[d] = n.x[d]
  BY <1>1, <1>3
<1>5. l \in LocAt(n.lev) /\ l # n
  <2>1. s # n.x
    BY <1>3, <1>4
  <2> QED
    BY <1>4, <2>1 DEF LocAt
<1>6. \A d \in Dim : l.x[d] - n.x[d] \in -1..1 /\ l.x[d] \div 2 = n.x[d] \div 2
  BY <1>1, <1>3, <1>4
<1>7. l \in GetNeighbors[n]
  BY <1>5, <1>6 DEF GetNeighbors
<1>8. Parent(l) = Parent(n)
  <2>1. [d \in Dim |-> l.x[d] \div 2] = [d \in Dim |-> n.x[d] \div 2]
    BY <1>6
  <2> QED
    BY <2>1 DEF Parent
<1> QED
  BY <1>7, <1>8

-----------------------------------------------------------------------------
(* A location someone waits for: it is next to a node that is flagged.     *)
Wanted(l) == \E k \in flagged : l \in GetNeighbors[k]

(* It will exist, as its parent is flagged, or a call asks for it.         *)
Promised(l) == Parent(l) \in flagged \/ \E c \in calls : l \in c.locs

(* Nobody is flagged who need not be.                                      *)
Justified(n) ==
  n \in wished \/ \E k \in flagged : \E l \in GetNeighbors[k] : n = Parent(l)

(* A call goes to the node that is to be flagged, or to one next to it: in *)
(* a graded tree, it gets there in one step.                               *)
Near(c) ==
  /\ c.to \in Nodes /\ c.to.lev < MaxLevel
  /\ \A l \in c.locs : /\ l \in Loc /\ l.lev = c.to.lev + 1 /\ Wanted(l)
                       /\ Parent(l) = c.to \/ Parent(l) \in Around(c.to)

FlagInv ==
  /\ wished \subseteq flagged
  /\ \A n \in flagged :
       /\ n \in Nodes /\ n.lev < MaxLevel /\ Justified(n)
       /\ \A l \in GetNeighbors[n] : Promised(l)

GradedInv ==
  /\ refined \subseteq Loc /\ GradedTree(refined)
  /\ FlagInv /\ \A c \in calls : Near(c)

(* In a graded tree the parent of a node exists, and so do those next to   *)
(* it.                                                                     *)
LEMMA ParentsExist ==
  ASSUME refined \subseteq Loc, GradedTree(refined), NEW n \in Nodes, n # Root
  PROVE  /\ Parent(n) \in Nodes /\ Parent(n) \in refined
         /\ \A l \in GetNeighbors[n] :
              Parent(l) = Parent(n) \/ Parent(l) \in Around(Parent(n))
<1>1. n \in Loc /\ Parent(n) \in refined
  BY DEF Nodes, Exists
<1>2. Parent(n) \in Nodes
  BY <1>1 DEF GradedTree, Nodes, Exists
<1>3. \A m \in GetNeighbors[Parent(n)] : Exists(m)
  <2> SUFFICES ASSUME NEW m \in GetNeighbors[Parent(n)] PROVE Exists(m)
    OBVIOUS
  <2>1. m \in Loc /\ m # Root /\ Parent(m) \in Loc
    BY <1>1, NeighborParents
  <2>2. m.lev # 0
    BY <2>1, ParentIsLoc, LocFacts
  <2> QED
    BY <1>1, <2>2 DEF GradedTree, Exists
<1> QED
  BY <1>1, <1>2, <1>3, NeighborParents DEF Around

(* What a node demands goes to its parent, and concerns those next to it.  *)
LEMMA DemandIsNear ==
  ASSUME refined \subseteq Loc, GradedTree(refined), NEW n \in Nodes, n.lev < MaxLevel,
         NEW c \in Demand(n)
  PROVE  /\ c.to \in Nodes /\ c.to.lev < MaxLevel /\ c.locs = GetNeighbors[n]
         /\ \A l \in c.locs : /\ l \in Loc /\ l.lev = c.to.lev + 1
                              /\ Parent(l) = c.to \/ Parent(l) \in Around(c.to)
<1>1. n \in Loc /\ n # Root /\ c.to = Parent(n) /\ c.locs = GetNeighbors[n]
  BY CallFacts DEF Demand, Nodes
<1>2. n.lev \in 0..MaxLevel /\ Parent(n).lev = n.lev - 1
  BY <1>1, ParentIsLoc, LocFacts
<1>3. \A l \in c.locs : l \in Loc /\ l.lev = n.lev
  BY <1>1, NeighborParents
<1>4. c.to.lev < MaxLevel /\ \A l \in c.locs : l.lev = c.to.lev + 1
  BY <1>1, <1>2, <1>3, LevelAssumption
<1> QED
  BY <1>1, <1>3, <1>4, ParentsExist

(* A node that is flagged demands what is next to it, unless it has done   *)
(* so.                                                                     *)
LEMMA FlaggingPromises ==
  ASSUME GradedInv, NEW n \in Nodes, NEW l \in GetNeighbors[n]
  PROVE  Promised(l) \/ \E c \in Demand(n) : l \in c.locs
<1>1. CASE n \in flagged
  BY <1>1 DEF GradedInv, FlagInv
<1>2. CASE n \notin flagged
  <2>1. n # Root
    BY NeighborParents DEF Nodes
  <2>2. Demand(n) = {[to |-> Parent(n), locs |-> GetNeighbors[n]]}
    BY <1>2, <2>1 DEF Demand, Call
  <2> QED
    BY <2>2
<1> QED
  BY <1>1, <1>2

(* A check that flags a node makes it demand what it needs.                *)
LEMMA CheckKeepsGraded ==
  ASSUME GradedInv, NEW n \in Candidates, Check(n)
  PROVE  GradedInv'
<1>1. n \in Nodes
  BY LevelAssumption DEF Check, Nodes
<1>2. refined' = refined /\ \A m : Exists(m)' = Exists(m)
  BY DEF Check, Exists
<1>3. Nodes' = Nodes /\ \A m : Around(m)' = Around(m)
  BY <1>2 DEF Nodes, Around
<1>4. CASE flagged' = flagged /\ calls' = calls
  <2>1. wished' \subseteq flagged /\ wished \subseteq wished'
    <3>1. wished' = wished \/ (wished' = wished \cup {n} /\ flagged' = flagged \cup {n})
      BY DEF Check
    <3> QED
      BY <1>4, <3>1 DEF GradedInv, FlagInv
  <2>2. \A m \in flagged : Justified(m)'
    BY <1>4, <2>1 DEF Justified, GradedInv, FlagInv
  <2>3. \A l : (Promised(l)' <=> Promised(l)) /\ (Wanted(l)' <=> Wanted(l))
    BY <1>4 DEF Promised, Wanted
  <2>4. FlagInv'
    BY <1>3, <1>4, <2>1, <2>2, <2>3 DEF FlagInv, GradedInv
  <2>5. \A c \in calls : Near(c)'
    BY <1>3, <2>3 DEF GradedInv, Near
  <2> QED
    BY <1>2, <1>4, <2>4, <2>5 DEF GradedInv
<1>5. CASE ~(flagged' = flagged /\ calls' = calls)
  <2>1. /\ n.lev < MaxLevel /\ wished' = wished \cup {n} /\ flagged' = flagged \cup {n}
        /\ calls' = calls \cup Demand(n)
    BY <1>5 DEF Check
  <2>2. \A l : (Promised(l) => Promised(l)') /\ (Wanted(l) => Wanted(l)')
    BY <2>1 DEF Promised, Wanted
  <2>3. \A l \in GetNeighbors[n] : Promised(l)' /\ Wanted(l)'
    <3> SUFFICES ASSUME NEW l \in GetNeighbors[n] PROVE Promised(l)' /\ Wanted(l)'
      OBVIOUS
    <3>1. Promised(l) \/ \E c \in Demand(n) : l \in c.locs
      BY <1>1, FlaggingPromises
    <3> QED
      BY <2>1, <2>2, <3>1 DEF Promised, Wanted
  <2>4. \A m \in flagged : Justified(m) => Justified(m)'
    BY <2>1 DEF Justified
  <2>5. FlagInv'
    <3>1. wished' \subseteq flagged'
      BY <2>1 DEF GradedInv, FlagInv
    <3>2. ASSUME NEW m \in flagged'
          PROVE  /\ m \in Nodes' /\ m.lev < MaxLevel /\ Justified(m)'
                 /\ \A l \in GetNeighbors[m] : Promised(l)'
      <4>1. CASE m = n
        BY <1>1, <1>3, <2>1, <2>3, <4>1 DEF Justified
      <4>2. CASE m # n
        BY <1>3, <2>1, <2>2, <2>4, <3>2, <4>2 DEF GradedInv, FlagInv
      <4> QED
        BY <4>1, <4>2
    <3> QED
      BY <3>1, <3>2 DEF FlagInv
  <2>6. ASSUME NEW c \in calls' PROVE Near(c)'
    <3>1. CASE c \in calls
      BY <1>3, <2>2, <3>1 DEF GradedInv, Near
    <3>2. CASE c \in Demand(n)
      <4>1. /\ c.to \in Nodes /\ c.to.lev < MaxLevel /\ c.locs = GetNeighbors[n]
            /\ \A l \in c.locs : /\ l \in Loc /\ l.lev = c.to.lev + 1
                                 /\ Parent(l) = c.to \/ Parent(l) \in Around(c.to)
        BY <1>1, <2>1, <3>2, DemandIsNear DEF GradedInv
      <4> QED
        BY <1>3, <2>3, <4>1 DEF Near
    <3> QED
      BY <2>1, <2>6, <3>1, <3>2
  <2> QED
    BY <1>2, <2>5, <2>6 DEF GradedInv
<1> QED
  BY <1>4, <1>5

(* What a call does in a graded tree: it flags its node, if that is the    *)
(* parent of a location asked for, and tells the neighbors that are of the *)
(* others; nothing goes further down or up.                                *)
LEMMA ForceIsLocal ==
  ASSUME GradedInv, NEW c \in calls, ForceNodesToExist(c)
  PROVE  LET inside == {l \in c.locs : Parent(l) = c.to}
             below(m) == {l \in c.locs : Parent(l) = m}
         IN /\ flagged' = IF inside # {} THEN flagged \cup {c.to} ELSE flagged
            /\ calls' = (calls \ {c}) \cup (IF inside # {} THEN Demand(c.to) ELSE {})
                          \cup UNION {Call(m, below(m)) : m \in Around(c.to)}
<1> DEFINE n == c.to
           inside == {l \in c.locs : IsChildOf(l, n)}
           below(m) == {l \in c.locs : IsChildOf(l, m)}
           kids == {m \in ChildrenOf[n] : Exists(m)}
           rest == {l \in c.locs \ inside : \A m \in Around(n) : ~IsChildOf(l, m)}
<1>1. /\ n \in Loc /\ \A l \in c.locs : /\ l \in Loc /\ l.lev = n.lev + 1
                                        /\ Parent(l) = n \/ Parent(l) \in Around(n)
  BY DEF GradedInv, Near, Nodes
<1>2. n.lev \in Nat /\ \A m \in Around(n) : m \in Loc /\ m.lev = n.lev
  BY <1>1, AroundIsLoc, LocLevel DEF Around
<1>3. \A m \in {n} \cup Around(n) : \A l \in c.locs : IsChildOf(l, m) <=> m = Parent(l)
  BY <1>1, <1>2, ParentIsAbove
<1>4. inside = {l \in c.locs : Parent(l) = n}
  BY <1>3
<1>5. \A m \in Around(n) : below(m) = {l \in c.locs : Parent(l) = m}
  BY <1>3
<1>6. \A m \in kids : below(m) = {}
  <2> SUFFICES ASSUME NEW m \in kids, NEW l \in below(m) PROVE FALSE
    OBVIOUS
  <2>1. m.lev = n.lev + 1 /\ l.lev = n.lev + 1 /\ m.lev < l.lev
    BY <1>1 DEF ChildrenOf, LocAt, IsChildOf
  <2> QED
    BY <1>2, <2>1
<1>7. rest = {}
  BY <1>1, <1>3
<1>8. /\ flagged' = IF inside # {} THEN flagged \cup {n} ELSE flagged
      /\ calls' = (calls \ {c}) \cup (IF inside # {} THEN Demand(n) ELSE {})
           \cup (UNION {Call(m, below(m)) : m \in kids \cup Around(n)})
           \cup (IF rest # {} THEN Call(Parent(n), rest) ELSE {})
  BY DEF ForceNodesToExist
<1>9. UNION {Call(m, below(m)) : m \in kids \cup Around(n)}
        = UNION {Call(m, {l \in c.locs : Parent(l) = m}) : m \in Around(n)}
  <2>1. \A m \in kids : Call(m, below(m)) = {}
    BY <1>6 DEF Call
  <2>2. \A m \in Around(n) : Call(m, below(m)) = Call(m, {l \in c.locs : Parent(l) = m})
    BY <1>5
  <2> HIDE DEF below, kids
  <2> QED
    BY <2>1, <2>2
<1> QED
  BY <1>4, <1>7, <1>8, <1>9

LEMMA ForceKeepsGraded ==
  ASSUME GradedInv, NEW c \in calls, ForceNodesToExist(c)
  PROVE  GradedInv'
<1> DEFINE n == c.to
           inside == {l \in c.locs : Parent(l) = n}
           below(m) == {l \in c.locs : Parent(l) = m}
           demand == IF inside # {} THEN Demand(n) ELSE {}
           told == UNION {Call(m, below(m)) : m \in Around(n)}
<1>1. /\ refined' = refined /\ wished' = wished /\ \A m : Exists(m)' = Exists(m)
      /\ Nodes' = Nodes /\ \A m : Around(m)' = Around(m)
  BY DEF ForceNodesToExist, Exists, Nodes, Around
<1>2. /\ n \in Nodes /\ n.lev < MaxLevel
      /\ \A l \in c.locs : /\ l \in Loc /\ l.lev = n.lev + 1 /\ Wanted(l)
                           /\ Parent(l) = n \/ Parent(l) \in Around(n)
  BY DEF GradedInv, Near
<1>3. /\ flagged' = IF inside # {} THEN flagged \cup {n} ELSE flagged
      /\ calls' = (calls \ {c}) \cup demand \cup told
  BY ForceIsLocal
<1>4. \A k \in told : \E m \in Around(n) : k.to = m /\ k.locs = below(m)
  <2>1. \A m \in Around(n) : \A k \in Call(m, below(m)) : k.to = m /\ k.locs = below(m)
    BY CallFacts
  <2> HIDE DEF below, n
  <2>2. \A k \in told : \E m \in Around(n) : k \in Call(m, below(m))
    BY Zenon
  <2> QED
    BY <2>1, <2>2, Zenon
<1>5. \A l \in c.locs : Parent(l) # n => \E k \in told : l \in k.locs
  <2> SUFFICES ASSUME NEW l \in c.locs, Parent(l) # n PROVE \E k \in told : l \in k.locs
    OBVIOUS
  <2>1. Parent(l) \in Around(n) /\ l \in below(Parent(l))
    BY <1>2
  <2>2. PICK k \in Call(Parent(l), below(Parent(l))) : k.locs = below(Parent(l))
    BY <2>1 DEF Call
  <2> QED
    BY <2>1, <2>2
<1> HIDE DEF told
<1>6. \A l : Wanted(l) => Wanted(l)'
  BY <1>3 DEF Wanted
<1>7. \A l \in Loc : Promised(l) => Promised(l)'
  <2> SUFFICES ASSUME NEW l \in Loc, Promised(l) PROVE Promised(l)'
    OBVIOUS
  <2>1. CASE l \in c.locs /\ Parent(l) = n
    BY <1>3, <2>1 DEF Promised
  <2>2. CASE l \in c.locs /\ Parent(l) # n
    BY <1>3, <1>5, <2>2 DEF Promised
  <2>3. CASE l \notin c.locs
    BY <1>3, <2>3 DEF Promised
  <2> QED
    BY <2>1, <2>2, <2>3
<1>8. FlagInv'
  <2>1. wished' \subseteq flagged'
    BY <1>1, <1>3 DEF GradedInv, FlagInv
  <2>2. ASSUME NEW m \in flagged'
        PROVE  /\ m \in Nodes' /\ m.lev < MaxLevel /\ Justified(m)'
               /\ \A l \in GetNeighbors[m] : Promised(l)'
    <3>1. CASE m \in flagged
      <4>1. /\ m \in Nodes /\ m.lev < MaxLevel /\ Justified(m)
            /\ \A l \in GetNeighbors[m] : Promised(l) /\ l \in Loc
        BY <3>1, NeighborParents DEF GradedInv, FlagInv, Nodes
      <4>2. Justified(m)'
        BY <1>1, <1>3, <4>1 DEF Justified
      <4> QED
        BY <1>1, <1>7, <4>1, <4>2
    <3>2. CASE m \notin flagged
      <4>1. m = n /\ inside # {}
        BY <1>3, <2>2, <3>2
      <4>2. PICK l \in c.locs : Parent(l) = n /\ Wanted(l)
        BY <1>2, <4>1
      <4>3. Justified(m)'
        BY <1>6, <4>1, <4>2 DEF Justified, Wanted
      <4>4. ASSUME NEW k \in GetNeighbors[m] PROVE Promised(k)'
        <5>1. k \in Loc /\ (Promised(k) \/ \E d \in Demand(n) : k \in d.locs)
          BY <1>2, <4>1, FlaggingPromises, NeighborParents DEF Nodes
        <5> QED
          BY <1>3, <1>7, <4>1, <5>1 DEF Promised
      <4> QED
        BY <1>1, <1>2, <4>1, <4>3, <4>4
    <3> QED
      BY <3>1, <3>2
  <2> QED
    BY <2>1, <2>2 DEF FlagInv
<1>9. ASSUME NEW k \in calls' PROVE Near(k)'
  <2>1. CASE k \in calls
    BY <1>1, <1>6, <2>1 DEF GradedInv, Near
  <2>2. CASE k \in told
    <3>1. PICK m \in Around(n) : k.to = m /\ k.locs = below(m)
      BY <1>4, <2>2
    <3>2. m \in Nodes /\ m.lev = n.lev
      BY <1>2, AroundIsLoc DEF Nodes, Around
    <3> QED
      BY <1>1, <1>2, <1>6, <3>1, <3>2 DEF Near
  <2>3. CASE k \in demand
    <3>1. inside # {} /\ k \in Demand(n)
      BY <2>3
    <3>2. /\ k.to \in Nodes /\ k.to.lev < MaxLevel /\ k.locs = GetNeighbors[n]
          /\ \A l \in k.locs : /\ l \in Loc /\ l.lev = k.to.lev + 1
                               /\ Parent(l) = k.to \/ Parent(l) \in Around(k.to)
      BY <1>2, <3>1, DemandIsNear DEF GradedInv
    <3>3. n \in flagged'
      BY <1>3, <3>1
    <3> QED
      BY <1>1, <3>2, <3>3 DEF Near, Wanted
  <2> QED
    BY <1>3, <1>9, <2>1, <2>2, <2>3
<1> QED
  BY <1>1, <1>8, <1>9 DEF GradedInv

(* When all calls are handled, what is flagged is a graded tree, and no    *)
(* node of it is killed with one above it.                                 *)
LEMMA FlaggedIsGraded ==
  ASSUME GradedInv, calls = {}
  PROVE  /\ flagged \subseteq Loc /\ GradedTree(flagged)
         /\ \A n \in flagged : \A l \in GetNeighbors[n] : Parent(l) \in flagged
         /\ \A n \in flagged : \A m \in Nodes : IsChildOf(n, m) => m \in flagged
<1>1. \A n \in flagged : /\ n \in Loc /\ n.lev < MaxLevel
                         /\ \A l \in GetNeighbors[n] : Parent(l) \in flagged
  BY DEF GradedInv, FlagInv, Promised, Nodes
<1>2. \A n \in flagged : n = Root \/ Parent(n) \in flagged
  <2> SUFFICES ASSUME NEW n \in flagged, n # Root PROVE Parent(n) \in flagged
    OBVIOUS
  <2>1. PICK l \in GetNeighbors[n] : Parent(l) = Parent(n)
    BY <1>1, HasSibling
  <2> QED
    BY <1>1, <2>1
<1>3. GradedTree(flagged)
  BY <1>1, <1>2 DEF GradedTree
<1>4. flagged \subseteq Loc
  BY <1>1
<1>5. ASSUME NEW n \in flagged, NEW m \in Nodes, IsChildOf(n, m) PROVE m \in flagged
  BY <1>2, <1>4, <1>5, AllAbove DEF Nodes
<1> QED
  BY <1>1, <1>3, <1>4, <1>5

LEMMA GatherKeepsGraded ==
  ASSUME GradedInv, Gather
  PROVE  GradedInv' /\ refined' = flagged
<1>1. /\ calls = {} /\ calls' = {} /\ flagged' = {} /\ wished' = {}
      /\ refined' = {n \in flagged : \A m \in Nodes : IsChildOf(n, m) => m \in flagged}
  BY DEF Gather
<1>2. refined' = flagged
  BY <1>1, FlaggedIsGraded
<1>3. refined' \subseteq Loc /\ GradedTree(refined')
  BY <1>1, <1>2, FlaggedIsGraded
<1>4. FlagInv' /\ \A c \in calls' : Near(c)'
  BY <1>1 DEF FlagInv
<1> QED
  BY <1>1, <1>2, <1>3, <1>4 DEF GradedInv, GradedTree

LEMMA StepKeepsGraded == GradedInv /\ [Next]_vars => GradedInv'
<1> SUFFICES ASSUME GradedInv, [Next]_vars PROVE GradedInv'
  OBVIOUS
<1>1. ASSUME NEW n \in Candidates, Check(n) PROVE GradedInv'
  BY <1>1, CheckKeepsGraded
<1>2. ASSUME NEW c \in calls, ForceNodesToExist(c) PROVE GradedInv'
  BY <1>2, ForceKeepsGraded
<1>3. CASE Gather
  BY <1>3, GatherKeepsGraded
<1>4. CASE UNCHANGED vars
  BY <1>4 DEF vars, GradedInv, GradedTree, FlagInv, Near, Nodes, Exists, Around,
              Promised, Wanted, Justified
<1> QED
  BY <1>1, <1>2, <1>3, <1>4 DEF Next

(* The tree is graded at all times, and every demand is on its way to the  *)
(* node it concerns.                                                       *)
THEOREM TreeStaysGraded == Spec => []GradedInv
<1>1. Init => GradedInv
  BY DEF Init, GradedInv, GradedTree, FlagInv
<1> QED
  BY <1>1, StepKeepsGraded, PTL DEF Spec

-----------------------------------------------------------------------------
(* One level of Needed, given the next: the recursion of its definition.   *)
Level(f, l) ==
  {n \in wished : n.lev = l} \cup
  (IF l = MaxLevel THEN {}
   ELSE {Parent(m) : m \in UNION {{n} \cup GetNeighbors[n] : n \in f[l + 1]}})

(* What is flagged, level by level, solves the recursion, so that Needed   *)
(* is a solution too; and from the finest level up there is only one.      *)
LEMMA FlaggedIsNeeded ==
  ASSUME GradedInv, calls = {}
  PROVE  \A l \in 0..MaxLevel : Needed[l] = {n \in flagged : n.lev = l}
<1> DEFINE F == [l \in 0..MaxLevel |-> {n \in flagged : n.lev = l}]
<1>1. ASSUME NEW l \in 0..MaxLevel PROVE F[l] = Level(F, l)
  <2>1. \A n \in flagged : n \in Loc /\ n.lev < MaxLevel /\ Justified(n)
    BY DEF GradedInv, FlagInv, Nodes
  <2>2. \A n \in flagged : \A k \in GetNeighbors[n] : Parent(k) \in flagged /\ k.lev = n.lev
    BY <2>1, FlaggedIsGraded, NeighborParents
  <2>3. CASE l = MaxLevel
    <3>1. \A n \in flagged : n.lev # MaxLevel
      BY <2>1, LocFacts, LevelAssumption
    <3> QED
      BY <2>3, <3>1 DEF Level, GradedInv, FlagInv
  <2>4. CASE l # MaxLevel
    <3>0. l \in Nat /\ l + 1 \in 0..MaxLevel /\ F[l + 1] = {n \in flagged : n.lev = l + 1}
      BY <2>4, LevelAssumption
    <3>1. ASSUME NEW n \in Level(F, l) PROVE n \in flagged /\ n.lev = l
      <4>1. CASE n \in wished /\ n.lev = l
        BY <4>1 DEF GradedInv, FlagInv
      <4>2. CASE ~(n \in wished /\ n.lev = l)
        <5>1. PICK k \in F[l + 1] : \E m \in {k} \cup GetNeighbors[k] : n = Parent(m)
          BY <3>1, <2>4, <4>2 DEF Level
        <5>2. PICK m \in {k} \cup GetNeighbors[k] : n = Parent(m)
          BY <5>1
        <5>3. k \in flagged /\ k \in Loc /\ k.lev = l + 1 /\ k # Root
          BY <2>1, <3>0 DEF Root
        <5>4. m.lev = l + 1 /\ m \in Loc /\ m # Root /\ Parent(m) \in flagged
          BY <5>2, <5>3, <2>2, NeighborParents, FlaggedIsGraded DEF GradedTree
        <5> QED
          BY <3>0, <5>2, <5>4, ParentIsLoc
      <4> QED
        BY <4>1, <4>2
    <3>2. ASSUME NEW n \in flagged, n.lev = l PROVE n \in Level(F, l)
      <4>1. CASE n \in wished
        BY <3>2, <4>1 DEF Level
      <4>2. CASE n \notin wished
        <5>1. PICK k \in flagged : \E m \in GetNeighbors[k] : n = Parent(m)
          BY <2>1, <4>2 DEF Justified
        <5>2. PICK m \in GetNeighbors[k] : n = Parent(m)
          BY <5>1
        <5>3. m \in Loc /\ m # Root /\ m.lev = k.lev /\ k.lev \in Nat
          BY <2>1, <5>2, NeighborParents, LocFacts
        <5>4. n.lev = m.lev - 1
          BY <5>2, <5>3, ParentIsLoc
        <5>5. k \in F[l + 1]
          BY <3>0, <3>2, <5>3, <5>4
        <5> HIDE DEF F
        <5> QED
          BY <2>4, <5>2, <5>5 DEF Level
      <4> QED
        BY <4>1, <4>2
    <3> QED
      BY <3>1, <3>2
  <2> QED
    BY <2>3, <2>4
<1>2. Needed = CHOOSE f : f = [l \in 0..MaxLevel |-> Level(f, l)]
  BY DEF Needed, Level
<1>3. F = [l \in 0..MaxLevel |-> Level(F, l)]
  <2>1. F \in [0..MaxLevel -> SUBSET flagged]
    OBVIOUS
  <2> HIDE DEF F
  <2>2. F = [l \in 0..MaxLevel |-> F[l]]
    BY <2>1
  <2> QED
    BY <1>1, <2>2
<1>4. Needed = [l \in 0..MaxLevel |-> Level(Needed, l)]
  <2> HIDE DEF F
  <2> QED
    BY <1>2, <1>3
<1>5. \A l \in 0..MaxLevel : Needed[l] = Level(Needed, l)
  <2> DEFINE G == Needed
  <2>1. G = [l \in 0..MaxLevel |-> Level(G, l)]
    BY <1>4
  <2> HIDE DEF G
  <2>2. \A l \in 0..MaxLevel : G[l] = Level(G, l)
    BY <2>1
  <2> QED
    BY <2>2 DEF G
<1> HIDE DEF F
<1> DEFINE T == {i \in Nat : i <= MaxLevel /\ Needed[MaxLevel - i] # F[MaxLevel - i]}
<1>6. ASSUME T # {} PROVE FALSE
  <2>1. PICK i \in T : \A j \in T : i <= j
    BY <1>6, LeastElement
  <2>2. PICK l \in 0..MaxLevel : l = MaxLevel - i /\ Needed[l] # F[l]
    BY <2>1, LevelAssumption
  <2>3. l = MaxLevel \/ Needed[l + 1] = F[l + 1]
    <3> SUFFICES ASSUME l # MaxLevel PROVE Needed[l + 1] = F[l + 1]
      OBVIOUS
    <3>1. i - 1 \in Nat /\ i - 1 <= MaxLevel /\ MaxLevel - (i - 1) = l + 1
      BY <2>1, <2>2, LevelAssumption
    <3>2. i - 1 \notin T
      BY <2>1, <3>1
    <3> QED
      BY <3>1, <3>2
  <2>4. Level(Needed, l) = Level(F, l)
    BY <2>3 DEF Level
  <2> QED
    BY <1>1, <1>5, <2>2, <2>4
<1>7. ASSUME NEW l \in 0..MaxLevel PROVE Needed[l] = F[l]
  <2>1. MaxLevel - l \in Nat /\ MaxLevel - l <= MaxLevel /\ MaxLevel - (MaxLevel - l) = l
    BY LevelAssumption
  <2> QED
    BY <1>6, <2>1
<1> QED
  BY <1>7 DEF F

(* In any number of dimensions, at any depth, whatever the cells wish and  *)
(* in whatever order the calls arrive: a regrid makes the least graded     *)
(* tree that has all wishes.                                               *)
THEOREM RegridIsLeast == Spec => LeastGradedTree
<1>1. ASSUME GradedInv, Gather PROVE refined' = UNION {Needed[l] : l \in 0..MaxLevel}
  <2>1. calls = {} /\ refined' = flagged
    BY <1>1, GatherKeepsGraded DEF Gather
  <2>2. \A l \in 0..MaxLevel : Needed[l] = {n \in flagged : n.lev = l}
    BY <1>1, <2>1, FlaggedIsNeeded
  <2>3. \A n \in flagged : n.lev \in 0..MaxLevel
    BY <1>1, LocFacts DEF GradedInv, FlagInv, Nodes
  <2> QED
    BY <2>1, <2>2, <2>3
<1>2. GradedInv /\ [Next]_vars =>
        [Gather => refined' = UNION {Needed[l] : l \in 0..MaxLevel}]_vars
  BY <1>1
<1> QED
  BY <1>2, TreeStaysGraded, PTL DEF LeastGradedTree, Spec

-----------------------------------------------------------------------------
(* The forming of the tree (module TreeFormation).                         *)
(* What lies in a direction from a node, if a node does.                   *)
NeighborOf(n, dir) == IF At(n, dir) \in Nodes THEN At(n, dir) ELSE NoNode
AllNeighbors(n) == [dir \in Direction |-> NeighborOf(n, dir)]

Beyond(n, f) == At(n, ToDirection(f))

(* The two kinds of calls as they are made.                                *)
FormCall(n) == [call |-> "form_tree", to |-> n, neighbors |-> AllNeighbors(n)]
AuntCall(a, f) ==
  [call |-> "set_child_aunt", to |-> Beyond(a, f), aunt |-> a, face |-> Flip(f)]

-----------------------------------------------------------------------------
(* Directions and faces.                                                   *)
LEMMA Directions ==
  /\ \A dir \in Direction : /\ \A d \in Dim : dir[d] \in -1..1
                            /\ \E d \in Dim : dir[d] # 0
  /\ \A f \in Face : /\ f[1] \in Dim /\ f[2] \in {0, 1} /\ f = <<f[1], f[2]>>
                     /\ ToDirection(f) \in Direction
                     /\ Flip(f) \in Face /\ Flip(Flip(f)) = f
                     /\ Flip(f)[1] = f[1] /\ Flip(f)[2] = 1 - f[2]
<1>1. ASSUME NEW dir \in Direction
      PROVE  /\ \A d \in Dim : dir[d] \in -1..1
             /\ \E d \in Dim : dir[d] # 0
  <2>1. dir \in [Dim -> -1..1] /\ dir # [d \in Dim |-> 0]
    BY DEF Direction
  <2>2. ASSUME \A d \in Dim : dir[d] = 0 PROVE FALSE
    BY <2>1, <2>2
  <2> QED
    BY <2>1, <2>2
<1>2. ASSUME NEW f \in Face
      PROVE  /\ f[1] \in Dim /\ f[2] \in {0, 1} /\ f = <<f[1], f[2]>>
             /\ Flip(f) \in Face /\ Flip(Flip(f)) = f
             /\ Flip(f)[1] = f[1] /\ Flip(f)[2] = 1 - f[2]
  BY DEF Face, Flip
<1>3. ASSUME NEW f \in Face PROVE ToDirection(f) \in Direction
  <2>1. ToDirection(f) \in [Dim -> -1..1]
    BY DEF ToDirection
  <2>2. ToDirection(f)[f[1]] # 0
    BY <1>2 DEF ToDirection
  <2>3. ToDirection(f) # [d \in Dim |-> 0]
    <3>1. [d \in Dim |-> 0][f[1]] = 0
      BY <1>2
    <3> QED
      BY <2>2, <3>1
  <2> QED
    BY <2>1, <2>3 DEF Direction
<1> QED
  BY <1>1, <1>2, <1>3

(* A location in some direction is a neighbor.                             *)
LEMMA AtIsNeighbor ==
  ASSUME NEW n \in Loc, NEW dir \in Direction, At(n, dir) \in Loc
  PROVE  At(n, dir) \in GetNeighbors[n]
<1> DEFINE m == At(n, dir)
<1>1. \A d \in Dim : n.x[d] \in Nat /\ dir[d] \in -1..1 /\ m.x[d] = n.x[d] + dir[d]
  BY LocFacts, Directions DEF At
<1>2. \A d \in Dim : m.x[d] - n.x[d] \in -1..1
  BY <1>1
<1>3. m # n
  <2>1. PICK d \in Dim : dir[d] # 0
    BY Directions
  <2>2. m.x[d] # n.x[d]
    BY <1>1, <2>1
  <2> QED
    BY <2>2
<1>4. m.lev = n.lev /\ m \in LocAt(n.lev)
  <2>1. m.lev = n.lev
    BY DEF At
  <2>2. m = [lev |-> m.lev, x |-> m.x] /\ m.x \in [Dim -> 0..(2^m.lev - 1)]
    BY LocFacts
  <2> QED
    BY <2>1, <2>2 DEF LocAt
<1> HIDE DEF m
<1>5. m \in GetNeighbors[n]
  BY <1>2, <1>3, <1>4 DEF GetNeighbors
<1> QED
  BY <1>5 DEF m

(* Nothing lies around the root.                                           *)
LEMMA RootIsAlone == AllNeighbors(Root) = NoNeighbors
<1>1. Root \in Loc
  BY CandidateAssumption, LevelAssumption
<1>2. ASSUME NEW dir \in Direction PROVE NeighborOf(Root, dir) = NoNode
  <2>1. At(Root, dir) \notin Loc
    BY <1>1, AtIsNeighbor, NeighborParents
  <2> QED
    BY <2>1 DEF NeighborOf, Nodes
<1> QED
  BY <1>2 DEF AllNeighbors, NoNeighbors

(* A child of a location is one, and its parent is that location.          *)
LEMMA ChildIsLoc ==
  ASSUME NEW n \in Loc, n.lev < MaxLevel, NEW ci \in Octant
  PROVE  /\ GetChild(n, ci) \in Loc /\ GetChild(n, ci) # Root
         /\ Parent(GetChild(n, ci)) = n
<1> DEFINE c == GetChild(n, ci)
<1>1. /\ n.lev \in Nat /\ n = [lev |-> n.lev, x |-> n.x] /\ n.x \in [Dim -> 0..(2^n.lev - 1)]
      /\ \A d \in Dim : n.x[d] \in Nat /\ ci[d] \in {0, 1}
      /\ n.lev + 1 \in 0..MaxLevel
  BY LocFacts, LevelAssumption DEF Octant
<1>2. 2^(n.lev + 1) = 2^n.lev + 2^n.lev /\ 2^n.lev \in Nat \ {0}
  BY <1>1, Doubling, Powers
<1>3. ASSUME NEW d \in Dim
      PROVE  /\ 2 * n.x[d] + ci[d] \in 0..(2^(n.lev + 1) - 1)
             /\ (2 * n.x[d] + ci[d]) \div 2 = n.x[d]
  <2>1. PICK p \in Nat \ {0} : p = 2^n.lev
    BY <1>2
  <2>2. n.x[d] \in 0..(p - 1) /\ ci[d] \in {0, 1}
    BY <1>1, <2>1
  <2>3. 2 * n.x[d] + ci[d] \in 0..(p + p - 1) /\ (2 * n.x[d] + ci[d]) \div 2 = n.x[d]
    BY <2>2
  <2> QED
    BY <1>2, <2>1, <2>3
<1>4. [d \in Dim |-> 2 * n.x[d] + ci[d]] \in [Dim -> 0..(2^(n.lev + 1) - 1)]
  BY <1>3
<1>5. c \in Loc
  BY <1>1, <1>4, LocFacts DEF GetChild
<1>6. c # Root
  BY <1>1 DEF GetChild, Root
<1>7. Parent(c) = n
  <2>1. [d \in Dim |-> c.x[d] \div 2] = [d \in Dim |-> n.x[d]]
    BY <1>3 DEF GetChild
  <2>2. [d \in Dim |-> n.x[d]] = n.x /\ c.lev - 1 = n.lev
    BY <1>1 DEF GetChild
  <2> QED
    BY <1>1, <2>1, <2>2 DEF Parent
<1> QED
  BY <1>5, <1>6, <1>7

(* Every location but the root is the child of its parent in its octant.   *)
LEMMA IsItsChild ==
  ASSUME NEW m \in Loc, m # Root
  PROVE  OctantOf(m) \in Octant /\ m = GetChild(Parent(m), OctantOf(m))
<1>1. /\ m.lev \in Nat /\ m = [lev |-> m.lev, x |-> m.x] /\ m.x = [d \in Dim |-> m.x[d]]
      /\ \A d \in Dim : m.x[d] \in Nat
  BY LocFacts
<1>0. ASSUME NEW y \in Nat PROVE y % 2 \in {0, 1} /\ 2 * (y \div 2) + (y % 2) = y
  OBVIOUS
<1>2. \A d \in Dim : m.x[d] % 2 \in {0, 1} /\ 2 * (m.x[d] \div 2) + (m.x[d] % 2) = m.x[d]
  BY <1>0, <1>1
<1>3. OctantOf(m) \in Octant
  BY <1>2 DEF OctantOf, Octant
<1>4. [d \in Dim |-> 2 * Parent(m).x[d] + OctantOf(m)[d]] = [d \in Dim |-> m.x[d]]
  <2>1. \A d \in Dim : Parent(m).x[d] = m.x[d] \div 2 /\ OctantOf(m)[d] = m.x[d] % 2
    BY DEF Parent, OctantOf
  <2> QED
    BY <1>2, <2>1
<1>5. Parent(m).lev + 1 = m.lev
  BY <1>1 DEF Parent
<1> QED
  BY <1>1, <1>3, <1>4, <1>5 DEF GetChild

(* The nodes that exist below the root are those whose parent is refined.  *)
LEMMA NodesAreChildren ==
  ASSUME refined \subseteq Loc, GradedTree(refined)
  PROVE  /\ refined \subseteq Nodes /\ Root \in Nodes
         /\ \A n \in refined : n.lev < MaxLevel /\ Children(n) \subseteq Nodes \ {Root}
         /\ \A m \in Nodes \ {Root} : /\ Parent(m) \in refined /\ Parent(m) \in Nodes
                                      /\ m \in Children(Parent(m))
         /\ \A n \in refined : \A m \in Children(n) : Parent(m) = n
<1>1. \A n \in refined : n \in Loc /\ n.lev < MaxLevel
  BY DEF GradedTree
<1>2. Root \in Nodes
  BY CandidateAssumption, LevelAssumption DEF Nodes, Exists
<1>3. refined \subseteq Nodes
  BY DEF GradedTree, Nodes, Exists
<1>4. ASSUME NEW n \in refined, NEW m \in Children(n)
      PROVE  m \in Nodes \ {Root} /\ Parent(m) = n
  <2>1. PICK ci \in Octant : m = GetChild(n, ci)
    BY DEF Children
  <2>2. m \in Loc /\ m # Root /\ Parent(m) = n
    BY <1>1, <2>1, ChildIsLoc
  <2> QED
    BY <2>2 DEF Nodes, Exists
<1>5. ASSUME NEW m \in Nodes \ {Root}
      PROVE  /\ Parent(m) \in refined /\ Parent(m) \in Nodes
             /\ m \in Children(Parent(m))
  BY <1>3, IsItsChild DEF Nodes, Exists, Children
<1> QED
  BY <1>1, <1>2, <1>3, <1>4, <1>5

(* What form_tree finds around a child is what lies around it: in a graded *)
(* tree, if a node is there, so is the neighbor that knows of it.          *)
LEMMA ChildNeighborsAreRight ==
  ASSUME refined \subseteq Loc, GradedTree(refined), NEW n \in refined, NEW ci \in Octant
  PROVE  ChildNeighbors(n, AllNeighbors(n), ci) = AllNeighbors(GetChild(n, ci))
<1> DEFINE x(dir) == [d \in Dim |-> ci[d] + dir[d] + 2]
           other_child(dir) == [d \in Dim |-> x(dir)[d] % 2]
           towards(dir) == [d \in Dim |-> x(dir)[d] \div 2 - 1]
           found(dir) ==
             IF \A d \in Dim : towards(dir)[d] = 0 THEN GetChild(n, other_child(dir))
             ELSE GetChildClient(AllNeighbors(n)[towards(dir)], other_child(dir))
<1>1. ChildNeighbors(n, AllNeighbors(n), ci) = [dir \in Direction |-> found(dir)]
  BY DEF ChildNeighbors
<1>2. /\ n \in Loc /\ n \in Nodes /\ n.lev \in Nat
      /\ n = [lev |-> n.lev, x |-> n.x] /\ n.x = [d \in Dim |-> n.x[d]]
      /\ \A d \in Dim : n.x[d] \in Nat /\ ci[d] \in {0, 1}
  BY NodesAreChildren, LocFacts DEF Octant
<1>3. ASSUME NEW dir \in Direction PROVE found(dir) = NeighborOf(GetChild(n, ci), dir)
  <2> DEFINE t == towards(dir)
             o == other_child(dir)
             P == At(n, t)
  <2>1. ASSUME NEW d \in Dim
        PROVE  /\ o[d] \in {0, 1} /\ t[d] \in -1..1
               /\ 2 * (n.x[d] + t[d]) + o[d] = 2 * n.x[d] + ci[d] + dir[d]
               /\ (2 * (n.x[d] + t[d]) + o[d]) \div 2 = n.x[d] + t[d]
    <3>1. PICK y \in 1..4 : y = ci[d] + dir[d] + 2
      BY <1>2, Directions
    <3>2. o[d] = y % 2 /\ t[d] = y \div 2 - 1
      BY <3>1
    <3>3. y % 2 \in {0, 1} /\ y \div 2 - 1 \in -1..1 /\ y = 2 * (y \div 2) + (y % 2)
      OBVIOUS
    <3>4. ASSUME NEW z \in Int, NEW b \in {0, 1} PROVE (2 * z + b) \div 2 = z
      BY <3>4
    <3>5. n.x[d] + t[d] \in Int /\ dir[d] \in -1..1
      BY <1>2, <3>2, <3>3, Directions
    <3>6. 2 * (n.x[d] + t[d]) + o[d] = 2 * n.x[d] + ci[d] + dir[d]
      BY <1>2, <3>1, <3>2, <3>3, <3>5
    <3> HIDE DEF o, t
    <3> QED
      BY <3>2, <3>3, <3>4, <3>5, <3>6
  <2>2. o \in Octant
    BY <2>1 DEF Octant
  <2>3. t \in [Dim -> -1..1]
    BY <2>1
  <2> HIDE DEF o, t
  <2>4. /\ P.lev = n.lev /\ P = [lev |-> P.lev, x |-> P.x]
        /\ P.x = [d \in Dim |-> n.x[d] + t[d]]
    BY DEF At
  <2>5. At(GetChild(n, ci), dir) = GetChild(P, o)
    <3>1. [d \in Dim |-> GetChild(n, ci).x[d] + dir[d]] = [d \in Dim |-> 2 * P.x[d] + o[d]]
      <4>1. \A d \in Dim : GetChild(n, ci).x[d] = 2 * n.x[d] + ci[d]
        BY DEF GetChild
      <4> QED
        BY <2>1, <2>4, <4>1
    <3>2. GetChild(n, ci).lev = P.lev + 1
      BY <2>4 DEF GetChild
    <3> QED
      BY <3>1, <3>2 DEF At, GetChild
  <2>6. Parent(GetChild(P, o)) = P /\ GetChild(P, o) # Root
    <3>1. [d \in Dim |-> GetChild(P, o).x[d] \div 2] = P.x
      BY <2>1, <2>4 DEF GetChild
    <3>2. GetChild(P, o).lev - 1 = P.lev /\ GetChild(P, o).lev # 0
      BY <1>2, <2>4 DEF GetChild
    <3> QED
      BY <2>4, <3>1, <3>2 DEF Parent, Root
  <2> HIDE DEF P
  <2>7. GetChild(P, o) \in Nodes <=> P \in refined
    <3>1. ASSUME P \in refined PROVE GetChild(P, o) \in Nodes
      <4>1. P \in Loc /\ P.lev < MaxLevel
        BY <3>1 DEF GradedTree
      <4>2. GetChild(P, o) \in Loc
        BY <2>2, <4>1, ChildIsLoc
      <4> QED
        BY <2>6, <3>1, <4>2 DEF Nodes, Exists
    <3>2. ASSUME GetChild(P, o) \in Nodes PROVE P \in refined
      BY <2>6, <3>2 DEF Nodes, Exists
    <3> QED
      BY <3>1, <3>2
  <2>8. NeighborOf(GetChild(n, ci), dir) = IF P \in refined THEN GetChild(P, o) ELSE NoNode
    BY <2>5, <2>7 DEF NeighborOf
  <2>9. CASE \A d \in Dim : t[d] = 0
    <3>1. P = n
      <4>1. [d \in Dim |-> n.x[d] + t[d]] = [d \in Dim |-> n.x[d]]
        BY <1>2, <2>9
      <4> QED
        BY <1>2, <2>4, <4>1
    <3>2. found(dir) = GetChild(n, o)
      BY <2>9 DEF o, t
    <3> QED
      BY <2>8, <3>1, <3>2
  <2>10. CASE ~\A d \in Dim : t[d] = 0
    <3>1. t \in Direction
      <4>1. t # [d \in Dim |-> 0]
        BY <2>10
      <4> QED
        BY <2>3, <4>1 DEF Direction
    <3>2. AllNeighbors(n)[t] = IF P \in Nodes THEN P ELSE NoNode
      BY <3>1 DEF AllNeighbors, NeighborOf, P
    <3>3. found(dir) = GetChildClient(AllNeighbors(n)[t], o)
      BY <2>10 DEF o, t
    <3>4. NoNode \notin refined /\ refined \subseteq Nodes /\ NoNode \notin Nodes
      BY NodesAreChildren, FormationAssumption DEF Nodes
    <3> HIDE DEF found
    <3> QED
      BY <2>8, <3>2, <3>3, <3>4 DEF GetChildClient
  <2> QED
    BY <2>9, <2>10
<1> HIDE DEF found
<1> QED
  BY <1>1, <1>3 DEF AllNeighbors

-----------------------------------------------------------------------------
(* Back across a face one is where one was.                                *)
LEMMA BackAcross ==
  ASSUME NEW n \in Loc, NEW f \in Face
  PROVE  Beyond(Beyond(n, f), Flip(f)) = n
<1> DEFINE e(d) == ToDirection(f)[d]
           b(d) == ToDirection(Flip(f))[d]
<1>1. /\ n = [lev |-> n.lev, x |-> n.x] /\ n.x = [d \in Dim |-> n.x[d]]
      /\ \A d \in Dim : n.x[d] \in Nat
  BY LocFacts
<1>2. ASSUME NEW d \in Dim PROVE e(d) \in -1..1 /\ b(d) = -e(d)
  <2>1. /\ f[2] \in {0, 1} /\ Flip(f)[1] = f[1] /\ Flip(f)[2] = 1 - f[2]
    BY Directions
  <2>2. /\ e(d) = IF d # f[1] THEN 0 ELSE IF f[2] = 0 THEN -1 ELSE 1
        /\ b(d) = IF d # f[1] THEN 0 ELSE IF 1 - f[2] = 0 THEN -1 ELSE 1
    BY <2>1 DEF ToDirection
  <2> HIDE DEF e, b
  <2> QED
    BY <2>1, <2>2
<1>3. [d \in Dim |-> Beyond(n, f).x[d] + b(d)] = [d \in Dim |-> n.x[d]]
  <2>1. \A d \in Dim : Beyond(n, f).x[d] = n.x[d] + e(d)
    BY DEF Beyond, At
  <2> HIDE DEF e, b
  <2> QED
    BY <1>1, <1>2, <2>1
<1>4. Beyond(Beyond(n, f), Flip(f))
        = [lev |-> n.lev, x |-> [d \in Dim |-> Beyond(n, f).x[d] + b(d)]]
  BY DEF Beyond, At
<1> QED
  BY <1>1, <1>3, <1>4

(* What lies across a face of a node is its sibling's, if the node is on   *)
(* the other side of its parent, or belongs to what lies across that face  *)
(* of the parent.                                                          *)
LEMMA ParentAcross ==
  ASSUME NEW k \in Loc, NEW g \in Face
  PROVE  Parent(Beyond(k, g)) =
           IF OctantOf(k)[g[1]] = g[2] THEN Beyond(Parent(k), g) ELSE Parent(k)
<1> DEFINE e(d) == ToDirection(g)[d]
           same == OctantOf(k)[g[1]] = g[2]
<1>1. /\ k.lev \in Nat /\ \A d \in Dim : k.x[d] \in Nat
      /\ g[1] \in Dim /\ g[2] \in {0, 1}
  BY LocFacts, Directions
<1>2. \A d \in Dim : e(d) = IF d # g[1] THEN 0 ELSE IF g[2] = 0 THEN -1 ELSE 1
  BY DEF ToDirection
<1>3. same <=> k.x[g[1]] % 2 = g[2]
  BY <1>1 DEF OctantOf
<1> HIDE DEF e, same
<1>4. ASSUME NEW y \in Nat, NEW s \in {0, 1}, NEW i \in Int,
             i = IF s = 0 THEN -1 ELSE 1
      PROVE  (y + i) \div 2 = IF y % 2 = s THEN y \div 2 + i ELSE y \div 2
  BY <1>4
<1>5. ASSUME NEW d \in Dim
      PROVE  (k.x[d] + e(d)) \div 2 = IF same THEN k.x[d] \div 2 + e(d) ELSE k.x[d] \div 2
  <2>0. PICK y \in Nat : y = k.x[d]
    BY <1>1
  <2>1. CASE d # g[1]
    <3>1. e(d) = 0
      BY <1>2, <2>1
    <3> QED
      BY <2>0, <3>1
  <2>2. CASE d = g[1]
    <3>1. e(d) = IF g[2] = 0 THEN -1 ELSE 1
      BY <1>2, <2>2
    <3>2. e(d) \in Int
      BY <3>1
    <3>3. same <=> y % 2 = g[2]
      BY <1>3, <2>0, <2>2
    <3>4. (y + e(d)) \div 2 = IF y % 2 = g[2] THEN y \div 2 + e(d) ELSE y \div 2
      BY <1>1, <1>4, <3>1, <3>2
    <3> QED
      BY <2>0, <3>3, <3>4
  <2> QED
    BY <2>1, <2>2
<1>6. /\ Beyond(k, g).lev = k.lev
      /\ \A d \in Dim : Beyond(k, g).x[d] = k.x[d] + e(d)
  BY DEF Beyond, At, e
<1>7. Parent(Beyond(k, g))
        = [lev |-> k.lev - 1, x |-> [d \in Dim |-> (k.x[d] + e(d)) \div 2]]
  <2>1. [d \in Dim |-> Beyond(k, g).x[d] \div 2] = [d \in Dim |-> (k.x[d] + e(d)) \div 2]
    BY <1>6
  <2> QED
    BY <1>6, <2>1 DEF Parent
<1>8. Beyond(Parent(k), g) = [lev |-> k.lev - 1, x |-> [d \in Dim |-> k.x[d] \div 2 + e(d)]]
  <2>1. \A d \in Dim : Parent(k).x[d] = k.x[d] \div 2
    BY DEF Parent
  <2>2. [d \in Dim |-> Parent(k).x[d] + e(d)] = [d \in Dim |-> k.x[d] \div 2 + e(d)]
    BY <2>1
  <2> QED
    BY <2>2 DEF Beyond, At, Parent, e
<1>9. CASE same
  <2>1. [d \in Dim |-> (k.x[d] + e(d)) \div 2] = [d \in Dim |-> k.x[d] \div 2 + e(d)]
    BY <1>5, <1>9
  <2> QED
    BY <1>7, <1>8, <1>9, <2>1 DEF same
<1>10. CASE ~same
  <2>1. [d \in Dim |-> (k.x[d] + e(d)) \div 2] = [d \in Dim |-> k.x[d] \div 2]
    BY <1>5, <1>10
  <2> QED
    BY <1>7, <1>10, <2>1 DEF Parent, same
<1> QED
  BY <1>9, <1>10

(* A child is in its octant.                                               *)
LEMMA OctantOfChild ==
  ASSUME NEW n \in Loc, NEW ci \in Octant
  PROVE  \A d \in Dim : OctantOf(GetChild(n, ci))[d] = ci[d]
<1>1. \A d \in Dim : n.x[d] \in Nat /\ ci[d] \in {0, 1}
  BY LocFacts DEF Octant
<1>2. ASSUME NEW y \in Nat, NEW b \in {0, 1} PROVE (2 * y + b) % 2 = b
  BY <1>2
<1> QED
  BY <1>1, <1>2 DEF OctantOf, GetChild

(* What has a location for its parent, above the finest level, is one.     *)
LEMMA BelowIsLoc ==
  ASSUME NEW k \in Loc, NEW g \in Face,
         Parent(Beyond(k, g)) \in Loc, Parent(Beyond(k, g)).lev < MaxLevel
  PROVE  Beyond(k, g) \in Loc /\ Beyond(k, g) # Root
<1> DEFINE q == Beyond(k, g)
           a == Parent(q)
           ci == OctantOf(q)
<1>1. /\ q = [lev |-> k.lev, x |-> q.x] /\ q.x = [d \in Dim |-> q.x[d]]
      /\ k.lev \in Nat /\ q.lev = k.lev /\ \A d \in Dim : q.x[d] \in Int
  <2>1. \A d \in Dim : k.x[d] \in Nat /\ ToDirection(g)[d] \in -1..1
    BY LocFacts, Directions
  <2>2. q = [lev |-> k.lev, x |-> [d \in Dim |-> k.x[d] + ToDirection(g)[d]]]
    BY DEF Beyond, At
  <2> HIDE DEF q
  <2>3. q.x = [d \in Dim |-> k.x[d] + ToDirection(g)[d]]
    BY <2>2
  <2>4. \A d \in Dim : q.x[d] = k.x[d] + ToDirection(g)[d]
    BY <2>3
  <2>5. \A d \in Dim : q.x[d] \in Int
    BY <2>1, <2>4
  <2>6. q.x = [d \in Dim |-> q.x[d]]
    BY <2>3
  <2> QED
    BY <2>2, <2>5, <2>6, LocFacts
<1> HIDE DEF q
<1>0. ASSUME NEW y \in Int PROVE y % 2 \in {0, 1} /\ 2 * (y \div 2) + (y % 2) = y
  OBVIOUS
<1>2. \A d \in Dim : q.x[d] % 2 \in {0, 1} /\ 2 * (q.x[d] \div 2) + (q.x[d] % 2) = q.x[d]
  BY <1>0, <1>1
<1>3. ci \in Octant
  BY <1>2 DEF OctantOf, Octant
<1>4. q = GetChild(a, ci)
  <2>1. \A d \in Dim : a.x[d] = q.x[d] \div 2 /\ ci[d] = q.x[d] % 2
    BY DEF Parent, OctantOf
  <2>2. [d \in Dim |-> 2 * a.x[d] + ci[d]] = [d \in Dim |-> q.x[d]]
    BY <1>2, <2>1
  <2>3. a.lev + 1 = k.lev
    BY <1>1 DEF Parent
  <2> QED
    BY <1>1, <2>2, <2>3 DEF GetChild
<1> HIDE DEF a, ci
<1>5. a \in Loc /\ a.lev < MaxLevel
  BY DEF a, q
<1>6. q \in Loc /\ q # Root
  BY <1>3, <1>4, <1>5, ChildIsLoc
<1> QED
  BY <1>6 DEF q

(* A leaf's nieces across a face are just the nodes that have it for aunt. *)
LEMMA NiecesAndAunt ==
  ASSUME refined \subseteq Loc, GradedTree(refined),
         NEW a \in Nodes \ refined, NEW f \in Face, Beyond(a, f) \in refined,
         NEW k \in Nodes
  PROVE  k \in {GetChild(Beyond(a, f), ci) : ci \in FaceSubset(Flip(f))}
           <=> /\ Beyond(k, Flip(f)) \in Loc \ Nodes
               /\ Parent(Beyond(k, Flip(f))) = a
<1> DEFINE m == Beyond(a, f)
           g == Flip(f)
           q == Beyond(k, g)
<1>1. /\ a \in Loc /\ a.lev \in Nat /\ m \in Loc /\ m.lev = a.lev /\ m.lev < MaxLevel
      /\ k \in Loc /\ k.lev \in Nat /\ q.lev = k.lev
      /\ g \in Face /\ Flip(g) = f
  BY LocFacts, Directions DEF Nodes, GradedTree, Beyond, At
<1>2. Beyond(m, g) = a
  BY <1>1, BackAcross
<1>3. ASSUME NEW ci \in FaceSubset(g), k = GetChild(m, ci)
      PROVE  q \in Loc \ Nodes /\ Parent(q) = a
  <2>1. ci \in Octant /\ ci[g[1]] = g[2] /\ g[1] \in Dim
    BY <1>1, Directions DEF FaceSubset
  <2>2. Parent(k) = m /\ OctantOf(k)[g[1]] = g[2]
    BY <1>1, <1>3, <2>1, ChildIsLoc, OctantOfChild
  <2>3. Parent(q) = a
    BY <1>1, <1>2, <2>2, ParentAcross
  <2>4. q \in Loc /\ q # Root
    BY <1>1, <2>3, BelowIsLoc
  <2> QED
    BY <2>3, <2>4 DEF Nodes, Exists
<1>4. ASSUME q \in Loc \ Nodes, Parent(q) = a
      PROVE  k \in {GetChild(m, ci) : ci \in FaceSubset(g)}
  <2>1. q # Root /\ k # Root
    <3>1. Root \in Nodes
      BY NodesAreChildren
    <3>2. Parent(q).lev = q.lev - 1
      BY DEF Parent
    <3>3. a.lev = k.lev - 1
      BY <1>1, <1>4, <3>2
    <3>4. k.lev # 0
      BY <1>1, <3>3
    <3>5. k # Root
      BY <3>4 DEF Root
    <3> QED
      BY <1>4, <3>1, <3>5
  <2>2. Parent(k) \in refined
    BY <2>1 DEF Nodes, Exists
  <2>3. OctantOf(k)[g[1]] = g[2] /\ Beyond(Parent(k), g) = a
    BY <1>1, <1>4, <2>2, ParentAcross
  <2>4. Parent(k) = m
    BY <1>1, <2>2, <2>3, BackAcross
  <2>5. OctantOf(k) \in FaceSubset(g) /\ k = GetChild(m, OctantOf(k))
    BY <1>1, <2>1, <2>3, <2>4, IsItsChild DEF FaceSubset
  <2> QED
    BY <2>5
<1> QED
  BY <1>3, <1>4

(* Where a node has nothing beyond a face, inside the domain, there is a   *)
(* leaf, the neighbor of its parent.                                       *)
LEMMA AuntIsLeaf ==
  ASSUME refined \subseteq Loc, GradedTree(refined),
         NEW k \in Nodes, NEW g \in Face, Beyond(k, g) \in Loc \ Nodes
  PROVE  /\ Parent(Beyond(k, g)) \in Nodes \ refined
         /\ Beyond(Parent(Beyond(k, g)), Flip(g)) = Parent(k)
         /\ Parent(k) \in refined
<1> DEFINE q == Beyond(k, g)
<1>1. k \in Loc /\ q \in Loc /\ q \notin Nodes
  BY DEF Nodes
<1>2. q \in GetNeighbors[k]
  BY <1>1, AtIsNeighbor, Directions DEF Beyond
<1>3. k # Root /\ q # Root
  BY <1>1, <1>2, NeighborParents
<1>4. /\ Parent(k) \in refined
      /\ Parent(q) = Parent(k) \/ Parent(q) \in Around(Parent(k))
  BY <1>2, <1>3, ParentsExist
<1>5. Parent(q) \notin refined
  BY <1>1, <1>3 DEF Nodes, Exists
<1>6. Parent(q) \in Nodes
  <2>1. Parent(q) \in Around(Parent(k)) /\ Parent(q) \in Loc
    BY <1>1, <1>2, <1>4, <1>5, NeighborParents
  <2> QED
    BY <2>1 DEF Around, Nodes
<1>7. Parent(q) = Beyond(Parent(k), g)
  BY <1>1, <1>4, <1>5, ParentAcross
<1>8. Beyond(Parent(q), Flip(g)) = Parent(k)
  BY <1>4, <1>7, BackAcross
<1> QED
  BY <1>4, <1>5, <1>6, <1>8

-----------------------------------------------------------------------------
(* The invariant.  The calls that demand refinement stay among Candidates. *)
WithinInv == /\ refined \subseteq Candidates /\ flagged \subseteq Candidates
             /\ checked \subseteq Candidates

PhaseInv ==
  /\ phase \in {"check", "scatter", "form"} /\ regrids \in Nat
  /\ phase # "check" => regrids > 0
  /\ (phase # "check" \/ Restarting) =>
       flagged = {} /\ checked = {} /\ wished = {} /\ calls = {}
  /\ children \subseteq refined
  /\ ~aborted

(* What the registries hold in each phase.                                 *)
Entries(N) == {<<locality[n], n>> : n \in N}

RegistryInv ==
  CASE phase = "check" /\ regrids > 0 -> registry = Entries(Nodes \ Asked(checked))
    [] phase = "form" -> registry \subseteq Entries(Nodes)
    [] OTHER -> registry = {}

(* A node that form_tree has reached enters the registry.                  *)
Told(n) == <<locality[n], n>> \in registry

FamilyTypeOK ==
  /\ neighbors \in [Nodes -> [Direction -> Loc \cup {NoNode}]]
  /\ aunts \in [Nodes -> [Face -> Loc \cup {NoNode}]]
  /\ nieces \in [Nodes -> [Face -> Int]]

(* The calls on their way: a node that is not told yet is told next, or    *)
(* after its parent; a leaf that is told calls its nieces' parents.        *)
CallsInv ==
  /\ \A c \in forming :
       \/ \E n \in Nodes : c = FormCall(n) /\ ~Told(n) /\ (n = Root \/ Told(Parent(n)))
       \/ \E a \in Nodes \ refined, f \in Face :
            c = AuntCall(a, f) /\ Told(a) /\ Beyond(a, f) \in refined
  /\ \A n \in Nodes : Told(n) \/ FormCall(n) \in forming
                      \/ (n # Root /\ ~Told(Parent(n)))

NeighborsInv ==
  \A n \in Nodes : Told(n) => /\ neighbors[n] = AllNeighbors(n)
                             /\ (n = Root \/ Told(Parent(n)))

(* What is known across a face, while the calls of set_child_aunt are on   *)
(* their way.                                                              *)
NieceOf(n, f) == IF Beyond(n, f) \notin Nodes THEN -2
                 ELSE IF Beyond(n, f) \notin refined THEN -1
                 ELSE IF AuntCall(n, f) \in forming THEN 0 ELSE 1

AuntOf(n, f) ==
  LET a == Parent(Beyond(n, f))
  IN IF Beyond(n, f) \in Loc \ Nodes /\ Told(a) /\ AuntCall(a, Flip(f)) \notin forming
     THEN a ELSE NoNode

NieceInv == \A n \in Nodes \ refined : Told(n) => \A f \in Face : nieces[n][f] = NieceOf(n, f)
AuntInv == \A n \in Nodes : \A f \in Face : aunts[n][f] = AuntOf(n, f)

FormInv == FamilyTypeOK /\ CallsInv /\ NeighborsInv /\ NieceInv /\ AuntInv

TreeInv ==
  /\ GradedInv /\ WithinInv /\ PhaseInv /\ RegistryInv
  /\ phase = "form" => FormInv
  /\ NeighborsKnown /\ FluxPartners

-----------------------------------------------------------------------------
LEMMA TreeStarts == TreeInit => TreeInv
<1> SUFFICES ASSUME TreeInit PROVE TreeInv
  OBVIOUS
<1>1. refined \subseteq Candidates /\ refined \subseteq Loc /\ GradedTree(refined)
  BY LevelAssumption DEF TreeInit, GradedTree
<1>2. GradedInv
  BY <1>1 DEF TreeInit, GradedInv, FlagInv
<1>3. WithinInv /\ PhaseInv /\ RegistryInv
  BY <1>1 DEF TreeInit, WithinInv, PhaseInv, RegistryInv
<1>4. phase # "form" /\ NeighborsKnown /\ FluxPartners
  BY DEF TreeInit, NeighborsKnown, FluxPartners, Ready
<1> QED
  BY <1>2, <1>3, <1>4 DEF TreeInv

(* What a node demands of others leads to nodes that have a check.         *)
LEMMA CandidatesAreClosed ==
  ASSUME flagged \subseteq Candidates, NEW l, Wanted(l)
  PROVE  Parent(l) \in Candidates
BY CandidateAssumption DEF Wanted

LEMMA CheckKeepsTree ==
  ASSUME TreeInv, TreeCheck
  PROVE  TreeInv'
<1>1. /\ phase = "check" /\ ~Restarting /\ phase' = phase /\ regrids' = regrids
      /\ UNCHANGED <<children, locality, family, aborted>>
  BY DEF TreeCheck, Checked
<1>2. /\ refined' = refined /\ checked \subseteq checked'
      /\ GradedInv' /\ WithinInv'
      /\ registry' = {r \in registry : r[2] \notin Asked(checked')} \/ UNCHANGED <<registry, checked>>
  <2>1. ASSUME NEW n \in Candidates, Check(n),
               registry' = {r \in registry : r[2] \notin Asked(checked')}
        PROVE  <1>2!:
    <3>1. GradedInv'
      BY <2>1, CheckKeepsGraded DEF TreeInv
    <3>2. /\ refined' = refined /\ checked' = checked \cup {n}
          /\ flagged' \subseteq flagged \cup {n}
      BY <2>1 DEF Check
    <3> QED
      BY <2>1, <3>1, <3>2 DEF TreeInv, WithinInv
  <2>2. ASSUME NEW c \in calls, ForceNodesToExist(c), UNCHANGED registry
        PROVE  <1>2!:
    <3>1. GradedInv'
      BY <2>2, ForceKeepsGraded DEF TreeInv
    <3>2. refined' = refined /\ checked' = checked
      BY <2>2 DEF ForceNodesToExist
    <3>3. flagged' = flagged \/ (flagged' = flagged \cup {c.to} /\ c.to \in Candidates)
      <4>1. flagged' = IF {l \in c.locs : Parent(l) = c.to} # {}
                       THEN flagged \cup {c.to} ELSE flagged
        BY <2>2, ForceIsLocal DEF TreeInv
      <4>2. ASSUME NEW l \in c.locs, Parent(l) = c.to PROVE c.to \in Candidates
        BY <2>2, <4>2, CandidatesAreClosed DEF TreeInv, GradedInv, Near, WithinInv
      <4> QED
        BY <4>1, <4>2
    <3> QED
      BY <2>2, <3>1, <3>2, <3>3 DEF TreeInv, WithinInv
  <2> QED
    BY <2>1, <2>2 DEF TreeCheck, Checked
<1>3. Nodes' = Nodes
  BY <1>2 DEF Nodes, Exists
<1>4. PhaseInv'
  BY <1>1, <1>2 DEF TreeInv, PhaseInv, Restarting
<1>5. RegistryInv'
  <2>1. CASE regrids > 0
    <3>1. registry = Entries(Nodes \ Asked(checked))
      BY <1>1, <2>1 DEF TreeInv, RegistryInv
    <3>2. /\ Asked(checked)' = Asked(checked') /\ Asked(checked) \subseteq Asked(checked')
          /\ \A N : Entries(N)' = {<<locality[n], n>> : n \in N'}
      BY <1>1, <1>2, <1>3 DEF Asked, Entries
    <3>3. registry' = {<<locality[n], n>> : n \in Nodes \ Asked(checked')}
      <4>1. CASE registry' = {r \in registry : r[2] \notin Asked(checked')}
        <5>1. \A n : <<locality[n], n>>[2] = n
          OBVIOUS
        <5> QED
          BY <3>1, <3>2, <4>1, <5>1 DEF Entries
      <4>2. CASE UNCHANGED <<registry, checked>>
        BY <3>1, <4>2 DEF Entries
      <4> QED
        BY <1>2, <4>1, <4>2
    <3>4. registry' = Entries(Nodes \ Asked(checked))'
      BY <1>1, <1>3, <3>2, <3>3 DEF Entries
    <3> QED
      BY <1>1, <2>1, <3>4 DEF RegistryInv
  <2>2. CASE ~(regrids > 0)
    <3>1. registry = {}
      BY <1>1, <2>2 DEF TreeInv, RegistryInv
    <3>2. registry' = {}
      BY <1>2, <3>1
    <3> QED
      BY <1>1, <2>2, <3>2 DEF RegistryInv
  <2> QED
    BY <2>1, <2>2
<1>6. NeighborsKnown' /\ FluxPartners'
  BY <1>1, <1>2, <1>3 DEF TreeInv, NeighborsKnown, FluxPartners, Ready, family
<1> QED
  BY <1>1, <1>2, <1>4, <1>5, <1>6 DEF TreeInv

(* Every node has left the registries when the root starts to gather.      *)
LEMMA GatherKeepsTree ==
  ASSUME TreeInv, RegridGather
  PROVE  TreeInv'
<1>1. /\ phase = "check" /\ Gather /\ phase' = "scatter" /\ regrids' = regrids + 1
      /\ children' = children \cap refined'
      /\ registry' = {r \in registry : ~\E n \in Nodes \cap Nodes' : r = <<locality[n], n>>}
      /\ UNCHANGED aborted
  BY DEF RegridGather, VisitNodes
<1>2. GradedInv' /\ refined' = flagged
  BY <1>1, GatherKeepsGraded DEF TreeInv
<1>3. flagged' = {} /\ checked' = {} /\ wished' = {} /\ calls' = {}
  BY <1>1 DEF Gather
<1>4. WithinInv'
  BY <1>2, <1>3 DEF TreeInv, WithinInv
<1>5. PhaseInv'
  BY <1>1, <1>3 DEF TreeInv, PhaseInv
<1>6. registry = {}
  <2>1. ASSUME NEW n \in Nodes PROVE n \in Asked(checked)
    <3>1. \A k \in Candidates : k \in Nodes => k \in checked
      BY <1>1 DEF Gather, Nodes
    <3>2. CASE n \in Candidates
      BY <3>1, <3>2 DEF Asked
    <3>3. CASE n \notin Candidates
      <4>1. n # Root
        BY <3>3, CandidateAssumption
      <4>2. Parent(n) \in refined /\ Parent(n) \in Nodes
        BY <4>1, NodesAreChildren DEF TreeInv, GradedInv
      <4>3. Parent(n) \in Candidates
        BY <4>2 DEF TreeInv, WithinInv
      <4> QED
        BY <3>1, <3>3, <4>2, <4>3 DEF Asked
    <3> QED
      BY <3>2, <3>3
  <2>2. Entries(Nodes \ Asked(checked)) = {}
    BY <2>1 DEF Entries
  <2> QED
    BY <1>1, <2>2 DEF TreeInv, RegistryInv
<1>7. RegistryInv'
  BY <1>1, <1>6 DEF RegistryInv
<1>8. phase' # "form" /\ NeighborsKnown' /\ FluxPartners'
  BY <1>1 DEF NeighborsKnown, FluxPartners, Ready
<1> QED
  BY <1>2, <1>4, <1>5, <1>7, <1>8 DEF TreeInv

LEMMA RebalanceKeepsTree ==
  ASSUME TreeInv, Rebalance
  PROVE  TreeInv'
<1>1. /\ phase = "check" /\ Restarting /\ phase' = "scatter" /\ regrids' = regrids + 1
      /\ registry' = {} /\ UNCHANGED <<vars, children, aborted>>
  BY DEF Rebalance
<1>2. GradedInv'
  <2>1. GradedInv /\ UNCHANGED vars
    BY <1>1 DEF TreeInv
  <2> QED
    BY <2>1, StepKeepsGraded
<1>3. WithinInv' /\ PhaseInv'
  BY <1>1 DEF TreeInv, WithinInv, PhaseInv, vars
<1>4. RegistryInv'
  BY <1>1 DEF RegistryInv
<1>5. phase' # "form" /\ NeighborsKnown' /\ FluxPartners'
  BY <1>1 DEF NeighborsKnown, FluxPartners, Ready
<1> QED
  BY <1>2, <1>3, <1>4, <1>5 DEF TreeInv

(* The scattering leaves nobody told of anything, and one call to make.    *)
LEMMA ScatterKeepsTree ==
  ASSUME TreeInv, RegridScatter
  PROVE  TreeInv'
<1>1. /\ phase = "scatter" /\ phase' = "form"
      /\ registry' \subseteq registry /\ children' = children \cup refined
      /\ neighbors' = [n \in Nodes |-> NoNeighbors]
      /\ aunts' = [n \in Nodes |-> NoAunts]
      /\ nieces' = [n \in Nodes |-> NoNieces]
      /\ forming' = {[call |-> "form_tree", to |-> Root, neighbors |-> NoNeighbors]}
      /\ UNCHANGED <<vars, regrids, aborted>>
  BY DEF RegridScatter, PlaceNodes
<1>2. GradedInv'
  <2>1. GradedInv /\ UNCHANGED vars
    BY <1>1 DEF TreeInv
  <2> QED
    BY <2>1, StepKeepsGraded
<1>3. WithinInv' /\ PhaseInv'
  BY <1>1 DEF TreeInv, WithinInv, PhaseInv, vars
<1>4. registry' = {} /\ RegistryInv'
  BY <1>1 DEF TreeInv, RegistryInv
<1>5. /\ refined' = refined /\ Nodes' = Nodes
      /\ \A n : ~Told(n)'
      /\ \A n : FormCall(n)' = FormCall(n)
  BY <1>1, <1>4 DEF vars, Nodes, Exists, Told, FormCall, AllNeighbors, NeighborOf
<1>6. FormCall(Root) \in forming' /\ \A c \in forming' : c = FormCall(Root)
  BY <1>1, RootIsAlone DEF FormCall
<1>7. FamilyTypeOK'
  <2>1. /\ NoNeighbors \in [Direction -> Loc \cup {NoNode}]
        /\ NoAunts \in [Face -> Loc \cup {NoNode}]
        /\ NoNieces \in [Face -> Int]
    BY DEF NoNeighbors, NoAunts, NoNieces
  <2> QED
    BY <1>1, <1>5, <2>1 DEF FamilyTypeOK
<1>8. CallsInv'
  <2>0. Root \in Nodes /\ \A n \in Nodes : n # Root => Parent(n) \in Nodes
    BY NodesAreChildren DEF TreeInv, GradedInv
  <2>1. \A c \in forming' : \E n \in Nodes' :
            c = FormCall(n)' /\ ~Told(n)' /\ (n = Root \/ Told(Parent(n))')
    BY <1>5, <1>6, <2>0
  <2>2. \A n \in Nodes' : FormCall(n)' \in forming' \/ (n # Root /\ ~Told(Parent(n))')
    BY <1>5, <1>6, <2>0
  <2> QED
    BY <2>1, <2>2 DEF CallsInv
<1>9. NeighborsInv' /\ NieceInv'
  BY <1>5 DEF NeighborsInv, NieceInv
<1>10. AuntInv'
  <2>1. \A k : Told(k)' = FALSE
    BY <1>4 DEF Told
  <2>2. \A n \in Nodes', f \in Face : aunts'[n][f] = NoNode
    BY <1>1, <1>5 DEF NoAunts
  <2>3. \A n \in Nodes', f \in Face : AuntOf(n, f)' = NoNode
    BY <2>1 DEF AuntOf
  <2> QED
    BY <2>2, <2>3 DEF AuntInv
<1>11. NeighborsKnown' /\ FluxPartners'
  BY <1>1 DEF NeighborsKnown, FluxPartners, Ready
<1> QED
  BY <1>2, <1>3, <1>4, <1>7, <1>8, <1>9, <1>10, <1>11 DEF TreeInv, FormInv

-----------------------------------------------------------------------------
(* The calls, told from one another.                                       *)
LEMMA CallsDiffer ==
  /\ \A n : /\ FormCall(n).call = "form_tree" /\ FormCall(n).to = n
            /\ FormCall(n).neighbors = AllNeighbors(n)
  /\ \A a, f : /\ AuntCall(a, f).call = "set_child_aunt" /\ AuntCall(a, f).to = Beyond(a, f)
               /\ AuntCall(a, f).aunt = a /\ AuntCall(a, f).face = Flip(f)
  /\ \A n, a, f : FormCall(n) # AuntCall(a, f)
  /\ \A n, m : FormCall(n) = FormCall(m) => n = m
  /\ \A a, b : \A f, g \in Face : AuntCall(a, f) = AuntCall(b, g) => a = b /\ f = g
<1>1. \A n : /\ FormCall(n).call = "form_tree" /\ FormCall(n).to = n
             /\ FormCall(n).neighbors = AllNeighbors(n)
  BY DEF FormCall
<1>2. \A a, f : /\ AuntCall(a, f).call = "set_child_aunt" /\ AuntCall(a, f).to = Beyond(a, f)
                /\ AuntCall(a, f).aunt = a /\ AuntCall(a, f).face = Flip(f)
  BY DEF AuntCall
<1>3. \A n, a, f : FormCall(n) # AuntCall(a, f)
  <2>1. "form_tree" # "set_child_aunt"
    OBVIOUS
  <2> QED
    BY <1>1, <1>2, <2>1
<1>4. ASSUME NEW a, NEW b, NEW f \in Face, NEW g \in Face, AuntCall(a, f) = AuntCall(b, g)
      PROVE  a = b /\ f = g
  <2>1. a = b /\ Flip(f) = Flip(g)
    BY <1>2, <1>4
  <2>2. f = g
    BY <2>1, Directions
  <2> QED
    BY <2>1, <2>2
<1>5. ASSUME NEW n, NEW m, FormCall(n) = FormCall(m) PROVE n = m
  BY <1>1, <1>5
<1> QED
  BY <1>1, <1>2, <1>3, <1>4, <1>5

(* What every call of form_tree and set_child_aunt leaves alone.           *)
LEMMA FormFrame ==
  ASSUME TreeInv, phase = "form", UNCHANGED <<vars, phase, regrids, children, locality>>
  PROVE  /\ FormInv /\ refined \subseteq Loc /\ GradedTree(refined)
         /\ children \subseteq refined /\ ~aborted
         /\ Nodes' = Nodes /\ refined' = refined
         /\ \A n : FormCall(n)' = FormCall(n) /\ AllNeighbors(n)' = AllNeighbors(n)
         /\ ~aborted' /\ registry' \subseteq Entries(Nodes) /\ FormInv' => TreeInv'
<1>1. FormInv /\ GradedInv /\ refined \subseteq Loc /\ GradedTree(refined)
  BY DEF TreeInv, GradedInv
<1>2. children \subseteq refined /\ ~aborted
  BY DEF TreeInv, PhaseInv
<1>3. refined' = refined /\ Nodes' = Nodes
  BY DEF vars, Nodes, Exists
<1>4. \A n : FormCall(n)' = FormCall(n) /\ AllNeighbors(n)' = AllNeighbors(n)
  BY <1>3 DEF FormCall, AllNeighbors, NeighborOf
<1>5. GradedInv'
  BY <1>1, StepKeepsGraded
<1>6. \A N : Entries(N)' = {<<locality[n], n>> : n \in N'}
  BY DEF Entries
<1>7. ASSUME ~aborted', registry' \subseteq Entries(Nodes), FormInv' PROVE TreeInv'
  <2>1. WithinInv' /\ PhaseInv'
    BY <1>7 DEF TreeInv, WithinInv, PhaseInv, vars
  <2>2. Entries(Nodes)' = Entries(Nodes)
    BY <1>3, <1>6 DEF Entries
  <2>3. RegistryInv'
    BY <1>7, <2>2 DEF RegistryInv
  <2>4. NeighborsKnown' /\ FluxPartners'
    BY DEF NeighborsKnown, FluxPartners, Ready
  <2> QED
    BY <1>5, <1>7, <2>1, <2>3, <2>4 DEF TreeInv
<1> QED
  BY <1>1, <1>2, <1>3, <1>4, <1>7

(* A call of form_tree on its way is the one for a node that is next.      *)
LEMMA FormCallIsNext ==
  ASSUME FormInv, NEW c \in forming, c.call = "form_tree"
  PROVE  /\ c.to \in Nodes /\ c = FormCall(c.to) /\ ~Told(c.to)
         /\ c.neighbors = AllNeighbors(c.to)
         /\ c.to = Root \/ Told(Parent(c.to))
<1>1. \A a, f : c # AuntCall(a, f)
  BY CallsDiffer
<1>2. PICK n \in Nodes : c = FormCall(n) /\ ~Told(n) /\ (n = Root \/ Told(Parent(n)))
  BY <1>1 DEF FormInv, CallsInv
<1>3. c.to = n /\ c.neighbors = AllNeighbors(n)
  BY <1>2, CallsDiffer
<1> QED
  BY <1>2, <1>3

(* The node that is told enters the registry, and no other.                *)
LEMMA OneMoreTold ==
  ASSUME NEW n \in Nodes, registry' = registry \cup {<<locality[n], n>>},
         locality' = locality, registry \subseteq Entries(Nodes)
  PROVE  /\ \A k : Told(k)' <=> Told(k) \/ k = n
         /\ registry' \subseteq Entries(Nodes)
<1>1. ASSUME NEW k PROVE Told(k)' <=> Told(k) \/ k = n
  BY DEF Told
<1>2. registry' \subseteq Entries(Nodes)
  BY DEF Entries
<1> QED
  BY <1>1, <1>2

(* A refined node tells its children: what it finds around them is right,  *)
(* and they have been told nothing before.                                 *)
LEMMA RefinedKeepsTree ==
  ASSUME TreeInv, phase = "form", NEW c \in forming, FormRefined(c)
  PROVE  TreeInv'
<1> DEFINE n == c.to
<1>1. /\ c.call = "form_tree" /\ n \in refined
      /\ neighbors' = [neighbors EXCEPT ![n] = c.neighbors]
      /\ nieces' = [nieces EXCEPT ![n] = NoNieces]
      /\ registry' = registry \cup {<<locality[n], n>>}
      /\ UNCHANGED <<vars, phase, regrids, children, locality, aunts, aborted>>
  BY DEF FormRefined, CallChildren
<1>2. /\ FormInv /\ refined \subseteq Loc /\ GradedTree(refined) /\ ~aborted
      /\ Nodes' = Nodes /\ refined' = refined
      /\ \A k : FormCall(k)' = FormCall(k) /\ AllNeighbors(k)' = AllNeighbors(k)
      /\ ~aborted' /\ registry' \subseteq Entries(Nodes) /\ FormInv' => TreeInv'
  BY <1>1, FormFrame
<1>3. /\ n \in Nodes /\ c = FormCall(n) /\ ~Told(n)
      /\ c.neighbors = AllNeighbors(n) /\ (n = Root \/ Told(Parent(n)))
  BY <1>1, <1>2, FormCallIsNext
<1>4. forming' = (forming \ {c}) \cup {FormCall(k) : k \in Children(n)}
  <2>1. \A ci \in Octant :
          [call |-> "form_tree", to |-> GetChild(n, ci),
           neighbors |-> ChildNeighbors(n, c.neighbors, ci)] = FormCall(GetChild(n, ci))
    BY <1>1, <1>2, <1>3, ChildNeighborsAreRight DEF FormCall
  <2>2. forming' = (forming \ {c}) \cup
          {[call |-> "form_tree", to |-> GetChild(n, ci),
            neighbors |-> ChildNeighbors(n, c.neighbors, ci)] : ci \in Octant}
    BY DEF FormRefined, CallChildren
  <2> QED
    BY <2>1, <2>2 DEF Children
<1> HIDE DEF n
<1>5. /\ \A k : Told(k)' <=> Told(k) \/ k = n
      /\ registry' \subseteq Entries(Nodes)
  BY <1>1, <1>2, <1>3, OneMoreTold DEF TreeInv, RegistryInv
<1>6. /\ \A k \in Children(n) : k \in Nodes /\ k # Root /\ Parent(k) = n
      /\ \A k \in Nodes \ {Root} : Parent(k) \in refined /\ k \in Children(Parent(k))
  BY <1>1, <1>2, <1>3, NodesAreChildren
<1>7. \A k \in Children(n) : ~Told(k) /\ k # n
  <2>1. \A k \in Children(n) : ~Told(k)
    BY <1>2, <1>3, <1>6 DEF FormInv, NeighborsInv
  <2>2. \A k \in Children(n) : k.lev = n.lev + 1
    BY DEF Children, GetChild
  <2>3. n.lev \in Nat
    BY <1>1, <1>2, LocFacts
  <2> QED
    BY <2>1, <2>2, <2>3
<1>8. \A a, f : AuntCall(a, f) \in forming' <=> AuntCall(a, f) \in forming
  BY <1>3, <1>4, CallsDiffer
<1>9. FamilyTypeOK'
  <2>1. AllNeighbors(n) \in [Direction -> Loc \cup {NoNode}] /\ NoNieces \in [Face -> Int]
    BY DEF AllNeighbors, NeighborOf, Nodes, NoNieces
  <2> QED
    BY <1>1, <1>2, <1>3, <2>1 DEF FamilyTypeOK, FormInv
<1>10. CallsInv'
  <2>1. ASSUME NEW d \in forming'
        PROVE  \/ \E k \in Nodes : d = FormCall(k) /\ ~Told(k)' /\ (k = Root \/ Told(Parent(k))')
               \/ \E a \in Nodes \ refined, f \in Face :
                    d = AuntCall(a, f) /\ Told(a)' /\ Beyond(a, f) \in refined
    <3>1. CASE d \in forming \ {c}
      <4>1. CASE \E k \in Nodes : d = FormCall(k) /\ ~Told(k) /\ (k = Root \/ Told(Parent(k)))
        BY <1>3, <1>5, <3>1, <4>1
      <4>2. CASE \E a \in Nodes \ refined, f \in Face :
                    d = AuntCall(a, f) /\ Told(a) /\ Beyond(a, f) \in refined
        BY <1>5, <4>2
      <4> QED
        BY <1>2, <3>1, <4>1, <4>2 DEF FormInv, CallsInv
    <3>2. CASE d \in {FormCall(k) : k \in Children(n)}
      <4>1. PICK k \in Children(n) : d = FormCall(k)
        BY <3>2
      <4> QED
        BY <1>5, <1>6, <1>7, <4>1
    <3> QED
      BY <1>4, <2>1, <3>1, <3>2
  <2>2. ASSUME NEW k \in Nodes, ~Told(k)', FormCall(k) \notin forming'
        PROVE  k # Root /\ ~Told(Parent(k))'
    <3>1. ~Told(k) /\ k # n /\ FormCall(k) # c
      BY <1>3, <1>5, <2>2, CallsDiffer
    <3>2. FormCall(k) \notin forming /\ k \notin Children(n)
      BY <1>4, <2>2, <3>1
    <3>3. k # Root /\ ~Told(Parent(k))
      BY <1>2, <3>1, <3>2 DEF FormInv, CallsInv
    <3>4. Parent(k) # n
      BY <1>6, <3>2, <3>3
    <3> QED
      BY <1>5, <3>3, <3>4
  <2> QED
    BY <1>2, <2>1, <2>2 DEF CallsInv
<1>11. NeighborsInv'
  <2>1. neighbors'[n] = AllNeighbors(n) /\ \A k \in Nodes : k # n => neighbors'[k] = neighbors[k]
    BY <1>1, <1>2, <1>3 DEF FormInv, FamilyTypeOK
  <2>2. ASSUME NEW k \in Nodes, Told(k)'
        PROVE  neighbors'[k] = AllNeighbors(k) /\ (k = Root \/ Told(Parent(k))')
    BY <1>2, <1>3, <1>5, <2>1, <2>2 DEF FormInv, NeighborsInv
  <2> QED
    BY <1>2, <2>2 DEF NeighborsInv
<1>12. NieceInv'
  <2>1. \A k \in Nodes \ refined : nieces'[k] = nieces[k] /\ (Told(k)' <=> Told(k))
    BY <1>1, <1>2, <1>5 DEF FormInv, FamilyTypeOK
  <2>2. \A k, f : NieceOf(k, f)' = NieceOf(k, f)
    BY <1>2, <1>8 DEF NieceOf
  <2> QED
    BY <1>2, <2>1, <2>2 DEF NieceInv, FormInv
<1>13. AuntInv'
  <2>1. ASSUME NEW k, NEW f PROVE AuntOf(k, f)' = AuntOf(k, f)
    <3>1. Beyond(k, f) \in Loc \ Nodes => Parent(Beyond(k, f)) # n
      BY <1>1 DEF Nodes, Exists
    <3> QED
      BY <1>2, <1>5, <1>8, <3>1 DEF AuntOf
  <2> QED
    BY <1>1, <1>2, <2>1 DEF AuntInv, FormInv
<1> QED
  BY <1>1, <1>2, <1>5, <1>9, <1>10, <1>11, <1>12, <1>13 DEF FormInv

(* A leaf that is told makes the calls to its nieces' parents: until they  *)
(* have been handled it is nobody's aunt.                                  *)
LEMMA LeafKeepsTree ==
  ASSUME TreeInv, phase = "form", NEW c \in forming, FormLeaf(c)
  PROVE  TreeInv'
<1> DEFINE n == c.to
           beyond(f) == c.neighbors[ToDirection(f)]
           Made == {AuntCall(n, f) : f \in {f \in Face : Beyond(n, f) \in refined}}
<1>1. /\ c.call = "form_tree" /\ n \notin refined
      /\ neighbors' = [neighbors EXCEPT ![n] = c.neighbors]
      /\ registry' = registry \cup {<<locality[n], n>>}
      /\ nieces' = [nieces EXCEPT ![n] = [f \in Face |->
           IF beyond(f) = NoNode THEN -2 ELSE IF beyond(f) \in refined THEN 0 ELSE -1]]
      /\ aborted' = (aborted \/ \E f \in Face : beyond(f) \in children \ refined)
      /\ forming' = (forming \ {c}) \cup
           {[call |-> "set_child_aunt", to |-> beyond(f), aunt |-> n, face |-> Flip(f)] :
              f \in {f \in Face : beyond(f) \in refined}}
      /\ UNCHANGED <<vars, phase, regrids, children, locality, aunts>>
  BY DEF FormLeaf, LeafCalls
<1>2. /\ FormInv /\ refined \subseteq Loc /\ GradedTree(refined)
      /\ children \subseteq refined /\ ~aborted
      /\ Nodes' = Nodes /\ refined' = refined
      /\ \A k : FormCall(k)' = FormCall(k) /\ AllNeighbors(k)' = AllNeighbors(k)
      /\ ~aborted' /\ registry' \subseteq Entries(Nodes) /\ FormInv' => TreeInv'
  BY <1>1, FormFrame
<1>3. /\ n \in Nodes \ refined /\ c = FormCall(n) /\ ~Told(n)
      /\ c.neighbors = AllNeighbors(n) /\ (n = Root \/ Told(Parent(n)))
  BY <1>1, <1>2, FormCallIsNext
<1>4. /\ NoNode \notin refined /\ NoNode \notin Nodes /\ refined \subseteq Nodes
      /\ \A f \in Face : /\ beyond(f) = IF Beyond(n, f) \in Nodes THEN Beyond(n, f) ELSE NoNode
                         /\ beyond(f) \in refined <=> Beyond(n, f) \in refined
  <2>1. NoNode \notin Nodes /\ refined \subseteq Nodes
    BY <1>2, FormationAssumption, NodesAreChildren DEF Nodes
  <2>2. \A f \in Face : beyond(f) = IF Beyond(n, f) \in Nodes THEN Beyond(n, f) ELSE NoNode
    BY <1>3, Directions DEF AllNeighbors, NeighborOf, Beyond
  <2> QED
    BY <2>1, <2>2
<1>5. forming' = (forming \ {c}) \cup Made /\ ~aborted'
  <2>1. \A f \in Face : beyond(f) \in refined =>
          [call |-> "set_child_aunt", to |-> beyond(f), aunt |-> n, face |-> Flip(f)]
            = AuntCall(n, f)
    BY <1>4 DEF AuntCall
  <2>2. {[call |-> "set_child_aunt", to |-> beyond(f), aunt |-> n, face |-> Flip(f)] :
              f \in {f \in Face : beyond(f) \in refined}} = Made
    BY <1>4, <2>1
  <2>3. ~aborted'
    BY <1>1, <1>2
  <2> QED
    BY <1>1, <2>2, <2>3
<1>6. \A f \in Face : nieces'[n][f] = IF Beyond(n, f) \notin Nodes THEN -2
                                     ELSE IF Beyond(n, f) \in refined THEN 0 ELSE -1
  <2>1. nieces'[n] = [f \in Face |->
           IF beyond(f) = NoNode THEN -2 ELSE IF beyond(f) \in refined THEN 0 ELSE -1]
    BY <1>1, <1>2, <1>3 DEF FormInv, FamilyTypeOK
  <2> HIDE DEF beyond
  <2> QED
    BY <1>4, <2>1
<1>7. \A k \in Nodes : k # n => nieces'[k] = nieces[k] /\ neighbors'[k] = neighbors[k]
  BY <1>1, <1>2 DEF FormInv, FamilyTypeOK
<1>8. neighbors'[n] = AllNeighbors(n)
  BY <1>1, <1>2, <1>3 DEF FormInv, FamilyTypeOK
<1>9. FamilyTypeOK'
  <2>1. AllNeighbors(n) \in [Direction -> Loc \cup {NoNode}]
    BY DEF AllNeighbors, NeighborOf, Nodes
  <2>2. [f \in Face |-> IF beyond(f) = NoNode THEN -2
                        ELSE IF beyond(f) \in refined THEN 0 ELSE -1] \in [Face -> Int]
    OBVIOUS
  <2> HIDE DEF beyond
  <2> QED
    BY <1>1, <1>2, <1>3, <2>1, <2>2 DEF FamilyTypeOK, FormInv
<1> HIDE DEF n, beyond
<1>10. /\ \A k : Told(k)' <=> Told(k) \/ k = n
       /\ registry' \subseteq Entries(Nodes)
  BY <1>1, <1>2, <1>3, OneMoreTold DEF TreeInv, RegistryInv
<1>11. /\ \A a, f : a # n => (AuntCall(a, f) \in forming' <=> AuntCall(a, f) \in forming)
       /\ \A f \in Face : AuntCall(n, f) \in forming' <=> Beyond(n, f) \in refined
       /\ \A k : FormCall(k) \in forming' <=> FormCall(k) \in forming /\ k # n
  <2>1. \A a, f : AuntCall(a, f) \in Made => a = n
    BY CallsDiffer
  <2>2. \A f \in Face : AuntCall(n, f) \notin forming
    <3>1. ASSUME NEW f \in Face, AuntCall(n, f) \in forming PROVE FALSE
      <4>1. \A k : AuntCall(n, f) # FormCall(k)
        BY CallsDiffer
      <4>2. PICK a \in Nodes \ refined, g \in Face : AuntCall(n, f) = AuntCall(a, g) /\ Told(a)
        BY <1>2, <3>1, <4>1 DEF FormInv, CallsInv
      <4>3. a = n
        BY <4>2, CallsDiffer
      <4> QED
        BY <1>3, <4>2, <4>3
    <3> QED
      BY <3>1
  <2>3. \A f \in Face : AuntCall(n, f) \in Made <=> Beyond(n, f) \in refined
    BY CallsDiffer
  <2>4. \A k : FormCall(k) \notin Made
    BY CallsDiffer
  <2> HIDE DEF Made
  <2> QED
    BY <1>3, <1>5, <2>1, <2>2, <2>3, <2>4, CallsDiffer
<1>12. CallsInv'
  <2>1. ASSUME NEW d \in forming'
        PROVE  \/ \E k \in Nodes : d = FormCall(k) /\ ~Told(k)' /\ (k = Root \/ Told(Parent(k))')
               \/ \E a \in Nodes \ refined, f \in Face :
                    d = AuntCall(a, f) /\ Told(a)' /\ Beyond(a, f) \in refined
    <3>1. CASE d \in forming \ {c}
      <4>1. CASE \E k \in Nodes : d = FormCall(k) /\ ~Told(k) /\ (k = Root \/ Told(Parent(k)))
        BY <1>3, <1>10, <3>1, <4>1
      <4>2. CASE \E a \in Nodes \ refined, f \in Face :
                    d = AuntCall(a, f) /\ Told(a) /\ Beyond(a, f) \in refined
        BY <1>10, <4>2
      <4> QED
        BY <1>2, <3>1, <4>1, <4>2 DEF FormInv, CallsInv
    <3>2. CASE d \in Made
      <4>1. PICK f \in Face : d = AuntCall(n, f) /\ Beyond(n, f) \in refined
        BY <3>2
      <4> QED
        BY <1>3, <1>10, <4>1
    <3> QED
      BY <1>5, <2>1, <3>1, <3>2
  <2>2. ASSUME NEW k \in Nodes, ~Told(k)', FormCall(k) \notin forming'
        PROVE  k # Root /\ ~Told(Parent(k))'
    <3>1. ~Told(k) /\ k # n /\ FormCall(k) \notin forming
      BY <1>10, <1>11, <2>2
    <3>2. k # Root /\ ~Told(Parent(k))
      BY <1>2, <3>1 DEF FormInv, CallsInv
    <3>3. Parent(k) # n
      BY <1>2, <1>3, <3>2, NodesAreChildren
    <3> QED
      BY <1>10, <3>2, <3>3
  <2> QED
    BY <1>2, <2>1, <2>2 DEF CallsInv
<1>13. NeighborsInv'
  <2>1. ASSUME NEW k \in Nodes, Told(k)'
        PROVE  neighbors'[k] = AllNeighbors(k) /\ (k = Root \/ Told(Parent(k))')
    BY <1>2, <1>3, <1>7, <1>8, <1>10, <2>1 DEF FormInv, NeighborsInv
  <2> QED
    BY <1>2, <2>1 DEF NeighborsInv
<1>14. NieceInv'
  <2>1. ASSUME NEW k \in Nodes \ refined, Told(k)', NEW f \in Face
        PROVE  nieces'[k][f] = NieceOf(k, f)'
    <3>0. NieceOf(k, f)' = IF Beyond(k, f) \notin Nodes THEN -2
                           ELSE IF Beyond(k, f) \notin refined THEN -1
                           ELSE IF AuntCall(k, f) \in forming' THEN 0 ELSE 1
      BY <1>2 DEF NieceOf
    <3>1. CASE k = n
      BY <1>4, <1>6, <1>11, <3>0, <3>1
    <3>2. CASE k # n
      <4>1. nieces'[k][f] = NieceOf(k, f)
        BY <1>2, <1>7, <1>10, <2>1, <3>2 DEF FormInv, NieceInv
      <4> QED
        BY <1>11, <3>0, <3>2, <4>1 DEF NieceOf
    <3> QED
      BY <3>1, <3>2
  <2> QED
    BY <1>2, <2>1 DEF NieceInv
<1>15. AuntInv'
  <2>1. ASSUME NEW k \in Nodes, NEW f \in Face PROVE AuntOf(k, f)' = AuntOf(k, f)
    <3> DEFINE a == Parent(Beyond(k, f))
    <3>1. CASE Beyond(k, f) \in Loc \ Nodes /\ a = n
      <4>1. Beyond(n, Flip(f)) \in refined /\ Flip(f) \in Face
        BY <1>2, <3>1, AuntIsLeaf, Directions
      <4>2. AuntCall(a, Flip(f)) \in forming' /\ ~Told(a)
        BY <1>3, <1>11, <3>1, <4>1
      <4> QED
        BY <4>2 DEF AuntOf
    <3>2. CASE ~(Beyond(k, f) \in Loc \ Nodes /\ a = n)
      BY <1>2, <1>10, <1>11, <3>2 DEF AuntOf
    <3> QED
      BY <3>1, <3>2
  <2> QED
    BY <1>1, <1>2, <2>1 DEF AuntInv, FormInv
<1> QED
  BY <1>2, <1>5, <1>9, <1>10, <1>12, <1>13, <1>14, <1>15 DEF FormInv

(* A leaf becomes the aunt of its nieces across one face: they had none.   *)
LEMMA AuntKeepsTree ==
  ASSUME TreeInv, phase = "form", NEW c \in forming, SetChildAunt(c)
  PROVE  TreeInv'
<1> DEFINE nieces_ == {GetChild(c.to, ci) : ci \in FaceSubset(c.face)}
<1>1. /\ c.call = "set_child_aunt"
      /\ aborted' = (aborted \/ \E m \in nieces_ : aunts[m][c.face] # NoNode)
      /\ aunts' = [n \in DOMAIN aunts |->
                     IF n \in nieces_ THEN [aunts[n] EXCEPT ![c.face] = c.aunt] ELSE aunts[n]]
      /\ nieces' = [nieces EXCEPT ![c.aunt][Flip(c.face)] = 1]
      /\ forming' = forming \ {c}
      /\ UNCHANGED <<vars, phase, regrids, children, locality, registry, neighbors>>
  BY DEF SetChildAunt
<1>2. /\ FormInv /\ refined \subseteq Loc /\ GradedTree(refined)
      /\ children \subseteq refined /\ ~aborted
      /\ Nodes' = Nodes /\ refined' = refined
      /\ \A k : FormCall(k)' = FormCall(k) /\ AllNeighbors(k)' = AllNeighbors(k)
      /\ ~aborted' /\ registry' \subseteq Entries(Nodes) /\ FormInv' => TreeInv'
  BY <1>1, FormFrame
<1>3. PICK a \in Nodes \ refined, f \in Face :
        c = AuntCall(a, f) /\ Told(a) /\ Beyond(a, f) \in refined
  <2>1. \A n : c # FormCall(n)
    BY <1>1, CallsDiffer
  <2> QED
    BY <1>2, <2>1 DEF FormInv, CallsInv
<1>4. /\ c.to = Beyond(a, f) /\ c.aunt = a /\ c.face = Flip(f)
      /\ Flip(f) \in Face /\ Flip(c.face) = f /\ a \in Nodes /\ a \in Loc
  BY <1>3, CallsDiffer, Directions DEF Nodes
<1>5. \A k \in Nodes : k \in nieces_ <=> /\ Beyond(k, Flip(f)) \in Loc \ Nodes
                                       /\ Parent(Beyond(k, Flip(f))) = a
  BY <1>2, <1>3, <1>4, NiecesAndAunt
<1>6. nieces_ \subseteq Nodes
  <2>1. Children(Beyond(a, f)) \subseteq Nodes
    BY <1>2, <1>3, NodesAreChildren
  <2> QED
    BY <1>4, <2>1 DEF Children, FaceSubset
<1> HIDE DEF nieces_
<1>7. \A k : Told(k)' <=> Told(k)
  BY <1>1 DEF Told
<1>8. \A b : \A g \in Face :
         AuntCall(b, g) \in forming' <=> AuntCall(b, g) \in forming /\ ~(b = a /\ g = f)
  BY <1>1, <1>3, CallsDiffer
<1>9. \A k : FormCall(k) \in forming' <=> FormCall(k) \in forming
  BY <1>1, <1>3, CallsDiffer
<1>10. ~aborted'
  <2>1. ASSUME NEW k \in nieces_ PROVE aunts[k][c.face] = NoNode
    <3>1. AuntOf(k, Flip(f)) = NoNode
      BY <1>3, <1>4, <1>5, <1>6, <2>1 DEF AuntOf
    <3> QED
      BY <1>2, <1>4, <1>6, <2>1, <3>1 DEF FormInv, AuntInv
  <2> QED
    BY <1>1, <1>2, <2>1
<1>11. /\ \A k \in Nodes : \A g \in Face :
            aunts'[k][g] = IF k \in nieces_ /\ g = Flip(f) THEN a ELSE aunts[k][g]
       /\ aunts' \in [Nodes -> [Face -> Loc \cup {NoNode}]]
  <2>1. aunts \in [Nodes -> [Face -> Loc \cup {NoNode}]] /\ DOMAIN aunts = Nodes
    BY <1>2 DEF FormInv, FamilyTypeOK
  <2>2. \A k \in Nodes : [aunts[k] EXCEPT ![c.face] = c.aunt] \in [Face -> Loc \cup {NoNode}]
    BY <1>4, <2>1
  <2> QED
    BY <1>1, <1>4, <2>1, <2>2
<1>12. /\ \A k \in Nodes : \A g \in Face :
            nieces'[k][g] = IF k = a /\ g = f THEN 1 ELSE nieces[k][g]
       /\ nieces' \in [Nodes -> [Face -> Int]]
  <2>1. nieces \in [Nodes -> [Face -> Int]]
    BY <1>2 DEF FormInv, FamilyTypeOK
  <2> QED
    BY <1>1, <1>4, <2>1
<1>13. FamilyTypeOK'
  BY <1>1, <1>2, <1>11, <1>12 DEF FormInv, FamilyTypeOK
<1>14. CallsInv'
  <2>1. ASSUME NEW d \in forming'
        PROVE  \/ \E k \in Nodes : d = FormCall(k) /\ ~Told(k)' /\ (k = Root \/ Told(Parent(k))')
               \/ \E b \in Nodes \ refined, g \in Face :
                    d = AuntCall(b, g) /\ Told(b)' /\ Beyond(b, g) \in refined
    <3>1. d \in forming
      BY <1>1, <2>1
    <3>2. \/ \E k \in Nodes : d = FormCall(k) /\ ~Told(k) /\ (k = Root \/ Told(Parent(k)))
          \/ \E b \in Nodes \ refined, g \in Face :
               d = AuntCall(b, g) /\ Told(b) /\ Beyond(b, g) \in refined
      BY <1>2, <3>1 DEF FormInv, CallsInv
    <3> QED
      BY <1>7, <3>2
  <2>2. \A k \in Nodes : \/ Told(k)' \/ FormCall(k) \in forming'
                        \/ (k # Root /\ ~Told(Parent(k))')
    BY <1>2, <1>7, <1>9 DEF FormInv, CallsInv
  <2> QED
    BY <1>2, <2>1, <2>2 DEF CallsInv
<1>15. NeighborsInv'
  BY <1>1, <1>2, <1>7 DEF FormInv, NeighborsInv
<1>16. NieceInv'
  <2>1. ASSUME NEW k \in Nodes \ refined, Told(k), NEW g \in Face
        PROVE  nieces'[k][g] = NieceOf(k, g)'
    <3>1. NieceOf(k, g)' = IF Beyond(k, g) \notin Nodes THEN -2
                           ELSE IF Beyond(k, g) \notin refined THEN -1
                           ELSE IF AuntCall(k, g) \in forming' THEN 0 ELSE 1
      BY <1>2 DEF NieceOf
    <3>2. nieces[k][g] = NieceOf(k, g)
      BY <1>2, <2>1 DEF FormInv, NieceInv
    <3>3. CASE k = a /\ g = f
      <4>1. Beyond(k, g) \in Nodes /\ Beyond(k, g) \in refined
        BY <1>2, <1>3, <3>3, NodesAreChildren
      <4>2. AuntCall(k, g) \notin forming'
        BY <1>8, <3>3
      <4> QED
        BY <1>12, <3>1, <3>3, <4>1, <4>2
    <3>4. CASE ~(k = a /\ g = f)
      <4>1. AuntCall(k, g) \in forming' <=> AuntCall(k, g) \in forming
        BY <1>8, <3>4
      <4> QED
        BY <1>12, <3>1, <3>2, <3>4, <4>1 DEF NieceOf
    <3> QED
      BY <3>3, <3>4
  <2> QED
    BY <1>2, <1>7, <2>1 DEF NieceInv
<1>17. AuntInv'
  <2>1. ASSUME NEW k \in Nodes, NEW g \in Face PROVE aunts'[k][g] = AuntOf(k, g)'
    <3> DEFINE b == Parent(Beyond(k, g))
    <3>1. AuntOf(k, g)' = IF /\ Beyond(k, g) \in Loc \ Nodes /\ Told(b)
                             /\ AuntCall(b, Flip(g)) \notin forming'
                          THEN b ELSE NoNode
      BY <1>2, <1>7 DEF AuntOf
    <3>2. aunts[k][g] = AuntOf(k, g)
      BY <1>2 DEF FormInv, AuntInv
    <3>3. Flip(g) \in Face /\ (Flip(g) = f <=> g = Flip(f))
      BY Directions
    <3> HIDE DEF b
    <3>4. CASE k \in nieces_ /\ g = Flip(f)
      <4>1. Beyond(k, g) \in Loc \ Nodes /\ b = a
        BY <1>5, <3>4 DEF b
      <4>2. AuntCall(b, Flip(g)) \notin forming'
        BY <1>8, <3>3, <3>4, <4>1
      <4> QED
        BY <1>3, <1>11, <3>1, <3>4, <4>1, <4>2
    <3>5. CASE ~(k \in nieces_ /\ g = Flip(f))
      <4>1. Beyond(k, g) \in Loc \ Nodes =>
              (AuntCall(b, Flip(g)) \in forming' <=> AuntCall(b, Flip(g)) \in forming)
        BY <1>5, <1>8, <3>3, <3>5 DEF b
      <4> QED
        BY <1>11, <3>1, <3>2, <3>5, <4>1 DEF AuntOf, b
    <3> QED
      BY <3>4, <3>5
  <2> QED
    BY <1>2, <2>1 DEF AuntInv
<1>18. registry' \subseteq Entries(Nodes)
  BY <1>1 DEF TreeInv, RegistryInv
<1> QED
  BY <1>2, <1>10, <1>13, <1>14, <1>15, <1>16, <1>17, <1>18 DEF FormInv

(* When no call is left everybody has been told: of the nodes that have    *)
(* not, one of the least level would have a call on its way.               *)
LEMMA AllAreTold ==
  ASSUME FormInv, forming = {}, refined \subseteq Loc, GradedTree(refined), NEW n \in Nodes
  PROVE  Told(n)
<1> DEFINE T == {l \in Nat : \E k \in Nodes : k.lev = l /\ ~Told(k)}
<1>1. \A k \in Nodes : k \in Loc /\ k.lev \in Nat
  BY LocFacts DEF Nodes
<1>2. ASSUME T # {} PROVE FALSE
  <2>1. PICK l \in T : \A j \in T : l <= j
    BY <1>2, LeastElement
  <2>2. PICK k \in Nodes : k.lev = l /\ ~Told(k)
    BY <2>1
  <2>3. k # Root /\ ~Told(Parent(k))
    BY <2>2 DEF FormInv, CallsInv
  <2>4. Parent(k) \in Nodes /\ Parent(k).lev = l - 1
    BY <1>1, <2>2, <2>3, NodesAreChildren, ParentIsLoc
  <2>5. l - 1 \in T
    BY <1>1, <2>3, <2>4
  <2>6. l \in Nat
    BY <2>1
  <2> QED
    BY <2>1, <2>5, <2>6
<1> QED
  BY <1>1, <1>2

LEMMA FormedKeepsTree ==
  ASSUME TreeInv, Formed
  PROVE  TreeInv'
<1>1. /\ phase = "form" /\ forming = {} /\ phase' = "check"
      /\ UNCHANGED <<vars, regrids, children, locality, registry, family, aborted>>
  BY DEF Formed
<1>2. /\ FormInv /\ GradedInv /\ refined \subseteq Loc /\ GradedTree(refined)
      /\ registry \subseteq Entries(Nodes)
      /\ checked = {}
  BY <1>1 DEF TreeInv, GradedInv, PhaseInv, RegistryInv
<1>3. \A n \in Nodes : Told(n)
  BY <1>1, <1>2, AllAreTold
<1>4. GradedInv'
  BY <1>1, <1>2, StepKeepsGraded
<1>5. WithinInv' /\ PhaseInv'
  BY <1>1 DEF TreeInv, WithinInv, PhaseInv, vars, Restarting
<1>6. Nodes' = Nodes /\ refined' = refined
  BY <1>1 DEF vars, Nodes, Exists
<1>7. RegistryInv'
  <2>1. registry = Entries(Nodes)
    BY <1>2, <1>3 DEF Entries, Told
  <2>2. Asked(checked) = {}
    BY <1>2, <1>6 DEF Asked
  <2>3. Asked(checked)' = {}
    BY <1>1, <1>2 DEF Asked, vars
  <2>4. registry' = Entries(Nodes \ Asked(checked))'
    BY <1>1, <1>6, <2>1, <2>3 DEF Entries
  <2>5. regrids' > 0
    BY <1>1 DEF TreeInv, PhaseInv
  <2> QED
    BY <1>1, <2>4, <2>5 DEF RegistryInv
<1>8. NeighborsKnown'
  <2>1. \A n \in Nodes : \A dir \in Direction : neighbors[n][dir] = NeighborOf(n, dir)
    BY <1>2, <1>3 DEF FormInv, NeighborsInv, AllNeighbors
  <2> QED
    BY <1>1, <1>6, <2>1 DEF NeighborsKnown, NeighborOf, family
<1>9. FluxPartners'
  <2>1. \A a \in Nodes \ refined, f \in Face :
          nieces[a][f] = IF Beyond(a, f) \notin Nodes THEN -2
                         ELSE IF Beyond(a, f) \in refined THEN 1 ELSE -1
    BY <1>1, <1>2, <1>3 DEF FormInv, NieceInv, NieceOf
  <2>2. ASSUME NEW n \in Nodes, NEW f \in Face, Beyond(n, f) \in Loc \ Nodes
        PROVE  /\ aunts[n][f] = Parent(Beyond(n, f))
               /\ Parent(Beyond(n, f)) \in Nodes \ refined
               /\ nieces[Parent(Beyond(n, f))][Flip(f)] = 1
    <3>1. /\ Parent(Beyond(n, f)) \in Nodes \ refined
          /\ Beyond(Parent(Beyond(n, f)), Flip(f)) \in refined
          /\ Flip(f) \in Face
      BY <1>2, <2>2, AuntIsLeaf, Directions
    <3>2. aunts[n][f] = Parent(Beyond(n, f))
      BY <1>1, <1>2, <1>3, <2>2, <3>1 DEF FormInv, AuntInv, AuntOf
    <3>3. refined \subseteq Nodes
      BY <1>2, NodesAreChildren
    <3> QED
      BY <2>1, <3>1, <3>2, <3>3
  <2>3. \A n \in Nodes, f \in Face : Beyond(n, f) \notin Loc \ Nodes => aunts[n][f] = NoNode
    BY <1>2 DEF FormInv, AuntInv, AuntOf
  <2>4. aunts' = aunts /\ nieces' = nieces
    BY <1>1 DEF family
  <2> QED
    BY <1>6, <2>1, <2>2, <2>3, <2>4 DEF FluxPartners, Beyond
<1> QED
  BY <1>1, <1>4, <1>5, <1>7, <1>8, <1>9 DEF TreeInv

LEMMA StepKeepsTree == TreeInv /\ [TreeNext]_treeVars => TreeInv'
<1> SUFFICES ASSUME TreeInv, [TreeNext]_treeVars PROVE TreeInv'
  OBVIOUS
<1>1. CASE TreeCheck
  BY <1>1, CheckKeepsTree
<1>2. CASE RegridGather
  BY <1>2, GatherKeepsTree
<1>3. CASE Rebalance
  BY <1>3, RebalanceKeepsTree
<1>4. CASE RegridScatter
  BY <1>4, ScatterKeepsTree
<1>5. CASE FormTree
  BY <1>5, RefinedKeepsTree, LeafKeepsTree, AuntKeepsTree DEF FormTree
<1>6. CASE Formed
  BY <1>6, FormedKeepsTree
<1>7. CASE UNCHANGED treeVars
  <2>1. /\ UNCHANGED vars /\ UNCHANGED formation
        /\ Nodes' = Nodes
    BY <1>7 DEF treeVars, vars, Nodes, Exists
  <2>2. GradedInv'
    BY <2>1, StepKeepsGraded DEF TreeInv
  <2>3. WithinInv' /\ PhaseInv' /\ RegistryInv'
    BY <2>1 DEF TreeInv, WithinInv, PhaseInv, RegistryInv, Entries, Asked, Restarting,
                vars, formation
  <2>4. FormInv => FormInv'
    <3>1. UNCHANGED <<neighbors, aunts, nieces, registry, locality, forming>> /\ refined' = refined
      BY <2>1 DEF formation, family, vars
    <3>2. /\ \A k : FormCall(k)' = FormCall(k) /\ AllNeighbors(k)' = AllNeighbors(k)
          /\ \A k : Told(k)' = Told(k)
      BY <2>1, <3>1 DEF FormCall, AllNeighbors, NeighborOf, Told
    <3>3. /\ FamilyTypeOK => FamilyTypeOK'
          /\ NeighborsInv => NeighborsInv'
      BY <2>1, <3>1, <3>2 DEF FamilyTypeOK, NeighborsInv
    <3>4. CallsInv => CallsInv'
      BY <2>1, <3>1, <3>2 DEF CallsInv
    <3>5. NieceInv /\ AuntInv => NieceInv' /\ AuntInv'
      BY <2>1, <3>1, <3>2 DEF NieceInv, AuntInv, NieceOf, AuntOf
    <3> QED
      BY <3>3, <3>4, <3>5 DEF FormInv
  <2>5. NeighborsKnown' /\ FluxPartners' /\ phase' = phase
    BY <2>1 DEF TreeInv, NeighborsKnown, FluxPartners, Ready, formation, family, vars
  <2> QED
    BY <2>2, <2>3, <2>4, <2>5 DEF TreeInv
<1> QED
  BY <1>1, <1>2, <1>3, <1>4, <1>5, <1>6, <1>7 DEF TreeNext

-----------------------------------------------------------------------------
(* The inductive invariant of a regrid: the tree is graded, the calls on   *)
(* their way are those that are due, and what a node knows of those around *)
(* it is what is there, as far as it has been told.                        *)
THEOREM TreeInvariant == TreeSpec => []TreeInv
<1> QED
  BY TreeStarts, StepKeepsTree, PTL DEF TreeSpec

(* In whatever order the calls of form_tree and set_child_aunt are handled,*)
(* every node knows exactly its neighbors when the tree is formed.         *)
THEOREM AllNeighborsAreKnown == TreeSpec => []NeighborsKnown
<1>1. TreeInv => NeighborsKnown
  BY DEF TreeInv
<1> QED
  BY <1>1, TreeInvariant, PTL

(* And across every face of a leaf there is one partner for its fluxes.    *)
THEOREM FluxesHavePartners == TreeSpec => []FluxPartners
<1>1. TreeInv => FluxPartners
  BY DEF TreeInv
<1> QED
  BY <1>1, TreeInvariant, PTL

(* Neither abort of the forming is reached: no leaf still has a child, and *)
(* no node is given an aunt twice.                                         *)
THEOREM FormingNeverAborts == TreeSpec => []FormNeverAborts
<1>1. TreeInv => FormNeverAborts
  BY DEF TreeInv, PhaseInv, FormNeverAborts
<1> QED
  BY <1>1, TreeInvariant, PTL

(* The registries list just the nodes of the tree, where they live.        *)
THEOREM RegistriesAreComplete == TreeSpec => []RegistryComplete
<1>1. TreeInv => RegistryComplete
  BY DEF TreeInv, RegistryInv, RegistryComplete, Ready, Entries
<1> QED
  BY <1>1, TreeInvariant, PTL

-----------------------------------------------------------------------------
(* A node with all that is below it.                                       *)
AtOrBelow(m, n) == m = n \/ IsChildOf(m, n)

(* What is below a node, or is it, has its parent there too.               *)
LEMMA BelowByParent ==
  ASSUME NEW n \in Loc, n # Root, NEW m \in Loc
  PROVE  AtOrBelow(n, m) <=> n = m \/ AtOrBelow(Parent(n), m)
<1>1. /\ n.lev \in Nat /\ m.lev \in Nat /\ Parent(n) \in Loc /\ Parent(n).lev = n.lev - 1
      /\ \A d \in Dim : n.x[d] \in Nat
      /\ \A d \in Dim : Parent(n).x[d] = n.x[d] \div 2
  BY LocFacts, ParentIsLoc DEF Parent
<1>2. CASE n.lev = m.lev + 1
  <2>1. IsChildOf(n, m) <=> m = Parent(n)
    BY <1>2, ParentIsAbove
  <2>2. ~IsChildOf(Parent(n), m)
    BY <1>1, <1>2 DEF IsChildOf
  <2> QED
    BY <2>1, <2>2 DEF AtOrBelow
<1>3. CASE n.lev > m.lev + 1
  <2>1. PICK h \in Nat : h = n.lev - 1 - m.lev
    BY <1>1, <1>3
  <2>2. 2^(n.lev - m.lev) = 2^h + 2^h /\ 2^h \in Nat \ {0}
    <3>1. n.lev - m.lev = h + 1
      BY <1>1, <2>1
    <3> QED
      BY <3>1, Doubling, Powers
  <2>3. \A d \in Dim : (n.x[d] \div 2) \div 2^h = n.x[d] \div 2^(n.lev - m.lev)
    BY <1>1, <2>2, HalfFirst
  <2>4. Parent(n).lev - m.lev = h /\ m.lev < Parent(n).lev /\ m.lev < n.lev
    BY <1>1, <1>3, <2>1
  <2>5. IsChildOf(n, m) <=> IsChildOf(Parent(n), m)
    BY <1>1, <2>3, <2>4 DEF IsChildOf
  <2>6. n # m /\ Parent(n) # m
    BY <1>1, <1>3
  <2> QED
    BY <2>5, <2>6 DEF AtOrBelow
<1>4. CASE n.lev <= m.lev
  <2>1. ~IsChildOf(n, m) /\ ~IsChildOf(Parent(n), m) /\ Parent(n) # m
    BY <1>1, <1>4 DEF IsChildOf
  <2> QED
    BY <2>1 DEF AtOrBelow
<1> QED
  BY <1>1, <1>2, <1>3, <1>4

(* A location is below at most one of each level.                          *)
LEMMA OneAbove ==
  ASSUME NEW n \in Loc, NEW a \in Loc, NEW b \in Loc, a.lev = b.lev,
         AtOrBelow(n, a), AtOrBelow(n, b)
  PROVE  a = b
<1>1. /\ n.lev \in Nat /\ a.lev \in Nat /\ b.lev \in Nat
      /\ a = [lev |-> a.lev, x |-> a.x] /\ b = [lev |-> b.lev, x |-> b.x]
      /\ a.x = [d \in Dim |-> a.x[d]] /\ b.x = [d \in Dim |-> b.x[d]]
  BY LocFacts
<1>2. CASE n = a \/ n = b
  BY <1>1, <1>2 DEF AtOrBelow, IsChildOf
<1>3. CASE n # a /\ n # b
  <2>1. \A d \in Dim : a.x[d] = b.x[d]
    BY <1>3 DEF AtOrBelow, IsChildOf
  <2>2. [d \in Dim |-> a.x[d]] = [d \in Dim |-> b.x[d]]
    BY <2>1
  <2> QED
    BY <1>1, <2>2
<1> QED
  BY <1>2, <1>3

(* The domain is finite.                                                   *)
LEMMA LocIsFinite == IsFiniteSet(Loc)
<1> DEFINE Up(k) == {n \in Loc : n.lev <= k}
           T == {k \in Nat : k <= MaxLevel /\ ~IsFiniteSet(Up(k))}
<1>1. ASSUME NEW l \in 0..MaxLevel PROVE IsFiniteSet(LocAt(l))
  <2> DEFINE S == 0..(2^l - 1)
             P == Dim \X S
             g == [n \in LocAt(l) |-> {<<d, n.x[d]>> : d \in Dim}]
  <2>1. IsFiniteSet(P) /\ IsFiniteSet(SUBSET P)
    <3>1. l \in Nat /\ 2^l \in Nat
      BY Powers
    <3>2. IsFiniteSet(S) /\ IsFiniteSet(Dim)
      BY <3>1, FS_Interval, LevelAssumption DEF Dim
    <3> QED
      BY <3>2, FS_Product, FS_SUBSET
  <2>2. \A n \in LocAt(l) : /\ n = [lev |-> l, x |-> n.x] /\ n.x \in [Dim -> S]
                            /\ n.x = [d \in Dim |-> n.x[d]]
    BY DEF LocAt
  <2>3. g \in [LocAt(l) -> SUBSET P]
    <3>1. \A n \in LocAt(l) : \A d \in Dim : <<d, n.x[d]>> \in P
      BY <2>2
    <3> QED
      BY <3>1
  <2>4. ASSUME NEW n \in LocAt(l), NEW m \in LocAt(l), g[n] = g[m] PROVE n = m
    <3>1. ASSUME NEW d \in Dim PROVE n.x[d] = m.x[d]
      <4>1. <<d, n.x[d]>> \in g[n]
        OBVIOUS
      <4>2. <<d, n.x[d]>> \in g[m]
        BY <2>4, <4>1
      <4>3. PICK e \in Dim : <<d, n.x[d]>> = <<e, m.x[e]>>
        BY <4>2
      <4> QED
        BY <4>3
    <3>2. [d \in Dim |-> n.x[d]] = [d \in Dim |-> m.x[d]]
      BY <3>1
    <3>3. n.x = m.x
      BY <2>2, <3>2
    <3> QED
      BY <2>2, <3>3
  <2> HIDE DEF g, P
  <2>5. g \in Injection(LocAt(l), SUBSET P)
    BY <2>3, <2>4 DEF Injection, IsInjective
  <2> QED
    BY <2>1, <2>5, FS_Injection
<1>2. ASSUME T # {} PROVE FALSE
  <2>1. PICK k \in T : \A j \in T : k <= j
    BY <1>2, LeastElement
  <2>2. CASE k = 0
    <3>1. Up(0) \subseteq LocAt(0)
      <4> SUFFICES ASSUME NEW n \in Up(0) PROVE n \in LocAt(0)
        OBVIOUS
      <4>1. n.lev = 0 /\ n = [lev |-> n.lev, x |-> n.x] /\ n.x \in [Dim -> 0..(2^n.lev - 1)]
        BY LocFacts
      <4> QED
        BY <4>1 DEF LocAt
    <3> QED
      BY <1>1, <2>1, <2>2, <3>1, FS_Subset, LevelAssumption
  <2>3. CASE k # 0
    <3>1. k - 1 \in Nat /\ k - 1 <= MaxLevel /\ k - 1 \notin T /\ k \in 0..MaxLevel
      BY <2>1, <2>3, LevelAssumption
    <3>2. IsFiniteSet(Up(k - 1)) /\ IsFiniteSet(LocAt(k))
      BY <1>1, <3>1
    <3>3. Up(k) \subseteq Up(k - 1) \cup LocAt(k)
      <4> SUFFICES ASSUME NEW n \in Loc, n.lev <= k, ~(n.lev <= k - 1) PROVE n \in LocAt(k)
        OBVIOUS
      <4>1. /\ n.lev \in Nat /\ n = [lev |-> n.lev, x |-> n.x]
            /\ n.x \in [Dim -> 0..(2^n.lev - 1)]
        BY LocFacts
      <4>2. n.lev = k
        BY <3>1, <4>1
      <4> QED
        BY <4>1, <4>2 DEF LocAt
    <3>4. IsFiniteSet(Up(k - 1) \cup LocAt(k))
      BY <3>2, FS_Union
    <3>5. IsFiniteSet(Up(k))
      BY <3>3, <3>4, FS_Subset
    <3> QED
      BY <2>1, <3>5
  <2> QED
    BY <2>2, <2>3
<1>3. IsFiniteSet(Up(MaxLevel))
  <2> SUFFICES ASSUME ~IsFiniteSet(Up(MaxLevel)) PROVE FALSE
    OBVIOUS
  <2>1. MaxLevel \in Nat /\ MaxLevel <= MaxLevel
    BY LevelAssumption
  <2> HIDE DEF Up
  <2>2. MaxLevel \in T
    BY <2>1
  <2> HIDE DEF T
  <2> QED
    BY <1>2, <2>2
<1>4. Loc \subseteq Up(MaxLevel)
  BY LocFacts
<1> QED
  BY <1>3, <1>4, FS_Subset
-----------------------------------------------------------------------------
(* The octants of a node have an order.                                    *)
LEMMA BeforeOrders ==
  /\ \A n \in Loc : ~Before(n, n)
  /\ \A m, n, k \in Loc : Before(m, n) /\ Before(n, k) => Before(m, k)
  /\ \A m, n \in Loc : m.lev = n.lev /\ m # n => Before(m, n) \/ Before(n, m)
<1>1. \A n \in Loc : \A d \in Dim : n.x[d] \in Nat
  BY LocFacts
<1>2. \A d \in Dim : d \in Nat /\ d <= NDIM /\ NDIM - d \in Nat
  BY LevelAssumption DEF Dim
<1>3. ASSUME NEW n \in Loc, Before(n, n) PROVE FALSE
  <2>1. PICK d \in Dim : n.x[d] < n.x[d]
    BY <1>3 DEF Before
  <2> QED
    BY <1>1, <2>1
<1>4. ASSUME NEW m \in Loc, NEW n \in Loc, NEW k \in Loc, Before(m, n), Before(n, k)
      PROVE  Before(m, k)
  <2>1. PICK d \in Dim : m.x[d] < n.x[d] /\ \A e \in Dim : e > d => m.x[e] = n.x[e]
    BY <1>4 DEF Before
  <2>2. PICK g \in Dim : n.x[g] < k.x[g] /\ \A e \in Dim : e > g => n.x[e] = k.x[e]
    BY <1>4 DEF Before
  <2>3. CASE d <= g
    <3>1. m.x[g] < k.x[g]
      <4>1. d = g \/ m.x[g] = n.x[g]
        BY <1>2, <2>1, <2>3
      <4>2. n.x[d] \in Nat /\ k.x[g] \in Nat /\ m.x[g] \in Nat /\ n.x[g] \in Nat
        BY <1>1
      <4> QED
        BY <2>1, <2>2, <4>1, <4>2
    <3>2. \A e \in Dim : e > g => m.x[e] = k.x[e]
      BY <1>2, <2>1, <2>2, <2>3
    <3> QED
      BY <3>1, <3>2 DEF Before
  <2>4. CASE g < d
    <3>1. m.x[d] < k.x[d]
      BY <1>1, <1>2, <2>1, <2>2, <2>4
    <3>2. \A e \in Dim : e > d => m.x[e] = k.x[e]
      BY <1>2, <2>1, <2>2, <2>4
    <3> QED
      BY <3>1, <3>2 DEF Before
  <2> QED
    BY <1>2, <2>3, <2>4
<1>5. ASSUME NEW m \in Loc, NEW n \in Loc, m.lev = n.lev, m # n
      PROVE  Before(m, n) \/ Before(n, m)
  <2> DEFINE T == {i \in Nat : \E d \in Dim : i = NDIM - d /\ m.x[d] # n.x[d]}
  <2>1. PICK d \in Dim : m.x[d] # n.x[d]
    <3> SUFFICES ASSUME \A d \in Dim : m.x[d] = n.x[d] PROVE FALSE
      OBVIOUS
    <3>1. [d \in Dim |-> m.x[d]] = [d \in Dim |-> n.x[d]]
      OBVIOUS
    <3>2. /\ m = [lev |-> m.lev, x |-> m.x] /\ m.x = [d \in Dim |-> m.x[d]]
          /\ n = [lev |-> n.lev, x |-> n.x] /\ n.x = [d \in Dim |-> n.x[d]]
      BY LocFacts
    <3>3. m.x = n.x
      BY <3>1, <3>2
    <3> QED
      BY <1>5, <3>2, <3>3
  <2>2. NDIM - d \in T
    BY <1>2, <2>1
  <2>3. PICK i \in T : \A j \in T : i <= j
    BY <2>2, LeastElement
  <2>4. PICK g \in Dim : i = NDIM - g /\ m.x[g] # n.x[g]
    BY <2>3
  <2>5. ASSUME NEW e \in Dim, e > g PROVE m.x[e] = n.x[e]
    <3> SUFFICES ASSUME m.x[e] # n.x[e] PROVE FALSE
      OBVIOUS
    <3>1. NDIM - e \in T
      BY <1>2
    <3> HIDE DEF T
    <3>2. NDIM - g <= NDIM - e
      BY <2>3, <2>4, <3>1
    <3> QED
      BY <1>2, <2>5, <3>2, LevelAssumption
  <2>6. m.x[g] < n.x[g] \/ n.x[g] < m.x[g]
    <3>1. m.x[g] \in Nat /\ n.x[g] \in Nat
      BY <1>1
    <3> QED
      BY <2>4, <3>1
  <2> QED
    BY <2>5, <2>6 DEF Before
<1> QED
  BY <1>3, <1>4, <1>5

-----------------------------------------------------------------------------
(* The nodes of a tree: the parent of each, and all children of that.      *)
IsTree(N) ==
  /\ N \subseteq Loc /\ Root \in N
  /\ \A n \in N \ {Root} : Parent(n) \in N /\ Children(Parent(n)) \subseteq N \ {Root}

Below(N, n) == {m \in N : AtOrBelow(m, n)}
BelowAny(N, S) == {m \in N : \E n \in S : AtOrBelow(m, n)}
Size(N, n) == Cardinality(Below(N, n))

(* The sum that PositionOf takes over elder siblings, with its recursion   *)
(* spelt out: it counts the nodes below any of them.                       *)
Sums(N, S) ==
  CHOOSE f : f = [s \in SUBSET S |->
    IF s = {} THEN 0
    ELSE Cardinality({m \in N : m = (CHOOSE x \in s : TRUE)
                                  \/ IsChildOf(m, (CHOOSE x \in s : TRUE))})
           + f[s \ {CHOOSE x \in s : TRUE}]]

LEMMA SumOfSizes ==
  ASSUME NEW N, IsTree(N), NEW S \in SUBSET N, \A a, b \in S : a.lev = b.lev
  PROVE  Sums(N, S)[S] = Cardinality(BelowAny(N, S))
<1> DEFINE first(s) == CHOOSE x \in s : TRUE
           rest(s) == s \ {first(s)}
           U == [s \in SUBSET S |-> Cardinality(BelowAny(N, s))]
           Rec(f, s) == IF s = {} THEN 0 ELSE Size(N, first(s)) + f[rest(s)]
<1>1. IsFiniteSet(N) /\ N \subseteq Loc
  BY LocIsFinite, FS_Subset DEF IsTree
<1>2. \A s \in SUBSET S : s # {} => first(s) \in s /\ rest(s) \in SUBSET S
  OBVIOUS
<1>3. ASSUME NEW s \in SUBSET S PROVE U[s] = Rec(U, s)
  <2>1. CASE s = {}
    <3>1. BelowAny(N, s) = {}
      BY <2>1 DEF BelowAny
    <3> QED
      BY <2>1, <3>1, FS_EmptySet
  <2>2. CASE s # {}
    <3>1. first(s) \in s /\ rest(s) \in SUBSET S
      BY <1>2, <2>2
    <3> DEFINE x == first(s)
               r == rest(s)
    <3>2. BelowAny(N, s) = Below(N, x) \cup BelowAny(N, r)
      <4>1. \A y : y \in s <=> y = x \/ y \in r
        BY <3>1
      <4> HIDE DEF x, r
      <4> QED
        BY <4>1 DEF BelowAny, Below
    <3>3. Below(N, x) \cap BelowAny(N, r) = {}
      <4> SUFFICES ASSUME NEW m \in N, AtOrBelow(m, x), NEW y \in r, AtOrBelow(m, y)
                   PROVE  FALSE
        BY DEF BelowAny, Below
      <4>1. x \in S /\ y \in S /\ x # y
        BY <3>1
      <4> HIDE DEF x, r
      <4>2. m \in Loc /\ x \in Loc /\ y \in Loc /\ x.lev = y.lev
        BY <1>1, <4>1
      <4> QED
        BY <4>1, <4>2, OneAbove
    <3>4. IsFiniteSet(Below(N, x)) /\ IsFiniteSet(BelowAny(N, r))
      BY <1>1, FS_Subset DEF Below, BelowAny
    <3>5. /\ Cardinality(Below(N, x)) \in Nat /\ Cardinality(BelowAny(N, r)) \in Nat
          /\ Cardinality(Below(N, x) \cap BelowAny(N, r)) = 0
      BY <3>3, <3>4, FS_CardinalityType, FS_EmptySet
    <3>6. Cardinality(BelowAny(N, s)) =
            Cardinality(Below(N, x)) + Cardinality(BelowAny(N, r))
      <4> DEFINE P == Below(N, x)
                 Q == BelowAny(N, r)
      <4> HIDE DEF P, Q
      <4>1. Cardinality(P \cup Q) = Cardinality(P) + Cardinality(Q) - Cardinality(P \cap Q)
        BY <3>4, FS_Union DEF P, Q
      <4>2. /\ Cardinality(P) \in Nat /\ Cardinality(Q) \in Nat
            /\ Cardinality(P \cap Q) = 0
        BY <3>5 DEF P, Q
      <4>3. Cardinality(P \cup Q) = Cardinality(P) + Cardinality(Q)
        BY ONLY <4>1, <4>2
      <4> QED
        BY <3>2, <4>3 DEF P, Q
    <3>7. U[s] = Cardinality(BelowAny(N, s)) /\ U[r] = Cardinality(BelowAny(N, r))
      BY <3>1
    <3> QED
      BY <2>2, <3>6, <3>7 DEF Size
  <2> QED
    BY <2>1, <2>2
<1>4. U = [s \in SUBSET S |-> Rec(U, s)]
  <2>1. U = [s \in SUBSET S |-> U[s]]
    OBVIOUS
  <2> HIDE DEF U, Rec
  <2> QED
    BY <1>3, <2>1
<1>5. Sums(N, S) = CHOOSE f : f = [s \in SUBSET S |-> Rec(f, s)]
  BY DEF Sums, Size, Below, AtOrBelow
<1> HIDE DEF U
<1>6. Sums(N, S) = [s \in SUBSET S |-> Rec(Sums(N, S), s)]
  <2> HIDE DEF Rec
  <2> QED
    BY <1>4, <1>5
<1> DEFINE F == Sums(N, S)
<1>7. \A s \in SUBSET S : F[s] = Rec(F, s)
  <2>1. F = [s \in SUBSET S |-> Rec(F, s)]
    BY <1>6
  <2> HIDE DEF F, Rec
  <2> QED
    BY <2>1
<1> DEFINE T == {i \in Nat : \E s \in SUBSET S : Cardinality(s) = i /\ F[s] # U[s]}
<1> HIDE DEF F
<1>8. \A s \in SUBSET S : IsFiniteSet(s) /\ Cardinality(s) \in Nat
  BY <1>1, FS_Subset, FS_CardinalityType
<1>9. ASSUME T # {} PROVE FALSE
  <2>1. PICK i \in T : \A j \in T : i <= j
    BY <1>9, LeastElement
  <2>2. PICK s \in SUBSET S : Cardinality(s) = i /\ F[s] # U[s]
    BY <2>1
  <2>3. s # {}
    BY <1>3, <1>7, <2>2
  <2>4. first(s) \in s /\ rest(s) \in SUBSET S
    BY <1>2, <2>3
  <2>5. Cardinality(rest(s)) = Cardinality(s) - 1
    BY <1>8, <2>4, FS_RemoveElement
  <2> HIDE DEF first, rest
  <2>6. Cardinality(rest(s)) \in Nat /\ Cardinality(rest(s)) < i
    BY <1>8, <2>2, <2>4, <2>5
  <2>7. Cardinality(rest(s)) \notin T
    <3>1. i \in Nat
      OBVIOUS
    <3> HIDE DEF T
    <3> QED
      BY <2>1, <2>6, <3>1
  <2>8. F[rest(s)] = U[rest(s)]
    BY <2>4, <2>6, <2>7
  <2>9. Rec(F, s) = Rec(U, s)
    BY <2>8
  <2> HIDE DEF Rec
  <2> QED
    BY <1>3, <1>7, <2>2, <2>9
<1>10. F[S] = U[S]
  <2>1. Cardinality(S) \in Nat /\ S \in SUBSET S
    BY <1>8
  <2> QED
    BY <1>9, <2>1
<1> QED
  BY <1>10 DEF F, U

-----------------------------------------------------------------------------
(* The recursion of PositionOf spelt out, one level given the one above.   *)
Elder(n) == {m \in Children(Parent(n)) : Before(m, n)}

PosLevel(N, f, l) ==
  [n \in {m \in N : m.lev = l} |->
     IF n = Root THEN 0 ELSE f[l - 1][Parent(n)] + 1 + Sums(N, Elder(n))[Elder(n)]]

Positions(N) == CHOOSE f : f = [l \in 0..MaxLevel |-> PosLevel(N, f, l)]

LEMMA PositionsAre ==
  ASSUME NEW N
  PROVE  PositionOf(N) = [n \in N |-> Positions(N)[n.lev][n]]
BY DEF PositionOf, Positions, PosLevel, Sums, Elder, MapThenSumSet, MapThenFoldSet

(* There is a solution, as each level has one, given the one above.        *)
LEMMA PositionsExist ==
  ASSUME NEW N, IsTree(N)
  PROVE  \A l \in 0..MaxLevel : Positions(N)[l] = PosLevel(N, Positions(N), l)
<1> DEFINE Solves(f, k) == \A l \in 0..MaxLevel : l <= k => f[l] = PosLevel(N, f, l)
           T == {k \in 0..MaxLevel : ~\E f : Solves(f, k)}
<1>1. ASSUME NEW f, NEW g, NEW l \in 0..MaxLevel, l = 0 \/ f[l - 1] = g[l - 1]
      PROVE  PosLevel(N, f, l) = PosLevel(N, g, l)
  <2>1. CASE l = 0
    <3>1. \A n \in {m \in N : m.lev = l} : n = Root
      <4> SUFFICES ASSUME NEW n \in N, n.lev = 0 PROVE n = Root
        BY <2>1
      <4>1. n \in Loc
        BY DEF IsTree
      <4>2. Parent(n).lev # 0
        BY <4>1 DEF Parent
      <4> QED
        BY <4>1, ParentIsLoc, LocFacts
    <3> QED
      BY <3>1 DEF PosLevel
  <2>2. CASE f[l - 1] = g[l - 1]
    BY <2>2 DEF PosLevel
  <2> QED
    BY <1>1, <2>1, <2>2
<1>2. ASSUME T # {} PROVE FALSE
  <2>1. PICK k \in T : \A j \in T : k <= j
    <3>1. T \in SUBSET Nat
      BY LevelAssumption
    <3> HIDE DEF T
    <3> QED
      BY <1>2, <3>1, LeastElement
  <2>2. k \in 0..MaxLevel /\ k \in Nat
    BY LevelAssumption
  <2>3. \E f : k = 0 \/ Solves(f, k - 1)
    <3>1. CASE k # 0
      <4>1. k - 1 \in 0..MaxLevel /\ ~(k <= k - 1)
        BY <2>2, <3>1, LevelAssumption
      <4>2. k - 1 \notin T
        <5> HIDE DEF T
        <5> QED
          BY <2>1, <4>1
      <4> QED
        BY <4>1, <4>2
    <3> QED
      BY <3>1
  <2>4. PICK f : k = 0 \/ Solves(f, k - 1)
    BY <2>3
  <2> DEFINE g == [l \in 0..MaxLevel |-> IF l < k THEN f[l] ELSE PosLevel(N, f, k)]
  <2>5. ASSUME NEW l \in 0..MaxLevel, l <= k PROVE g[l] = PosLevel(N, g, l)
    <3>1. l = 0 \/ g[l - 1] = f[l - 1]
      BY <2>2, <2>5, LevelAssumption
    <3>2. PosLevel(N, g, l) = PosLevel(N, f, l)
      <4> HIDE DEF g
      <4> QED
        BY <1>1, <3>1
    <3>3. CASE l = k
      BY <2>2, <3>2, <3>3
    <3>4. CASE l < k
      <4>1. f[l] = PosLevel(N, f, l)
        BY <2>2, <2>4, <3>4
      <4> QED
        BY <3>2, <3>4, <4>1
    <3> QED
      BY <2>2, <2>5, <3>3, <3>4
  <2>6. Solves(g, k)
    <3> HIDE DEF g
    <3> QED
      BY <2>5
  <2> QED
    <3> HIDE DEF g, Solves
    <3> QED
      BY <2>1, <2>6
<1>3. PICK f : Solves(f, MaxLevel)
  <2>1. MaxLevel \in 0..MaxLevel
    BY LevelAssumption
  <2> HIDE DEF Solves
  <2> QED
    BY <1>2, <2>1
<1> DEFINE h == [l \in 0..MaxLevel |-> f[l]]
<1>4. h = [l \in 0..MaxLevel |-> PosLevel(N, h, l)]
  <2>1. ASSUME NEW l \in 0..MaxLevel PROVE f[l] = PosLevel(N, h, l)
    <3>1. f[l] = PosLevel(N, f, l)
      BY <1>3, LevelAssumption
    <3>2. l = 0 \/ h[l - 1] = f[l - 1]
      BY LevelAssumption
    <3> HIDE DEF h
    <3> QED
      BY <1>1, <3>1, <3>2
  <2>2. [l \in 0..MaxLevel |-> f[l]] = [l \in 0..MaxLevel |-> PosLevel(N, h, l)]
    BY <2>1
  <2> QED
    BY <2>2
<1>5. Positions(N) = [l \in 0..MaxLevel |-> PosLevel(N, Positions(N), l)]
  <2> HIDE DEF h
  <2> QED
    BY <1>4 DEF Positions
<1> DEFINE P == Positions(N)
<1>6. P = [l \in 0..MaxLevel |-> PosLevel(N, P, l)]
  BY <1>5
<1> HIDE DEF P
<1>7. \A l \in 0..MaxLevel : P[l] = PosLevel(N, P, l)
  BY <1>6
<1> QED
  BY <1>7 DEF P

(* The elder siblings of a node.                                           *)
LEMMA ElderAre ==
  ASSUME NEW N, IsTree(N), NEW n \in N \ {Root}
  PROVE  /\ n \in Loc /\ n.lev \in Nat /\ Parent(n) \in N /\ Parent(n).lev = n.lev - 1
         /\ Elder(n) \subseteq N \ {Root} /\ n \notin Elder(n)
         /\ \A m \in Elder(n) : m.lev = n.lev
<1>1. n \in Loc /\ Parent(n) \in N /\ Children(Parent(n)) \subseteq N \ {Root} /\ N \subseteq Loc
  BY DEF IsTree
<1>2. n.lev \in Nat /\ Parent(n).lev = n.lev - 1
  BY <1>1, ParentIsLoc, LocFacts
<1>3. \A m \in Children(Parent(n)) : m.lev = n.lev
  BY <1>2 DEF Children, GetChild
<1>4. n \notin Elder(n)
  BY <1>1, BeforeOrders DEF Elder
<1> QED
  BY <1>1, <1>2, <1>3, <1>4 DEF Elder

LEMMA PositionSteps ==
  ASSUME NEW N, IsTree(N)
  PROVE  /\ PositionOf(N)[Root] = 0
         /\ \A n \in N \ {Root} :
              PositionOf(N)[n] =
                PositionOf(N)[Parent(n)] + 1 + Cardinality(BelowAny(N, Elder(n)))
<1> DEFINE P == Positions(N)
<1>1. \A n \in N : /\ PositionOf(N)[n] = P[n.lev][n]
                   /\ n.lev \in 0..MaxLevel /\ P[n.lev] = PosLevel(N, P, n.lev)
  BY PositionsAre, PositionsExist, LocFacts DEF IsTree
<1>2. Root \in N
  BY DEF IsTree
<1> HIDE DEF P
<1>3. PositionOf(N)[Root] = 0
  BY <1>1, <1>2 DEF PosLevel
<1>4. ASSUME NEW n \in N \ {Root}
      PROVE  PositionOf(N)[n] =
               PositionOf(N)[Parent(n)] + 1 + Cardinality(BelowAny(N, Elder(n)))
  <2>1. PositionOf(N)[n] = P[n.lev - 1][Parent(n)] + 1 + Sums(N, Elder(n))[Elder(n)]
    BY <1>1 DEF PosLevel
  <2>2. PositionOf(N)[Parent(n)] = P[n.lev - 1][Parent(n)]
    BY <1>1, ElderAre
  <2>3. Sums(N, Elder(n))[Elder(n)] = Cardinality(BelowAny(N, Elder(n)))
    <3>1. Elder(n) \in SUBSET N /\ \A a, b \in Elder(n) : a.lev = b.lev
      BY ElderAre
    <3> QED
      BY <3>1, SumOfSizes
  <2> QED
    BY <2>1, <2>2, <2>3
<1> QED
  BY <1>3, <1>4

(* All counts are numbers, and what is below the root is the tree.         *)
LEMMA SizesAre ==
  ASSUME NEW N, IsTree(N)
  PROVE  /\ IsFiniteSet(N) /\ Cardinality(N) \in Nat
         /\ \A n \in N : Size(N, n) \in Nat \ {0}
         /\ \A S : Cardinality(BelowAny(N, S)) \in Nat
         /\ Size(N, Root) = Cardinality(N) /\ \A n \in N : AtOrBelow(n, Root)
<1>1. IsFiniteSet(N)
  BY LocIsFinite, FS_Subset DEF IsTree
<1>2. ASSUME NEW n \in N PROVE Size(N, n) \in Nat \ {0}
  <2>1. Below(N, n) \subseteq N /\ n \in Below(N, n)
    BY DEF Below, AtOrBelow
  <2>2. IsFiniteSet(Below(N, n))
    BY <1>1, <2>1, FS_Subset
  <2> QED
    BY <2>1, <2>2, FS_CardinalityType, FS_EmptySet DEF Size
<1>3. ASSUME NEW S PROVE Cardinality(BelowAny(N, S)) \in Nat
  <2>1. IsFiniteSet(BelowAny(N, S))
    BY <1>1, FS_Subset DEF BelowAny
  <2> QED
    BY <2>1, FS_CardinalityType
<1>4. Below(N, Root) = N
  <2> SUFFICES ASSUME NEW n \in N, n # Root PROVE IsChildOf(n, Root)
    BY DEF Below, AtOrBelow
  <2>1. n \in Loc
    BY DEF IsTree
  <2>2. n.lev > 0
    <3>1. Parent(n) \in Loc /\ Parent(n).lev = n.lev - 1 /\ n.lev \in Nat
      BY <2>1, ParentIsLoc, LocFacts
    <3>2. Parent(n).lev \in Nat
      BY <3>1, LocFacts
    <3> QED
      BY <3>1, <3>2
  <2> QED
    BY <2>1, <2>2, RootIsAbove
<1>5. \A n \in N : AtOrBelow(n, Root)
  BY <1>4 DEF Below
<1> QED
  BY <1>1, <1>2, <1>3, <1>4, <1>5, FS_CardinalityType DEF Size

LEMMA PositionsAreNat ==
  ASSUME NEW N, IsTree(N), NEW n \in N
  PROVE  PositionOf(N)[n] \in Nat
<1> DEFINE T == {l \in Nat : \E k \in N : k.lev = l /\ PositionOf(N)[k] \notin Nat}
<1>1. ASSUME T # {} PROVE FALSE
  <2>1. PICK l \in T : \A j \in T : l <= j
    BY <1>1, LeastElement
  <2>2. PICK k \in N : k.lev = l /\ PositionOf(N)[k] \notin Nat
    BY <2>1
  <2>3. k # Root
    BY <2>2, PositionSteps
  <2>4. Parent(k) \in N /\ Parent(k).lev = k.lev - 1 /\ k.lev \in Nat /\ Parent(k).lev \in Nat
    BY <2>3, ElderAre, LocFacts DEF IsTree
  <2>5. Parent(k).lev \notin T
    <3>1. l \in Nat
      OBVIOUS
    <3> HIDE DEF T
    <3> QED
      BY <2>1, <2>2, <2>4, <3>1
  <2>6. PositionOf(N)[Parent(k)] \in Nat
    BY <2>4, <2>5
  <2>7. Cardinality(BelowAny(N, Elder(k))) \in Nat
    BY SizesAre
  <2> QED
    BY <2>2, <2>3, <2>6, <2>7, PositionSteps
<1>2. n.lev \in Nat
  BY LocFacts DEF IsTree
<1> QED
  BY <1>1, <1>2

(* What is below a node is below all that this is below.                   *)
LEMMA BelowIsTransitive ==
  ASSUME NEW m \in Loc, NEW b \in Loc, NEW p \in Loc, AtOrBelow(m, b), AtOrBelow(b, p)
  PROVE  AtOrBelow(m, p)
<1> DEFINE T == {l \in Nat : \E k \in Loc : k.lev = l /\ AtOrBelow(k, b) /\ ~AtOrBelow(k, p)}
<1>1. ASSUME T # {} PROVE FALSE
  <2>1. PICK l \in T : \A j \in T : l <= j
    BY <1>1, LeastElement
  <2>2. PICK k \in Loc : k.lev = l /\ AtOrBelow(k, b) /\ ~AtOrBelow(k, p)
    BY <2>1
  <2>3. k # b
    BY <2>2
  <2>4. k # Root
    <3>1. b.lev < k.lev /\ b.lev \in Nat /\ k.lev \in Nat
      BY <2>2, <2>3, LocFacts DEF AtOrBelow, IsChildOf
    <3> QED
      BY <3>1 DEF Root
  <2>5. AtOrBelow(Parent(k), b) /\ ~AtOrBelow(Parent(k), p)
    BY <2>2, <2>3, <2>4, BelowByParent
  <2>6. Parent(k) \in Loc /\ Parent(k).lev = k.lev - 1 /\ Parent(k).lev \in Nat /\ k.lev \in Nat
    BY <2>4, ParentIsLoc, LocFacts
  <2>7. Parent(k).lev \in T
    BY <2>5, <2>6
  <2> HIDE DEF T
  <2> QED
    BY <2>1, <2>2, <2>6, <2>7
<1>2. m.lev \in Nat
  BY LocFacts
<1> QED
  BY <1>1, <1>2

(* A node and its siblings.                                                *)
LEMMA SiblingsAre ==
  ASSUME NEW N, IsTree(N), NEW n \in N \ {Root}
  PROVE  /\ n \in Children(Parent(n))
         /\ \A m \in Children(Parent(n)) : m \in N \ {Root} /\ Parent(m) = Parent(n)
                                           /\ m.lev = n.lev
<1>1. n \in Loc /\ Parent(n) \in Loc /\ Children(Parent(n)) \subseteq N \ {Root}
  BY DEF IsTree
<1>2. n \in Children(Parent(n))
  BY <1>1, IsItsChild DEF Children
<1>3. n.lev \in 0..MaxLevel /\ Parent(n).lev = n.lev - 1 /\ Parent(n).lev < MaxLevel
  BY <1>1, ParentIsLoc, LocFacts, LevelAssumption
<1>4. ASSUME NEW m \in Children(Parent(n)) PROVE Parent(m) = Parent(n) /\ m.lev = n.lev
  <2>1. PICK ci \in Octant : m = GetChild(Parent(n), ci)
    BY DEF Children
  <2> QED
    BY <1>1, <1>3, <2>1, ChildIsLoc DEF GetChild
<1> QED
  BY <1>1, <1>2, <1>4

(* The subtrees of a node and of its elder siblings are apart.             *)
LEMMA WithElders ==
  ASSUME NEW N, IsTree(N), NEW n \in N \ {Root}
  PROVE  Cardinality(BelowAny(N, Elder(n) \cup {n})) =
           Cardinality(BelowAny(N, Elder(n))) + Size(N, n)
<1> DEFINE P == BelowAny(N, Elder(n))
           Q == Below(N, n)
<1>1. BelowAny(N, Elder(n) \cup {n}) = P \cup Q
  BY DEF BelowAny, Below
<1>2. P \cap Q = {}
  <2> SUFFICES ASSUME NEW m \in N, NEW e \in Elder(n), AtOrBelow(m, e), AtOrBelow(m, n)
               PROVE  FALSE
    BY DEF BelowAny, Below
  <2>1. e.lev = n.lev /\ e # n /\ e \in N
    BY ElderAre
  <2> QED
    BY <2>1, OneAbove DEF IsTree
<1>3. IsFiniteSet(P) /\ IsFiniteSet(Q)
  BY SizesAre, FS_Subset DEF BelowAny, Below
<1>4. Cardinality(P) \in Nat /\ Cardinality(Q) \in Nat
  BY <1>3, FS_CardinalityType
<1> HIDE DEF P, Q
<1>5. Cardinality(P \cup Q) = Cardinality(P) + Cardinality(Q) - Cardinality(P \cap Q)
  BY <1>3, FS_Union
<1>6. Cardinality(P \cap Q) = 0
  BY <1>2, FS_EmptySet
<1>7. Cardinality(P \cup Q) = Cardinality(P) + Cardinality(Q)
  BY ONLY <1>4, <1>5, <1>6
<1> QED
  BY <1>1, <1>7 DEF P, Q, Size

(* The places of a node and of all below it are its parent's.              *)
LEMMA WithinParent ==
  ASSUME NEW N, IsTree(N), NEW n \in N \ {Root}
  PROVE  /\ PositionOf(N)[Parent(n)] < PositionOf(N)[n]
         /\ PositionOf(N)[n] + Size(N, n) <= PositionOf(N)[Parent(n)] + Size(N, Parent(n))
<1> DEFINE p == Parent(n)
           S == Elder(n) \cup {n}
           B == BelowAny(N, S)
<1>1. p \in N /\ p \in Loc /\ n \in Loc
  BY ElderAre DEF IsTree
<1>2. \A s \in S : s \in Loc /\ s # Root /\ Parent(s) = p /\ s.lev = n.lev
  BY SiblingsAre DEF IsTree, Elder
<1>3. p \notin B
  <2> SUFFICES ASSUME NEW s \in S, AtOrBelow(p, s) PROVE FALSE
    BY DEF BelowAny
  <2>1. p.lev = s.lev - 1 /\ s.lev \in Nat /\ p.lev \in Nat
    BY <1>1, <1>2, ElderAre, LocFacts
  <2> HIDE DEF p, S
  <2> QED
    BY <2>1 DEF AtOrBelow, IsChildOf
<1>4. B \cup {p} \subseteq Below(N, p)
  <2>1. ASSUME NEW m \in N, NEW s \in S, AtOrBelow(m, s) PROVE AtOrBelow(m, p)
    <3>1. AtOrBelow(s, p)
      BY <1>1, <1>2, BelowByParent DEF AtOrBelow
    <3> HIDE DEF p, S
    <3> QED
      BY <1>1, <1>2, <2>1, <3>1, BelowIsTransitive DEF IsTree
  <2> HIDE DEF p, S
  <2> QED
    BY <1>1, <2>1 DEF BelowAny, Below, AtOrBelow
<1>5. IsFiniteSet(B) /\ IsFiniteSet(Below(N, p))
  BY SizesAre, FS_Subset DEF BelowAny, Below
<1>6. Cardinality(B \cup {p}) = Cardinality(B) + 1
  <2> HIDE DEF B, p
  <2> QED
    BY <1>3, <1>5, FS_AddElement
<1>7. Cardinality(B) + 1 <= Size(N, p)
  <2> HIDE DEF B, p
  <2> QED
    BY <1>4, <1>5, <1>6, FS_Subset DEF Size
<1>8. Cardinality(B) = Cardinality(BelowAny(N, Elder(n))) + Size(N, n)
  BY WithElders
<1>9. PositionOf(N)[n] = PositionOf(N)[p] + 1 + Cardinality(BelowAny(N, Elder(n)))
  BY PositionSteps
<1>10. /\ PositionOf(N)[p] \in Nat /\ Cardinality(BelowAny(N, Elder(n))) \in Nat
       /\ Size(N, n) \in Nat /\ Size(N, p) \in Nat
  BY <1>1, PositionsAreNat, SizesAre
<1> HIDE DEF B, p
<1>11. /\ PositionOf(N)[p] < PositionOf(N)[n]
       /\ PositionOf(N)[n] + Size(N, n) <= PositionOf(N)[p] + Size(N, p)
  BY ONLY <1>7, <1>8, <1>9, <1>10
<1> QED
  BY <1>11 DEF p

(* The places of elder siblings come before.                               *)
LEMMA AfterElders ==
  ASSUME NEW N, IsTree(N), NEW m \in N \ {Root}, NEW n \in N \ {Root},
         Parent(m) = Parent(n), Before(m, n)
  PROVE  PositionOf(N)[m] + Size(N, m) <= PositionOf(N)[n]
<1>1. Elder(m) \cup {m} \subseteq Elder(n)
  <2>1. m \in Elder(n)
    BY SiblingsAre DEF Elder
  <2>2. ASSUME NEW e \in Elder(m) PROVE e \in Elder(n)
    <3>1. e \in Children(Parent(n)) /\ Before(e, m) /\ e \in Loc /\ m \in Loc /\ n \in Loc
      BY ElderAre DEF Elder, IsTree
    <3> QED
      BY <3>1, BeforeOrders DEF Elder
  <2> QED
    BY <2>1, <2>2
<1>2. BelowAny(N, Elder(m) \cup {m}) \subseteq BelowAny(N, Elder(n))
  BY <1>1 DEF BelowAny
<1>3. Cardinality(BelowAny(N, Elder(m) \cup {m})) <= Cardinality(BelowAny(N, Elder(n)))
  <2>1. IsFiniteSet(BelowAny(N, Elder(n)))
    BY SizesAre, FS_Subset DEF BelowAny
  <2> QED
    BY <1>2, <2>1, FS_Subset
<1> DEFINE p == Parent(n)
           cm == Cardinality(BelowAny(N, Elder(m)))
           cn == Cardinality(BelowAny(N, Elder(n)))
<1>4. cm + Size(N, m) <= cn
  BY <1>3, WithElders
<1>5. PositionOf(N)[m] = PositionOf(N)[p] + 1 + cm /\ PositionOf(N)[n] = PositionOf(N)[p] + 1 + cn
  BY PositionSteps
<1>6. cm \in Nat /\ cn \in Nat /\ Size(N, m) \in Nat /\ PositionOf(N)[p] \in Nat
  BY SizesAre, PositionsAreNat, ElderAre
<1> HIDE DEF cm, cn, p
<1> QED
  BY ONLY <1>4, <1>5, <1>6

(* So are those of a node and of all above it.                             *)
LEMMA Nested ==
  ASSUME NEW N, IsTree(N), NEW m \in N, NEW a \in N, AtOrBelow(m, a)
  PROVE  /\ m # a => PositionOf(N)[a] < PositionOf(N)[m]
         /\ PositionOf(N)[a] <= PositionOf(N)[m]
         /\ PositionOf(N)[m] + Size(N, m) <= PositionOf(N)[a] + Size(N, a)
<1> DEFINE pos(k) == PositionOf(N)[k]
           Good(k) == /\ k # a => pos(a) < pos(k)
                      /\ pos(a) <= pos(k) /\ pos(k) + Size(N, k) <= pos(a) + Size(N, a)
           T == {l \in Nat : \E k \in N : k.lev = l /\ AtOrBelow(k, a) /\ ~Good(k)}
<1>1. \A k \in N : pos(k) \in Nat /\ Size(N, k) \in Nat /\ k \in Loc /\ k.lev \in Nat
  BY PositionsAreNat, SizesAre, LocFacts DEF IsTree
<1>2. ASSUME T # {} PROVE FALSE
  <2>1. PICK l \in T : \A j \in T : l <= j
    BY <1>2, LeastElement
  <2>2. PICK k \in N : k.lev = l /\ AtOrBelow(k, a) /\ ~Good(k)
    BY <2>1
  <2>3. k # a
    BY <1>1, <2>2
  <2>4. k # Root
    <3>1. a.lev < k.lev /\ a.lev \in Nat /\ k.lev \in Nat
      BY <1>1, <2>2, <2>3 DEF AtOrBelow, IsChildOf
    <3> QED
      BY <3>1 DEF Root
  <2>5. Parent(k) \in N /\ AtOrBelow(Parent(k), a) /\ Parent(k).lev = k.lev - 1
    BY <1>1, <2>2, <2>3, <2>4, BelowByParent, ElderAre
  <2>6. Good(Parent(k))
    <3>1. Parent(k).lev \in Nat /\ ~(l <= Parent(k).lev)
      BY <1>1, <2>2, <2>5
    <3>2. Parent(k).lev \notin T
      <4> HIDE DEF T
      <4> QED
        BY <2>1, <3>1
    <3> HIDE DEF Good
    <3> QED
      BY <2>5, <3>1, <3>2
  <2>7. pos(Parent(k)) < pos(k) /\ pos(k) + Size(N, k) <= pos(Parent(k)) + Size(N, Parent(k))
    BY <2>4, WithinParent
  <2>8. Good(k)
    <3>1. /\ pos(a) \in Nat /\ pos(k) \in Nat /\ pos(Parent(k)) \in Nat
          /\ Size(N, a) \in Nat /\ Size(N, k) \in Nat /\ Size(N, Parent(k)) \in Nat
      BY <1>1, <2>5
    <3>2. pos(a) <= pos(Parent(k)) /\ pos(Parent(k)) + Size(N, Parent(k)) <= pos(a) + Size(N, a)
      BY <2>6
    <3> HIDE DEF pos
    <3> QED
      BY <2>7, <3>1, <3>2
  <2> QED
    BY <2>2, <2>8
<1> HIDE DEF Good
<1>3. Good(m)
  BY <1>1, <1>2
<1> QED
  BY <1>3 DEF Good

(* Two nodes, neither of them below the other, are below two siblings.     *)
LEMMA Branch ==
  ASSUME NEW N, IsTree(N), NEW m \in N, NEW n \in N, ~AtOrBelow(m, n), ~AtOrBelow(n, m)
  PROVE  \E a, b \in N \ {Root} : /\ Parent(a) = Parent(b) /\ a # b
                                  /\ AtOrBelow(m, a) /\ AtOrBelow(n, b)
<1> DEFINE T == {l \in Nat : \E a \in N : a.lev = l /\ AtOrBelow(m, a) /\ ~AtOrBelow(n, a)}
<1>1. \A k \in N : k \in Loc /\ k.lev \in Nat
  BY LocFacts DEF IsTree
<1>2. m.lev \in T
  BY <1>1 DEF AtOrBelow
<1>3. PICK l \in T : \A j \in T : l <= j
  BY <1>2, LeastElement
<1>4. PICK a \in N : a.lev = l /\ AtOrBelow(m, a) /\ ~AtOrBelow(n, a)
  BY <1>3
<1>5. a # Root
  BY <1>4, SizesAre
<1> DEFINE p == Parent(a)
<1>6. p \in N /\ p.lev = a.lev - 1 /\ AtOrBelow(a, p)
  BY <1>1, <1>5, ElderAre, BelowByParent DEF AtOrBelow
<1>7. AtOrBelow(m, p)
  BY <1>1, <1>4, <1>6, BelowIsTransitive
<1>8. AtOrBelow(n, p)
  <2>1. p.lev \in Nat /\ ~(l <= p.lev)
    BY <1>1, <1>4, <1>6
  <2>2. p.lev \notin T
    <3> HIDE DEF T, p
    <3> QED
      BY <1>3, <2>1
  <2> QED
    BY <1>6, <1>7, <2>1, <2>2
<1> DEFINE U == {j \in Nat : \E b \in N : /\ b.lev = j /\ AtOrBelow(n, b)
                                          /\ b # p /\ AtOrBelow(b, p)}
<1> HIDE DEF p
<1>9. n.lev \in U
  <2>1. n # p
    BY <1>7
  <2> QED
    BY <1>1, <1>8, <2>1 DEF AtOrBelow
<1>10. PICK i \in U : \A j \in U : i <= j
  BY <1>9, LeastElement
<1>11. PICK b \in N : b.lev = i /\ AtOrBelow(n, b) /\ b # p /\ AtOrBelow(b, p)
  BY <1>10
<1>12. b # Root
  <2>1. p.lev < b.lev /\ p.lev \in Nat /\ b.lev \in Nat
    BY <1>1, <1>6, <1>11 DEF AtOrBelow, IsChildOf
  <2> QED
    BY <2>1 DEF Root
<1>13. Parent(b) \in N /\ Parent(b).lev = b.lev - 1 /\ AtOrBelow(b, Parent(b))
  BY <1>1, <1>12, ElderAre, BelowByParent DEF AtOrBelow
<1>14. Parent(b) = p
  <2> SUFFICES ASSUME Parent(b) # p PROVE FALSE
    OBVIOUS
  <2>1. AtOrBelow(Parent(b), p)
    BY <1>1, <1>6, <1>11, <1>12, BelowByParent
  <2>2. AtOrBelow(n, Parent(b))
    BY <1>1, <1>11, <1>13, BelowIsTransitive
  <2>3. Parent(b).lev \in U /\ b.lev \in Nat
    BY <1>1, <1>13, <2>1, <2>2
  <2> HIDE DEF U
  <2> QED
    BY <1>10, <1>11, <1>13, <2>3
<1>15. a # b
  BY <1>4, <1>11
<1> QED
  BY <1>4, <1>5, <1>11, <1>12, <1>14, <1>15 DEF p

LEMMA PositionsDiffer ==
  ASSUME NEW N, IsTree(N), NEW m \in N, NEW n \in N, m # n
  PROVE  PositionOf(N)[m] # PositionOf(N)[n]
<1>1. \A k \in N : PositionOf(N)[k] \in Nat /\ Size(N, k) \in Nat \ {0}
  BY PositionsAreNat, SizesAre
<1>2. CASE AtOrBelow(m, n) \/ AtOrBelow(n, m)
  BY <1>1, <1>2, Nested
<1>3. CASE ~AtOrBelow(m, n) /\ ~AtOrBelow(n, m)
  <2>1. PICK a \in N \ {Root}, b \in N \ {Root} :
          Parent(a) = Parent(b) /\ a # b /\ AtOrBelow(m, a) /\ AtOrBelow(n, b)
    BY <1>3, Branch
  <2>2. Before(a, b) \/ Before(b, a)
    <3>1. a \in Loc /\ b \in Loc /\ a.lev = b.lev
      <4>1. a.lev - 1 = b.lev - 1 /\ a.lev \in Nat /\ b.lev \in Nat
        BY <2>1, ElderAre
      <4> QED
        BY <4>1, ElderAre
    <3> QED
      BY <2>1, <3>1, BeforeOrders
  <2> DEFINE pos(k) == PositionOf(N)[k]
             size(k) == Size(N, k)
  <2>3. /\ pos(a) <= pos(m) /\ pos(m) + size(m) <= pos(a) + size(a)
        /\ pos(b) <= pos(n) /\ pos(n) + size(n) <= pos(b) + size(b)
    BY <2>1, Nested
  <2>4. pos(a) + size(a) <= pos(b) \/ pos(b) + size(b) <= pos(a)
    BY <2>1, <2>2, AfterElders
  <2>5. \A k \in {a, b, m, n} : pos(k) \in Nat /\ size(k) \in Nat \ {0}
    BY <1>1
  <2> HIDE DEF pos, size
  <2>6. pos(m) # pos(n)
    BY ONLY <2>3, <2>4, <2>5
  <2> QED
    BY <2>6 DEF pos
<1> QED
  BY <1>2, <1>3

(* Positions number the nodes without gap.                                 *)
LEMMA PositionsNumber ==
  ASSUME NEW N, IsTree(N)
  PROVE  /\ \A n \in N : PositionOf(N)[n] \in 0..(Cardinality(N) - 1)
         /\ \A k \in 0..(Cardinality(N) - 1) : \E n \in N : PositionOf(N)[n] = k
<1> DEFINE f == PositionOf(N)
           I == 0..(Cardinality(N) - 1)
<1>1. ASSUME NEW n \in N PROVE f[n] \in I
  <2>1. Root \in N /\ AtOrBelow(n, Root) /\ f[Root] = 0
    BY SizesAre, PositionSteps DEF IsTree
  <2>2. f[n] + Size(N, n) <= f[Root] + Size(N, Root)
    BY <2>1, Nested
  <2>3. /\ f[n] \in Nat /\ Size(N, n) \in Nat \ {0}
        /\ Size(N, Root) = Cardinality(N) /\ Cardinality(N) \in Nat
    BY PositionsAreNat, SizesAre
  <2> HIDE DEF f
  <2> QED
    BY <2>1, <2>2, <2>3
<1>2. f = [n \in N |-> f[n]]
  BY PositionsAre
<1>3. \A m, n \in N : f[m] = f[n] => m = n
  BY PositionsDiffer
<1>4. IsFiniteSet(I) /\ Cardinality(I) = Cardinality(N)
  <2>1. Cardinality(N) \in Nat
    BY SizesAre
  <2>2. Cardinality(N) - 1 \in Int /\ 0 \in Int
    BY <2>1
  <2>3. IsFiniteSet(I) /\ Cardinality(I) = IF 0 > Cardinality(N) - 1 THEN 0
                                          ELSE Cardinality(N) - 1 - 0 + 1
    BY <2>2, FS_Interval
  <2> QED
    BY <2>1, <2>3
<1> HIDE DEF f, I
<1>5. f \in Injection(N, I)
  <2>1. f \in [N -> I]
    BY <1>1, <1>2
  <2> QED
    BY <1>3, <2>1 DEF Injection, IsInjective
<1>6. f \in Surjection(N, I)
  BY <1>4, <1>5, FS_Injection
<1>7. \A k \in I : \E n \in N : f[n] = k
  BY <1>6 DEF Surjection
<1> QED
  BY <1>1, <1>7 DEF f, I

-----------------------------------------------------------------------------
(* The quotient of two numbers, and that products keep their order.        *)
LEMMA ShareQuotient ==
  ASSUME NEW m \in Nat, NEW d \in Nat \ {0}
  PROVE  /\ m \div d \in Nat /\ d * (m \div d) <= m /\ m < d * (m \div d) + d
         /\ \A q \in Nat : d * q <= m /\ m < d * q + d => m \div d = q
<1>1. m \div d \in Nat
  OBVIOUS
<1>2. d * (m \div d) <= m /\ m < d * (m \div d) + d
  OBVIOUS
<1>3. ASSUME NEW q \in Nat, d * q <= m, m < d * q + d PROVE m \div d = q
  BY <1>3
<1> QED
  BY <1>1, <1>2, <1>3

LEMMA TimesKeepsOrder ==
  ASSUME NEW d \in Nat \ {0}, NEW i \in Int, NEW j \in Int
  PROVE  /\ i <= j <=> d * i <= d * j
         /\ d * i \in Int
         /\ d * (i + j) = d * i + d * j /\ d * (i - j) = d * i - d * j
         /\ d * (i - 1) = d * i - d /\ d * (i + 1) = d * i + d /\ d * (i + 2) = d * i + d + d
<1>1. i < j => d * i < d * j
  OBVIOUS
<1>2. j < i => d * j < d * i
  OBVIOUS
<1>3. /\ d * i \in Int /\ d * j \in Int
      /\ d * (i + j) = d * i + d * j /\ d * (i - j) = d * i - d * j
      /\ d * (i - 1) = d * i - d /\ d * (i + 1) = d * i + d /\ d * (i + 2) = d * i + d + d
  OBVIOUS
<1>4. i <= j <=> d * i <= d * j
  BY ONLY <1>1, <1>2, <1>3, i \in Int, j \in Int
<1> QED
  BY <1>3, <1>4

(* Of the positions 0 to t - 1, those that go to locality l of s.          *)
IsShare(t, s, l, a, b) ==
  /\ \A k \in 0..(t - 1) : (k * s) \div t = l <=> a <= k /\ k < b
  /\ b - a \in {t \div s, t \div s + 1}

LEMMA OneShare ==
  ASSUME NEW t \in Nat \ {0}, NEW s \in Nat \ {0}, NEW l \in 0..(s - 1)
  PROVE  \E a, b \in 0..t : IsShare(t, s, l, a, b)
<1> DEFINE y == t * l
           z == t * l + t
           a == (y + s - 1) \div s
           b == (z + s - 1) \div s
           q == t \div s
<1>1. y \in Nat /\ z \in Nat /\ y + s - 1 \in Nat /\ z + s - 1 \in Nat /\ z = y + t
  <2>1. t * l \in Nat
    OBVIOUS
  <2> QED
    BY <2>1
<1>2. z <= s * t
  <2>1. t * (l + 1) <= t * s /\ t * (l + 1) = t * l + t
    BY TimesKeepsOrder
  <2>2. t * s = s * t
    OBVIOUS
  <2> QED
    BY <2>1, <2>2
<1> HIDE DEF y, z
<1>3. a \in Nat /\ s * a <= y + s - 1 /\ y + s - 1 < s * a + s
  BY <1>1, ShareQuotient
<1>4. b \in Nat /\ s * b <= z + s - 1 /\ z + s - 1 < s * b + s
  BY <1>1, ShareQuotient
<1>5. q \in Nat /\ s * q <= t /\ t < s * q + s
  BY ShareQuotient
<1> HIDE DEF a, b, q
<1>6. /\ s * a \in Int /\ s * b \in Int /\ s * q \in Int /\ s * t \in Int
      /\ s * (b - a) = s * b - s * a /\ b - a \in Int
      /\ s * (q - 1) = s * q - s /\ s * (q + 2) = s * q + s + s /\ s * (t + 1) = s * t + s
  BY <1>3, <1>4, <1>5, TimesKeepsOrder
<1>7. s * (q - 1) < s * (b - a) /\ s * (b - a) < s * (q + 2)
  <2> DEFINE sa == s * a
             sb == s * b
             sq == s * q
  <2> HIDE DEF sa, sb, sq
  <2>1. sa <= y + s - 1 /\ y + s - 1 < sa + s /\ sb <= z + s - 1 /\ z + s - 1 < sb + s
    BY <1>3, <1>4 DEF sa, sb
  <2>2. sq <= t /\ t < sq + s /\ sa \in Int /\ sb \in Int /\ sq \in Int
    BY <1>5, <1>6 DEF sa, sb, sq
  <2>3. sq - s < sb - sa /\ sb - sa < sq + s + s
    BY ONLY <1>1, <2>1, <2>2, s \in Nat, t \in Nat
  <2> QED
    BY <1>6, <2>3 DEF sa, sb, sq
<1>8. b - a \in {q, q + 1}
  <2>1. ~(b - a <= q - 1) /\ ~(q + 2 <= b - a)
    BY <1>5, <1>6, <1>7, TimesKeepsOrder
  <2>2. ASSUME NEW i \in Int, ~(i <= q - 1), ~(q + 2 <= i) PROVE i \in {q, q + 1}
    BY <1>5, <2>2
  <2> QED
    BY <1>6, <2>1, <2>2
<1>9. a <= b /\ b <= t
  <2>1. ~(t + 1 <= b)
    <3> SUFFICES ASSUME t + 1 <= b PROVE FALSE
      OBVIOUS
    <3>1. s * (t + 1) <= s * b
      BY <1>4, TimesKeepsOrder
    <3> DEFINE st == s * t
               sb == s * b
    <3> HIDE DEF st, sb
    <3>2. st + s <= sb /\ sb <= z + s - 1 /\ z <= st /\ st \in Int /\ sb \in Int
      BY <1>2, <1>4, <1>6, <3>1 DEF st, sb
    <3> QED
      BY ONLY <1>1, <3>2, s \in Nat
  <2> QED
    BY <1>3, <1>4, <1>5, <1>8, <2>1
<1>10. ASSUME NEW k \in 0..(t - 1) PROVE (k * s) \div t = l <=> a <= k /\ k < b
  <2>1. k * s = s * k /\ s * k \in Nat
    OBVIOUS
  <2>2. (k * s) \div t = l <=> y <= s * k /\ s * k < z
    BY <2>1, ShareQuotient DEF y, z
  <2>3. /\ a <= k <=> s * a <= s * k
        /\ k <= a - 1 <=> s * k <= s * (a - 1)
        /\ s * (a - 1) = s * a - s
        /\ b <= k <=> s * b <= s * k
        /\ k <= b - 1 <=> s * k <= s * (b - 1)
        /\ s * (b - 1) = s * b - s
    BY <1>3, <1>4, TimesKeepsOrder
  <2> DEFINE sa == s * a
             sb == s * b
             sk == s * k
  <2> HIDE DEF sa, sb, sk
  <2>4. sa <= y + s - 1 /\ y + s - 1 < sa + s /\ sb <= z + s - 1 /\ z + s - 1 < sb + s
    BY <1>3, <1>4 DEF sa, sb
  <2>5. sa \in Int /\ sb \in Int /\ sk \in Nat
    BY <1>6, <2>1 DEF sa, sb, sk
  <2>6. /\ a <= k <=> sa <= sk
        /\ k <= a - 1 <=> sk <= sa - s
        /\ b <= k <=> sb <= sk
        /\ k <= b - 1 <=> sk <= sb - s
    BY <2>3 DEF sa, sb, sk
  <2>7. a <= k <=> y <= sk
    <3>1. a \in Int /\ k \in Int
      BY <1>3
    <3> QED
      BY ONLY <1>1, <2>4, <2>5, <2>6, <3>1, s \in Nat
  <2>8. k < b <=> sk < z
    <3>1. b \in Int /\ k \in Int
      BY <1>4
    <3> QED
      BY ONLY <1>1, <2>4, <2>5, <2>6, <3>1, s \in Nat
  <2> QED
    BY <2>2, <2>7, <2>8 DEF sk
<1>11. a \in 0..t /\ b \in 0..t
  BY <1>3, <1>4, <1>9
<1> QED
  BY <1>8, <1>10, <1>11 DEF q, IsShare
-----------------------------------------------------------------------------
(* What EvenShares says, of the nodes N of any tree.                       *)
Shared(N, pos, loc) ==
  /\ {pos[n] : n \in N} = 0..(Cardinality(N) - 1)
  /\ \A n \in N \ {Root} : pos[Parent(n)] < pos[n]
  /\ \A n, m \in N : pos[n] <= pos[m] => loc[n] <= loc[m]
  /\ \A l \in 0..(Localities - 1) :
       Cardinality({n \in N : loc[n] = l})
         \in {Cardinality(N) \div Localities, Cardinality(N) \div Localities + 1}

(* PositionOf and LocalityOf have it.                                      *)
LEMMA SharesAre ==
  ASSUME NEW N, IsTree(N)
  PROVE  Shared(N, PositionOf(N), LocalityOf(N))
<1> DEFINE pos == PositionOf(N)
           loc == LocalityOf(N)
           t == Cardinality(N)
           s == Localities
<1>1. t \in Nat \ {0} /\ s \in Nat \ {0}
  BY SizesAre, FormationAssumption DEF IsTree
<1>2. /\ \A n \in N : pos[n] \in 0..(t - 1)
      /\ \A k \in 0..(t - 1) : \E n \in N : pos[n] = k
  BY PositionsNumber
<1>3. \A n \in N : loc[n] = (pos[n] * s) \div t
  BY DEF LocalityOf
<1>4. \A n \in N \ {Root} : pos[Parent(n)] < pos[n]
  BY WithinParent
<1>5. \A m, n \in N : pos[m] = pos[n] => m = n
  BY PositionsDiffer
<1> HIDE DEF pos, loc, t, s
<1>6. {pos[n] : n \in N} = 0..(t - 1)
  BY <1>2
<1>7. ASSUME NEW n \in N, NEW m \in N, pos[n] <= pos[m] PROVE loc[n] <= loc[m]
  <2> DEFINE i == pos[n] * s
             j == pos[m] * s
  <2>1. pos[n] \in Nat /\ pos[m] \in Nat
    BY <1>1, <1>2
  <2>2. i \in Nat /\ j \in Nat /\ i <= j
    <3>1. s * pos[n] <= s * pos[m] /\ s * pos[n] = pos[n] * s /\ s * pos[m] = pos[m] * s
      BY <1>1, <1>7, <2>1, TimesKeepsOrder
    <3>2. pos[n] * s \in Nat /\ pos[m] * s \in Nat
      BY <1>1, <2>1
    <3> QED
      BY <3>1, <3>2
  <2> HIDE DEF i, j
  <2> DEFINE p == i \div t
             q == j \div t
  <2>3. p \in Nat /\ q \in Nat /\ t * p <= i /\ j < t * q + t
    BY <1>1, <2>2, ShareQuotient
  <2> HIDE DEF p, q
  <2>4. ~(q + 1 <= p)
    <3> SUFFICES ASSUME q + 1 <= p PROVE FALSE
      OBVIOUS
    <3>1. t * (q + 1) <= t * p /\ t * (q + 1) = t * q + t /\ t * p \in Int /\ t * q \in Int
      BY <1>1, <2>3, TimesKeepsOrder
    <3> DEFINE tp == t * p
               tq == t * q
    <3> HIDE DEF tp, tq
    <3>2. tq + t <= tp /\ tp <= i /\ j < tq + t /\ tp \in Int /\ tq \in Int
      BY <2>3, <3>1 DEF tp, tq
    <3> QED
      BY ONLY <1>1, <2>2, <3>2
  <2>5. p <= q
    BY <2>3, <2>4
  <2> QED
    BY <1>3, <2>5 DEF i, j, p, q
<1>8. ASSUME NEW l \in 0..(s - 1)
      PROVE  Cardinality({n \in N : loc[n] = l}) \in {t \div s, t \div s + 1}
  <2>0. PICK a \in 0..t, b \in 0..t : IsShare(t, s, l, a, b)
    BY <1>1, OneShare
  <2>1. /\ \A k \in 0..(t - 1) : (k * s) \div t = l <=> a <= k /\ k < b
        /\ b - a \in {t \div s, t \div s + 1}
    BY <2>0 DEF IsShare
  <2> DEFINE S == {n \in N : loc[n] = l}
             I == a..(b - 1)
             f == [n \in S |-> pos[n]]
  <2>2. \A n \in N : n \in S <=> pos[n] \in I
    <3> SUFFICES ASSUME NEW n \in N PROVE loc[n] = l <=> a <= pos[n] /\ pos[n] < b
      BY <1>1, <1>2
    <3> QED
      BY <1>2, <1>3, <2>1
  <2>3. f \in Bijection(S, I)
    <3>1. f \in [S -> I]
      BY <2>2
    <3>2. \A m, n \in S : f[m] = f[n] => m = n
      BY <1>5
    <3>3. \A k \in I : \E n \in S : f[n] = k
      <4> SUFFICES ASSUME NEW k \in I PROVE \E n \in S : f[n] = k
        OBVIOUS
      <4>1. k \in 0..(t - 1)
        BY <1>1
      <4>2. PICK n \in N : pos[n] = k
        BY <1>2, <4>1
      <4>3. n \in S
        BY <2>2, <4>2
      <4> QED
        BY <4>2, <4>3
    <3> HIDE DEF f, S, I
    <3> QED
      BY <3>1, <3>2, <3>3 DEF Bijection, Injection, IsInjective, Surjection
  <2>4. IsFiniteSet(S)
    BY SizesAre, FS_Subset
  <2>5. Cardinality(I) = Cardinality(S)
    <3> HIDE DEF f, S, I
    <3> QED
      BY <2>3, <2>4, FS_Bijection DEF ExistsBijection
  <2>6. b - a \in Nat
    <3>1. t \div s \in Nat
      BY <1>1, ShareQuotient
    <3> QED
      BY <2>1, <3>1
  <2>7. Cardinality(I) = b - a
    <3>1. a \in Int /\ b - 1 \in Int
      BY <1>1
    <3>2. Cardinality(I) = IF a > b - 1 THEN 0 ELSE (b - 1) - a + 1
      BY <3>1, FS_Interval
    <3> HIDE DEF I
    <3> QED
      BY <2>6, <3>1, <3>2
  <2> QED
    BY <2>1, <2>5, <2>7
<1> QED
  BY <1>4, <1>6, <1>7, <1>8 DEF Shared, pos, loc, t, s

(* The nodes of a graded tree are such a tree.                             *)
LEMMA NodesAreTree ==
  ASSUME refined \subseteq Loc, GradedTree(refined)
  PROVE  IsTree(Nodes)
<1>1. Nodes \subseteq Loc
  BY DEF Nodes
<1> QED
  BY <1>1, NodesAreChildren DEF IsTree

(* Until nodes are next killed they are where the scattering put them.     *)
PlacedInv ==
  phase = "form" \/ Ready => position = PositionOf(Nodes) /\ locality = LocalityOf(Nodes)

LEMMA StepKeepsPlaces == TreeInv /\ PlacedInv /\ [TreeNext]_treeVars => PlacedInv'
<1> SUFFICES ASSUME TreeInv, PlacedInv, [TreeNext]_treeVars PROVE PlacedInv'
  OBVIOUS
<1>1. ASSUME UNCHANGED <<refined, position, locality>>,
             phase' = "form" \/ Ready' => phase = "form" \/ Ready
      PROVE  PlacedInv'
  <2>1. Nodes' = Nodes
    BY <1>1 DEF Nodes, Exists
  <2>2. PositionOf(Nodes)' = PositionOf(Nodes) /\ LocalityOf(Nodes)' = LocalityOf(Nodes)
    BY <2>1
  <2> QED
    BY <1>1, <2>2 DEF PlacedInv
<1>2. CASE TreeCheck
  BY <1>1, <1>2 DEF TreeCheck, Checked, Check, ForceNodesToExist, Ready
<1>3. CASE RegridGather
  BY <1>3 DEF RegridGather, VisitNodes, PlacedInv, Ready
<1>4. CASE Rebalance
  BY <1>4 DEF Rebalance, PlacedInv, Ready
<1>5. CASE RegridScatter
  <2>1. refined' = refined /\ position' = PositionOf(Nodes) /\ locality' = LocalityOf(Nodes)
    BY <1>5 DEF RegridScatter, PlaceNodes, vars
  <2>2. Nodes' = Nodes
    BY <2>1 DEF Nodes, Exists
  <2>3. PositionOf(Nodes)' = PositionOf(Nodes) /\ LocalityOf(Nodes)' = LocalityOf(Nodes)
    BY <2>2
  <2> QED
    BY <2>1, <2>3 DEF PlacedInv
<1>6. CASE FormTree
  <2>1. UNCHANGED <<refined, position, locality, phase, regrids>> /\ phase = "form"
    BY <1>6 DEF FormTree, FormRefined, CallChildren, FormLeaf, LeafCalls, SetChildAunt, vars
  <2> QED
    BY <1>1, <2>1
<1>7. CASE Formed
  BY <1>1, <1>7 DEF Formed, vars
<1>8. CASE UNCHANGED treeVars
  BY <1>1, <1>8 DEF treeVars, vars, formation, Ready
<1> QED
  BY <1>2, <1>3, <1>4, <1>5, <1>6, <1>7, <1>8 DEF TreeNext

(* Positions number the nodes without gap, parents before children, and the*)
(* localities get consecutive shares, which differ by one node at most:    *)
(* for every tree and every number of localities.                          *)
THEOREM SharesAreEven == TreeSpec => []EvenShares
<1>1. TreeInit => PlacedInv
  BY DEF TreeInit, PlacedInv, Ready
<1>2. TreeInv /\ PlacedInv => EvenShares
  <2> SUFFICES ASSUME TreeInv, PlacedInv, Ready PROVE EvenShares
    BY DEF EvenShares
  <2>1. IsTree(Nodes)
    BY NodesAreTree DEF TreeInv, GradedInv
  <2>2. Shared(Nodes, position, locality)
    BY <2>1, SharesAre DEF PlacedInv
  <2> QED
    BY <2>2 DEF Shared, EvenShares
<1> QED
  BY <1>1, <1>2, TreeInvariant, StepKeepsPlaces, PTL DEF TreeSpec
=============================================================================
