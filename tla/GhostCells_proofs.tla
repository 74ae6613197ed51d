-------------------------- MODULE GhostCells_proofs --------------------------
(***************************************************************************)
(* That after every exchange each ghost cell holds the value of its place, *)
(* for every number of dimensions, every even number of cells per side,    *)
(* every ghost width the kernels can do with, every depth and every set of *)
(* graded trees.                                                           *)
(*                                                                         *)
(* The first part is about the kernels (module HydroKernel): they read no  *)
(* cell that lies deeper than the exchanges go.  The second is arithmetic: *)
(* whichever way a value takes, through boxes of sides, offsets of octants *)
(* and halves of coarse cells, it ends at the place it is the value of.    *)
(* The third is the induction over the levels of an exchange, the stages   *)
(* and the regrids.                                                        *)
(***************************************************************************)
EXTENDS GhostCells, FiniteSetTheorems, WellFoundedInduction, TLAPS

-----------------------------------------------------------------------------
(* What the kernels read.                                                  *)

(* As deep as the exchange of all fields goes: one cell less for lx.       *)
Depth == [f \in Field |-> IF f = "lx" THEN 1 ELSE 0]
Given == {r \in Field \X Cell : r[2] \in Within(Depth[r[1]])}

(* The sizes of a grid.                                                    *)
LEMMA Sizes ==
  /\ NDIM \in Nat /\ H_BW \in Nat /\ INX \in Nat /\ H_NX \in Nat
  /\ H_NX = INX + 2 * H_BW /\ H_BW >= 3 /\ INX >= H_BW
BY GridAssumption DEF H_NX

(* Vectors, by coordinates.                                                *)
LEMMA Vectors ==
  ASSUME NEW v \in Vector(Int), NEW w \in Vector(Int)
  PROVE  /\ Plus(v, w) \in Vector(Int) /\ Minus(v, w) \in Vector(Int)
         /\ \A k \in Int : Times(k, v) \in Vector(Int)
         /\ \A d \in Dim : /\ v[d] \in Int /\ w[d] \in Int
                           /\ Plus(v, w)[d] = v[d] + w[d] /\ Minus(v, w)[d] = v[d] - w[d]
                           /\ \A k \in Int : Times(k, v)[d] = k * v[d]
         /\ (\A d \in Dim : v[d] = w[d]) => v = w
<1>1. /\ Plus(v, w) \in Vector(Int) /\ Minus(v, w) \in Vector(Int)
      /\ \A k \in Int : Times(k, v) \in Vector(Int)
      /\ \A d \in Dim : /\ v[d] \in Int /\ w[d] \in Int
                        /\ Plus(v, w)[d] = v[d] + w[d] /\ Minus(v, w)[d] = v[d] - w[d]
                        /\ \A k \in Int : Times(k, v)[d] = k * v[d]
  BY DEF Vector, Plus, Minus, Times
<1>2. ASSUME \A d \in Dim : v[d] = w[d] PROVE v = w
  <2>1. v = [d \in Dim |-> v[d]] /\ w = [d \in Dim |-> w[d]]
    BY DEF Vector
  <2> QED
    BY <1>2, <2>1
<1> QED
  BY <1>1, <1>2

(* The cells at least k from the edge, by coordinates.                     *)
LEMMA CellsAre ==
  /\ \A k \in Int : Within(k) \subseteq Vector(Int)
  /\ Cell = Within(0)
  /\ \A k \in Int : \A c \in Vector(Int) :
       c \in Within(k) <=> \A d \in Dim : k <= c[d] /\ c[d] <= H_NX - 1 - k
<1>1. H_NX \in Int
  BY Sizes
<1>2. ASSUME NEW k \in Int, NEW c \in Vector(Int)
      PROVE  c \in Within(k) <=> \A d \in Dim : k <= c[d] /\ c[d] <= H_NX - 1 - k
  BY <1>1 DEF Within, Vector
<1>3. \A k \in Int : Within(k) \subseteq Vector(Int)
  BY <1>1 DEF Within, Vector
<1>4. Cell = Within(0)
  BY <1>1 DEF Within, Cell
<1> QED
  BY <1>2, <1>3, <1>4

(* Vectors that agree in each coordinate.                                  *)
LEMMA SameVector ==
  ASSUME NEW v \in Vector(Int), NEW w \in Vector(Int), \A d \in Dim : v[d] = w[d]
  PROVE  v = w
BY Vectors

(* Directions: one step at most in each dimension, and back by Flip.       *)
LEMMA DirectionsAre ==
  ASSUME NEW d \in Direction
  PROVE  /\ d \in Vector(Int) /\ \A e \in Dim : d[e] \in {-1, 0, 1}
         /\ Flip(d) \in Direction /\ Flip(d) \in Vector(Int)
         /\ \A e \in Dim : Flip(d)[e] = 0 - d[e]
         /\ \A dim \in Dim : /\ FlipDim(d, dim) \in Direction
                             /\ \A e \in Dim : FlipDim(d, dim)[e] = IF e = dim THEN 0 - d[e] ELSE d[e]
<1>1. d \in Vector(Int) /\ (\A e \in Dim : d[e] \in {-1, 0, 1}) /\ d = [e \in Dim |-> d[e]]
  BY DEF Direction, Vector
<1>2. PICK e \in Dim : d[e] # 0
  <2> SUFFICES ASSUME \A e \in Dim : d[e] = 0 PROVE FALSE
    OBVIOUS
  <2>1. d = [e \in Dim |-> 0]
    BY <1>1
  <2> QED
    BY <2>1 DEF Direction
<1>3. \A g \in Dim : Flip(d)[g] = 0 - d[g] /\ Flip(d)[g] \in -1..1
  BY <1>1 DEF Flip, Times
<1>4. Flip(d) \in Vector(-1..1)
  BY <1>3 DEF Flip, Times, Vector
<1>5. Flip(d) # [g \in Dim |-> 0]
  <2>1. Flip(d)[e] # 0
    BY <1>1, <1>2, <1>3
  <2> QED
    BY <2>1
<1>6. ASSUME NEW dim \in Dim
      PROVE  /\ FlipDim(d, dim) \in Direction
             /\ \A g \in Dim : FlipDim(d, dim)[g] = IF g = dim THEN 0 - d[g] ELSE d[g]
  <2>1. \A g \in Dim : FlipDim(d, dim)[g] = IF g = dim THEN 0 - d[g] ELSE d[g]
    BY <1>1 DEF FlipDim
  <2>2. FlipDim(d, dim) \in Vector(-1..1)
    BY <1>1, <2>1 DEF FlipDim, Vector
  <2>3. FlipDim(d, dim)[e] # 0
    BY <1>1, <1>2, <2>1
  <2> QED
    BY <2>1, <2>2, <2>3 DEF Direction
<1> QED
  BY <1>1, <1>3, <1>4, <1>5, <1>6 DEF Direction, Vector

-----------------------------------------------------------------------------
(* One step from a cell leads at most one cell nearer to the edge.         *)
LEMMA Stepping ==
  ASSUME NEW k \in Int, NEW c \in Within(k), NEW d \in Direction
  PROVE  /\ c \in Vector(Int)
         /\ Plus(c, d) \in Within(k - 1) /\ Minus(c, d) \in Within(k - 1)
         /\ \A j \in -2..2 : Plus(c, Times(j, d)) \in Within(k - 2)
         /\ \A j \in Int : j <= k => c \in Within(j)
<1>1. c \in Vector(Int) /\ d \in Vector(Int) /\ H_NX \in Int
  BY CellsAre, DirectionsAre, Sizes
<1>2. \A e \in Dim : /\ c[e] \in Int /\ k <= c[e] /\ c[e] <= H_NX - 1 - k
                     /\ d[e] \in {-1, 0, 1}
  BY <1>1, CellsAre, DirectionsAre, Vectors
<1>3. Plus(c, d) \in Within(k - 1) /\ Minus(c, d) \in Within(k - 1)
  <2>1. Plus(c, d) \in Vector(Int) /\ Minus(c, d) \in Vector(Int)
    BY <1>1, Vectors
  <2>2. \A e \in Dim : Plus(c, d)[e] = c[e] + d[e] /\ Minus(c, d)[e] = c[e] - d[e]
    BY <1>1, Vectors
  <2>3. \A e \in Dim : /\ k - 1 <= Plus(c, d)[e] /\ Plus(c, d)[e] <= H_NX - 1 - (k - 1)
                       /\ k - 1 <= Minus(c, d)[e] /\ Minus(c, d)[e] <= H_NX - 1 - (k - 1)
    BY <1>1, <1>2, <2>2
  <2> QED
    BY <2>1, <2>3, CellsAre
<1>4. ASSUME NEW j \in -2..2 PROVE Plus(c, Times(j, d)) \in Within(k - 2)
  <2>1. Times(j, d) \in Vector(Int) /\ \A e \in Dim : Times(j, d)[e] = j * d[e]
    BY <1>1, Vectors
  <2>2. /\ Plus(c, Times(j, d)) \in Vector(Int)
        /\ \A e \in Dim : Plus(c, Times(j, d))[e] = c[e] + j * d[e]
    BY <1>1, <2>1, Vectors
  <2>3. \A e \in Dim : /\ k - 2 <= c[e] + j * d[e]
                       /\ c[e] + j * d[e] <= H_NX - 1 - (k - 2)
    BY <1>1, <1>2
  <2> QED
    BY <2>2, <2>3, CellsAre
<1>5. ASSUME NEW j \in Int, j <= k PROVE c \in Within(j)
  <2>1. \A e \in Dim : j <= c[e] /\ c[e] <= H_NX - 1 - j
    BY <1>1, <1>2, <1>5
  <2> QED
    BY <1>1, <2>1, CellsAre
<1> QED
  BY <1>1, <1>3, <1>4, <1>5

(* What is one or two cells from a deeper ring is in a ring less deep.     *)
LEMMA Rings ==
  /\ \A c \in Within(1) : c \in Within(0) /\ c \in Vector(Int) /\ c \in Cell
  /\ \A c \in Within(2) : c \in Within(1)
  /\ \A c \in Within(1), d \in Direction : Plus(c, d) \in Within(0) /\ Minus(c, d) \in Within(0)
  /\ \A c \in Within(2), d \in Direction : /\ Plus(c, d) \in Within(1) /\ Minus(c, d) \in Within(1)
                                           /\ \A j \in -2..2 : Plus(c, Times(j, d)) \in Within(0)
<1>1. 1 \in Int /\ 2 \in Int /\ 1 - 1 = 0 /\ 2 - 1 = 1 /\ 2 - 2 = 0 /\ 0 \in Int
      /\ 0 <= 1 /\ 1 <= 2
  OBVIOUS
<1>2. \A c \in Within(1) : c \in Within(0) /\ c \in Vector(Int) /\ c \in Cell
  <2>1. Within(1) \subseteq Within(0)
    BY Sizes DEF Within, Vector
  <2> QED
    BY <1>1, <2>1, CellsAre
<1>3. \A c \in Within(2) : c \in Within(1)
  BY Sizes DEF Within, Vector
<1>4. ASSUME NEW c \in Within(1), NEW d \in Direction
      PROVE  Plus(c, d) \in Within(0) /\ Minus(c, d) \in Within(0)
  <2>1. Plus(c, d) \in Within(1 - 1) /\ Minus(c, d) \in Within(1 - 1)
    BY <1>1, Stepping
  <2> QED
    BY <1>1, <2>1
<1>5. ASSUME NEW c \in Within(2), NEW d \in Direction
      PROVE  /\ Plus(c, d) \in Within(1) /\ Minus(c, d) \in Within(1)
             /\ \A j \in -2..2 : Plus(c, Times(j, d)) \in Within(0)
  <2>1. /\ Plus(c, d) \in Within(2 - 1) /\ Minus(c, d) \in Within(2 - 1)
        /\ \A j \in -2..2 : Plus(c, Times(j, d)) \in Within(2 - 2)
    BY <1>1, Stepping
  <2> QED
    BY <1>1, <2>1
<1> QED
  BY <1>2, <1>3, <1>4, <1>5

(* The fields the kernels name.                                            *)
LEMMA FieldsAre ==
  /\ \A f \in Field : Uses[f] \subseteq Field /\ (f # "lx" => "lx" \notin Uses[f])
  /\ \A f \in Field : Depth[f] = (IF f = "lx" THEN 1 ELSE 0)
  /\ {"rho", "sx", "egas"} \subseteq Field \ {"lx"}
BY DEF Field, Uses, Depth

(* A primitive variable is made of the cell it belongs to.                 *)
LEMMA PrimitiveIsGiven ==
  ASSUME NEW f \in Field, NEW c \in Within(IF f = "lx" THEN 1 ELSE 0)
  PROVE  Primitive(f, c) \subseteq Given
<1> SUFFICES ASSUME NEW g \in Uses[f] PROVE <<g, c>> \in Given
  BY DEF Primitive
<1>1. g \in Field /\ (f # "lx" => g # "lx")
  BY FieldsAre
<1>2. c \in Within(0) /\ c \in Cell
  BY CellsAre, Sizes DEF Within, Vector, Cell
<1>3. c \in Within(Depth[g])
  BY <1>1, <1>2, FieldsAre
<1> QED
  BY <1>1, <1>2, <1>3 DEF Given

(* A slope is made of the cells beside its own.                            *)
LEMMA SlopeIsGiven ==
  ASSUME NEW f \in Field \ {"lx"}, NEW d \in Direction, NEW c \in Within(1)
  PROVE  D1(f, d, c) \subseteq Given
<1>1. \A x \in {Minus(c, d), c, Plus(c, d)} : x \in Within(0)
  BY Stepping
<1>2. \A x \in {Minus(c, d), c, Plus(c, d)} : Primitive(f, x) \subseteq Given
  BY <1>1, PrimitiveIsGiven
<1> QED
  BY <1>2 DEF D1

(* Both ways to a point halfway between two cells lead there.              *)
LEMMA HalfwayIs ==
  ASSUME NEW f \in Field \ {"lx"}, NEW d \in Direction, NEW c \in Within(2)
  PROVE  /\ Halfway(f, d, c).at = Plus(Times(2, c), d)
         /\ Halfway(f, d, c).from \subseteq Given
<1> DEFINE i == IF d \in FirstHalf THEN c ELSE Plus(c, d)
           di == IF d \in FirstHalf THEN d ELSE Flip(d)
<1>1. /\ c \in Vector(Int) /\ d \in Vector(Int) /\ Flip(d) \in Vector(Int) /\ Flip(d) \in Direction
      /\ c \in Within(1) /\ Plus(c, d) \in Within(1) /\ Plus(c, d) \in Vector(Int)
  BY Rings, DirectionsAre
<1>2. Plus(Plus(c, d), Flip(d)) = c
  <2>1. /\ Plus(Plus(c, d), Flip(d)) \in Vector(Int)
        /\ \A e \in Dim : Plus(Plus(c, d), Flip(d))[e] = (c[e] + d[e]) + (0 - d[e])
    BY <1>1, Vectors, DirectionsAre
  <2>2. \A e \in Dim : c[e] \in Int /\ d[e] \in Int
    BY <1>1, Vectors
  <2>3. \A e \in Dim : Plus(Plus(c, d), Flip(d))[e] = c[e]
    BY <2>1, <2>2
  <2> QED
    BY <1>1, <2>1, <2>3, SameVector
<1>3. i \in Within(1) /\ Plus(i, di) \in Within(1) /\ di \in Direction
  BY <1>1, <1>2
<1>4. Plus(Times(2, i), di) = Plus(Times(2, c), d)
  <2>1. CASE d \in FirstHalf
    BY <2>1
  <2>2. CASE d \notin FirstHalf
    <3> DEFINE v == Plus(Times(2, Plus(c, d)), Flip(d))
               w == Plus(Times(2, c), d)
    <3>0. Times(2, Plus(c, d)) \in Vector(Int) /\ Times(2, c) \in Vector(Int)
      <4>1. 2 \in Int
        OBVIOUS
      <4> QED
        BY <1>1, <4>1, Vectors
    <3>1. v \in Vector(Int) /\ w \in Vector(Int)
      BY <1>1, <3>0, Vectors
    <3>2. \A e \in Dim : /\ v[e] = 2 * (c[e] + d[e]) + (0 - d[e])
                         /\ w[e] = 2 * c[e] + d[e] /\ c[e] \in Int /\ d[e] \in Int
      <4>1. \A e \in Dim : /\ Times(2, Plus(c, d))[e] = 2 * (c[e] + d[e])
                           /\ Times(2, c)[e] = 2 * c[e]
        BY DEF Times, Plus
      <4>2. \A e \in Dim : /\ v[e] = Times(2, Plus(c, d))[e] + Flip(d)[e]
                           /\ w[e] = Times(2, c)[e] + d[e]
        BY <1>1, <3>0, Vectors
      <4> QED
        BY <1>1, <4>1, <4>2, Vectors, DirectionsAre
    <3> HIDE DEF v, w
    <3>3. \A e \in Dim : v[e] = w[e]
      BY <3>2
    <3>4. v = w
      BY <3>1, <3>3, Vectors
    <3> QED
      BY <2>2, <3>4 DEF v, w
  <2> QED
    BY <2>1, <2>2
<1>5. \A x \in {i, Plus(i, di)} : Primitive(f, x) \cup D1(f, di, x) \subseteq Given
  <2>1. \A x \in {i, Plus(i, di)} : x \in Within(1) /\ x \in Within(0)
    BY <1>3, Rings
  <2> HIDE DEF i, di
  <2> QED
    BY <1>3, <2>1, PrimitiveIsGiven, SlopeIsGiven
<1>6. Halfway(f, d, c) =
        [at |-> Plus(Times(2, i), di),
         from |-> UNION {Primitive(f, x) \cup D1(f, di, x) : x \in {i, Plus(i, di)}}]
  BY <1>3 DEF Halfway
<1> HIDE DEF i, di
<1>7. UNION {Primitive(f, x) \cup D1(f, di, x) : x \in {i, Plus(i, di)}} \subseteq Given
  BY <1>5
<1> QED
  BY <1>4, <1>6, <1>7

(* The test for a contact discontinuity.                                   *)
LEMMA DiscIsGiven ==
  ASSUME NEW f \in Field \ {"lx"}, NEW d \in Direction, NEW c \in Within(2)
  PROVE  Disc(d, c) \cup UNION {Primitive(f, Plus(c, Times(k, d))) : k \in -2..2} \subseteq Given
<1>1. \A x \in Within(1) : Pressure(x) \subseteq Given
  <2> SUFFICES ASSUME NEW x \in Within(1) PROVE Pressure(x) \subseteq Given
    OBVIOUS
  <2>1. Pressure(x) = {"rho", "sx", "egas"} \X {x}
    BY DEF Pressure
  <2>2. \A g \in {"rho", "sx", "egas"} : <<g, x>> \in Given
    <3>1. x \in Cell /\ x \in Within(0)
      BY Rings
    <3>2. \A g \in {"rho", "sx", "egas"} : g \in Field /\ Depth[g] = 0
      BY FieldsAre
    <3> QED
      BY <3>1, <3>2 DEF Given
  <2> QED
    BY <2>1, <2>2
<1>2. Minus(c, d) \in Within(1) /\ Plus(c, d) \in Within(1)
  BY Rings
<1>3. Disc(d, c) \subseteq Given
  BY <1>1, <1>2 DEF Disc
<1>4. \A k \in -2..2 : Primitive(f, Plus(c, Times(k, d))) \subseteq Given
  BY Rings, PrimitiveIsGiven
<1> QED
  BY <1>3, <1>4

(* The states of reconstruct_ppm.                                          *)
LEMMA PPMIs ==
  ASSUME NEW f \in Field \ {"lx"}, NEW d \in Direction, NEW c \in Within(2),
         NEW smooth \in BOOLEAN, NEW cdisc \in BOOLEAN
  PROVE  /\ ReconstructPPM(f, d, c, smooth, cdisc).at = Plus(Times(2, c), d)
         /\ ReconstructPPM(f, d, c, smooth, cdisc).from \subseteq Given
<1> DEFINE q == Halfway(f, d, c)
           steep == IF cdisc
                    THEN Disc(d, c) \cup UNION {Primitive(f, Plus(c, Times(k, d))) : k \in -2..2}
                    ELSE {}
           monotone == IF smooth THEN {}
                       ELSE Halfway(f, Flip(d), c).from \cup Primitive(f, c)
<1>1. steep \subseteq Given
  BY DiscIsGiven
<1>2. monotone \subseteq Given
  <2>1. Halfway(f, Flip(d), c).from \subseteq Given
    BY HalfwayIs, DirectionsAre
  <2>2. Primitive(f, c) \subseteq Given
    BY Rings, PrimitiveIsGiven
  <2> QED
    BY <2>1, <2>2
<1>3. q.at = Plus(Times(2, c), d) /\ q.from \subseteq Given
  BY HalfwayIs
<1>4. q = [at |-> q.at, from |-> q.from]
  BY DEF Halfway
<1>5. ReconstructPPM(f, d, c, smooth, cdisc) = [q EXCEPT !.from = @ \cup steep \cup monotone]
  BY DEF ReconstructPPM
<1> HIDE DEF q, steep, monotone
<1>6. [q EXCEPT !.from = @ \cup steep \cup monotone] =
        [at |-> q.at, from |-> q.from \cup steep \cup monotone]
  BY <1>4
<1> QED
  BY <1>1, <1>2, <1>3, <1>5, <1>6

(* The states of reconstruct_minmod.                                       *)
LEMMA MinmodIs ==
  ASSUME NEW d \in Direction, NEW c \in Within(2)
  PROVE  /\ ReconstructMinmod("lx", d, c).at = Plus(Times(2, c), d)
         /\ ReconstructMinmod("lx", d, c).from \subseteq Given
<1>1. c \in Within(1)
  BY Rings
<1>2. \A x \in {Minus(c, d), c, Plus(c, d)} : x \in Within(1)
  BY Rings
<1>3. \A x \in {Minus(c, d), c, Plus(c, d)} : Primitive("lx", x) \subseteq Given
  BY <1>2, PrimitiveIsGiven DEF Field
<1> QED
  BY <1>1, <1>3 DEF ReconstructMinmod

(* The velocities after the angular momentum correction.                   *)
LEMMA CorrectedIs ==
  ASSUME NEW d \in Direction, NEW c \in Within(2), NEW cdisc \in BOOLEAN
  PROVE  /\ CorrectedVelocity(d, c, cdisc).at = Plus(Times(2, c), d)
         /\ CorrectedVelocity(d, c, cdisc).from \subseteq Given
<1>1. \A e \in Direction : /\ Velocity(e, c).at = Plus(Times(2, c), e)
                           /\ Velocity(e, c).from \subseteq Given
                           /\ Density(e, c, cdisc).from \subseteq Given
  BY PPMIs, FieldsAre DEF Velocity, Density
<1>2. AM(c, cdisc) \subseteq Given
  <2>1. Primitive("lx", c) \subseteq Given /\ Primitive("rho", c) \subseteq Given
    <3>1. c \in Within(1) /\ c \in Within(0)
      BY Rings
    <3> QED
      BY <3>1, PrimitiveIsGiven DEF Field
  <2> QED
    BY <1>1, <2>1 DEF AM
<1> DEFINE line == {d, Flip(d)}
           own == UNION {Velocity(e, c).from \cup Density(e, c, cdisc).from
                           \cup Primitive("sx", Plus(c, e)) : e \in line}
           q == Velocity(d, c)
           am == AM(c, cdisc)
<1>3. \A e \in line : e \in Direction
  BY DirectionsAre
<1>4. own \subseteq Given
  <2>1. \A e \in line : Plus(c, e) \in Within(0)
    <3> HIDE DEF line
    <3> QED
      BY <1>3, Rings
  <2> HIDE DEF line
  <2>2. \A e \in line : Primitive("sx", Plus(c, e)) \subseteq Given
    BY <2>1, PrimitiveIsGiven DEF Field
  <2> QED
    BY <1>1, <1>3, <2>2
<1>5. q = [at |-> q.at, from |-> q.from]
  BY DEF Velocity, ReconstructPPM, Halfway
<1>6. CorrectedVelocity(d, c, cdisc) = [q EXCEPT !.from = @ \cup am \cup own]
  BY Zenon DEF CorrectedVelocity
<1>7. q.at = Plus(Times(2, c), d) /\ q.from \subseteq Given /\ am \subseteq Given
  BY <1>1, <1>2
<1> HIDE DEF q, am, own
<1>8. [q EXCEPT !.from = @ \cup am \cup own] = [at |-> q.at, from |-> q.from \cup am \cup own]
  BY ONLY <1>5, SMTT(20)
<1> QED
  BY <1>4, <1>6, <1>7, <1>8

(* The states at a point are all at that point, and of given cells.        *)
LEMMA StateIs ==
  ASSUME NEW d \in Direction, NEW c \in Within(2), NEW correct_am \in BOOLEAN, NEW cdisc \in BOOLEAN
  PROVE  /\ State(d, c, correct_am, cdisc).at = {Plus(Times(2, c), d)}
         /\ State(d, c, correct_am, cdisc).from \subseteq Given
<1> DEFINE rec(f) == Reconstruct(f, d, c, correct_am, cdisc)
<1>1. ASSUME NEW f \in Field
      PROVE  rec(f).at = Plus(Times(2, c), d) /\ rec(f).from \subseteq Given
  <2>1. CASE f = "lx"
    <3>1. rec(f) = ReconstructMinmod("lx", d, c)
      BY <2>1 DEF Reconstruct
    <3> QED
      BY <3>1, MinmodIs
  <2>2. CASE f = "sx" /\ correct_am
    <3>1. rec(f) = CorrectedVelocity(d, c, cdisc)
      BY <2>2 DEF Reconstruct
    <3> QED
      BY <3>1, CorrectedIs
  <2>3. CASE f = "rho"
    <3>1. rec(f) = ReconstructPPM("rho", d, c, FALSE, cdisc)
      BY <2>3 DEF Reconstruct, Density
    <3>2. "rho" \in Field \ {"lx"} /\ FALSE \in BOOLEAN
      BY FieldsAre
    <3>3. /\ ReconstructPPM("rho", d, c, FALSE, cdisc).at = Plus(Times(2, c), d)
          /\ ReconstructPPM("rho", d, c, FALSE, cdisc).from \subseteq Given
      BY ONLY <3>2, PPMIs, d \in Direction, c \in Within(2), cdisc \in BOOLEAN
    <3> QED
      BY <3>1, <3>3
  <2>4. CASE f # "lx" /\ ~(f = "sx" /\ correct_am) /\ f # "rho"
    <3>1. rec(f) = ReconstructPPM(f, d, c, FALSE, FALSE)
      BY <2>4 DEF Reconstruct
    <3>2. f \in Field \ {"lx"} /\ FALSE \in BOOLEAN
      BY <2>4
    <3>3. /\ ReconstructPPM(f, d, c, FALSE, FALSE).at = Plus(Times(2, c), d)
          /\ ReconstructPPM(f, d, c, FALSE, FALSE).from \subseteq Given
      BY ONLY <3>2, PPMIs, d \in Direction, c \in Within(2)
    <3> QED
      BY <3>1, <3>3
  <2> QED
    BY <2>1, <2>2, <2>3, <2>4
<1> DEFINE q == {rec(f) : f \in Field}
<1>2. State(d, c, correct_am, cdisc) = [at |-> {r.at : r \in q}, from |-> UNION {r.from : r \in q}]
  BY DEF State
<1> HIDE DEF rec
<1>3. {r.at : r \in q} = {Plus(Times(2, c), d)}
  BY <1>1, FieldsAre
<1>4. UNION {r.from : r \in q} \subseteq Given
  BY <1>1
<1> QED
  BY <1>2, <1>3, <1>4

(* The step to the neighboring cell in a dimension.                        *)
LEMMA UnitIs ==
  ASSUME NEW dim \in Dim
  PROVE  Unit(dim) \in Vector(Int) /\ \A e \in Dim : Unit(dim)[e] = IF e = dim THEN 1 ELSE 0
BY DEF Unit, Vector

(* The two states at a point of a face: both are there.                    *)
LEMMA FluxIsGiven ==
  ASSUME NEW dim \in Dim, NEW c \in FluxCell(dim), NEW correct_am \in BOOLEAN, NEW cdisc \in BOOLEAN
  PROVE  Flux(dim, c, correct_am, cdisc) \subseteq Given
<1> DEFINE b == Minus(c, Unit(dim))
           point(d) == Plus(Times(2, c), d)
           R(d) == State(d, c, correct_am, cdisc)
           L(d) == State(FlipDim(d, dim), b, correct_am, cdisc)
<1>1. c \in Vector(Int) /\ b \in Vector(Int) /\ \A e \in Dim : c[e] \in Int
  <2>1. c \in Vector(Int)
    BY CellsAre DEF FluxCell
  <2> QED
    BY <2>1, Vectors, UnitIs
<1>2. \A e \in Dim : /\ 3 <= c[e] /\ c[e] <= H_NX - 3
                     /\ b[e] = c[e] - (IF e = dim THEN 1 ELSE 0)
  <2>1. \A e \in Dim : b[e] = c[e] - (IF e = dim THEN 1 ELSE 0)
    BY <1>1, Vectors, UnitIs
  <2>2. \A e \in Dim : 3 <= c[e] /\ c[e] < H_NX - 3 + (IF e = dim THEN 1 ELSE 0)
    BY DEF FluxCell
  <2> QED
    BY <1>1, <2>1, <2>2, Sizes
<1>3. c \in Within(2) /\ b \in Within(2)
  <2> HIDE DEF b
  <2>1. \A e \in Dim : /\ 2 <= c[e] /\ c[e] <= H_NX - 1 - 2
                       /\ 2 <= b[e] /\ b[e] <= H_NX - 1 - 2
    BY <1>1, <1>2, Sizes
  <2>2. 2 \in Int
    OBVIOUS
  <2> QED
    BY <1>1, <2>1, <2>2, CellsAre
<1>4. ASSUME NEW d \in FacePts(dim)
      PROVE  /\ R(d).at = {point(d)} /\ L(d).at = {point(d)}
             /\ R(d).from \subseteq Given /\ L(d).from \subseteq Given
  <2>1. d \in Direction /\ d[dim] = -1 /\ d \in Vector(Int)
    BY DirectionsAre DEF FacePts
  <2>2. FlipDim(d, dim) \in Direction /\ FlipDim(d, dim) \in Vector(Int)
    BY <2>1, DirectionsAre
  <2>3. R(d).at = {point(d)} /\ R(d).from \subseteq Given
    BY <1>3, <2>1, StateIs
  <2>4. L(d).at = {Plus(Times(2, b), FlipDim(d, dim))} /\ L(d).from \subseteq Given
    BY <1>3, <2>2, StateIs
  <2>5. Plus(Times(2, b), FlipDim(d, dim)) = point(d)
    <3> DEFINE v == Plus(Times(2, b), FlipDim(d, dim))
               w == Plus(Times(2, c), d)
    <3>1. Times(2, b) \in Vector(Int) /\ Times(2, c) \in Vector(Int)
      <4>1. 2 \in Int
        OBVIOUS
      <4> QED
        BY <1>1, <4>1, Vectors
    <3>2. v \in Vector(Int) /\ w \in Vector(Int)
      BY <2>1, <2>2, <3>1, Vectors
    <3>3. \A e \in Dim : v[e] = 2 * b[e] + FlipDim(d, dim)[e] /\ w[e] = 2 * c[e] + d[e]
      <4> HIDE DEF b
      <4> QED
        BY DEF Plus, Times
    <3>4. \A e \in Dim : FlipDim(d, dim)[e] = IF e = dim THEN 0 - d[e] ELSE d[e]
      BY <2>1, DirectionsAre
    <3>5. \A e \in Dim : d[e] \in Int
      BY <2>1, Vectors
    <3> HIDE DEF v, w, b
    <3>6. ASSUME NEW e \in Dim PROVE v[e] = w[e]
      <4>1. CASE e = dim
        BY <1>1, <1>2, <2>1, <3>3, <3>4, <4>1
      <4>2. CASE e # dim
        BY <1>1, <1>2, <3>3, <3>4, <3>5, <4>2
      <4> QED
        BY <4>1, <4>2
    <3>7. v = w
      BY <3>2, <3>6, Vectors
    <3> QED
      BY <3>7 DEF v, w
  <2> QED
    BY <2>3, <2>4, <2>5
<1>5. Flux(dim, c, correct_am, cdisc) =
        UNION {IF R(d).at = {point(d)} /\ L(d).at = {point(d)}
               THEN R(d).from \cup L(d).from ELSE Stale : d \in FacePts(dim)}
  BY Zenon DEF Flux
<1> HIDE DEF R, L, point, b
<1> QED
  BY <1>4, <1>5

(* Whatever the options, what a leaf's next stage is made of is given.     *)
(* With or without cdisc_detect and correct_am_hydro, all that the kernels *)
(* of a stage read, through every scratch array, are cells of this grid as *)
(* deep as set_hydro_boundary goes for the field, and nothing that an      *)
(* earlier call has left.                                                  *)
THEOREM KernelsReadGiven == \A k \in Kernels : k.reads \subseteq Given
<1> SUFFICES ASSUME NEW correct_am \in BOOLEAN, NEW cdisc \in BOOLEAN
             PROVE  DuDt(correct_am, cdisc) \subseteq Given
  BY DEF Kernels
<1>1. ASSUME NEW c \in Inner PROVE \A dim \in Dim : c \in FluxCell(dim) /\ Plus(c, Unit(dim)) \in FluxCell(dim)
  <2>1. H_BW \in Int
    BY Sizes
  <2>2. c \in Vector(Int) /\ \A e \in Dim : /\ c[e] \in Int
                                            /\ H_BW <= c[e] /\ c[e] <= H_NX - 1 - H_BW
    BY <2>1, CellsAre, Vectors DEF Inner
  <2>3. ASSUME NEW dim \in Dim PROVE Plus(c, Unit(dim)) \in FluxCell(dim) /\ c \in FluxCell(dim)
    <3> DEFINE b == Plus(c, Unit(dim))
    <3>1. b \in Vector(Int)
      BY <2>2, Vectors, UnitIs
    <3>2. \A e \in Dim : b[e] = c[e] + (IF e = dim THEN 1 ELSE 0)
      BY <2>2, Vectors, UnitIs
    <3> HIDE DEF b
    <3>3. \A e \in Dim : /\ 3 <= b[e] /\ b[e] < H_NX - 3 + (IF e = dim THEN 1 ELSE 0)
                         /\ 3 <= c[e] /\ c[e] < H_NX - 3
                         /\ 0 <= b[e] /\ b[e] <= H_NX - 1 - 0
                         /\ 0 <= c[e] /\ c[e] <= H_NX - 1 - 0
      BY <2>2, <3>2, Sizes
    <3>4. b \in Cell /\ c \in Cell
      <4>1. 0 \in Int
        OBVIOUS
      <4> QED
        BY <2>2, <3>1, <3>3, <4>1, CellsAre
    <3>5. \A e \in Dim : c[e] < H_NX - 3 + (IF e = dim THEN 1 ELSE 0)
      BY <2>2, <3>3, Sizes
    <3>6. b \in FluxCell(dim) /\ c \in FluxCell(dim)
      BY <3>3, <3>4, <3>5 DEF FluxCell
    <3> QED
      BY <3>6 DEF b
  <2> QED
    BY <2>3
<1>2. Field \X Inner \subseteq Given
  <2>1. \A c \in Inner : c \in Within(1) /\ c \in Within(0) /\ c \in Cell
    <3>1. Inner \subseteq Within(1)
      BY Sizes DEF Inner, Within, Vector
    <3> QED
      BY <3>1, Rings
  <2>2. ASSUME NEW f \in Field, NEW c \in Inner PROVE <<f, c>> \in Given
    <3>1. c \in Within(Depth[f])
      BY <2>1, FieldsAre
    <3> QED
      BY <2>1, <3>1 DEF Given
  <2> QED
    BY <2>2
<1> DEFINE read(dim, c) == Flux(dim, c, correct_am, cdisc)
                             \cup Flux(dim, Plus(c, Unit(dim)), correct_am, cdisc)
<1>3. \A dim \in Dim, c \in Inner : read(dim, c) \subseteq Given
  BY <1>1, FluxIsGiven
<1>4. DuDt(correct_am, cdisc) = (Field \X Inner) \cup UNION {read(dim, c) : dim \in Dim, c \in Inner}
  BY DEF DuDt
<1> HIDE DEF read
<1> QED
  BY <1>2, <1>3, <1>4

-----------------------------------------------------------------------------
(* The number of coordinates on a level doubles from one to the next:      *)
(* counted by the subsets of an interval, as the provers do not compute    *)
(* powers.                                                                 *)
LEMMA Doubling == 2^0 = 1 /\ \A l \in Nat : 2^(l + 1) = 2^l + 2^l
<1>1. 2^0 = 1
  <2>1. SUBSET {} = {{}}
    OBVIOUS
  <2>2. Cardinality(SUBSET {}) = 2^Cardinality({})
    BY FS_EmptySet, FS_SUBSET
  <2> QED
    BY <2>1, <2>2, FS_EmptySet, FS_Singleton
<1>2. ASSUME NEW l \in Nat PROVE 2^(l + 1) = 2^l + 2^l
  <2> DEFINE S == 1..l
             T == 1..(l + 1)
             Old == SUBSET S
             New == {P \cup {l + 1} : P \in Old}
             f == [P \in Old |-> P \cup {l + 1}]
  <2>1. /\ IsFiniteSet(S) /\ Cardinality(S) = l
        /\ IsFiniteSet(T) /\ Cardinality(T) = l + 1
    BY FS_Interval
  <2>2. /\ IsFiniteSet(Old) /\ Cardinality(Old) = 2^l
        /\ Cardinality(SUBSET T) = 2^(l + 1)
    BY <2>1, FS_SUBSET
  <2>3. SUBSET T = Old \cup New
    <3>1. T = S \cup {l + 1}
      OBVIOUS
    <3>2. ASSUME NEW Q \in SUBSET T, Q \notin Old PROVE Q \in New
      <4>1. l + 1 \in Q /\ Q \ {l + 1} \in Old /\ Q = (Q \ {l + 1}) \cup {l + 1}
        BY <3>1, <3>2
      <4> QED
        BY <4>1
    <3>3. Old \subseteq SUBSET T /\ New \subseteq SUBSET T
      BY <3>1
    <3> QED
      <4> HIDE DEF S, T, New
      <4> QED
        BY <3>2, <3>3
  <2>4. \A P \in Old : l + 1 \notin P
    OBVIOUS
  <2>5. Old \cap New = {}
    BY <2>4
  <2>6. IsFiniteSet(New) /\ Cardinality(New) = Cardinality(Old)
    <3>1. f \in Bijection(Old, New)
      <4>1. f \in [Old -> New] /\ \A Q \in New : \E P \in Old : f[P] = Q
        OBVIOUS
      <4>2. ASSUME NEW P \in Old, NEW Q \in Old, f[P] = f[Q] PROVE P = Q
        <5>1. P \cup {l + 1} = Q \cup {l + 1}
          BY <4>2
        <5> QED
          BY <2>4, <5>1
      <4> QED
        BY <4>1, <4>2 DEF Bijection, Injection, Surjection, IsInjective
    <3> QED
      BY <2>2, <3>1, FS_Bijection DEF ExistsBijection
  <2> HIDE DEF S, T, Old, New
  <2>7. /\ Cardinality(Old \cup New)
             = Cardinality(Old) + Cardinality(New) - Cardinality({})
        /\ Cardinality(Old) \in Nat
    BY <2>2, <2>5, <2>6, FS_Union, FS_CardinalityType
  <2>8. Cardinality(SUBSET T) = Cardinality(Old) + Cardinality(Old)
    <3>1. Cardinality(SUBSET T) = Cardinality(Old \cup New)
      BY <2>3, Zenon
    <3>2. Cardinality({}) = 0
      BY FS_EmptySet
    <3>3. Cardinality(SUBSET T) = Cardinality(Old) + Cardinality(New) - 0
      BY <2>7, <3>1, <3>2, Zenon
    <3> QED
      BY <2>6, <2>7, <3>3
  <2> QED
    BY <2>2, <2>8
<1> QED
  BY <1>1, <1>2

(* A set of natural numbers has a least one.                               *)
LEMMA LeastElement ==
  ASSUME NEW T \in SUBSET Nat, T # {}
  PROVE  \E k \in T : \A j \in T : k <= j
<1> DEFINE R == {ss \in Nat \X Nat : ss[1] < ss[2]}
<1>1. R = OpToRel(<, Nat)
  BY DEF OpToRel
<1>2. IsWellFoundedOn(R, Nat)
  BY <1>1, NatLessThanWellFounded, Zenon
<1>3. PICK k \in T : \A j \in T : ~(<<j, k>> \in R)
  <2> HIDE DEF R
  <2> QED
    BY <1>2, WFMin
<1>4. ASSUME NEW j \in T PROVE k <= j
  <2>1. j \in Nat /\ k \in Nat /\ <<j, k>> \notin R
    BY <1>3
  <2> QED
    BY <2>1
<1> QED
  BY <1>4

(* A level has coordinates.                                                *)
LEMMA Powers == \A k \in Nat : 2^k \in Nat \ {0}
<1> DEFINE T == {k \in Nat : ~(2^k \in Nat \ {0})}
<1>1. ASSUME T # {} PROVE FALSE
  <2>1. PICK k \in T : \A j \in T : k <= j
    BY <1>1, LeastElement
  <2>2. k # 0
    <3>1. 2^0 \in Nat \ {0}
      BY Doubling
    <3>2. ~(2^k \in Nat \ {0})
      BY <2>1
    <3> QED
      BY ONLY <3>1, <3>2
  <2>3. k - 1 \in Nat /\ k - 1 \notin T
    BY <2>1, <2>2
  <2>4. 2^k = 2^(k - 1) + 2^(k - 1)
    <3>1. k = (k - 1) + 1
      BY <2>3
    <3> QED
      BY <2>3, <3>1, Doubling
  <2> QED
    BY <2>1, <2>3, <2>4
<1> QED
  BY <1>1


-----------------------------------------------------------------------------
(* A node's place in the tree: its coordinates are those of its level.     *)
Located(n) == /\ n.lev \in 0..MaxLevel /\ n.x \in Vector(0..(2^n.lev - 1))
              /\ n = [lev |-> n.lev, x |-> n.x]

(* The root's place.                                                       *)
LEMMA RootIs == /\ Root.lev = 0 /\ Root = [lev |-> Root.lev, x |-> Root.x]
                /\ Root.x \in Vector(0..(2^Root.lev - 1)) /\ Located(Root)
                /\ \A d \in Dim : Root.x[d] = 0
<1>1. Root.lev = 0 /\ Root = [lev |-> Root.lev, x |-> Root.x] /\ \A d \in Dim : Root.x[d] = 0
  BY DEF Root
<1>2. 2^0 - 1 = 0
  BY Doubling
<1>3. Root.x \in Vector(0..0)
  BY DEF Root, Vector
<1>4. Root.lev \in 0..MaxLevel
  BY <1>1, TreesAssumption
<1> QED
  BY <1>1, <1>2, <1>3, <1>4 DEF Located

(* A child and its parent find each other.                                 *)
LEMMA ChildIs ==
  ASSUME NEW n, n.lev \in Int, n.x \in Vector(Int), n = [lev |-> n.lev, x |-> n.x],
         NEW ci \in Octant
  PROVE  /\ Child(n, ci).lev = n.lev + 1 /\ Child(n, ci).x \in Vector(Int)
         /\ \A d \in Dim : /\ Child(n, ci).x[d] = 2 * n.x[d] + ci[d]
                           /\ n.x[d] \in Int /\ ci[d] \in {0, 1}
         /\ Parent(Child(n, ci)) = n /\ ChildIndex(Child(n, ci)) = ci
         /\ Child(n, ci) = [lev |-> Child(n, ci).lev, x |-> Child(n, ci).x]
<1>1. /\ Child(n, ci).lev = n.lev + 1 /\ Child(n, ci).x = Plus(Times(2, n.x), ci)
      /\ Child(n, ci) = [lev |-> Child(n, ci).lev, x |-> Child(n, ci).x]
  BY DEF Child
<1>2. ci \in Vector(Int) /\ ci = [d \in Dim |-> ci[d]] /\ \A d \in Dim : ci[d] \in {0, 1}
  BY DEF Octant, Vector
<1>3. n.x = [d \in Dim |-> n.x[d]] /\ \A d \in Dim : n.x[d] \in Int
  BY DEF Vector
<1>4. \A d \in Dim : Child(n, ci).x[d] = 2 * n.x[d] + ci[d]
  BY <1>1 DEF Plus, Times
<1>5. Child(n, ci).x \in Vector(Int)
  BY <1>1, <1>2, <1>3 DEF Plus, Times, Vector
<1>6. \A d \in Dim : /\ Child(n, ci).x[d] \div 2 = n.x[d]
                     /\ Child(n, ci).x[d] % 2 = ci[d]
  BY <1>2, <1>3, <1>4
<1>7. Parent(Child(n, ci)) = [lev |-> n.lev, x |-> [d \in Dim |-> n.x[d]]]
  <2>1. [d \in Dim |-> Child(n, ci).x[d] \div 2] = [d \in Dim |-> n.x[d]]
    BY <1>6
  <2>2. (n.lev + 1) - 1 = n.lev
    OBVIOUS
  <2> QED
    BY <1>1, <2>1, <2>2 DEF Parent
<1>8. ChildIndex(Child(n, ci)) = [d \in Dim |-> ci[d]]
  BY <1>6 DEF ChildIndex
<1> QED
  BY <1>1, <1>2, <1>3, <1>4, <1>5, <1>7, <1>8

(* All nodes of a tree have their place in it.                             *)
LEMMA NodesAre ==
  ASSUME NEW t \in Trees, NEW n \in Nodes(t)
  PROVE  Located(n)
<1> DEFINE S == {l \in Nat : \E m \in Nodes(t) : m.lev = l /\ ~Located(m)}
<1>1. ASSUME NEW p \in t PROVE p \in Nodes(t) /\ p.lev \in 0..(MaxLevel - 1) /\ p.lev \in Nat
  BY TreesAssumption
<1>2. ASSUME NEW p \in t, Located(p), NEW ci \in Octant PROVE Located(Child(p, ci))
  <2>1. /\ p.lev \in Nat /\ p.lev <= MaxLevel - 1 /\ p.x \in Vector(0..(2^p.lev - 1))
        /\ p = [lev |-> p.lev, x |-> p.x]
    BY <1>1, <1>2 DEF Located
  <2>2. PICK w \in Nat : w = 2^p.lev /\ 2^(p.lev + 1) = w + w
    BY <2>1, Doubling, Powers
  <2>3. p.x \in Vector(Int) /\ \A d \in Dim : p.x[d] \in 0..(w - 1)
    BY <2>1, <2>2 DEF Vector
  <2>4. /\ Child(p, ci).lev = p.lev + 1 /\ Child(p, ci).x \in Vector(Int)
        /\ \A d \in Dim : Child(p, ci).x[d] = 2 * p.x[d] + ci[d] /\ ci[d] \in {0, 1}
        /\ Child(p, ci) = [lev |-> Child(p, ci).lev, x |-> Child(p, ci).x]
    BY <2>1, <2>3, ChildIs
  <2>5. \A d \in Dim : Child(p, ci).x[d] \in 0..(w + w - 1)
    BY <2>3, <2>4
  <2>6. Child(p, ci).x \in Vector(0..(2^(p.lev + 1) - 1))
    BY <2>2, <2>4, <2>5 DEF Vector
  <2> QED
    BY <2>1, <2>4, <2>6, TreesAssumption DEF Located
<1>3. ASSUME S # {} PROVE FALSE
  <2>1. PICK l \in S : \A j \in S : l <= j
    BY <1>3, LeastElement
  <2>2. PICK m \in Nodes(t) : m.lev = l /\ ~Located(m)
    OBVIOUS
  <2>3. PICK p \in t, ci \in Octant : m = Child(p, ci)
    BY <2>2, RootIs DEF Nodes
  <2>4. p.lev \in Nat /\ l = p.lev + 1
    BY <1>1, <2>2, <2>3 DEF Child
  <2>5. p.lev \notin S
    BY <2>1, <2>4
  <2>6. Located(p)
    BY <1>1, <2>4, <2>5
  <2> QED
    BY <1>2, <2>2, <2>3, <2>6
<1>4. ASSUME ~Located(n) PROVE FALSE
  <2>1. n.lev \in Nat
    <3>1. n = Root \/ \E p \in t, ci \in Octant : n = Child(p, ci)
      BY DEF Nodes
    <3> QED
      BY <1>1, <3>1, RootIs DEF Child
  <2> QED
    BY <1>3, <1>4, <2>1
<1> QED
  BY <1>4

(* Every node but the root has a refined parent.                           *)
LEMMA ParentIs ==
  ASSUME NEW t \in Trees, NEW n \in Nodes(t), n # Root
  PROVE  /\ Parent(n) \in t /\ Parent(n) \in Nodes(t) /\ Parent(n).lev = n.lev - 1 /\ n.lev >= 1
         /\ ChildIndex(n) \in Octant /\ Child(Parent(n), ChildIndex(n)) = n
         /\ \A d \in Dim : /\ n.x[d] = 2 * Parent(n).x[d] + ChildIndex(n)[d]
                           /\ ChildIndex(n)[d] \in {0, 1}
<1>1. PICK p \in t, ci \in Octant : n = Child(p, ci)
  BY DEF Nodes
<1>2. p \in Nodes(t) /\ Located(p)
  BY TreesAssumption, NodesAre
<1>3. /\ p.lev \in Nat /\ p.x \in Vector(Int) /\ p = [lev |-> p.lev, x |-> p.x]
  BY <1>2, Powers DEF Located, Vector
<1>4. Parent(n) = p /\ ChildIndex(n) = ci /\ n.lev = p.lev + 1
      /\ \A d \in Dim : n.x[d] = 2 * p.x[d] + ci[d] /\ ci[d] \in {0, 1}
  BY <1>1, <1>3, ChildIs
<1> QED
  BY <1>1, <1>2, <1>3, <1>4

-----------------------------------------------------------------------------
(* A node's cells are half a node wide in its parent.                      *)
LEMMA Halves == /\ INX \div 2 \in Nat /\ INX = 2 * (INX \div 2) /\ INX \in Nat
                /\ H_BW \in Nat /\ H_BW >= 3 /\ INX >= H_BW
                /\ H_NX = INX + 2 * H_BW /\ HS_NX = (INX \div 2) + 2 * H_BW
<1>1. INX \in Nat /\ INX % 2 = 0 /\ H_BW \in Nat /\ H_BW >= 3 /\ INX >= H_BW
  BY GridAssumption
<1>2. INX \div 2 \in Nat /\ INX = 2 * (INX \div 2)
  BY <1>1
<1> QED
  BY <1>1, <1>2 DEF H_NX, HS_NX

(* The cells of whole nodes.                                               *)
LEMMA WholeNodes ==
  /\ \A x \in Int : /\ x * INX \in Int /\ (x + 1) * INX = x * INX + INX
                    /\ (x - 1) * INX = x * INX - INX /\ (x + 0) * INX = x * INX
                    /\ (2 * x) * INX = 2 * (x * INX)
                    /\ (2 * x + 1) * INX = 2 * (x * INX) + INX
  /\ \A x, y \in Int : x <= y => x * INX <= y * INX
  /\ 0 * INX = 0
<1>1. INX \in Nat
  BY Halves
<1>2. ASSUME NEW x \in Int
      PROVE  /\ x * INX \in Int /\ (x + 1) * INX = x * INX + INX
             /\ (x - 1) * INX = x * INX - INX /\ (x + 0) * INX = x * INX
             /\ (2 * x) * INX = 2 * (x * INX)
             /\ (2 * x + 1) * INX = 2 * (x * INX) + INX
  BY <1>1
<1>3. ASSUME NEW x \in Int, NEW y \in Int, x <= y PROVE x * INX <= y * INX
  <2>1. PICK k \in Nat : y = x + k
    BY <1>3
  <2>2. k * INX \in Nat /\ y * INX = x * INX + k * INX
    BY <1>1, <2>1
  <2> QED
    BY <1>1, <2>2
<1> QED
  BY <1>1, <1>2, <1>3

(* The last coordinate of a cell of the domain on a level.                 *)
Last(l) == 2^l * INX - 1

(* The last cell of a level is the last of its last node; it has two parts *)
(* on the next.                                                            *)
LEMMA LastIs ==
  /\ \A l \in Nat : Last(l) \in Nat /\ Last(l + 1) = 2 * Last(l) + 1
  /\ \A l \in Nat : \A x \in Int :
       /\ x <= 2^l - 1 => x * INX + INX - 1 <= Last(l)
       /\ x = 2^l - 1 => x * INX + INX - 1 = Last(l)
  /\ Last(0) = INX - 1
<1>1. INX \in Nat /\ INX >= 3
  BY Halves
<1>2. ASSUME NEW l \in Nat PROVE Last(l) \in Nat /\ Last(l + 1) = 2 * Last(l) + 1
  <2>1. PICK w \in Nat \ {0} : w = 2^l
    BY Powers
  <2>2. 2^(l + 1) = 2 * w
    BY <2>1, Doubling
  <2>3. PICK p \in Int : p = w * INX /\ (2 * w) * INX = 2 * p /\ 1 * INX <= p /\ 1 * INX = INX
    <3>1. w * INX \in Int /\ (2 * w) * INX = 2 * (w * INX) /\ 1 * INX <= w * INX
      <4>1. w \in Int /\ 1 \in Int /\ 1 <= w
        OBVIOUS
      <4> QED
        BY <4>1, WholeNodes
    <3>2. 1 * INX = INX
      BY <1>1
    <3> QED
      BY <3>1, <3>2
  <2>4. Last(l) = p - 1 /\ Last(l + 1) = 2 * p - 1
    BY <2>1, <2>2, <2>3 DEF Last
  <2> QED
    BY <1>1, <2>3, <2>4
<1>3. ASSUME NEW l \in Nat, NEW x \in Int
      PROVE  /\ x <= 2^l - 1 => x * INX + INX - 1 <= Last(l)
             /\ x = 2^l - 1 => x * INX + INX - 1 = Last(l)
  <2>1. PICK w \in Nat \ {0} : w = 2^l
    BY Powers
  <2>2. (x + 1) * INX = x * INX + INX /\ w * INX \in Int /\ x * INX \in Int
    <3>1. w \in Int
      OBVIOUS
    <3> QED
      BY <3>1, WholeNodes
  <2>3. x <= w - 1 => (x + 1) * INX <= w * INX
    <3>1. w \in Int /\ x + 1 \in Int /\ (x <= w - 1 => x + 1 <= w)
      OBVIOUS
    <3> QED
      BY <3>1, WholeNodes
  <2>4. x = w - 1 => (x + 1) * INX = w * INX
    <3>1. x = w - 1 => x + 1 = w
      OBVIOUS
    <3> QED
      BY <3>1
  <2>5. Last(l) = w * INX - 1
    BY <2>1 DEF Last
  <2> QED
    BY ONLY <1>1, <2>1, <2>2, <2>3, <2>4, <2>5
<1>4. Last(0) = INX - 1
  <2>1. 1 * INX = INX
    BY <1>1
  <2> QED
    BY <2>1, Doubling DEF Last
<1> QED
  BY <1>2, <1>3, <1>4

(* The least and the greatest of two numbers.                              *)
LEMMA TwoValues ==
  ASSUME NEW a \in Int, NEW b \in Int
  PROVE  /\ Max({a, b}) = IF a >= b THEN a ELSE b
         /\ Min({a, b}) = IF a <= b THEN a ELSE b
<1>1. \E x \in {a, b} : \A y \in {a, b} : x >= y
  OBVIOUS
<1>2. \E x \in {a, b} : \A y \in {a, b} : x =< y
  OBVIOUS
<1>3. Max({a, b}) \in {a, b} /\ \A y \in {a, b} : Max({a, b}) >= y
  BY <1>1 DEF Max
<1>4. Min({a, b}) \in {a, b} /\ \A y \in {a, b} : Min({a, b}) =< y
  BY <1>2 DEF Min
<1> QED
  BY <1>3, <1>4

(* The domain's cell that stands for one beyond it.                        *)
Clip(x, m) == IF x < 0 THEN 0 ELSE IF x > m THEN m ELSE x

LEMMA ClampIs ==
  ASSUME NEW l \in Nat, NEW x \in Vector(Int)
  PROVE  /\ Clamp(l, x) \in Vector(Int)
         /\ \A d \in Dim : x[d] \in Int /\ Clamp(l, x)[d] = Clip(x[d], Last(l))
         /\ (\A d \in Dim : 0 <= x[d] /\ x[d] <= Last(l)) => Clamp(l, x) = x
<1>1. Last(l) \in Nat
  BY LastIs
<1>2. \A d \in Dim : x[d] \in Int
  BY DEF Vector
<1>3. ASSUME NEW d \in Dim PROVE Clamp(l, x)[d] = Clip(x[d], Last(l))
  <2>1. Clamp(l, x)[d] = Max({0, Min({x[d], Last(l)})})
    BY DEF Clamp, Last
  <2>2. PICK m \in Int : m = Min({x[d], Last(l)}) /\ m = IF x[d] <= Last(l) THEN x[d] ELSE Last(l)
    <3>1. x[d] \in Int /\ Last(l) \in Int
      BY <1>1, <1>2
    <3>2. Min({x[d], Last(l)}) = IF x[d] <= Last(l) THEN x[d] ELSE Last(l)
      BY <3>1, TwoValues
    <3> QED
      BY <3>1, <3>2
  <2>3. Max({0, m}) = IF 0 >= m THEN 0 ELSE m
    <3>1. 0 \in Int
      OBVIOUS
    <3> QED
      BY <3>1, TwoValues
  <2> QED
    BY <1>1, <1>2, <2>1, <2>2, <2>3 DEF Clip
<1>4. \A d \in Dim : Clip(x[d], Last(l)) \in Int
  BY <1>1, <1>2 DEF Clip
<1>5. Clamp(l, x) \in Vector(Int)
  <2>1. Clamp(l, x) = [d \in Dim |-> Clamp(l, x)[d]]
    BY DEF Clamp
  <2> QED
    BY <1>3, <1>4, <2>1 DEF Vector
<1>6. ASSUME \A d \in Dim : 0 <= x[d] /\ x[d] <= Last(l) PROVE Clamp(l, x) = x
  <2>1. \A d \in Dim : Clamp(l, x)[d] = x[d]
    BY <1>1, <1>2, <1>3, <1>6 DEF Clip
  <2> QED
    BY <1>5, <2>1, Vectors
<1> QED
  BY <1>2, <1>3, <1>5, <1>6

(* The place of a cell, by coordinates.                                    *)
LEMMA PlaceIs ==
  ASSUME NEW n, n.x \in Vector(Int), NEW c \in Vector(Int)
  PROVE  /\ Place(n, c) \in Vector(Int)
         /\ \A d \in Dim : /\ n.x[d] \in Int /\ c[d] \in Int /\ n.x[d] * INX \in Int
                           /\ Place(n, c)[d] = n.x[d] * INX + c[d] - H_BW
<1>1. \A d \in Dim : n.x[d] \in Int /\ c[d] \in Int /\ n.x[d] * INX \in Int
  BY WholeNodes DEF Vector
<1>2. \A d \in Dim : n.x[d] * INX + c[d] - H_BW \in Int
  BY <1>1, Halves
<1>3. \A d \in Dim : Place(n, c)[d] = n.x[d] * INX + c[d] - H_BW
  BY DEF Place
<1>4. Place(n, c) \in Vector(Int)
  BY <1>2 DEF Place, Vector
<1> QED
  BY <1>1, <1>3, <1>4

(* A node's own cells are cells of the domain.                             *)
LEMMA InnerIs ==
  /\ Inner \subseteq Cell /\ Cell \subseteq Vector(Int)
  /\ \A c \in Vector(Int) : /\ c \in Inner <=> \A d \in Dim : H_BW <= c[d] /\ c[d] <= H_BW + INX - 1
                            /\ c \in Cell <=> \A d \in Dim : 0 <= c[d] /\ c[d] <= H_NX - 1
  /\ \A n : Located(n) =>
       /\ n.lev \in Nat /\ n.x \in Vector(Int)
       /\ \A d \in Dim : n.x[d] \in Int /\ 0 <= n.x[d] /\ n.x[d] <= 2^n.lev - 1
       /\ \A c \in Inner : /\ Clamp(n.lev, Place(n, c)) = Place(n, c)
                           /\ \A d \in Dim : 0 <= Place(n, c)[d] /\ Place(n, c)[d] <= Last(n.lev)
<1>1. Inner \subseteq Cell /\ Cell \subseteq Vector(Int)
  BY Sizes DEF Inner, Within, Cell, Vector
<1>2. ASSUME NEW c \in Vector(Int)
      PROVE /\ c \in Inner <=> \A d \in Dim : H_BW <= c[d] /\ c[d] <= H_BW + INX - 1
            /\ c \in Cell <=> \A d \in Dim : 0 <= c[d] /\ c[d] <= H_NX - 1
  <2>1. H_NX - 1 - H_BW = H_BW + INX - 1 /\ H_BW \in Int /\ 0 \in Int /\ H_NX - 1 - 0 = H_NX - 1
    BY Halves
  <2> QED
    BY <2>1, CellsAre DEF Inner
<1>3. ASSUME NEW n, Located(n)
      PROVE  /\ n.lev \in Nat /\ n.x \in Vector(Int)
             /\ \A d \in Dim : n.x[d] \in Int /\ 0 <= n.x[d] /\ n.x[d] <= 2^n.lev - 1
  <2>1. n.lev \in Nat /\ n.x \in Vector(0..(2^n.lev - 1))
    BY <1>3, TreesAssumption DEF Located
  <2>2. 2^n.lev \in Nat
    BY <2>1, Powers
  <2> QED
    BY <2>1, <2>2 DEF Vector
<1>4. ASSUME NEW n, Located(n), NEW c \in Inner
      PROVE  /\ Clamp(n.lev, Place(n, c)) = Place(n, c)
             /\ \A d \in Dim : 0 <= Place(n, c)[d] /\ Place(n, c)[d] <= Last(n.lev)
  <2>1. /\ n.lev \in Nat /\ n.x \in Vector(Int) /\ c \in Vector(Int)
        /\ \A d \in Dim : n.x[d] \in Int /\ 0 <= n.x[d] /\ n.x[d] <= 2^n.lev - 1
    BY <1>1, <1>3, <1>4
  <2>2. ASSUME NEW d \in Dim PROVE 0 <= Place(n, c)[d] /\ Place(n, c)[d] <= Last(n.lev)
    <3>1. H_BW <= c[d] /\ c[d] <= H_BW + INX - 1
      BY <1>2, <2>1
    <3>2. PICK p \in Int : /\ p = n.x[d] * INX /\ Place(n, c)[d] = p + c[d] - H_BW
                           /\ 0 <= p /\ p + INX - 1 <= Last(n.lev) /\ c[d] \in Int
      <4>1. n.x[d] * INX \in Int /\ 0 * INX = 0 /\ 0 * INX <= n.x[d] * INX
        <5>1. 0 \in Int
          OBVIOUS
        <5> QED
          BY <2>1, <5>1, WholeNodes
      <4>2. n.x[d] * INX + INX - 1 <= Last(n.lev)
        BY <2>1, LastIs
      <4>3. Place(n, c)[d] = n.x[d] * INX + c[d] - H_BW /\ c[d] \in Int
        BY <2>1, PlaceIs
      <4> QED
        BY <4>1, <4>2, <4>3
    <3>3. Last(n.lev) \in Int
      BY <2>1, LastIs
    <3> QED
      BY <3>1, <3>2, <3>3, Halves
  <2>3. Clamp(n.lev, Place(n, c)) = Place(n, c)
    BY <2>1, <2>2, PlaceIs, ClampIs
  <2> QED
    BY <2>2, <2>3
<1> QED
  BY <1>1, <1>2, <1>3, <1>4

-----------------------------------------------------------------------------
(* The side on which a cell lies, as a vector: zero for a node's own.      *)
DirOf(c) == [d \in Dim |-> IF c[d] < H_BW THEN -1
                           ELSE IF c[d] >= H_BW + INX THEN 1 ELSE 0]

(* The side on which a cell lies is none for a node's own cells alone.     *)
LEMMA DirOfIs ==
  ASSUME NEW c \in Cell
  PROVE  /\ c \in Vector(Int) /\ DirOf(c) \in Vector(-1..1) /\ DirOf(c) \in Vector(Int)
         /\ c \in Inner <=> DirOf(c) \notin Direction
         /\ \A d \in Dim : /\ c[d] \in Int /\ DirOf(c)[d] \in {-1, 0, 1}
                           /\ 0 <= c[d] /\ c[d] <= H_NX - 1
                           /\ DirOf(c)[d] = -1 <=> c[d] < H_BW
                           /\ DirOf(c)[d] = 1 <=> c[d] >= H_BW + INX
<1>1. c \in Vector(Int) /\ \A d \in Dim : c[d] \in Int /\ 0 <= c[d] /\ c[d] <= H_NX - 1
  <2>1. c \in Vector(Int)
    BY InnerIs
  <2> QED
    BY <2>1, InnerIs, Vectors
<1>2. \A d \in Dim : /\ DirOf(c)[d] \in {-1, 0, 1}
                     /\ DirOf(c)[d] = -1 <=> c[d] < H_BW
                     /\ DirOf(c)[d] = 1 <=> c[d] >= H_BW + INX
  BY <1>1, Halves DEF DirOf
<1>3. DirOf(c) \in Vector(-1..1) /\ DirOf(c) \in Vector(Int) /\ DirOf(c) = [d \in Dim |-> DirOf(c)[d]]
  BY <1>2 DEF DirOf, Vector
<1>4. c \in Inner <=> \A d \in Dim : DirOf(c)[d] = 0
  <2>1. \A d \in Dim : DirOf(c)[d] = 0 <=> H_BW <= c[d] /\ c[d] <= H_BW + INX - 1
    BY <1>1, <1>2, Halves
  <2> QED
    BY <1>1, <2>1, InnerIs
<1>5. (\A d \in Dim : DirOf(c)[d] = 0) <=> DirOf(c) = [d \in Dim |-> 0]
  BY <1>3
<1> QED
  BY <1>1, <1>2, <1>3, <1>4, <1>5 DEF Direction

(* A box beyond a side, dimension by dimension.                            *)
LEMMA BoxIs ==
  ASSUME NEW dir \in Direction, NEW inx \in Nat, NEW w \in Nat, NEW d \in Dim
  PROVE  /\ dir[d] = -1 => /\ BoundarySize(dir, "outer", inx, w).lb[d] = H_BW - w
                            /\ BoundarySize(dir, "outer", inx, w).ub[d] = H_BW
                            /\ BoundarySize(dir, "inner", inx, w).lb[d] = H_BW
         /\ dir[d] = 0 => /\ BoundarySize(dir, "outer", inx, w).lb[d] = H_BW
                           /\ BoundarySize(dir, "outer", inx, w).ub[d] = H_BW + inx
                           /\ BoundarySize(dir, "inner", inx, w).lb[d] = H_BW
         /\ dir[d] = 1 => /\ BoundarySize(dir, "outer", inx, w).lb[d] = H_BW + inx
                           /\ BoundarySize(dir, "outer", inx, w).ub[d] = H_BW + inx + w
                           /\ BoundarySize(dir, "inner", inx, w).lb[d] = H_BW + inx - w
<1>1. dir[d] \in {-1, 0, 1}
  BY DirectionsAre
<1>2. H_BW \in Nat
  BY Halves
<1>3. /\ BoundarySize(dir, "outer", inx, w).lb[d] = IF dir[d] <= 0 THEN H_BW + dir[d] * w
                                                 ELSE H_BW + inx + w - w
      /\ BoundarySize(dir, "outer", inx, w).ub[d] = IF dir[d] = 0 THEN H_BW + inx
                                                 ELSE BoundarySize(dir, "outer", inx, w).lb[d] + w
      /\ BoundarySize(dir, "inner", inx, w).lb[d] = IF dir[d] <= 0 THEN H_BW + dir[d] * 0
                                                  ELSE H_BW + inx + 0 - w
  BY DEF BoundarySize
<1> DEFINE box == BoundarySize(dir, "outer", inx, w)
           own == BoundarySize(dir, "inner", inx, w)
           e == dir[d]
           lb == box.lb[d]
           ub == box.ub[d]
           lo == own.lb[d]
<1>4. /\ lb = IF e <= 0 THEN H_BW + e * w ELSE H_BW + inx + w - w
      /\ ub = IF e = 0 THEN H_BW + inx ELSE lb + w
      /\ lo = IF e <= 0 THEN H_BW + e * 0 ELSE H_BW + inx + 0 - w
      /\ e \in {-1, 0, 1}
  BY <1>1, <1>3
<1> HIDE DEF box, own, e, lb, ub, lo
<1>5. /\ e = -1 => lb = H_BW - w /\ ub = H_BW /\ lo = H_BW
      /\ e = 0 => lb = H_BW /\ ub = H_BW + inx /\ lo = H_BW
      /\ e = 1 => lb = H_BW + inx /\ ub = H_BW + inx + w /\ lo = H_BW + inx - w
  <2>1. CASE e = -1
    <3>1. (-1) * w = 0 - w /\ (-1) * 0 = 0
      OBVIOUS
    <3>2. lb = H_BW + (-1) * w /\ lo = H_BW + (-1) * 0 /\ ub = lb + w
      BY <1>4, <2>1
    <3> QED
      BY ONLY <1>2, <2>1, <3>1, <3>2, inx \in Nat, w \in Nat
  <2>2. CASE e = 0
    <3>1. 0 * w = 0 /\ 0 * 0 = 0
      OBVIOUS
    <3>2. lb = H_BW + 0 * w /\ lo = H_BW + 0 * 0 /\ ub = H_BW + inx
      BY <1>4, <2>2
    <3> QED
      BY ONLY <1>2, <2>2, <3>1, <3>2, inx \in Nat, w \in Nat
  <2>3. CASE e = 1
    BY ONLY <1>2, <1>4, <2>3, inx \in Nat, w \in Nat
  <2> QED
    BY <1>4, <2>1, <2>2, <2>3
<1> QED
  BY <1>5 DEF box, own, e, lb, ub, lo

(* A cell beyond a node's own is reached through the side on which it lies,*)
(* as deep as that exchange goes, and through no other.                    *)
LEMMA SidesAre ==
  ASSUME NEW c \in Cell, NEW w \in 0..H_BW
  PROVE  SideOf[w][c] = IF Near(c, w) /\ c \notin Inner THEN {DirOf(c)} ELSE {}
<1>1. SideOf[w][c] = {dir \in Direction : In(c, BoundarySize(dir, "outer", INX, w))}
  BY DEF SideOf
<1>2. /\ INX \in Nat /\ H_BW \in Nat /\ w \in Nat /\ w <= H_BW /\ H_NX = INX + 2 * H_BW /\ INX >= H_BW
      /\ H_BW >= 3
  BY Halves
<1>3. ASSUME NEW dir \in Direction
      PROVE  In(c, BoundarySize(dir, "outer", INX, w)) <=> dir = DirOf(c) /\ Near(c, w)
  <2> DEFINE box == BoundarySize(dir, "outer", INX, w)
  <2>1. ASSUME NEW d \in Dim
        PROVE  /\ dir[d] = -1 => box.lb[d] = H_BW - w /\ box.ub[d] = H_BW
               /\ dir[d] = 0 => box.lb[d] = H_BW /\ box.ub[d] = H_BW + INX
               /\ dir[d] = 1 => box.lb[d] = H_BW + INX /\ box.ub[d] = H_BW + INX + w
    <3>1. INX \in Nat /\ w \in Nat
      BY <1>2
    <3>2. /\ dir[d] = -1 => /\ BoundarySize(dir, "outer", INX, w).lb[d] = H_BW - w
                            /\ BoundarySize(dir, "outer", INX, w).ub[d] = H_BW
          /\ dir[d] = 0 => /\ BoundarySize(dir, "outer", INX, w).lb[d] = H_BW
                           /\ BoundarySize(dir, "outer", INX, w).ub[d] = H_BW + INX
          /\ dir[d] = 1 => /\ BoundarySize(dir, "outer", INX, w).lb[d] = H_BW + INX
                           /\ BoundarySize(dir, "outer", INX, w).ub[d] = H_BW + INX + w
      BY ONLY <3>1, BoxIs, dir \in Direction, d \in Dim
    <3> QED
      BY <3>2
  <2>2. \A d \in Dim : /\ c[d] \in Int /\ dir[d] \in {-1, 0, 1} /\ DirOf(c)[d] \in {-1, 0, 1}
                       /\ 0 <= c[d] /\ c[d] <= H_NX - 1
                       /\ DirOf(c)[d] = -1 <=> c[d] < H_BW
                       /\ DirOf(c)[d] = 1 <=> c[d] >= H_BW + INX
    BY DirOfIs, DirectionsAre
  <2> HIDE DEF box
  <2>3. ASSUME NEW d \in Dim
        PROVE  (box.lb[d] <= c[d] /\ c[d] < box.ub[d]) <=>
                 (dir[d] = DirOf(c)[d] /\ H_BW - w <= c[d] /\ c[d] < H_NX - H_BW + w)
    <3> DEFINE e == dir[d]
               g == DirOf(c)[d]
               lb == box.lb[d]
               ub == box.ub[d]
               y == c[d]
    <3>1. /\ e = -1 => lb = H_BW - w /\ ub = H_BW
          /\ e = 0 => lb = H_BW /\ ub = H_BW + INX
          /\ e = 1 => lb = H_BW + INX /\ ub = H_BW + INX + w
          /\ y \in Int /\ e \in {-1, 0, 1} /\ g \in {-1, 0, 1}
          /\ 0 <= y /\ y <= H_NX - 1 /\ (g = -1 <=> y < H_BW) /\ (g = 1 <=> y >= H_BW + INX)
      BY <2>1, <2>2
    <3> HIDE DEF e, g, lb, ub, y
    <3>2. (lb <= y /\ y < ub) <=> (e = g /\ H_BW - w <= y /\ y < H_NX - H_BW + w)
      BY ONLY <1>2, <3>1
    <3> QED
      BY <3>2 DEF e, g, lb, ub, y
  <2>4. (\A d \in Dim : dir[d] = DirOf(c)[d]) <=> dir = DirOf(c)
    <3>1. dir \in Vector(Int) /\ DirOf(c) \in Vector(Int)
      BY DirOfIs, DirectionsAre
    <3> QED
      BY <3>1, SameVector
  <2>5. In(c, box) <=> \A d \in Dim : box.lb[d] <= c[d] /\ c[d] < box.ub[d]
    BY DEF In
  <2>6. Near(c, w) <=> \A d \in Dim : H_BW - w <= c[d] /\ c[d] < H_NX - H_BW + w
    BY DEF Near
  <2>7. In(c, box) <=> dir = DirOf(c) /\ Near(c, w)
    BY <2>3, <2>4, <2>5, <2>6
  <2> QED
    BY <2>7 DEF box
<1>4. DirOf(c) \in Direction <=> c \notin Inner
  BY DirOfIs
<1> QED
  BY <1>1, <1>3, <1>4

(* The box of a side in coarse cells.                                      *)
LEMMA CoarseBoxIs ==
  ASSUME NEW dir \in Direction, NEW d \in Dim
  PROVE  /\ dir[d] = -1 => CoarseBox(dir).lb[d] = 0 /\ CoarseBox(dir).ub[d] = H_BW
         /\ dir[d] = 0 => /\ CoarseBox(dir).lb[d] = H_BW
                          /\ CoarseBox(dir).ub[d] = H_BW + (INX \div 2)
         /\ dir[d] = 1 => /\ CoarseBox(dir).lb[d] = H_BW + (INX \div 2)
                          /\ CoarseBox(dir).ub[d] = H_BW + (INX \div 2) + H_BW
<1>1. PICK q \in Nat : q = INX \div 2
  BY Halves
<1>2. CoarseBox(dir) = BoundarySize(dir, "outer", q, H_BW)
  BY <1>1 DEF CoarseBox
<1>3. /\ dir[d] = -1 => /\ BoundarySize(dir, "outer", q, H_BW).lb[d] = H_BW - H_BW
                        /\ BoundarySize(dir, "outer", q, H_BW).ub[d] = H_BW
      /\ dir[d] = 0 => /\ BoundarySize(dir, "outer", q, H_BW).lb[d] = H_BW
                       /\ BoundarySize(dir, "outer", q, H_BW).ub[d] = H_BW + q
      /\ dir[d] = 1 => /\ BoundarySize(dir, "outer", q, H_BW).lb[d] = H_BW + q
                       /\ BoundarySize(dir, "outer", q, H_BW).ub[d] = H_BW + q + H_BW
  <2>1. H_BW \in Nat /\ q \in Nat
    BY Halves
  <2> QED
    BY ONLY <2>1, BoxIs, dir \in Direction, d \in Dim
<1>4. H_BW - H_BW = 0
  BY Halves
<1> QED
  BY <1>1, <1>2, <1>3, <1>4

-----------------------------------------------------------------------------
(* The coarse cell that a cell is a part of.                               *)
CoarseOf(c) == [d \in Dim |-> (c[d] + H_BW) \div 2]
Around == Vector(-1..1)

(* A cell is that half of its coarse cell that Half says it is.            *)
LEMMA CoarseIs ==
  ASSUME NEW c \in Cell
  PROVE  /\ CoarseOf(c) \in Shadow /\ CoarseOf(c) \in Vector(Int)
         /\ \A d \in Dim : /\ CoarseOf(c)[d] \in Int /\ Half(c)[d] \in {0, 1}
                           /\ 2 * CoarseOf(c)[d] + Half(c)[d] = c[d] + H_BW
<1>1. H_BW \in Nat /\ INX \div 2 \in Nat /\ H_NX = 2 * (INX \div 2) + 2 * H_BW
      /\ HS_NX = (INX \div 2) + 2 * H_BW /\ H_BW >= 3
  BY Halves
<1>2. ASSUME NEW d \in Dim
      PROVE  /\ CoarseOf(c)[d] \in 0..(HS_NX - 1) /\ Half(c)[d] \in {0, 1}
             /\ 2 * CoarseOf(c)[d] + Half(c)[d] = c[d] + H_BW
  <2>1. c[d] \in Int /\ 0 <= c[d] /\ c[d] <= H_NX - 1
    BY DirOfIs
  <2>2. CoarseOf(c)[d] = (c[d] + H_BW) \div 2
        /\ Half(c)[d] = IF H_BW % 2 = 0 THEN c[d] % 2 ELSE 1 - (c[d] % 2)
    BY DEF CoarseOf, Half
  <2> DEFINE y == c[d]
             i == CoarseOf(c)[d]
             e == Half(c)[d]
  <2>3. /\ y \in Int /\ 0 <= y /\ y <= H_NX - 1 /\ i = (y + H_BW) \div 2
        /\ e = IF H_BW % 2 = 0 THEN y % 2 ELSE 1 - (y % 2)
    BY <2>1, <2>2
  <2> HIDE DEF y, i, e
  <2>4. i \in 0..(HS_NX - 1) /\ e \in {0, 1} /\ 2 * i + e = y + H_BW
    BY ONLY <1>1, <2>3
  <2> QED
    BY <2>4 DEF y, i, e
<1>3. CoarseOf(c) \in Shadow /\ CoarseOf(c) \in Vector(Int)
  <2>1. CoarseOf(c) = [d \in Dim |-> CoarseOf(c)[d]]
    BY DEF CoarseOf
  <2>2. CoarseOf(c) \in Shadow
    BY <1>2, <2>1 DEF Shadow, Vector
  <2>3. CoarseOf(c) \in Vector(Int)
    BY <1>2, <2>1 DEF Vector
  <2> QED
    BY <2>2, <2>3
<1> QED
  BY <1>2, <1>3

(* It lies on the same side of the coarse cells, and on that side alone.   *)
LEMMA CoarseSidesAre ==
  ASSUME NEW c \in Cell
  PROVE  CoarseSideOf[CoarseOf(c)] = IF c \in Inner THEN {} ELSE {DirOf(c)}
<1>1. CoarseSideOf[CoarseOf(c)] = {dir \in Direction : In(CoarseOf(c), CoarseBox(dir))}
  BY CoarseIs DEF CoarseSideOf
<1>2. H_BW \in Nat /\ INX \div 2 \in Nat /\ H_NX = 2 * (INX \div 2) + 2 * H_BW
      /\ INX = 2 * (INX \div 2) /\ H_BW >= 3
  BY Halves
<1>3. ASSUME NEW dir \in Direction
      PROVE  In(CoarseOf(c), CoarseBox(dir)) <=> dir = DirOf(c)
  <2> DEFINE box == CoarseBox(dir)
  <2>1. ASSUME NEW d \in Dim
        PROVE  /\ dir[d] = -1 => box.lb[d] = 0 /\ box.ub[d] = H_BW
               /\ dir[d] = 0 => box.lb[d] = H_BW /\ box.ub[d] = H_BW + (INX \div 2)
               /\ dir[d] = 1 => box.lb[d] = H_BW + (INX \div 2)
                                /\ box.ub[d] = H_BW + (INX \div 2) + H_BW
    BY CoarseBoxIs
  <2>2. \A d \in Dim : /\ c[d] \in Int /\ dir[d] \in {-1, 0, 1} /\ DirOf(c)[d] \in {-1, 0, 1}
                       /\ 0 <= c[d] /\ c[d] <= H_NX - 1
                       /\ DirOf(c)[d] = -1 <=> c[d] < H_BW
                       /\ DirOf(c)[d] = 1 <=> c[d] >= H_BW + INX
                       /\ CoarseOf(c)[d] \in Int /\ Half(c)[d] \in {0, 1}
                       /\ 2 * CoarseOf(c)[d] + Half(c)[d] = c[d] + H_BW
    BY DirOfIs, DirectionsAre, CoarseIs
  <2> HIDE DEF box
  <2>3. ASSUME NEW d \in Dim
        PROVE  (box.lb[d] <= CoarseOf(c)[d] /\ CoarseOf(c)[d] < box.ub[d]) <=> dir[d] = DirOf(c)[d]
    <3> DEFINE e == dir[d]
               g == DirOf(c)[d]
               lb == box.lb[d]
               ub == box.ub[d]
               y == c[d]
               i == CoarseOf(c)[d]
               half == Half(c)[d]
               q == INX \div 2
    <3>1. /\ e = -1 => lb = 0 /\ ub = H_BW
          /\ e = 0 => lb = H_BW /\ ub = H_BW + q
          /\ e = 1 => lb = H_BW + q /\ ub = H_BW + q + H_BW
          /\ y \in Int /\ e \in {-1, 0, 1} /\ g \in {-1, 0, 1}
          /\ 0 <= y /\ y <= H_NX - 1 /\ (g = -1 <=> y < H_BW) /\ (g = 1 <=> y >= H_BW + INX)
          /\ i \in Int /\ half \in {0, 1} /\ 2 * i + half = y + H_BW
          /\ H_BW \in Nat /\ q \in Nat /\ H_NX = 2 * q + 2 * H_BW /\ INX = 2 * q
      BY <1>2, <2>1, <2>2
    <3> HIDE DEF e, g, lb, ub, y, i, half, q
    <3>2. (lb <= i /\ i < ub) <=> e = g
      BY ONLY <3>1
    <3> QED
      BY <3>2 DEF e, g, lb, ub, y, i
  <2>4. (\A d \in Dim : dir[d] = DirOf(c)[d]) <=> dir = DirOf(c)
    <3>1. dir \in Vector(Int) /\ DirOf(c) \in Vector(Int)
      BY DirOfIs, DirectionsAre
    <3> QED
      BY <3>1, SameVector
  <2>5. In(CoarseOf(c), box) <=>
          \A d \in Dim : box.lb[d] <= CoarseOf(c)[d] /\ CoarseOf(c)[d] < box.ub[d]
    BY DEF In
  <2>6. In(CoarseOf(c), box) <=> dir = DirOf(c)
    BY <2>3, <2>4, <2>5
  <2> QED
    BY <2>6 DEF box
<1>4. DirOf(c) \in Direction <=> c \notin Inner
  BY DirOfIs
<1> QED
  BY <1>1, <1>3, <1>4

(* The coarse cells around it have been sent for that side.                *)
LEMMA ShadowSidesAre ==
  ASSUME NEW c \in Cell, c \notin Inner, NEW o \in Around
  PROVE  /\ Plus(CoarseOf(c), o) \in Shadow
         /\ DirOf(c) \in ShadowSidesOf[Plus(CoarseOf(c), o)]
<1> DEFINE dir == DirOf(c)
           box == CoarseBox(dir)
           i == Plus(CoarseOf(c), o)
<1>1. dir \in Direction /\ In(CoarseOf(c), box)
  <2>1. dir \in Direction
    BY DirOfIs
  <2>2. dir \in CoarseSideOf[CoarseOf(c)]
    BY CoarseSidesAre
  <2>3. CoarseSideOf[CoarseOf(c)] = {e \in Direction : In(CoarseOf(c), CoarseBox(e))}
    BY CoarseIs DEF CoarseSideOf
  <2> QED
    BY <2>1, <2>2, <2>3
<1>2. o \in Vector(Int) /\ \A d \in Dim : o[d] \in {-1, 0, 1}
  BY DEF Around, Vector
<1>3. i \in Vector(Int) /\ \A d \in Dim : i[d] = CoarseOf(c)[d] + o[d]
  BY <1>2, CoarseIs, Vectors
<1>4. H_BW \in Nat /\ INX \div 2 \in Nat /\ H_NX = 2 * (INX \div 2) + 2 * H_BW
      /\ HS_NX = (INX \div 2) + 2 * H_BW /\ H_BW >= 3 /\ HS_NX \in Int
  BY Halves
<1>5. \A d \in Dim : /\ CoarseOf(c)[d] \in Int /\ Half(c)[d] \in {0, 1}
                     /\ 2 * CoarseOf(c)[d] + Half(c)[d] = c[d] + H_BW
                     /\ c[d] \in Int /\ 0 <= c[d] /\ c[d] <= H_NX - 1
  BY CoarseIs, DirOfIs
<1>6. ASSUME NEW d \in Dim PROVE i[d] \in 0..(HS_NX - 1)
  <2> DEFINE j == CoarseOf(c)[d]
             half == Half(c)[d]
             y == c[d]
             k == o[d]
             q == INX \div 2
  <2>1. /\ j \in Int /\ half \in {0, 1} /\ 2 * j + half = y + H_BW
        /\ y \in Int /\ 0 <= y /\ y <= H_NX - 1 /\ k \in {-1, 0, 1}
        /\ H_BW \in Nat /\ q \in Nat /\ H_NX = 2 * q + 2 * H_BW /\ HS_NX = q + 2 * H_BW /\ H_BW >= 3
    BY <1>2, <1>4, <1>5
  <2> HIDE DEF j, half, y, k, q
  <2>2. j + k \in 0..(HS_NX - 1)
    BY ONLY <2>1
  <2>3. i[d] = j + k
    BY <1>3 DEF j, k
  <2> QED
    BY <2>2, <2>3
<1>7. i \in Shadow
  <2> HIDE DEF i
  <2>1. i = [d \in Dim |-> i[d]]
    BY <1>3 DEF Vector
  <2> QED
    BY <1>6, <2>1 DEF Shadow, Vector
<1>8. In(i, Widened(box))
  <2>1. ASSUME NEW d \in Dim PROVE Widened(box).lb[d] <= i[d] /\ i[d] < Widened(box).ub[d]
    <3>1. /\ Widened(box).lb[d] = Max({box.lb[d] - 1, 0})
          /\ Widened(box).ub[d] = Min({box.ub[d] + 1, HS_NX})
      BY DEF Widened
    <3>2. box.lb[d] <= CoarseOf(c)[d] /\ CoarseOf(c)[d] < box.ub[d]
      BY <1>1 DEF In
    <3>3. box.lb[d] \in Int /\ box.ub[d] \in Int
      <4>1. dir[d] \in {-1, 0, 1}
        BY <1>1, DirectionsAre
      <4> HIDE DEF dir
      <4>2. /\ dir[d] = -1 => box.lb[d] = 0 /\ box.ub[d] = H_BW
            /\ dir[d] = 0 => box.lb[d] = H_BW /\ box.ub[d] = H_BW + (INX \div 2)
            /\ dir[d] = 1 => /\ box.lb[d] = H_BW + (INX \div 2)
                             /\ box.ub[d] = H_BW + (INX \div 2) + H_BW
        BY <1>1, CoarseBoxIs
      <4> HIDE DEF box
      <4> QED
        BY <1>4, <4>1, <4>2
    <3> DEFINE a == box.lb[d]
               b == box.ub[d]
    <3> HIDE DEF box
    <3>4. /\ Max({a - 1, 0}) = IF a - 1 >= 0 THEN a - 1 ELSE 0
          /\ Min({b + 1, HS_NX}) = IF b + 1 <= HS_NX THEN b + 1 ELSE HS_NX
      <4>1. a - 1 \in Int /\ b + 1 \in Int /\ 0 \in Int /\ HS_NX \in Int
        BY <1>4, <3>3
      <4> QED
        BY <4>1, TwoValues
    <3> HIDE DEF a, b, i
    <3>5. i[d] \in 0..(HS_NX - 1) /\ i[d] = CoarseOf(c)[d] + o[d] /\ o[d] \in {-1, 0, 1}
          /\ CoarseOf(c)[d] \in Int
      BY <1>2, <1>3, <1>5, <1>6
    <3>6. a <= CoarseOf(c)[d] /\ CoarseOf(c)[d] < b /\ a \in Int /\ b \in Int
      BY <3>2, <3>3 DEF a, b
    <3>7. Widened(box).lb[d] = Max({a - 1, 0}) /\ Widened(box).ub[d] = Min({b + 1, HS_NX})
      BY <3>1 DEF a, b
    <3> QED
      BY <1>4, <3>4, <3>5, <3>6, <3>7
  <2> QED
    BY <2>1 DEF In
<1>9. ShadowSidesOf[i] = {e \in Direction : In(i, Widened(CoarseBox(e)))}
  <2> HIDE DEF i
  <2> QED
    BY <1>7 DEF ShadowSidesOf
<1> QED
  BY <1>1, <1>7, <1>8, <1>9

-----------------------------------------------------------------------------
(* The parts of a value.                                                   *)
LEMMA ValueIs ==
  ASSUME NEW s, NEW l, NEW x
  PROVE  Value(s, l, x).stage = s /\ Value(s, l, x).lev = l /\ Value(s, l, x).x = x
BY DEF Value

(* A cell interpolated from coarse values that are at their places is at   *)
(* its own, and of their stage if they all have one.                       *)
LEMMA InterpolateIs ==
  ASSUME NEW u, NEW i \in Vector(Int), NEW half, NEW l \in Nat, NEW x \in Vector(Int),
         \A d \in Dim : 0 <= x[d] /\ x[d] <= Last(l),
         \A o \in Around : u[Plus(i, o)] = Value(u[Plus(i, o)].stage, l, Clamp(l, Plus(x, o)))
  PROVE  /\ Interpolate(u, i, half) = Value(Interpolate(u, i, half).stage, l + 1,
                                            Plus(Times(2, x), half))
         /\ \A s \in Int : (\A o \in Around : u[Plus(i, o)].stage = s) =>
              Interpolate(u, i, half).stage = s
<1> DEFINE none == [d \in Dim |-> 0]
           v == u[i]
           around == {<<o, u[Plus(i, o)]>> : o \in Vector(-1..1)}
           stages == {w[2].stage : w \in around}
<1>1. none \in Around /\ Plus(i, none) = i /\ Plus(x, none) = x
  <2>1. none \in Around /\ none \in Vector(Int)
    BY DEF Around, Vector
  <2>2. \A d \in Dim : none[d] = 0
    OBVIOUS
  <2> HIDE DEF none
  <2>3. \A d \in Dim : /\ i[d] \in Int /\ x[d] \in Int
                       /\ Plus(i, none)[d] = i[d] + 0 /\ Plus(x, none)[d] = x[d] + 0
    BY <2>1, <2>2, Vectors
  <2>4. Plus(i, none) \in Vector(Int) /\ Plus(x, none) \in Vector(Int)
    BY <2>1, Vectors
  <2>5. \A d \in Dim : Plus(i, none)[d] = i[d] /\ Plus(x, none)[d] = x[d]
    BY <2>3
  <2>6. Plus(i, none) = i
    BY <2>4, <2>5, SameVector
  <2>7. Plus(x, none) = x
    BY <2>4, <2>5, SameVector
  <2> QED
    BY <2>1, <2>6, <2>7
<1>2. v.lev = l /\ v.x = x
  <2>1. Clamp(l, x) = x
    BY ClampIs
  <2>2. u[i] = Value(u[i].stage, l, x)
    <3> HIDE DEF none
    <3>1. u[Plus(i, none)] = Value(u[Plus(i, none)].stage, l, Clamp(l, Plus(x, none)))
      BY <1>1
    <3> QED
      BY <1>1, <2>1, <3>1
  <2> QED
    BY <2>2, ValueIs
<1>3. \A w \in around : w[2].lev = v.lev /\ w[2].x = Clamp(v.lev, Plus(v.x, w[1]))
  <2> HIDE DEF v
  <2> SUFFICES ASSUME NEW o \in Around
               PROVE  u[Plus(i, o)].lev = v.lev /\ u[Plus(i, o)].x = Clamp(v.lev, Plus(v.x, o))
    BY DEF Around
  <2>1. u[Plus(i, o)] = Value(u[Plus(i, o)].stage, l, Clamp(l, Plus(x, o)))
    OBVIOUS
  <2> QED
    BY <1>2, <2>1, ValueIs
<1>4. Interpolate(u, i, half) =
        IF \A w \in around : w[2].lev = v.lev /\ w[2].x = Clamp(v.lev, Plus(v.x, w[1]))
        THEN Value(Min(stages), v.lev + 1, Plus(Times(2, v.x), half))
        ELSE Nothing
  BY Zenon DEF Interpolate
<1>5. Interpolate(u, i, half) = Value(Min(stages), l + 1, Plus(Times(2, x), half))
  <2> HIDE DEF v, around, stages
  <2> QED
    BY <1>2, <1>3, <1>4
<1>6. ASSUME NEW s \in Int, \A o \in Around : u[Plus(i, o)].stage = s PROVE Min(stages) = s
  <2>1. stages = {s}
    <3>1. ASSUME NEW w \in around PROVE w[2].stage = s
      <4>1. PICK o \in Around : w = <<o, u[Plus(i, o)]>>
        BY DEF Around
      <4> QED
        BY <1>6, <4>1
    <3>2. <<none, u[Plus(i, none)]>> \in around
      BY <1>1 DEF Around
    <3> HIDE DEF around
    <3> QED
      BY <3>1, <3>2
  <2>2. Min({s}) = s
    BY DEF Min
  <2> QED
    BY <2>1, <2>2
<1> HIDE DEF stages
<1> QED
  BY <1>5, <1>6, ValueIs

-----------------------------------------------------------------------------
(* The parent's cell at a coarse place.                                    *)
ParentCell(n, i) == Plus(i, Times(INX \div 2, ChildIndex(n)))

(* How deep the exchanges go: at least up to one cell from the edge.       *)
LEMMA FieldBwIs == \A f \in Field : /\ FieldBw[f] \in 0..H_BW /\ FieldBw[f] \in Nat
                                    /\ H_BW - 1 <= FieldBw[f] /\ FieldBw[f] <= H_BW
                                    /\ EnergyBw[f] \in 0..H_BW
                                    /\ EnergyBw[f] <= FieldBw[f]
                                    /\ EnergyBw[f] = IF f = "egas" THEN 1 ELSE 0
BY Halves DEF FieldBw, EnergyBw, Field

(* The sum of vectors.                                                     *)
LEMMA SumIs ==
  ASSUME NEW v \in Vector(Int), NEW w \in Vector(Int)
  PROVE  /\ Plus(v, w) \in Vector(Int)
         /\ \A d \in Dim : /\ Plus(v, w)[d] = v[d] + w[d] /\ Plus(v, w)[d] \in Int
                           /\ v[d] \in Int /\ w[d] \in Int
<1>1. /\ Plus(v, w) \in Vector(Int)
      /\ \A d \in Dim : Plus(v, w)[d] = v[d] + w[d] /\ v[d] \in Int /\ w[d] \in Int
  BY Vectors
<1> QED
  BY <1>1

(* The parent's cells around that place have been exchanged as well: one   *)
(* cell more than a node's ghosts reach.                                   *)
LEMMA ParentCellIs ==
  ASSUME NEW t \in Trees, NEW n \in Nodes(t), n # Root, NEW c \in Cell, NEW w \in 0..H_BW,
         H_BW - 1 <= w, Near(c, w), NEW o \in Around
  PROVE  /\ ParentCell(n, Plus(CoarseOf(c), o)) \in Cell
         /\ Near(ParentCell(n, Plus(CoarseOf(c), o)), w)
         /\ Place(Parent(n), ParentCell(n, CoarseOf(c))) \in Vector(Int)
         /\ Place(Parent(n), ParentCell(n, Plus(CoarseOf(c), o))) =
              Plus(Place(Parent(n), ParentCell(n, CoarseOf(c))), o)
<1> DEFINE p == Parent(n)
           ci == ChildIndex(n)
           q == INX \div 2
           qci == Times(q, ci)
           i == CoarseOf(c)
           j == Plus(i, o)
           pc == Plus(i, qci)
           pco == Plus(j, qci)
<1>1. q \in Nat /\ H_BW \in Nat /\ H_BW >= 3 /\ H_NX = 2 * q + 2 * H_BW /\ w \in Int /\ w <= H_BW
  BY Halves
<1>2. p.x \in Vector(Int)
  BY ParentIs, NodesAre, InnerIs
<1>3. ci \in Vector(Int) /\ \A d \in Dim : ci[d] \in {0, 1}
  <2>1. ci \in Octant
    BY ParentIs
  <2> HIDE DEF ci
  <2> QED
    BY <2>1 DEF Octant, Vector
<1>4. qci \in Vector(Int) /\ \A d \in Dim : qci[d] = IF ci[d] = 1 THEN q ELSE 0
  <2> HIDE DEF ci, q
  <2>1. \A d \in Dim : qci[d] = q * ci[d]
    BY DEF Times
  <2>2. q * 0 = 0 /\ q * 1 = q
    BY <1>1
  <2>3. \A d \in Dim : qci[d] = IF ci[d] = 1 THEN q ELSE 0
    BY <1>3, <2>1, <2>2
  <2>4. qci = [d \in Dim |-> qci[d]]
    BY DEF Times
  <2> HIDE DEF qci
  <2> QED
    BY <1>1, <2>3, <2>4 DEF Vector
<1>5. o \in Vector(Int) /\ \A d \in Dim : o[d] \in {-1, 0, 1}
  BY DEF Around, Vector
<1>6. i \in Vector(Int) /\ \A d \in Dim : /\ i[d] \in Int /\ Half(c)[d] \in {0, 1}
                                          /\ 2 * i[d] + Half(c)[d] = c[d] + H_BW
                                          /\ c[d] \in Int /\ 0 <= c[d] /\ c[d] <= H_NX - 1
  BY CoarseIs, DirOfIs
<1> HIDE DEF p, ci, q, qci, i
<1>7. j \in Vector(Int) /\ \A d \in Dim : j[d] = i[d] + o[d] /\ j[d] \in Int
  BY <1>5, <1>6, Vectors
<1> HIDE DEF j
<1>8. /\ pc \in Vector(Int) /\ pco \in Vector(Int)
      /\ \A d \in Dim : pc[d] = i[d] + qci[d] /\ pco[d] = j[d] + qci[d]
                        /\ pc[d] \in Int /\ pco[d] \in Int /\ qci[d] \in Int
  BY <1>4, <1>6, <1>7, SumIs
<1> HIDE DEF pc, pco
<1>9. ASSUME NEW d \in Dim
      PROVE  /\ H_BW - w <= pco[d] /\ pco[d] < H_NX - H_BW + w
             /\ 0 <= pco[d] /\ pco[d] <= H_NX - 1
  <2> DEFINE y == c[d]
             k == i[d]
             half == Half(c)[d]
             od == o[d]
             s == qci[d]
             r == pco[d]
  <2>1. /\ y \in Int /\ k \in Int /\ half \in {0, 1} /\ 2 * k + half = y + H_BW
        /\ od \in {-1, 0, 1} /\ (s = 0 \/ s = q) /\ r = k + od + s
        /\ 0 <= y /\ y <= H_NX - 1
    BY <1>4, <1>5, <1>6, <1>7, <1>8
  <2>2. H_BW - w <= y /\ y < H_NX - H_BW + w
    BY DEF Near
  <2> HIDE DEF y, k, half, od, s, r
  <2>3. H_BW - w <= r /\ r < H_NX - H_BW + w /\ 0 <= r /\ r <= H_NX - 1
    <3>1. CASE w = H_BW
      BY ONLY <1>1, <2>1, <2>2, <3>1
    <3>2. CASE w = H_BW - 1
      BY ONLY <1>1, <2>1, <2>2, <3>2
    <3>3. w = H_BW \/ w = H_BW - 1
      BY <1>1
    <3> QED
      BY <3>1, <3>2, <3>3
  <2> QED
    BY <2>3 DEF r
<1>10. pco \in Cell
  BY <1>8, <1>9, InnerIs
<1>11. Near(pco, w)
  BY <1>9 DEF Near
<1>12. /\ Place(p, pc) \in Vector(Int) /\ Place(p, pco) \in Vector(Int)
       /\ \A d \in Dim : /\ p.x[d] * INX \in Int
                         /\ Place(p, pc)[d] = p.x[d] * INX + pc[d] - H_BW
                         /\ Place(p, pco)[d] = p.x[d] * INX + pco[d] - H_BW
  BY <1>2, <1>8, PlaceIs
<1>13. Place(p, pco) = Plus(Place(p, pc), o)
  <2>1. /\ Plus(Place(p, pc), o) \in Vector(Int)
        /\ \A d \in Dim : Plus(Place(p, pc), o)[d] = Place(p, pc)[d] + o[d]
    BY <1>5, <1>12, Vectors
  <2>2. ASSUME NEW d \in Dim PROVE Plus(Place(p, pc), o)[d] = Place(p, pco)[d]
    <3> DEFINE a == p.x[d] * INX
    <3>1. /\ Plus(Place(p, pc), o)[d] = a + pc[d] - H_BW + o[d] /\ a \in Int
          /\ Place(p, pco)[d] = a + pco[d] - H_BW
          /\ pc[d] = i[d] + qci[d] /\ pco[d] = i[d] + o[d] + qci[d]
          /\ i[d] \in Int /\ qci[d] \in Int /\ o[d] \in {-1, 0, 1}
      BY <1>5, <1>6, <1>7, <1>8, <1>12, <2>1
    <3> HIDE DEF a
    <3> QED
      BY <1>1, <3>1
  <2> QED
    BY <1>12, <2>1, <2>2, SameVector
<1> QED
  BY <1>10, <1>11, <1>12, <1>13 DEF ParentCell, p, ci, q, qci, i, j, pc, pco

(* Its parts are the cells at twice its place, in the domain if they are.  *)
LEMMA ParentPlaceIs ==
  ASSUME NEW t \in Trees, NEW n \in Nodes(t), n # Root, NEW c \in Cell
  PROVE  LET x == Place(Parent(n), ParentCell(n, CoarseOf(c)))
         IN /\ x \in Vector(Int)
            /\ Plus(Times(2, x), Half(c)) = Place(n, c)
            /\ (\A d \in Dim : 0 <= Place(n, c)[d] /\ Place(n, c)[d] <= Last(n.lev)) =>
                 \A d \in Dim : 0 <= x[d] /\ x[d] <= Last(n.lev - 1)
<1> DEFINE p == Parent(n)
           ci == ChildIndex(n)
           q == INX \div 2
           qci == Times(q, ci)
           i == CoarseOf(c)
           pc == Plus(i, qci)
           x == Place(p, pc)
           half == Half(c)
<1>1. q \in Nat /\ H_BW \in Nat /\ INX = 2 * q
  BY Halves
<1>2. /\ p.x \in Vector(Int) /\ n.x \in Vector(Int) /\ n.lev \in Nat /\ n.lev >= 1
      /\ \A d \in Dim : n.x[d] = 2 * p.x[d] + ci[d]
  BY ParentIs, NodesAre, InnerIs
<1>3. ci \in Vector(Int) /\ \A d \in Dim : ci[d] \in {0, 1}
  <2>1. ci \in Octant
    BY ParentIs
  <2> HIDE DEF ci
  <2> QED
    BY <2>1 DEF Octant, Vector
<1>4. qci \in Vector(Int) /\ \A d \in Dim : qci[d] = IF ci[d] = 1 THEN q ELSE 0
  <2> HIDE DEF ci, q
  <2>1. \A d \in Dim : qci[d] = q * ci[d]
    BY DEF Times
  <2>2. q * 0 = 0 /\ q * 1 = q
    BY <1>1
  <2>3. \A d \in Dim : qci[d] = IF ci[d] = 1 THEN q ELSE 0
    BY <1>3, <2>1, <2>2
  <2>4. qci = [d \in Dim |-> qci[d]]
    BY DEF Times
  <2> HIDE DEF qci
  <2> QED
    BY <1>1, <2>3, <2>4 DEF Vector
<1>5. /\ i \in Vector(Int) /\ c \in Vector(Int)
      /\ \A d \in Dim : /\ i[d] \in Int /\ half[d] \in {0, 1} /\ c[d] \in Int
                        /\ 2 * i[d] + half[d] = c[d] + H_BW
  BY CoarseIs, DirOfIs
<1>6. half \in Vector(Int)
  <2>1. half = [d \in Dim |-> half[d]]
    BY DEF Half
  <2> HIDE DEF half
  <2> QED
    BY <1>5, <2>1 DEF Vector
<1> HIDE DEF p, ci, q, qci, i, half
<1>7. /\ pc \in Vector(Int) /\ \A d \in Dim : pc[d] = i[d] + qci[d] /\ qci[d] \in Int
  BY <1>4, <1>5, SumIs
<1> HIDE DEF pc
<1>8. /\ x \in Vector(Int) /\ Place(n, c) \in Vector(Int)
      /\ \A d \in Dim : /\ p.x[d] * INX \in Int /\ n.x[d] * INX \in Int /\ p.x[d] \in Int
                        /\ x[d] = p.x[d] * INX + pc[d] - H_BW
                        /\ Place(n, c)[d] = n.x[d] * INX + c[d] - H_BW
  BY <1>2, <1>5, <1>7, PlaceIs
<1> HIDE DEF x
<1>9. ASSUME NEW d \in Dim PROVE 2 * x[d] + half[d] = Place(n, c)[d] /\ x[d] \in Int
  <2> DEFINE a == p.x[d] * INX
             b == n.x[d] * INX
             s == qci[d]
             e == ci[d]
             k == i[d]
             h == half[d]
             y == c[d]
             v == x[d]
             z == Place(n, c)[d]
  <2>1. a \in Int /\ b = (IF e = 1 THEN 2 * a + INX ELSE 2 * a) /\ e \in {0, 1}
    <3>1. p.x[d] \in Int /\ n.x[d] = 2 * p.x[d] + ci[d] /\ ci[d] \in {0, 1}
      BY <1>2, <1>3, <1>8
    <3>2. (2 * p.x[d]) * INX = 2 * (p.x[d] * INX) /\ (2 * p.x[d] + 1) * INX = 2 * (p.x[d] * INX) + INX
      BY <3>1, WholeNodes
    <3>3. CASE ci[d] = 0
      <4>1. n.x[d] = 2 * p.x[d]
        BY <3>1, <3>3
      <4> QED
        BY <1>8, <3>2, <3>3, <4>1
    <3>4. CASE ci[d] = 1
      <4>1. n.x[d] = 2 * p.x[d] + 1
        BY <3>1, <3>4
      <4> QED
        BY <1>8, <3>2, <3>4, <4>1
    <3> QED
      BY <3>1, <3>3, <3>4
  <2>2. /\ s = (IF e = 1 THEN q ELSE 0) /\ k \in Int /\ h \in {0, 1} /\ y \in Int
        /\ 2 * k + h = y + H_BW /\ v = a + (k + s) - H_BW /\ z = b + y - H_BW
    BY <1>4, <1>5, <1>7, <1>8
  <2> HIDE DEF a, b, s, e, k, h, y, v, z
  <2>3. 2 * v + h = z /\ v \in Int
    BY ONLY <1>1, <2>1, <2>2
  <2> QED
    BY <2>3 DEF v, h, z
<1>10. Plus(Times(2, x), half) = Place(n, c)
  <2>1. Times(2, x) \in Vector(Int) /\ \A d \in Dim : Times(2, x)[d] = 2 * x[d]
    <3>1. 2 \in Int
      OBVIOUS
    <3>2. Times(2, x) \in Vector(Int)
      BY <1>8, <3>1, Vectors
    <3>3. \A d \in Dim : Times(2, x)[d] = 2 * x[d]
      BY DEF Times
    <3> QED
      BY <3>2, <3>3
  <2>2. /\ Plus(Times(2, x), half) \in Vector(Int)
        /\ \A d \in Dim : Plus(Times(2, x), half)[d] = Times(2, x)[d] + half[d]
    BY <1>6, <2>1, Vectors
  <2>3. \A d \in Dim : Plus(Times(2, x), half)[d] = Place(n, c)[d]
    BY <1>9, <2>1, <2>2
  <2> QED
    BY <1>8, <2>2, <2>3, SameVector
<1>11. ASSUME NEW d \in Dim, 0 <= Place(n, c)[d], Place(n, c)[d] <= Last(n.lev)
       PROVE  0 <= x[d] /\ x[d] <= Last(n.lev - 1)
  <2>1. PICK m \in Nat : m = Last(n.lev - 1) /\ Last(n.lev) = 2 * m + 1
    <3>1. n.lev - 1 \in Nat /\ (n.lev - 1) + 1 = n.lev
      BY <1>2
    <3>2. Last(n.lev - 1) \in Nat /\ Last((n.lev - 1) + 1) = 2 * Last(n.lev - 1) + 1
      BY <3>1, LastIs
    <3> QED
      BY <3>1, <3>2
  <2>2. 2 * x[d] + half[d] = Place(n, c)[d] /\ half[d] \in {0, 1} /\ x[d] \in Int
    BY <1>5, <1>9
  <2> QED
    BY <1>11, <2>1, <2>2
<1>12. x = Place(Parent(n), ParentCell(n, CoarseOf(c))) /\ half = Half(c)
  BY DEF ParentCell, p, ci, q, qci, i, pc, x, half
<1> QED
  BY <1>8, <1>10, <1>11, <1>12

-----------------------------------------------------------------------------
(* The neighbor's cell at the place of a cell beyond a node's own.         *)
Across(c) == [d \in Dim |-> IF c[d] < H_BW THEN c[d] + INX
                            ELSE IF c[d] >= H_BW + INX THEN c[d] - INX ELSE c[d]]

(* It is the cell that get_hydro_boundary takes, and one of its own.       *)
LEMMA AcrossIs ==
  ASSUME NEW n, n.x \in Vector(Int), NEW c \in Cell
  PROVE  /\ Across(c) \in Inner /\ Across(c) \in Cell
         /\ Place(Neighbor(n, DirOf(c)), Across(c)) = Place(n, c)
<1> DEFINE a == Across(c)
           dir == DirOf(c)
           m == Neighbor(n, dir)
<1>1. H_BW \in Nat /\ INX \in Nat /\ H_NX = INX + 2 * H_BW /\ INX >= H_BW
  BY Halves
<1>2. c \in Vector(Int) /\ dir \in Vector(Int)
      /\ \A d \in Dim : /\ c[d] \in Int /\ dir[d] \in {-1, 0, 1}
                        /\ 0 <= c[d] /\ c[d] <= H_NX - 1
                        /\ dir[d] = -1 <=> c[d] < H_BW
                        /\ dir[d] = 1 <=> c[d] >= H_BW + INX
  BY DirOfIs
<1>3. \A d \in Dim : a[d] = IF c[d] < H_BW THEN c[d] + INX
                            ELSE IF c[d] >= H_BW + INX THEN c[d] - INX ELSE c[d]
  BY DEF Across
<1>4. \A d \in Dim : a[d] \in Int /\ H_BW <= a[d] /\ a[d] <= H_BW + INX - 1
  BY <1>1, <1>2, <1>3
<1>5. a \in Vector(Int)
  <2>1. a = [d \in Dim |-> a[d]]
    BY DEF Across
  <2> HIDE DEF a
  <2> QED
    BY <1>4, <2>1 DEF Vector
<1>6. a \in Inner /\ a \in Cell
  BY <1>4, <1>5, InnerIs
<1>7. m.x = Plus(n.x, dir)
  BY DEF Neighbor
<1> HIDE DEF a, m, dir
<1>8. m.x \in Vector(Int) /\ \A d \in Dim : m.x[d] = n.x[d] + dir[d]
  BY <1>2, <1>7, SumIs
<1>9. /\ Place(m, a) \in Vector(Int) /\ Place(n, c) \in Vector(Int)
      /\ \A d \in Dim : /\ Place(m, a)[d] = m.x[d] * INX + a[d] - H_BW
                        /\ Place(n, c)[d] = n.x[d] * INX + c[d] - H_BW
                        /\ n.x[d] \in Int /\ n.x[d] * INX \in Int
  BY <1>2, <1>5, <1>8, PlaceIs
<1>10. ASSUME NEW d \in Dim PROVE Place(m, a)[d] = Place(n, c)[d]
  <2> DEFINE x == n.x[d]
             p == x * INX
             k == dir[d]
             r == (x + k) * INX
  <2>1. p \in Int /\ k \in {-1, 0, 1} /\ x \in Int
    BY <1>2, <1>9
  <2>2. r = IF k = -1 THEN p - INX ELSE IF k = 0 THEN p ELSE p + INX
    <3>1. (x + 1) * INX = p + INX /\ (x - 1) * INX = p - INX /\ (x + 0) * INX = p
      BY <2>1, WholeNodes
    <3> HIDE DEF x, p, k
    <3>2. CASE k = -1
      <4>1. x + k = x - 1
        BY <2>1, <3>2
      <4> QED
        BY <3>1, <3>2, <4>1
    <3>3. CASE k = 0
      BY <3>1, <3>3
    <3>4. CASE k = 1
      BY <3>1, <3>4
    <3> QED
      BY <2>1, <3>2, <3>3, <3>4
  <2>3. Place(m, a)[d] = r + a[d] - H_BW /\ Place(n, c)[d] = p + c[d] - H_BW
    BY <1>8, <1>9
  <2>4. /\ a[d] \in Int /\ c[d] \in Int /\ (k = -1 <=> c[d] < H_BW) /\ (k = 1 <=> c[d] >= H_BW + INX)
        /\ a[d] = IF c[d] < H_BW THEN c[d] + INX ELSE IF c[d] >= H_BW + INX THEN c[d] - INX ELSE c[d]
    BY <1>2, <1>3, <1>4
  <2> HIDE DEF x, p, k, r
  <2> QED
    BY <1>1, <2>1, <2>2, <2>3, <2>4
<1>11. Place(m, a) = Place(n, c)
  BY <1>9, <1>10, SameVector
<1> QED
  BY <1>6, <1>11 DEF a, m, dir

(* Where the domain ends, the cell at the boundary stands for one beyond.  *)
ClampCell(n, c) == [d \in Dim |->
  IF c[d] < H_BW /\ n.x[d] = 0 THEN H_BW
  ELSE IF c[d] >= H_NX - H_BW /\ n.x[d] = 2^n.lev - 1 THEN H_NX - H_BW - 1 ELSE c[d]]

Here(n, c) == Clamp(n.lev, Place(n, c))

(* The cell that stands, by physical boundaries, for one beyond the domain *)
(* is at the domain's place, and as near to the node's own.                *)
LEMMA ClampCellIs ==
  ASSUME NEW n, Located(n), NEW c \in Cell
  PROVE  /\ ClampCell(n, c) \in Cell
         /\ \A w \in 0..H_BW : Near(c, w) => Near(ClampCell(n, c), w)
         /\ c \in Inner => ClampCell(n, c) = c
         /\ Place(n, ClampCell(n, c)) = Here(n, c) /\ Here(n, ClampCell(n, c)) = Here(n, c)
         /\ \A d \in Dim : /\ 0 <= Place(n, ClampCell(n, c))[d]
                           /\ Place(n, ClampCell(n, c))[d] <= Last(n.lev)
<1> DEFINE a == ClampCell(n, c)
<1>1. H_BW \in Nat /\ INX \in Nat /\ H_NX = INX + 2 * H_BW /\ INX >= H_BW /\ H_BW >= 3
  BY Halves
<1>2. /\ n.lev \in Nat /\ n.x \in Vector(Int)
      /\ \A d \in Dim : n.x[d] \in Int /\ 0 <= n.x[d] /\ n.x[d] <= 2^n.lev - 1
  BY InnerIs
<1>3. c \in Vector(Int) /\ \A d \in Dim : c[d] \in Int /\ 0 <= c[d] /\ c[d] <= H_NX - 1
  BY DirOfIs
<1>4. \A d \in Dim : a[d] = IF c[d] < H_BW /\ n.x[d] = 0 THEN H_BW
                            ELSE IF c[d] >= H_NX - H_BW /\ n.x[d] = 2^n.lev - 1
                                 THEN H_NX - H_BW - 1 ELSE c[d]
  BY DEF ClampCell
<1>5. PICK top \in Nat : top = 2^n.lev - 1
  <2>1. 2^n.lev \in Nat \ {0}
    BY <1>2, Powers
  <2> QED
    BY <2>1
<1>6. \A d \in Dim : a[d] \in Int /\ 0 <= a[d] /\ a[d] <= H_NX - 1
  BY <1>1, <1>3, <1>4
<1>7. a \in Vector(Int)
  <2>1. a = [d \in Dim |-> a[d]]
    BY DEF ClampCell
  <2> HIDE DEF a
  <2> QED
    BY <1>6, <2>1 DEF Vector
<1> HIDE DEF a
<1>8. a \in Cell
  BY <1>6, <1>7, InnerIs
<1>9. ASSUME NEW w \in 0..H_BW, Near(c, w) PROVE Near(a, w)
  <2>1. \A d \in Dim : H_BW - w <= c[d] /\ c[d] < H_NX - H_BW + w
    BY <1>9 DEF Near
  <2>2. \A d \in Dim : H_BW - w <= a[d] /\ a[d] < H_NX - H_BW + w
    BY <1>1, <1>3, <1>4, <2>1
  <2> QED
    BY <2>2 DEF Near
<1>10. ASSUME c \in Inner PROVE a = c
  <2>1. \A d \in Dim : H_BW <= c[d] /\ c[d] <= H_BW + INX - 1
    BY <1>3, <1>10, InnerIs
  <2>2. \A d \in Dim : a[d] = c[d]
    BY <1>1, <1>3, <1>4, <2>1
  <2> QED
    BY <1>3, <1>7, <2>2, SameVector
<1>11. /\ Place(n, a) \in Vector(Int) /\ Place(n, c) \in Vector(Int)
       /\ \A d \in Dim : /\ Place(n, a)[d] = n.x[d] * INX + a[d] - H_BW
                         /\ Place(n, c)[d] = n.x[d] * INX + c[d] - H_BW
                         /\ n.x[d] * INX \in Int
  BY <1>2, <1>3, <1>7, PlaceIs
<1>12. /\ Here(n, c) \in Vector(Int)
       /\ \A d \in Dim : Here(n, c)[d] = Clip(Place(n, c)[d], Last(n.lev))
  BY <1>2, <1>11, ClampIs DEF Here
<1>13. ASSUME NEW d \in Dim
       PROVE  /\ Place(n, a)[d] = Here(n, c)[d]
              /\ 0 <= Place(n, a)[d] /\ Place(n, a)[d] <= Last(n.lev)
  <2> DEFINE x == n.x[d]
             p == x * INX
             y == c[d]
             b == a[d]
             last == Last(n.lev)
             z == Place(n, c)[d]
             v == Place(n, a)[d]
  <2>1. /\ x \in Int /\ 0 <= x /\ x <= top /\ p \in Int
        /\ y \in Int /\ 0 <= y /\ y <= H_NX - 1
        /\ v = p + b - H_BW /\ z = p + y - H_BW
        /\ b = (IF y < H_BW /\ x = 0 THEN H_BW
                ELSE IF y >= H_NX - H_BW /\ x = top THEN H_NX - H_BW - 1 ELSE y)
    BY <1>2, <1>3, <1>4, <1>5, <1>11
  <2>2. /\ (x = 0 => p = 0) /\ (x >= 1 => p >= INX)
        /\ last \in Nat /\ (x = top => p + INX - 1 = last)
        /\ (x <= top - 1 => p + INX + INX - 1 <= last)
        /\ p + INX - 1 <= last
    <3>1. 0 * INX = 0 /\ 1 * INX = INX
      BY <1>1
    <3>2. x >= 1 => 1 * INX <= p
      <4>1. 1 \in Int
        OBVIOUS
      <4> QED
        BY <2>1, <4>1, WholeNodes
    <3>3. (x = top => p + INX - 1 = last) /\ p + INX - 1 <= last
      BY <1>2, <1>5, <2>1, LastIs
    <3>4. x + 1 <= top => (x + 1) * INX + INX - 1 <= last
      <4>1. x + 1 \in Int
        BY <2>1
      <4> HIDE DEF last
      <4> QED
        BY <1>2, <1>5, <4>1, LastIs DEF last
    <3>5. (x + 1) * INX = p + INX
      BY <2>1, WholeNodes
    <3>6. last \in Nat
      BY <1>2, LastIs
    <3> HIDE DEF x, p, last
    <3>7. x <= top - 1 => x + 1 <= top
      BY <2>1
    <3>8. x = 0 => p = 0
      BY <3>1 DEF p
    <3> QED
      BY <3>1, <3>2, <3>3, <3>4, <3>5, <3>6, <3>7, <3>8
  <2>3. Here(n, c)[d] = Clip(z, last)
    BY <1>12
  <2> HIDE DEF x, p, y, b, last, z, v
  <2>4. v = Clip(z, last) /\ 0 <= v /\ v <= last
    BY ONLY <1>1, <2>1, <2>2, top \in Nat DEF Clip
  <2> QED
    BY <2>3, <2>4 DEF v, last
<1>14. Place(n, a) = Here(n, c)
  BY <1>11, <1>12, <1>13, SameVector
<1>15. Here(n, a) = Here(n, c)
  <2>1. Clamp(n.lev, Place(n, a)) = Place(n, a)
    BY <1>2, <1>11, <1>13, ClampIs
  <2> QED
    BY <1>14, <2>1 DEF Here
<1> QED
  BY <1>8, <1>9, <1>10, <1>13, <1>14, <1>15 DEF a

(* The node in which a cell of the domain is.                              *)
Home(n, c) == [lev |-> n.lev, x |-> [d \in Dim |-> Here(n, c)[d] \div INX]]

(* A cell of the domain beyond a node's own is in its neighbor.            *)
LEMMA HomeIs ==
  ASSUME NEW n, Located(n), NEW c \in Cell,
         \A d \in Dim : 0 <= Place(n, c)[d] /\ Place(n, c)[d] <= Last(n.lev)
  PROVE  Home(n, c) = Neighbor(n, DirOf(c))
<1> DEFINE a == Across(c)
           m == Neighbor(n, DirOf(c))
<1>1. H_BW \in Nat /\ INX \in Nat /\ INX >= 3 /\ H_NX = INX + 2 * H_BW
  BY Halves
<1>2. n.lev \in Nat /\ n.x \in Vector(Int) /\ c \in Vector(Int)
  BY InnerIs
<1>3. a \in Inner /\ a \in Vector(Int) /\ Place(m, a) = Place(n, c)
      /\ \A d \in Dim : H_BW <= a[d] /\ a[d] <= H_BW + INX - 1
  <2>1. a \in Inner /\ Place(m, a) = Place(n, c)
    BY <1>2, AcrossIs
  <2> HIDE DEF a, m
  <2> QED
    BY <2>1, InnerIs
<1>4. m.lev = n.lev /\ m.x = Plus(n.x, DirOf(c)) /\ m = [lev |-> n.lev, x |-> m.x]
  BY DEF Neighbor
<1>5. m.x \in Vector(Int) /\ m.x = [d \in Dim |-> m.x[d]]
  <2>1. DirOf(c) \in Vector(Int)
    BY DirOfIs
  <2>2. m.x \in Vector(Int)
    BY <1>2, <1>4, <2>1, SumIs
  <2> HIDE DEF m
  <2> QED
    BY <2>2 DEF Vector
<1> HIDE DEF a, m
<1>6. /\ \A d \in Dim : /\ Place(n, c)[d] = m.x[d] * INX + a[d] - H_BW
                        /\ a[d] \in Int /\ m.x[d] \in Int /\ m.x[d] * INX \in Int
  BY <1>3, <1>5, PlaceIs
<1>7. Here(n, c) = Place(n, c)
  <2>1. Place(n, c) \in Vector(Int)
    BY <1>2, PlaceIs
  <2> QED
    BY <1>2, <2>1, ClampIs DEF Here
<1>8. ASSUME NEW d \in Dim PROVE Here(n, c)[d] \div INX = m.x[d]
  <2> DEFINE y == Here(n, c)[d]
             k == y \div INX
             x == m.x[d]
             p == x * INX
             r == k * INX
  <2>1. y \in Int /\ p \in Int /\ x \in Int /\ p <= y /\ y <= p + INX - 1
    BY <1>1, <1>3, <1>6, <1>7
  <2>2. k \in Int /\ r \in Int /\ r <= y /\ y <= r + INX - 1
    <3> HIDE DEF y
    <3> QED
      BY <1>1, <2>1
  <2>3. (x + 1) * INX = p + INX /\ (k + 1) * INX = r + INX
    <3> HIDE DEF k, x
    <3> QED
      BY <2>1, <2>2, WholeNodes
  <2>4. /\ x + 1 <= k => (x + 1) * INX <= r
        /\ k + 1 <= x => (k + 1) * INX <= p
    <3> HIDE DEF k, x
    <3>1. x + 1 \in Int /\ k + 1 \in Int /\ x \in Int /\ k \in Int
      BY <2>1, <2>2
    <3> QED
      BY <3>1, WholeNodes
  <2> HIDE DEF y, k, x, p, r
  <2>5. k = x
    BY <1>1, <2>1, <2>2, <2>3, <2>4
  <2> QED
    BY <2>5 DEF k, y, x
<1>9. Home(n, c) = [lev |-> n.lev, x |-> [d \in Dim |-> m.x[d]]]
  BY <1>8 DEF Home
<1> QED
  BY <1>4, <1>5, <1>9 DEF m

-----------------------------------------------------------------------------
(* A cell's value is of its place, and of a stage.                         *)
AtPlace(v, n, c) == v = Value(v.stage, n.lev, Here(n, c))
Current(v, s, n, c) == v = Value(s, n.lev, Here(n, c))

(* Current values are at their place.                                      *)
LEMMA CurrentIs ==
  /\ \A v, s, n, c : Current(v, s, n, c) => AtPlace(v, n, c) /\ v.stage = s
  /\ \A v, n, c : AtPlace(v, n, c) => Current(v, v.stage, n, c)
  /\ \A v, n, c : AtPlace(v, n, c) => v.lev = n.lev /\ v.x = Here(n, c)
BY ValueIs DEF Current, AtPlace

(* What a node's cells are: its own of the stage that is done; as deep as  *)
(* the exchange of all fields goes, of their places; and, once the node has*)
(* collected, of that stage as deep as this exchange goes, but for the AMR *)
(* boundaries of the exchange of the energy.                               *)
InnerFresh(n) == \A f \in Field, c \in Inner : Current(U[n][f][c], stage, n, c)
AllRight(n) == \A f \in Field, c \in Cell :
                 Near(c, FieldBw[f]) => AtPlace(U[n][f][c], n, c)
AllFresh(n) == \A f \in Field, c \in Cell :
                 Near(c, Width(f, Energy(exchange))) =>
                   \/ Current(U[n][f][c], stage, n, c)
                   \/ Energy(exchange) /\ Home(n, c) \notin Nodes(refined)

(* The type invariant.                                                     *)
Typed ==
  /\ refined \in Trees /\ exchange \in 1..(NRK + 1) /\ stage \in Nat /\ level \in Int
  /\ phase \in {"restrict", "collect", "work"}

(* The inductive invariant: a node's own cells are of this stage once it has  *)
(* been restricted; its ghosts keep their places from the first exchange of*)
(* a timestep on; and they are of this stage once its level has collected. *)
IInv ==
  /\ Typed
  /\ \A n \in Nodes(refined) :
       /\ phase # "restrict" \/ n \notin refined \/ n.lev > level => InnerFresh(n)
       /\ phase = "work" \/ exchange > 1 \/ (phase = "collect" /\ n.lev < level) => AllRight(n)
       /\ phase = "work" \/ (phase = "collect" /\ n.lev < level) => AllFresh(n)

(* An exchange of the energy goes less deep than one of all fields.        *)
LEMMA WidthIs ==
  ASSUME NEW f \in Field
  PROVE  /\ Width(f, Energy(exchange)) \in 0..H_BW
         /\ \A c \in Cell : Near(c, Width(f, Energy(exchange))) => Near(c, FieldBw[f])
         /\ ~Energy(exchange) => Width(f, Energy(exchange)) = FieldBw[f]
         /\ Energy(exchange) /\ f # "egas" => Width(f, Energy(exchange)) = 0
<1>1. /\ ~Energy(exchange) => Width(f, Energy(exchange)) = FieldBw[f]
      /\ Energy(exchange) => Width(f, Energy(exchange)) = EnergyBw[f]
  BY DEF Width
<1>2. /\ FieldBw[f] \in 0..H_BW /\ EnergyBw[f] \in 0..H_BW /\ EnergyBw[f] <= FieldBw[f]
      /\ EnergyBw[f] = IF f = "egas" THEN 1 ELSE 0
  BY FieldBwIs
<1>3. Width(f, Energy(exchange)) \in 0..H_BW /\ Width(f, Energy(exchange)) <= FieldBw[f]
  BY <1>1, <1>2, Halves
<1>4. ASSUME NEW c \in Cell, Near(c, Width(f, Energy(exchange))) PROVE Near(c, FieldBw[f])
  <2> DEFINE w == Width(f, Energy(exchange))
             b == FieldBw[f]
  <2>1. w \in Int /\ b \in Int /\ w <= b /\ H_BW \in Int /\ H_NX \in Int
    BY <1>2, <1>3, Halves
  <2>2. \A d \in Dim : c[d] \in Int /\ H_BW - w <= c[d] /\ c[d] < H_NX - H_BW + w
    BY <1>4, DirOfIs DEF Near
  <2> HIDE DEF w, b
  <2>3. \A d \in Dim : H_BW - b <= c[d] /\ c[d] < H_NX - H_BW + b
    BY <2>1, <2>2
  <2> QED
    BY <2>3 DEF Near, b
<1> QED
  BY <1>1, <1>2, <1>3, <1>4

(* A node's own cells are those with no ghosts around.                     *)
LEMMA NearInner == \A c \in Cell : c \in Inner <=> Near(c, 0)
<1>1. H_BW \in Nat /\ INX \in Nat /\ H_NX = INX + 2 * H_BW
  BY Halves
<1>2. ASSUME NEW c \in Cell PROVE c \in Inner <=> Near(c, 0)
  <2>1. c \in Vector(Int) /\ \A d \in Dim : c[d] \in Int
    BY DirOfIs
  <2>2. c \in Inner <=> \A d \in Dim : H_BW <= c[d] /\ c[d] <= H_BW + INX - 1
    BY <2>1, InnerIs
  <2>3. Near(c, 0) <=> \A d \in Dim : H_BW - 0 <= c[d] /\ c[d] < H_NX - H_BW + 0
    BY DEF Near
  <2>4. \A d \in Dim : (H_BW <= c[d] /\ c[d] <= H_BW + INX - 1) <=>
                       (H_BW - 0 <= c[d] /\ c[d] < H_NX - H_BW + 0)
    BY <1>1, <2>1
  <2> QED
    BY <2>2, <2>3, <2>4
<1> QED
  BY <1>2

(* What a node gets from its neighbors.                                    *)
LEMMA SetIs ==
  ASSUME NEW n, NEW f \in Field, NEW w \in 0..H_BW, NEW c \in Cell
  PROVE  SetHydroBoundary(n, f, w)[c] =
           IF Near(c, w) /\ c \notin Inner /\ Neighbor(n, DirOf(c)) \in Nodes(refined)
           THEN U[Neighbor(n, DirOf(c))][f][Across(c)] ELSE U[n][f][c]
<1> DEFINE from == SideOf[w][c] \cap Neighbors(n)
           own == U[n][f][c]
           dir == CHOOSE dir \in from : TRUE
           outer == BoundarySize(dir, "outer", INX, w).lb
           inner == BoundarySize(Flip(dir), "inner", INX, w).lb
           sent == U[Neighbor(n, dir)][f][Plus(Minus(c, outer), inner)]
<1>1. SetHydroBoundary(n, f, w)[c] = IF from = {} THEN own ELSE sent
  BY Zenon DEF SetHydroBoundary
<1>2. DirOf(c) \in Neighbors(n) <=> DirOf(c) \in Direction /\ Neighbor(n, DirOf(c)) \in Nodes(refined)
  BY DEF Neighbors
<1>3. DirOf(c) \in Direction <=> c \notin Inner
  BY DirOfIs
<1>4. CASE Near(c, w) /\ c \notin Inner /\ Neighbor(n, DirOf(c)) \in Nodes(refined)
  <2>1. from = {DirOf(c)}
    BY <1>2, <1>3, <1>4, SidesAre
  <2>2. dir = DirOf(c) /\ from # {}
    <3> HIDE DEF from
    <3> QED
      BY <2>1
  <2> HIDE DEF from, dir
  <2>3. Plus(Minus(c, outer), inner) = Across(c)
    <3>1. dir \in Direction /\ Flip(dir) \in Direction /\ \A d \in Dim : Flip(dir)[d] = 0 - dir[d]
      BY <1>3, <1>4, <2>2, DirectionsAre
    <3>2. H_BW \in Nat /\ INX \in Nat /\ w \in Nat /\ H_NX = INX + 2 * H_BW
      BY Halves
    <3>3. \A d \in Dim : /\ c[d] \in Int /\ dir[d] \in {-1, 0, 1}
                         /\ dir[d] = -1 <=> c[d] < H_BW
                         /\ dir[d] = 1 <=> c[d] >= H_BW + INX
      BY <2>2, DirOfIs
    <3>4. ASSUME NEW d \in Dim
          PROVE  /\ dir[d] = -1 => outer[d] = H_BW - w
                 /\ dir[d] = 0 => outer[d] = H_BW
                 /\ dir[d] = 1 => outer[d] = H_BW + INX
      <4>1. INX \in Nat /\ w \in Nat
        BY <3>2
      <4> QED
        BY ONLY <4>1, <3>1, BoxIs, d \in Dim
    <3>5. ASSUME NEW d \in Dim
          PROVE  /\ Flip(dir)[d] = -1 => inner[d] = H_BW
                 /\ Flip(dir)[d] = 0 => inner[d] = H_BW
                 /\ Flip(dir)[d] = 1 => inner[d] = H_BW + INX - w
      <4>1. INX \in Nat /\ w \in Nat
        BY <3>2
      <4> QED
        BY ONLY <4>1, <3>1, BoxIs, d \in Dim
    <3>6. Plus(Minus(c, outer), inner) = [d \in Dim |-> (c[d] - outer[d]) + inner[d]]
      BY DEF Plus, Minus
    <3> HIDE DEF outer, inner
    <3>7. ASSUME NEW d \in Dim
          PROVE  (c[d] - outer[d]) + inner[d] =
                   IF c[d] < H_BW THEN c[d] + INX
                   ELSE IF c[d] >= H_BW + INX THEN c[d] - INX ELSE c[d]
      <4> DEFINE e == dir[d]
                 g == Flip(dir)[d]
                 o == outer[d]
                 i == inner[d]
                 y == c[d]
      <4>1. /\ e = -1 => o = H_BW - w
            /\ e = 0 => o = H_BW
            /\ e = 1 => o = H_BW + INX
            /\ g = -1 => i = H_BW
            /\ g = 0 => i = H_BW
            /\ g = 1 => i = H_BW + INX - w
            /\ g = 0 - e /\ e \in {-1, 0, 1} /\ y \in Int
            /\ (e = -1 <=> y < H_BW) /\ (e = 1 <=> y >= H_BW + INX)
        BY <3>1, <3>3, <3>4, <3>5
      <4> HIDE DEF e, g, o, i, y
      <4>2. (y - o) + i = IF y < H_BW THEN y + INX
                          ELSE IF y >= H_BW + INX THEN y - INX ELSE y
        BY ONLY <3>2, <4>1
      <4> QED
        BY <4>2 DEF o, i, y
    <3> QED
      BY <3>6, <3>7 DEF Across
  <2> QED
    BY <1>1, <1>4, <2>2, <2>3
<1>5. CASE ~(Near(c, w) /\ c \notin Inner /\ Neighbor(n, DirOf(c)) \in Nodes(refined))
  <2>1. from = {}
    BY <1>2, <1>3, <1>5, SidesAre
  <2> QED
    BY <1>1, <1>5, <2>1
<1> QED
  BY <1>4, <1>5

(* What a node gets from its parent: the cells on the sides without        *)
(* neighbors.                                                              *)
LEMMA CompleteIs ==
  ASSUME NEW u, NEW n, NEW f \in Field, NEW c \in Cell
  PROVE  CompleteAmrBoundary(u, n, f)[c] =
           IF c \notin Inner /\ n # Root /\ Neighbor(n, DirOf(c)) \notin Nodes(refined)
           THEN Interpolate(Ushad(n, f), CoarseOf(c), Half(c)) ELSE u[c]
<1>1. CompleteAmrBoundary(u, n, f)[c] =
        IF CoarseSideOf[CoarseOf(c)] \cap Missing(n) # {}
        THEN Interpolate(Ushad(n, f), CoarseOf(c), Half(c)) ELSE u[c]
  BY DEF CompleteAmrBoundary, CoarseOf
<1>2. DirOf(c) \in Missing(n) <=>
        n # Root /\ DirOf(c) \in Direction /\ Neighbor(n, DirOf(c)) \notin Nodes(refined)
  BY DEF Missing, Neighbors
<1>3. DirOf(c) \in Direction <=> c \notin Inner
  BY DirOfIs
<1>4. CoarseSideOf[CoarseOf(c)] \cap Missing(n) # {} <=> c \notin Inner /\ DirOf(c) \in Missing(n)
  BY CoarseSidesAre
<1> QED
  BY <1>1, <1>2, <1>3, <1>4

(* What is sent for a side without neighbor.                               *)
LEMMA UshadIs ==
  ASSUME NEW n, NEW f \in Field, NEW c \in Cell, c \notin Inner, n # Root,
         Neighbor(n, DirOf(c)) \notin Nodes(refined), NEW o \in Around
  PROVE  Ushad(n, f)[Plus(CoarseOf(c), o)] = U[Parent(n)][f][ParentCell(n, Plus(CoarseOf(c), o))]
<1>1. DirOf(c) \in Missing(n)
  BY DirOfIs DEF Missing, Neighbors
<1>2. /\ Plus(CoarseOf(c), o) \in Shadow
      /\ DirOf(c) \in ShadowSidesOf[Plus(CoarseOf(c), o)]
  BY ShadowSidesAre
<1>3. \A i \in Shadow : Ushad(n, f)[i] = IF ShadowSidesOf[i] \cap Missing(n) # {}
                                         THEN Subset(n, f, i) ELSE Nothing
  BY DEF Ushad
<1>4. Ushad(n, f)[Plus(CoarseOf(c), o)] = Subset(n, f, Plus(CoarseOf(c), o))
  BY <1>1, <1>2, <1>3
<1> QED
  BY <1>4 DEF Subset, ParentCell

-----------------------------------------------------------------------------
(* The physical boundaries of all dimensions, one after another: every cell*)
(* gets the value of the one that stands for it.                           *)
LEMMA PhysicalBoundariesClamp ==
  ASSUME NEW u, NEW n, Located(n), NEW c \in Cell
  PROVE  SetPhysicalBoundaries(u, n)[c] = u[ClampCell(n, c)]
<1> DEFINE upTo(k, b) == [d \in Dim |-> IF d <= k THEN ClampCell(n, b)[d] ELSE b[d]]
           step(b, k) == IF b[k] < H_BW /\ n.x[k] = 0 THEN [b EXCEPT ![k] = H_BW]
                         ELSE IF b[k] >= H_NX - H_BW /\ n.x[k] = 2^n.lev - 1
                              THEN [b EXCEPT ![k] = H_NX - H_BW - 1] ELSE b
           G == [k \in 0..NDIM |-> IF k = 0 THEN u ELSE [b \in Cell |-> u[upTo(k, b)]]]
           IsOut(out) == out = [k \in 0..NDIM |-> IF k = 0 THEN u ELSE Outflow(out[k - 1], n, k)]
<1>1. NDIM \in Nat /\ NDIM >= 1 /\ Dim = 1..NDIM
  BY GridAssumption DEF Dim
<1>2. \A b \in Cell : b = [d \in Dim |-> b[d]]
  BY DEF Cell, Vector
<1>3. ASSUME NEW b \in Cell, NEW k \in Dim
      PROVE  /\ step(b, k) = [d \in Dim |-> IF d = k THEN ClampCell(n, b)[d] ELSE b[d]]
             /\ step(b, k) \in Cell
  <2>1. ClampCell(n, b)[k] = IF b[k] < H_BW /\ n.x[k] = 0 THEN H_BW
                             ELSE IF b[k] >= H_NX - H_BW /\ n.x[k] = 2^n.lev - 1
                                  THEN H_NX - H_BW - 1 ELSE b[k]
    BY DEF ClampCell
  <2>2. \A v : [b EXCEPT ![k] = v] = [d \in Dim |-> IF d = k THEN v ELSE b[d]]
    BY <1>2
  <2>3. b = [d \in Dim |-> IF d = k THEN b[k] ELSE b[d]]
    BY <1>2
  <2>4. step(b, k) = [d \in Dim |-> IF d = k THEN ClampCell(n, b)[k] ELSE b[d]]
    <3>1. CASE b[k] < H_BW /\ n.x[k] = 0
      <4>1. step(b, k) = [b EXCEPT ![k] = H_BW] /\ ClampCell(n, b)[k] = H_BW
        BY <2>1, <3>1
      <4> QED
        BY <2>2, <4>1
    <3>2. CASE ~(b[k] < H_BW /\ n.x[k] = 0) /\ b[k] >= H_NX - H_BW /\ n.x[k] = 2^n.lev - 1
      <4>1. /\ step(b, k) = [b EXCEPT ![k] = H_NX - H_BW - 1]
            /\ ClampCell(n, b)[k] = H_NX - H_BW - 1
        BY <2>1, <3>2
      <4> QED
        BY <2>2, <4>1
    <3>3. CASE ~(b[k] < H_BW /\ n.x[k] = 0) /\ ~(b[k] >= H_NX - H_BW /\ n.x[k] = 2^n.lev - 1)
      <4>1. step(b, k) = b /\ ClampCell(n, b)[k] = b[k]
        BY <2>1, <3>3
      <4> QED
        BY <2>3, <4>1
    <3> QED
      BY <3>1, <3>2, <3>3
  <2> HIDE DEF step
  <2>5. step(b, k) \in Cell
    <3>1. ClampCell(n, b) \in Cell
      BY ClampCellIs
    <3> QED
      BY <2>4, <3>1 DEF Cell, Vector
  <2> QED
    BY <2>4, <2>5
<1>4. \A v, k : Outflow(v, n, k) = [b \in Cell |-> v[step(b, k)]]
  BY DEF Outflow
<1>5. ASSUME NEW k \in Dim, NEW b \in Cell PROVE upTo(k - 1, step(b, k)) = upTo(k, b)
  <2> DEFINE s == step(b, k)
  <2>1. s \in Cell /\ \A d \in Dim : s[d] = IF d = k THEN ClampCell(n, b)[d] ELSE b[d]
    <3> HIDE DEF step
    <3> QED
      BY <1>3
  <2> HIDE DEF s
  <2>2. ASSUME NEW d \in Dim
        PROVE  (IF d <= k - 1 THEN ClampCell(n, s)[d] ELSE s[d]) =
                 IF d <= k THEN ClampCell(n, b)[d] ELSE b[d]
    <3>1. d \in Int /\ k \in Int
      BY <1>1
    <3>2. d # k => ClampCell(n, s)[d] = ClampCell(n, b)[d]
      <4>1. d # k => s[d] = b[d]
        BY <2>1
      <4> QED
        BY <4>1 DEF ClampCell
    <3>3. (d <= k - 1 <=> d <= k /\ d # k)
      BY <3>1
    <3> QED
      BY <2>1, <3>1, <3>2, <3>3
  <2>3. upTo(k - 1, s) = upTo(k, b)
    BY <2>2
  <2> QED
    BY <2>3 DEF s
<1>6. ASSUME NEW k \in 0..NDIM, k # 0 PROVE G[k] = Outflow(G[k - 1], n, k)
  <2>1. k \in Dim /\ k - 1 \in 0..NDIM
    BY <1>1, <1>6
  <2>2. Outflow(G[k - 1], n, k) = [b \in Cell |-> G[k - 1][step(b, k)]]
    <3> HIDE DEF G, step
    <3> QED
      BY <1>4
  <2>3. ASSUME NEW b \in Cell PROVE G[k - 1][step(b, k)] = u[upTo(k, b)]
    <3>1. step(b, k) \in Cell
      BY <1>3, <2>1
    <3>2. upTo(k - 1, step(b, k)) = upTo(k, b)
      BY <1>5, <2>1
    <3>3. CASE k - 1 = 0
      <4>1. G[k - 1] = u
        BY <2>1, <3>3
      <4>2. upTo(0, step(b, k)) = step(b, k)
        <5> HIDE DEF step
        <5>1. \A d \in Dim : ~(d <= 0)
          BY <1>1
        <5>2. step(b, k) = [d \in Dim |-> step(b, k)[d]]
          BY <1>2, <3>1
        <5>3. upTo(0, step(b, k)) = [d \in Dim |-> step(b, k)[d]]
          BY <5>1
        <5> QED
          BY <5>2, <5>3
      <4> HIDE DEF G, step, upTo
      <4> QED
        BY <3>2, <3>3, <4>1, <4>2
    <3>4. CASE k - 1 # 0
      <4>1. G[k - 1] = [a \in Cell |-> u[upTo(k - 1, a)]]
        BY <2>1, <3>4
      <4> HIDE DEF G, step, upTo
      <4> QED
        BY <3>1, <3>2, <4>1
    <3> QED
      BY <3>3, <3>4
  <2>4. G[k] = [b \in Cell |-> u[upTo(k, b)]]
    BY <1>6
  <2> HIDE DEF G, step, upTo
  <2> QED
    BY <2>2, <2>3, <2>4
<1>7. G[0] = u
  BY <1>1
<1>8. IsOut(G)
  <2>1. G = [k \in 0..NDIM |-> G[k]]
    OBVIOUS
  <2> HIDE DEF G
  <2>2. \A k \in 0..NDIM : G[k] = IF k = 0 THEN u ELSE Outflow(G[k - 1], n, k)
    BY <1>6, <1>7
  <2> QED
    BY <2>1, <2>2
<1> DEFINE out == CHOOSE v : IsOut(v)
<1>9. IsOut(out)
  <2> HIDE DEF IsOut, G
  <2> QED
    BY <1>8
<1>10. SetPhysicalBoundaries(u, n) = out[NDIM]
  BY DEF SetPhysicalBoundaries
<1> HIDE DEF out, G
<1>11. \A k \in 0..NDIM : out[k] = IF k = 0 THEN u ELSE Outflow(out[k - 1], n, k)
  BY <1>9
<1>12. out[NDIM] = G[NDIM]
  <2> DEFINE T == {k \in 0..NDIM : out[k] # G[k]}
  <2>1. ASSUME T # {} PROVE FALSE
    <3>1. T \in SUBSET Nat
      OBVIOUS
    <3>2. PICK k \in T : \A j \in T : k <= j
      BY <2>1, <3>1, LeastElement
    <3>3. k \in 0..NDIM /\ out[k] # G[k]
      BY <3>2
    <3>4. k # 0
      BY <1>1, <1>7, <1>11, <3>3
    <3>5. k - 1 \in 0..NDIM /\ k - 1 \notin T
      BY <1>1, <3>2, <3>3, <3>4
    <3>6. out[k - 1] = G[k - 1]
      BY <3>5
    <3>7. out[k] = Outflow(out[k - 1], n, k) /\ G[k] = Outflow(G[k - 1], n, k)
      BY <1>6, <1>11, <3>3, <3>4
    <3> QED
      BY <3>3, <3>6, <3>7
  <2> QED
    BY <1>1, <2>1
<1>13. G[NDIM] = [b \in Cell |-> u[upTo(NDIM, b)]]
  BY <1>1 DEF G
<1>14. upTo(NDIM, c) = ClampCell(n, c)
  <2>1. \A d \in Dim : d <= NDIM
    BY <1>1
  <2>2. upTo(NDIM, c) = [d \in Dim |-> ClampCell(n, c)[d]]
    BY <2>1
  <2>3. ClampCell(n, c) = [d \in Dim |-> ClampCell(n, c)[d]]
    BY ClampCellIs, <1>2
  <2> QED
    BY <2>2, <2>3
<1> HIDE DEF upTo
<1> QED
  BY <1>10, <1>12, <1>13, <1>14

(* What is made from the parent's cells is at its place, and of this stage *)
(* if they are.                                                            *)
LEMMA AmrIs ==
  ASSUME refined \in Trees, stage \in Nat, NEW n \in Nodes(refined), n # Root,
         NEW f \in Field, NEW c \in Cell, c \notin Inner,
         Neighbor(n, DirOf(c)) \notin Nodes(refined), Near(c, FieldBw[f]),
         \A d \in Dim : 0 <= Place(n, c)[d] /\ Place(n, c)[d] <= Last(n.lev),
         AllRight(Parent(n))
  PROVE  /\ AtPlace(Interpolate(Ushad(n, f), CoarseOf(c), Half(c)), n, c)
         /\ ~Energy(exchange) /\ AllFresh(Parent(n)) =>
              Current(Interpolate(Ushad(n, f), CoarseOf(c), Half(c)), stage, n, c)
<1> DEFINE p == Parent(n)
           l == p.lev
           i == CoarseOf(c)
           x == Place(p, ParentCell(n, i))
           u == Ushad(n, f)
           r == Interpolate(u, i, Half(c))
<1>1. l \in Nat /\ n.lev = l + 1 /\ n.lev \in Nat
  BY ParentIs, NodesAre, InnerIs
<1>2. x \in Vector(Int) /\ Plus(Times(2, x), Half(c)) = Place(n, c)
      /\ \A d \in Dim : 0 <= x[d] /\ x[d] <= Last(l)
  BY ParentPlaceIs, ParentIs
<1>3. i \in Vector(Int)
  BY CoarseIs
<1>4. FieldBw[f] \in 0..H_BW /\ H_BW - 1 <= FieldBw[f]
  BY FieldBwIs
<1>5. ASSUME NEW o \in Around
      PROVE  LET pc == ParentCell(n, Plus(i, o))
             IN /\ u[Plus(i, o)] = U[p][f][pc] /\ pc \in Cell /\ Near(pc, FieldBw[f])
                /\ Here(p, pc) = Clamp(l, Plus(x, o))
  <2>1. u[Plus(i, o)] = U[p][f][ParentCell(n, Plus(i, o))]
    BY UshadIs
  <2>2. /\ ParentCell(n, Plus(i, o)) \in Cell /\ Near(ParentCell(n, Plus(i, o)), FieldBw[f])
        /\ Place(p, ParentCell(n, Plus(i, o))) = Plus(x, o)
    BY <1>4, ParentCellIs
  <2> QED
    BY <2>1, <2>2 DEF Here
<1> HIDE DEF u, i, x
<1>6. ASSUME NEW o \in Around
      PROVE  u[Plus(i, o)] = Value(u[Plus(i, o)].stage, l, Clamp(l, Plus(x, o)))
  BY <1>5, <1>6 DEF AllRight, AtPlace
<1>7. /\ r = Value(r.stage, l + 1, Plus(Times(2, x), Half(c)))
      /\ \A s \in Int : (\A o \in Around : u[Plus(i, o)].stage = s) => r.stage = s
  <2> HIDE DEF l
  <2>1. l \in Nat /\ x \in Vector(Int) /\ i \in Vector(Int)
        /\ \A d \in Dim : 0 <= x[d] /\ x[d] <= Last(l)
    BY <1>1, <1>2, <1>3
  <2>2. \A o \in Around : u[Plus(i, o)] = Value(u[Plus(i, o)].stage, l, Clamp(l, Plus(x, o)))
    BY <1>6
  <2> QED
    BY ONLY <2>1, <2>2, InterpolateIs
<1>8. Here(n, c) = Place(n, c)
  <2>1. Place(n, c) \in Vector(Int)
    BY NodesAre, InnerIs, PlaceIs
  <2> QED
    BY <1>1, <2>1, ClampIs DEF Here
<1> HIDE DEF r, p, l
<1>9. AtPlace(r, n, c)
  BY <1>1, <1>2, <1>7, <1>8 DEF AtPlace
<1>10. ASSUME ~Energy(exchange), AllFresh(p) PROVE Current(r, stage, n, c)
  <2>1. ASSUME NEW o \in Around PROVE u[Plus(i, o)].stage = stage
    <3>1. PICK pc \in Cell : u[Plus(i, o)] = U[p][f][pc] /\ Near(pc, FieldBw[f])
      BY <1>5
    <3>2. Near(pc, Width(f, Energy(exchange)))
      BY <1>10, <3>1, WidthIs
    <3>3. Current(U[p][f][pc], stage, p, pc)
      BY <1>10, <3>2 DEF AllFresh
    <3> QED
      BY <3>1, <3>3, CurrentIs
  <2>2. r.stage = stage
    BY <1>7, <2>1
  <2> QED
    BY <1>9, <2>2 DEF AtPlace, Current
<1> QED
  BY <1>9, <1>10 DEF r, u, i, p

(* What a node collects, where its cells are of the domain.                *)
LEMMA CollectedInDomain ==
  ASSUME refined \in Trees, stage \in Nat, NEW n \in Nodes(refined),
         \A m \in Nodes(refined) : InnerFresh(m),
         Energy(exchange) => AllRight(n),
         n # Root => AllRight(Parent(n)) /\ AllFresh(Parent(n)),
         NEW f \in Field, NEW c \in Cell, Near(c, FieldBw[f]),
         \A d \in Dim : 0 <= Place(n, c)[d] /\ Place(n, c)[d] <= Last(n.lev),
         NEW set, set = SetHydroBoundary(n, f, Width(f, Energy(exchange))),
         NEW base, base = IF Energy(exchange) /\ f # "egas" THEN set
                          ELSE CompleteAmrBoundary(set, n, f)
  PROVE  /\ AtPlace(base[c], n, c)
         /\ c \in Inner => Current(base[c], stage, n, c)
         /\ Near(c, Width(f, Energy(exchange))) =>
              \/ Current(base[c], stage, n, c)
              \/ Energy(exchange) /\ Home(n, c) \notin Nodes(refined)
<1> DEFINE w == Width(f, Energy(exchange))
           m == Neighbor(n, DirOf(c))
           amr == Interpolate(Ushad(n, f), CoarseOf(c), Half(c))
<1>1. w \in 0..H_BW /\ (~Energy(exchange) => w = FieldBw[f]) /\ (Energy(exchange) /\ f # "egas" => w = 0)
  BY WidthIs
<1>2. set[c] = IF Near(c, w) /\ c \notin Inner /\ m \in Nodes(refined)
               THEN U[m][f][Across(c)] ELSE U[n][f][c]
  <2> HIDE DEF w
  <2> QED
    BY <1>1, SetIs DEF w
<1>3. CompleteAmrBoundary(set, n, f)[c] =
        IF c \notin Inner /\ n # Root /\ m \notin Nodes(refined) THEN amr ELSE set[c]
  BY CompleteIs
<1>4. Located(n) /\ n.lev \in Nat /\ n.x \in Vector(Int)
  BY NodesAre, InnerIs
<1> HIDE DEF w
<1>5. CASE c \in Inner
  <2>1. base[c] = U[n][f][c]
    BY <1>2, <1>3, <1>5
  <2>2. Current(U[n][f][c], stage, n, c)
    BY <1>5 DEF InnerFresh
  <2> QED
    BY <2>1, <2>2, CurrentIs
<1>6. CASE c \notin Inner /\ m \in Nodes(refined)
  <2>1. base[c] = set[c]
    BY <1>3, <1>6
  <2>2. CASE Near(c, w)
    <3>1. base[c] = U[m][f][Across(c)]
      BY <1>2, <1>6, <2>1, <2>2
    <3>2. Across(c) \in Inner /\ Place(m, Across(c)) = Place(n, c) /\ m.lev = n.lev
      BY <1>4, AcrossIs DEF Neighbor
    <3> HIDE DEF m
    <3>3. Here(m, Across(c)) = Here(n, c)
      BY <3>2 DEF Here
    <3>4. Current(U[m][f][Across(c)], stage, m, Across(c))
      BY <1>6, <3>2 DEF InnerFresh
    <3>5. Current(base[c], stage, n, c)
      BY <3>1, <3>2, <3>3, <3>4 DEF Current
    <3> QED
      BY <3>5, <1>6, CurrentIs
  <2>3. CASE ~Near(c, w)
    <3>1. base[c] = U[n][f][c] /\ Energy(exchange)
      BY <1>1, <1>2, <2>1, <2>3
    <3>2. AtPlace(base[c], n, c)
      BY <3>1 DEF AllRight
    <3> QED
      BY <1>6, <2>3, <3>2 DEF w
  <2> QED
    BY <2>2, <2>3
<1>7. CASE c \notin Inner /\ m \notin Nodes(refined)
  <2>1. Home(n, c) = m
    BY <1>4, HomeIs
  <2>2. n # Root
    <3> SUFFICES ASSUME n = Root PROVE c \in Inner
      BY <1>7
    <3>1. n.lev = 0 /\ \A d \in Dim : n.x[d] = 0
      BY RootIs
    <3>2. c \in Vector(Int) /\ \A d \in Dim : c[d] \in Int
      BY DirOfIs
    <3>3. \A d \in Dim : Place(n, c)[d] = n.x[d] * INX + c[d] - H_BW
      BY <1>4, <3>2, PlaceIs
    <3>4. 0 * INX = 0 /\ Last(0) = INX - 1
      BY WholeNodes, LastIs
    <3>5. INX \in Nat /\ H_BW \in Nat
      BY Halves
    <3>6. \A d \in Dim : Place(n, c)[d] = 0 + c[d] - H_BW
      BY <3>1, <3>3, <3>4
    <3>7. \A d \in Dim : 0 <= Place(n, c)[d] /\ Place(n, c)[d] <= INX - 1
      BY <3>1, <3>4
    <3>8. \A d \in Dim : H_BW <= c[d] /\ c[d] <= H_BW + INX - 1
      BY <3>2, <3>5, <3>6, <3>7
    <3> QED
      BY <3>2, <3>8, InnerIs
  <2>3. CASE Energy(exchange) /\ f # "egas"
    <3>1. base[c] = U[n][f][c]
      BY <1>2, <1>7, <2>3
    <3>2. AtPlace(base[c], n, c)
      BY <2>3, <3>1 DEF AllRight
    <3>3. ~Near(c, w)
      BY <1>1, <1>7, <2>3, NearInner
    <3> QED
      BY <1>7, <3>2, <3>3 DEF w
  <2>4. CASE ~(Energy(exchange) /\ f # "egas")
    <3>1. base[c] = amr
      BY <1>3, <1>7, <2>2, <2>4
    <3>2. AllRight(Parent(n)) /\ AllFresh(Parent(n))
      BY <2>2
    <3>3. /\ AtPlace(amr, n, c)
          /\ ~Energy(exchange) => Current(amr, stage, n, c)
      BY <1>7, <2>2, <3>2, AmrIs
    <3> HIDE DEF amr, m
    <3> QED
      BY <1>7, <2>1, <3>1, <3>3
  <2> QED
    BY <2>3, <2>4
<1> QED
  BY <1>5, <1>6, <1>7

(* collect_hydro_boundaries: when neighbors have their own cells, and the  *)
(* parent its ghosts, of this stage, all cells of the node as deep as the  *)
(* exchange goes, corners and cells beyond the domain included, hold the   *)
(* value of their place, of this stage, but for AMR ghosts of the exchange *)
(* of the energy.                                                          *)
THEOREM CollectedAtPlace ==
  ASSUME refined \in Trees, stage \in Nat, NEW n \in Nodes(refined),
         \A m \in Nodes(refined) : InnerFresh(m),
         Energy(exchange) => AllRight(n),
         n # Root => AllRight(Parent(n)) /\ AllFresh(Parent(n)),
         NEW f \in Field, NEW c \in Cell
  PROVE  /\ c \in Inner => Current(Collected(n, f, Energy(exchange))[c], stage, n, c)
         /\ Near(c, FieldBw[f]) => AtPlace(Collected(n, f, Energy(exchange))[c], n, c)
         /\ Near(c, Width(f, Energy(exchange))) =>
              \/ Current(Collected(n, f, Energy(exchange))[c], stage, n, c)
              \/ Energy(exchange) /\ Home(n, c) \notin Nodes(refined)
<1> DEFINE set == SetHydroBoundary(n, f, Width(f, Energy(exchange)))
           base == IF Energy(exchange) /\ f # "egas" THEN set
                   ELSE CompleteAmrBoundary(set, n, f)
           a == ClampCell(n, c)
           v == Collected(n, f, Energy(exchange))[c]
<1>1. Located(n)
  BY NodesAre
<1>2. v = base[a]
  <2>1. v = SetPhysicalBoundaries(base, n)[c]
    BY DEF Collected
  <2> HIDE DEF base, v
  <2> QED
    BY <1>1, <2>1, PhysicalBoundariesClamp
<1>3. /\ a \in Cell /\ (c \in Inner => a = c) /\ Here(n, a) = Here(n, c)
      /\ \A w \in 0..H_BW : Near(c, w) => Near(a, w)
      /\ \A d \in Dim : 0 <= Place(n, a)[d] /\ Place(n, a)[d] <= Last(n.lev)
  BY <1>1, ClampCellIs
<1>4. Width(f, Energy(exchange)) \in 0..H_BW /\ FieldBw[f] \in 0..H_BW
      /\ \A b \in Cell : Near(b, Width(f, Energy(exchange))) => Near(b, FieldBw[f])
  BY WidthIs, FieldBwIs
<1> HIDE DEF a
<1>5. ASSUME Near(c, FieldBw[f])
      PROVE  /\ AtPlace(base[a], n, a)
             /\ a \in Inner => Current(base[a], stage, n, a)
             /\ Near(a, Width(f, Energy(exchange))) =>
                  \/ Current(base[a], stage, n, a)
                  \/ Energy(exchange) /\ Home(n, a) \notin Nodes(refined)
  <2>1. Near(a, FieldBw[f])
    BY <1>3, <1>4, <1>5
  <2> HIDE DEF base
  <2> QED
    BY <1>3, <2>1, CollectedInDomain DEF base
<1> HIDE DEF base, v
<1>6. Home(n, a) = Home(n, c)
  BY <1>3 DEF Home
<1>7. Current(base[a], stage, n, a) => Current(v, stage, n, c)
  BY <1>2, <1>3 DEF Current
<1>8. AtPlace(base[a], n, a) => AtPlace(v, n, c)
  BY <1>2, <1>3 DEF AtPlace
<1>9. c \in Inner => Near(c, FieldBw[f])
  <2>1. c \in Inner => Near(c, Width(f, Energy(exchange)))
    <3> SUFFICES ASSUME c \in Inner PROVE Near(c, Width(f, Energy(exchange)))
      OBVIOUS
    <3> DEFINE w == Width(f, Energy(exchange))
    <3>1. w \in Nat /\ H_BW \in Nat /\ H_NX = INX + 2 * H_BW /\ INX \in Nat
      BY <1>4, Halves
    <3>2. \A d \in Dim : c[d] \in Int /\ H_BW <= c[d] /\ c[d] <= H_BW + INX - 1
      BY DirOfIs, InnerIs
    <3> HIDE DEF w
    <3>3. \A d \in Dim : H_BW - w <= c[d] /\ c[d] < H_NX - H_BW + w
      BY <3>1, <3>2
    <3> QED
      BY <3>3 DEF Near, w
  <2> QED
    BY <1>4, <2>1
<1>10. CASE Near(c, FieldBw[f])
  <2>1. Near(c, Width(f, Energy(exchange))) => Near(a, Width(f, Energy(exchange)))
    BY <1>3, <1>4
  <2> QED
    BY <1>3, <1>5, <1>6, <1>7, <1>8, <1>10, <2>1 DEF v
<1>11. CASE ~Near(c, FieldBw[f])
  BY <1>4, <1>9, <1>11
<1> QED
  BY <1>10, <1>11

-----------------------------------------------------------------------------
(* get_restrict and set_restrict: a refined node's own cells are the       *)
(* averages of its children's at their places.                             *)
THEOREM RestrictedAtPlace ==
  ASSUME refined \in Trees, NEW n \in refined,
         \A ci \in Octant : InnerFresh(Child(n, ci)), NEW f \in Field, NEW c \in Inner
  PROVE  Current(Restricted(n, f)[c], stage, n, c)
<1> DEFINE q == INX \div 2
           own == [d \in Dim |-> c[d] - H_BW]
           ci == [d \in Dim |-> own[d] \div q]
           rem == [d \in Dim |-> own[d] % q]
           b == [d \in Dim |-> H_BW + 2 * (own[d] % q)]
           m == Child(n, ci)
           u == U[m][f]
           x == Place(n, c)
<1>1. H_BW \in Nat /\ q \in Nat /\ q >= 1 /\ INX = 2 * q /\ INX \in Nat
  BY Halves
<1>2. /\ n \in Nodes(refined) /\ Located(n) /\ n.lev \in Nat /\ n.x \in Vector(Int)
      /\ n = [lev |-> n.lev, x |-> n.x]
  <2>1. n \in Nodes(refined)
    BY TreesAssumption
  <2>2. Located(n)
    BY <2>1, NodesAre
  <2> QED
    BY <2>1, <2>2, InnerIs DEF Located
<1>3. c \in Cell /\ c \in Vector(Int)
      /\ \A d \in Dim : c[d] \in Int /\ H_BW <= c[d] /\ c[d] <= H_BW + INX - 1
  <2>1. c \in Cell /\ c \in Vector(Int)
    BY InnerIs
  <2> QED
    BY <2>1, InnerIs, DirOfIs
<1>4. ASSUME NEW d \in Dim
      PROVE  /\ ci[d] \in {0, 1} /\ rem[d] \in 0..(q - 1) /\ ci[d] \in Int
             /\ c[d] - H_BW = (IF ci[d] = 1 THEN q ELSE 0) + rem[d]
  <2> DEFINE y == own[d]
             k == y \div q
             r == y % q
             kq == q * k
  <2>1. y \in 0..(2 * q - 1) /\ y = c[d] - H_BW
    BY <1>1, <1>3
  <2>2. ci[d] = k /\ rem[d] = r
    OBVIOUS
  <2> HIDE DEF y, q, ci, rem
  <2>3. k \in Int /\ r \in 0..(q - 1) /\ y = kq + r /\ kq \in Int
    BY <1>1, <2>1
  <2> HIDE DEF r
  <2>4. /\ k >= 2 => kq >= 2 * q
        /\ k <= -1 => kq <= 0 - q
        /\ k = 0 => kq = 0
        /\ k = 1 => kq = q
    <3> HIDE DEF k
    <3> QED
      BY <1>1, <2>3
  <2> HIDE DEF k, kq
  <2>5. k \in {0, 1} /\ y = (IF k = 1 THEN q ELSE 0) + r
    BY <1>1, <2>1, <2>3, <2>4
  <2> QED
    BY <2>1, <2>2, <2>3, <2>5
<1>5. ci \in Octant
  <2>1. ci = [d \in Dim |-> ci[d]]
    OBVIOUS
  <2> HIDE DEF ci
  <2> QED
    BY <1>4, <2>1 DEF Octant, Vector
<1>6. \A d \in Dim : b[d] = H_BW + 2 * rem[d] /\ b[d] \in Int
  <2>1. \A d \in Dim : b[d] = H_BW + 2 * rem[d]
    OBVIOUS
  <2> HIDE DEF b, rem, ci
  <2> QED
    BY <1>1, <1>4, <2>1
<1>7. b \in Vector(Int)
  <2>1. b = [d \in Dim |-> b[d]]
    OBVIOUS
  <2> HIDE DEF b
  <2> QED
    BY <1>6, <2>1 DEF Vector
<1>8. Restricted(n, f)[c] = Average(u, b)
  BY <1>3 DEF Restricted
<1> HIDE DEF ci, b, own, rem
<1>9. /\ m.lev = n.lev + 1 /\ m.x \in Vector(Int)
      /\ \A d \in Dim : m.x[d] = 2 * n.x[d] + ci[d] /\ n.x[d] \in Int
  BY <1>2, <1>5, ChildIs
<1>10. m \in Nodes(refined) /\ Located(m)
  <2>1. m \in Nodes(refined)
    BY <1>5 DEF Nodes
  <2> QED
    BY <2>1, NodesAre
<1>11. InnerFresh(m)
  BY <1>5
<1> HIDE DEF m
<1>12. ASSUME NEW o \in Octant
       PROVE  LET j == Plus(b, o)
              IN /\ j \in Inner /\ u[j] = Value(stage, n.lev + 1, Plus(Times(2, x), Minus(j, b)))
  <2> DEFINE j == Plus(b, o)
  <2>1. o \in Vector(Int) /\ \A d \in Dim : o[d] \in {0, 1}
    BY DEF Octant, Vector
  <2>2. j \in Vector(Int) /\ \A d \in Dim : j[d] = b[d] + o[d] /\ j[d] \in Int
    BY <1>7, <2>1, SumIs
  <2> HIDE DEF j
  <2>3. \A d \in Dim : H_BW <= j[d] /\ j[d] <= H_BW + INX - 1
    BY <1>1, <1>4, <1>6, <2>1, <2>2
  <2>4. j \in Inner
    BY <2>2, <2>3, InnerIs
  <2>5. Place(m, j) = Plus(Times(2, x), Minus(j, b))
    <3>1. /\ Place(m, j) \in Vector(Int)
          /\ \A d \in Dim : Place(m, j)[d] = m.x[d] * INX + j[d] - H_BW
      BY <1>9, <2>2, PlaceIs
    <3>2. /\ x \in Vector(Int)
          /\ \A d \in Dim : x[d] = n.x[d] * INX + c[d] - H_BW /\ n.x[d] * INX \in Int
      BY <1>2, <1>3, PlaceIs
    <3> HIDE DEF x
    <3>3. Times(2, x) \in Vector(Int) /\ \A d \in Dim : Times(2, x)[d] = 2 * x[d]
      <4>1. 2 \in Int
        OBVIOUS
      <4>2. Times(2, x) \in Vector(Int)
        BY <3>2, <4>1, Vectors
      <4> QED
        BY <4>2 DEF Times
    <3>4. Minus(j, b) \in Vector(Int) /\ \A d \in Dim : Minus(j, b)[d] = j[d] - b[d]
      BY <1>7, <2>2, Vectors
    <3>5. /\ Plus(Times(2, x), Minus(j, b)) \in Vector(Int)
          /\ \A d \in Dim : Plus(Times(2, x), Minus(j, b))[d] = 2 * x[d] + (j[d] - b[d])
      BY <3>3, <3>4, SumIs
    <3>6. ASSUME NEW d \in Dim PROVE Place(m, j)[d] = Plus(Times(2, x), Minus(j, b))[d]
      <4> DEFINE a == n.x[d] * INX
                 e == ci[d]
                 s == m.x[d] * INX
                 r == rem[d]
                 y == c[d]
                 z == x[d]
                 g == j[d]
                 h == b[d]
      <4>1. a \in Int /\ e \in {0, 1} /\ s = IF e = 1 THEN 2 * a + INX ELSE 2 * a
        <5>1. n.x[d] \in Int /\ m.x[d] = 2 * n.x[d] + ci[d] /\ ci[d] \in {0, 1}
          BY <1>4, <1>9
        <5>2. /\ (2 * n.x[d]) * INX = 2 * (n.x[d] * INX)
              /\ (2 * n.x[d] + 1) * INX = 2 * (n.x[d] * INX) + INX
          BY <5>1, WholeNodes
        <5>3. CASE ci[d] = 0
          <6>1. m.x[d] = 2 * n.x[d]
            BY <5>1, <5>3
          <6> QED
            BY <3>2, <5>2, <5>3, <6>1
        <5>4. CASE ci[d] = 1
          <6>1. m.x[d] = 2 * n.x[d] + 1
            BY <5>1, <5>4
          <6> QED
            BY <3>2, <5>2, <5>4, <6>1
        <5> QED
          BY <5>1, <5>3, <5>4
      <4>2. /\ r \in Int /\ y \in Int /\ z = a + y - H_BW /\ h = H_BW + 2 * r /\ g \in Int
            /\ y - H_BW = (IF e = 1 THEN q ELSE 0) + r
        BY <1>3, <1>4, <1>6, <2>2, <3>2
      <4>3. Place(m, j)[d] = s + g - H_BW /\ Plus(Times(2, x), Minus(j, b))[d] = 2 * z + (g - h)
        BY <3>1, <3>5
      <4> HIDE DEF a, e, s, r, y, z, g, h, q
      <4>4. s + g - H_BW = 2 * z + (g - h)
        BY ONLY <1>1, <4>1, <4>2
      <4> QED
        BY <4>3, <4>4
    <3> QED
      BY <3>1, <3>5, <3>6, SameVector
  <2>6. u[j] = Value(stage, m.lev, Here(m, j))
    BY <1>11, <2>4 DEF InnerFresh, Current
  <2>7. Here(m, j) = Place(m, j)
    BY <1>10, <2>4, InnerIs DEF Here
  <2> QED
    BY <1>9, <2>4, <2>5, <2>6, <2>7 DEF j
<1>13. u[b].stage = stage /\ u[b].lev = n.lev + 1 /\ u[b].x = Times(2, x)
  <2> DEFINE none == [d \in Dim |-> 0]
  <2>1. none \in Octant /\ none \in Vector(Int) /\ \A d \in Dim : none[d] = 0
    BY DEF Octant, Vector
  <2> HIDE DEF none
  <2>2. Plus(b, none) = b
    <3>1. Plus(b, none) \in Vector(Int) /\ \A d \in Dim : Plus(b, none)[d] = b[d] + 0
      BY <1>7, <2>1, SumIs
    <3>2. \A d \in Dim : Plus(b, none)[d] = b[d]
      BY <1>6, <3>1
    <3> QED
      BY <1>7, <3>1, <3>2, SameVector
  <2>3. u[b] = Value(stage, n.lev + 1, Plus(Times(2, x), Minus(b, b)))
    BY <1>12, <2>1, <2>2
  <2>4. Plus(Times(2, x), Minus(b, b)) = Times(2, x)
    <3>1. x \in Vector(Int)
      BY <1>2, <1>3, PlaceIs
    <3> HIDE DEF x
    <3>2. Times(2, x) \in Vector(Int) /\ \A d \in Dim : Times(2, x)[d] \in Int
      <4>1. 2 \in Int
        OBVIOUS
      <4>2. Times(2, x) \in Vector(Int)
        BY <3>1, <4>1, Vectors
      <4> QED
        BY <4>2, SumIs
    <3>3. Minus(b, b) \in Vector(Int) /\ \A d \in Dim : Minus(b, b)[d] = b[d] - b[d]
      BY <1>7, Vectors
    <3>4. /\ Plus(Times(2, x), Minus(b, b)) \in Vector(Int)
          /\ \A d \in Dim : Plus(Times(2, x), Minus(b, b))[d] = Times(2, x)[d] + (b[d] - b[d])
      BY <3>2, <3>3, SumIs
    <3>5. \A d \in Dim : Plus(Times(2, x), Minus(b, b))[d] = Times(2, x)[d]
      BY <1>6, <3>2, <3>4
    <3> QED
      BY <3>2, <3>4, <3>5, SameVector
  <2> QED
    BY <2>3, <2>4, ValueIs
<1> DEFINE parts == {Plus(b, o) : o \in Octant}
           half == [d \in Dim |-> u[b].x[d] \div 2]
<1>14. half = x
  <2>1. x \in Vector(Int)
    BY <1>2, <1>3, PlaceIs
  <2> HIDE DEF x
  <2>2. \A d \in Dim : x[d] \in Int /\ Times(2, x)[d] = 2 * x[d]
    BY <2>1 DEF Times, Vector
  <2>3. \A d \in Dim : u[b].x[d] \div 2 = x[d]
    BY <1>13, <2>2
  <2>4. x = [d \in Dim |-> x[d]]
    BY <2>1 DEF Vector
  <2> QED
    BY <2>3, <2>4
<1>15. Average(u, b) =
         IF \A j \in parts : u[j] = Value(u[b].stage, u[b].lev, Plus(Times(2, half), Minus(j, b)))
         THEN Value(u[b].stage, u[b].lev - 1, half) ELSE Nothing
  <2> HIDE DEF u
  <2> QED
    BY Zenon DEF Average
<1> HIDE DEF half, u, x
<1>16. \A j \in parts : u[j] = Value(u[b].stage, u[b].lev, Plus(Times(2, half), Minus(j, b)))
  BY <1>12, <1>13, <1>14
<1> HIDE DEF parts
<1>17. Average(u, b) = Value(stage, n.lev, x)
  <2>1. (n.lev + 1) - 1 = n.lev
    BY <1>2
  <2> QED
    BY <1>13, <1>14, <1>15, <1>16, <2>1
<1>18. Here(n, c) = x
  BY <1>2, InnerIs DEF Here, x
<1> QED
  BY <1>8, <1>17, <1>18 DEF Current

(* get_prolong: the own cells of a new node are the parts of its parent's  *)
(* cells at their places, however they lie across its octants.             *)
THEOREM ProlongedAtPlace ==
  ASSUME refined \in Trees, stage \in Nat, \A m \in Nodes(refined) : InnerFresh(m) /\ AllRight(m),
         NEW t \in Trees, t \subseteq Nodes(refined), NEW n \in Nodes(t), n \notin Nodes(refined),
         NEW f \in Field, NEW c \in Inner
  PROVE  Prolonged(n, f, c) = Value(stage, n.lev, Here(n, c))
<1> DEFINE p == Parent(n)
           ci == ChildIndex(n)
           fine == [d \in Dim |-> c[d] + H_BW + ci[d] * INX]
           i == [d \in Dim |-> fine[d] \div 2]
           half == [d \in Dim |-> fine[d] % 2]
           u == U[p][f]
           x == Place(p, i)
           parts == Interpolate(u, i, half)
<1>1. H_BW \in Nat /\ H_BW >= 3 /\ INX \in Nat /\ H_NX = INX + 2 * H_BW
  BY Halves
<1>2. n # Root
  BY DEF Nodes
<1>3. /\ p \in Nodes(refined) /\ n.lev = p.lev + 1 /\ n.lev \in Nat /\ p.lev \in Nat
      /\ Located(n) /\ Located(p) /\ n.x \in Vector(Int) /\ p.x \in Vector(Int)
      /\ \A d \in Dim : n.x[d] = 2 * p.x[d] + ci[d] /\ ci[d] \in {0, 1} /\ p.x[d] \in Int
  <2>1. p \in t /\ p.lev = n.lev - 1 /\ n.lev >= 1
        /\ \A d \in Dim : n.x[d] = 2 * p.x[d] + ci[d] /\ ci[d] \in {0, 1}
    BY <1>2, ParentIs
  <2>2. p \in Nodes(refined) /\ Located(n) /\ Located(p)
    BY <2>1, NodesAre
  <2> HIDE DEF p, ci
  <2> QED
    BY <2>1, <2>2, InnerIs
<1>4. c \in Cell /\ c \in Vector(Int)
      /\ \A d \in Dim : c[d] \in Int /\ H_BW <= c[d] /\ c[d] <= H_BW + INX - 1
  <2>1. c \in Cell /\ c \in Vector(Int)
    BY InnerIs
  <2> QED
    BY <2>1, InnerIs, DirOfIs
<1>5. ASSUME NEW d \in Dim
      PROVE  /\ fine[d] \in Int /\ fine[d] = c[d] + H_BW + (IF ci[d] = 1 THEN INX ELSE 0)
             /\ i[d] \in Int /\ half[d] \in {0, 1} /\ half[d] \in Int
             /\ 2 * i[d] + half[d] = fine[d]
             /\ H_BW <= i[d] /\ i[d] <= H_BW + INX - 1
  <2> DEFINE y == fine[d]
  <2>1. y \in Int /\ y = c[d] + H_BW + (IF ci[d] = 1 THEN INX ELSE 0)
    <3> HIDE DEF ci
    <3>1. y = c[d] + H_BW + ci[d] * INX
      OBVIOUS
    <3>2. 0 * INX = 0 /\ 1 * INX = INX
      BY <1>1
    <3>3. ci[d] = 0 \/ ci[d] = 1
      BY <1>3
    <3> HIDE DEF y
    <3> QED
      BY <1>1, <1>4, <3>1, <3>2, <3>3
  <2>2. i[d] = y \div 2 /\ half[d] = y % 2
    OBVIOUS
  <2> HIDE DEF y, i, half, ci
  <2>3. i[d] \in Int /\ half[d] \in {0, 1} /\ half[d] \in Int /\ 2 * i[d] + half[d] = y
    BY <2>1, <2>2
  <2>4. H_BW <= i[d] /\ i[d] <= H_BW + INX - 1
    BY <1>1, <1>4, <2>1, <2>3
  <2> QED
    BY <2>1, <2>3, <2>4 DEF y
<1>6. i \in Vector(Int) /\ half \in Vector(Int)
  <2>1. i = [d \in Dim |-> i[d]] /\ half = [d \in Dim |-> half[d]]
    OBVIOUS
  <2> HIDE DEF i, half
  <2> QED
    BY <1>5, <2>1 DEF Vector
<1>7. Prolonged(n, f, c) = [parts EXCEPT !.stage = u[i].stage]
  BY DEF Prolonged
<1> HIDE DEF fine, i, half, p, ci
<1>8. i \in Inner
  BY <1>5, <1>6, InnerIs
<1>9. x \in Vector(Int) /\ \A d \in Dim : 0 <= x[d] /\ x[d] <= Last(p.lev)
  <2>1. x \in Vector(Int)
    BY <1>3, <1>6, PlaceIs
  <2> QED
    BY <1>3, <1>8, <2>1, InnerIs
<1>10. ASSUME NEW o \in Around
       PROVE  u[Plus(i, o)] = Value(u[Plus(i, o)].stage, p.lev, Clamp(p.lev, Plus(x, o)))
  <2> DEFINE j == Plus(i, o)
  <2>1. o \in Vector(Int) /\ \A d \in Dim : o[d] \in {-1, 0, 1}
    BY DEF Around, Vector
  <2>2. j \in Vector(Int) /\ \A d \in Dim : j[d] = i[d] + o[d] /\ j[d] \in Int
    BY <1>6, <2>1, SumIs
  <2> HIDE DEF j
  <2>3. \A d \in Dim : H_BW - 1 <= j[d] /\ j[d] <= H_BW + INX
    BY <1>1, <1>5, <2>1, <2>2
  <2>4. j \in Cell
    <3>1. \A d \in Dim : 0 <= j[d] /\ j[d] <= H_NX - 1
      BY <1>1, <2>2, <2>3
    <3> QED
      BY <2>2, <3>1, InnerIs
  <2>5. Near(j, FieldBw[f])
    <3>1. PICK w \in Nat : w = FieldBw[f] /\ w >= H_BW - 1
      BY FieldBwIs
    <3>2. \A d \in Dim : H_BW - w <= j[d] /\ j[d] < H_NX - H_BW + w
      BY <1>1, <2>2, <2>3, <3>1
    <3> QED
      BY <3>1, <3>2 DEF Near
  <2>6. AtPlace(u[j], p, j)
    BY <1>3, <2>4, <2>5 DEF AllRight
  <2>7. Place(p, j) = Plus(x, o)
    <3>1. /\ Place(p, j) \in Vector(Int)
          /\ \A d \in Dim : Place(p, j)[d] = p.x[d] * INX + j[d] - H_BW /\ p.x[d] * INX \in Int
      BY <1>3, <2>2, PlaceIs
    <3>2. \A d \in Dim : x[d] = p.x[d] * INX + i[d] - H_BW
      BY <1>3, <1>6, PlaceIs
    <3>3. Plus(x, o) \in Vector(Int) /\ \A d \in Dim : Plus(x, o)[d] = x[d] + o[d]
      <4> HIDE DEF x
      <4> QED
        BY <1>9, <2>1, SumIs
    <3> HIDE DEF x
    <3>4. ASSUME NEW d \in Dim PROVE Place(p, j)[d] = Plus(x, o)[d]
      <4> DEFINE a == p.x[d] * INX
      <4>1. /\ a \in Int /\ Place(p, j)[d] = a + (i[d] + o[d]) - H_BW
            /\ Plus(x, o)[d] = (a + i[d] - H_BW) + o[d] /\ i[d] \in Int /\ o[d] \in {-1, 0, 1}
        BY <1>5, <2>1, <2>2, <3>1, <3>2, <3>3
      <4> HIDE DEF a
      <4> QED
        BY <1>1, <4>1
    <3> QED
      BY <3>1, <3>3, <3>4, SameVector
  <2> QED
    BY <2>6, <2>7 DEF AtPlace, Here, j
<1> HIDE DEF x
<1>11. parts = Value(parts.stage, p.lev + 1, Plus(Times(2, x), half))
  <2> HIDE DEF u
  <2> DEFINE l == p.lev
  <2>1. l \in Nat /\ \A d \in Dim : 0 <= x[d] /\ x[d] <= Last(l)
    BY <1>3, <1>9
  <2>2. \A o \in Around : u[Plus(i, o)] = Value(u[Plus(i, o)].stage, l, Clamp(l, Plus(x, o)))
    BY <1>10
  <2> HIDE DEF l
  <2>3. i \in Vector(Int) /\ x \in Vector(Int)
    BY <1>6, <1>9
  <2>4. parts = Value(parts.stage, l + 1, Plus(Times(2, x), half))
    BY ONLY <2>1, <2>2, <2>3, InterpolateIs
  <2> QED
    BY <2>4 DEF l
<1>12. Plus(Times(2, x), half) = Place(n, c)
  <2>1. Times(2, x) \in Vector(Int) /\ \A d \in Dim : Times(2, x)[d] = 2 * x[d]
    <3>1. 2 \in Int
      OBVIOUS
    <3>2. Times(2, x) \in Vector(Int)
      BY <1>9, <3>1, Vectors
    <3> QED
      BY <3>2 DEF Times
  <2>2. /\ Plus(Times(2, x), half) \in Vector(Int)
        /\ \A d \in Dim : Plus(Times(2, x), half)[d] = 2 * x[d] + half[d]
    BY <1>6, <2>1, SumIs
  <2>3. /\ Place(n, c) \in Vector(Int)
        /\ \A d \in Dim : Place(n, c)[d] = n.x[d] * INX + c[d] - H_BW
    BY <1>3, <1>4, PlaceIs
  <2>4. \A d \in Dim : x[d] = p.x[d] * INX + i[d] - H_BW /\ p.x[d] * INX \in Int
    BY <1>3, <1>6, PlaceIs DEF x
  <2>5. ASSUME NEW d \in Dim PROVE Plus(Times(2, x), half)[d] = Place(n, c)[d]
    <3> DEFINE a == p.x[d] * INX
               s == n.x[d] * INX
               e == ci[d]
               k == i[d]
               h == half[d]
               y == c[d]
               z == x[d]
    <3>1. a \in Int /\ e \in {0, 1} /\ s = IF e = 1 THEN 2 * a + INX ELSE 2 * a
      <4>1. p.x[d] \in Int /\ n.x[d] = 2 * p.x[d] + ci[d] /\ ci[d] \in {0, 1}
        BY <1>3
      <4>2. /\ (2 * p.x[d]) * INX = 2 * (p.x[d] * INX)
            /\ (2 * p.x[d] + 1) * INX = 2 * (p.x[d] * INX) + INX
        BY <4>1, WholeNodes
      <4>3. CASE ci[d] = 0
        <5>1. n.x[d] = 2 * p.x[d]
          BY <4>1, <4>3
        <5> QED
          BY <2>4, <4>2, <4>3, <5>1
      <4>4. CASE ci[d] = 1
        <5>1. n.x[d] = 2 * p.x[d] + 1
          BY <4>1, <4>4
        <5> QED
          BY <2>4, <4>2, <4>4, <5>1
      <4> QED
        BY <4>1, <4>3, <4>4
    <3>2. /\ k \in Int /\ h \in Int /\ y \in Int /\ z = a + k - H_BW
          /\ 2 * k + h = y + H_BW + (IF e = 1 THEN INX ELSE 0)
      BY <1>4, <1>5, <2>4
    <3>3. Place(n, c)[d] = s + y - H_BW /\ Plus(Times(2, x), half)[d] = 2 * z + h
      BY <2>2, <2>3
    <3> HIDE DEF a, s, e, k, h, y, z
    <3>4. s + y - H_BW = 2 * z + h
      BY ONLY <1>1, <3>1, <3>2
    <3> QED
      BY <3>3, <3>4
  <2> QED
    BY <2>2, <2>3, <2>5, SameVector
<1>13. u[i].stage = stage
  <2>1. Current(u[i], stage, p, i)
    BY <1>3, <1>8 DEF InnerFresh
  <2> HIDE DEF u
  <2> QED
    BY <2>1, CurrentIs
<1>14. Here(n, c) = Place(n, c)
  BY <1>3, InnerIs DEF Here
<1> HIDE DEF parts, u
<1>15. [parts EXCEPT !.stage = stage] = Value(stage, n.lev, Place(n, c))
  BY <1>3, <1>11, <1>12 DEF Value
<1> QED
  BY <1>7, <1>13, <1>14, <1>15

-----------------------------------------------------------------------------
(* The invariant holds when the grids are new.                             *)
LEMMA InvInit == Init => IInv
<1> SUFFICES ASSUME Init PROVE IInv
  OBVIOUS
<1>1. Typed
  <2>1. 1 \in 1..(NRK + 1) /\ 0 \in Nat /\ MaxLevel - 1 \in Int
    BY TreesAssumption DEF NRK
  <2> QED
    BY <2>1, Zenon DEF Init, Typed
<1>2. phase = "restrict" /\ level = MaxLevel - 1 /\ exchange = 1 /\ stage = 0 /\ refined \in Trees
  BY DEF Init
<1>3. ASSUME NEW n \in Nodes(refined), n \notin refined \/ n.lev > level PROVE InnerFresh(n)
  <2>1. n \notin refined
    <3>1. n \in refined => n.lev \in 0..(MaxLevel - 1)
      BY <1>2, TreesAssumption
    <3> QED
      BY <1>2, <1>3, <3>1, TreesAssumption
  <2>2. ASSUME NEW f \in Field, NEW c \in Inner PROVE Current(U[n][f][c], stage, n, c)
    <3>1. c \in Cell
      BY InnerIs
    <3>2. U[n][f][c] = Value(0, n.lev, Place(n, c))
      BY <2>1, <3>1, Zenon DEF Init, NewGrid
    <3>3. Here(n, c) = Place(n, c)
      BY <1>2, NodesAre, InnerIs DEF Here
    <3> QED
      BY <1>2, <3>2, <3>3 DEF Current
  <2> QED
    BY <2>2 DEF InnerFresh
<1> QED
  BY <1>1, <1>2, <1>3 DEF IInv

(* A node's own cells are at their places.                                 *)
LEMMA InnerFreshIsRight ==
  ASSUME NEW n, InnerFresh(n), NEW f \in Field, NEW c \in Inner
  PROVE  AtPlace(U[n][f][c], n, c)
BY CurrentIs DEF InnerFresh

(* A level is restricted: its nodes' own cells are of this stage.          *)
LEMMA RestrictStep == IInv /\ ExchangeInterlevelHydroData => IInv'
<1> SUFFICES ASSUME IInv, ExchangeInterlevelHydroData PROVE IInv'
  OBVIOUS
<1>1. /\ phase = "restrict" /\ refined' = refined /\ exchange' = exchange /\ stage' = stage
      /\ level = 0 => phase' = "collect" /\ level' = 0
      /\ level # 0 => phase' = "restrict" /\ level' = level - 1
  BY DEF ExchangeInterlevelHydroData
<1>2. /\ refined \in Trees /\ level \in Int /\ Typed
      /\ \A n \in Nodes(refined) :
           /\ n \notin refined \/ n.lev > level => InnerFresh(n)
           /\ exchange > 1 => AllRight(n)
  BY <1>1 DEF IInv, Typed
<1>3. \A n \in Nodes(refined) :
        U'[n] = IF n.lev = level /\ n \in refined THEN [f \in Field |-> Restricted(n, f)] ELSE U[n]
  BY DEF ExchangeInterlevelHydroData
<1>4. Typed'
  BY <1>1, <1>2 DEF Typed
<1>5. ASSUME NEW n \in Nodes(refined), n \notin refined \/ n.lev >= level
      PROVE  \A f \in Field, c \in Inner : Current(U'[n][f][c], stage, n, c)
  <2>1. CASE n.lev = level /\ n \in refined
    <3>1. ASSUME NEW ci \in Octant PROVE InnerFresh(Child(n, ci))
      <4>1. Child(n, ci) \in Nodes(refined)
        BY <2>1 DEF Nodes
      <4>2. Child(n, ci).lev = level + 1
        BY <2>1 DEF Child
      <4>3. Child(n, ci).lev > level
        BY <1>2, <4>2
      <4> QED
        BY <1>2, <4>1, <4>3
    <3>2. ASSUME NEW f \in Field, NEW c \in Inner PROVE Current(U'[n][f][c], stage, n, c)
      <4>1. U'[n][f][c] = Restricted(n, f)[c]
        BY <1>3, <2>1
      <4> QED
        BY <1>2, <2>1, <3>1, <4>1, RestrictedAtPlace
    <3> QED
      BY <3>2
  <2>2. CASE ~(n.lev = level /\ n \in refined)
    <3>1. U'[n] = U[n]
      BY <1>3, <2>2
    <3>2. n.lev \in Int
      BY <1>2, NodesAre, InnerIs
    <3>3. InnerFresh(n)
      BY <1>2, <1>5, <2>2, <3>2
    <3> QED
      BY <3>1, <3>3 DEF InnerFresh
  <2> QED
    BY <2>1, <2>2
<1>6. ASSUME NEW n \in Nodes(refined), exchange > 1
      PROVE  \A f \in Field, c \in Cell : Near(c, FieldBw[f]) => AtPlace(U'[n][f][c], n, c)
  <2> SUFFICES ASSUME NEW f \in Field, NEW c \in Cell, Near(c, FieldBw[f])
               PROVE  AtPlace(U'[n][f][c], n, c)
    OBVIOUS
  <2>1. AtPlace(U[n][f][c], n, c)
    BY <1>2, <1>6 DEF AllRight
  <2>2. CASE n.lev = level /\ n \in refined
    <3>1. CASE c \in Inner
      <4>1. Current(U'[n][f][c], stage, n, c)
        <5>1. n.lev >= level
          BY <1>2, <2>2
        <5> QED
          BY <1>5, <3>1, <5>1
      <4> QED
        BY <4>1, CurrentIs
    <3>2. CASE c \notin Inner
      <4>1. U'[n][f][c] = Restricted(n, f)[c]
        BY <1>3, <2>2
      <4>2. Restricted(n, f)[c] = U[n][f][c]
        BY <3>2 DEF Restricted
      <4> QED
        BY <2>1, <4>1, <4>2
    <3> QED
      BY <3>1, <3>2
  <2>3. CASE ~(n.lev = level /\ n \in refined)
    BY <1>3, <2>1, <2>3
  <2> QED
    BY <2>2, <2>3
<1>7. ASSUME NEW n \in Nodes(refined)
      PROVE  /\ phase' # "restrict" \/ n \notin refined \/ n.lev > level' => InnerFresh(n)'
             /\ exchange > 1 => AllRight(n)'
             /\ phase' # "work" /\ ~(phase' = "collect" /\ n.lev < level')
  <2>1. n.lev \in Int /\ n.lev >= 0
    BY <1>2, NodesAre, InnerIs
  <2>2. phase' # "restrict" \/ n \notin refined \/ n.lev > level' => n \notin refined \/ n.lev >= level
    BY <1>1, <1>2, <2>1
  <2>3. phase' # "restrict" \/ n \notin refined \/ n.lev > level' => InnerFresh(n)'
    BY <1>1, <1>5, <2>2 DEF InnerFresh
  <2>4. exchange > 1 => AllRight(n)'
    BY <1>6 DEF AllRight
  <2>5. phase' # "work" /\ ~(phase' = "collect" /\ n.lev < level')
    BY <1>1, <2>1
  <2> QED
    BY <2>3, <2>4, <2>5
<1> QED
  BY <1>1, <1>4, <1>7 DEF IInv

(* A level collects: its parents have, and all have been restricted.       *)
LEMMA CollectStep == IInv /\ CollectHydroBoundaries => IInv'
<1> SUFFICES ASSUME IInv, CollectHydroBoundaries PROVE IInv'
  OBVIOUS
<1>1. /\ phase = "collect" /\ refined' = refined /\ exchange' = exchange /\ stage' = stage
      /\ level = MaxLevel => phase' = "work" /\ level' = level
      /\ level # MaxLevel => phase' = "collect" /\ level' = level + 1
  BY DEF CollectHydroBoundaries
<1>2. /\ refined \in Trees /\ level \in Int /\ stage \in Nat /\ Typed /\ exchange \in 1..(NRK + 1)
      /\ \A n \in Nodes(refined) :
           /\ InnerFresh(n)
           /\ exchange > 1 \/ n.lev < level => AllRight(n)
           /\ n.lev < level => AllFresh(n)
  BY <1>1 DEF IInv, Typed
<1>3. \A n \in Nodes(refined) :
        U'[n] = IF n.lev = level THEN [f \in Field |-> Collected(n, f, Energy(exchange))] ELSE U[n]
  BY DEF CollectHydroBoundaries
<1>4. Typed'
  BY <1>1, <1>2 DEF Typed
<1>5. ASSUME NEW n \in Nodes(refined), n.lev = level
      PROVE  \A f \in Field, c \in Cell :
               /\ c \in Inner => Current(U'[n][f][c], stage, n, c)
               /\ Near(c, FieldBw[f]) => AtPlace(U'[n][f][c], n, c)
               /\ Near(c, Width(f, Energy(exchange))) =>
                    \/ Current(U'[n][f][c], stage, n, c)
                    \/ Energy(exchange) /\ Home(n, c) \notin Nodes(refined)
  <2>1. Energy(exchange) => AllRight(n)
    <3>1. Energy(exchange) => exchange > 1
      BY <1>2 DEF Energy, NRK
    <3> QED
      BY <1>2, <3>1
  <2>2. n # Root => AllRight(Parent(n)) /\ AllFresh(Parent(n))
    <3> SUFFICES ASSUME n # Root PROVE AllRight(Parent(n)) /\ AllFresh(Parent(n))
      OBVIOUS
    <3>1. Parent(n) \in Nodes(refined) /\ Parent(n).lev = n.lev - 1
      BY <1>2, ParentIs
    <3>2. Parent(n).lev < level
      BY <1>2, <1>5, <3>1
    <3> QED
      BY <1>2, <3>1, <3>2
  <2>3. ASSUME NEW f \in Field, NEW c \in Cell
        PROVE  /\ c \in Inner => Current(Collected(n, f, Energy(exchange))[c], stage, n, c)
               /\ Near(c, FieldBw[f]) => AtPlace(Collected(n, f, Energy(exchange))[c], n, c)
               /\ Near(c, Width(f, Energy(exchange))) =>
                    \/ Current(Collected(n, f, Energy(exchange))[c], stage, n, c)
                    \/ Energy(exchange) /\ Home(n, c) \notin Nodes(refined)
    BY <1>2, <2>1, <2>2, CollectedAtPlace
  <2>4. \A f \in Field : U'[n][f] = Collected(n, f, Energy(exchange))
    BY <1>3, <1>5
  <2> QED
    BY <2>3, <2>4
<1>6. ASSUME NEW n \in Nodes(refined)
      PROVE  /\ InnerFresh(n)'
             /\ exchange > 1 \/ n.lev <= level => AllRight(n)'
             /\ n.lev <= level => AllFresh(n)'
  <2>1. n.lev \in Int
    BY <1>2, NodesAre, InnerIs
  <2>2. CASE n.lev = level
    <3>1. InnerFresh(n)'
      BY <1>1, <1>5, <2>2, InnerIs DEF InnerFresh
    <3>2. AllRight(n)'
      BY <1>5, <2>2 DEF AllRight
    <3>3. AllFresh(n)'
      BY <1>1, <1>5, <2>2 DEF AllFresh
    <3> QED
      BY <3>1, <3>2, <3>3
  <2>3. CASE n.lev # level
    <3>1. U'[n] = U[n]
      BY <1>3, <2>3
    <3>2. n.lev <= level => n.lev < level
      BY <1>2, <2>1, <2>3
    <3>3. InnerFresh(n)'
      BY <1>1, <1>2, <3>1 DEF InnerFresh
    <3>4. AllRight(n) => AllRight(n)'
      BY <3>1 DEF AllRight
    <3>5. AllFresh(n) => AllFresh(n)'
      BY <1>1, <3>1 DEF AllFresh
    <3> QED
      BY <1>2, <3>2, <3>3, <3>4, <3>5
  <2> QED
    BY <2>2, <2>3
<1>7. ASSUME NEW n \in Nodes(refined)
      PROVE  (phase' = "work" \/ (phase' = "collect" /\ n.lev < level')) => n.lev <= level
  <2>1. n.lev \in 0..MaxLevel /\ n.lev \in Int
    BY <1>2, NodesAre DEF Located
  <2> QED
    BY <1>1, <1>2, <2>1, TreesAssumption
<1>8. ASSUME NEW n \in Nodes(refined)
      PROVE  /\ InnerFresh(n)'
             /\ phase' = "work" \/ exchange > 1 \/ (phase' = "collect" /\ n.lev < level') => AllRight(n)'
             /\ phase' = "work" \/ (phase' = "collect" /\ n.lev < level') => AllFresh(n)'
  BY <1>6, <1>7
<1> QED
  BY <1>1, <1>4, <1>8 DEF IInv

(* All that the kernels read has been given.                               *)
LEMMA GivenIsNear ==
  \A r \in Given : r \in Field \X Cell /\ Near(r[2], FieldBw[r[1]])
<1> SUFFICES ASSUME NEW r \in Given PROVE r \in Field \X Cell /\ Near(r[2], FieldBw[r[1]])
  OBVIOUS
<1> DEFINE f == r[1]
           c == r[2]
           k == Depth[f]
           w == FieldBw[f]
<1>1. r \in Field \X Cell /\ c \in Within(k) /\ f \in Field /\ c \in Cell
  BY DEF Given
<1>2. k \in Int /\ w = H_BW - k /\ H_BW \in Nat /\ H_NX \in Nat
  BY <1>1, Halves, Sizes DEF Depth, FieldBw
<1> HIDE DEF f, c, k, w
<1>3. c \in Vector(Int) /\ \A d \in Dim : c[d] \in Int
  BY <1>1, DirOfIs
<1>4. \A d \in Dim : k <= c[d] /\ c[d] <= H_NX - 1 - k
  BY <1>1, <1>2, <1>3, CellsAre
<1>5. \A d \in Dim : H_BW - w <= c[d] /\ c[d] < H_NX - H_BW + w
  BY <1>2, <1>3, <1>4
<1> QED
  BY <1>1, <1>5 DEF Near, f, c, w

(* A stage: the kernels have read what has been given, and no more.        *)
LEMMA NextUStep == IInv /\ NextU => IInv'
<1> SUFFICES ASSUME IInv, NextU PROVE IInv'
  OBVIOUS
<1>1. /\ phase = "work" /\ ~Energy(exchange) /\ refined' = refined /\ stage' = stage + 1
      /\ exchange' = exchange + 1 /\ phase' = "restrict" /\ level' = MaxLevel - 1
  BY DEF NextU, StartExchange
<1>2. /\ refined \in Trees /\ stage \in Nat /\ exchange \in 1..(NRK + 1)
      /\ \A n \in Nodes(refined) : InnerFresh(n) /\ AllRight(n) /\ AllFresh(n)
  BY <1>1 DEF IInv, Typed
<1>3. PICK k \in Kernels :
        U' = [n \in Nodes(refined) |->
               IF n \in refined THEN U[n]
               ELSE LET done == k.reads \subseteq Exact(n)
                    IN [f \in Field |-> [c \in Cell |->
                          IF c \notin Inner THEN U[n][f][c]
                          ELSE IF done THEN [U[n][f][c] EXCEPT !.stage = stage + 1]
                          ELSE Nothing]]]
  BY DEF NextU
<1>4. Typed'
  <2>1. exchange + 1 \in 1..(NRK + 1) /\ stage + 1 \in Nat /\ MaxLevel - 1 \in Int
    BY <1>1, <1>2, TreesAssumption DEF Energy, NRK
  <2> QED
    BY <1>1, <1>2, <2>1 DEF Typed
<1>5. ASSUME NEW n \in Nodes(refined) PROVE k.reads \subseteq Exact(n)
  <2>1. k.reads \subseteq Given
    BY KernelsReadGiven
  <2>2. ASSUME NEW r \in Given PROVE r \in Exact(n)
    <3>1. r \in Field \X Cell /\ Near(r[2], FieldBw[r[1]]) /\ r[1] \in Field /\ r[2] \in Cell
      BY GivenIsNear
    <3>2. Near(r[2], Width(r[1], Energy(exchange)))
      BY <1>1, <3>1, WidthIs
    <3>3. Current(U[n][r[1]][r[2]], stage, n, r[2])
      BY <1>1, <1>2, <3>1, <3>2 DEF AllFresh
    <3> QED
      BY <3>1, <3>3 DEF Exact, Current, Here
  <2> QED
    BY <2>1, <2>2
<1>6. ASSUME NEW n \in Nodes(refined), n \notin refined, NEW f \in Field, NEW c \in Cell
      PROVE  U'[n][f][c] = IF c \notin Inner THEN U[n][f][c]
                           ELSE [U[n][f][c] EXCEPT !.stage = stage + 1]
  BY <1>3, <1>5, <1>6
<1>7. ASSUME NEW n \in Nodes(refined), n \notin refined, NEW f \in Field, NEW c \in Inner
      PROVE  Current(U'[n][f][c], stage + 1, n, c)
  <2>1. c \in Cell
    BY InnerIs
  <2>2. U[n][f][c] = Value(stage, n.lev, Here(n, c))
    BY <1>2 DEF InnerFresh, Current
  <2>3. U'[n][f][c] = [U[n][f][c] EXCEPT !.stage = stage + 1]
    BY <1>6, <1>7, <2>1
  <2> QED
    BY <2>2, <2>3 DEF Current, Value
<1>8. ASSUME NEW n \in Nodes(refined) PROVE AllRight(n)'
  <2>1. ASSUME NEW f \in Field, NEW c \in Cell, Near(c, FieldBw[f]) PROVE AtPlace(U'[n][f][c], n, c)
    <3>1. AtPlace(U[n][f][c], n, c)
      BY <1>2, <2>1 DEF AllRight
    <3>2. CASE n \in refined
      <4>1. U'[n] = U[n]
        BY <1>3, <3>2
      <4> QED
        BY <3>1, <4>1
    <3>3. CASE n \notin refined /\ c \notin Inner
      BY <1>6, <3>1, <3>3
    <3>4. CASE n \notin refined /\ c \in Inner
      <4>1. Current(U'[n][f][c], stage + 1, n, c)
        BY <1>7, <3>4
      <4> QED
        BY <4>1, CurrentIs
    <3> QED
      BY <3>2, <3>3, <3>4
  <2> QED
    BY <2>1 DEF AllRight
<1>9. ASSUME NEW n \in Nodes(refined), n \notin refined \/ n.lev > MaxLevel - 1 PROVE InnerFresh(n)'
  <2>1. n \notin refined
    <3>1. n \in refined => n.lev \in 0..(MaxLevel - 1)
      BY <1>2, TreesAssumption
    <3> QED
      BY <1>9, <3>1, TreesAssumption
  <2> QED
    BY <1>1, <1>7, <2>1 DEF InnerFresh
<1> QED
  BY <1>1, <1>4, <1>8, <1>9 DEF IInv

(* A regrid: new nodes are made of what their parents hold.                *)
LEMMA RegridStep == IInv /\ Regrid => IInv'
<1> SUFFICES ASSUME IInv, Regrid PROVE IInv'
  OBVIOUS
<1>1. /\ phase = "work" /\ refined' \in Trees /\ refined' \subseteq Nodes(refined) /\ stage' = stage
      /\ exchange' = 1 /\ phase' = "restrict" /\ level' = MaxLevel - 1
  BY DEF Regrid, StartExchange
<1>2. /\ refined \in Trees /\ stage \in Nat
      /\ \A n \in Nodes(refined) : InnerFresh(n) /\ AllRight(n)
  BY <1>1 DEF IInv, Typed
<1>3. Typed'
  <2>1. 1 \in 1..(NRK + 1) /\ MaxLevel - 1 \in Int
    BY TreesAssumption DEF NRK
  <2> QED
    BY <1>1, <1>2, <2>1 DEF Typed
<1>4. ASSUME NEW n \in Nodes(refined') PROVE InnerFresh(n)'
  <2>1. CASE n \in Nodes(refined)
    <3>1. U'[n] = U[n]
      BY <2>1 DEF Regrid
    <3>2. InnerFresh(n)
      BY <1>2, <2>1
    <3> QED
      BY <1>1, <3>1, <3>2 DEF InnerFresh
  <2>2. CASE n \notin Nodes(refined)
    <3>1. ASSUME NEW f \in Field, NEW c \in Inner PROVE Current(U'[n][f][c], stage, n, c)
      <4>1. c \in Cell
        BY InnerIs
      <4>2. U'[n][f][c] = Prolonged(n, f, c)
        BY <2>2, <4>1, Zenon DEF Regrid, NewGrid
      <4>3. Prolonged(n, f, c) = Value(stage, n.lev, Here(n, c))
        BY <1>1, <1>2, <2>2, ProlongedAtPlace
      <4> QED
        BY <4>2, <4>3 DEF Current
    <3> QED
      BY <1>1, <3>1 DEF InnerFresh
  <2> QED
    BY <2>1, <2>2
<1> QED
  BY <1>1, <1>3, <1>4 DEF IInv

(* Every step preserves the invariant.                                     *)
LEMMA InvStep == IInv /\ [Next]_vars => IInv'
<1> SUFFICES ASSUME IInv, [Next]_vars PROVE IInv'
  OBVIOUS
<1>1. CASE ExchangeInterlevelHydroData
  BY <1>1, RestrictStep
<1>2. CASE CollectHydroBoundaries
  BY <1>2, CollectStep
<1>3. CASE NextU
  BY <1>3, NextUStep
<1>4. CASE Regrid
  BY <1>4, RegridStep
<1>5. CASE UNCHANGED vars
  <2>1. /\ refined' = refined /\ U' = U /\ phase' = phase /\ level' = level
        /\ exchange' = exchange /\ stage' = stage
    BY <1>5 DEF vars
  <2>2. Typed'
    BY <2>1 DEF IInv, Typed
  <2>3. \A n : /\ InnerFresh(n)' <=> InnerFresh(n)
               /\ AllRight(n)' <=> AllRight(n)
               /\ AllFresh(n)' <=> AllFresh(n)
    BY <2>1 DEF InnerFresh, AllRight, AllFresh
  <2> QED
    BY <2>1, <2>2, <2>3 DEF IInv
<1> QED
  BY <1>1, <1>2, <1>3, <1>4, <1>5 DEF Next

(* The invariant says what the property does.                              *)
LEMMA InvImplies == IInv => GhostsExact
<1> SUFFICES ASSUME IInv, phase = "work", NEW n \in Nodes(refined), NEW f \in Field, NEW c \in Cell,
                    Near(c, Width(f, Energy(exchange)))
             PROVE  /\ U[n][f][c].lev = n.lev /\ U[n][f][c].x = Here(n, c)
                    /\ \/ U[n][f][c].stage = stage
                       \/ Energy(exchange) /\ Home(n, c) \notin Nodes(refined)
  BY DEF GhostsExact, Here, Home
<1>1. AllRight(n) /\ AllFresh(n)
  BY DEF IInv
<1>2. AtPlace(U[n][f][c], n, c)
  BY <1>1, WidthIs DEF AllRight
<1>3. \/ Current(U[n][f][c], stage, n, c)
      \/ Energy(exchange) /\ Home(n, c) \notin Nodes(refined)
  BY <1>1 DEF AllFresh
<1> QED
  BY <1>2, <1>3, CurrentIs

(* Whatever the trees, stages and regrids, what each node of each level    *)
(* holds in each phase of an exchange is of its place and stage.           *)
THEOREM GhostInvariant == Spec => []IInv
BY InvInit, InvStep, PTL DEF Spec

(* After each exchange, in the cells as deep as it goes, every grid holds  *)
(* what the domain has at their places in this stage, whether a neighbor,  *)
(* the parent or the domain's boundary was the source; after the exchange  *)
(* of the energy, AMR ghosts of egas may be of an earlier stage.           *)
THEOREM GhostsAreExact == Spec => []GhostsExact
BY GhostInvariant, InvImplies, PTL
=============================================================================
