---------------------------- MODULE HydroKernel ----------------------------
(***************************************************************************)
(* What the fluxes of a grid are made of: the cells that the conversion to *)
(* primitive variables, the reconstruction, its correction of the angular  *)
(* momentum and the Riemann solver read, through scratch arrays that live  *)
(* as long as their thread and keep, where nothing is written, what a grid *)
(* computed before has left there.                                         *)
(*                                                                         *)
(* A value is abstracted to the set of fields and cells it is made of.  One*)
(* field stands for each kind: the momenta, the angular momenta, the energy*)
(* and, with the density, all that are reconstructed alike.                *)
(***************************************************************************)
EXTENDS Integers, FiniteSetsExt

CONSTANTS
  NDIM,        \* dimensions
  INX,         \* cells of a node per dimension
  H_BW         \* cells around them

(* Loops over faces begin and end 3 cells from the edge, whatever H_BW is. *)
ASSUME GridAssumption ==
  /\ NDIM \in Nat \ {0} /\ H_BW \in Nat /\ H_BW >= 3
  /\ INX \in Nat /\ INX % 2 = 0 /\ INX >= H_BW

Dim == 1..NDIM
Vector(S) == [Dim -> S]
Plus(v, w) == [d \in Dim |-> v[d] + w[d]]
Minus(v, w) == [d \in Dim |-> v[d] - w[d]]
Times(k, v) == [d \in Dim |-> k * v[d]]
Unit(dim) == [d \in Dim |-> IF d = dim THEN 1 ELSE 0]

H_NX == INX + 2 * H_BW
Cell == Vector(0..(H_NX - 1))
Within(w) == Vector(w..(H_NX - 1 - w))
Inner == Within(H_BW)
Direction == Vector(-1..1) \ {[d \in Dim |-> 0]}

(* The first NDIR / 2 directions, the first dimension being the last digit *)
(* of their numbers, and the points of the lower face of a dimension.      *)
FirstHalf == {d \in Direction :
                \E m \in Dim : d[m] = -1 /\ \A k \in (m + 1)..NDIM : d[k] = 0}
FacePts(dim) == {d \in Direction : d[dim] = -1}
Flip(d) == Times(-1, d)
FlipDim(d, dim) == [d EXCEPT ![dim] = -d[dim]]

Field == {"rho", "sx", "lx", "egas"}

(* The fields from which a field is made primitive, and conserved again.   *)
Uses == [f \in Field |-> {"rho", f} \cup (IF f = "rho" THEN {} ELSE {"sx"})]

(* Not the value of any cell: what an earlier grid has left.               *)
Stale == {<<"stale", [d \in Dim |-> 0]>>}

-----------------------------------------------------------------------------
(* pre_recon                                                               *)
Primitive(f, c) == Uses[f] \X {c}

(* The slope of the piecewise parabolic method.                            *)
D1(f, d, c) ==
  IF c \in Within(1)
  THEN UNION {Primitive(f, x) : x \in {Minus(c, d), c, Plus(c, d)}}
  ELSE Stale

(* A value at the point halfway to the next cell, written for one cell of  *)
(* the two and for the other: at is in halves of a cell.                   *)
Halfway(f, d, c) ==
  LET i == IF d \in FirstHalf THEN c ELSE Plus(c, d)
      di == IF d \in FirstHalf THEN d ELSE Flip(d)
  IN IF i \in Within(1)
     THEN [at |-> Plus(Times(2, i), di),
           from |-> UNION {Primitive(f, x) \cup D1(f, di, x) : x \in {i, Plus(i, di)}}]
     ELSE [at |-> Times(2, c), from |-> Stale]

(* find_contact_discs: the jump of the pressure.                           *)
Pressure(c) == IF c \in Within(1) THEN {"rho", "sx", "egas"} \X {c} ELSE Stale
Disc(d, c) == Pressure(Minus(c, d)) \cup Pressure(Plus(c, d))

(* reconstruct_ppm: both values of a line through a cell are steepened at  *)
(* a contact discontinuity, and made monotone unless the field is smooth.  *)
ReconstructPPM(f, d, c, smooth, cdisc) ==
  LET q == Halfway(f, d, c)
      steep == IF cdisc
               THEN Disc(d, c) \cup UNION {Primitive(f, Plus(c, Times(k, d))) : k \in -2..2}
               ELSE {}
      monotone == IF smooth THEN {}
                  ELSE Halfway(f, Flip(d), c).from \cup Primitive(f, c)
  IN IF c \in Within(2) THEN [q EXCEPT !.from = @ \cup steep \cup monotone] ELSE q

(* reconstruct_minmod                                                      *)
ReconstructMinmod(f, d, c) ==
  [at |-> Plus(Times(2, c), d),
   from |-> IF c \in Within(1)
            THEN UNION {Primitive(f, x) : x \in {Minus(c, d), c, Plus(c, d)}}
            ELSE Stale]

(* The velocities before their correction, and the angular momentum that   *)
(* they leave for it.                                                      *)
Velocity(d, c) == ReconstructPPM("sx", d, c, TRUE, FALSE)
Density(d, c, cdisc) == ReconstructPPM("rho", d, c, FALSE, cdisc)
AM(c, cdisc) ==
  Primitive("lx", c) \cup Primitive("rho", c)
  \cup UNION {Velocity(d, c).from \cup Density(d, c, cdisc).from : d \in Direction}

CorrectedVelocity(d, c, cdisc) ==
  LET line == {d, Flip(d)}
  IN IF c \notin Within(2) THEN Velocity(d, c)
     ELSE [Velocity(d, c) EXCEPT !.from = @ \cup AM(c, cdisc)
             \cup UNION {Velocity(e, c).from \cup Density(e, c, cdisc).from
                           \cup Primitive("sx", Plus(c, e)) : e \in line}]

(* reconstruct                                                             *)
Reconstruct(f, d, c, correct_am, cdisc) ==
  CASE f = "lx" -> ReconstructMinmod(f, d, c)
    [] f = "sx" /\ correct_am -> CorrectedVelocity(d, c, cdisc)
    [] f = "rho" -> Density(d, c, cdisc)
    [] OTHER -> ReconstructPPM(f, d, c, FALSE, FALSE)

(* post_recon: the state at a point, all fields of it.                     *)
State(d, c, correct_am, cdisc) ==
  LET q == {Reconstruct(f, d, c, correct_am, cdisc) : f \in Field}
  IN [at |-> {r.at : r \in q},
      from |-> IF c \in Within(2) THEN UNION {r.from : r \in q} ELSE Stale]

(* flux: at each point of a face, the states on its two sides.             *)
FluxCell(dim) == {c \in Cell : \A e \in Dim :
                    3 <= c[e] /\ c[e] < H_NX - 3 + (IF e = dim THEN 1 ELSE 0)}

Flux(dim, c, correct_am, cdisc) ==
  LET R(d) == State(d, c, correct_am, cdisc)
      L(d) == State(FlipDim(d, dim), Minus(c, Unit(dim)), correct_am, cdisc)
      point(d) == {Plus(Times(2, c), d)}
  IN IF c \notin FluxCell(dim) THEN Stale
     ELSE UNION {IF R(d).at = point(d) /\ L(d).at = point(d)
                 THEN R(d).from \cup L(d).from ELSE Stale : d \in FacePts(dim)}

(* What the next stage of a leaf is made of: compute_sources and next_u    *)
(* read its own cells, compute_dudt the fluxes on both sides of them; with *)
(* and without the options correct_am_hydro and cdisc_detect.              *)
DuDt(correct_am, cdisc) ==
  Field \X Inner
  \cup UNION {Flux(dim, c, correct_am, cdisc) \cup Flux(dim, Plus(c, Unit(dim)), correct_am, cdisc) :
              dim \in Dim, c \in Inner}
Kernels == {[correct_am |-> a, cdisc |-> b, reads |-> DuDt(a, b)] : a \in BOOLEAN, b \in BOOLEAN}
=============================================================================
