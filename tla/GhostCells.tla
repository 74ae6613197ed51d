----------------------------- MODULE GhostCells -----------------------------
(***************************************************************************)
(* Which cell ends up where: the index arithmetic of restriction, of the   *)
(* boundaries exchanged between nodes of a level, of the AMR boundaries a  *)
(* node takes from its parent, of the physical boundaries, and of the      *)
(* prolongation that fills new nodes.                                      *)
(*                                                                         *)
(* The value of a cell is where and when it comes from: the level and      *)
(* position of the cell it is the value of, and the stage of the oldest    *)
(* value it was made of.  HydroBounds shows that every message is that of  *)
(* the exchange it is used in; here all nodes of a level act at once.      *)
(***************************************************************************)
EXTENDS HydroKernel

CONSTANTS
  MaxLevel,
  Trees,       \* the trees regrid may produce, each by its refined nodes
  MaxRegrids   \* bound: regrids of a behavior

HS_NX == INX \div 2 + 2 * H_BW
Shadow == Vector(0..(HS_NX - 1))       \* cells of the parent's size
Octant == Vector(0..1)

(* Nodes by level and location.                                            *)
Root == [lev |-> 0, x |-> [d \in Dim |-> 0]]
Child(n, ci) == [lev |-> n.lev + 1, x |-> Plus(Times(2, n.x), ci)]
Parent(n) == [lev |-> n.lev - 1, x |-> [d \in Dim |-> n.x[d] \div 2]]
ChildIndex(n) == [d \in Dim |-> n.x[d] % 2]
Neighbor(n, dir) == [lev |-> n.lev, x |-> Plus(n.x, dir)]
Nodes(t) == {Root} \cup {Child(n, ci) : n \in t, ci \in Octant}

(* The nodes around a refined node exist.                                  *)
ASSUME TreesAssumption ==
  /\ MaxLevel \in Nat /\ MaxRegrids \in Nat
  /\ \A t \in Trees : \A n \in t :
    /\ n \in Nodes(t) /\ n.lev \in 0..(MaxLevel - 1)
    /\ \A dir \in Direction :
         LET m == Neighbor(n, dir)
         IN (\A d \in Dim : m.x[d] \in 0..(2^n.lev - 1)) => m \in Nodes(t)

(* A slip: angular momenta are sent less deep than their slopes reach.     *)
FieldBwLessOne == [f \in Field |-> IF f = "lx" THEN H_BW - 2 ELSE H_BW]

(* grid::field_bw and grid::energy_bw                                      *)
FieldBw == [f \in Field |-> IF f = "lx" THEN H_BW - 1 ELSE H_BW]
EnergyBw == [f \in Field |-> IF f = "egas" THEN 1 ELSE 0]
Width(f, energy) == IF energy THEN EnergyBw[f] ELSE FieldBw[f]

-----------------------------------------------------------------------------
(* get_boundary_size: the box of a node's own cells next to one of its     *)
(* sides, or of the cells beyond it.                                       *)
BoundarySize(dir, side, inx, w) ==
  LET off == IF side = "outer" THEN w ELSE 0
      lb == [d \in Dim |-> IF dir[d] <= 0 THEN H_BW + dir[d] * off
                                          ELSE H_BW + inx + off - w]
  IN [lb |-> lb,
      ub |-> [d \in Dim |-> IF dir[d] = 0 THEN H_BW + inx ELSE lb[d] + w]]

In(c, box) == \A d \in Dim : box.lb[d] <= c[d] /\ c[d] < box.ub[d]

(* The box of a side in cells of the parent's size, and with one more cell *)
(* around it for slopes.                                                   *)
CoarseBox(dir) == BoundarySize(dir, "outer", INX \div 2, H_BW)
Widened(box) == [lb |-> [d \in Dim |-> Max({box.lb[d] - 1, 0})],
                 ub |-> [d \in Dim |-> Min({box.ub[d] + 1, HS_NX})]]

(* The side through which a cell is reached, if any.                       *)
SideOf == [w \in 0..H_BW |-> [c \in Cell |->
             {dir \in Direction : In(c, BoundarySize(dir, "outer", INX, w))}]]
CoarseSideOf == [i \in Shadow |-> {dir \in Direction : In(i, CoarseBox(dir))}]
ShadowSidesOf == [i \in Shadow |-> {dir \in Direction : In(i, Widened(CoarseBox(dir)))}]

(* What a cell holds: the value at x on level lev, as of a stage.          *)
Value(t, l, x) == [stage |-> t, lev |-> l, x |-> x]
Nothing == Value(0, MaxLevel + 1, [d \in Dim |-> 0])

(* The domain's cell that stands for one beyond its boundary.              *)
Clamp(l, x) == [d \in Dim |-> Max({0, Min({x[d], 2^l * INX - 1})})]

(* The parts of a coarse cell, from its value and those around it.         *)
Interpolate(u, i, half) ==
  LET v == u[i]
      around == {<<o, u[Plus(i, o)]>> : o \in Vector(-1..1)}
  IN IF \A w \in around : w[2].lev = v.lev /\ w[2].x = Clamp(v.lev, Plus(v.x, w[1]))
     THEN Value(Min({w[2].stage : w \in around}), v.lev + 1, Plus(Times(2, v.x), half))
     ELSE Nothing

-----------------------------------------------------------------------------
VARIABLES
  refined,   \* the refined nodes
  U,         \* the fields of each node's grid
  phase,     \* what all nodes do now
  level,     \* the level that does it
  exchange,  \* the exchange of the timestep
  stage,     \* Runge-Kutta stages done
  regrids    \* regrids done

vars == <<refined, U, phase, level, exchange, stage, regrids>>

(* The exchanges of nonrefined_step: before its stages and after each, the *)
(* last of the energy alone.                                               *)
NRK == 3
Energy(e) == e = NRK + 1

Neighbors(n) ==
  LET nodes == Nodes(refined)
  IN {dir \in Direction : Neighbor(n, dir) \in nodes}
Missing(n) == IF n = Root THEN {} ELSE Direction \ Neighbors(n)

(* get_restrict and set_restrict: a refined node's cells are the averages  *)
(* of its children's.                                                      *)
Average(u, c) ==
  LET parts == {Plus(c, o) : o \in Octant}
      half == [d \in Dim |-> u[c].x[d] \div 2]
  IN IF \A j \in parts : u[j] = Value(u[c].stage, u[c].lev, Plus(Times(2, half), Minus(j, c)))
     THEN Value(u[c].stage, u[c].lev - 1, half)
     ELSE Nothing

Restricted(n, f) == [c \in Cell |->
  IF c \in Inner
  THEN LET own == [d \in Dim |-> c[d] - H_BW]
           ci == [d \in Dim |-> own[d] \div (INX \div 2)]
       IN Average(U[Child(n, ci)][f],
                  [d \in Dim |-> H_BW + 2 * (own[d] % (INX \div 2))])
  ELSE U[n][f][c]]

(* get_hydro_boundary of the neighbors and set_hydro_boundary.             *)
SetHydroBoundary(n, f, w) ==
  LET siblings == Neighbors(n)
  IN [c \in Cell |->
        LET from == SideOf[w][c] \cap siblings
        IN IF from = {} THEN U[n][f][c]
           ELSE LET dir == CHOOSE dir \in from : TRUE
                    outer == BoundarySize(dir, "outer", INX, w).lb
                    inner == BoundarySize(Flip(dir), "inner", INX, w).lb
                IN U[Neighbor(n, dir)][f][Plus(Minus(c, outer), inner)]]

(* get_subset: the parent's cells that a child's Ushad is made of.         *)
Subset(n, f, i) == U[Parent(n)][f][Plus(i, Times(INX \div 2, ChildIndex(n)))]

(* set_hydro_amr_boundary                                                  *)
Ushad(n, f) ==
  LET coarse == Missing(n)
  IN [i \in Shadow |->
        IF ShadowSidesOf[i] \cap coarse # {} THEN Subset(n, f, i) ELSE Nothing]

(* Which half of its coarse cell a cell is.                                *)
Half(c) == [d \in Dim |-> IF H_BW % 2 = 0 THEN c[d] % 2 ELSE 1 - (c[d] % 2)]

(* complete_hydro_amr_boundary                                             *)
CompleteAmrBoundary(u, n, f) ==
  LET shad == Ushad(n, f)
      coarse == Missing(n)
  IN [c \in Cell |->
        LET i0 == [d \in Dim |-> (c[d] + H_BW) \div 2]
        IN IF CoarseSideOf[i0] \cap coarse # {} THEN Interpolate(shad, i0, Half(c))
           ELSE u[c]]

(* set_physical_boundaries, of the two faces of one dimension after        *)
(* another: the cell at the boundary is repeated, in the corners too.      *)
Outflow(u, n, d) == [c \in Cell |->
  u[IF c[d] < H_BW /\ n.x[d] = 0 THEN [c EXCEPT ![d] = H_BW]
    ELSE IF c[d] >= H_NX - H_BW /\ n.x[d] = 2^n.lev - 1
         THEN [c EXCEPT ![d] = H_NX - H_BW - 1]
         ELSE c]]

SetPhysicalBoundaries(u, n) ==
  LET out[d \in 0..NDIM] == IF d = 0 THEN u ELSE Outflow(out[d - 1], n, d)
  IN out[NDIM]

(* A slip: physical boundaries are set first.                              *)
PhysicalFirst(n, f, energy) ==
  LET out == SetPhysicalBoundaries(SetHydroBoundary(n, f, Width(f, energy)), n)
  IN IF energy /\ f # "egas" THEN out ELSE CompleteAmrBoundary(out, n, f)

(* collect_hydro_boundaries                                                *)
Collected(n, f, energy) ==
  LET set == SetHydroBoundary(n, f, Width(f, energy))
  IN SetPhysicalBoundaries(IF energy /\ f # "egas" THEN set
                           ELSE CompleteAmrBoundary(set, n, f), n)

-----------------------------------------------------------------------------
(* A node with values for its own cells alone.                             *)
NewGrid(n, own(_, _)) == [f \in Field |-> [c \in Cell |->
                            IF c \in Inner THEN own(f, c) ELSE Nothing]]
Place(n, c) == [d \in Dim |-> n.x[d] * INX + c[d] - H_BW]

Init ==
  /\ refined \in Trees
  /\ U = [n \in Nodes(refined) |->
            NewGrid(n, LAMBDA f, c : IF n \in refined THEN Nothing
                                     ELSE Value(0, n.lev, Place(n, c)))]
  /\ phase = "restrict" /\ level = MaxLevel - 1
  /\ exchange = 1 /\ stage = 0 /\ regrids = 0

(* exchange_interlevel_hydro_data, from the leaves up.                     *)
ExchangeInterlevelHydroData ==
  /\ phase = "restrict"
  /\ U' = [n \in Nodes(refined) |->
             IF n.lev = level /\ n \in refined
             THEN [f \in Field |-> Restricted(n, f)] ELSE U[n]]
  /\ IF level = 0 THEN phase' = "collect" /\ level' = 0
                  ELSE phase' = phase /\ level' = level - 1
  /\ UNCHANGED <<refined, exchange, stage, regrids>>

(* collect_hydro_boundaries and send_hydro_amr_boundaries, from the root   *)
(* down: a node's children wait for what it has collected.                 *)
CollectHydroBoundaries ==
  /\ phase = "collect"
  /\ U' = [n \in Nodes(refined) |->
             IF n.lev = level
             THEN [f \in Field |-> Collected(n, f, Energy(exchange))] ELSE U[n]]
  /\ IF level = MaxLevel THEN phase' = "work" /\ level' = level
                         ELSE phase' = phase /\ level' = level + 1
  /\ UNCHANGED <<refined, exchange, stage, regrids>>

StartExchange(e) == exchange' = e /\ phase' = "restrict" /\ level' = MaxLevel - 1

(* The cells of a node that hold what the domain has at their places now.  *)
Exact(n) == {r \in Field \X Cell :
               U[n][r[1]][r[2]] = Value(stage, n.lev, Clamp(n.lev, Place(n, r[2])))}

(* compute_fluxes, compute_dudt and next_u: the cells of a leaf are those  *)
(* of the next stage, if all that its fluxes were made of was of this one. *)
(* Beside a refined node the fluxes are replaced by that node's (module    *)
(* Conservation).                                                          *)
NextU ==
  /\ phase = "work" /\ ~Energy(exchange)
  /\ \E k \in Kernels :
       U' = [n \in Nodes(refined) |->
               IF n \in refined THEN U[n]
               ELSE LET done == k.reads \subseteq Exact(n)
                    IN [f \in Field |-> [c \in Cell |->
                          IF c \notin Inner THEN U[n][f][c]
                          ELSE IF done THEN [U[n][f][c] EXCEPT !.stage = stage + 1]
                          ELSE Nothing]]]
  /\ stage' = stage + 1
  /\ StartExchange(exchange + 1)
  /\ UNCHANGED <<refined, regrids>>

(* get_prolong: the parts of a cell have its stage; only their slopes come *)
(* from the cells around it.                                               *)
Prolonged(n, f, c) ==
  LET ci == ChildIndex(n)
      fine == [d \in Dim |-> c[d] + H_BW + ci[d] * INX]
      i == [d \in Dim |-> fine[d] \div 2]
      parts == Interpolate(U[Parent(n)][f], i, [d \in Dim |-> fine[d] % 2])
  IN [parts EXCEPT !.stage = U[Parent(n)][f][i].stage]

(* regrid between timesteps: a leaf may be refined and gets children, or a *)
(* node loses all below it; all_hydro_bounds begins the next timestep.     *)
Regrid ==
  /\ phase = "work" /\ Energy(exchange) /\ regrids < MaxRegrids
  /\ refined' \in {t \in Trees : t \subseteq Nodes(refined)}
  /\ U' = [n \in Nodes(refined') |->
             IF n \in Nodes(refined) THEN U[n]
             ELSE NewGrid(n, LAMBDA f, c : Prolonged(n, f, c))]
  /\ regrids' = regrids + 1
  /\ StartExchange(1)
  /\ UNCHANGED stage

Next == ExchangeInterlevelHydroData \/ CollectHydroBoundaries \/ NextU \/ Regrid
Spec == Init /\ [][Next]_vars

-----------------------------------------------------------------------------
(* Reaches as far as w cells beyond a node's own.                          *)
Near(c, w) == \A d \in Dim : H_BW - w <= c[d] /\ c[d] < H_NX - H_BW + w

(* After an exchange every cell of every node holds, as deep as the        *)
(* exchange goes, the value that the domain has at its place, in corners,  *)
(* at physical boundaries and between levels, and of this very stage.  Only*)
(* after the exchange of the energy are AMR boundaries made of older       *)
(* values: their slopes reach deeper into the parent's than it goes.       *)
GhostsExact ==
  phase = "work" => \A n \in Nodes(refined), f \in Field, c \in Cell :
    Near(c, Width(f, Energy(exchange))) =>
      LET x == Clamp(n.lev, Place(n, c))
          home == [lev |-> n.lev, x |-> [d \in Dim |-> x[d] \div INX]]
          u == U[n][f][c]
      IN /\ u.lev = n.lev /\ u.x = x
         /\ u.stage = stage \/ (Energy(exchange) /\ home \notin Nodes(refined))
=============================================================================
