---------------------------- MODULE Conservation ----------------------------
(***************************************************************************)
(* The mass in the domain and what has left it: the fluxes of leaves and   *)
(* their correction between levels, the Runge-Kutta stages with the        *)
(* outflow kept beside them, restriction, and the prolongation of the      *)
(* cells of leaves that regrid refines.  The diagnostics print the sum of  *)
(* both over the leaves.                                                   *)
(*                                                                         *)
(* One field stands for all conserved ones; sources, and the floors that   *)
(* create mass, are off.  FluxCorrection and HydroBounds show that every   *)
(* flux and every cell is of the stage it is used in; here all nodes act   *)
(* at once.                                                                *)
(***************************************************************************)
EXTENDS Integers, FiniteSets, Functions

CONSTANTS
  NDIM,        \* dimensions
  INX,         \* cells of a node per dimension
  MaxLevel,
  Trees,       \* the trees regrid may produce, each by its refined nodes
  Data,        \* what cells and ghosts may hold, by place
  Flows,       \* what may flow through faces, by stage and place
  MaxRegrids   \* bound: regrids of a behavior

Dim == 1..NDIM
Vector(S) == [Dim -> S]
Plus(v, w) == [d \in Dim |-> v[d] + w[d]]
Times(k, v) == [d \in Dim |-> k * v[d]]
Unit(d) == [e \in Dim |-> IF e = d THEN 1 ELSE 0]

Cell == Vector(0..(INX - 1))
Face == Vector(0..INX)                 \* of the cells of a node, per dimension
Octant == Vector(0..1)
NRK == 3                               \* Runge-Kutta stages

Root == [lev |-> 0, x |-> [d \in Dim |-> 0]]
Child(n, ci) == [lev |-> n.lev + 1, x |-> Plus(Times(2, n.x), ci)]
Parent(n) == [lev |-> n.lev - 1, x |-> [d \in Dim |-> n.x[d] \div 2]]
ChildIndex(n) == [d \in Dim |-> n.x[d] % 2]
Neighbor(n, d, s) == [lev |-> n.lev, x |-> [n.x EXCEPT ![d] = @ + s]]
Nodes(t) == {Root} \cup {Child(n, ci) : n \in t, ci \in Octant}
InDomain(n) == n.x \in Vector(0..(2^n.lev - 1))

(* A place has its level, the dimension its face is normal to, or none for *)
(* a cell, and its indices counted through the domain.                     *)
Place(n, d, i) == <<n.lev, d, Plus(Times(INX, n.x), i)>>
Places == (0..MaxLevel) \X (0..NDIM) \X Vector((0 - 1)..(INX * 2^MaxLevel))

ASSUME GridAssumption ==
  /\ NDIM \in Nat \ {0} /\ MaxLevel \in Nat /\ MaxRegrids \in Nat
  /\ INX \in Nat \ {0} /\ INX % 2 = 0
(* Of two nodes that meet at a face, one is at most one level finer.       *)
ASSUME TreesAssumption ==
  \A t \in Trees :
    /\ IsFiniteSet(t) /\ t \subseteq Nodes(t)
    /\ \A n \in t : n.lev \in 0..(MaxLevel - 1) /\ InDomain(n)
    /\ \A n \in t : \A d \in Dim : \A s \in {0 - 1, 1} :
         InDomain(Neighbor(n, d, s)) => Neighbor(n, d, s) \in Nodes(t)
ASSUME DataAssumption ==
  /\ Data \subseteq [Places -> Int]
  /\ \A s \in 0..(NRK - 1) : Flows[s] \subseteq [Places -> Int]

(* The field is real in the code and an integer here: a quotient is exact, *)
(* and a run whose data leave a rest stops with an error.                  *)
Quotient(a, b) == CHOOSE q \in {a \div b} : b * q = a

(* In units of the finest level's cells; dt is 1.                          *)
Dx(n) == 2^(MaxLevel - n.lev)
Area(n) == 2^((NDIM - 1) * (MaxLevel - n.lev))     \* of a face of a cell
Volume(n) == 2^(NDIM * (MaxLevel - n.lev))

VARIABLES
  refined,   \* the refined nodes
  U, U0,     \* the field, and what grid::store() kept of it
  out, out0, \* U_out, what has left a node through the domain's boundary
  F,         \* the fluxes through a leaf's faces
  phase,     \* what all nodes do next
  level,     \* the level that restricts next
  rk,        \* Runge-Kutta stage
  regrids,   \* regrids done
  total      \* a ghost: the mass at the start

vars == <<refined, U, U0, out, out0, F, phase, level, rk, regrids, total>>

Leaves == Nodes(refined) \ refined

(* Mass and outflow over the leaves, as node_server::diagnostics sums them.*)
Amount(u, o, n) == Volume(n) * SumFunction(u[n]) + o[n]
Diagnostics == SumFunction([n \in Leaves |-> Amount(U, out, n)])

Init ==
  /\ refined \in Trees
  /\ \E v \in Data : U = [n \in Nodes(refined) |-> [c \in Cell |->
                           IF n \in refined THEN 0 ELSE v[Place(n, 0, c)]]]
  /\ out = [n \in Nodes(refined) |-> 0]
  /\ U0 = U /\ out0 = out /\ F = <<>>
  /\ phase = "exchange" /\ level = MaxLevel /\ rk = 0 /\ regrids = 0
  /\ total = Diagnostics

-----------------------------------------------------------------------------
(* exchange_interlevel_hydro_data: get_restrict averages the children's    *)
(* cells, set_outflows adds what has left them, from the finest level up.  *)
FinerCells(n, c) ==
  LET ci == [d \in Dim |-> c[d] \div (INX \div 2)]
      first == [d \in Dim |-> 2 * (c[d] % (INX \div 2))]
  IN SumFunction([o \in Octant |-> U[Child(n, ci)][Plus(first, o)]])
Restricted(n) == [c \in Cell |-> Quotient(FinerCells(n, c), 2^NDIM)]
ChildOutflows(n) == SumFunction([ci \in Octant |-> out[Child(n, ci)]])

ExchangeInterlevel ==
  /\ phase = "exchange"
  /\ LET restricts(n) == n \in refined /\ n.lev = level
     IN /\ U' = [n \in Nodes(refined) |-> IF restricts(n) THEN Restricted(n) ELSE U[n]]
        /\ out' = [n \in Nodes(refined) |->
                     IF restricts(n) THEN ChildOutflows(n) ELSE out[n]]
  /\ IF level > 0 THEN level' = level - 1 /\ UNCHANGED phase
     ELSE /\ level' = MaxLevel
          /\ phase' = IF rk = NRK THEN "regrid" ELSE "fluxes"
  /\ UNCHANGED <<refined, U0, out0, F, rk, regrids, total>>

(* grid::store(), at the start of a timestep.                              *)
Store == U0' = U /\ out0' = out

(* compute_fluxes: whatever flows, the nodes on both sides of a face       *)
(* compute the same, as they see the same cells.                           *)
ComputeFluxes ==
  /\ phase = "fluxes"
  /\ IF rk = 0 THEN Store ELSE UNCHANGED <<U0, out0>>
  /\ \E flow \in Flows[rk] : F' = [n \in Leaves |-> [d \in Dim |-> [i \in Face |->
                                flow[Place(n, d, i)]]]]
  /\ phase' = "correct"
  /\ UNCHANGED <<refined, U, out, level, rk, regrids, total>>

(* get_flux_restrict of the nieces across a face and set_flux_restrict:    *)
(* an aunt's flux is the average of those of the finer faces.              *)
FinerFluxes(m, d, i) ==
  LET half == INX \div 2
      niece == Child(m, [e \in Dim |-> IF e # d THEN i[e] \div half
                                       ELSE IF i[d] = 0 THEN 1 ELSE 0])
      first == [e \in Dim |-> IF e # d THEN 2 * (i[e] % half) ELSE INX - i[d]]
  IN SumFunction([o \in {o \in Octant : o[d] = 0} |-> F[niece][d][Plus(first, o)]])
FluxRestrict(m, d, i) == Quotient(FinerFluxes(m, d, i), 2^(NDIM - 1))

(* A face of a leaf's cell where the cells beyond are finer.               *)
Beyond(n, d, i) == Neighbor(n, d, IF i[d] = 0 THEN 0 - 1 ELSE 1)
MeetsFiner(n, d, i) ==
  i[d] \in {0, INX} /\ Beyond(n, d, i) \in refined /\ \A e \in Dim \ {d} : i[e] < INX

ExchangeFluxCorrections ==
  /\ phase = "correct"
  /\ F' = [n \in Leaves |-> [d \in Dim |-> [i \in Face |->
             IF MeetsFiner(n, d, i) THEN FluxRestrict(Beyond(n, d, i), d, i) ELSE F[n][d][i]]]]
  /\ phase' = "next_u"
  /\ UNCHANGED <<refined, U, U0, out, out0, level, rk, regrids, total>>

(* compute_dudt                                                            *)
NetFlux(n, c) == SumFunction([d \in Dim |-> F[n][d][c] - F[n][d][Plus(c, Unit(d))]])
Dudt(n, c) == Quotient(NetFlux(n, c), Dx(n))

(* What next_u finds to leave the domain through a node's faces.           *)
Lowest(d) == {c \in Cell : c[d] = 0}
DuOut(n) ==
  Area(n) * SumFunction([d \in Dim |-> SumFunction([c \in Lowest(d) |->
    (IF n.x[d] = 2^n.lev - 1 THEN F[n][d][Plus(c, Times(INX, Unit(d)))] ELSE 0)
    - (IF n.x[d] = 0 THEN F[n][d][c] ELSE 0)])])

(* rk_beta is 1, 1/4 and 2/3 in the three stages.                          *)
BetaOver == <<1, 1, 2>>
BetaUnder == <<1, 4, 3>>
Parts(u0, u1) == (BetaUnder[rk + 1] - BetaOver[rk + 1]) * u0 + BetaOver[rk + 1] * u1
Blend(u0, u1) == Quotient(Parts(u0, u1), BetaUnder[rk + 1])

NextU ==
  /\ phase = "next_u"
  /\ U' = [n \in Nodes(refined) |->
             IF n \in refined THEN U[n]
             ELSE [c \in Cell |-> Blend(U0[n][c], U[n][c] + Dudt(n, c))]]
  /\ out' = [n \in Nodes(refined) |->
               IF n \in refined THEN out[n] ELSE Blend(out0[n], out[n] + DuOut(n))]
  /\ phase' = "exchange" /\ rk' = rk + 1
  /\ UNCHANGED <<refined, U0, out0, F, level, regrids, total>>

-----------------------------------------------------------------------------
Minmod(x, y) == IF x > 0 /\ y > 0 THEN IF x < y THEN x ELSE y
                ELSE IF x < 0 /\ y < 0 THEN IF x < y THEN y ELSE x ELSE 0

(* get_prolong: the cell and slopes along the dimensions and diagonals, of *)
(* which the cells around the node are arbitrary.  The weights are those   *)
(* of linear interpolation, 9/64, 3/64 and 1/64 in three dimensions.       *)
Around(n, c, v, ghost) == LET j == Plus(c, v)
                          IN IF j \in Cell THEN U[n][j] ELSE ghost[Place(n, 0, j)]
Toward(S, o) == [d \in Dim |-> IF d \notin S THEN 0 ELSE IF o[d] = 1 THEN 1 ELSE 0 - 1]
Slope(n, c, o, S, ghost) ==
  Minmod(Around(n, c, Toward(S, o), ghost) - U[n][c],
         U[n][c] - Around(n, c, Times(0 - 1, Toward(S, o)), ghost))
Slopes(n, c, o, ghost) ==
  SumFunction([S \in (SUBSET Dim) \ {{}} |->
                 3^(NDIM - Cardinality(S)) * Slope(n, c, o, S, ghost)])
Prolong(n, c, o, ghost) == U[n][c] + Quotient(Slopes(n, c, o, ghost), 2^(2 * NDIM))

(* A slip: every new child gets its parent's outflow.                      *)
OutflowsToAll(n) == out[Parent(n)]

(* create_child: the first child gets it, the others none.                 *)
Outflows(n) == IF \A d \in Dim : ChildIndex(n)[d] = 0 THEN out[Parent(n)] ELSE 0

(* regrid between timesteps: new children are filled by set_prolong, nodes *)
(* whose children are killed keep what they restricted.                    *)
Regrid ==
  /\ phase = "regrid" /\ regrids < MaxRegrids
  /\ refined' \in {t \in Trees : t \subseteq Nodes(refined)}
  /\ \E ghost \in Data :
       U' = [n \in Nodes(refined') |->
               IF n \in Nodes(refined) THEN U[n]
               ELSE [c \in Cell |->
                 LET fine == Plus(c, Times(INX, ChildIndex(n)))
                 IN Prolong(Parent(n), [d \in Dim |-> fine[d] \div 2],
                            [d \in Dim |-> fine[d] % 2], ghost)]]
  /\ out' = [n \in Nodes(refined') |->
               IF n \in Nodes(refined) THEN out[n] ELSE Outflows(n)]
  /\ U0' = [n \in Nodes(refined') |-> IF n \in Nodes(refined) THEN U0[n]
                                      ELSE [c \in Cell |-> 0]]
  /\ out0' = [n \in Nodes(refined') |-> IF n \in Nodes(refined) THEN out0[n] ELSE 0]
  /\ F' = <<>>
  /\ phase' = "exchange" /\ rk' = 0 /\ regrids' = regrids + 1
  /\ UNCHANGED <<level, total>>

Next ==
  \/ ExchangeInterlevel \/ ComputeFluxes \/ ExchangeFluxCorrections \/ NextU
  \/ Regrid
Spec == Init /\ [][Next]_vars

-----------------------------------------------------------------------------
(* At every moment, between stages, timesteps and regrids, mass and outflow*)
(* add up to what there was at the start: nothing is lost or made where    *)
(* levels meet, nor where cells are refined or put together.               *)
Conserved == Diagnostics = total

(* What the next step divides leaves nothing over.                         *)
Exact ==
  /\ phase = "exchange" => \A n \in refined : n.lev = level =>
       \A c \in Cell : FinerCells(n, c) % 2^NDIM = 0
  /\ phase = "correct" => \A n \in Leaves : \A d \in Dim : \A i \in Face :
       MeetsFiner(n, d, i) => FinerFluxes(Beyond(n, d, i), d, i) % 2^(NDIM - 1) = 0
  /\ phase = "next_u" => \A n \in Leaves :
       /\ \A c \in Cell :
            /\ NetFlux(n, c) % Dx(n) = 0
            /\ Parts(U0[n][c], U[n][c] + Dudt(n, c)) % BetaUnder[rk + 1] = 0
       /\ Parts(out0[n], out[n] + DuOut(n)) % BetaUnder[rk + 1] = 0
  /\ phase = "regrid" /\ regrids < MaxRegrids => \A ghost \in Data : \A n \in Leaves :
       n.lev < MaxLevel => \A c \in Cell : \A o \in Octant :
         Slopes(n, c, o, ghost) % 2^(2 * NDIM) = 0
=============================================================================
