---------------------------- MODULE Interactions ----------------------------
(***************************************************************************)
(* Which cells attract each other, and on which level of the octree.       *)
(*                                                                         *)
(* compute_multipoles sums cells up the tree, the kernels let the cells of *)
(* a level interact with those of the same and of adjacent nodes, and      *)
(* compute_expansions hands what a cell has received down to the cells it  *)
(* is made of.  So a leaf's cell receives another if the ancestors of both *)
(* interact on some level.  A behavior follows two cells down the tree     *)
(* until both are a leaf's own, and counts how often one received the      *)
(* other.                                                                  *)
(***************************************************************************)
EXTENDS Integers

CONSTANTS
  INX,        \* cells of a node per dimension
  ThetaNum,   \* opts().theta is ThetaNum / ThetaDen
  ThetaDen,
  FloorNum,   \* OCTOTIGER_THETA_MINIMUM is FloorNum / FloorDen
  FloorDen,
  Trees,      \* the trees considered, each by its refined nodes
  Pairs       \* the pairs of the root's cells from which the two descend

Dim == 1..3
Octant == [Dim -> 0..1]

(* A node has its level and location, a cell its level and its indices     *)
(* counted through the whole domain.                                       *)
Place == [lev : Nat, x : [Dim -> Nat]]
RootNode == [lev |-> 0, x |-> [d \in Dim |-> 0]]
NodeOf(c) == [lev |-> c.lev, x |-> [d \in Dim |-> c.x[d] \div INX]]
Below(p, o) == [lev |-> p.lev + 1, x |-> [d \in Dim |-> 2 * p.x[d] + o[d]]]

STENCIL_WIDTH_HELPER == (2 * FloorDen) \div FloorNum
STENCIL_WIDTH ==
  IF STENCIL_WIDTH_HELPER % 2 = 0 THEN STENCIL_WIDTH_HELPER + 1
  ELSE STENCIL_WIDTH_HELPER
STENCIL_INX == 2 * STENCIL_WIDTH_HELPER + 1
FULL_STENCIL_SIZE == STENCIL_INX * (STENCIL_INX * STENCIL_INX)

(* What main and the options make sure of: theta is not below its minimum, *)
(* and stencils stay within the adjacent nodes.                            *)
ASSUME GridAssumption ==
  /\ INX \in Nat \ {0} /\ INX % 2 = 0
  /\ ThetaNum \in Nat \ {0} /\ ThetaDen \in Nat \ {0}
  /\ FloorNum \in Nat \ {0} /\ FloorDen \in Nat \ {0}
  /\ FloorNum * ThetaDen <= ThetaNum * FloorDen
  /\ STENCIL_WIDTH <= INX

(* The root is refined; a node is refined only if its parent is.           *)
ASSUME TreesAssumption ==
  \A t \in Trees :
    /\ t \subseteq Place /\ RootNode \in t
    /\ \A n \in t \ {RootNode} : \E m \in t, o \in Octant : n = Below(m, o)

ASSUME PairsAssumption ==
  Pairs \subseteq {c \in Place : NodeOf(c) = RootNode} \X
                  {c \in Place : NodeOf(c) = RootNode}

-----------------------------------------------------------------------------
Difference(u, v) == [d \in Dim |-> v[d] - u[d]]
Zero == [d \in Dim |-> 0]
Once(p) == IF p THEN 1 ELSE 0

(* A cell's indices as the node of cell i counts them.                     *)
Local(i, c) == [d \in Dim |-> c.x[d] - INX * NodeOf(i).x[d]]

(* detail::reciprocal_distance(...) <= theta0 for two cells v apart.       *)
Far(v) ==
  ThetaDen * ThetaDen <=
    ThetaNum * ThetaNum * (v[1] * v[1] + v[2] * v[2] + v[3] * v[3])

(* A slip: the division rounds the cells before the node's first upwards.  *)
CoarseTruncated(i) == IF i < 0 THEN 0 - ((0 - i) \div 2) ELSE i \div 2

(* transform_coarse: the index on the next coarser level of a cell of this *)
(* node or an adjacent one.                                                *)
Coarse(i) == (i + INX) \div 2 - INX \div 2

(* theta_c > theta0, and the masks of the kernels: the parents of cells u  *)
(* and v are not far apart.                                                *)
NearParents(u, v) == ~Far([d \in Dim |-> Coarse(v[d]) - Coarse(u[d])])

(* calculate_stencil: the stencils of the eight cells of a cell of the     *)
(* coarser level, superimposed.                                            *)
Stencil ==
  {v \in [Dim -> (0 - INX)..(INX - 1)] : v # Zero /\
     \E i \in Octant : NearParents(i, [d \in Dim |-> i[d] + v[d]])}

(* stencil_phase_indicator: the elements with which multipoles interact.   *)
InnerStencil == {v \in Stencil : Far(v)}

(* The leaves' kernels make a stencil of their own.                        *)
P2PStencil ==
  UNION {{v \in [Dim -> (0 - INX)..(INX - 1)] :
            v # Zero /\ NearParents(i, [d \in Dim |-> i[d] + v[d]])} : i \in Octant}

(* calculate_stencil_masks: an array of STENCIL_INX entries per dimension  *)
(* for each stencil, and the place in it of an element.                    *)
Tried == [Dim -> (0 - STENCIL_WIDTH)..STENCIL_WIDTH]
MaskIndex(v) ==
  (v[1] + STENCIL_WIDTH) * (STENCIL_INX * STENCIL_INX)
    + ((v[2] + STENCIL_WIDTH) * STENCIL_INX + (v[3] + STENCIL_WIDTH))
StencilMasks == {MaskIndex(v) : v \in Stencil}
InnerStencilMasks == {MaskIndex(v) : v \in InnerStencil}
P2PStencilMasks == {MaskIndex(v) : v \in P2PStencil}

(* Elements of the stencils are within the arrays.  Nothing makes sure of  *)
(* it if STENCIL_WIDTH_HELPER is even: then the elements tried are more    *)
(* than the arrays' entries, and calculate_stencil_masks may write beyond. *)
MasksFit ==
  \A v \in Stencil : \A d \in Dim : v[d] + STENCIL_WIDTH \in 0..(STENCIL_INX - 1)

(* What a kernel reads of a mask for an element it tries: perhaps that of  *)
(* another element, and past the end of an array whatever is there.        *)
PastTheEnd(element) == element \in Tried /\ MaskIndex(element) >= FULL_STENCIL_SIZE
Lookup(mask, element, beyond) ==
  IF PastTheEnd(element) THEN beyond ELSE MaskIndex(element) \in mask
Beyond(element) ==
  IF PastTheEnd(element) THEN [stencil : BOOLEAN, inner : BOOLEAN]
  ELSE {[stencil |-> FALSE, inner |-> FALSE]}

-----------------------------------------------------------------------------
(* compute_ilist: the lists of the former kernels.  "r" holds the pairs of *)
(* the root, "n" those of multipoles, and "d" those with a leaf's cell.    *)
Own == [Dim -> 0..(INX - 1)]
Ilist(list, u, v) ==
  /\ u # v /\ \A d \in Dim : v[d] - u[d] \in (0 - INX)..INX
  /\ list # "r" => NearParents(u, v)
  /\ list # "d" => Far(Difference(u, v))

(* Pairs of a node's own cells are listed once, by their gindex.           *)
GIndex(u) == u[1] * (INX * INX) + (u[2] * INX + u[3])
InnerIlist(list, u, v) ==
  /\ u \in Own /\ v \in Own /\ GIndex(u) < GIndex(v)
  /\ Ilist(list, u, v)

(* neighbor_dir: in which adjacent node a cell is, and which it is there.  *)
NeighborDir(v) ==
  [d \in Dim |-> IF v[d] < 0 THEN 0 - 1 ELSE IF v[d] >= INX THEN 1 ELSE 0]
Second(v) == [d \in Dim |-> (v[d] + INX) % INX]
Dirs == [Dim -> (0 - 1)..1] \ {Zero}
Opposite(dir) == [d \in Dim |-> 0 - dir[d]]

(* ilist_n_bnd, ilist_d_bnd: the cells of an adjacent node that are in a   *)
(* pair with one of this node.                                             *)
Around == [Dim -> (0 - INX)..(2 * INX - 1)]
BndPairs ==
  {<<NeighborDir(v), Second(v)>> :
     v \in {w \in Around : w \notin Own /\ \E u \in Own : Ilist("d", u, w)}}
Bnd(dir) == {w \in Own : <<dir, w>> \in BndPairs}

(* get_gravity_boundary: the cells whose data a node sends in direction    *)
(* dir; a neighbor on its own locality reads the node's data itself.       *)
BoundaryCells(dir, is_local) == IF is_local THEN Own ELSE Bnd(Opposite(dir))

(* update_input: the cells of the neighbor in direction dir which the      *)
(* kernels find in their place.  Data of as many cells as a node has are   *)
(* taken for all of them, in their order.                                  *)
Loaded(dir, is_local) ==
  LET cells == BoundaryCells(Opposite(dir), is_local)
  IN IF is_local THEN cells
     ELSE IF Own \subseteq cells THEN {} ELSE cells \intersect Bnd(dir)

Present(i, j, is_local) ==
  LET v == Local(i, j)
  IN NodeOf(i) # NodeOf(j) => Second(v) \in Loaded(NeighborDir(v), is_local)

-----------------------------------------------------------------------------
VARIABLES
  refined,    \* the refined nodes
  a, b,       \* the two cells, or their ancestors on the level reached
  toA, toB    \* how often a has received b, and b has received a

pairVars == <<refined, a, b, toA, toB>>

(* How often a kernel lets cell i receive cell j of the same level.        *)

(* compute_interactions: each pair of the list goes both ways.             *)
ComputeInteractions(t, i, j) ==
  LET u == Local(i, i)
      v == Local(i, j)
      list == IF NodeOf(i) \notin t THEN "d"
              ELSE IF NodeOf(i) = RootNode THEN "r" ELSE "n"
  IN Once(InnerIlist(list, u, v)) + Once(InnerIlist(list, v, u))

(* compute_boundary_interactions_multipole_multipole and its three         *)
(* variants: how often cell u of this node receives v of an adjacent one.  *)
MultipoleMultipole(u, v) == Once(Ilist("n", u, v))
MonopoleMultipole(u, v) == Once(Ilist("d", u, v))
MultipoleMonopole(u, v) == Once(Ilist("d", u, v))
MonopoleMonopole(u, v) == Once(Ilist("d", u, v))

ComputeBoundaryInteractions(t, i, j) ==
  LET u == Local(i, i)
      v == Local(i, j)
      is_monopole == NodeOf(j) \notin t
  IN IF NodeOf(i) \in t
     THEN IF is_monopole THEN MonopoleMultipole(u, v) ELSE MultipoleMultipole(u, v)
     ELSE IF is_monopole THEN MonopoleMonopole(u, v) ELSE MultipoleMonopole(u, v)

(* The former kernels: one for the node's own cells, one per neighbor.     *)
OldStyle(t, i, j) ==
  IF NodeOf(i) = NodeOf(j) THEN ComputeInteractions(t, i, j)
  ELSE ComputeBoundaryInteractions(t, i, j)

(* multipole_cpu_kernel: a refined node's cell receives multipoles of the  *)
(* inner stencil and leaves' cells of the whole one.                       *)
MultipoleKernel(t, i, j, is_local, beyond) ==
  LET u == Local(i, i)
      v == Local(i, j)
      element == Difference(u, v)
  IN Once(/\ element \in Tried /\ Lookup(StencilMasks, element, beyond.stencil)
          /\ NearParents(u, v)
          /\ NodeOf(j) \in t => Lookup(InnerStencilMasks, element, beyond.inner)
          /\ Present(i, j, is_local))

(* The device's kernel computes with all elements of the stencil, times    *)
(* zero where the masks do not hold.                                       *)
MultipoleCudaKernel(t, i, j, is_local, beyond) ==
  LET u == Local(i, i)
      v == Local(i, j)
      element == Difference(u, v)
      mask == Once(NearParents(u, v))
      mask_phase_one == Once(Lookup(InnerStencilMasks, element, beyond.inner))
      value == Once(Present(i, j, is_local))
  IN IF element \in Tried /\ Lookup(StencilMasks, element, beyond.stencil)
     THEN IF NodeOf(j) \in t THEN value * (mask * mask_phase_one) ELSE value * mask
     ELSE 0

(* p2p_cpu_kernel: a leaf's cell receives cells of leaves.  Two rows are   *)
(* done at a time, and both are compared from the first one's coarse index.*)
P2PKernel(t, i, j, is_local, beyond) ==
  LET u == Local(i, i)
      v == Local(i, j)
      element == Difference(u, v)
      first == [u EXCEPT ![2] = u[2] - (u[2] % 2)]
  IN Once(/\ NodeOf(j) \notin t
          /\ element \in Tried /\ Lookup(P2PStencilMasks, element, beyond.stencil)
          /\ NearParents(first, v)
          /\ Present(i, j, is_local))

(* The device's kernel; init_constants gives it the multipoles' masks.     *)
P2PCudaKernel(t, i, j, is_local, beyond) ==
  LET u == Local(i, i)
      v == Local(i, j)
      element == Difference(u, v)
      mask == Once(NearParents(u, v))
      value == Once(NodeOf(j) \notin t /\ Present(i, j, is_local))
  IN IF element \in Tried /\ Lookup(StencilMasks, element, beyond.stencil)
     THEN value * mask ELSE 0

(* p2m_interaction_interface: whether the neighbor in direction dir has no *)
(* multipoles, and whether none does in the row or slice of neighbors.     *)
NeighborOf(n, dir) == [lev |-> n.lev, x |-> [d \in Dim |-> n.x[d] + dir[d]]]
XSkip(t, n, dir) == dir = Zero \/ NeighborOf(n, dir) \notin t
YSkip(t, n, dir) ==
  \A x \in (0 - 1)..1 : XSkip(t, n, [dir EXCEPT ![3] = x])
ZSkip(t, n, dir) ==
  \A y \in (0 - 1)..1 : YSkip(t, n, [dir EXCEPT ![2] = y])

(* A slip: the skips are looked up with the indices in the other order.    *)
P2MKernelTransposed(t, i, j, is_local) ==
  LET u == Local(i, i)
      v == Local(i, j)
      block == [d \in Dim |-> (v[4 - d] + INX) \div INX - 1]
  IN Once(/\ Difference(u, v) \in P2PStencil
          /\ ~ZSkip(t, NodeOf(i), block) /\ ~YSkip(t, NodeOf(i), block)
          /\ ~XSkip(t, NodeOf(i), block)
          /\ NearParents(u, v)
          /\ Present(i, j, is_local))

(* p2m_kernel: a leaf's cell receives multipoles of adjacent refined nodes.*)
P2MKernel(t, i, j, is_local) ==
  LET u == Local(i, i)
      v == Local(i, j)
      block == [d \in Dim |-> (v[d] + INX) \div INX - 1]
  IN Once(/\ Difference(u, v) \in P2PStencil
          /\ ~ZSkip(t, NodeOf(i), block) /\ ~YSkip(t, NodeOf(i), block)
          /\ ~XSkip(t, NodeOf(i), block)
          /\ NearParents(u, v)
          /\ Present(i, j, is_local))

-----------------------------------------------------------------------------
(* opts().m2m_kernel_type, p2p_kernel_type and p2m_kernel_type.            *)
KernelTypes == {"OLD", "SOA_CPU", "SOA_CUDA"}

(* What runs for a type, whether or not a CUDA stream is free; without     *)
(* CUDA none ever is.                                                      *)
Launched(type, free) ==
  IF free /\ type # "OLD" THEN "device" ELSE IF type = "SOA_CPU" THEN "host" ELSE "old"

ComputeMultipoleInteractions(t, i, j, launch, is_local, beyond) ==
  CASE launch = "host" -> MultipoleKernel(t, i, j, is_local, beyond)
    [] launch = "device" -> MultipoleCudaKernel(t, i, j, is_local, beyond)
    [] launch = "old" -> OldStyle(t, i, j)

ComputeP2PInteractions(t, i, j, launch, is_local, beyond) ==
  CASE launch = "host" -> P2PKernel(t, i, j, is_local, beyond)
    [] launch = "device" -> P2PCudaKernel(t, i, j, is_local, beyond)
    [] launch = "old" -> IF NodeOf(j) \in t THEN 0 ELSE OldStyle(t, i, j)

(* There is no device kernel for these.                                    *)
ComputeP2MInteractions(t, i, j, type, is_local) ==
  IF type = "SOA_CPU" THEN P2MKernel(t, i, j, is_local)
  ELSE IF NodeOf(j) \in t THEN OldStyle(t, i, j) ELSE 0

(* compute_fmm: the kernels it starts in cell i's node.                    *)
Received(t, i, j, type, free, is_local, beyond) ==
  LET launch == Launched(type, free)
  IN IF NodeOf(i) = RootNode THEN OldStyle(t, i, j)
     ELSE IF NodeOf(i) \in t
     THEN ComputeMultipoleInteractions(t, i, j, launch, is_local, beyond)
     ELSE ComputeP2PInteractions(t, i, j, launch, is_local, beyond)
            + ComputeP2MInteractions(t, i, j, type, is_local)

(* What cell i may receive of cell j.  Only one of a leaf's two kernels    *)
(* can let it, so it is enough to vary their types together.               *)
Counts(t, i, j) ==
  IF i.lev # j.lev THEN {0}
  ELSE {Received(t, i, j, type, free, is_local, beyond) :
          type \in KernelTypes, free, is_local \in BOOLEAN,
          beyond \in Beyond(Difference(Local(i, i), Local(i, j)))}

PairInit ==
  /\ refined \in Trees
  /\ \E p \in Pairs : a = p[1] /\ b = p[2]
  /\ toA \in Counts(refined, a, b) /\ toB \in Counts(refined, b, a)

(* compute_expansions, the sends of compute_fmm and what the kernels of    *)
(* the next level add: the cell of a refined node hands on what it has     *)
(* received, and so its parts have received it.                            *)
Descend ==
  /\ NodeOf(a) \in refined \/ NodeOf(b) \in refined
  /\ a' \in IF NodeOf(a) \in refined THEN {Below(a, o) : o \in Octant} ELSE {a}
  /\ b' \in IF NodeOf(b) \in refined THEN {Below(b, o) : o \in Octant} ELSE {b}
  /\ toA' \in {toA + n : n \in Counts(refined, a', b')}
  /\ toB' \in {toB + n : n \in Counts(refined, b', a')}
  /\ UNCHANGED refined

PairNext == Descend
PairSpec == PairInit /\ [][PairNext]_pairVars

-----------------------------------------------------------------------------
(* Every cell of a leaf attracts every other cell of every leaf exactly    *)
(* once, on one level of the tree, whatever the levels of their leaves     *)
(* are; and no cell attracts itself.                                       *)
EachPairOnce ==
  NodeOf(a) \notin refined /\ NodeOf(b) \notin refined =>
    toA = IF a = b THEN 0 ELSE 1

(* Whenever one cell receives another, the other receives it on the same   *)
(* level, though each node uses its own kernel and its own indices: forces *)
(* come in equal and opposite pairs.                                       *)
Reciprocal == toA = toB
=============================================================================
