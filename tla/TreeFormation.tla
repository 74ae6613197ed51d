--------------------------- MODULE TreeFormation ----------------------------
(***************************************************************************)
(* A whole regrid: after the nodes are marked (Refinement), regrid_gather  *)
(* counts the nodes and kills those not wanted, regrid_scatter numbers     *)
(* them, creates the missing ones and moves the others to the localities   *)
(* that are to have them, and form_tree tells every node who its parent,   *)
(* neighbors, aunts and nieces are.                                        *)
(*                                                                         *)
(* regrid_gather and regrid_scatter go down the tree and back, each        *)
(* handler touches its own node and its children only, and the root waits  *)
(* for all: each is one action.  form_tree is not of that kind.  While     *)
(* some nodes are still waiting to be told their neighbors, leaves that    *)
(* know theirs already call these, and through them the neighbors'         *)
(* children; its calls are actions of their own that interleave freely.    *)
(***************************************************************************)
EXTENDS Refinement, FiniteSetsExt

CONSTANTS
  Localities,   \* the number of localities
  MaxRegrids,   \* bound: regrids of one run of the program
  NoNode        \* an empty node_client

ASSUME FormationAssumption ==
  /\ Localities \in Nat \ {0} /\ MaxRegrids \in Nat
  /\ NoNode \notin Loc

(* A node that may be flagged because another is has a check of its own.   *)
ASSUME CandidateAssumption ==
  /\ Root \in Candidates
  /\ \A n \in Candidates : \A m \in GetNeighbors[n] : Parent(m) \in Candidates

(* geo::direction and geo::face.  A face is a dimension and a side.        *)
Direction == [Dim -> -1..1] \ {[d \in Dim |-> 0]}
Face == Dim \X {0, 1}
Flip(f) == <<f[1], 1 - f[2]>>
ToDirection(f) == [d \in Dim |-> IF d # f[1] THEN 0 ELSE IF f[2] = 0 THEN -1 ELSE 1]

(* geo::octant, and the octant of a node in its parent.                    *)
Octant == [Dim -> {0, 1}]
GetChild(n, ci) == [lev |-> n.lev + 1, x |-> [d \in Dim |-> 2 * n.x[d] + ci[d]]]
Children(n) == {GetChild(n, ci) : ci \in Octant}
OctantOf(n) == [d \in Dim |-> n.x[d] % 2]
FaceSubset(f) == {ci \in Octant : ci[f[1]] = f[2]}

(* The order in which loops over the octants meet the children of a node.  *)
Before(a, b) == \E d \in Dim : /\ a.x[d] < b.x[d]
                               /\ \A e \in Dim : e > d => a.x[e] = b.x[e]

VARIABLES
  phase,      \* "check", then "scatter", then "form"
  regrids,    \* how many have begun
  children,   \* nodes whose children array is filled
  locality,   \* where each node lives
  position,   \* its number
  registry,   \* node_registry: pairs of a locality and a location
  neighbors,  \* of each node, by direction
  aunts,      \* of each node, by face
  nieces,     \* of each node, by face: +1, -1, -2, or 0 when not known
  amr_flags,  \* the directions in which a child has no neighbor
  forming,    \* calls of form_tree, set_child_aunt and set_aunt on their way
  aborted     \* one of the aborts was reached

family == <<neighbors, aunts, nieces, amr_flags>>
formation == <<phase, regrids, children, locality, position, registry, family, forming, aborted>>
treeVars == <<vars, formation>>

NoNeighbors == [d \in Direction |-> NoNode]
NoAunts == [f \in Face |-> NoNode]
NoNieces == [f \in Face |-> 0]

(* PositionOf(N) numbers the nodes N of a tree as regrid_scatter does: the *)
(* children of a node follow it one after another, each with its subtree   *)
(* (child_descendant_count).  In the slip the subtrees are forgotten.      *)
PositionOfFlat(N) ==
  LET pos[l \in 0..MaxLevel] ==
        [n \in {m \in N : m.lev = l} |->
           IF n = Root THEN 0
           ELSE pos[l - 1][Parent(n)] + 1
                  + Cardinality({m \in Children(Parent(n)) : Before(m, n)})]
  IN [n \in N |-> pos[n.lev][n]]

PositionOf(N) ==
  LET count(n) == Cardinality({m \in N : m = n \/ IsChildOf(m, n)})
      pos[l \in 0..MaxLevel] ==
        [n \in {m \in N : m.lev = l} |->
           IF n = Root THEN 0
           ELSE pos[l - 1][Parent(n)] + 1
                  + MapThenSumSet(count, {m \in Children(Parent(n)) : Before(m, n)})]
  IN [n \in N |-> pos[n.lev][n]]

(* The locality of each: position * localities / total.                    *)
LocalityOf(N) ==
  LET pos == PositionOf(N)
  IN [n \in N |-> (pos[n] * Localities) \div Cardinality(N)]

(* The program starts from the root alone, on locality 0; or from a tree   *)
(* read from a file, with nodes where load_data_from_silo puts them.       *)
TreeInit ==
  /\ refined \in {R \in SUBSET Candidates : R # {} => Root \in R /\ GradedTree(R)}
  /\ flagged = {} /\ checked = {} /\ wished = {} /\ calls = {}
  /\ phase = "check" /\ regrids = 0 /\ forming = {} /\ aborted = FALSE
  /\ children = refined /\ registry = {}
  /\ locality = LocalityOf(Nodes)
  /\ position = [n \in Nodes |-> 0]
  /\ neighbors = [n \in Nodes |-> NoNeighbors]
  /\ aunts = [n \in Nodes |-> NoAunts]
  /\ nieces = [n \in Nodes |-> NoNieces]
  /\ amr_flags = [n \in Nodes |-> {}]

(* After a load the tree is not formed yet.                                *)
Restarting == regrids = 0 /\ refined # {}

-----------------------------------------------------------------------------
(* The nodes that made their check once those of S have: a node outside    *)
(* Candidates, which never demands anything, makes it with its parent.     *)
Asked(S) == S \cup {n \in Nodes \ Candidates : Parent(n) \in S}

(* check_for_refinement, where every node leaves the registry, and the     *)
(* demands it makes.  In the slip the registry is left to regrid_gather,   *)
(* which does not visit the nodes that are killed.                         *)
Checked(registry_) ==
  /\ phase = "check" /\ ~Restarting /\ regrids < MaxRegrids
  /\ \/ /\ \E n \in Candidates : Check(n)
        /\ registry' = registry_
     \/ /\ \E c \in calls : ForceNodesToExist(c)
        /\ UNCHANGED registry
  /\ UNCHANGED <<phase, regrids, children, locality, position, family, forming, aborted>>
TreeCheckKeeps == Checked(registry)
TreeCheck == Checked({r \in registry : r[2] \notin Asked(checked')})

(* regrid_gather: each node that it visits leaves the registry of its      *)
(* locality, and a node that is no longer refined empties its children     *)
(* array; in the slip it keeps the entries.                                *)
VisitNodes ==
  /\ phase = "check" /\ Gather
  /\ registry' = {r \in registry : ~\E n \in Nodes \cap Nodes' : r = <<locality[n], n>>}
  /\ phase' = "scatter" /\ regrids' = regrids + 1
  /\ UNCHANGED <<locality, position, family, forming, aborted>>
GatherKeepsEntries == VisitNodes /\ UNCHANGED children
RegridGather == VisitNodes /\ children' = children \cap refined'

(* The first regrid after a load moves nodes, and changes none: rb is true.*)
Rebalance ==
  /\ phase = "check" /\ Restarting
  /\ registry' = {}
  /\ phase' = "scatter" /\ regrids' = regrids + 1
  /\ UNCHANGED <<vars, children, locality, position, family, forming, aborted>>

(* A node that is not moved or created by the scattering.                  *)
Stays(n) == n \in DOMAIN locality /\ locality'[n] = locality[n]

(* regrid_scatter: every node gets its position, and its children that do  *)
(* not exist are created, and those that do moved, where their own position*)
(* wants them (create_child, copy_to_locality).  All families are cleared; *)
(* in the slip, aunts are not.  Then regrid calls form_tree for the root.  *)
PlaceNodes ==
  /\ phase = "scatter"
  /\ position' = PositionOf(Nodes)
  /\ locality' = LocalityOf(Nodes)
  /\ registry' = {r \in registry : ~\E n \in Nodes \cap DOMAIN locality :
                                     ~Stays(n) /\ r = <<locality[n], n>>}
  /\ children' = children \cup refined
  /\ neighbors' = [n \in Nodes |-> NoNeighbors]
  /\ nieces' = [n \in Nodes |-> NoNieces]
  /\ amr_flags' = [n \in Nodes |-> IF Stays(n) THEN amr_flags[n] ELSE {}]
  /\ forming' = {[call |-> "form_tree", to |-> Root, neighbors |-> NoNeighbors]}
  /\ phase' = "form"
  /\ UNCHANGED <<vars, regrids, aborted>>
ScatterKeepsAunts ==
  /\ PlaceNodes
  /\ aunts' = [n \in Nodes |-> IF n \in DOMAIN aunts /\ Stays(n) THEN aunts[n] ELSE NoAunts]
RegridScatter == PlaceNodes /\ aunts' = [n \in Nodes |-> NoAunts]

-----------------------------------------------------------------------------
(* node_client::get_child_client and the handler it calls.                 *)
GetChildClient(m, ci) ==
  IF m = NoNode \/ m \notin refined THEN NoNode ELSE GetChild(m, ci)

(* A slip: only siblings are found.                                        *)
SiblingsOnly(n, nbrs, ci) ==
  [dir \in Direction |->
     LET x == [d \in Dim |-> ci[d] + dir[d] + 2]
     IN IF \A d \in Dim : x[d] \div 2 = 1
        THEN GetChild(n, [d \in Dim |-> x[d] % 2]) ELSE NoNode]

(* What form_tree finds around the child of n in octant ci: a sibling, or  *)
(* a child of a neighbor of n.                                             *)
ChildNeighbors(n, nbrs, ci) ==
  [dir \in Direction |->
     LET x == [d \in Dim |-> ci[d] + dir[d] + 2]
         other_child == [d \in Dim |-> x[d] % 2]
         towards == [d \in Dim |-> x[d] \div 2 - 1]
     IN IF \A d \in Dim : towards[d] = 0 THEN GetChild(n, other_child)
        ELSE GetChildClient(nbrs[towards], other_child)]

(* form_tree on a refined node calls it on all children.  In the slip a    *)
(* neighbor tells its children only when it knows its own neighbors.       *)
CallChildren(c) ==
  LET n == c.to
      calls_ == {[call |-> "form_tree", to |-> GetChild(n, ci),
                  neighbors |-> ChildNeighbors(n, c.neighbors, ci)] : ci \in Octant}
  IN /\ c \in forming /\ c.call = "form_tree" /\ n \in refined
     /\ neighbors' = [neighbors EXCEPT ![n] = c.neighbors]
     /\ nieces' = [nieces EXCEPT ![n] = NoNieces]
     /\ amr_flags' = [amr_flags EXCEPT ![n] =
          {p \in Children(n) \X Direction :
             \E k \in calls_ : k.to = p[1] /\ k.neighbors[p[2]] = NoNode}]
     /\ forming' = (forming \ {c}) \cup calls_
     /\ UNCHANGED <<vars, phase, regrids, children, locality, position, aunts, aborted>>
FormWaits(c) ==
  /\ CallChildren(c)
  /\ registry' = registry \cup {<<locality[c.to], c.to>>}
  /\ \A dir \in Direction : LET m == c.neighbors[dir]
                            IN m \in refined => <<locality[m], m>> \in registry
FormRefined(c) == CallChildren(c) /\ registry' = registry \cup {<<locality[c.to], c.to>>}

(* On a leaf it calls set_child_aunt on the neighbors beyond its faces.  A  *)
(* leaf answers -1 whenever it is asked, so that is not a step of its own, *)
(* and aborts if it still has a child (CHILD SHOULD NOT EXIST).  In the    *)
(* slip the leaf forgets the aunts it already has.                         *)
LeafCalls(c, beyond) ==
  LET n == c.to
  IN /\ c \in forming /\ c.call = "form_tree" /\ n \notin refined
     /\ registry' = registry \cup {<<locality[n], n>>}
     /\ neighbors' = [neighbors EXCEPT ![n] = c.neighbors]
     /\ nieces' = [nieces EXCEPT ![n] = [f \in Face |->
          IF beyond[f] = NoNode THEN -2 ELSE IF beyond[f] \in refined THEN 0 ELSE -1]]
     /\ aborted' = (aborted \/ \E f \in Face : beyond[f] \in children \ refined)
     /\ forming' = (forming \ {c}) \cup
          {[call |-> "set_child_aunt", to |-> beyond[f], aunt |-> n, face |-> Flip(f)] :
             f \in {f \in Face : beyond[f] \in refined}}
     /\ UNCHANGED <<vars, phase, regrids, children, locality, position, amr_flags>>
FormLeafResets(c) ==
  /\ LeafCalls(c, [f \in Face |-> c.neighbors[ToDirection(f)]])
  /\ aunts' = [aunts EXCEPT ![c.to] = NoAunts]
FormLeaf(c) ==
  /\ LeafCalls(c, [f \in Face |-> c.neighbors[ToDirection(f)]])
  /\ UNCHANGED aunts

(* set_child_aunt on a refined node, with the calls of set_aunt it makes to*)
(* its children on that side: AUNT ALREADY SET, if one is.                 *)
SetChildAunt(c) ==
  LET nieces_ == {GetChild(c.to, ci) : ci \in FaceSubset(c.face)}
  IN /\ c \in forming /\ c.call = "set_child_aunt"
     /\ aborted' = (aborted \/ \E m \in nieces_ : aunts[m][c.face] # NoNode)
     /\ aunts' = [n \in DOMAIN aunts |->
                    IF n \in nieces_ THEN [aunts[n] EXCEPT ![c.face] = c.aunt] ELSE aunts[n]]
     /\ nieces' = [nieces EXCEPT ![c.aunt][Flip(c.face)] = 1]
     /\ forming' = forming \ {c}
     /\ UNCHANGED <<vars, phase, regrids, children, locality, position, registry,
                    neighbors, amr_flags>>

Formed ==
  /\ phase = "form" /\ forming = {}
  /\ phase' = "check"
  /\ UNCHANGED <<vars, regrids, children, locality, position, registry, family, forming, aborted>>

FormTree == /\ phase = "form"
            /\ \E c \in forming : FormRefined(c) \/ FormLeaf(c) \/ SetChildAunt(c)

TreeNext == TreeCheck \/ RegridGather \/ Rebalance \/ RegridScatter \/ FormTree \/ Formed

TreeSpec == TreeInit /\ [][TreeNext]_treeVars /\ WF_treeVars(TreeNext)

-----------------------------------------------------------------------------
Ready == phase = "check" /\ regrids > 0

At(n, dir) == [lev |-> n.lev, x |-> [d \in Dim |-> n.x[d] + dir[d]]]

(* When a regrid is over, every node knows exactly its neighbors: across   *)
(* faces, edges and corners, each pair of them mutually, as the exchanges  *)
(* of boundaries take for granted.                                         *)
NeighborsKnown ==
  Ready => \A n \in Nodes : \A dir \in Direction :
             neighbors[n][dir] = IF At(n, dir) \in Nodes THEN At(n, dir) ELSE NoNode

(* Across each face of a leaf, inside the domain, there is one partner for *)
(* its fluxes: a neighbor, or a coarser leaf that is its aunt and knows of *)
(* its nieces; and nobody has an aunt or nieces otherwise.  This is what   *)
(* the correction of fluxes relies on.                                     *)
FluxPartners ==
  Ready =>
    /\ \A n \in Nodes \ refined : \A f \in Face :
         LET m == At(n, ToDirection(f))
         IN /\ nieces[n][f] = IF m \notin Nodes THEN -2 ELSE IF m \in refined THEN 1 ELSE -1
            /\ m \in Loc \ Nodes => /\ aunts[n][f] = Parent(m)
                                    /\ Parent(m) \in Nodes \ refined
                                    /\ nieces[Parent(m)][Flip(f)] = 1
    /\ \A n \in Nodes : \A f \in Face :
         At(n, ToDirection(f)) \notin Loc \ Nodes => aunts[n][f] = NoNode

(* Whatever the order in which leaves become aunts and nodes learn of their*)
(* neighbors, no abort is reached: nothing of an earlier tree is left.     *)
FormNeverAborts == ~aborted

(* The registries of the localities list every node of the tree once, where*)
(* it lives, also after it has moved, and no node that was killed or moved *)
(* away: a file is written by asking all that they list.                   *)
RegistryComplete ==
  Ready => registry = {<<locality[n], n>> : n \in Nodes \ Asked(checked)}

(* Positions number the nodes without gap, parents before children, and the*)
(* localities' shares of them differ by one at most.                       *)
EvenShares ==
  Ready =>
    /\ {position[n] : n \in Nodes} = 0..(Cardinality(Nodes) - 1)
    /\ \A n \in Nodes \ {Root} : position[Parent(n)] < position[n]
    /\ \A n, m \in Nodes : position[n] <= position[m] => locality[n] <= locality[m]
    /\ \A l \in 0..(Localities - 1) :
         Cardinality({n \in Nodes : locality[n] = l})
           \in {Cardinality(Nodes) \div Localities, Cardinality(Nodes) \div Localities + 1}

(* No circle of waits: forming the tree comes to its end.                  *)
RegridFinishes == phase = "scatter" ~> phase = "check"
=============================================================================
