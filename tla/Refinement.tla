----------------------------- MODULE Refinement -----------------------------
(***************************************************************************)
(* How regrid decides which nodes of the octree are refined:               *)
(* check_for_refinement asks every node, force_nodes_to_exist spreads what *)
(* a node that will be refined needs around it, and regrid_gather creates  *)
(* and kills children.                                                     *)
(*                                                                         *)
(* All calls are asynchronous and a node's own check, and the calls of     *)
(* several others, reach it in any order.  What keeps the result in order  *)
(* is refinement_flag: only the first to set it passes the demand on.  The *)
(* root's check returns when all calls made for it have.  The test on the  *)
(* cells is nondeterministic.                                              *)
(***************************************************************************)
EXTENDS Integers

CONSTANTS
  NDIM,        \* dimensions of the tree
  MinLevel,    \* opts().min_level
  MaxLevel,    \* opts().max_level
  Candidates   \* nodes whose cells may pass the refinement test

Dim == 1..NDIM

(* node_location: level and integer coordinates.                           *)
LocAt(l) == [lev : {l}, x : [Dim -> 0..(2^l - 1)]]
Loc == UNION {LocAt(l) : l \in 0..MaxLevel}

ASSUME LevelAssumption ==
  /\ NDIM \in Nat \ {0}
  /\ MinLevel \in Nat /\ MaxLevel \in Nat /\ MinLevel <= MaxLevel
  /\ Candidates \subseteq Loc
  /\ \A n \in Loc : n.lev < MinLevel => n \in Candidates

Root == [lev |-> 0, x |-> [d \in Dim |-> 0]]
Parent(n) == [lev |-> n.lev - 1, x |-> [d \in Dim |-> n.x[d] \div 2]]

(* A slip: a location is its own child.                                    *)
IsChildOrSame(n, m) ==
  m.lev <= n.lev /\ \A d \in Dim : n.x[d] \div 2^(n.lev - m.lev) = m.x[d]

(* is_child_of: strictly below, at any distance.                           *)
IsChildOf(n, m) ==
  m.lev < n.lev /\ \A d \in Dim : n.x[d] \div 2^(n.lev - m.lev) = m.x[d]

(* get_neighbors: the up to 3^NDIM - 1 locations around one, in the domain.*)
GetNeighbors ==
  [n \in Loc |-> {m \in LocAt(n.lev) \ {n} :
                    \A d \in Dim : m.x[d] - n.x[d] \in -1..1}]

(* get_child                                                               *)
ChildrenOf == [n \in Loc |-> {m \in LocAt(n.lev + 1) : n.lev < MaxLevel /\ IsChildOf(m, n)}]

VARIABLES
  refined,    \* the nodes with is_refined
  flagged,    \* the nodes whose refinement_flag is not zero
  checked,    \* the nodes that have done their own check
  wished,     \* those among them that passed the test
  calls       \* calls of force_nodes_to_exist not yet handled

vars == <<refined, flagged, checked, wished, calls>>

Exists(n) == n = Root \/ Parent(n) \in refined
Nodes == {n \in Loc : Exists(n)}

(* A node's neighbors that exist.                                          *)
Around(n) == {m \in GetNeighbors[n] : Exists(m)}

(* The program starts from a root without children.                        *)
Init ==
  /\ refined = {} /\ flagged = {} /\ checked = {} /\ wished = {}
  /\ calls = {}

-----------------------------------------------------------------------------
Call(n, locs) == IF locs = {} THEN {} ELSE {[to |-> n, locs |-> locs]}

(* What the first to set refinement_flag demands of the node's parent.     *)
Demand(n) == IF n \in flagged \/ n = Root THEN {}
             ELSE Call(Parent(n), GetNeighbors[n])

(* A slip: a node that is refined demands nothing, as if its neighbors     *)
(* were safe.                                                              *)
CheckLeaf(n) ==
  /\ Exists(n) /\ n \notin checked
  /\ checked' = checked \cup {n}
  /\ \E rc \in BOOLEAN :
       /\ n.lev < MinLevel => rc
       /\ rc => n.lev < MaxLevel
       /\ wished' = IF rc THEN wished \cup {n} ELSE wished
       /\ flagged' = IF rc THEN flagged \cup {n} ELSE flagged
       /\ calls' = IF rc /\ n \notin refined THEN calls \cup Demand(n) ELSE calls
  /\ UNCHANGED refined

(* check_for_refinement on one node; rc is the result of refine_me, which  *)
(* is true below MinLevel, and for no test at MaxLevel.                    *)
Check(n) ==
  /\ Exists(n) /\ n \notin checked
  /\ checked' = checked \cup {n}
  /\ \E rc \in BOOLEAN :
       /\ n.lev < MinLevel => rc
       /\ rc => n.lev < MaxLevel
       /\ wished' = IF rc THEN wished \cup {n} ELSE wished
       /\ flagged' = IF rc THEN flagged \cup {n} ELSE flagged
       /\ calls' = IF rc THEN calls \cup Demand(n) ELSE calls
  /\ UNCHANGED refined

(* A slip: a neighbor is handed all locations beyond this node, not only   *)
(* those below the neighbor.                                               *)
ForceUnsorted(c) ==
  LET n == c.to
      inside == {l \in c.locs : IsChildOf(l, n)}
  IN /\ c \in calls
     /\ flagged' = IF inside # {} THEN flagged \cup {n} ELSE flagged
     /\ calls' = (calls \ {c})
          \cup (IF inside # {} THEN Demand(n) ELSE {})
          \cup UNION {Call(m, c.locs \ inside) : m \in Around(n)}
     /\ UNCHANGED <<refined, checked, wished>>

(* force_nodes_to_exist: locations below this node flag it and are passed  *)
(* to the child above them; others go to the neighbor above them, or else  *)
(* to the parent.                                                          *)
ForceNodesToExist(c) ==
  LET n == c.to
      inside == {l \in c.locs : IsChildOf(l, n)}
      below(m) == {l \in c.locs : IsChildOf(l, m)}
      children == {m \in ChildrenOf[n] : Exists(m)}
      neighbors == Around(n)
      rest == {l \in c.locs \ inside : \A m \in neighbors : ~IsChildOf(l, m)}
  IN /\ c \in calls
     /\ rest # {} => n # Root
     /\ flagged' = IF inside # {} THEN flagged \cup {n} ELSE flagged
     /\ calls' = (calls \ {c})
          \cup (IF inside # {} THEN Demand(n) ELSE {})
          \cup (UNION {Call(m, below(m)) : m \in children \cup neighbors})
          \cup (IF rest # {} THEN Call(Parent(n), rest) ELSE {})
     /\ UNCHANGED <<refined, checked, wished>>

(* regrid_gather, and the reset of the flags by regrid_scatter: a refined  *)
(* node whose flag is zero kills its children with all below them, and a   *)
(* leaf whose flag is set is refined.                                      *)
Gather ==
  /\ \A n \in Candidates : Exists(n) => n \in checked
  /\ calls = {} /\ checked # {}
  /\ refined' = {n \in flagged : \A m \in Nodes : IsChildOf(n, m) => m \in flagged}
  /\ flagged' = {} /\ checked' = {} /\ wished' = {}
  /\ UNCHANGED calls

Next == \/ \E n \in Candidates : Check(n)
        \/ \E c \in calls : ForceNodesToExist(c)
        \/ Gather

Spec == Init /\ [][Next]_vars

(* Every call is handled and every node makes its check.                   *)
FairSpec == Spec /\ WF_vars(Next)

-----------------------------------------------------------------------------
(* Around a refined node all neighbors exist, and so do all above it.      *)
GradedTree(R) ==
  \A n \in R : /\ n.lev < MaxLevel /\ (n = Root \/ Parent(n) \in R)
               /\ \A m \in GetNeighbors[n] : m.lev = 0 \/ Parent(m) \in R

(* No node that passed the test loses its children or stays without, and   *)
(* no node is refined that was not demanded: the tree that a regrid makes  *)
(* is the least graded one that has all wishes, so it does not depend on   *)
(* the order in which nodes were asked and calls arrived.  Graded means    *)
(* that around a refined node all neighbors exist, across edges and        *)
(* corners too, as boundary exchange and flux correction need it.          *)
Needed[l \in 0..MaxLevel] ==
  {n \in wished : n.lev = l} \cup
  (IF l = MaxLevel THEN {}
   ELSE {Parent(m) : m \in UNION {{n} \cup GetNeighbors[n] : n \in Needed[l + 1]}})

LeastGradedTree ==
  [][Gather => refined' = UNION {Needed[l] : l \in 0..MaxLevel}]_vars

(* Neither abort of force_nodes_to_exist is reached: no node is asked to   *)
(* create itself, and no location is left that the root has no place for.  *)
NeverAborts ==
  \A c \in calls : /\ c.to \notin c.locs
                   /\ c.to = Root => \A l \in c.locs : IsChildOf(l, Root)

(* The demands stop: every regrid comes to the gathering of its nodes.     *)
RegridEnds == checked # {} ~> checked = {}
=============================================================================
