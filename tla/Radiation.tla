----------------------------- MODULE Radiation -----------------------------
(***************************************************************************)
(* compute_radiation of node_server: the explicit transport of radiation,  *)
(* taken in as many substeps of three Runge-Kutta stages as light needs    *)
(* within one timestep.  Every stage exchanges boundaries as HydroBounds   *)
(* does, through channels keyed by rcycle, and then corrects fluxes as     *)
(* FluxCorrection does, through channels that number values by arrival.    *)
(*                                                                         *)
(* How many exchanges a timestep has is not fixed: every node computes it  *)
(* from the agreed dt.  Refined nodes transport radiation too, and what    *)
(* they compute is overwritten by the restrictions of their children.      *)
(* Cells are abstracted to the stage they were computed in, negative if a  *)
(* refined node computed them itself.                                      *)
(***************************************************************************)
EXTENDS Integers, Sequences, FiniteSets

CONSTANTS
  Node,      \* the nodes of the octree
  Root,      \* the node of level 0
  Parent,    \* the parent of each other node
  Dir,       \* geo::direction
  Face,      \* the directions that are faces
  Flip,      \* direction::flip()
  Nbr,       \* neighbors[dir] of each node
  NoNode,    \* an empty node_client
  Level,     \* the level of each node
  MaxLevel,  \* opts().max_level
  Dts,       \* the dts that may be agreed, in units of CellTime(MaxLevel) / 2
  NRK,       \* stages of a substep: the length of beta
  Steps      \* timesteps taken between two regrids

ASSUME RadiationAssumption ==
  /\ Root \in Node /\ NoNode \notin Node
  /\ Parent \in [Node \ {Root} -> Node]
  /\ MaxLevel \in Nat /\ Level \in [Node -> 0..MaxLevel]
  /\ Dts \subseteq Nat /\ NRK \in Nat \ {0} /\ Steps \in Nat

(* Neighbors are mutual, and the one beyond a face is a sibling or a child *)
(* of the parent's neighbor.                                               *)
ASSUME NeighborAssumption ==
  /\ Flip \in [Dir -> Dir] /\ \A d \in Dir : Flip[Flip[d]] = d
  /\ Nbr \in [Node -> [Dir -> Node \cup {NoNode}]]
  /\ \A n \in Node : \A d \in Dir :
       Nbr[n][d] # NoNode => Nbr[Nbr[n][d]][Flip[d]] = n
  /\ Face \subseteq Dir /\ \A f \in Face : Flip[f] \in Face
  /\ \A c \in Node \ {Root} : \A f \in Face :
       Nbr[c][f] # NoNode =>
         /\ Nbr[c][f] # Root
         /\ Parent[Nbr[c][f]] \in {Parent[c], Nbr[Parent[c]][f]}

ChildNodes == [n \in Node |-> {c \in Node \ {Root} : Parent[c] = n}]
Children(n) == ChildNodes[n]
Refined(n) == Children(n) # {}

(* nieces and aunts, as form_tree leaves them: the children of a refined   *)
(* neighbor of a leaf that face the leaf.                                  *)
Nieces(a, f) ==
  IF Refined(a) \/ Nbr[a][f] = NoNode THEN {}
  ELSE {c \in Children(Nbr[a][f]) : Nbr[c][Flip[f]] \notin Children(Nbr[a][f])}
HasAunt(n, f) == \E a \in Node : n \in Nieces(a, Flip[f])

VARIABLES
  pc,       \* where in compute_radiation a node is
  dts,      \* the dt of each step, which all nodes were told
  step,     \* timesteps whose radiation a node has begun
  rk,       \* stages it has completed in this timestep
  stage,    \* how often it has changed its cells
  rcycle,   \* the key of its next exchange
  cells,    \* the stages its own cells come from
  ghost,    \* the stages the cells around it come from
  child,    \* child_rad_channels at the parent, by child
  sibling,  \* sibling_rad_channels of a node, by direction
  wire,     \* fluxes on their way, by the sender and its face
  niece     \* niece_rad_channels of the aunt, by the sender and its face

exchangeVars == <<rcycle, ghost, child, sibling>>
vars == <<pc, dts, step, rk, stage, cells, exchangeVars, wire, niece>>

Msg == [cycle : Nat, data : SUBSET Int, from : Node]

FirstCycle == 0

Init ==
  /\ pc = [n \in Node |-> "hydro"]
  /\ dts \in [1..Steps -> Dts]
  /\ step = [n \in Node |-> 0]
  /\ rk = [n \in Node |-> 0]
  /\ stage = [n \in Node |-> 0]
  /\ rcycle = [n \in Node |-> FirstCycle]
  /\ cells = [n \in Node |-> {}]
  /\ ghost = [n \in Node |-> {}]
  /\ child = [n \in Node |-> {}]
  /\ sibling = [n \in Node |-> [d \in Dir |-> {}]]
  /\ wire = [n \in Node |-> [f \in Face |-> {}]]
  /\ niece = [n \in Node |-> [f \in Face |-> <<>>]]

-----------------------------------------------------------------------------
(* max_dt on a grid of level l, in the units of Dts.                       *)
CellTime(l) == 2 * 2^(MaxLevel - l)

CeilDiv(x, y) == (x + y - 1) \div y
AtLeastOne(k) == IF k = 0 THEN 1 ELSE k

(* A slip: max_dt follows the node's own cells.                            *)
SubstepsOwn(n) == AtLeastOne(CeilDiv(dts[step[n]], CellTime(Level[n])))

(* nsteps: min_dx is that of the finest level allowed, on every node.  No  *)
(* dt asks for more substeps than an int holds, of which the code prints a *)
(* message and goes on.                                                    *)
Substeps(n) == AtLeastOne(CeilDiv(dts[step[n]], CellTime(MaxLevel)))

Computed(n, k) == {IF Refined(n) THEN 0 - k ELSE k}

(* update and the implicit half step change the cells of the next timestep.*)
Begin(n) ==
  /\ pc[n] = "hydro" /\ step[n] < Steps
  /\ step' = [step EXCEPT ![n] = @ + 1]
  /\ rk' = [rk EXCEPT ![n] = 0]
  /\ stage' = [stage EXCEPT ![n] = @ + 1]
  /\ cells' = [cells EXCEPT ![n] = Computed(n, stage[n] + 1)]
  /\ pc' = [pc EXCEPT ![n] = "restrict"]
  /\ UNCHANGED <<dts, exchangeVars, wire, niece>>

(* What unordered_channel yields for a cycle.                              *)
Msgs(S, k) == {m \in S : m.cycle = k}

Restrictions(n) == UNION {Msgs(child[c], rcycle[n]) : c \in Children(n)}

Data(S) == UNION {m.data : m \in S}

(* A slip: the restrictions are taken, but not put into the grid.          *)
RestrictedLeft(n) == cells[n]

(* set_restrict: the children's cells take the place of its own.           *)
Restricted(n) == IF Refined(n) THEN Data(Restrictions(n)) ELSE cells[n]

(* A slip: the restrictions are read and left in the channels.             *)
ChildChannelsKept(n, msg) ==
  [c \in Node |-> child[c] \cup (IF c = n /\ n # Root THEN {msg} ELSE {})]

(* child_rad_channels once a node has taken its children's values and sent *)
(* its own to the parent.                                                  *)
ChildChannels(n, msg) ==
  [c \in Node |-> (child[c] \ Restrictions(n))
                    \cup (IF c = n /\ n # Root THEN {msg} ELSE {})]

(* exchange_interlevel_rad_data and the sends of collect_radiation_bounds. *)
Interlevel(n) ==
  /\ pc[n] = "restrict"
  /\ \A c \in Children(n) : Msgs(child[c], rcycle[n]) # {}
  /\ LET msg == [cycle |-> rcycle[n], data |-> Restricted(n), from |-> n]
     IN /\ cells' = [cells EXCEPT ![n] = Restricted(n)]
        /\ child' = ChildChannels(n, msg)
        /\ sibling' = [m \in Node |-> [d \in Dir |->
             sibling[m][d] \cup (IF Nbr[n][Flip[d]] = m THEN {msg} ELSE {})]]
  /\ pc' = [pc EXCEPT ![n] = "collect"]
  /\ UNCHANGED <<dts, step, rk, stage, rcycle, ghost, wire, niece>>

(* The directions a node waits for: all but the sides of the root.         *)
Awaited(n) == {d \in Dir : ~(Nbr[n][d] = NoNode /\ n = Root)}
AmrFlag(c, d) == c # Root /\ Nbr[c][d] = NoNode

Boundary(n, d) == Msgs(sibling[n][d], rcycle[n])

(* The waits of collect_radiation_bounds, send_rad_amr_bounds and rcycle++.*)
Collect(n) ==
  /\ pc[n] = "collect"
  /\ \A d \in Awaited(n) : Boundary(n, d) # {}
  /\ LET taken == UNION {Boundary(n, d) : d \in Awaited(n)}
         msg == [cycle |-> rcycle[n], data |-> cells[n] \cup Data(taken), from |-> n]
     IN /\ ghost' = [ghost EXCEPT ![n] = Data(taken)]
        /\ sibling' = [m \in Node |-> [d \in Dir |->
             IF m = n THEN sibling[m][d] \ taken
             ELSE sibling[m][d] \cup
                    (IF m \in Children(n) /\ AmrFlag(m, d) THEN {msg} ELSE {})]]
  /\ rcycle' = [rcycle EXCEPT ![n] = @ + 1]
  /\ pc' = [pc EXCEPT ![n] = IF rk[n] < NRK * Substeps(n) THEN "flux" ELSE "hydro"]
  /\ UNCHANGED <<dts, step, rk, stage, cells, child, wire, niece>>

(* compute_flux and the sends of exchange_rad_flux_corrections.            *)
SendFlux(n) ==
  /\ pc[n] = "flux"
  /\ wire' = [wire EXCEPT ![n] = [f \in Face |->
       IF HasAunt(n, f) THEN @[f] \cup {stage[n]} ELSE @[f]]]
  /\ pc' = [pc EXCEPT ![n] = "advance"]
  /\ UNCHANGED <<dts, step, rk, stage, cells, exchangeVars, niece>>

(* recv_rad_flux_correct: a call arrives, in any order.                    *)
RecvFlux(n, f) ==
  \E k \in wire[n][f] :
    /\ wire' = [wire EXCEPT ![n][f] = @ \ {k}]
    /\ niece' = [niece EXCEPT ![n][f] = Append(@, k)]
    /\ UNCHANGED <<pc, dts, step, rk, stage, cells, exchangeVars>>

(* A slip: the futures of the fluxes are taken out but not waited for.     *)
AdvanceUnawaited(n) ==
  /\ pc[n] = "advance"
  /\ niece' = [c \in Node |-> [f \in Face |->
       IF c \in Nieces(n, Flip[f]) /\ niece[c][f] # <<>>
       THEN Tail(niece[c][f]) ELSE niece[c][f]]]
  /\ rk' = [rk EXCEPT ![n] = @ + 1]
  /\ stage' = [stage EXCEPT ![n] = @ + 1]
  /\ cells' = [cells EXCEPT ![n] = Computed(n, stage[n] + 1)]
  /\ pc' = [pc EXCEPT ![n] = "restrict"]
  /\ UNCHANGED <<dts, step, exchangeVars, wire>>

(* The waits of exchange_rad_flux_corrections, and rad_grid::advance; after*)
(* the last stage the implicit half step follows.                          *)
Advance(n) ==
  /\ pc[n] = "advance"
  /\ \A f \in Face : \A c \in Nieces(n, f) : niece[c][Flip[f]] # <<>>
  /\ niece' = [c \in Node |-> [f \in Face |->
       IF c \in Nieces(n, Flip[f]) THEN Tail(niece[c][f]) ELSE niece[c][f]]]
  /\ rk' = [rk EXCEPT ![n] = @ + 1]
  /\ stage' = [stage EXCEPT ![n] = @ + 1]
  /\ cells' = [cells EXCEPT ![n] = Computed(n, stage[n] + 1)]
  /\ pc' = [pc EXCEPT ![n] = "restrict"]
  /\ UNCHANGED <<dts, step, exchangeVars, wire>>

Next == \E n \in Node :
  \/ Begin(n) \/ Interlevel(n) \/ Collect(n) \/ SendFlux(n) \/ Advance(n)
  \/ \E f \in Face : RecvFlux(n, f)

Spec == Init /\ [][Next]_vars

(* As long as a task is ready or a call on its way, one runs or arrives.   *)
FairSpec == Spec /\ WF_vars(Next)

-----------------------------------------------------------------------------
(* Whenever a node computes fluxes, its cells and all cells around it are  *)
(* of its own stage, and all were computed by leaves: what a refined node  *)
(* computes itself never reaches a boundary.                               *)
RadiationFresh ==
  \A n \in Node : pc[n] \in {"flux", "advance"} =>
    cells[n] = {stage[n]} /\ ghost[n] \subseteq {stage[n]}

(* The fluxes between a niece and its aunt are of the stage the aunt is    *)
(* correcting or comes to correct next, and there is one at most, though   *)
(* no number travels with them.                                            *)
RadiationFluxMatches ==
  \A a \in Node : \A f \in Face : \A c \in Nieces(a, Flip[f]) :
    /\ wire[c][f] \subseteq {stage[a]}
    /\ \A i \in 1..Len(niece[c][f]) : niece[c][f][i] = stage[a]
    /\ Cardinality(wire[c][f]) + Len(niece[c][f]) <= 1

(* When all nodes have done their steps nothing is left in a channel and   *)
(* all keys are the same: regrid copies nodes without their channels and   *)
(* hands the root's rcycle down to new children.                           *)
RadiationDrained ==
  (\A n \in Node : pc[n] = "hydro" /\ step[n] = Steps) =>
    \A n \in Node :
      /\ rcycle[n] = rcycle[Root] /\ child[n] = {}
      /\ \A d \in Dir : sibling[n][d] = {}
      /\ \A f \in Face : wire[n][f] = {} /\ niece[n][f] = <<>>

(* All nodes complete the radiation of every timestep, whatever its dt:    *)
(* none waits for an exchange that another does not take part in.          *)
RadiationDone == <>[](\A n \in Node : pc[n] = "hydro" /\ step[n] = Steps)
=============================================================================
