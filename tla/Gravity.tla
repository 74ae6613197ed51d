------------------------------ MODULE Gravity ------------------------------
(***************************************************************************)
(* One gravity solve after another: compute_fmm of node_server, as called  *)
(* by regrid through solve_gravity and by refined_step and nonrefined_step.*)
(* Multipoles go up the tree, every node swaps boundaries with its         *)
(* neighbors and computes the interactions, expansions come down.  A       *)
(* boundary for a neighbor of the same locality is not copied but shared:  *)
(* it carries the sender's semaphore, which the receiver signals when it   *)
(* has done with it and which the sender awaits before its next solve.     *)
(*                                                                         *)
(* neighbor_gravity_channels are keyed by gcycle: a channel is the set of  *)
(* what was sent to it and not yet taken.  child_gravity_channels and      *)
(* parent_gravity_channel number values by arrival: any of those sent may  *)
(* be the next.  Multipoles, boundaries and expansions are abstracted to   *)
(* the solves, with their gsolve_type, they come from.                     *)
(***************************************************************************)
EXTENDS Integers, FiniteSets

CONSTANTS
  Node,       \* the nodes of the octree
  Root,       \* the node of level 0
  Parent,     \* the parent of each other node
  Dir,        \* geo::direction
  Flip,       \* direction::flip()
  Nbr,        \* neighbors[dir] of each node
  NoNode,     \* an empty node_client
  Loc,        \* the locality of each node
  NRK,        \* Runge-Kutta stages
  Steps,      \* timesteps after the solve of a regrid
  Output      \* ~opts().output_filename.empty()

ChildNodes == [n \in Node |-> {c \in Node \ {Root} : Parent[c] = n}]
Children(n) == ChildNodes[n]
Refined(n) == Children(n) # {}
Sides(n) == {d \in Dir : Nbr[n][d] # NoNode}
IsLocal(n, m) == Loc[n] = Loc[m]

ASSUME TreeAssumption ==
  /\ Root \in Node /\ NoNode \notin Node
  /\ Parent \in [Node \ {Root} -> Node]
  /\ Flip \in [Dir -> Dir]
  /\ \A d \in Dir : Flip[Flip[d]] = d
  /\ Nbr \in [Node -> [Dir -> Node \cup {NoNode}]]
  /\ \A n \in Node : \A d \in Dir :
       Nbr[n][d] # NoNode => Nbr[Nbr[n][d]][Flip[d]] = n

ASSUME StepAssumption ==
  NRK \in Nat \ {0} /\ Steps \in Nat /\ Output \in BOOLEAN

(* The solves of one timestep, as refined_step and nonrefined_step make    *)
(* them.                                                                   *)
RefinedStep == [i \in 1..(2 * NRK) |-> IF i % 2 = 1 THEN "DRHODT" ELSE "RHO"]

(* A slip: the leaves solve for the density before its change.             *)
NonrefinedStepSwapped ==
  [i \in 1..(2 * NRK) |-> IF i % 2 = 1 THEN "RHO" ELSE "DRHODT"]

NonrefinedStep == [i \in 1..(2 * NRK) |-> IF i % 2 = 1 THEN "DRHODT" ELSE "RHO"]

Solves == 1 + Steps * 2 * NRK

(* gsolve_type of solve k at node n: regrid's, then those of its steps.    *)
SolveType(n, k) ==
  LET step == IF Refined(n) THEN RefinedStep ELSE NonrefinedStep
  IN IF k = 0 THEN "RHO" ELSE step[((k - 1) % (2 * NRK)) + 1]

(* What solve k of node n is made of when nothing is mixed up.             *)
Of(n, k) == [solve |-> k, type |-> SolveType(n, k)]

(* regrid asks for the accelerations alone when there is an output file.   *)
AOnly(k) == k = 0 /\ Output

VARIABLES
  pc,        \* where a node is in compute_fmm
  gcycle,    \* the key of its present or next solve
  signals,   \* neighbor_signals: counts by direction
  neighbor,  \* neighbor_gravity_channels of a node, by direction
  child,     \* child_gravity_channels at the parent, by child
  parent,    \* parent_gravity_channel of a node
  poles,     \* what its multipoles come from
  held,      \* all_neighbor_interaction_data
  field      \* what its expansions come from

vars == <<pc, gcycle, signals, neighbor, child, parent, poles, held, field>>

Source == [solve : Nat, type : {"RHO", "DRHODT"}]
NoSignal == <<>>
Boundary == [cycle : Nat, data : SUBSET Source,
             signal : (Node \X Dir) \cup {NoSignal}]

TypeOK ==
  /\ pc \in [Node -> {"idle", "gather", "collect", "interact", "expand"}]
  /\ gcycle \in [Node -> Nat]
  /\ signals \in [Node -> [Dir -> Nat]]
  /\ neighbor \in [Node -> [Dir -> SUBSET Boundary]]
  /\ child \in [Node -> SUBSET SUBSET Source]
  /\ parent \in [Node -> SUBSET SUBSET Source]
  /\ poles \in [Node -> SUBSET Source]
  /\ held \in [Node -> SUBSET Boundary]
  /\ field \in [Node -> SUBSET Source]

Init ==
  /\ pc = [n \in Node |-> "idle"]
  /\ gcycle = [n \in Node |-> 0]
  /\ signals = [n \in Node |-> [d \in Dir |-> 1]]
  /\ neighbor = [n \in Node |-> [d \in Dir |-> {}]]
  /\ child = [n \in Node |-> {}]
  /\ parent = [n \in Node |-> {}]
  /\ poles = [n \in Node |-> {}]
  /\ held = [n \in Node |-> {}]
  /\ field = [n \in Node |-> {}]

-----------------------------------------------------------------------------
(* A slip: the signals are not awaited.                                    *)
WaitForNothing(n) ==
  /\ pc[n] = "idle" /\ gcycle[n] < Solves
  /\ gcycle[n] > 0 => \A m \in Node : gcycle[m] > 0
  /\ pc' = [pc EXCEPT ![n] = "gather"]
  /\ UNCHANGED <<gcycle, signals, neighbor, child, parent, poles, held, field>>

(* A node enters its next solve and awaits every neighbor's signal.  The   *)
(* steps begin when solve_gravity has returned from all nodes.             *)
Wait(n) ==
  /\ pc[n] = "idle" /\ gcycle[n] < Solves
  /\ gcycle[n] > 0 => \A m \in Node : gcycle[m] > 0
  /\ \A d \in Sides(n) : signals[n][d] > 0
  /\ signals' = [signals EXCEPT ![n] =
                   [d \in Dir |-> IF d \in Sides(n) THEN @[d] - 1 ELSE @[d]]]
  /\ pc' = [pc EXCEPT ![n] = "gather"]
  /\ UNCHANGED <<gcycle, neighbor, child, parent, poles, held, field>>

(* grid::compute_multipoles: from the children's or from the own density.  *)
Multipoles(n, arrived) ==
  IF Refined(n) THEN UNION {arrived[c] : c \in Children(n)}
                ELSE {Of(n, gcycle[n])}

(* Slips: the node signals itself whatever it sends, or never.             *)
SelfSignalledAlways(n, d) == TRUE
SelfSignalledNever(n, d) == FALSE

(* A neighbor elsewhere gets a copy, and nothing is awaited for it.        *)
SelfSignalled(n, d) == ~IsLocal(n, Nbr[n][d])

(* grid::get_gravity_boundary with its semaphore.                          *)
GravityBoundary(n, d, data) ==
  [cycle |-> gcycle[n], data |-> data,
   signal |-> IF IsLocal(n, Nbr[n][d]) THEN <<n, d>> ELSE NoSignal]

(* The children's multipoles are gathered; the node's own go up and its    *)
(* boundaries to the neighbors.                                            *)
Upward(n) ==
  /\ pc[n] = "gather"
  /\ \E arrived \in [Children(n) -> UNION {child[c] : c \in Children(n)}] :
       /\ \A c \in Children(n) : arrived[c] \in child[c]
       /\ LET mine == Multipoles(n, arrived)
          IN /\ poles' = [poles EXCEPT ![n] = mine]
             /\ child' = [c \in Node |->
                  IF c \in Children(n) THEN child[c] \ {arrived[c]}
                  ELSE IF c = n /\ n # Root THEN child[c] \cup {mine}
                  ELSE child[c]]
             /\ neighbor' = [m \in Node |-> [d \in Dir |->
                  IF Nbr[n][Flip[d]] = m /\ ~AOnly(gcycle[n])
                  THEN neighbor[m][d] \cup {GravityBoundary(n, Flip[d], mine)}
                  ELSE neighbor[m][d]]]
  /\ signals' = [signals EXCEPT ![n] = [d \in Dir |->
       IF d \in Sides(n) /\ SelfSignalled(n, d) /\ ~AOnly(gcycle[n])
       THEN @[d] + 1 ELSE @[d]]]
  /\ pc' = [pc EXCEPT ![n] = "collect"]
  /\ UNCHANGED <<gcycle, parent, held, field>>

(* What unordered_channel yields for a cycle.                              *)
Boundaries(S, k) == {w \in S : w.cycle = k}

(* All neighbors' boundaries are awaited, in every solve.                  *)
Collect(n) ==
  /\ pc[n] = "collect"
  /\ \A d \in Sides(n) : Boundaries(neighbor[n][d], gcycle[n]) # {}
  /\ LET taken == UNION {Boundaries(neighbor[n][d], gcycle[n]) : d \in Sides(n)}
     IN /\ held' = [held EXCEPT ![n] = taken]
        /\ neighbor' = [neighbor EXCEPT ![n] = [d \in Dir |-> @[d] \ taken]]
  /\ pc' = [pc EXCEPT ![n] = "interact"]
  /\ UNCHANGED <<gcycle, signals, child, parent, poles, field>>

(* The interactions with all that is held, whichever kernels compute them. *)
Interactions(n) == poles[n] \cup UNION {w.data : w \in held[n]}

(* Each shared boundary is given back to its sender.                       *)
Interact(n) ==
  /\ pc[n] = "interact"
  /\ field' = [field EXCEPT ![n] = Interactions(n)]
  /\ signals' = [m \in Node |-> [d \in Dir |->
       IF \E w \in held[n] : w.signal = <<m, d>> THEN signals[m][d] + 1
                                                 ELSE signals[m][d]]]
  /\ held' = [held EXCEPT ![n] = {}]
  /\ pc' = [pc EXCEPT ![n] = "expand"]
  /\ UNCHANGED <<gcycle, neighbor, child, parent, poles>>

(* The parent's expansions are added, grid::compute_expansions, and sent   *)
(* on to the children.                                                     *)
Expand(n) ==
  /\ pc[n] = "expand"
  /\ \E arrived \in IF n = Root THEN {{}} ELSE parent[n] :
       LET mine == field[n] \cup arrived
       IN /\ field' = [field EXCEPT ![n] = mine]
          /\ parent' = [m \in Node |->
               IF m \in Children(n) THEN parent[m] \cup {mine}
               ELSE IF m = n /\ n # Root THEN parent[m] \ {arrived}
               ELSE parent[m]]
  /\ gcycle' = [gcycle EXCEPT ![n] = @ + 1]
  /\ pc' = [pc EXCEPT ![n] = "idle"]
  /\ UNCHANGED <<signals, neighbor, child, poles, held>>

Next == \E n \in Node : \/ Wait(n) \/ Upward(n) \/ Collect(n)
                        \/ Interact(n) \/ Expand(n)

Spec == Init /\ [][Next]_vars

(* As long as some node has what it waits for, HPX runs one.  Every step   *)
(* is progress: no stronger fairness is needed.                            *)
FairSpec == Spec /\ WF_vars(Next)

-----------------------------------------------------------------------------
(* A solve is made of nothing but itself: multipoles of all the leaves     *)
(* below, boundaries and expansions of the same solve and the same         *)
(* gsolve_type, although two kinds of channel, one of them by arrival,     *)
(* bring them.                                                             *)
FieldOfThisSolve ==
  \A n \in Node : pc[n] = "idle" /\ gcycle[n] > 0 =>
    field[n] \subseteq {Of(n, gcycle[n] - 1)}

(* At most one boundary shared with a neighbor of the same locality is     *)
(* alive, and at most two copies wait for a node elsewhere: that is what   *)
(* the semaphores keep bounded.                                            *)
AliveBoundaries ==
  \A n \in Node : \A d \in Sides(n) :
    LET from == <<Nbr[n][d], Flip[d]>>
    IN /\ \A b1, b2 \in neighbor[n][d] \cup held[n] :
            b1.signal = from /\ b2.signal = from => b1 = b2
       /\ \A b1, b2 \in neighbor[n][d] : b1.cycle - b2.cycle \in -1..1

(* The channels that number values by arrival never hold two, so that the  *)
(* order of arrival cannot matter.                                         *)
OneArrival ==
  \A n \in Node : /\ \A v1, v2 \in child[n] : v1 = v2
                  /\ \A v1, v2 \in parent[n] : v1 = v2

(* Whenever all nodes are between the same two solves every semaphore is   *)
(* at one and every channel empty: as initialize() leaves a node that      *)
(* regrid has moved to another locality.                                   *)
SignalsAtRest ==
  (\A n \in Node : pc[n] = "idle" /\ gcycle[n] = gcycle[Root]) =>
    \A n \in Node : /\ child[n] = {} /\ parent[n] = {}
                    /\ \A d \in Dir : signals[n][d] = 1 /\ neighbor[n][d] = {}

(* No circle of waits: every node completes all its solves.                *)
AllSolved == <>[](\A n \in Node : pc[n] = "idle" /\ gcycle[n] = Solves)

(* With an output file named the program writes it and ends; before that,  *)
(* regrid has to solve gravity.                                            *)
OutputReached == Output => <>(\A n \in Node : gcycle[n] > 0)
=============================================================================
