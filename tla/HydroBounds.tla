---------------------------- MODULE HydroBounds ----------------------------
(***************************************************************************)
(* The exchange of hydro boundaries: all_hydro_bounds and                  *)
(* energy_hydro_bounds of node_server, as refined_step and nonrefined_step *)
(* call them.  In one exchange the fine cells move up the tree (restrict), *)
(* every node swaps boundaries with its neighbors of the same level, and   *)
(* what a neighbor does not provide comes down from the parent (AMR).      *)
(* No barrier separates the exchanges: each node runs through its own, and *)
(* all that keeps them together is hcycle, by which every channel is       *)
(* keyed.                                                                  *)
(*                                                                         *)
(* A channel keyed by cycle yields the value of a cycle whenever it has    *)
(* arrived, so a message in flight and a message stored are one: a channel *)
(* here is the set of what was sent to it and not yet taken.  The contents *)
(* of cells are abstracted to the stages of the step they were computed    *)
(* in.                                                                     *)
(***************************************************************************)
EXTENDS Integers, Sequences, FiniteSets

CONSTANTS
  Node,       \* the nodes of the octree
  Root,       \* the node of level 0
  Parent,     \* the parent of each other node
  Dir,        \* geo::direction
  Flip,       \* direction::flip()
  Nbr,        \* neighbors[dir] of each node
  NoNode,     \* an empty node_client
  NRK,        \* Runge-Kutta stages
  Radiation,  \* opts().radiation
  Steps       \* timesteps taken between two regrids

ChildNodes == [n \in Node |-> {c \in Node \ {Root} : Parent[c] = n}]
Children(n) == ChildNodes[n]
Refined(n) == Children(n) # {}

ASSUME TreeAssumption ==
  /\ Root \in Node /\ NoNode \notin Node
  /\ Parent \in [Node \ {Root} -> Node]
  /\ Flip \in [Dir -> Dir]
  /\ \A d \in Dir : Flip[Flip[d]] = d
  /\ Nbr \in [Node -> [Dir -> Node \cup {NoNode}]]
  /\ \A n \in Node : \A d \in Dir :
       Nbr[n][d] # NoNode => Nbr[Nbr[n][d]][Flip[d]] = n

ASSUME StepAssumption ==
  /\ NRK \in Nat \ {0} /\ Steps \in Nat
  /\ Radiation \in BOOLEAN

(* The exchanges of one timestep, TRUE where only the energy is exchanged, *)
(* first as refined_step, then as nonrefined_step calls them.              *)
RefinedStep == <<FALSE>> \o [rk \in 1..NRK |-> rk = NRK]
                         \o (IF Radiation THEN <<FALSE>> ELSE <<>>)
(* A slip: the leaves exchange all fields after the last stage too.        *)
NonrefinedStepAll == <<FALSE>> \o [rk \in 1..NRK |-> FALSE]
                               \o (IF Radiation THEN <<FALSE>> ELSE <<>>)

NonrefinedStep == <<FALSE>> \o [rk \in 1..NRK |-> rk = NRK]
                            \o (IF Radiation THEN <<FALSE>> ELSE <<>>)

StepOf(n) == IF Refined(n) THEN RefinedStep ELSE NonrefinedStep
Stages(n) == Steps * Len(StepOf(n))

VARIABLES
  pc,        \* "work" between exchanges, else where in an exchange
  stage,     \* how many pieces of work a node has begun
  hcycle,    \* the key of its next exchange
  cells,     \* the stages its own cells come from
  ghost,     \* the stages the cells around it come from
  child,     \* child_hydro_channels at the parent, by child
  sibling    \* sibling_hydro_channels of a node, by direction

vars == <<pc, stage, hcycle, cells, ghost, child, sibling>>

(* `from` is a ghost: it tells the values of two senders apart.            *)
Msg == [cycle : Nat, data : SUBSET Nat, energy : BOOLEAN, from : Node]

TypeOK ==
  /\ pc \in [Node -> {"work", "restrict", "collect"}]
  /\ stage \in [Node -> Nat]
  /\ hcycle \in [Node -> Nat]
  /\ cells \in [Node -> SUBSET Nat]
  /\ ghost \in [Node -> SUBSET Nat]
  /\ child \in [Node -> SUBSET Msg]
  /\ sibling \in [Node -> [Dir -> SUBSET Msg]]

Init ==
  /\ pc = [n \in Node |-> "work"]
  /\ stage = [n \in Node |-> 0]
  /\ hcycle = [n \in Node |-> 0]
  /\ cells = [n \in Node |-> {0}]
  /\ ghost = [n \in Node |-> {0}]
  /\ child = [n \in Node |-> {}]
  /\ sibling = [n \in Node |-> [d \in Dir |-> {}]]

-----------------------------------------------------------------------------
(* energy_only in the exchange that node n has come to.                    *)
Energy(n) == StepOf(n)[((stage[n] - 1) % Len(StepOf(n))) + 1]

(* A slip: a channel in order of arrival in place of an unordered_channel. *)
MsgsOfAnyCycle(S, k) == S

(* What unordered_channel yields for a cycle.                              *)
Msgs(S, k) == {m \in S : m.cycle = k}

(* What the node does before its next exchange: a leaf updates its cells.  *)
Work(n) ==
  /\ pc[n] = "work"
  /\ stage[n] < Stages(n)
  /\ stage' = [stage EXCEPT ![n] = @ + 1]
  /\ cells' = IF Refined(n) THEN cells
              ELSE [cells EXCEPT ![n] = {stage[n] + 1}]
  /\ pc' = [pc EXCEPT ![n] = "restrict"]
  /\ UNCHANGED <<hcycle, ghost, child, sibling>>

(* A slip: what the children sent is read and left in the channel.         *)
InterlevelKept(n) ==
  /\ pc[n] = "restrict"
  /\ \A c \in Children(n) : Msgs(child[c], hcycle[n]) # {}
  /\ LET taken == UNION {Msgs(child[c], hcycle[n]) : c \in Children(n)}
         own == IF Refined(n) THEN UNION {m.data : m \in taken} ELSE cells[n]
         msg == [cycle |-> hcycle[n], data |-> own, energy |-> Energy(n),
                 from |-> n]
     IN /\ cells' = [cells EXCEPT ![n] = own]
        /\ child' = [c \in Node |->
             IF c = n /\ n # Root
             THEN child[c] \cup {[msg EXCEPT !.energy = FALSE]}
             ELSE child[c]]
        /\ sibling' = [m \in Node |-> [d \in Dir |->
             IF Nbr[n][Flip[d]] = m THEN sibling[m][d] \cup {msg}
                                    ELSE sibling[m][d]]]
  /\ pc' = [pc EXCEPT ![n] = "collect"]
  /\ UNCHANGED <<stage, hcycle, ghost>>

(* exchange_interlevel_hydro_data and the sends of                         *)
(* collect_hydro_boundaries: a refined node first waits for its children.  *)
Interlevel(n) ==
  /\ pc[n] = "restrict"
  /\ \A c \in Children(n) : Msgs(child[c], hcycle[n]) # {}
  /\ LET taken == UNION {Msgs(child[c], hcycle[n]) : c \in Children(n)}
         own == IF Refined(n) THEN UNION {m.data : m \in taken} ELSE cells[n]
         msg == [cycle |-> hcycle[n], data |-> own, energy |-> Energy(n),
                 from |-> n]
     IN /\ cells' = [cells EXCEPT ![n] = own]
        /\ child' = [c \in Node |->
             IF c \in Children(n) THEN child[c] \ taken
             ELSE IF c = n /\ n # Root
                  THEN child[c] \cup {[msg EXCEPT !.energy = FALSE]}
                  ELSE child[c]]
        /\ sibling' = [m \in Node |-> [d \in Dir |->
             IF Nbr[n][Flip[d]] = m THEN sibling[m][d] \cup {msg}
                                    ELSE sibling[m][d]]]
  /\ pc' = [pc EXCEPT ![n] = "collect"]
  /\ UNCHANGED <<stage, hcycle, ghost>>

(* A slip: the futures are taken out but not waited for.                   *)
AwaitedNone(n) == {}

(* The directions a node waits for: all but the sides of the root.         *)
Awaited(n) == {d \in Dir : ~(Nbr[n][d] = NoNode /\ n = Root)}

(* A slip: a side on the boundary of the whole domain is left out.         *)
AmrFlagInside(c, d) == c # Root /\ Nbr[c][d] = NoNode /\ Nbr[Parent[c]][d] # NoNode

(* amr_flags: a child's side where form_tree found no neighbor.            *)
AmrFlag(c, d) == c # Root /\ Nbr[c][d] = NoNode

(* The waits of collect_hydro_boundaries, send_hydro_amr_boundaries, which *)
(* sends cells and surroundings of a refined node, and ++hcycle.           *)
Collect(n) ==
  /\ pc[n] = "collect"
  /\ \A d \in Awaited(n) : Msgs(sibling[n][d], hcycle[n]) # {}
  /\ LET taken == UNION {Msgs(sibling[n][d], hcycle[n]) : d \in Awaited(n)}
         around == UNION {m.data : m \in taken}
         msg == [cycle |-> hcycle[n], data |-> cells[n] \cup around,
                 energy |-> Energy(n), from |-> n]
     IN /\ ghost' = [ghost EXCEPT ![n] = around]
        /\ sibling' = [m \in Node |-> [d \in Dir |->
             IF m = n THEN sibling[m][d] \ taken
             ELSE IF m \in Children(n) /\ AmrFlag(m, d)
                  THEN sibling[m][d] \cup {msg}
                  ELSE sibling[m][d]]]
  /\ hcycle' = [hcycle EXCEPT ![n] = @ + 1]
  /\ pc' = [pc EXCEPT ![n] = "work"]
  /\ UNCHANGED <<stage, cells, child>>

Next == \E n \in Node : Work(n) \/ Interlevel(n) \/ Collect(n)

Spec == Init /\ [][Next]_vars

-----------------------------------------------------------------------------
(* After an exchange the cells of a node and all cells around it are of    *)
(* the stage the node is in, whether they came from a neighbor, from the   *)
(* parent or, on a refined node, from its children: nobody computes with a *)
(* boundary of a former or a later stage.                                  *)
FreshBoundaries ==
  \A n \in Node : pc[n] = "work" =>
    cells[n] \subseteq {stage[n]} /\ ghost[n] \subseteq {stage[n]}

(* A boundary packed for the energy alone has another size: sender and     *)
(* receiver agree on energy_only for each cycle, though each decides it    *)
(* from its own place in its own step.                                     *)
EnergyAgreed ==
  \A n \in Node : \A d \in Dir : pc[n] = "collect" =>
    \A m \in Msgs(sibling[n][d], hcycle[n]) : m.energy = Energy(n)

(* receive_buffer holds one value per cycle: nobody sends two values for   *)
(* the same cycle and channel, the neighbor and the parent do not both     *)
(* serve one direction.                                                    *)
OneValuePerCycle ==
  \A n \in Node :
    /\ \A m1, m2 \in child[n] : m1.cycle = m2.cycle => m1 = m2
    /\ \A d \in Dir : \A m1, m2 \in sibling[n][d] : m1.cycle = m2.cycle => m1 = m2

(* Neighbors of one level are never more than one exchange apart, and a    *)
(* parent is at most one ahead of its children (children may run ahead of  *)
(* their parent): so a channel between neighbors holds values of two cycles *)
(* at most.                                                                *)
BoundedSkew ==
  /\ \A n \in Node : \A d \in Dir :
       Nbr[n][d] # NoNode =>
         /\ hcycle[n] <= hcycle[Nbr[n][d]] + 1
         /\ \A m \in sibling[n][d] : m.cycle - hcycle[n] \in {0, 1}
  /\ \A c \in Node \ {Root} : hcycle[Parent[c]] <= hcycle[c] + 1

(* When all nodes have done their steps every channel is empty and every   *)
(* hcycle the same, which is what regrid assumes when it copies a node     *)
(* without its channels and gives a new child its parent's hcycle.         *)
DrainedAtEnd ==
  (\A n \in Node : pc[n] = "work" /\ stage[n] = Stages(n)) =>
    \A n \in Node : /\ hcycle[n] = hcycle[Root]
                    /\ child[n] = {} /\ \A d \in Dir : sibling[n][d] = {}

(* No circle of waits: every node completes all its exchanges.             *)
AllExchanged == <>[](\A n \in Node : pc[n] = "work" /\ stage[n] = Stages(n))
=============================================================================
