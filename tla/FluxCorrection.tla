--------------------------- MODULE FluxCorrection ---------------------------
(***************************************************************************)
(* exchange_flux_corrections of node_server, on top of the boundary        *)
(* exchange: before a leaf advances its cells in a Runge-Kutta stage, it   *)
(* sends the fluxes through its faces to the coarser leaf beyond (its      *)
(* aunt), and replaces its own fluxes by those of finer leaves beyond      *)
(* (its nieces).                                                           *)
(*                                                                         *)
(* Unlike the boundaries, the fluxes travel through channels that number   *)
(* values by order of arrival.  A call on its way and a value stored are   *)
(* therefore kept apart, and calls may overtake one another.  The fluxes   *)
(* themselves are abstracted to the stage they were computed in.           *)
(***************************************************************************)
EXTENDS HydroBounds

CONSTANT Face   \* the directions that are faces

(* face_subset: the children on one side of a node, whose neighbor on that *)
(* side is not a sibling.                                                  *)
FaceSubset(p, f) == {c \in Children(p) : Nbr[c][f] \notin Children(p)}

(* nieces[f] = +1 and aunts, as form_tree leaves them: a leaf makes itself *)
(* the aunt of the children that face it in a refined neighbor.            *)
Nieces ==
  [a \in Node |-> [f \in Face |->
     IF Refined(a) \/ Nbr[a][f] = NoNode THEN {}
     ELSE FaceSubset(Nbr[a][f], Flip[f])]]

(* The tree is graded: no refined node lies beside a coarser leaf.  The    *)
(* node beyond a face is a sibling or a child of the parent's neighbor.    *)
ASSUME FaceAssumption ==
  /\ Face \subseteq Dir
  /\ \A f \in Face : Flip[f] \in Face
  /\ \A a \in Node : \A f \in Face : \A c \in Nieces[a][f] : ~Refined(c)
  /\ \A c \in Node \ {Root} : \A f \in Face :
       Nbr[c][f] # NoNode =>
         /\ Nbr[c][f] # Root
         /\ Parent[Nbr[c][f]] \in {Parent[c], Nbr[Parent[c]][f]}

VARIABLES
  sent,    \* whether a leaf has sent the fluxes of the coming stage
  wire,    \* fluxes on their way, by the sender and its face
  niece    \* niece_hydro_channels of the aunt, by the sender and its face

fluxVars == <<sent, wire, niece>>
allVars == <<vars, fluxVars>>

FluxTypeOK ==
  /\ sent \in [Node -> BOOLEAN]
  /\ wire \in [Node -> [Face -> SUBSET Nat]]
  /\ niece \in [Node -> [Face -> Seq(Nat)]]

FluxInit ==
  /\ Init
  /\ sent = [n \in Node |-> FALSE]
  /\ wire = [n \in Node |-> [f \in Face |-> {}]]
  /\ niece = [n \in Node |-> [f \in Face |-> <<>>]]

-----------------------------------------------------------------------------
(* Whether the next piece of work is a Runge-Kutta stage: neither the start*)
(* of a step, before the first exchange, nor the radiation after the last. *)
FluxDue(n) == (stage[n] % Len(StepOf(n))) + 1 \in 2..(NRK + 1)

(* A slip: the fluxes go to the aunt's channel for the sender's face       *)
(* instead of her own.                                                     *)
SendFluxUnflipped(n) ==
  /\ pc[n] = "work" /\ stage[n] < Stages(n)
  /\ ~Refined(n) /\ FluxDue(n) /\ ~sent[n]
  /\ sent' = [sent EXCEPT ![n] = TRUE]
  /\ wire' = [wire EXCEPT ![n] =
       [f \in Face |-> IF \E a \in Node : n \in Nieces[a][f]
                       THEN @[f] \cup {stage[n] + 1} ELSE @[f]]]
  /\ UNCHANGED <<vars, niece>>

(* A slip: off by one, the leaf begins one stage more than the steps have. *)
SendFluxOnceMore(n) ==
  /\ pc[n] = "work" /\ stage[n] <= Stages(n)
  /\ ~Refined(n) /\ (FluxDue(n) \/ stage[n] = Stages(n)) /\ ~sent[n]
  /\ sent' = [sent EXCEPT ![n] = TRUE]
  /\ wire' = [wire EXCEPT ![n] =
       [f \in Face |-> IF \E a \in Node : n \in Nieces[a][Flip[f]]
                       THEN @[f] \cup {stage[n] + 1} ELSE @[f]]]
  /\ UNCHANGED <<vars, niece>>

(* compute_fluxes and the sends of exchange_flux_corrections.              *)
SendFlux(n) ==
  /\ pc[n] = "work" /\ stage[n] < Stages(n)
  /\ ~Refined(n) /\ FluxDue(n) /\ ~sent[n]
  /\ sent' = [sent EXCEPT ![n] = TRUE]
  /\ wire' = [wire EXCEPT ![n] =
       [f \in Face |-> IF \E a \in Node : n \in Nieces[a][Flip[f]]
                       THEN @[f] \cup {stage[n] + 1} ELSE @[f]]]
  /\ UNCHANGED <<vars, niece>>

(* recv_hydro_flux_correct: a call arrives, in any order.                  *)
RecvFlux(n, f) ==
  \E k \in wire[n][f] :
    /\ wire' = [wire EXCEPT ![n][f] = @ \ {k}]
    /\ niece' = [niece EXCEPT ![n][f] = Append(@, k)]
    /\ UNCHANGED <<vars, sent>>

(* The waits of exchange_flux_corrections, and the leaf's next_u; or any   *)
(* other work before an exchange.                                          *)
Advance(n) ==
  /\ ~Refined(n) /\ FluxDue(n) =>
       /\ sent[n]
       /\ \A f \in Face : \A c \in Nieces[n][Flip[f]] : niece[c][f] # <<>>
  /\ Work(n)
  /\ sent' = [sent EXCEPT ![n] = FALSE]
  /\ niece' = [c \in Node |-> [f \in Face |->
       IF FluxDue(n) /\ c \in Nieces[n][Flip[f]]
       THEN Tail(niece[c][f]) ELSE niece[c][f]]]
  /\ UNCHANGED wire

(* The steps of the boundary exchange itself.                              *)
Exchange(n) == (Interlevel(n) \/ Collect(n)) /\ UNCHANGED fluxVars

FluxNext == \E n \in Node : \/ SendFlux(n) \/ Advance(n) \/ Exchange(n)
                            \/ \E f \in Face : RecvFlux(n, f)

FluxSpec == FluxInit /\ [][FluxNext]_allVars

(* As long as a task is ready or a call on its way, one runs or arrives.   *)
(* With it AllExchanged says that leaves that wait for finer leaves, which *)
(* wait for their parents, which wait for the first leaves again, do not   *)
(* wait in a circle.                                                       *)
FluxFairSpec == FluxSpec /\ WF_allVars(FluxNext)

-----------------------------------------------------------------------------
(* A leaf never replaces its fluxes by those of another stage: whatever its*)
(* nieces have sent belongs to the stage it comes to next, however fast    *)
(* they are and in whatever order the calls arrive.  No number travels with*)
(* the fluxes; it is the boundary exchange that holds the nieces back.     *)
FluxOfThisStage ==
  \A a \in Node : \A f \in Face : \A c \in Nieces[a][Flip[f]] :
    /\ wire[c][f] \subseteq {stage[a] + 1}
    /\ \A i \in 1..Len(niece[c][f]) : niece[c][f][i] = stage[a] + 1

(* There is never more than one flux between a niece and its aunt, on its  *)
(* way or in the channel.                                                  *)
OneFluxAtATime ==
  \A c \in Node : \A f \in Face : Cardinality(wire[c][f]) + Len(niece[c][f]) <= 1

(* When all nodes have done their steps no flux is left over: regrid makes *)
(* new nodes and new aunts, and a flux left over would be taken for one of *)
(* the first stage after it.                                               *)
NoFluxLeftOver ==
  (\A n \in Node : pc[n] = "work" /\ stage[n] = Stages(n)) =>
    \A c \in Node : \A f \in Face : wire[c][f] = {} /\ niece[c][f] = <<>>
=============================================================================
