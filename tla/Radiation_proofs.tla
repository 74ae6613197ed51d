-------------------------- MODULE Radiation_proofs --------------------------
(***************************************************************************)
(* Proofs about module Radiation, for every octree with mutual neighbors,  *)
(* every agreement on timesteps and every number of stages.                *)
(*                                                                         *)
(* The boundaries are kept apart by their keys.  The fluxes carry none:    *)
(* that they fall into the right stage needs that all nodes find the same  *)
(* stages in the same place, however many a timestep has, and that the     *)
(* boundary exchange holds back a niece until her aunt has caught up.      *)
(***************************************************************************)
EXTENDS Radiation, FiniteSetTheorems, SequenceTheorems, TLAPS

RadTypeOK ==
  /\ pc \in [Node -> {"hydro", "restrict", "collect", "flux", "advance"}]
  /\ step \in [Node -> Nat] /\ rk \in [Node -> Nat]
  /\ stage \in [Node -> Nat] /\ rcycle \in [Node -> Nat]
  /\ cells \in [Node -> SUBSET Int] /\ ghost \in [Node -> SUBSET Int]
  /\ child \in [Node -> SUBSET Msg]
  /\ sibling \in [Node -> [Dir -> SUBSET Msg]]
  /\ wire \in [Node -> [Face -> SUBSET Nat]]
  /\ niece \in [Node -> [Face -> Seq(Nat)]]

(* Whether a flux stage follows after r stages of timestep s.              *)
More(s, r) == s # 0 /\ r < NRK * AtLeastOne(CeilDiv(dts[s], CellTime(MaxLevel)))

FluxDue(n) == More(step[n], rk[n])

(* The exchanges for which a node has sent its own cells.                  *)
Sent(n) == IF pc[n] = "collect" THEN rcycle[n] + 1 ELSE rcycle[n]

(* The exchanges served so far in direction d of node n, by the neighbor   *)
(* or else by the parent.                                                  *)
Served(n, d) == IF Nbr[n][d] # NoNode THEN Sent(Nbr[n][d])
                ELSE IF n # Root THEN rcycle[Parent[n]] ELSE 0

(* Where a node is follows from its counters; what a refined node computed *)
(* itself stays in its cells until its children's values replace it.       *)
StageInv ==
  \A n \in Node :
    /\ stage[n] = IF pc[n] \in {"restrict", "collect"} THEN rcycle[n] + 1 ELSE rcycle[n]
    /\ pc[n] \in {"collect", "flux", "advance"} => cells[n] = {stage[n]}
    /\ pc[n] = "restrict" /\ ~Refined(n) => cells[n] = {stage[n]}
    /\ pc[n] \in {"flux", "advance"} => ghost[n] \subseteq {stage[n]} /\ FluxDue(n)
    /\ pc[n] = "hydro" => ~FluxDue(n)
    /\ pc[n] # "hydro" => step[n] # 0

(* Nobody has received what was not sent.                                  *)
WaitInv ==
  /\ \A n \in Node : \A d \in Awaited(n) : rcycle[n] <= Served(n, d)
  /\ \A c \in Node \ {Root} : Sent(Parent[c]) <= Sent(c)

(* A channel holds only exchanges sent and not yet taken, made of cells of *)
(* their own stage.                                                        *)
ChildInv ==
  \A c \in Node : \A m \in child[c] :
    /\ c # Root
    /\ Sent(Parent[c]) <= m.cycle /\ m.cycle < Sent(c)
    /\ m.data = {m.cycle + 1}

SiblingInv ==
  \A n \in Node : \A d \in Dir : \A m \in sibling[n][d] :
    /\ rcycle[n] <= m.cycle /\ m.cycle < Served(n, d)
    /\ m.data \subseteq {m.cycle + 1}

ExchangeInv == StageInv /\ WaitInv /\ ChildInv /\ SiblingInv

(* S and R say at which timestep and after how many of its stages each     *)
(* stage comes, up to the last that any node has reached.                  *)
Timeline(S, R) ==
  /\ \A n \in Node : step[n] = S[stage[n]] /\ rk[n] = R[stage[n]]
  /\ \A n \in Node : \A k \in 0..(stage[n] - 1) :
       IF More(S[k], R[k]) THEN S[k + 1] = S[k] /\ R[k + 1] = R[k] + 1
                           ELSE S[k + 1] = S[k] + 1 /\ R[k + 1] = 0
  /\ \A n \in Node : \A j, k \in 0..stage[n] : j <= k => S[j] <= S[k]

(* The fluxes of all stages before this one are computed.                  *)
Fluxed(n) == IF pc[n] = "advance" THEN stage[n] + 1 ELSE stage[n]

(* An aunt has come through no stage before her nieces' fluxes for it.     *)
Corrected(S, R, a, c) == \A k \in 0..(stage[a] - 1) : More(S[k], R[k]) => k < Fluxed(c)

TimelineInv ==
  \E S, R \in [Nat -> Nat] :
    /\ Timeline(S, R)
    /\ \A a \in Node : \A f \in Face : \A c \in Nieces(a, Flip[f]) : Corrected(S, R, a, c)

(* Between niece c and aunt a there is nothing, or the flux of the stage   *)
(* the aunt is in.                                                         *)
Between(a, c, f) ==
  \/ wire[c][f] = {} /\ niece[c][f] = <<>>
  \/ /\ FluxDue(a) /\ stage[a] < Fluxed(c)
     /\ \/ wire[c][f] = {stage[a]} /\ niece[c][f] = <<>>
        \/ wire[c][f] = {} /\ niece[c][f] = <<stage[a]>>

FluxInv ==
  /\ \A a \in Node : \A f \in Face : \A c \in Nieces(a, Flip[f]) : Between(a, c, f)
  /\ \A c \in Node : \A f \in Face : ~HasAunt(c, f) => wire[c][f] = {} /\ niece[c][f] = <<>>

RadInv == RadTypeOK /\ ExchangeInv /\ TimelineInv /\ FluxInv

-----------------------------------------------------------------------------
(* The tree and its neighbor relation as the proofs use them: whoever      *)
(* serves a direction is found by turning it round.                        *)
LEMMA TreeFacts ==
  /\ Root \in Node /\ NoNode \notin Node
  /\ \A c \in Node \ {Root} : Parent[c] \in Node /\ c \in Children(Parent[c])
  /\ \A n \in Node : \A c \in Children(n) : c \in Node \ {Root} /\ Parent[c] = n
  /\ \A n \in Node : \A d \in Dir :
       /\ Flip[d] \in Dir
       /\ Nbr[n][d] # NoNode => Nbr[n][d] \in Node
       /\ \A m \in Node : Nbr[n][Flip[d]] = m => Nbr[m][d] = n
BY RadiationAssumption, NeighborAssumption DEF Children, ChildNodes

LEMMA Counters ==
  ASSUME RadTypeOK
  PROVE  \A n \in Node :
           /\ step[n] \in Nat /\ rk[n] \in Nat /\ stage[n] \in Nat /\ rcycle[n] \in Nat
           /\ Sent(n) \in Nat /\ rcycle[n] <= Sent(n) /\ Sent(n) <= rcycle[n] + 1
<1>1. \A n \in Node :
        step[n] \in Nat /\ rk[n] \in Nat /\ stage[n] \in Nat /\ rcycle[n] \in Nat
  BY DEF RadTypeOK
<1> QED
  BY <1>1 DEF Sent

(* The aunt beyond a face is the one neighbor of the parent there, and the *)
(* niece itself has no neighbor on that side.                              *)
LEMMA AuntFacts ==
  ASSUME NEW a \in Node, NEW f \in Face, NEW c \in Nieces(a, Flip[f])
  PROVE  /\ c \in Node \ {Root} /\ HasAunt(c, f)
         /\ Parent[c] \in Node /\ f \in Dir /\ Flip[f] \in Face
         /\ Nbr[Parent[c]][f] = a /\ a # NoNode
         /\ Nbr[c][f] = NoNode
<1> DEFINE P == Nbr[a][Flip[f]]
<1>1. f \in Dir /\ Flip[f] \in Face /\ Flip[f] \in Dir /\ Flip[Flip[f]] = f
  BY NeighborAssumption
<1>2. ~Refined(a) /\ P # NoNode /\ c \in Children(P) /\ Nbr[c][f] \notin Children(P)
  BY <1>1 DEF Nieces
<1>3. P \in Node
  BY <1>1, <1>2, TreeFacts
<1>4. c \in Node \ {Root} /\ Parent[c] = P
  BY <1>2, <1>3, TreeFacts
<1>5. Nbr[P][f] = a
  BY <1>1, <1>3, TreeFacts
<1>6. ASSUME Nbr[c][f] # NoNode PROVE FALSE
  <2>1. Nbr[c][f] \in Node /\ Nbr[c][f] # Root /\ Parent[Nbr[c][f]] \in {P, a}
    BY <1>1, <1>4, <1>5, <1>6, TreeFacts, NeighborAssumption
  <2>2. CASE Parent[Nbr[c][f]] = P
    BY <1>2, <1>3, <2>1, <2>2, TreeFacts
  <2>3. CASE Parent[Nbr[c][f]] = a
    BY <1>2, <2>1, <2>3, TreeFacts DEF Refined
  <2> QED
    BY <2>1, <2>2, <2>3
<1> QED
  BY <1>1, <1>3, <1>4, <1>5, <1>6, TreeFacts DEF HasAunt

(* The boundary exchange holds the nieces back: a niece that is about to   *)
(* compute fluxes has begun no more stages than her aunt.                  *)
LEMMA HeldBack ==
  ASSUME RadTypeOK, ExchangeInv, NEW a \in Node, NEW f \in Face,
         NEW c \in Nieces(a, Flip[f]), pc[c] = "flux"
  PROVE  stage[c] <= stage[a]
<1>1. /\ c \in Node /\ c # Root /\ Parent[c] \in Node /\ f \in Dir
      /\ Nbr[Parent[c]][f] = a /\ a # NoNode /\ Nbr[c][f] = NoNode
  BY AuntFacts
<1>2. f \in Awaited(c) /\ f \in Awaited(Parent[c])
  BY <1>1 DEF Awaited
<1>3. rcycle[c] <= rcycle[Parent[c]] /\ rcycle[Parent[c]] <= Sent(a)
  BY <1>1, <1>2 DEF ExchangeInv, WaitInv, Served
<1>4. stage[c] = rcycle[c] /\ Sent(a) <= stage[a]
  BY <1>1, Counters DEF ExchangeInv, StageInv, Sent
<1>5. /\ rcycle[c] \in Nat /\ rcycle[Parent[c]] \in Nat /\ rcycle[a] \in Nat
      /\ stage[a] \in Nat /\ Sent(a) \in Nat
  BY <1>1, Counters
<1> QED
  BY <1>3, <1>4, <1>5

(* Two nodes in the same stage are at the same place of the same timestep. *)
LEMMA SamePlace ==
  ASSUME TimelineInv, NEW m \in Node, NEW n \in Node, stage[m] = stage[n]
  PROVE  FluxDue(m) <=> FluxDue(n)
BY DEF TimelineInv, Timeline, FluxDue

-----------------------------------------------------------------------------
(* No channel is disturbed by a step that neither sends nor takes          *)
(* boundaries.                                                             *)
LEMMA ComputingKeepsChannels ==
  ASSUME RadTypeOK, ExchangeInv, UNCHANGED exchangeVars,
         \A n \in Node : pc'[n] = "collect" <=> pc[n] = "collect"
  PROVE  WaitInv' /\ ChildInv' /\ SiblingInv'
<1> USE DEF exchangeVars
<1>1. \A n \in Node : Sent(n)' = Sent(n)
  BY DEF Sent
<1>2. \A n \in Node : \A d \in Dir : Served(n, d)' = Served(n, d)
  BY <1>1, TreeFacts DEF Served
<1> QED
  BY <1>1, <1>2, TreeFacts DEF ExchangeInv, WaitInv, ChildInv, SiblingInv, Awaited

(* Nor do the fluxes change in one that neither computes nor corrects.     *)
LEMMA FluxesKept ==
  ASSUME FluxInv, UNCHANGED <<stage, wire, niece>>,
         \A m \in Node : (FluxDue(m)' <=> FluxDue(m)) /\ Fluxed(m)' = Fluxed(m)
  PROVE  FluxInv'
<1>1. ASSUME NEW a \in Node, NEW f \in Face, NEW c \in Nieces(a, Flip[f])
      PROVE  Between(a, c, f)'
  <2>1. c \in Node /\ Between(a, c, f)
    BY AuntFacts DEF FluxInv
  <2> QED
    BY <2>1 DEF Between
<1>2. ASSUME NEW c \in Node, NEW f \in Face, ~HasAunt(c, f)
      PROVE  wire'[c][f] = {} /\ niece'[c][f] = <<>>
  BY <1>2 DEF FluxInv
<1> QED
  BY <1>1, <1>2 DEF FluxInv

(* What the channels hold are messages with a key.                         *)
LEMMA Keys ==
  ASSUME RadTypeOK
  PROVE  /\ \A c \in Node : \A m \in child[c] : m.cycle \in Nat
         /\ \A n \in Node : \A d \in Dir : \A m \in sibling[n][d] : m.cycle \in Nat
<1>1. \A m \in Msg : m.cycle \in Nat
  BY DEF Msg
<1>2. /\ \A c \in Node : child[c] \subseteq Msg
      /\ \A n \in Node : \A d \in Dir : sibling[n][d] \subseteq Msg
  BY DEF RadTypeOK
<1> QED
  BY ONLY <1>1, <1>2

(* The timeline grows by one stage when a node begins the next.            *)
LEMMA TimelineGrows ==
  ASSUME RadTypeOK, NEW S \in [Nat -> Nat], NEW R \in [Nat -> Nat], Timeline(S, R),
         NEW n \in Node, dts' = dts,
         stage' = [stage EXCEPT ![n] = @ + 1],
         \A m \in Node \ {n} : step'[m] = step[m] /\ rk'[m] = rk[m],
         IF FluxDue(n) THEN step'[n] = step[n] /\ rk'[n] = rk[n] + 1
                       ELSE step'[n] = step[n] + 1 /\ rk'[n] = 0
  PROVE  \E T, Q \in [Nat -> Nat] :
           /\ Timeline(T, Q)'
           /\ \A m \in Node : \A k \in 0..stage[m] : T[k] = S[k] /\ Q[k] = R[k]
           /\ \A k \in 0..stage[n] : T[k] = S[k] /\ Q[k] = R[k]
<1> DEFINE k0 == stage[n]
           s1 == IF FluxDue(n) THEN step[n] ELSE step[n] + 1
           r1 == IF FluxDue(n) THEN rk[n] + 1 ELSE 0
<1>0. /\ \A m \in Node : stage[m] \in Nat /\ step[m] \in Nat /\ rk[m] \in Nat
      /\ stage'[n] = k0 + 1 /\ \A m \in Node : m # n => stage'[m] = stage[m]
  BY Counters DEF RadTypeOK
<1>1. /\ k0 \in Nat /\ k0 + 1 \in Nat /\ s1 \in Nat /\ r1 \in Nat
      /\ step'[n] = s1 /\ rk'[n] = r1 /\ stage'[n] = k0 + 1
      /\ S[k0] = step[n] /\ R[k0] = rk[n] /\ s1 >= S[k0]
      /\ \A m \in Node : stage[m] \in Nat
      /\ \A m \in Node : m # n => stage'[m] = stage[m]
  BY <1>0 DEF Timeline
<1>a. PICK T \in [Nat -> Nat], Q \in [Nat -> Nat] :
        T = [S EXCEPT ![k0 + 1] = s1] /\ Q = [R EXCEPT ![k0 + 1] = r1]
  BY <1>1
<1>2. T \in [Nat -> Nat] /\ Q \in [Nat -> Nat]
  OBVIOUS
<1>3. /\ T[k0 + 1] = s1 /\ Q[k0 + 1] = r1
      /\ \A k \in Nat : k # k0 + 1 => T[k] = S[k] /\ Q[k] = R[k]
  BY <1>1, <1>a
<1>4. More(S[k0], R[k0]) <=> FluxDue(n)
  BY <1>1 DEF FluxDue
<1>5. ASSUME NEW m \in Node, k0 + 1 <= stage[m]
      PROVE  S[k0 + 1] = s1 /\ R[k0 + 1] = r1
  <2>1. k0 \in 0..(stage[m] - 1)
    BY <1>1, <1>5
  <2> QED
    BY <2>1, <1>1, <1>4 DEF Timeline
<1>6. \A m \in Node : \A k \in 0..stage[m] : T[k] = S[k] /\ Q[k] = R[k]
  <2> SUFFICES ASSUME NEW m \in Node, NEW k \in 0..stage[m] PROVE T[k] = S[k] /\ Q[k] = R[k]
    OBVIOUS
  <2>1. CASE k = k0 + 1
    BY <1>1, <1>3, <1>5, <2>1
  <2>2. CASE k # k0 + 1
    BY <1>1, <1>3, <2>2
  <2> QED
    BY <2>1, <2>2
<1> HIDE DEF s1, r1, k0
<1>7. \A m \in Node : step'[m] = T[stage'[m]] /\ rk'[m] = Q[stage'[m]]
  <2> SUFFICES ASSUME NEW m \in Node PROVE step'[m] = T[stage'[m]] /\ rk'[m] = Q[stage'[m]]
    OBVIOUS
  <2>1. CASE m = n
    BY <1>1, <1>3, <2>1
  <2>2. CASE m # n
    <3>1. stage[m] \in 0..stage[m]
      BY <1>1
    <3> QED
      BY <1>1, <1>6, <2>2, <3>1 DEF Timeline
  <2> QED
    BY <2>1, <2>2
<1>8. \A s, r : More(s, r)' <=> More(s, r)
  BY DEF More, CeilDiv, AtLeastOne, CellTime
<1>9. \A m \in Node : \A k \in 0..(stage'[m] - 1) :
        IF More(T[k], Q[k]) THEN T[k + 1] = T[k] /\ Q[k + 1] = Q[k] + 1
                            ELSE T[k + 1] = T[k] + 1 /\ Q[k + 1] = 0
  <2> SUFFICES ASSUME NEW m \in Node, NEW k \in 0..(stage'[m] - 1)
               PROVE  IF More(T[k], Q[k]) THEN T[k + 1] = T[k] /\ Q[k + 1] = Q[k] + 1
                                          ELSE T[k + 1] = T[k] + 1 /\ Q[k + 1] = 0
    OBVIOUS
  <2>1. CASE k + 1 <= stage[m]
    <3>1. k \in 0..(stage[m] - 1) /\ k \in 0..stage[m] /\ k + 1 \in 0..stage[m]
      BY <1>1, <2>1
    <3> QED
      BY <3>1, <1>6 DEF Timeline
  <2>2. CASE ~(k + 1 <= stage[m])
    <3>0. m = n
      BY <1>1, <2>2
    <3>1. m = n /\ k = k0 /\ k \in 0..stage[n]
      <4>1. stage'[m] = k0 + 1 /\ stage[m] = k0 /\ k0 \in Nat /\ stage[n] = k0
        BY <3>0, <1>1 DEF k0
      <4>2. k \in 0..k0 /\ ~(k + 1 <= k0)
        BY <4>1, <2>2
      <4>3. k = k0
        BY <4>1, <4>2
      <4> QED
        BY <3>0, <4>1, <4>2, <4>3
    <3>2. T[k] = S[k0] /\ Q[k] = R[k0]
      BY <3>1, <1>6
    <3>3. T[k + 1] = s1 /\ Q[k + 1] = r1
      BY <3>1, <1>3
    <3> QED
      BY <3>2, <3>3, <1>1, <1>4 DEF s1, r1
  <2> QED
    BY <2>1, <2>2
<1>10. \A m \in Node : \A j, k \in 0..stage'[m] : j <= k => T[j] <= T[k]
  <2> SUFFICES ASSUME NEW m \in Node, NEW j \in 0..stage'[m], NEW k \in 0..stage'[m], j <= k
               PROVE  T[j] <= T[k]
    OBVIOUS
  <2>1. CASE k <= stage[m]
    <3>1. j \in 0..stage[m] /\ k \in 0..stage[m]
      BY <1>1, <2>1
    <3> QED
      BY <3>1, <1>6 DEF Timeline
  <2>2. CASE ~(k <= stage[m])
    <3>0. m = n
      BY <1>1, <2>2
    <3>1. m = n /\ k = k0 + 1
      BY <3>0, <1>1, <2>2 DEF k0
    <3>2. CASE j = k
      BY <3>1, <3>2, <1>1, <1>2
    <3>3. CASE j # k
      <4>1. j \in 0..stage[n] /\ k0 \in 0..stage[n] /\ j <= k0
        BY <3>1, <3>3, <1>1 DEF k0
      <4>2. S[j] <= S[k0] /\ T[j] = S[j] /\ S[j] \in Nat /\ S[k0] \in Nat
        BY <4>1, <1>6, <1>1 DEF Timeline
      <4> QED
        BY <4>2, <3>1, <1>1, <1>3
    <3> QED
      BY <3>2, <3>3
  <2> QED
    BY <2>1, <2>2
<1>11. Timeline(T, Q)'
  BY <1>7, <1>8, <1>9, <1>10 DEF Timeline
<1> QED
  BY <1>2, <1>6, <1>11

(* And stays as it is when no node begins a stage.                         *)
LEMMA TimelineKept ==
  ASSUME RadTypeOK, TimelineInv, UNCHANGED <<dts, step, rk, stage>>,
         \A m \in Node : pc[m] = "advance" => pc'[m] = "advance"
  PROVE  TimelineInv'
<1>1. PICK S \in [Nat -> Nat], R \in [Nat -> Nat] :
        /\ Timeline(S, R)
        /\ \A a \in Node : \A f \in Face : \A c \in Nieces(a, Flip[f]) : Corrected(S, R, a, c)
  BY DEF TimelineInv
<1>2. \A s, r : More(s, r)' <=> More(s, r)
  BY DEF More, CeilDiv, AtLeastOne, CellTime
<1>3. Timeline(S, R)'
  BY <1>1, <1>2 DEF Timeline
<1>4. ASSUME NEW a \in Node, NEW f \in Face, NEW c \in Nieces(a, Flip[f])
      PROVE  Corrected(S, R, a, c)'
  <2>1. c \in Node
    BY AuntFacts
  <2>2. Fluxed(c) \in Nat /\ Fluxed(c)' \in Nat /\ Fluxed(c) <= Fluxed(c)'
    BY <2>1, Counters DEF Fluxed
  <2>3. stage'[a] = stage[a] /\ stage[a] \in Nat
    BY Counters
  <2> SUFFICES ASSUME NEW k \in 0..(stage[a] - 1), More(S[k], R[k]) PROVE k < Fluxed(c)'
    BY <1>2, <2>3 DEF Corrected
  <2>4. k < Fluxed(c)
    BY <1>1 DEF Corrected
  <2> QED
    BY <2>2, <2>3, <2>4
<1> QED
  BY <1>3, <1>4 DEF TimelineInv

(* A node that begins a stage leaves behind one that was corrected.        *)
LEMMA NewStageOnTimeline ==
  ASSUME RadTypeOK, TimelineInv, NEW n \in Node, dts' = dts,
         stage' = [stage EXCEPT ![n] = @ + 1],
         \A m \in Node \ {n} : step'[m] = step[m] /\ rk'[m] = rk[m] /\ pc'[m] = pc[m],
         IF FluxDue(n) THEN step'[n] = step[n] /\ rk'[n] = rk[n] + 1
                       ELSE step'[n] = step[n] + 1 /\ rk'[n] = 0,
         FluxDue(n) => \A f \in Face : \A c \in Nieces(n, Flip[f]) : stage[n] < Fluxed(c)
  PROVE  TimelineInv'
<1>1. PICK S \in [Nat -> Nat], R \in [Nat -> Nat] :
        /\ Timeline(S, R)
        /\ \A a \in Node : \A f \in Face : \A c \in Nieces(a, Flip[f]) : Corrected(S, R, a, c)
  BY DEF TimelineInv
<1>2. \A m \in Node \ {n} : step'[m] = step[m] /\ rk'[m] = rk[m]
  OBVIOUS
<1>3. PICK T \in [Nat -> Nat], Q \in [Nat -> Nat] :
        /\ Timeline(T, Q)'
        /\ \A m \in Node : \A k \in 0..stage[m] : T[k] = S[k] /\ Q[k] = R[k]
  <2>1. Timeline(S, R)
    BY <1>1
  <2>2. \E T, Q \in [Nat -> Nat] :
           /\ Timeline(T, Q)'
           /\ \A m \in Node : \A k \in 0..stage[m] : T[k] = S[k] /\ Q[k] = R[k]
           /\ \A k \in 0..stage[n] : T[k] = S[k] /\ Q[k] = R[k]
    BY <1>2, <2>1, TimelineGrows
  <2> QED
    BY <2>2
<1>4. \A s, r : More(s, r)' <=> More(s, r)
  BY DEF More, CeilDiv, AtLeastOne, CellTime
<1>5. \A m \in Node : /\ stage[m] \in Nat /\ stage'[m] \in Nat
                      /\ stage'[m] = IF m = n THEN stage[m] + 1 ELSE stage[m]
  <2>1. \A m \in Node : stage'[m] = IF m = n THEN stage[m] + 1 ELSE stage[m]
    BY DEF RadTypeOK
  <2> QED
    BY <2>1, Counters
<1>6. ASSUME NEW a \in Node, NEW f \in Face, NEW c \in Nieces(a, Flip[f])
      PROVE  Corrected(T, Q, a, c)'
  <2>1. c \in Node
    BY AuntFacts
  <2>2. Fluxed(c) \in Nat /\ Fluxed(c)' \in Nat /\ Fluxed(c) <= Fluxed(c)'
    BY <2>1, <1>5 DEF Fluxed
  <2> SUFFICES ASSUME NEW k \in 0..(stage'[a] - 1), More(T[k], Q[k]) PROVE k < Fluxed(c)'
    BY <1>4 DEF Corrected
  <2>3. k \in 0..stage[a]
    BY <1>5
  <2>4. T[k] = S[k] /\ Q[k] = R[k]
    BY <1>3, <2>3
  <2>5. CASE k < stage[a]
    <3>1. k \in 0..(stage[a] - 1)
      BY <2>3, <2>5, <1>5
    <3>2. k < Fluxed(c)
      BY <1>1, <2>4, <3>1 DEF Corrected
    <3> QED
      BY <2>2, <2>3, <3>2
  <2>6. CASE ~(k < stage[a])
    <3>1. k = stage[a] /\ a = n
      BY <2>3, <2>6, <1>5
    <3>2. FluxDue(n)
      BY <1>1, <2>4, <3>1 DEF FluxDue, Timeline
    <3>3. k < Fluxed(c)
      BY <3>1, <3>2
    <3> QED
      BY <2>2, <2>3, <3>3
  <2> QED
    BY <2>5, <2>6
<1> QED
  BY <1>3, <1>6 DEF TimelineInv

-----------------------------------------------------------------------------
LEMMA InitHasInv == Init => RadInv
<1> SUFFICES ASSUME Init PROVE RadInv
  OBVIOUS
<1> USE DEF Init
<1>1. RadTypeOK
  <2>1. <<>> \in Seq(Nat)
    BY EmptySeq
  <2> QED
    BY <2>1 DEF RadTypeOK, FirstCycle
<1>2. ExchangeInv
  <2>1. \A n \in Node : rcycle[n] = 0 /\ Sent(n) = 0
    BY DEF Sent, FirstCycle
  <2>2. StageInv
    BY <2>1 DEF StageInv, FluxDue, More
  <2>3. \A n \in Node : \A d \in Dir : Served(n, d) = 0
    BY <2>1, TreeFacts DEF Served
  <2>4. WaitInv
    BY <2>1, <2>3, TreeFacts DEF WaitInv, Awaited
  <2> QED
    BY <2>2, <2>4 DEF ExchangeInv, ChildInv, SiblingInv
<1>3. TimelineInv
  <2> DEFINE Z == [k \in Nat |-> 0]
  <2>1. Z \in [Nat -> Nat] /\ \A k \in Nat : Z[k] = 0
    OBVIOUS
  <2>2. Timeline(Z, Z)
    BY DEF Timeline
  <2>3. ASSUME NEW a \in Node, NEW f \in Face, NEW c \in Nieces(a, Flip[f])
        PROVE  Corrected(Z, Z, a, c)
    BY DEF Corrected
  <2> HIDE DEF Z
  <2> QED
    BY <2>1, <2>2, <2>3 DEF TimelineInv
<1>4. FluxInv
  <2>1. \A c \in Node : \A f \in Face : wire[c][f] = {} /\ niece[c][f] = <<>>
    OBVIOUS
  <2> QED
    BY <2>1, AuntFacts DEF FluxInv, Between
<1> QED
  BY <1>1, <1>2, <1>3, <1>4 DEF RadInv

(* The start of a timestep's radiation.                                    *)
LEMMA BeginKeepsInv ==
  ASSUME RadInv, NEW n \in Node, Begin(n)
  PROVE  RadInv'
<1>1. /\ RadTypeOK /\ ExchangeInv /\ TimelineInv
      /\ pc[n] = "hydro" /\ dts' = dts /\ wire' = wire /\ niece' = niece
      /\ UNCHANGED exchangeVars
      /\ pc' = [pc EXCEPT ![n] = "restrict"]
      /\ stage' = [stage EXCEPT ![n] = @ + 1]
      /\ cells' = [cells EXCEPT ![n] = Computed(n, stage[n] + 1)]
      /\ step' = [step EXCEPT ![n] = @ + 1] /\ rk' = [rk EXCEPT ![n] = 0]
  BY DEF RadInv, Begin
<1>2. /\ pc'[n] = "restrict" /\ stage'[n] = stage[n] + 1 /\ stage[n] \in Nat
      /\ cells'[n] = Computed(n, stage[n] + 1)
      /\ step'[n] = step[n] + 1 /\ rk'[n] = 0
      /\ \A m \in Node \ {n} : /\ pc'[m] = pc[m] /\ stage'[m] = stage[m] /\ cells'[m] = cells[m]
                              /\ step'[m] = step[m] /\ rk'[m] = rk[m]
  BY <1>1 DEF RadTypeOK
<1>3. ~FluxDue(n)
  BY <1>1 DEF ExchangeInv, StageInv
<1>4. RadTypeOK'
  <2>1. Computed(n, stage[n] + 1) \in SUBSET Int
    BY <1>2 DEF Computed
  <2> QED
    BY <1>1, <1>2, <2>1 DEF RadTypeOK, exchangeVars
<1>5. \A m \in Node \ {n} : FluxDue(m)' <=> FluxDue(m)
  BY <1>1, <1>2 DEF FluxDue, More, CeilDiv, AtLeastOne, CellTime
<1>6. StageInv'
  <2> SUFFICES ASSUME NEW m \in Node
      PROVE  /\ stage'[m] = IF pc'[m] \in {"restrict", "collect"} THEN rcycle'[m] + 1 ELSE rcycle'[m]
             /\ pc'[m] \in {"collect", "flux", "advance"} => cells'[m] = {stage'[m]}
             /\ pc'[m] = "restrict" /\ ~Refined(m) => cells'[m] = {stage'[m]}
             /\ pc'[m] \in {"flux", "advance"} => ghost'[m] \subseteq {stage'[m]} /\ FluxDue(m)'
             /\ pc'[m] = "hydro" => ~FluxDue(m)'
             /\ pc'[m] # "hydro" => step'[m] # 0
    BY DEF StageInv
  <2>1. CASE m = n
    BY <1>1, <1>2, <2>1, Counters DEF ExchangeInv, StageInv, exchangeVars, Computed
  <2>2. CASE m # n
    BY <1>1, <1>2, <1>5, <2>2 DEF ExchangeInv, StageInv, exchangeVars
  <2> QED
    BY <2>1, <2>2
<1>7. ExchangeInv'
  BY <1>1, <1>2, <1>6, ComputingKeepsChannels DEF ExchangeInv
<1>8. TimelineInv'
  BY <1>1, <1>2, <1>3, NewStageOnTimeline
<1>9. FluxInv'
  <2>1. ASSUME NEW a \in Node, NEW f \in Face, NEW c \in Nieces(a, Flip[f])
        PROVE  Between(a, c, f)'
    <3>1. c \in Node /\ Between(a, c, f)
      BY AuntFacts DEF RadInv, FluxInv
    <3>2. CASE a = n
      BY <1>1, <1>3, <3>1, <3>2 DEF Between
    <3>3. CASE a # n
      <4>1. Fluxed(c) \in Nat /\ Fluxed(c)' \in Nat /\ Fluxed(c) <= Fluxed(c)'
        BY <1>1, <1>2, <3>1, Counters DEF Fluxed
      <4>2. stage[a] \in Nat /\ stage'[a] = stage[a] /\ (FluxDue(a)' <=> FluxDue(a))
        BY <1>1, <1>2, <1>5, <3>3, Counters
      <4>3. stage[a] < Fluxed(c) => stage'[a] < Fluxed(c)'
        BY <4>1, <4>2
      <4> HIDE DEF Fluxed
      <4> QED
        BY <1>1, <3>1, <4>2, <4>3 DEF Between
    <3> QED
      BY <3>2, <3>3
  <2>2. ASSUME NEW c \in Node, NEW f \in Face, ~HasAunt(c, f)
        PROVE  wire'[c][f] = {} /\ niece'[c][f] = <<>>
    BY <1>1, <2>2 DEF RadInv, FluxInv
  <2> QED
    BY <2>1, <2>2 DEF FluxInv
<1> QED
  BY <1>4, <1>7, <1>8, <1>9 DEF RadInv

(* A node that computes its fluxes sends those that its aunt needs next.   *)
LEMMA SendFluxKeepsInv ==
  ASSUME RadInv, NEW n \in Node, SendFlux(n)
  PROVE  RadInv'
<1>1. /\ RadTypeOK /\ ExchangeInv /\ TimelineInv /\ FluxInv
      /\ pc[n] = "flux" /\ pc' = [pc EXCEPT ![n] = "advance"]
      /\ wire' = [wire EXCEPT ![n] = [f \in Face |->
           IF HasAunt(n, f) THEN wire[n][f] \cup {stage[n]} ELSE wire[n][f]]]
      /\ UNCHANGED <<dts, step, rk, stage, cells, exchangeVars, niece>>
  BY DEF RadInv, SendFlux
<1>2. /\ pc'[n] = "advance" /\ \A m \in Node \ {n} : pc'[m] = pc[m]
      /\ \A m \in Node : stage[m] \in Nat
  BY <1>1, Counters DEF RadTypeOK
<1>3. /\ \A f \in Face : wire'[n][f] = IF HasAunt(n, f) THEN wire[n][f] \cup {stage[n]}
                                                        ELSE wire[n][f]
      /\ \A m \in Node \ {n} : wire'[m] = wire[m]
  BY <1>1 DEF RadTypeOK
<1>4. RadTypeOK'
  <2>1. wire' \in [Node -> [Face -> SUBSET Nat]]
    BY <1>1, <1>2 DEF RadTypeOK
  <2> QED
    BY <1>1, <2>1 DEF RadTypeOK, exchangeVars
<1>5. \A m \in Node : FluxDue(m)' <=> FluxDue(m)
  BY <1>1 DEF FluxDue, More, CeilDiv, AtLeastOne, CellTime
<1>6. StageInv'
  BY <1>1, <1>2, <1>5 DEF ExchangeInv, StageInv, exchangeVars
<1>7. ExchangeInv'
  BY <1>1, <1>2, <1>6, ComputingKeepsChannels DEF ExchangeInv
<1>8. TimelineInv'
  BY <1>1, <1>2, TimelineKept
<1>9. ASSUME NEW a \in Node, NEW f \in Face, NEW c \in Nieces(a, Flip[f])
      PROVE  Between(a, c, f)'
  <2>1. c \in Node /\ HasAunt(c, f) /\ Between(a, c, f) /\ f \in Dir
    BY <1>1, AuntFacts DEF FluxInv
  <2>2. CASE c # n
    <3>1. Fluxed(c)' = Fluxed(c) /\ stage' = stage /\ wire'[c] = wire[c] /\ niece' = niece
      BY <1>1, <1>2, <1>3, <2>1, <2>2 DEF Fluxed
    <3> QED
      BY <3>1, <2>1, <1>5 DEF Between
  <2>3. CASE c = n
    <3>1. stage[c] <= stage[a] /\ stage[c] \in Nat /\ stage[a] \in Nat /\ FluxDue(c)
      BY <1>1, <1>2, <2>1, <2>3, HeldBack DEF ExchangeInv, StageInv
    <3>2. Fluxed(c) = stage[c] /\ Fluxed(c)' = stage[c] + 1
      BY <1>1, <1>2, <2>3 DEF Fluxed
    <3>3. ~(stage[c] < stage[a])
      <4> SUFFICES ASSUME stage[c] < stage[a] PROVE FALSE
        OBVIOUS
      <4>1. PICK S \in [Nat -> Nat], R \in [Nat -> Nat] :
              Timeline(S, R) /\ Corrected(S, R, a, c)
        BY <1>1 DEF TimelineInv
      <4>2. More(S[stage[c]], R[stage[c]])
        BY <2>1, <3>1, <4>1 DEF Timeline, FluxDue
      <4>3. stage[c] \in 0..(stage[a] - 1)
        BY <3>1
      <4>4. stage[c] < Fluxed(c)
        BY <4>1, <4>2, <4>3 DEF Corrected
      <4> QED
        BY <4>4, <3>1, <3>2
    <3>4. stage[a] = stage[c]
      BY <3>1, <3>3
    <3>5. wire[c][f] = {} /\ niece[c][f] = <<>>
      BY <2>1, <3>1, <3>2, <3>4 DEF Between
    <3>6. wire'[c][f] = {stage[c]}
      BY <1>3, <2>1, <2>3, <3>5
    <3>7. FluxDue(a)'
      BY <1>1, <1>5, <2>1, <3>1, <3>4, SamePlace
    <3>8. stage'[a] = stage[a] /\ niece' = niece /\ stage[a] < Fluxed(c)'
      BY <1>1, <3>1, <3>2, <3>4
    <3> QED
      BY <3>4, <3>5, <3>6, <3>7, <3>8 DEF Between
  <2> QED
    BY <2>2, <2>3
<1>10. ASSUME NEW c \in Node, NEW f \in Face, ~HasAunt(c, f)
       PROVE  wire'[c][f] = {} /\ niece'[c][f] = <<>>
  BY <1>1, <1>3, <1>10 DEF FluxInv
<1>11. FluxInv'
  BY <1>9, <1>10 DEF FluxInv
<1> QED
  BY <1>4, <1>7, <1>8, <1>11 DEF RadInv

(* A call that arrives moves the one flux from the wire to the channel.    *)
LEMMA RecvFluxKeepsInv ==
  ASSUME RadInv, NEW n \in Node, NEW g \in Face, RecvFlux(n, g)
  PROVE  RadInv'
<1>1. RadTypeOK /\ ExchangeInv /\ TimelineInv /\ FluxInv
  BY DEF RadInv
<1>2. PICK k \in wire[n][g] :
        /\ wire' = [wire EXCEPT ![n][g] = @ \ {k}]
        /\ niece' = [niece EXCEPT ![n][g] = Append(@, k)]
        /\ UNCHANGED <<pc, dts, step, rk, stage, cells, exchangeVars>>
  BY DEF RecvFlux
<1>3. /\ wire'[n][g] = wire[n][g] \ {k} /\ niece'[n][g] = Append(niece[n][g], k)
      /\ k \in Nat
      /\ \A m \in Node : \A f \in Face :
           m # n \/ f # g => wire'[m][f] = wire[m][f] /\ niece'[m][f] = niece[m][f]
  BY <1>1, <1>2 DEF RadTypeOK
<1>4. RadTypeOK'
  <2>1. Append(niece[n][g], k) \in Seq(Nat)
    BY <1>1, <1>3 DEF RadTypeOK
  <2>2. wire' \in [Node -> [Face -> SUBSET Nat]] /\ niece' \in [Node -> [Face -> Seq(Nat)]]
    BY <1>1, <1>2, <2>1 DEF RadTypeOK
  <2> QED
    BY <1>1, <1>2, <2>2 DEF RadTypeOK, exchangeVars
<1>5. \A m \in Node : FluxDue(m)' <=> FluxDue(m)
  BY <1>2 DEF FluxDue, More, CeilDiv, AtLeastOne, CellTime
<1>6. StageInv'
  BY <1>1, <1>2, <1>5 DEF ExchangeInv, StageInv, exchangeVars
<1>7. ExchangeInv'
  BY <1>1, <1>2, <1>6, ComputingKeepsChannels DEF ExchangeInv
<1>8. TimelineInv'
  BY <1>1, <1>2, TimelineKept
<1>9. \A m \in Node : Fluxed(m)' = Fluxed(m)
  BY <1>2 DEF Fluxed
<1>10. ASSUME NEW a \in Node, NEW f \in Face, NEW c \in Nieces(a, Flip[f])
       PROVE  Between(a, c, f)'
  <2>1. c \in Node /\ Between(a, c, f)
    BY <1>1, AuntFacts DEF FluxInv
  <2>2. CASE c # n \/ f # g
    <3>1. wire'[c][f] = wire[c][f] /\ niece'[c][f] = niece[c][f] /\ stage' = stage
      BY <1>2, <1>3, <2>1, <2>2
    <3> QED
      BY <3>1, <2>1, <1>5, <1>9 DEF Between
  <2>3. CASE c = n /\ f = g
    <3>1. /\ FluxDue(a) /\ stage[a] < Fluxed(c)
          /\ wire[c][f] = {k} /\ k = stage[a] /\ niece[c][f] = <<>>
      BY <1>2, <2>1, <2>3 DEF Between
    <3>2. wire'[c][f] = {} /\ niece'[c][f] = <<k>>
      BY <1>3, <2>3, <3>1
    <3>3. stage' = stage
      BY <1>2
    <3> QED
      BY <1>5, <1>9, <2>1, <3>1, <3>2, <3>3 DEF Between
  <2> QED
    BY <2>2, <2>3
<1>11. ASSUME NEW c \in Node, NEW f \in Face, ~HasAunt(c, f)
       PROVE  wire'[c][f] = {} /\ niece'[c][f] = <<>>
  <2>1. wire[c][f] = {} /\ niece[c][f] = <<>>
    BY <1>1, <1>11 DEF FluxInv
  <2> QED
    BY <2>1, <1>2, <1>3
<1>12. FluxInv'
  BY <1>10, <1>11 DEF FluxInv
<1> QED
  BY <1>4, <1>7, <1>8, <1>12 DEF RadInv

(* A node that advances takes exactly the fluxes of its stage.             *)
LEMMA AdvanceKeepsInv ==
  ASSUME RadInv, NEW n \in Node, Advance(n)
  PROVE  RadInv'
<1>1. /\ RadTypeOK /\ ExchangeInv /\ TimelineInv /\ FluxInv
      /\ pc[n] = "advance" /\ dts' = dts /\ wire' = wire /\ step' = step
      /\ UNCHANGED exchangeVars
      /\ niece' = [c \in Node |-> [f \in Face |->
           IF c \in Nieces(n, Flip[f]) THEN Tail(niece[c][f]) ELSE niece[c][f]]]
      /\ pc' = [pc EXCEPT ![n] = "restrict"]
      /\ stage' = [stage EXCEPT ![n] = @ + 1]
      /\ cells' = [cells EXCEPT ![n] = Computed(n, stage[n] + 1)]
      /\ rk' = [rk EXCEPT ![n] = @ + 1]
  BY DEF RadInv, Advance
<1>2. /\ pc'[n] = "restrict" /\ stage'[n] = stage[n] + 1 /\ stage[n] \in Nat
      /\ cells'[n] = Computed(n, stage[n] + 1)
      /\ rk'[n] = rk[n] + 1
      /\ \A m \in Node \ {n} : /\ pc'[m] = pc[m] /\ stage'[m] = stage[m] /\ cells'[m] = cells[m]
                              /\ step'[m] = step[m] /\ rk'[m] = rk[m]
  BY <1>1 DEF RadTypeOK
<1>3. FluxDue(n)
  BY <1>1 DEF ExchangeInv, StageInv
<1>4. \A f \in Face : \A c \in Nieces(n, Flip[f]) :
        niece[c][f] = <<stage[n]>> /\ wire[c][f] = {} /\ stage[n] < Fluxed(c)
  <2> SUFFICES ASSUME NEW f \in Face, NEW c \in Nieces(n, Flip[f])
               PROVE  niece[c][f] = <<stage[n]>> /\ wire[c][f] = {} /\ stage[n] < Fluxed(c)
    OBVIOUS
  <2>1. Flip[f] \in Face /\ Flip[Flip[f]] = f
    BY NeighborAssumption
  <2>2. niece[c][f] # <<>>
    BY <2>1 DEF Advance
  <2>3. Between(n, c, f)
    BY <1>1 DEF FluxInv
  <2> QED
    BY <2>2, <2>3 DEF Between
<1>5. RadTypeOK'
  <2>1. Computed(n, stage[n] + 1) \in SUBSET Int
    BY <1>2 DEF Computed
  <2>2. ASSUME NEW c \in Node, NEW f \in Face PROVE niece'[c][f] \in Seq(Nat)
    <3>1. niece[c][f] \in Seq(Nat) /\ <<>> \in Seq(Nat)
      BY <1>1, EmptySeq DEF RadTypeOK
    <3>2. CASE c \in Nieces(n, Flip[f])
      <4>1. niece[c][f] = <<stage[n]>>
        BY <1>4, <3>2
      <4>2. stage[n] \in Nat
        BY <1>2
      <4>3. Tail(niece[c][f]) = <<>>
        BY ONLY <4>1, <4>2
      <4> QED
        BY <1>1, <3>1, <3>2, <4>3
    <3>3. CASE c \notin Nieces(n, Flip[f])
      BY <1>1, <3>1, <3>3
    <3> QED
      BY <3>2, <3>3
  <2>3. niece' \in [Node -> [Face -> Seq(Nat)]]
    BY <1>1, <2>2
  <2>4. /\ pc' \in [Node -> {"hydro", "restrict", "collect", "flux", "advance"}]
        /\ stage' \in [Node -> Nat] /\ rk' \in [Node -> Nat] /\ cells' \in [Node -> SUBSET Int]
    BY <1>1, <2>1 DEF RadTypeOK
  <2> QED
    BY <1>1, <2>3, <2>4 DEF RadTypeOK, exchangeVars
<1>6. \A m \in Node \ {n} : FluxDue(m)' <=> FluxDue(m)
  BY <1>1, <1>2 DEF FluxDue, More, CeilDiv, AtLeastOne, CellTime
<1>7. StageInv'
  <2> SUFFICES ASSUME NEW m \in Node
      PROVE  /\ stage'[m] = IF pc'[m] \in {"restrict", "collect"} THEN rcycle'[m] + 1 ELSE rcycle'[m]
             /\ pc'[m] \in {"collect", "flux", "advance"} => cells'[m] = {stage'[m]}
             /\ pc'[m] = "restrict" /\ ~Refined(m) => cells'[m] = {stage'[m]}
             /\ pc'[m] \in {"flux", "advance"} => ghost'[m] \subseteq {stage'[m]} /\ FluxDue(m)'
             /\ pc'[m] = "hydro" => ~FluxDue(m)'
             /\ pc'[m] # "hydro" => step'[m] # 0
    BY DEF StageInv
  <2>1. CASE m = n
    BY <1>1, <1>2, <2>1, Counters DEF ExchangeInv, StageInv, exchangeVars, Computed
  <2>2. CASE m # n
    BY <1>1, <1>2, <1>6, <2>2 DEF ExchangeInv, StageInv, exchangeVars
  <2> QED
    BY <2>1, <2>2
<1>8. ExchangeInv'
  BY <1>1, <1>2, <1>7, ComputingKeepsChannels DEF ExchangeInv
<1>9. TimelineInv'
  BY <1>1, <1>2, <1>3, <1>4, NewStageOnTimeline
<1>10. ASSUME NEW a \in Node, NEW f \in Face, NEW c \in Nieces(a, Flip[f])
       PROVE  Between(a, c, f)'
  <2>1. c \in Node /\ Between(a, c, f) /\ Nbr[Parent[c]][f] = a
    BY <1>1, AuntFacts DEF FluxInv
  <2>2. CASE a = n
    <3>0. niece[c][f] = <<stage[n]>> /\ stage[n] \in Nat
      BY <1>2, <1>4, <2>2
    <3>1. Tail(niece[c][f]) = <<>>
      BY ONLY <3>0
    <3>2. wire'[c][f] = {} /\ niece'[c][f] = <<>>
      BY <1>1, <1>4, <2>1, <2>2, <3>1
    <3> QED
      BY <3>2 DEF Between
  <2>3. CASE a # n
    <3>1. c \notin Nieces(n, Flip[f])
      BY <2>1, <2>3, AuntFacts
    <3>2. niece'[c][f] = niece[c][f] /\ wire' = wire
      BY <1>1, <2>1, <3>1
    <3>3. Fluxed(c) \in Nat /\ Fluxed(c)' \in Nat /\ Fluxed(c) <= Fluxed(c)'
      BY <1>1, <1>2, <2>1, Counters DEF Fluxed
    <3>4. stage[a] \in Nat /\ stage'[a] = stage[a] /\ (FluxDue(a)' <=> FluxDue(a))
      BY <1>1, <1>2, <1>6, <2>3, Counters
    <3>5. stage[a] < Fluxed(c) => stage'[a] < Fluxed(c)'
      BY <3>3, <3>4
    <3> HIDE DEF Fluxed
    <3> QED
      BY <2>1, <3>2, <3>4, <3>5 DEF Between
  <2> QED
    BY <2>2, <2>3
<1>11. ASSUME NEW c \in Node, NEW f \in Face, ~HasAunt(c, f)
       PROVE  wire'[c][f] = {} /\ niece'[c][f] = <<>>
  <2>1. wire[c][f] = {} /\ niece[c][f] = <<>>
    BY <1>1, <1>11 DEF FluxInv
  <2>2. c \notin Nieces(n, Flip[f])
    BY <1>11, AuntFacts
  <2> QED
    BY <1>1, <2>1, <2>2
<1>12. FluxInv'
  BY <1>10, <1>11 DEF FluxInv
<1> QED
  BY <1>5, <1>8, <1>9, <1>12 DEF RadInv

(* What a node sends when it has its children's cells: cells of its own    *)
(* stage, none of which a refined node computed itself.                    *)
LEMMA InterlevelFacts ==
  ASSUME RadTypeOK, ExchangeInv, NEW n \in Node, Interlevel(n)
  PROVE  \E msg \in Msg, taken \in SUBSET Msg :
           /\ msg.cycle = rcycle[n] /\ msg.data = {stage[n]}
           /\ \A m \in taken : m.cycle = rcycle[n]
           /\ \A c \in Children(n) : Msgs(child[c], rcycle[n]) \subseteq taken
           /\ cells' = [cells EXCEPT ![n] = {stage[n]}]
           /\ child' = [c \in Node |->
                (child[c] \ taken) \cup (IF c = n /\ n # Root THEN {msg} ELSE {})]
           /\ sibling' = [m \in Node |-> [d \in Dir |->
                sibling[m][d] \cup (IF Nbr[n][Flip[d]] = m THEN {msg} ELSE {})]]
<1> DEFINE taken == Restrictions(n)
           msg == [cycle |-> rcycle[n], data |-> Restricted(n), from |-> n]
<1>1. stage[n] = rcycle[n] + 1 /\ stage[n] \in Nat /\ rcycle[n] \in Nat
  BY Counters DEF ExchangeInv, StageInv, Interlevel
<1>2. \A m \in taken : m \in Msg /\ m.cycle = rcycle[n] /\ m.data = {stage[n]}
  BY <1>1, TreeFacts DEF Restrictions, Msgs, RadTypeOK, ExchangeInv, ChildInv
<1>3. Restricted(n) = {stage[n]}
  <2>1. CASE Refined(n)
    <3>1. taken # {}
      BY <2>1 DEF Refined, Restrictions, Interlevel
    <3> HIDE DEF taken
    <3>2. Data(taken) = {stage[n]}
      BY <1>2, <3>1 DEF Data
    <3> QED
      BY <2>1, <3>2 DEF Restricted, taken
  <2>2. CASE ~Refined(n)
    BY <2>2 DEF Restricted, ExchangeInv, StageInv, Interlevel
  <2> QED
    BY <2>1, <2>2
<1>4. msg.cycle = rcycle[n] /\ msg.data = {stage[n]} /\ msg \in Msg
  BY <1>1, <1>3 DEF Msg
<1>5. /\ cells' = [cells EXCEPT ![n] = {stage[n]}]
      /\ child' = [c \in Node |->
           (child[c] \ taken) \cup (IF c = n /\ n # Root THEN {msg} ELSE {})]
      /\ sibling' = [m \in Node |-> [d \in Dir |->
           sibling[m][d] \cup (IF Nbr[n][Flip[d]] = m THEN {msg} ELSE {})]]
  BY <1>3 DEF Interlevel, ChildChannels
<1>6. \A c \in Children(n) : Msgs(child[c], rcycle[n]) \subseteq taken
  BY DEF Restrictions
<1>7. taken \in SUBSET Msg /\ \A m \in taken : m.cycle = rcycle[n]
  BY <1>2
<1> HIDE DEF taken, msg
<1> QED
  BY ONLY <1>4, <1>5, <1>6, <1>7

(* The nodes whose channels a step of n fills, seen from the channel.      *)
LEMMA InterlevelKeepsInv ==
  ASSUME RadInv, NEW n \in Node, Interlevel(n)
  PROVE  RadInv'
<1>0. RadTypeOK /\ ExchangeInv /\ TimelineInv /\ FluxInv
  BY DEF RadInv
<1>1. PICK msg \in Msg, taken \in SUBSET Msg :
        /\ msg.cycle = rcycle[n] /\ msg.data = {stage[n]}
        /\ \A m \in taken : m.cycle = rcycle[n]
        /\ \A c \in Children(n) : Msgs(child[c], rcycle[n]) \subseteq taken
        /\ cells' = [cells EXCEPT ![n] = {stage[n]}]
        /\ child' = [c \in Node |->
             (child[c] \ taken) \cup (IF c = n /\ n # Root THEN {msg} ELSE {})]
        /\ sibling' = [m \in Node |-> [d \in Dir |->
             sibling[m][d] \cup (IF Nbr[n][Flip[d]] = m THEN {msg} ELSE {})]]
  BY <1>0, InterlevelFacts
<1>2. /\ pc[n] = "restrict" /\ pc' = [pc EXCEPT ![n] = "collect"]
      /\ UNCHANGED <<dts, step, rk, stage, rcycle, ghost, wire, niece>>
      /\ \A c \in Children(n) : Msgs(child[c], rcycle[n]) # {}
  BY DEF Interlevel
<1>3. /\ pc'[n] = "collect" /\ cells'[n] = {stage[n]}
      /\ \A m \in Node \ {n} : pc'[m] = pc[m] /\ cells'[m] = cells[m]
  BY <1>0, <1>1, <1>2 DEF RadTypeOK
<1>4. stage[n] = rcycle[n] + 1 /\ \A m \in Node : stage[m] \in Nat /\ rcycle[m] \in Nat
  BY <1>0, <1>2, Counters DEF ExchangeInv, StageInv
<1>5. RadTypeOK'
  <2>1. /\ pc' \in [Node -> {"hydro", "restrict", "collect", "flux", "advance"}]
        /\ cells' \in [Node -> SUBSET Int]
    BY <1>0, <1>1, <1>2, <1>4 DEF RadTypeOK
  <2>2. /\ \A m \in Node : child[m] \in SUBSET Msg
        /\ \A m \in Node : \A d \in Dir : sibling[m][d] \in SUBSET Msg
    BY <1>0 DEF RadTypeOK
  <2>3. child' \in [Node -> SUBSET Msg] /\ sibling' \in [Node -> [Dir -> SUBSET Msg]]
    <3> HIDE DEF Msg
    <3> QED
      BY ONLY <1>1, <2>2
  <2> QED
    BY <1>0, <1>2, <2>1, <2>3 DEF RadTypeOK
<1>6. \A m \in Node : FluxDue(m)' <=> FluxDue(m)
  BY <1>2 DEF FluxDue, More, CeilDiv, AtLeastOne, CellTime
<1>7. StageInv'
  <2> SUFFICES ASSUME NEW m \in Node
      PROVE  /\ stage'[m] = IF pc'[m] \in {"restrict", "collect"} THEN rcycle'[m] + 1 ELSE rcycle'[m]
             /\ pc'[m] \in {"collect", "flux", "advance"} => cells'[m] = {stage'[m]}
             /\ pc'[m] = "restrict" /\ ~Refined(m) => cells'[m] = {stage'[m]}
             /\ pc'[m] \in {"flux", "advance"} => ghost'[m] \subseteq {stage'[m]} /\ FluxDue(m)'
             /\ pc'[m] = "hydro" => ~FluxDue(m)'
             /\ pc'[m] # "hydro" => step'[m] # 0
    BY DEF StageInv
  <2>1. CASE m = n
    BY <1>0, <1>2, <1>3, <1>4, <2>1 DEF ExchangeInv, StageInv
  <2>2. CASE m # n
    BY <1>0, <1>2, <1>3, <1>6, <2>2 DEF ExchangeInv, StageInv
  <2> QED
    BY <2>1, <2>2
<1>8. /\ Sent(n) = rcycle[n] /\ Sent(n)' = rcycle[n] + 1
      /\ \A m \in Node : m # n => Sent(m)' = Sent(m)
      /\ \A m \in Node : Sent(m) \in Nat /\ Sent(m)' \in Nat /\ Sent(m)' >= Sent(m)
  BY <1>2, <1>3, <1>4 DEF Sent
<1>9. \A m \in Node : \A d \in Dir :
        Served(m, d)' >= Served(m, d) /\ Served(m, d) \in Nat /\ Served(m, d)' \in Nat
  BY <1>2, <1>4, <1>8, TreeFacts DEF Served
<1>10. \A c \in Children(n) : rcycle[n] < Sent(c)
  <2> SUFFICES ASSUME NEW c \in Children(n) PROVE rcycle[n] < Sent(c)
    OBVIOUS
  <2>1. PICK m \in child[c] : m.cycle = rcycle[n]
    BY <1>2 DEF Msgs
  <2> QED
    BY <1>0, <2>1, TreeFacts DEF ExchangeInv, ChildInv
<1>11. n \notin Children(n)
  BY <1>4, <1>8, <1>10
<1>12. WaitInv'
  <2>1. \A m \in Node : \A d \in Awaited(m) : rcycle'[m] <= Served(m, d)'
    <3> SUFFICES ASSUME NEW m \in Node, NEW d \in Awaited(m)
                 PROVE  rcycle'[m] <= Served(m, d)'
      OBVIOUS
    <3>1. d \in Dir /\ rcycle[m] <= Served(m, d) /\ rcycle[m] \in Nat
      BY <1>0, <1>4 DEF Awaited, ExchangeInv, WaitInv
    <3> QED
      BY <1>2, <1>9, <3>1
  <2>2. \A c \in Node \ {Root} : Sent(Parent[c])' <= Sent(c)'
    <3> SUFFICES ASSUME NEW c \in Node \ {Root} PROVE Sent(Parent[c])' <= Sent(c)'
      OBVIOUS
    <3>1. Parent[c] \in Node /\ c \in Children(Parent[c]) /\ Sent(Parent[c]) <= Sent(c)
      BY <1>0, TreeFacts DEF ExchangeInv, WaitInv
    <3>2. CASE Parent[c] = n
      BY <1>4, <1>8, <1>10, <3>1, <3>2
    <3>3. CASE Parent[c] # n
      BY <1>8, <3>1, <3>3
    <3> QED
      BY <3>2, <3>3
  <2> QED
    BY <2>1, <2>2 DEF WaitInv, Awaited
<1>13. ChildInv'
  <2> SUFFICES ASSUME NEW c \in Node, NEW m \in child'[c]
               PROVE  /\ c # Root
                      /\ Sent(Parent[c])' <= m.cycle /\ m.cycle < Sent(c)'
                      /\ m.data = {m.cycle + 1}
    BY DEF ChildInv
  <2>1. CASE m \in child[c] \ taken
    <3>1. /\ c # Root /\ Sent(Parent[c]) <= m.cycle /\ m.cycle < Sent(c)
          /\ m.data = {m.cycle + 1} /\ m.cycle \in Nat /\ Parent[c] \in Node
      BY <1>0, <2>1, Keys, TreeFacts DEF ExchangeInv, ChildInv
    <3>2. CASE Parent[c] = n
      <4>1. c \in Children(n) /\ m.cycle # rcycle[n]
        BY <1>1, <2>1, <3>1, <3>2, TreeFacts DEF Msgs
      <4> QED
        BY <1>4, <1>8, <3>1, <3>2, <4>1
    <3>3. CASE Parent[c] # n
      BY <1>8, <3>1, <3>3
    <3> QED
      BY <3>2, <3>3
  <2>2. CASE m \notin child[c] \ taken
    <3>1. c = n /\ n # Root /\ m = msg
      BY <1>1, <2>2
    <3>2. Parent[n] \in Node /\ Parent[n] # n /\ Sent(Parent[n]) <= Sent(n)
      BY <1>0, <1>11, <3>1, TreeFacts DEF ExchangeInv, WaitInv
    <3> QED
      BY <1>1, <1>4, <1>8, <3>1, <3>2
  <2> QED
    BY <2>1, <2>2
<1>14. SiblingInv'
  <2> SUFFICES ASSUME NEW m \in Node, NEW d \in Dir, NEW x \in sibling'[m][d]
               PROVE  /\ rcycle'[m] <= x.cycle /\ x.cycle < Served(m, d)'
                      /\ x.data \subseteq {x.cycle + 1}
    BY DEF SiblingInv
  <2>1. CASE x \in sibling[m][d]
    <3>1. /\ rcycle[m] <= x.cycle /\ x.cycle < Served(m, d)
          /\ x.data \subseteq {x.cycle + 1} /\ x.cycle \in Nat
      BY <1>0, <2>1, Keys DEF ExchangeInv, SiblingInv
    <3> QED
      BY <1>2, <1>9, <3>1
  <2>2. CASE x \notin sibling[m][d]
    <3>1. Nbr[n][Flip[d]] = m /\ x = msg
      BY <1>1, <2>2
    <3>2. Nbr[m][d] = n /\ n # NoNode
      BY <3>1, TreeFacts
    <3>3. Served(m, d) = rcycle[n] /\ Served(m, d)' = rcycle[n] + 1
      BY <1>8, <3>2 DEF Served
    <3>4. rcycle[m] <= rcycle[n]
      BY <1>0, <3>2, <3>3 DEF ExchangeInv, WaitInv, Awaited
    <3> QED
      BY <1>1, <1>2, <1>4, <3>1, <3>3, <3>4
  <2> QED
    BY <2>1, <2>2
<1>15. TimelineInv'
  BY <1>0, <1>2, <1>3, TimelineKept
<1>16. FluxInv'
  <2>1. \A m \in Node : Fluxed(m)' = Fluxed(m)
    BY <1>2, <1>3 DEF Fluxed
  <2> QED
    BY <1>0, <1>2, <1>6, <2>1, FluxesKept
<1> QED
  BY <1>5, <1>7, <1>12, <1>13, <1>14, <1>15, <1>16 DEF RadInv, ExchangeInv

(* What a node gets, and sends down, when all its boundaries have arrived. *)
LEMMA CollectFacts ==
  ASSUME RadTypeOK, ExchangeInv, NEW n \in Node, Collect(n)
  PROVE  \E around \in SUBSET {stage[n]}, msg \in Msg, taken \in SUBSET Msg :
           /\ msg.cycle = rcycle[n] /\ msg.data \subseteq {stage[n]}
           /\ \A m \in taken : m.cycle = rcycle[n]
           /\ \A d \in Awaited(n) : Msgs(sibling[n][d], rcycle[n]) \subseteq taken
           /\ ghost' = [ghost EXCEPT ![n] = around]
           /\ sibling' = [m \in Node |-> [d \in Dir |->
                IF m = n THEN sibling[m][d] \ taken
                ELSE sibling[m][d] \cup
                       (IF m \in Children(n) /\ AmrFlag(m, d) THEN {msg} ELSE {})]]
<1> DEFINE taken == UNION {Boundary(n, d) : d \in Awaited(n)}
           msg == [cycle |-> rcycle[n], data |-> cells[n] \cup Data(taken), from |-> n]
<1>1. /\ stage[n] = rcycle[n] + 1 /\ stage[n] \in Nat /\ rcycle[n] \in Nat
      /\ cells[n] = {stage[n]}
  BY Counters DEF ExchangeInv, StageInv, Collect
<1>2. \A d \in Awaited(n) : d \in Dir
  BY DEF Awaited
<1>3. \A m \in taken : m \in Msg /\ m.cycle = rcycle[n] /\ m.data \subseteq {stage[n]}
  BY <1>1, <1>2 DEF Boundary, Msgs, RadTypeOK, ExchangeInv, SiblingInv
<1>4. Data(taken) \subseteq {stage[n]}
  BY <1>3 DEF Data
<1>5. /\ ghost' = [ghost EXCEPT ![n] = Data(taken)]
      /\ sibling' = [m \in Node |-> [d \in Dir |->
           IF m = n THEN sibling[m][d] \ taken
           ELSE sibling[m][d] \cup
                  (IF m \in Children(n) /\ AmrFlag(m, d) THEN {msg} ELSE {})]]
  BY DEF Collect
<1>6. \A d \in Awaited(n) : Msgs(sibling[n][d], rcycle[n]) \subseteq taken
  BY DEF Boundary
<1>7. taken \in SUBSET Msg /\ \A m \in taken : m.cycle = rcycle[n]
  BY <1>3
<1> HIDE DEF taken
<1>8. cells[n] \cup Data(taken) \subseteq {stage[n]} /\ cells[n] \cup Data(taken) \in SUBSET Int
  BY <1>1, <1>4
<1>9. msg \in Msg /\ msg.cycle = rcycle[n] /\ msg.data \subseteq {stage[n]}
  BY <1>1, <1>8 DEF Msg
<1> HIDE DEF msg
<1>10. Data(taken) \in SUBSET {stage[n]} /\ msg \in Msg /\ taken \in SUBSET Msg
  BY <1>4, <1>7, <1>9
<1> QED
  BY ONLY <1>5, <1>6, <1>7, <1>9, <1>10

(* Taking the boundaries of the present cycle and serving the children.    *)
LEMMA CollectKeepsInv ==
  ASSUME RadInv, NEW n \in Node, Collect(n)
  PROVE  RadInv'
<1>0. RadTypeOK /\ ExchangeInv /\ TimelineInv /\ FluxInv
  BY DEF RadInv
<1>1. PICK around \in SUBSET {stage[n]}, msg \in Msg, taken \in SUBSET Msg :
        /\ msg.cycle = rcycle[n] /\ msg.data \subseteq {stage[n]}
        /\ \A m \in taken : m.cycle = rcycle[n]
        /\ \A d \in Awaited(n) : Msgs(sibling[n][d], rcycle[n]) \subseteq taken
        /\ ghost' = [ghost EXCEPT ![n] = around]
        /\ sibling' = [m \in Node |-> [d \in Dir |->
             IF m = n THEN sibling[m][d] \ taken
             ELSE sibling[m][d] \cup
                    (IF m \in Children(n) /\ AmrFlag(m, d) THEN {msg} ELSE {})]]
  BY <1>0, CollectFacts
<1>2. /\ pc[n] = "collect"
      /\ pc' = [pc EXCEPT ![n] = IF rk[n] < NRK * Substeps(n) THEN "flux" ELSE "hydro"]
      /\ rcycle' = [rcycle EXCEPT ![n] = @ + 1]
      /\ UNCHANGED <<dts, step, rk, stage, cells, child, wire, niece>>
      /\ \A d \in Awaited(n) : Boundary(n, d) # {}
  BY DEF Collect
<1>3. /\ pc'[n] = IF rk[n] < NRK * Substeps(n) THEN "flux" ELSE "hydro"
      /\ rcycle'[n] = rcycle[n] + 1 /\ ghost'[n] = around
      /\ \A m \in Node \ {n} : /\ pc'[m] = pc[m] /\ rcycle'[m] = rcycle[m]
                              /\ ghost'[m] = ghost[m]
  BY <1>0, <1>1, <1>2 DEF RadTypeOK
<1>4. /\ stage[n] = rcycle[n] + 1 /\ cells[n] = {stage[n]} /\ step[n] # 0
      /\ \A m \in Node : stage[m] \in Nat /\ rcycle[m] \in Nat /\ rcycle'[m] \in Nat
      /\ \A m \in Node : rcycle[m] <= rcycle'[m]
  <2>1. \A m \in Node : stage[m] \in Nat /\ rcycle[m] \in Nat
    BY <1>0, Counters
  <2> QED
    BY <1>0, <1>2, <1>3, <2>1 DEF ExchangeInv, StageInv
<1>5. RadTypeOK'
  <2>1. /\ pc' \in [Node -> {"hydro", "restrict", "collect", "flux", "advance"}]
        /\ rcycle' \in [Node -> Nat]
    BY <1>0, <1>2 DEF RadTypeOK
  <2>2. ghost' \in [Node -> SUBSET Int]
    BY <1>0, <1>1, <1>4 DEF RadTypeOK
  <2>3. \A m \in Node : \A d \in Dir : sibling[m][d] \in SUBSET Msg
    BY <1>0 DEF RadTypeOK
  <2>4. sibling' \in [Node -> [Dir -> SUBSET Msg]]
    <3> HIDE DEF Msg
    <3> QED
      BY ONLY <1>1, <2>3
  <2> QED
    BY <1>0, <1>2, <2>1, <2>2, <2>4 DEF RadTypeOK
<1>6. \A m \in Node : FluxDue(m)' <=> FluxDue(m)
  BY <1>2 DEF FluxDue, More, CeilDiv, AtLeastOne, CellTime
<1>7. FluxDue(n) <=> rk[n] < NRK * Substeps(n)
  BY <1>4 DEF FluxDue, More, Substeps
<1>8. StageInv'
  <2> SUFFICES ASSUME NEW m \in Node
      PROVE  /\ stage'[m] = IF pc'[m] \in {"restrict", "collect"} THEN rcycle'[m] + 1 ELSE rcycle'[m]
             /\ pc'[m] \in {"collect", "flux", "advance"} => cells'[m] = {stage'[m]}
             /\ pc'[m] = "restrict" /\ ~Refined(m) => cells'[m] = {stage'[m]}
             /\ pc'[m] \in {"flux", "advance"} => ghost'[m] \subseteq {stage'[m]} /\ FluxDue(m)'
             /\ pc'[m] = "hydro" => ~FluxDue(m)'
             /\ pc'[m] # "hydro" => step'[m] # 0
    BY DEF StageInv
  <2>1. CASE m = n
    BY <1>0, <1>2, <1>3, <1>4, <1>6, <1>7, <2>1 DEF ExchangeInv, StageInv
  <2>2. CASE m # n
    BY <1>0, <1>2, <1>3, <1>6, <2>2 DEF ExchangeInv, StageInv
  <2> QED
    BY <2>1, <2>2
<1>9. /\ \A m \in Node : Sent(m)' = Sent(m) /\ Sent(m) \in Nat
      /\ Sent(n) = rcycle[n] + 1
  BY <1>2, <1>3, <1>4 DEF Sent
<1>10. \A m \in Node : \A d \in Dir :
         Served(m, d)' >= Served(m, d) /\ Served(m, d) \in Nat /\ Served(m, d)' \in Nat
  BY <1>4, <1>9, TreeFacts DEF Served
<1>11. \A d \in Awaited(n) : d \in Dir /\ rcycle[n] < Served(n, d)
  <2> SUFFICES ASSUME NEW d \in Awaited(n) PROVE d \in Dir /\ rcycle[n] < Served(n, d)
    OBVIOUS
  <2>1. d \in Dir
    BY DEF Awaited
  <2>2. PICK m \in sibling[n][d] : m.cycle = rcycle[n]
    BY <1>2 DEF Boundary, Msgs
  <2> QED
    BY <1>0, <2>1, <2>2 DEF ExchangeInv, SiblingInv
<1>12. WaitInv'
  <2>1. \A m \in Node : \A d \in Awaited(m) : rcycle'[m] <= Served(m, d)'
    <3> SUFFICES ASSUME NEW m \in Node, NEW d \in Awaited(m)
                 PROVE  rcycle'[m] <= Served(m, d)'
      OBVIOUS
    <3>1. d \in Dir /\ rcycle[m] <= Served(m, d)
      BY <1>0 DEF Awaited, ExchangeInv, WaitInv
    <3>2. CASE m = n
      BY <1>3, <1>4, <1>10, <1>11, <3>1, <3>2
    <3>3. CASE m # n
      BY <1>3, <1>4, <1>10, <3>1, <3>3
    <3> QED
      BY <3>2, <3>3
  <2>2. \A c \in Node \ {Root} : Sent(Parent[c])' <= Sent(c)'
    BY <1>0, <1>9, TreeFacts DEF ExchangeInv, WaitInv
  <2> QED
    BY <2>1, <2>2 DEF WaitInv, Awaited
<1>13. ChildInv'
  BY <1>0, <1>2, <1>9, TreeFacts DEF ExchangeInv, ChildInv
<1>14. SiblingInv'
  <2> SUFFICES ASSUME NEW m \in Node, NEW d \in Dir, NEW x \in sibling'[m][d]
               PROVE  /\ rcycle'[m] <= x.cycle /\ x.cycle < Served(m, d)'
                      /\ x.data \subseteq {x.cycle + 1}
    BY DEF SiblingInv
  <2>1. CASE x \in sibling[m][d]
    <3>1. /\ rcycle[m] <= x.cycle /\ x.cycle < Served(m, d)
          /\ x.data \subseteq {x.cycle + 1} /\ x.cycle \in Nat
      BY <1>0, <2>1, Keys DEF ExchangeInv, SiblingInv
    <3>2. CASE m = n
      <4>1. d \in Awaited(n)
        BY <1>9, <3>1, <3>2, <1>4, TreeFacts DEF Awaited, Served
      <4>2. x.cycle # rcycle[n]
        BY <1>1, <2>1, <3>2, <4>1 DEF Msgs
      <4> QED
        BY <1>3, <1>4, <1>10, <3>1, <3>2, <4>2
    <3>3. CASE m # n
      BY <1>3, <1>4, <1>10, <3>1, <3>3
    <3> QED
      BY <3>2, <3>3
  <2>2. CASE x \notin sibling[m][d]
    <3>1. m # n /\ m \in Children(n) /\ AmrFlag(m, d) /\ x = msg
      BY <1>1, <2>2
    <3>2. m # Root /\ Nbr[m][d] = NoNode /\ Parent[m] = n
      BY <3>1, TreeFacts DEF AmrFlag
    <3>3. Served(m, d) = rcycle[n] /\ Served(m, d)' = rcycle[n] + 1
      BY <1>3, <3>2 DEF Served
    <3>4. rcycle[m] <= rcycle[n]
      BY <1>0, <3>2, <3>3 DEF ExchangeInv, WaitInv, Awaited
    <3> QED
      BY <1>1, <1>3, <1>4, <3>1, <3>3, <3>4
  <2> QED
    BY <2>1, <2>2
<1>15. TimelineInv'
  BY <1>0, <1>2, <1>3, TimelineKept
<1>16. FluxInv'
  <2>1. \A m \in Node : Fluxed(m)' = Fluxed(m)
    BY <1>2, <1>3 DEF Fluxed
  <2> QED
    BY <1>0, <1>2, <1>6, <2>1, FluxesKept
<1> QED
  BY <1>5, <1>8, <1>12, <1>13, <1>14, <1>15, <1>16 DEF RadInv, ExchangeInv

(* A step that changes nothing.                                            *)
LEMMA StutterKeepsInv ==
  ASSUME RadInv, UNCHANGED vars
  PROVE  RadInv'
<1> USE DEF vars
<1>0. RadTypeOK /\ ExchangeInv /\ TimelineInv /\ FluxInv
  BY DEF RadInv
<1>1. RadTypeOK'
  BY <1>0 DEF RadTypeOK, exchangeVars
<1>2. \A m \in Node : (FluxDue(m)' <=> FluxDue(m)) /\ Fluxed(m)' = Fluxed(m)
  BY DEF FluxDue, More, CeilDiv, AtLeastOne, CellTime, Fluxed
<1>3. StageInv'
  BY <1>0, <1>2 DEF ExchangeInv, StageInv, exchangeVars
<1>4. ExchangeInv'
  BY <1>0, <1>3, ComputingKeepsChannels DEF ExchangeInv
<1>5. TimelineInv'
  BY <1>0, TimelineKept
<1>6. FluxInv'
  BY <1>0, <1>2, FluxesKept
<1> QED
  BY <1>1, <1>4, <1>5, <1>6 DEF RadInv

(* The invariant holds in every state: the induction the theorems below    *)
(* rest on, for every tree, every dts and every number of stages.          *)
THEOREM RadiationInvariant == Spec => []RadInv
<1>1. RadInv /\ [Next]_vars => RadInv'
  <2> SUFFICES ASSUME RadInv, [Next]_vars PROVE RadInv'
    OBVIOUS
  <2>1. ASSUME NEW n \in Node, Begin(n) PROVE RadInv'
    BY <2>1, BeginKeepsInv
  <2>2. ASSUME NEW n \in Node, Interlevel(n) PROVE RadInv'
    BY <2>2, InterlevelKeepsInv
  <2>3. ASSUME NEW n \in Node, Collect(n) PROVE RadInv'
    BY <2>3, CollectKeepsInv
  <2>4. ASSUME NEW n \in Node, SendFlux(n) PROVE RadInv'
    BY <2>4, SendFluxKeepsInv
  <2>5. ASSUME NEW n \in Node, Advance(n) PROVE RadInv'
    BY <2>5, AdvanceKeepsInv
  <2>6. ASSUME NEW n \in Node, NEW f \in Face, RecvFlux(n, f) PROVE RadInv'
    BY <2>6, RecvFluxKeepsInv
  <2>7. CASE UNCHANGED vars
    BY <2>7, StutterKeepsInv
  <2> QED
    BY <2>1, <2>2, <2>3, <2>4, <2>5, <2>6, <2>7 DEF Next
<1> QED
  BY <1>1, InitHasInv, PTL DEF Spec

-----------------------------------------------------------------------------
(* Whenever a node computes fluxes, its cells and those around it are of   *)
(* its stage, and leaves have computed them all.                           *)
THEOREM RadiationIsFresh == Spec => []RadiationFresh
<1>1. RadInv => RadiationFresh
  BY DEF RadInv, ExchangeInv, StageInv, RadiationFresh
<1> QED
  BY <1>1, RadiationInvariant, PTL

(* A flux between a niece and her aunt is of the stage the aunt is in or   *)
(* comes to correct next, and there is one at most.                        *)
THEOREM RadiationFluxesMatch == Spec => []RadiationFluxMatches
<1>1. ASSUME RadInv PROVE RadiationFluxMatches
  <2> SUFFICES ASSUME NEW a \in Node, NEW f \in Face, NEW c \in Nieces(a, Flip[f])
               PROVE  /\ wire[c][f] \subseteq {stage[a]}
                      /\ \A i \in 1..Len(niece[c][f]) : niece[c][f][i] = stage[a]
                      /\ Cardinality(wire[c][f]) + Len(niece[c][f]) <= 1
    BY DEF RadiationFluxMatches
  <2>1. Between(a, c, f) /\ stage[a] \in Nat
    BY <1>1, Counters DEF RadInv, FluxInv
  <2>2. Cardinality({}) = 0 /\ Cardinality({stage[a]}) = 1
    BY FS_EmptySet, FS_Singleton
  <2>3. CASE niece[c][f] = <<>>
    <3>1. Len(niece[c][f]) = 0 /\ 1..Len(niece[c][f]) = {}
      BY <2>3
    <3>2. wire[c][f] = {} \/ wire[c][f] = {stage[a]}
      BY <2>1 DEF Between
    <3>3. Cardinality(wire[c][f]) \in {0, 1}
      BY <2>2, <3>2
    <3> QED
      BY <3>1, <3>2, <3>3
  <2>4. CASE niece[c][f] # <<>>
    <3>1. niece[c][f] = <<stage[a]>> /\ wire[c][f] = {}
      BY <2>1, <2>4 DEF Between
    <3>2. Len(niece[c][f]) = 1 /\ niece[c][f][1] = stage[a]
      BY <2>1, <3>1
    <3> QED
      BY <2>2, <3>1, <3>2
  <2> QED
    BY <2>3, <2>4
<1> QED
  BY <1>1, RadiationInvariant, PTL

(* When all nodes have done their steps they are in the same stage: a      *)
(* later one would belong to a timestep that nobody takes.                 *)
LEMMA SameLastStage ==
  ASSUME RadInv, \A n \in Node : pc[n] = "hydro" /\ step[n] = Steps,
         NEW m \in Node, NEW n \in Node
  PROVE  stage[m] <= stage[n]
<1> SUFFICES ASSUME stage[n] < stage[m] PROVE FALSE
  BY Counters DEF RadInv
<1>1. stage[n] \in Nat /\ stage[m] \in Nat /\ Steps \in Nat
  BY Counters, RadiationAssumption DEF RadInv
<1>2. PICK S \in [Nat -> Nat], R \in [Nat -> Nat] : Timeline(S, R)
  BY DEF RadInv, TimelineInv
<1>3. S[stage[n]] = Steps /\ S[stage[m]] = Steps /\ ~More(S[stage[n]], R[stage[n]])
  BY <1>2 DEF RadInv, ExchangeInv, StageInv, FluxDue, Timeline
<1>4. /\ stage[n] \in 0..(stage[m] - 1)
      /\ stage[n] + 1 \in 0..stage[m] /\ stage[m] \in 0..stage[m]
      /\ stage[n] + 1 <= stage[m]
  BY <1>1
<1>5. S[stage[n] + 1] = Steps + 1
  BY <1>2, <1>3, <1>4 DEF Timeline
<1>6. S[stage[n] + 1] <= S[stage[m]]
  BY <1>2, <1>4 DEF Timeline
<1> QED
  BY <1>1, <1>3, <1>5, <1>6

(* When all nodes have done their steps no channel holds anything and all  *)
(* keys are the same.                                                      *)
THEOREM RadiationDrains == Spec => []RadiationDrained
<1>1. ASSUME RadInv PROVE RadiationDrained
  <2> SUFFICES ASSUME \A m \in Node : pc[m] = "hydro" /\ step[m] = Steps, NEW n \in Node
               PROVE  /\ rcycle[n] = rcycle[Root] /\ child[n] = {}
                      /\ \A d \in Dir : sibling[n][d] = {}
                      /\ \A f \in Face : wire[n][f] = {} /\ niece[n][f] = <<>>
    BY DEF RadiationDrained
  <2>1. RadTypeOK /\ ExchangeInv /\ FluxInv
    BY <1>1 DEF RadInv
  <2>2. PICK last \in Nat : last = rcycle[Root]
    BY <2>1, Counters, TreeFacts
  <2>3. \A m \in Node : stage[m] = stage[Root]
    <3>1. \A m \in Node : stage[m] <= stage[Root] /\ stage[Root] <= stage[m]
      BY <1>1, SameLastStage, TreeFacts
    <3> QED
      BY <2>1, <3>1, Counters, TreeFacts
  <2>4. \A m \in Node : rcycle[m] = last /\ Sent(m) = last /\ stage[m] = last /\ Fluxed(m) = last
    <3>1. \A m \in Node : stage[m] = rcycle[m]
      BY <2>1 DEF ExchangeInv, StageInv
    <3> QED
      BY <2>2, <2>3, <3>1, TreeFacts DEF Sent, Fluxed
  <2>5. \A m \in Node : \A d \in Dir : Served(m, d) \in Nat /\ Served(m, d) <= last
    BY <2>4, TreeFacts DEF Served
  <2>6. \A d \in Dir : sibling[n][d] = {}
    <3> SUFFICES ASSUME NEW d \in Dir, NEW m \in sibling[n][d] PROVE FALSE
      OBVIOUS
    <3>1. rcycle[n] <= m.cycle /\ m.cycle < Served(n, d) /\ m.cycle \in Nat
      BY <2>1, Keys DEF ExchangeInv, SiblingInv
    <3> QED
      BY <2>4, <2>5, <3>1
  <2>7. child[n] = {}
    <3> SUFFICES ASSUME NEW m \in child[n] PROVE FALSE
      OBVIOUS
    <3>1. /\ n # Root /\ Sent(Parent[n]) <= m.cycle /\ m.cycle < Sent(n)
          /\ m.cycle \in Nat
      BY <2>1, Keys DEF ExchangeInv, ChildInv
    <3>2. Parent[n] \in Node
      BY <3>1, TreeFacts
    <3> QED
      BY <2>4, <3>1, <3>2
  <2>8. \A f \in Face : wire[n][f] = {} /\ niece[n][f] = <<>>
    <3> SUFFICES ASSUME NEW f \in Face PROVE wire[n][f] = {} /\ niece[n][f] = <<>>
      OBVIOUS
    <3>1. CASE ~HasAunt(n, f)
      BY <2>1, <3>1 DEF FluxInv
    <3>2. CASE HasAunt(n, f)
      <4>1. PICK a \in Node : n \in Nieces(a, Flip[f])
        BY <3>2 DEF HasAunt
      <4>2. Between(a, n, f)
        BY <2>1, <4>1 DEF FluxInv
      <4> QED
        BY <2>4, <4>2 DEF Between
    <3> QED
      BY <3>1, <3>2
  <2> QED
    BY <2>2, <2>4, <2>6, <2>7, <2>8
<1> QED
  BY <1>1, RadiationInvariant, PTL
=============================================================================
