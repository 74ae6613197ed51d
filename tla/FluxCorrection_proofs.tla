------------------------ MODULE FluxCorrection_proofs ------------------------
(***************************************************************************)
(* Proofs about modules HydroBounds and FluxCorrection, for every octree,  *)
(* every symmetric neighbor relation and every length of the step.         *)
(*                                                                         *)
(* The first part is about the exchange of boundaries alone.  The second   *)
(* about the fluxes between leaves of different levels, in graded octrees: *)
(* the invariant of the boundary exchange holds back the nieces of a leaf, *)
(* and with that its channels carry one flux at a time.                    *)
(***************************************************************************)
EXTENDS FluxCorrection, SequenceTheorems, FiniteSetTheorems, TLAPS

(* The exchanges for which a node has sent its own cells.                  *)
Sent(n) == IF pc[n] = "collect" THEN hcycle[n] + 1 ELSE hcycle[n]

(* The exchanges served so far in direction d of node n, by the neighbor   *)
(* or else by the parent.                                                  *)
Served(n, d) == IF Nbr[n][d] # NoNode THEN Sent(Nbr[n][d])
                ELSE IF n # Root THEN hcycle[Parent[n]] ELSE 0

(* energy_only of the exchange with key k.                                 *)
EnergyOf(k) == RefinedStep[(k % Len(RefinedStep)) + 1]

StageInv ==
  \A n \in Node :
    /\ stage[n] = IF pc[n] = "work" THEN hcycle[n] ELSE hcycle[n] + 1
    /\ pc[n] # "restrict" \/ ~Refined(n) => cells[n] \subseteq {stage[n]}
    /\ pc[n] = "work" => ghost[n] \subseteq {stage[n]}

(* Nobody has received what was not sent.                                  *)
WaitInv ==
  /\ \A n \in Node : \A d \in Awaited(n) : hcycle[n] <= Served(n, d)
  /\ \A c \in Node \ {Root} : Sent(Parent[c]) <= Sent(c)

UniqueCycles(S) == \A m1, m2 \in S : m1.cycle = m2.cycle => m1 = m2

(* A channel holds, once each, only exchanges sent and not yet taken, made *)
(* of cells of their own stage.                                            *)
ChildInv ==
  \A c \in Node : /\ UniqueCycles(child[c])
                  /\ \A m \in child[c] :
                       /\ c # Root
                       /\ Sent(Parent[c]) <= m.cycle /\ m.cycle < Sent(c)
                       /\ m.data \subseteq {m.cycle + 1}

SiblingInv ==
  \A n \in Node : \A d \in Dir :
    /\ UniqueCycles(sibling[n][d])
    /\ \A m \in sibling[n][d] :
         /\ hcycle[n] <= m.cycle /\ m.cycle < Served(n, d)
         /\ m.data \subseteq {m.cycle + 1}
         /\ m.energy = EnergyOf(m.cycle)

IInv == StageInv /\ WaitInv /\ ChildInv /\ SiblingInv

-----------------------------------------------------------------------------
(* The tree and its neighbor relation as the proofs use them: whoever      *)
(* serves a direction is found by turning it round.                        *)
LEMMA TreeFacts ==
  /\ Root \in Node /\ NoNode \notin Node
  /\ \A c \in Node \ {Root} : Parent[c] \in Node /\ c \in Children(Parent[c])
  /\ \A n \in Node : \A c \in Children(n) : c \in Node \ {Root} /\ Parent[c] = n
  /\ \A n \in Node : \A d \in Dir :
       /\ Flip[d] \in Dir
       /\ Nbr[n][d] # NoNode => Nbr[n][d] \in Node
       /\ \A m \in Node : Nbr[n][Flip[d]] = m => Nbr[m][d] = n
  BY TreeAssumption DEF Children, ChildNodes

(* Refined and unrefined nodes make the same exchanges in a step.          *)
LEMMA StepsAlike == \A n \in Node : StepOf(n) = RefinedStep
  BY DEF StepOf, RefinedStep, NonrefinedStep

(* A step has at least one exchange, and energy_only is a Boolean for      *)
(* each.                                                                   *)
LEMMA StepType == /\ RefinedStep \in Seq(BOOLEAN)
                  /\ Len(RefinedStep) \in Nat \ {0}
                  /\ \A k \in Nat : EnergyOf(k) \in BOOLEAN
<1> DEFINE rks == [rk \in 1..NRK |-> rk = NRK]
           rad == IF Radiation THEN <<FALSE>> ELSE <<>>
<1>1. <<FALSE>> \in Seq(BOOLEAN) /\ Len(<<FALSE>>) = 1
  OBVIOUS
<1>2. rks \in Seq(BOOLEAN)
  <2>1. NRK \in Nat /\ rks \in [1..NRK -> BOOLEAN]
    BY StepAssumption
  <2> HIDE DEF rks
  <2> QED
    BY <2>1
<1>3. rad \in Seq(BOOLEAN)
  <2>1. <<>> \in Seq(BOOLEAN)
    BY EmptySeq
  <2> QED
    BY <1>1, <2>1
<1> HIDE DEF rks, rad
<1>4. <<FALSE>> \o rks \in Seq(BOOLEAN) /\ Len(<<FALSE>> \o rks) = 1 + Len(rks)
  BY <1>1, <1>2, ConcatProperties
<1>5. /\ <<FALSE>> \o rks \o rad \in Seq(BOOLEAN)
      /\ Len(<<FALSE>> \o rks \o rad) = 1 + Len(rks) + Len(rad)
  BY <1>3, <1>4, ConcatProperties
<1>6. Len(rks) \in Nat /\ Len(rad) \in Nat
  BY <1>2, <1>3
<1>7. RefinedStep \in Seq(BOOLEAN) /\ Len(RefinedStep) \in Nat \ {0}
  <2>1. RefinedStep = <<FALSE>> \o rks \o rad
    BY DEF RefinedStep, rks, rad
  <2> QED
    BY <1>5, <1>6, <2>1
<1>8. ASSUME NEW k \in Nat PROVE EnergyOf(k) \in BOOLEAN
  <2>1. (k % Len(RefinedStep)) + 1 \in 1..Len(RefinedStep)
    BY <1>7
  <2> QED
    BY <1>7, <2>1 DEF EnergyOf
<1> QED
  BY <1>7, <1>8

(* What a node takes for energy_only is fixed by its hcycle.               *)
LEMMA EnergyType ==
  ASSUME TypeOK, IInv, NEW n \in Node, pc[n] # "work"
  PROVE  Energy(n) = EnergyOf(hcycle[n]) /\ Energy(n) \in BOOLEAN
<1>1. stage[n] - 1 = hcycle[n] /\ hcycle[n] \in Nat
  BY DEF TypeOK, IInv, StageInv
<1>2. Energy(n) = EnergyOf(hcycle[n])
  BY <1>1, StepsAlike DEF Energy, EnergyOf
<1> QED
  BY <1>1, <1>2, StepType

(* What a node sends when it has its children's cells.                     *)
LEMMA InterlevelFacts ==
  ASSUME TypeOK, IInv, NEW n \in Node, Interlevel(n)
  PROVE  \E own \in SUBSET {stage[n]}, msg \in Msg, up \in Msg, taken \in SUBSET Msg :
           /\ own \subseteq Nat
           /\ msg.cycle = hcycle[n] /\ msg.data = own
           /\ msg.energy = EnergyOf(hcycle[n])
           /\ up.cycle = hcycle[n] /\ up.data = own
           /\ \A m \in taken : m.cycle = hcycle[n]
           /\ \A c \in Children(n) : Msgs(child[c], hcycle[n]) \subseteq taken
           /\ cells' = [cells EXCEPT ![n] = own]
           /\ child' = [c \in Node |->
                IF c \in Children(n) THEN child[c] \ taken
                ELSE IF c = n /\ n # Root THEN child[c] \cup {up} ELSE child[c]]
           /\ sibling' = [m \in Node |-> [d \in Dir |->
                IF Nbr[n][Flip[d]] = m THEN sibling[m][d] \cup {msg}
                                       ELSE sibling[m][d]]]
<1> DEFINE taken == UNION {Msgs(child[c], hcycle[n]) : c \in Children(n)}
           own == IF Refined(n) THEN UNION {m.data : m \in taken} ELSE cells[n]
           msg == [cycle |-> hcycle[n], data |-> own, energy |-> Energy(n), from |-> n]
           up == [msg EXCEPT !.energy = FALSE]
<1>1. stage[n] = hcycle[n] + 1 /\ stage[n] \in Nat /\ hcycle[n] \in Nat
  BY DEF TypeOK, IInv, StageInv, Interlevel
<1>2. \A m \in taken : m \in Msg /\ m.cycle = hcycle[n] /\ m.data \subseteq {stage[n]}
  BY <1>1, TreeFacts DEF Msgs, TypeOK, IInv, ChildInv
<1>3. own \subseteq {stage[n]}
  BY <1>2 DEF IInv, StageInv, Interlevel
<1>4. own \subseteq Nat
  BY <1>1, <1>3
<1>5. Energy(n) = EnergyOf(hcycle[n]) /\ Energy(n) \in BOOLEAN
  BY EnergyType DEF Interlevel
<1> HIDE DEF own
<1>6. msg \in Msg /\ up \in Msg
  BY <1>1, <1>4, <1>5 DEF Msg
<1>7. /\ cells' = [cells EXCEPT ![n] = own]
      /\ child' = [c \in Node |->
           IF c \in Children(n) THEN child[c] \ taken
           ELSE IF c = n /\ n # Root THEN child[c] \cup {up} ELSE child[c]]
      /\ sibling' = [m \in Node |-> [d \in Dir |->
           IF Nbr[n][Flip[d]] = m THEN sibling[m][d] \cup {msg}
                                  ELSE sibling[m][d]]]
  BY DEF Interlevel, own
<1>8. \A c \in Children(n) : Msgs(child[c], hcycle[n]) \subseteq taken
  OBVIOUS
<1>9. /\ msg.cycle = hcycle[n] /\ msg.data = own /\ msg.energy = EnergyOf(hcycle[n])
      /\ up.cycle = hcycle[n] /\ up.data = own
  BY <1>5
<1>10. taken \in SUBSET Msg /\ \A m \in taken : m.cycle = hcycle[n]
  BY <1>2
<1> HIDE DEF taken, msg, up
<1> own \in SUBSET {stage[n]} /\ msg \in Msg /\ up \in Msg /\ taken \in SUBSET Msg
  BY <1>3, <1>6, <1>10
<1> WITNESS own \in SUBSET {stage[n]}, msg \in Msg, up \in Msg, taken \in SUBSET Msg
<1> QED
  BY <1>4, <1>7, <1>8, <1>9, <1>10

(* What a node gets, and sends down, when all its boundaries have arrived. *)
LEMMA CollectFacts ==
  ASSUME TypeOK, IInv, NEW n \in Node, Collect(n)
  PROVE  \E around \in SUBSET {stage[n]}, msg \in Msg, taken \in SUBSET Msg :
           /\ around \subseteq Nat
           /\ msg.cycle = hcycle[n] /\ msg.data \subseteq {stage[n]}
           /\ msg.energy = EnergyOf(hcycle[n])
           /\ \A m \in taken : m.cycle = hcycle[n]
           /\ \A d \in Awaited(n) : Msgs(sibling[n][d], hcycle[n]) \subseteq taken
           /\ ghost' = [ghost EXCEPT ![n] = around]
           /\ sibling' = [m \in Node |-> [d \in Dir |->
                IF m = n THEN sibling[m][d] \ taken
                ELSE IF m \in Children(n) /\ AmrFlag(m, d)
                     THEN sibling[m][d] \cup {msg} ELSE sibling[m][d]]]
<1> DEFINE taken == UNION {Msgs(sibling[n][d], hcycle[n]) : d \in Awaited(n)}
           around == UNION {m.data : m \in taken}
           msg == [cycle |-> hcycle[n], data |-> cells[n] \cup around,
                   energy |-> Energy(n), from |-> n]
<1>1. /\ stage[n] = hcycle[n] + 1 /\ stage[n] \in Nat /\ hcycle[n] \in Nat
      /\ cells[n] \subseteq {stage[n]}
  BY DEF TypeOK, IInv, StageInv, Collect
<1>2. \A d \in Awaited(n) : d \in Dir
  BY DEF Awaited
<1>3. \A m \in taken : m \in Msg /\ m.cycle = hcycle[n] /\ m.data \subseteq {stage[n]}
  BY <1>1, <1>2 DEF Msgs, TypeOK, IInv, SiblingInv
<1>4. around \subseteq {stage[n]}
  BY <1>3
<1>5. /\ ghost' = [ghost EXCEPT ![n] = around]
      /\ sibling' = [m \in Node |-> [d \in Dir |->
           IF m = n THEN sibling[m][d] \ taken
           ELSE IF m \in Children(n) /\ AmrFlag(m, d)
                THEN sibling[m][d] \cup {msg} ELSE sibling[m][d]]]
  BY DEF Collect
<1>6. \A d \in Awaited(n) : Msgs(sibling[n][d], hcycle[n]) \subseteq taken
  OBVIOUS
<1>7. taken \in SUBSET Msg /\ \A m \in taken : m.cycle = hcycle[n]
  BY <1>3
<1> HIDE DEF taken, around
<1>8. Energy(n) = EnergyOf(hcycle[n]) /\ Energy(n) \in BOOLEAN
  BY EnergyType DEF Collect
<1>9. around \subseteq Nat /\ cells[n] \cup around \subseteq {stage[n]}
      /\ cells[n] \cup around \in SUBSET Nat
  BY <1>1, <1>4
<1>10. /\ msg \in Msg /\ msg.cycle = hcycle[n] /\ msg.data \subseteq {stage[n]}
       /\ msg.energy = EnergyOf(hcycle[n])
  BY <1>1, <1>8, <1>9 DEF Msg
<1> HIDE DEF msg
<1>11. around \in SUBSET {stage[n]} /\ msg \in Msg /\ taken \in SUBSET Msg
  BY <1>4, <1>7, <1>10
<1>12. /\ around \subseteq Nat
       /\ msg.cycle = hcycle[n] /\ msg.data \subseteq {stage[n]}
       /\ msg.energy = EnergyOf(hcycle[n])
       /\ \A m \in taken : m.cycle = hcycle[n]
       /\ \A d \in Awaited(n) : Msgs(sibling[n][d], hcycle[n]) \subseteq taken
  BY <1>6, <1>7, <1>9, <1>10
<1> QED
  BY ONLY <1>5, <1>11, <1>12

-----------------------------------------------------------------------------
(* All counters start at zero and no channel holds anything.               *)
LEMMA InitInv == Init => TypeOK /\ IInv
<1> SUFFICES ASSUME Init PROVE TypeOK /\ IInv
  OBVIOUS
<1>1. TypeOK
  BY DEF Init, TypeOK
<1>2. \A n \in Node : hcycle[n] = 0 /\ Sent(n) = 0
  BY DEF Init, Sent
<1>3. StageInv
  BY DEF Init, StageInv
<1>4. WaitInv
  <2>1. \A n \in Node : \A d \in Dir : Served(n, d) = 0
    <3> SUFFICES ASSUME NEW n \in Node, NEW d \in Dir PROVE Served(n, d) = 0
      OBVIOUS
    <3>1. CASE Nbr[n][d] # NoNode
      <4>1. Nbr[n][d] \in Node
        BY <3>1, TreeFacts
      <4> QED
        BY <1>2, <3>1, <4>1 DEF Served
    <3>2. CASE Nbr[n][d] = NoNode
      <4>1. n # Root => Parent[n] \in Node
        BY TreeFacts
      <4> QED
        BY <1>2, <3>2, <4>1 DEF Served
    <3> QED
      BY <3>1, <3>2
  <2> QED
    BY <1>2, <2>1, TreeFacts DEF WaitInv, Awaited
<1>5. ChildInv /\ SiblingInv
  BY DEF Init, ChildInv, SiblingInv, UniqueCycles
<1> QED
  BY <1>1, <1>3, <1>4, <1>5 DEF IInv

(* A node's work disturbs no channel.                                      *)
LEMMA WorkInv ==
  ASSUME TypeOK, IInv, NEW n \in Node, Work(n)
  PROVE  TypeOK' /\ IInv'
<1>1. /\ pc[n] = "work" /\ pc'[n] = "restrict"
      /\ stage'[n] = stage[n] + 1 /\ stage[n] \in Nat
      /\ hcycle' = hcycle /\ ghost' = ghost /\ child' = child /\ sibling' = sibling
      /\ \A m \in Node : m # n => /\ pc'[m] = pc[m] /\ stage'[m] = stage[m]
                                /\ cells'[m] = cells[m]
      /\ ~Refined(n) => cells'[n] = {stage[n] + 1}
  BY DEF Work, TypeOK
<1>2. TypeOK'
  <2>1. pc' \in [Node -> {"work", "restrict", "collect"}] /\ stage' \in [Node -> Nat]
    BY DEF Work, TypeOK
  <2>2. cells' \in [Node -> SUBSET Nat]
    <3>1. {stage[n] + 1} \in SUBSET Nat
      BY <1>1
    <3> QED
      BY <3>1 DEF Work, TypeOK
  <2> QED
    BY <1>1, <2>1, <2>2 DEF TypeOK
<1>3. \A m \in Node : Sent(m)' = Sent(m)
  BY <1>1 DEF Sent
<1>4. \A m \in Node : \A d \in Dir : Served(m, d)' = Served(m, d)
  BY <1>1, <1>3, TreeFacts DEF Served
<1>5. StageInv'
  <2> SUFFICES ASSUME NEW m \in Node
               PROVE  /\ stage'[m] = IF pc'[m] = "work" THEN hcycle'[m] ELSE hcycle'[m] + 1
                      /\ pc'[m] # "restrict" \/ ~Refined(m) => cells'[m] \subseteq {stage'[m]}
                      /\ pc'[m] = "work" => ghost'[m] \subseteq {stage'[m]}
    BY DEF StageInv
  <2>1. CASE m = n
    BY <1>1, <2>1 DEF IInv, StageInv
  <2>2. CASE m # n
    BY <1>1, <2>2 DEF IInv, StageInv
  <2> QED
    BY <2>1, <2>2
<1>6. WaitInv'
  BY <1>1, <1>3, <1>4, TreeFacts DEF IInv, WaitInv, Awaited
<1>7. ChildInv' /\ SiblingInv'
  BY <1>1, <1>3, <1>4, TreeFacts DEF IInv, ChildInv, SiblingInv
<1> QED
  BY <1>2, <1>5, <1>6, <1>7 DEF IInv

(* The nodes whose channels a step of n fills, seen from the channel.      *)
LEMMA InterlevelInv ==
  ASSUME TypeOK, IInv, NEW n \in Node, Interlevel(n)
  PROVE  TypeOK' /\ IInv'
<1>1. PICK own \in SUBSET {stage[n]}, msg \in Msg, up \in Msg, taken \in SUBSET Msg :
        /\ own \subseteq Nat
        /\ msg.cycle = hcycle[n] /\ msg.data = own
        /\ msg.energy = EnergyOf(hcycle[n])
        /\ up.cycle = hcycle[n] /\ up.data = own
        /\ \A m \in taken : m.cycle = hcycle[n]
        /\ \A c \in Children(n) : Msgs(child[c], hcycle[n]) \subseteq taken
        /\ cells' = [cells EXCEPT ![n] = own]
        /\ child' = [c \in Node |->
             IF c \in Children(n) THEN child[c] \ taken
             ELSE IF c = n /\ n # Root THEN child[c] \cup {up} ELSE child[c]]
        /\ sibling' = [m \in Node |-> [d \in Dir |->
             IF Nbr[n][Flip[d]] = m THEN sibling[m][d] \cup {msg}
                                    ELSE sibling[m][d]]]
  BY InterlevelFacts
<1>2. /\ pc[n] = "restrict" /\ pc'[n] = "collect"
      /\ hcycle[n] \in Nat /\ stage[n] = hcycle[n] + 1
      /\ hcycle' = hcycle /\ ghost' = ghost /\ stage' = stage
      /\ cells'[n] = own
      /\ \A m \in Node : m # n => pc'[m] = pc[m] /\ cells'[m] = cells[m]
  BY <1>1 DEF Interlevel, TypeOK, IInv, StageInv
<1>3. TypeOK'
  <2>1. pc' \in [Node -> {"work", "restrict", "collect"}] /\ cells' \in [Node -> SUBSET Nat]
    BY <1>1 DEF Interlevel, TypeOK
  <2>2. child' \in [Node -> SUBSET Msg] /\ sibling' \in [Node -> [Dir -> SUBSET Msg]]
    BY <1>1 DEF TypeOK
  <2> QED
    BY <1>2, <2>1, <2>2 DEF TypeOK
<1>4. /\ Sent(n) = hcycle[n] /\ Sent(n)' = hcycle[n] + 1
      /\ \A m \in Node : m # n => Sent(m)' = Sent(m)
      /\ \A m \in Node : Sent(m) \in Nat /\ Sent(m)' >= Sent(m)
  BY <1>2 DEF Sent, TypeOK
<1>5. \A m \in Node : \A d \in Dir :
        Served(m, d)' >= Served(m, d) /\ Served(m, d) \in Nat /\ Served(m, d)' \in Nat
  <2> SUFFICES ASSUME NEW m \in Node, NEW d \in Dir
               PROVE  /\ Served(m, d)' >= Served(m, d)
                      /\ Served(m, d) \in Nat /\ Served(m, d)' \in Nat
    OBVIOUS
  <2>1. CASE Nbr[m][d] # NoNode
    <3>1. Nbr[m][d] \in Node
      BY <2>1, TreeFacts
    <3> QED
      BY <1>4, <2>1, <3>1 DEF Served
  <2>2. CASE Nbr[m][d] = NoNode
    <3>1. m # Root => Parent[m] \in Node
      BY TreeFacts
    <3> QED
      BY <1>2, <2>2, <3>1 DEF Served, TypeOK
  <2> QED
    BY <2>1, <2>2
<1>6. \A c \in Children(n) : hcycle[n] < Sent(c)
  <2> SUFFICES ASSUME NEW c \in Children(n) PROVE hcycle[n] < Sent(c)
    OBVIOUS
  <2>1. PICK m \in child[c] : m.cycle = hcycle[n]
    BY DEF Interlevel, Msgs
  <2> QED
    BY <2>1, TreeFacts DEF IInv, ChildInv
<1>7. StageInv'
  <2> SUFFICES ASSUME NEW m \in Node
               PROVE  /\ stage'[m] = IF pc'[m] = "work" THEN hcycle'[m] ELSE hcycle'[m] + 1
                      /\ pc'[m] # "restrict" \/ ~Refined(m) => cells'[m] \subseteq {stage'[m]}
                      /\ pc'[m] = "work" => ghost'[m] \subseteq {stage'[m]}
    BY DEF StageInv
  <2> QED
    BY <1>2 DEF IInv, StageInv
<1>8. WaitInv'
  <2>1. \A m \in Node : \A d \in Awaited(m) : hcycle'[m] <= Served(m, d)'
    <3> SUFFICES ASSUME NEW m \in Node, NEW d \in Awaited(m)
                 PROVE  hcycle'[m] <= Served(m, d)'
      OBVIOUS
    <3>1. d \in Dir /\ hcycle[m] <= Served(m, d) /\ hcycle[m] \in Nat
      BY DEF Awaited, IInv, WaitInv, TypeOK
    <3> QED
      BY <1>2, <1>5, <3>1
  <2>2. \A c \in Node \ {Root} : Sent(Parent[c])' <= Sent(c)'
    <3> SUFFICES ASSUME NEW c \in Node \ {Root} PROVE Sent(Parent[c])' <= Sent(c)'
      OBVIOUS
    <3>1. Parent[c] \in Node /\ c \in Children(Parent[c]) /\ Sent(Parent[c]) <= Sent(c)
      BY TreeFacts DEF IInv, WaitInv
    <3>2. CASE Parent[c] = n
      BY <1>2, <1>4, <1>6, <3>1, <3>2
    <3>3. CASE Parent[c] # n
      BY <1>4, <3>1, <3>3
    <3> QED
      BY <3>2, <3>3
  <2> QED
    BY <2>1, <2>2 DEF WaitInv, Awaited
<1>9. ChildInv'
  <2> SUFFICES ASSUME NEW c \in Node
               PROVE  /\ UniqueCycles(child'[c])
                      /\ \A m \in child'[c] :
                           /\ c # Root
                           /\ Sent(Parent[c])' <= m.cycle /\ m.cycle < Sent(c)'
                           /\ m.data \subseteq {m.cycle + 1}
    BY DEF ChildInv, UniqueCycles
  <2>1. /\ UniqueCycles(child[c])
        /\ \A m \in child[c] :
             /\ c # Root
             /\ Sent(Parent[c]) <= m.cycle /\ m.cycle < Sent(c)
             /\ m.data \subseteq {m.cycle + 1} /\ m.cycle \in Nat
    BY DEF IInv, ChildInv, TypeOK, Msg
  <2>2. CASE c \in Children(n)
    <3>1. child'[c] = child[c] \ taken /\ Parent[c] = n
      BY <1>1, <2>2, TreeFacts
    <3>2. \A m \in child'[c] : m \in child[c] /\ m.cycle # hcycle[n]
      BY <1>1, <2>2, <3>1 DEF Msgs
    <3> QED
      BY <1>4, <2>1, <3>1, <3>2 DEF UniqueCycles
  <2>3. CASE c = n /\ n # Root /\ c \notin Children(n)
    <3>1. child'[c] = child[c] \cup {up}
      BY <1>1, <2>3
    <3>2. Parent[c] \in Node /\ Parent[c] # n /\ Sent(Parent[c]) <= Sent(c)
      BY <2>3, TreeFacts DEF IInv, WaitInv
    <3>3. up.cycle = hcycle[n] /\ up.data \subseteq {up.cycle + 1}
      BY <1>1, <1>2
    <3> QED
      BY <1>2, <1>4, <2>1, <2>3, <3>1, <3>2, <3>3 DEF UniqueCycles
  <2>4. CASE c \notin Children(n) /\ ~(c = n /\ n # Root)
    <3>1. child'[c] = child[c]
      BY <1>1, <2>4
    <3>2. c # Root => Parent[c] \in Node /\ Parent[c] # n
      BY <2>4, TreeFacts
    <3> QED
      BY <1>4, <2>1, <3>1, <3>2
  <2> QED
    BY <2>2, <2>3, <2>4
<1>10. SiblingInv'
  <2> SUFFICES ASSUME NEW m \in Node, NEW d \in Dir
               PROVE  /\ UniqueCycles(sibling'[m][d])
                      /\ \A x \in sibling'[m][d] :
                           /\ hcycle'[m] <= x.cycle /\ x.cycle < Served(m, d)'
                           /\ x.data \subseteq {x.cycle + 1}
                           /\ x.energy = EnergyOf(x.cycle)
    BY DEF SiblingInv, UniqueCycles
  <2>1. /\ UniqueCycles(sibling[m][d])
        /\ \A x \in sibling[m][d] :
             /\ hcycle[m] <= x.cycle /\ x.cycle < Served(m, d)
             /\ x.data \subseteq {x.cycle + 1} /\ x.cycle \in Nat
             /\ x.energy = EnergyOf(x.cycle)
    BY DEF IInv, SiblingInv, TypeOK, Msg
  <2>2. CASE Nbr[n][Flip[d]] = m
    <3>1. sibling'[m][d] = sibling[m][d] \cup {msg}
      BY <1>1, <2>2
    <3>2. Nbr[m][d] = n /\ n # NoNode
      BY <2>2, TreeFacts
    <3>3. Served(m, d) = hcycle[n] /\ Served(m, d)' = hcycle[n] + 1
      BY <1>4, <3>2 DEF Served
    <3>4. hcycle[m] <= hcycle[n]
      BY <3>2, <3>3 DEF IInv, WaitInv, Awaited
    <3>5. msg.cycle = hcycle[n] /\ msg.data \subseteq {msg.cycle + 1}
          /\ msg.energy = EnergyOf(msg.cycle)
      BY <1>1, <1>2
    <3> QED
      BY <1>2, <2>1, <3>1, <3>3, <3>4, <3>5 DEF UniqueCycles
  <2>3. CASE Nbr[n][Flip[d]] # m
    <3>1. sibling'[m][d] = sibling[m][d]
      BY <1>1, <2>3
    <3> QED
      BY <1>2, <1>5, <2>1, <3>1
  <2> QED
    BY <2>2, <2>3
<1> QED
  BY <1>3, <1>7, <1>8, <1>9, <1>10 DEF IInv

(* Taking the boundaries of the present cycle and serving the children.    *)
LEMMA CollectInv ==
  ASSUME TypeOK, IInv, NEW n \in Node, Collect(n)
  PROVE  TypeOK' /\ IInv'
<1>1. PICK around \in SUBSET {stage[n]}, msg \in Msg, taken \in SUBSET Msg :
        /\ around \subseteq Nat
        /\ msg.cycle = hcycle[n] /\ msg.data \subseteq {stage[n]}
        /\ msg.energy = EnergyOf(hcycle[n])
        /\ \A m \in taken : m.cycle = hcycle[n]
        /\ \A d \in Awaited(n) : Msgs(sibling[n][d], hcycle[n]) \subseteq taken
        /\ ghost' = [ghost EXCEPT ![n] = around]
        /\ sibling' = [m \in Node |-> [d \in Dir |->
             IF m = n THEN sibling[m][d] \ taken
             ELSE IF m \in Children(n) /\ AmrFlag(m, d)
                  THEN sibling[m][d] \cup {msg} ELSE sibling[m][d]]]
  BY CollectFacts
<1>2. /\ pc[n] = "collect" /\ pc'[n] = "work"
      /\ hcycle[n] \in Nat /\ stage[n] = hcycle[n] + 1 /\ hcycle'[n] = hcycle[n] + 1
      /\ cells' = cells /\ stage' = stage /\ child' = child /\ ghost'[n] = around
      /\ \A m \in Node : m # n => /\ pc'[m] = pc[m] /\ hcycle'[m] = hcycle[m]
                                /\ ghost'[m] = ghost[m]
  BY <1>1 DEF Collect, TypeOK, IInv, StageInv
<1>3. TypeOK'
  <2>1. /\ pc' \in [Node -> {"work", "restrict", "collect"}] /\ hcycle' \in [Node -> Nat]
        /\ stage' \in [Node -> Nat] /\ cells' \in [Node -> SUBSET Nat]
        /\ child' \in [Node -> SUBSET Msg]
    BY DEF Collect, TypeOK
  <2>2. ghost' \in [Node -> SUBSET Nat]
    BY <1>1 DEF TypeOK
  <2>3. sibling' \in [Node -> [Dir -> SUBSET Msg]]
    <3>1. \A m \in Node : \A d \in Dir : sibling[m][d] \in SUBSET Msg
      BY DEF TypeOK
    <3> HIDE DEF Msg
    <3> QED
      BY ONLY <1>1, <3>1
  <2> QED
    BY <2>1, <2>2, <2>3 DEF TypeOK
<1>4. /\ \A m \in Node : Sent(m)' = Sent(m) /\ Sent(m) \in Nat
      /\ \A m \in Node : hcycle'[m] >= hcycle[m] /\ hcycle[m] \in Nat /\ hcycle'[m] \in Nat
      /\ Sent(n) = hcycle[n] + 1
  <2>1. \A m \in Node : hcycle[m] \in Nat /\ hcycle'[m] >= hcycle[m] /\ hcycle'[m] \in Nat
    BY <1>2 DEF TypeOK
  <2>2. \A m \in Node : Sent(m)' = Sent(m) /\ Sent(m) \in Nat
    BY <1>2, <2>1 DEF Sent
  <2> QED
    BY <1>2, <2>1, <2>2 DEF Sent
<1>5. \A m \in Node : \A d \in Dir :
        Served(m, d)' >= Served(m, d) /\ Served(m, d) \in Nat /\ Served(m, d)' \in Nat
  <2> SUFFICES ASSUME NEW m \in Node, NEW d \in Dir
               PROVE  /\ Served(m, d)' >= Served(m, d)
                      /\ Served(m, d) \in Nat /\ Served(m, d)' \in Nat
    OBVIOUS
  <2>1. CASE Nbr[m][d] # NoNode
    <3>1. Nbr[m][d] \in Node
      BY <2>1, TreeFacts
    <3> QED
      BY <1>4, <2>1, <3>1 DEF Served
  <2>2. CASE Nbr[m][d] = NoNode
    <3>1. m # Root => Parent[m] \in Node
      BY TreeFacts
    <3> QED
      BY <1>4, <2>2, <3>1 DEF Served
  <2> QED
    BY <2>1, <2>2
<1>6. \A d \in Awaited(n) : d \in Dir /\ hcycle[n] < Served(n, d)
  <2> SUFFICES ASSUME NEW d \in Awaited(n) PROVE d \in Dir /\ hcycle[n] < Served(n, d)
    OBVIOUS
  <2>1. d \in Dir
    BY DEF Awaited
  <2>2. PICK m \in sibling[n][d] : m.cycle = hcycle[n]
    BY DEF Collect, Msgs
  <2> QED
    BY <2>1, <2>2 DEF IInv, SiblingInv
<1>7. StageInv'
  <2> SUFFICES ASSUME NEW m \in Node
               PROVE  /\ stage'[m] = IF pc'[m] = "work" THEN hcycle'[m] ELSE hcycle'[m] + 1
                      /\ pc'[m] # "restrict" \/ ~Refined(m) => cells'[m] \subseteq {stage'[m]}
                      /\ pc'[m] = "work" => ghost'[m] \subseteq {stage'[m]}
    BY DEF StageInv
  <2> QED
    BY <1>2 DEF IInv, StageInv
<1>8. WaitInv'
  <2>1. \A m \in Node : \A d \in Awaited(m) : hcycle'[m] <= Served(m, d)'
    <3> SUFFICES ASSUME NEW m \in Node, NEW d \in Awaited(m)
                 PROVE  hcycle'[m] <= Served(m, d)'
      OBVIOUS
    <3>1. d \in Dir /\ hcycle[m] <= Served(m, d)
      BY DEF Awaited, IInv, WaitInv
    <3>2. CASE m = n
      BY <1>2, <1>5, <1>6, <3>1, <3>2
    <3>3. CASE m # n
      BY <1>2, <1>4, <1>5, <3>1, <3>3
    <3> QED
      BY <3>2, <3>3
  <2>2. \A c \in Node \ {Root} : Sent(Parent[c])' <= Sent(c)'
    BY <1>4, TreeFacts DEF IInv, WaitInv
  <2> QED
    BY <2>1, <2>2 DEF WaitInv, Awaited
<1>9. ChildInv'
  BY <1>2, <1>4, TreeFacts DEF IInv, ChildInv
<1>10. SiblingInv'
  <2> SUFFICES ASSUME NEW m \in Node, NEW d \in Dir
               PROVE  /\ UniqueCycles(sibling'[m][d])
                      /\ \A x \in sibling'[m][d] :
                           /\ hcycle'[m] <= x.cycle /\ x.cycle < Served(m, d)'
                           /\ x.data \subseteq {x.cycle + 1}
                           /\ x.energy = EnergyOf(x.cycle)
    BY DEF SiblingInv, UniqueCycles
  <2>1. /\ UniqueCycles(sibling[m][d])
        /\ \A x \in sibling[m][d] :
             /\ hcycle[m] <= x.cycle /\ x.cycle < Served(m, d)
             /\ x.data \subseteq {x.cycle + 1} /\ x.cycle \in Nat
             /\ x.energy = EnergyOf(x.cycle)
    BY DEF IInv, SiblingInv, TypeOK, Msg
  <2>2. CASE m = n /\ d \in Awaited(n)
    <3>1. sibling'[m][d] = sibling[m][d] \ taken
      BY <1>1, <2>2
    <3>2. \A x \in sibling'[m][d] : x \in sibling[m][d] /\ x.cycle # hcycle[n]
      BY <1>1, <2>2, <3>1 DEF Msgs
    <3> QED
      BY <1>2, <1>5, <2>1, <2>2, <3>2 DEF UniqueCycles
  <2>3. CASE m = n /\ d \notin Awaited(n)
    <3>1. sibling'[m][d] \subseteq sibling[m][d]
      BY <1>1, <2>3
    <3>2. Served(m, d) = 0
      BY <2>3, TreeFacts DEF Awaited, Served
    <3>3. sibling'[m][d] = {}
      BY <1>4, <2>1, <3>1, <3>2
    <3> QED
      BY <3>3 DEF UniqueCycles
  <2>4. CASE m # n /\ m \in Children(n) /\ AmrFlag(m, d)
    <3>1. sibling'[m][d] = sibling[m][d] \cup {msg}
      BY <1>1, <2>4
    <3>2. m # Root /\ Nbr[m][d] = NoNode /\ Parent[m] = n
      BY <2>4, TreeFacts DEF AmrFlag
    <3>3. Served(m, d) = hcycle[n] /\ Served(m, d)' = hcycle[n] + 1
      BY <1>2, <3>2 DEF Served
    <3>4. hcycle[m] <= hcycle[n]
      BY <3>2, <3>3 DEF IInv, WaitInv, Awaited
    <3>5. msg.cycle = hcycle[n] /\ msg.data \subseteq {msg.cycle + 1}
          /\ msg.energy = EnergyOf(msg.cycle)
      BY <1>1, <1>2
    <3> QED
      BY <1>2, <2>1, <2>4, <3>1, <3>3, <3>4, <3>5 DEF UniqueCycles
  <2>5. CASE m # n /\ ~(m \in Children(n) /\ AmrFlag(m, d))
    <3>1. sibling'[m][d] = sibling[m][d]
      BY <1>1, <2>5
    <3> QED
      BY <1>2, <1>5, <2>1, <2>5, <3>1
  <2> QED
    BY <2>2, <2>3, <2>4, <2>5
<1> QED
  BY <1>3, <1>7, <1>8, <1>9, <1>10 DEF IInv

(* A step that changes nothing.                                            *)
LEMMA StutterInv ==
  ASSUME TypeOK, IInv, UNCHANGED vars
  PROVE  TypeOK' /\ IInv'
<1>1. TypeOK'
  BY DEF TypeOK, vars
<1>2. \A n \in Node : Sent(n)' = Sent(n) /\ \A d \in Dir : Served(n, d)' = Served(n, d)
  BY DEF Sent, Served, vars
<1>3. StageInv' /\ WaitInv'
  BY <1>2 DEF IInv, StageInv, WaitInv, Awaited, Sent, Served, vars
<1>4. ChildInv' /\ SiblingInv'
  BY <1>2 DEF IInv, ChildInv, SiblingInv, Sent, Served, vars
<1> QED
  BY <1>1, <1>3, <1>4 DEF IInv

(* Every variable keeps its type and the strengthened invariant holds in   *)
(* every state: the induction the theorems below rest on.                  *)
THEOREM Invariance == Spec => [](TypeOK /\ IInv)
<1>1. Init => TypeOK /\ IInv
  BY InitInv
<1>2. TypeOK /\ IInv /\ [Next]_vars => (TypeOK /\ IInv)'
  <2> SUFFICES ASSUME TypeOK, IInv, [Next]_vars PROVE (TypeOK /\ IInv)'
    OBVIOUS
  <2>1. ASSUME NEW n \in Node, Work(n) PROVE (TypeOK /\ IInv)'
    BY <2>1, WorkInv
  <2>2. ASSUME NEW n \in Node, Interlevel(n) PROVE (TypeOK /\ IInv)'
    BY <2>2, InterlevelInv
  <2>3. ASSUME NEW n \in Node, Collect(n) PROVE (TypeOK /\ IInv)'
    BY <2>3, CollectInv
  <2>4. CASE UNCHANGED vars
    BY <2>4, StutterInv
  <2> QED
    BY <2>1, <2>2, <2>3, <2>4 DEF Next
<1> QED
  BY <1>1, <1>2, PTL DEF Spec

-----------------------------------------------------------------------------
(* Type correctness, for every tree and length of the step.                *)
THEOREM TypeCorrect == Spec => []TypeOK
  BY Invariance, PTL

(* After an exchange a node's cells and all its boundaries are of the      *)
(* stage the node is in, however far its neighbors have run ahead.         *)
THEOREM BoundariesAreFresh == Spec => []FreshBoundaries
<1>1. TypeOK /\ IInv => FreshBoundaries
  BY DEF IInv, StageInv, FreshBoundaries
<1> QED
  BY <1>1, Invariance, PTL

(* Sender and receiver of a boundary agree on energy_only, for every       *)
(* number of Runge-Kutta stages and with radiation or without.             *)
THEOREM EnergyOnlyAgreed == Spec => []EnergyAgreed
<1>1. ASSUME TypeOK, IInv PROVE EnergyAgreed
  <2> SUFFICES ASSUME NEW n \in Node, NEW d \in Dir, pc[n] = "collect",
                      NEW m \in Msgs(sibling[n][d], hcycle[n])
               PROVE  m.energy = Energy(n)
    BY DEF EnergyAgreed
  <2>1. m \in sibling[n][d] /\ m.cycle = hcycle[n]
    BY DEF Msgs
  <2>2. m.energy = EnergyOf(hcycle[n])
    BY <1>1, <2>1 DEF IInv, SiblingInv
  <2>3. Energy(n) = EnergyOf(hcycle[n])
    BY <1>1, EnergyType
  <2> QED
    BY <2>2, <2>3
<1> QED
  BY <1>1, Invariance, PTL

(* No channel ever holds two values for one cycle: the neighbor and the    *)
(* parent never both serve a direction.                                    *)
THEOREM NoValueTwice == Spec => []OneValuePerCycle
<1>1. TypeOK /\ IInv => OneValuePerCycle
  BY DEF IInv, ChildInv, SiblingInv, UniqueCycles, OneValuePerCycle
<1> QED
  BY <1>1, Invariance, PTL

(* However the tasks are scheduled, neighbors are at most one exchange     *)
(* apart and a parent at most one ahead of its children.                   *)
THEOREM SkewIsBounded == Spec => []BoundedSkew
<1>1. ASSUME TypeOK, IInv PROVE BoundedSkew
  <2>1. \A n \in Node : Sent(n) \in Nat /\ hcycle[n] \in Nat
                       /\ hcycle[n] <= Sent(n) /\ Sent(n) <= hcycle[n] + 1
    BY <1>1 DEF Sent, TypeOK
  <2>2. ASSUME NEW n \in Node, NEW d \in Dir, Nbr[n][d] # NoNode
        PROVE  /\ hcycle[n] <= hcycle[Nbr[n][d]] + 1
               /\ \A m \in sibling[n][d] : m.cycle - hcycle[n] \in {0, 1}
    <3>1. Nbr[n][d] \in Node /\ Nbr[Nbr[n][d]][Flip[d]] = n /\ Flip[d] \in Dir
      BY <2>2, TreeAssumption
    <3>2. Nbr[Nbr[n][d]][Flip[d]] # NoNode
      BY <3>1, TreeFacts
    <3>3. hcycle[n] <= Sent(Nbr[n][d]) /\ hcycle[Nbr[n][d]] <= Sent(n)
      BY <1>1, <2>2, <3>1, <3>2 DEF IInv, WaitInv, Awaited, Served
    <3>4. \A m \in sibling[n][d] : /\ hcycle[n] <= m.cycle /\ m.cycle < Sent(Nbr[n][d])
                                  /\ m.cycle \in Nat
      BY <1>1, <2>2, <3>1 DEF IInv, SiblingInv, Served, TypeOK, Msg
    <3> QED
      BY <2>1, <3>1, <3>3, <3>4
  <2>3. ASSUME NEW c \in Node \ {Root} PROVE hcycle[Parent[c]] <= hcycle[c] + 1
    <3>1. Parent[c] \in Node /\ Sent(Parent[c]) <= Sent(c)
      BY <1>1, TreeFacts DEF IInv, WaitInv
    <3> QED
      BY <2>1, <3>1
  <2> QED
    BY <2>2, <2>3 DEF BoundedSkew
<1> QED
  BY <1>1, Invariance, PTL

(* When all nodes have done their steps their counters are equal and the   *)
(* channels empty: regrid may copy a node without its channels.            *)
THEOREM DrainedAtRegrid == Spec => []DrainedAtEnd
<1>1. ASSUME TypeOK, IInv PROVE DrainedAtEnd
  <2> SUFFICES ASSUME \A n \in Node : pc[n] = "work" /\ stage[n] = Stages(n),
                      NEW n \in Node
               PROVE  /\ hcycle[n] = hcycle[Root]
                      /\ child[n] = {} /\ \A d \in Dir : sibling[n][d] = {}
    BY DEF DrainedAtEnd
  <2>1. \A m \in Node : hcycle[m] = Steps * Len(RefinedStep)
    BY <1>1, StepsAlike DEF IInv, StageInv, Stages
  <2>2. Steps * Len(RefinedStep) \in Nat
    BY StepType, StepAssumption
  <2> DEFINE last == Steps * Len(RefinedStep)
  <2> HIDE DEF last
  <2>3. \A m \in Node : hcycle[m] = last /\ Sent(m) = last
    BY <2>1 DEF Sent, last
  <2>4. last \in Nat
    BY <2>2 DEF last
  <2>5. \A m \in Node : \A d \in Dir : Served(m, d) <= last
    <3> SUFFICES ASSUME NEW m \in Node, NEW d \in Dir PROVE Served(m, d) <= last
      OBVIOUS
    <3>1. Nbr[m][d] # NoNode => Nbr[m][d] \in Node
      BY TreeFacts
    <3>2. m # Root => Parent[m] \in Node
      BY TreeFacts
    <3> QED
      BY <2>3, <2>4, <3>1, <3>2 DEF Served
  <2>6. \A d \in Dir : sibling[n][d] = {}
    <3> SUFFICES ASSUME NEW d \in Dir, NEW m \in sibling[n][d] PROVE FALSE
      OBVIOUS
    <3>1. /\ hcycle[n] <= m.cycle /\ m.cycle < Served(n, d) /\ m.cycle \in Nat
      BY <1>1 DEF IInv, SiblingInv, TypeOK, Msg
    <3>2. Served(n, d) \in Nat
      <4>1. Nbr[n][d] # NoNode => Nbr[n][d] \in Node
        BY TreeFacts
      <4>2. n # Root => Parent[n] \in Node
        BY TreeFacts
      <4> QED
        BY <2>3, <2>4, <4>1, <4>2 DEF Served
    <3> QED
      BY <2>3, <2>4, <2>5, <3>1, <3>2
  <2>7. child[n] = {}
    <3> SUFFICES ASSUME NEW m \in child[n] PROVE FALSE
      OBVIOUS
    <3>1. /\ n # Root /\ Sent(Parent[n]) <= m.cycle /\ m.cycle < Sent(n)
          /\ m.cycle \in Nat
      BY <1>1 DEF IInv, ChildInv, TypeOK, Msg
    <3>2. Parent[n] \in Node
      BY <3>1, TreeFacts
    <3> QED
      BY <2>3, <2>4, <3>1, <3>2
  <2> QED
    BY <2>3, <2>6, <2>7, TreeFacts
<1> QED
  BY <1>1, Invariance, PTL

-----------------------------------------------------------------------------
(* The fluxes.                                                             *)

(* Whether stage k (the k-th piece of work) needs fluxes.                  *)
Due(k) == ((k - 1) % Len(RefinedStep)) + 1 \in 2..(NRK + 1)

(* The last stage for which a leaf has computed its fluxes.                *)
Computed(n) == IF sent[n] THEN stage[n] + 1 ELSE stage[n]

SentInv ==
  \A n \in Node : sent[n] => /\ pc[n] = "work" /\ stage[n] < Stages(n)
                             /\ ~Refined(n) /\ FluxDue(n)

(* Between niece c and aunt a there is nothing, or the flux of the stage a *)
(* comes to next.                                                          *)
Between(a, c, f) ==
  \/ wire[c][f] = {} /\ niece[c][f] = <<>>
  \/ /\ Due(stage[a] + 1) /\ stage[a] + 1 <= Computed(c)
     /\ \/ wire[c][f] = {stage[a] + 1} /\ niece[c][f] = <<>>
        \/ wire[c][f] = {} /\ niece[c][f] = <<stage[a] + 1>>

(* An aunt has come through no stage before her nieces' fluxes for it.     *)
Corrected(a, c) == \A k \in 1..stage[a] : Due(k) => k <= Computed(c)

NieceInv ==
  \A a \in Node : \A f \in Face : \A c \in Nieces[a][Flip[f]] :
    Between(a, c, f) /\ Corrected(a, c)

(* Nothing is ever sent through a face without an aunt.                    *)
NoAuntInv ==
  \A c \in Node : \A f \in Face :
    (\A a \in Node : c \notin Nieces[a][Flip[f]]) =>
      wire[c][f] = {} /\ niece[c][f] = <<>>

FluxInv == FluxTypeOK /\ SentInv /\ NieceInv /\ NoAuntInv

-----------------------------------------------------------------------------
(* The aunt beyond a face is the one neighbor of the parent there, and the *)
(* niece itself has no neighbor on that side.                              *)
LEMMA AuntFacts ==
  ASSUME NEW a \in Node, NEW f \in Face, NEW c \in Nieces[a][Flip[f]]
  PROVE  /\ c \in Node \ {Root} /\ ~Refined(c) /\ ~Refined(a)
         /\ Parent[c] \in Node /\ f \in Dir /\ Flip[f] \in Face
         /\ Nbr[Parent[c]][f] = a /\ a # NoNode
         /\ Nbr[c][f] = NoNode
<1> DEFINE P == Nbr[a][Flip[f]]
<1>1. f \in Dir /\ Flip[f] \in Face /\ Flip[f] \in Dir /\ Flip[Flip[f]] = f
  BY FaceAssumption, TreeAssumption
<1>2. /\ ~Refined(a) /\ P # NoNode /\ c \in FaceSubset(P, f)
  BY <1>1 DEF Nieces
<1>3. P \in Node
  BY <1>1, <1>2, TreeFacts
<1>4. c \in Node \ {Root} /\ Parent[c] = P
  BY <1>2, <1>3, TreeFacts DEF FaceSubset
<1>5. Nbr[P][f] = a
  BY <1>1, <1>3, TreeFacts
<1>6. ~Refined(c)
  BY <1>1, FaceAssumption
<1>7. ASSUME Nbr[c][f] # NoNode PROVE FALSE
  <2>1. Nbr[c][f] \in Node /\ Nbr[c][f] # Root /\ Parent[Nbr[c][f]] \in {P, a}
    BY <1>1, <1>4, <1>5, <1>7, TreeFacts, FaceAssumption
  <2>2. Nbr[c][f] \notin Children(P)
    BY <1>2 DEF FaceSubset
  <2>3. CASE Parent[Nbr[c][f]] = P
    BY <1>3, <2>1, <2>2, <2>3 DEF Children, ChildNodes
  <2>4. CASE Parent[Nbr[c][f]] = a
    <3>1. Nbr[c][f] \in Children(a)
      BY <2>1, <2>4 DEF Children, ChildNodes
    <3> QED
      BY <1>2, <3>1 DEF Refined
  <2> QED
    BY <2>1, <2>3, <2>4
<1> QED
  BY <1>1, <1>2, <1>3, <1>4, <1>5, <1>6, <1>7, TreeFacts

(* The boundary exchange holds the nieces back: a niece that computes has  *)
(* begun no more stages than her aunt.                                     *)
LEMMA HeldBack ==
  ASSUME TypeOK, IInv, NEW a \in Node, NEW f \in Face, NEW c \in Nieces[a][Flip[f]],
         pc[c] = "work"
  PROVE  stage[c] <= stage[a]
<1>1. /\ c \in Node /\ c # Root /\ Parent[c] \in Node /\ f \in Dir
      /\ Nbr[Parent[c]][f] = a /\ a # NoNode /\ Nbr[c][f] = NoNode
  BY AuntFacts
<1>2. f \in Awaited(c) /\ f \in Awaited(Parent[c])
  BY <1>1 DEF Awaited
<1>3. hcycle[c] <= hcycle[Parent[c]] /\ hcycle[Parent[c]] <= Sent(a)
  BY <1>1, <1>2 DEF IInv, WaitInv, Served
<1>4. stage[c] = hcycle[c] /\ Sent(a) <= stage[a]
  BY <1>1 DEF IInv, StageInv, Sent, TypeOK
<1>5. /\ hcycle[c] \in Nat /\ hcycle[Parent[c]] \in Nat /\ hcycle[a] \in Nat
      /\ stage[a] \in Nat /\ Sent(a) \in Nat
  BY <1>1 DEF TypeOK, Sent
<1> QED
  BY <1>3, <1>4, <1>5

(* Which pieces of work need fluxes is the same for all nodes.             *)
LEMMA DueAlike ==
  ASSUME TypeOK, NEW n \in Node
  PROVE  /\ FluxDue(n) <=> Due(stage[n] + 1)
         /\ Stages(n) = Steps * Len(RefinedStep) /\ Stages(n) \in Nat
         /\ stage[n] \in Nat
<1>1. stage[n] \in Nat /\ StepOf(n) = RefinedStep /\ Len(RefinedStep) \in Nat
  BY StepsAlike, StepType DEF TypeOK
<1>2. (stage[n] + 1) - 1 = stage[n]
  BY <1>1
<1> QED
  BY <1>1, <1>2, StepAssumption DEF FluxDue, Due, Stages

-----------------------------------------------------------------------------
(* Every step of the composition is one of the boundary exchange.          *)
LEMMA FluxImplementsExchange == FluxSpec => Spec
<1>1. FluxInit => Init
  BY DEF FluxInit
<1>2. [FluxNext]_allVars => [Next]_vars
  BY DEF FluxNext, SendFlux, RecvFlux, Advance, Exchange, Next, allVars, vars
<1> QED
  BY <1>1, <1>2, PTL DEF FluxSpec, Spec

(* Nothing is sent at first.                                               *)
LEMMA FluxInitInv == FluxInit => FluxInv
<1> SUFFICES ASSUME FluxInit PROVE FluxInv
  OBVIOUS
<1> USE DEF FluxInit, Init
<1>1. FluxTypeOK
  <2>1. <<>> \in Seq(Nat)
    BY EmptySeq
  <2> QED
    BY <2>1 DEF FluxTypeOK
<1>2. SentInv
  BY DEF SentInv
<1>3. NieceInv
  <2> SUFFICES ASSUME NEW a \in Node, NEW f \in Face, NEW c \in Nieces[a][Flip[f]]
               PROVE  Between(a, c, f) /\ Corrected(a, c)
    BY DEF NieceInv
  <2>1. c \in Node
    BY AuntFacts
  <2> QED
    BY <2>1 DEF Between, Corrected
<1>4. NoAuntInv
  BY DEF NoAuntInv
<1> QED
  BY <1>1, <1>2, <1>3, <1>4 DEF FluxInv

(* The fluxes a leaf sends are those its aunt needs next.                  *)
LEMMA SendFluxInv ==
  ASSUME TypeOK, IInv, FluxInv, NEW n \in Node, SendFlux(n)
  PROVE  FluxInv'
<1> USE DEF FluxInv
<1>1. stage' = stage /\ pc' = pc /\ niece' = niece /\ cells' = cells
  BY DEF SendFlux, vars
<1>2. stage[n] \in Nat /\ pc[n] = "work" /\ ~sent[n]
  BY DEF SendFlux, TypeOK
<1>3. FluxTypeOK'
  <2>1. wire' \in [Node -> [Face -> SUBSET Nat]]
    BY <1>2 DEF SendFlux, FluxTypeOK
  <2>2. sent' \in [Node -> BOOLEAN]
    BY DEF SendFlux, FluxTypeOK
  <2> QED
    BY <1>1, <2>1, <2>2 DEF FluxTypeOK
<1>4. SentInv'
  BY <1>1 DEF SentInv, SendFlux, FluxTypeOK, Stages, FluxDue
<1>5. \A m \in Node : stage[m] \in Nat /\ Computed(m) <= Computed(m)' /\ Computed(m) \in Nat
  BY <1>1, <1>2 DEF Computed, SendFlux, FluxTypeOK, TypeOK
<1>6. NieceInv'
  <2> SUFFICES ASSUME NEW a \in Node, NEW f \in Face, NEW c \in Nieces[a][Flip[f]]
               PROVE  Between(a, c, f)' /\ Corrected(a, c)'
    BY DEF NieceInv
  <2>1. c \in Node
    BY AuntFacts
  <2>2. Between(a, c, f) /\ Corrected(a, c)
    BY DEF NieceInv
  <2>3. Corrected(a, c)'
    <3> SUFFICES ASSUME NEW k \in 1..stage[a], Due(k) PROVE k <= Computed(c)'
      BY <1>1 DEF Corrected, Due
    <3>1. k <= Computed(c) /\ stage[a] \in Nat
      BY <1>5, <2>2 DEF Corrected
    <3>2. Computed(c)' \in Nat
      BY <1>1, <1>5, <2>1 DEF Computed
    <3> QED
      BY <1>5, <2>1, <3>1, <3>2
  <2>4. CASE c # n
    <3>1. wire'[c][f] = wire[c][f] /\ Computed(c)' = Computed(c)
      BY <1>1, <2>1, <2>4 DEF SendFlux, FluxTypeOK, Computed
    <3> QED
      BY <1>1, <2>2, <2>3, <3>1 DEF Between, Due
  <2>5. CASE c = n
    <3>1. stage[c] <= stage[a]
      BY <1>2, <2>5, HeldBack
    <3>2. Due(stage[c] + 1)
      BY <2>1, <2>5, DueAlike DEF SendFlux
    <3>3. Computed(c) = stage[c] /\ Computed(c)' = stage[c] + 1
      BY <1>1, <1>2, <2>1, <2>5 DEF Computed, SendFlux, FluxTypeOK
    <3>4. ~(stage[c] + 1 <= stage[a])
      <4>1. stage[c] + 1 <= stage[a] => stage[c] + 1 \in 1..stage[a]
        BY <1>5, <2>1
      <4> QED
        BY <1>5, <2>1, <2>2, <3>2, <3>3, <4>1 DEF Corrected
    <3>5. stage[c] = stage[a]
      BY <1>5, <2>1, <3>1, <3>4
    <3>6. wire[c][f] = {} /\ niece[c][f] = <<>>
      BY <1>5, <2>1, <2>2, <3>3, <3>5 DEF Between
    <3>7. wire'[c][f] = {stage[c] + 1}
      <4>1. \E b \in Node : n \in Nieces[b][Flip[f]]
        BY <2>5
      <4> QED
        BY <2>1, <2>5, <3>6, <4>1 DEF SendFlux, FluxTypeOK
    <3> QED
      BY <1>1, <1>5, <2>1, <2>3, <3>2, <3>3, <3>5, <3>6, <3>7 DEF Between, Due
  <2> QED
    BY <2>4, <2>5
<1>7. NoAuntInv'
  <2> SUFFICES ASSUME NEW c \in Node, NEW f \in Face,
                      \A a \in Node : c \notin Nieces[a][Flip[f]]
               PROVE  wire'[c][f] = {} /\ niece'[c][f] = <<>>
    BY DEF NoAuntInv
  <2>1. wire[c][f] = {} /\ niece[c][f] = <<>>
    BY DEF NoAuntInv
  <2>2. wire'[c][f] = wire[c][f]
    <3>1. CASE c # n
      BY <3>1 DEF SendFlux, FluxTypeOK
    <3>2. CASE c = n
      <4>1. ~\E a \in Node : n \in Nieces[a][Flip[f]]
        BY <3>2
      <4> QED
        BY <3>2, <4>1 DEF SendFlux, FluxTypeOK
    <3> QED
      BY <3>1, <3>2
  <2> QED
    BY <1>1, <2>1, <2>2
<1> QED
  BY <1>3, <1>4, <1>6, <1>7

(* A call that arrives moves the one flux from the wire to the channel.    *)
LEMMA RecvFluxInv ==
  ASSUME TypeOK, FluxInv, NEW n \in Node, NEW g \in Face, RecvFlux(n, g)
  PROVE  FluxInv'
<1> USE DEF FluxInv
<1>1. PICK k \in wire[n][g] :
        /\ wire' = [wire EXCEPT ![n][g] = @ \ {k}]
        /\ niece' = [niece EXCEPT ![n][g] = Append(@, k)]
        /\ UNCHANGED <<vars, sent>>
  BY DEF RecvFlux
<1>2. stage' = stage /\ pc' = pc /\ sent' = sent
  BY <1>1 DEF vars
<1>3. k \in Nat
  BY DEF FluxTypeOK
<1>4. FluxTypeOK'
  <2>1. Append(niece[n][g], k) \in Seq(Nat)
    BY <1>3 DEF FluxTypeOK
  <2> QED
    BY <1>1, <1>2, <2>1 DEF FluxTypeOK
<1>5. SentInv'
  BY <1>2 DEF SentInv, Stages, FluxDue
<1>6. NieceInv'
  <2> SUFFICES ASSUME NEW a \in Node, NEW f \in Face, NEW c \in Nieces[a][Flip[f]]
               PROVE  Between(a, c, f)' /\ Corrected(a, c)'
    BY DEF NieceInv
  <2>1. c \in Node
    BY AuntFacts
  <2>2. Between(a, c, f) /\ Corrected(a, c)
    BY DEF NieceInv
  <2>3. Corrected(a, c)'
    BY <1>2, <2>2 DEF Corrected, Due, Computed
  <2>4. CASE c # n \/ f # g
    <3>1. wire'[c][f] = wire[c][f] /\ niece'[c][f] = niece[c][f]
      BY <1>1, <2>1, <2>4 DEF FluxTypeOK
    <3> QED
      BY <1>2, <2>2, <2>3, <3>1 DEF Between, Due, Computed
  <2>5. CASE c = n /\ f = g
    <3>1. /\ Due(stage[a] + 1) /\ stage[a] + 1 <= Computed(c)
          /\ wire[c][f] = {k} /\ k = stage[a] + 1 /\ niece[c][f] = <<>>
      BY <1>1, <2>2, <2>5 DEF Between
    <3>2. wire'[c][f] = {} /\ niece'[c][f] = <<k>>
      BY <1>1, <2>1, <2>5, <3>1 DEF FluxTypeOK
    <3> QED
      BY <1>2, <2>3, <3>1, <3>2 DEF Between, Due, Computed
  <2> QED
    BY <2>4, <2>5
<1>7. NoAuntInv'
  <2> SUFFICES ASSUME NEW c \in Node, NEW f \in Face,
                      \A a \in Node : c \notin Nieces[a][Flip[f]]
               PROVE  wire'[c][f] = {} /\ niece'[c][f] = <<>>
    BY DEF NoAuntInv
  <2>1. wire[c][f] = {} /\ niece[c][f] = <<>>
    BY DEF NoAuntInv
  <2>2. c # n \/ f # g
    BY <1>1, <2>1
  <2> QED
    BY <1>1, <2>1, <2>2 DEF FluxTypeOK
<1> QED
  BY <1>4, <1>5, <1>6, <1>7

(* A leaf that advances takes exactly the fluxes of the stage it begins.   *)
LEMMA AdvanceInv ==
  ASSUME TypeOK, FluxInv, NEW n \in Node, Advance(n)
  PROVE  FluxInv'
<1> USE DEF FluxInv
<1>1. /\ pc[n] = "work" /\ stage' = [stage EXCEPT ![n] = @ + 1]
      /\ pc' = [pc EXCEPT ![n] = "restrict"]
      /\ sent' = [sent EXCEPT ![n] = FALSE] /\ wire' = wire
      /\ niece' = [c \in Node |-> [f \in Face |->
           IF FluxDue(n) /\ c \in Nieces[n][Flip[f]]
           THEN Tail(niece[c][f]) ELSE niece[c][f]]]
  BY DEF Advance, Work
<1>2. ~Refined(n) /\ FluxDue(n) =>
        /\ sent[n]
        /\ \A f \in Face : \A c \in Nieces[n][Flip[f]] : niece[c][f] # <<>>
  BY DEF Advance
<1>3. \A m \in Node : stage[m] \in Nat
  BY DEF TypeOK
<1>4. ASSUME NEW f \in Face, NEW c \in Nieces[n][Flip[f]], FluxDue(n)
      PROVE  /\ niece[c][f] = <<stage[n] + 1>> /\ wire[c][f] = {}
             /\ stage[n] + 1 <= Computed(c)
  <2>1. ~Refined(n)
    BY AuntFacts
  <2> QED
    BY <1>2, <1>4, <2>1 DEF NieceInv, Between
<1>5. FluxTypeOK'
  <2>1. ASSUME NEW c \in Node, NEW f \in Face PROVE niece'[c][f] \in Seq(Nat)
    <3>1. niece[c][f] \in Seq(Nat) /\ <<>> \in Seq(Nat)
      BY EmptySeq DEF FluxTypeOK
    <3>2. CASE FluxDue(n) /\ c \in Nieces[n][Flip[f]]
      <4>1. niece[c][f] = <<stage[n] + 1>>
        BY <1>4, <3>2
      <4>2. Tail(niece[c][f]) = <<>>
        BY <1>3, <4>1
      <4> QED
        BY <1>1, <3>1, <3>2, <4>2
    <3>3. CASE ~(FluxDue(n) /\ c \in Nieces[n][Flip[f]])
      BY <1>1, <3>1, <3>3
    <3> QED
      BY <3>2, <3>3
  <2>2. niece' \in [Node -> [Face -> Seq(Nat)]]
    BY <1>1, <2>1
  <2> QED
    BY <1>1, <2>2 DEF FluxTypeOK
<1>6. SentInv'
  <2> SUFFICES ASSUME NEW m \in Node, sent'[m]
               PROVE  /\ pc'[m] = "work" /\ stage'[m] < Stages(m)
                      /\ ~Refined(m) /\ FluxDue(m)'
    BY DEF SentInv, Stages
  <2>1. m # n
    BY <1>1 DEF FluxTypeOK
  <2>2. sent[m] /\ stage'[m] = stage[m] /\ pc'[m] = pc[m]
    BY <1>1, <2>1 DEF FluxTypeOK, TypeOK
  <2> QED
    BY <2>2 DEF SentInv, FluxDue
<1>7. ASSUME NEW m \in Node
      PROVE  Computed(m) \in Nat /\ Computed(m)' \in Nat /\ Computed(m) <= Computed(m)'
  BY <1>1, <1>3 DEF Computed, FluxTypeOK, TypeOK
<1>8. NieceInv'
  <2> SUFFICES ASSUME NEW a \in Node, NEW f \in Face, NEW c \in Nieces[a][Flip[f]]
               PROVE  Between(a, c, f)' /\ Corrected(a, c)'
    BY DEF NieceInv
  <2>1. c \in Node /\ Nbr[Parent[c]][f] = a /\ ~Refined(a)
    BY AuntFacts
  <2>2. Between(a, c, f) /\ Corrected(a, c)
    BY DEF NieceInv
  <2>3. CASE a # n
    <3>1. c \notin Nieces[n][Flip[f]]
      BY <2>1, <2>3, AuntFacts
    <3>2. niece'[c][f] = niece[c][f] /\ stage'[a] = stage[a]
      BY <1>1, <2>1, <2>3, <3>1 DEF TypeOK
    <3>3. stage[a] \in Nat /\ Computed(c) <= Computed(c)'
          /\ Computed(c) \in Nat /\ Computed(c)' \in Nat
      BY <1>3, <1>7, <2>1
    <3>4. Corrected(a, c)'
      BY <2>2, <3>2, <3>3 DEF Corrected, Due
    <3>5. stage[a] + 1 <= Computed(c) => stage[a] + 1 <= Computed(c)'
      BY <3>3
    <3> HIDE DEF Computed
    <3>6. Between(a, c, f)'
      BY <1>1, <2>2, <3>2, <3>5 DEF Between, Due
    <3> QED
      BY <3>4, <3>6
  <2>4. CASE a = n
    <3>1. stage'[a] = stage[a] + 1 /\ stage[a] \in Nat
      BY <1>1, <1>3, <2>4 DEF TypeOK
    <3>2. FluxDue(n) <=> Due(stage[a] + 1)
      BY <2>4, DueAlike
    <3>3. wire'[c][f] = {} /\ niece'[c][f] = <<>>
      <4>1. CASE FluxDue(n)
        <5>1. niece[c][f] = <<stage[n] + 1>> /\ wire[c][f] = {}
          BY <1>4, <2>4, <4>1
        <5>2. Tail(niece[c][f]) = <<>>
          BY <1>3, <5>1
        <5> QED
          BY <1>1, <2>1, <2>4, <4>1, <5>1, <5>2
      <4>2. CASE ~FluxDue(n)
        BY <1>1, <2>1, <2>2, <3>2, <4>2 DEF Between
      <4> QED
        BY <4>1, <4>2
    <3>4. ASSUME NEW k \in 1..(stage[a] + 1), Due(k) PROVE k <= Computed(c)'
      <4>1. CASE k = stage[a] + 1
        BY <1>4, <1>7, <2>1, <2>4, <3>1, <3>2, <3>4, <4>1
      <4>2. CASE k # stage[a] + 1
        <5>1. k \in 1..stage[a]
          BY <3>1, <4>2
        <5> QED
          BY <1>7, <2>1, <2>2, <3>4, <5>1 DEF Corrected
      <4> QED
        BY <4>1, <4>2
    <3> QED
      BY <3>1, <3>3, <3>4 DEF Between, Corrected, Due
  <2> QED
    BY <2>3, <2>4
<1>9. NoAuntInv'
  BY <1>1 DEF NoAuntInv
<1> QED
  BY <1>5, <1>6, <1>8, <1>9

(* The invariant of the fluxes, on top of that of the boundary exchange.   *)
THEOREM FluxInvariance == FluxSpec => [](TypeOK /\ IInv /\ FluxInv)
<1>1. FluxSpec => [](TypeOK /\ IInv)
  BY FluxImplementsExchange, Invariance, PTL
<1>2. FluxInit => FluxInv
  BY FluxInitInv
<1>3. TypeOK /\ IInv /\ FluxInv /\ [FluxNext]_allVars => FluxInv'
  <2> SUFFICES ASSUME TypeOK, IInv, FluxInv, [FluxNext]_allVars PROVE FluxInv'
    OBVIOUS
  <2>1. ASSUME NEW n \in Node, SendFlux(n) PROVE FluxInv'
    BY <2>1, SendFluxInv
  <2>2. ASSUME NEW n \in Node, Advance(n) PROVE FluxInv'
    BY <2>2, AdvanceInv
  <2>3. ASSUME NEW n \in Node, NEW f \in Face, RecvFlux(n, f) PROVE FluxInv'
    BY <2>3, RecvFluxInv
  <2>4. ASSUME NEW n \in Node, Exchange(n) PROVE FluxInv'
    <3>1. stage' = stage /\ sent' = sent /\ wire' = wire /\ niece' = niece /\ pc[n] # "work"
      BY <2>4 DEF Exchange, Interlevel, Collect, fluxVars
    <3>2. \A m \in Node \ {n} : pc'[m] = pc[m]
      BY <2>4 DEF Exchange, Interlevel, Collect, TypeOK
    <3>3. SentInv'
      BY <3>1, <3>2 DEF FluxInv, SentInv, Stages, FluxDue
    <3>4. FluxTypeOK' /\ NoAuntInv'
      BY <3>1 DEF FluxInv, FluxTypeOK, NoAuntInv
    <3>5. NieceInv'
      BY <3>1 DEF FluxInv, NieceInv, Between, Corrected, Due, Computed
    <3> QED
      BY <3>3, <3>4, <3>5 DEF FluxInv
  <2>5. ASSUME UNCHANGED allVars PROVE FluxInv'
    BY <2>5 DEF allVars, vars, fluxVars, FluxInv, FluxTypeOK, SentInv, NieceInv, NoAuntInv,
                Between, Corrected, Due, Computed, Stages, FluxDue
  <2> QED
    BY <2>1, <2>2, <2>3, <2>4, <2>5 DEF FluxNext
<1> QED
  BY <1>1, <1>2, <1>3, PTL DEF FluxSpec

(* No leaf ever takes the fluxes of another stage for its own, whatever    *)
(* the speed of the nodes and the order in which the calls arrive.         *)
THEOREM FluxesOfTheirStage == FluxSpec => []FluxOfThisStage
<1>1. TypeOK /\ FluxInv => FluxOfThisStage
  <2> SUFFICES ASSUME TypeOK, FluxInv, NEW a \in Node, NEW f \in Face,
                      NEW c \in Nieces[a][Flip[f]]
               PROVE  /\ wire[c][f] \subseteq {stage[a] + 1}
                      /\ \A i \in 1..Len(niece[c][f]) : niece[c][f][i] = stage[a] + 1
    BY DEF FluxOfThisStage
  <2>1. Between(a, c, f)
    BY DEF FluxInv, NieceInv
  <2> QED
    BY <2>1 DEF Between
<1> QED
  BY <1>1, FluxInvariance, PTL

(* A channel of fluxes never holds, or awaits, more than one.              *)
THEOREM OneFlux == FluxSpec => []OneFluxAtATime
<1>1. TypeOK /\ FluxInv => OneFluxAtATime
  <2> SUFFICES ASSUME TypeOK, FluxInv, NEW c \in Node, NEW f \in Face
               PROVE  Cardinality(wire[c][f]) + Len(niece[c][f]) <= 1
    BY DEF OneFluxAtATime
  <2>1. Cardinality({}) = 0 /\ Len(<<>>) = 0
    BY FS_EmptySet
  <2>2. CASE \A a \in Node : c \notin Nieces[a][Flip[f]]
    <3>1. wire[c][f] = {} /\ niece[c][f] = <<>>
      BY <2>2 DEF FluxInv, NoAuntInv
    <3> QED
      BY <2>1, <3>1
  <2>3. ASSUME NEW a \in Node, c \in Nieces[a][Flip[f]]
        PROVE  Cardinality(wire[c][f]) + Len(niece[c][f]) <= 1
    <3>1. Between(a, c, f)
      BY <2>3 DEF FluxInv, NieceInv
    <3>2. Cardinality({stage[a] + 1}) = 1 /\ Len(<<stage[a] + 1>>) = 1
      BY FS_Singleton
    <3>3. CASE wire[c][f] = {stage[a] + 1} /\ niece[c][f] = <<>>
      BY <2>1, <3>2, <3>3
    <3>4. CASE wire[c][f] = {} /\ niece[c][f] = <<stage[a] + 1>>
      BY <2>1, <3>2, <3>4
    <3>5. CASE wire[c][f] = {} /\ niece[c][f] = <<>>
      BY <2>1, <3>5
    <3> QED
      BY <3>1, <3>3, <3>4, <3>5 DEF Between
  <2> QED
    BY <2>2, <2>3
<1> QED
  BY <1>1, FluxInvariance, PTL

(* Regrid finds no flux in any channel or on its way.                      *)
THEOREM NoneLeftAtRegrid == FluxSpec => []NoFluxLeftOver
<1>1. TypeOK /\ FluxInv => NoFluxLeftOver
  <2> SUFFICES ASSUME TypeOK, FluxInv,
                      \A n \in Node : pc[n] = "work" /\ stage[n] = Stages(n),
                      NEW c \in Node, NEW f \in Face
               PROVE  wire[c][f] = {} /\ niece[c][f] = <<>>
    BY DEF NoFluxLeftOver
  <2>1. CASE \A a \in Node : c \notin Nieces[a][Flip[f]]
    BY <2>1 DEF FluxInv, NoAuntInv
  <2>2. ASSUME NEW a \in Node, c \in Nieces[a][Flip[f]]
        PROVE  wire[c][f] = {} /\ niece[c][f] = <<>>
    <3>1. stage[a] = stage[c] /\ stage[a] \in Nat /\ Stages(c) = stage[c]
      BY DueAlike
    <3>2. ~sent[c]
      BY <3>1 DEF FluxInv, SentInv
    <3> QED
      BY <2>2, <3>1, <3>2 DEF FluxInv, NieceInv, Between, Computed
  <2> QED
    BY <2>1, <2>2
<1> QED
  BY <1>1, FluxInvariance, PTL
=============================================================================
