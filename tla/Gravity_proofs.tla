--------------------------- MODULE Gravity_proofs ---------------------------
(***************************************************************************)
(* Proofs about the gravity solve.  First its messages, module Gravity,    *)
(* for every octree, every placement of its nodes on localities and every  *)
(* number of solves; then its pairs of cells, module Interactions, for     *)
(* every grid, theta and set of trees, and whichever kernels run.          *)
(***************************************************************************)
EXTENDS Gravity, Interactions, TLAPS

(* The solves a node has begun, has sent its multipoles and boundaries     *)
(* for, has taken its neighbors' boundaries for and has given them back    *)
(* for.                                                                    *)
Begun(n) == IF pc[n] = "idle" THEN gcycle[n] ELSE gcycle[n] + 1
Sent(n) == IF pc[n] \in {"collect", "interact", "expand"} THEN gcycle[n] + 1
                                                          ELSE gcycle[n]
Taken(n) == IF pc[n] \in {"interact", "expand"} THEN gcycle[n] + 1 ELSE gcycle[n]
Released(n) == IF pc[n] = "expand" THEN gcycle[n] + 1 ELSE gcycle[n]

(* The semaphore that a boundary from direction d brings.                  *)
SignalFrom(n, d) == IF IsLocal(n, Nbr[n][d]) THEN <<Nbr[n][d], Flip[d]>>
                                             ELSE NoSignal

(* What a node holds in the course of a solve is of that solve.            *)
OwnInv ==
  \A n \in Node :
    /\ pc[n] \in {"collect", "interact", "expand"} => poles[n] \subseteq {Of(n, gcycle[n])}
    /\ pc[n] = "expand" => field[n] \subseteq {Of(n, gcycle[n])}
    /\ pc[n] = "idle" /\ gcycle[n] > 0 => field[n] \subseteq {Of(n, gcycle[n] - 1)}

(* Nobody has received what was not sent.                                  *)
WaitInv ==
  /\ \A n \in Node : \A d \in Sides(n) : Taken(n) <= Sent(Nbr[n][d])
  /\ \A c \in Node \ {Root} : /\ Sent(Parent[c]) <= Sent(c)
                              /\ gcycle[c] <= gcycle[Parent[c]]

(* Multipoles on their way are those of the solve the parent gathers.      *)
ChildInv ==
  \A c \in Node : \A v \in child[c] :
    /\ c # Root /\ Sent(c) = Sent(Parent[c]) + 1
    /\ v \subseteq {Of(c, Sent(Parent[c]))}
    /\ child[c] = {v}

(* Expansions on their way are those of the solve the child is in.         *)
ParentInv ==
  \A c \in Node : \A v \in parent[c] :
    /\ c # Root /\ gcycle[Parent[c]] = gcycle[c] + 1
    /\ v \subseteq {Of(c, gcycle[c])}
    /\ parent[c] = {v}

NeighborInv ==
  \A n \in Node : \A d \in Dir :
    /\ \A b1, b2 \in neighbor[n][d] : b1.cycle = b2.cycle => b1 = b2
    /\ \A w \in neighbor[n][d] :
         /\ d \in Sides(n) /\ w.signal = SignalFrom(n, d)
         /\ Taken(n) <= w.cycle /\ w.cycle < Sent(Nbr[n][d])
         /\ w.data \subseteq {Of(n, w.cycle)}

(* Between taking and giving back, one boundary of each shared side is     *)
(* held.                                                                   *)
HeldInv ==
  \A n \in Node :
    /\ pc[n] # "interact" => held[n] = {}
    /\ \A w \in held[n] : /\ w.cycle = gcycle[n]
                          /\ w.data \subseteq {Of(n, gcycle[n])}
                          /\ \E d \in Sides(n) : w.signal = SignalFrom(n, d)
    /\ \A b1, b2 \in held[n] : b1.signal = b2.signal /\ b1.signal # NoSignal => b1 = b2
    /\ pc[n] = "interact" =>
         \A d \in Sides(n) : \E w \in held[n] : w.signal = SignalFrom(n, d)

(* A semaphore counts what was given back against what was begun.          *)
SignalInv ==
  \A n \in Node : \A d \in Dir :
    signals[n][d] =
      IF d \notin Sides(n) THEN 1
      ELSE IF IsLocal(n, Nbr[n][d]) THEN 1 + Released(Nbr[n][d]) - Begun(n)
      ELSE 1 + Sent(n) - Begun(n)

IInv == OwnInv /\ WaitInv /\ ChildInv /\ ParentInv /\ NeighborInv /\ HeldInv

-----------------------------------------------------------------------------
(* The tree and its neighbor relation as the proofs use them.              *)
LEMMA TreeFacts ==
  /\ Root \in Node /\ NoNode \notin Node
  /\ \A c \in Node \ {Root} : Parent[c] \in Node /\ c \in Children(Parent[c])
  /\ \A n \in Node : \A c \in Children(n) : c \in Node \ {Root} /\ Parent[c] = n
  /\ \A n \in Node : \A d \in Sides(n) :
       /\ d \in Dir /\ Nbr[n][d] \in Node /\ Flip[d] \in Sides(Nbr[n][d])
       /\ Nbr[Nbr[n][d]][Flip[d]] = n
  /\ \A d \in Dir : Flip[d] \in Dir /\ Flip[Flip[d]] = d
  /\ \A n, m \in Node : \A d \in Dir :
       Nbr[n][Flip[d]] = m => /\ d \in Sides(m) /\ Nbr[m][d] = n
                              /\ Flip[d] \in Sides(n)
  BY TreeAssumption DEF Children, ChildNodes, Sides

(* Refined and unrefined nodes make the same solves.                       *)
LEMMA SolvesAlike ==
  \A n, m \in Node : \A k \in Nat : Of(n, k) = Of(m, k) /\ Of(n, k) \in Source
<1> SUFFICES ASSUME NEW n \in Node, NEW m \in Node, NEW k \in Nat
             PROVE  Of(n, k) = Of(m, k) /\ Of(n, k) \in Source
  OBVIOUS
<1>1. RefinedStep = NonrefinedStep
  BY DEF RefinedStep, NonrefinedStep
<1>2. SolveType(n, k) = SolveType(m, k)
  BY <1>1 DEF SolveType
<1>3. SolveType(n, k) \in {"RHO", "DRHODT"}
  <2>1. CASE k = 0
    BY <2>1 DEF SolveType
  <2>2. CASE k # 0
    <3> DEFINE i == ((k - 1) % (2 * NRK)) + 1
    <3>1. i \in 1..(2 * NRK)
      BY <2>2, StepAssumption
    <3> HIDE DEF i
    <3>2. RefinedStep[i] \in {"RHO", "DRHODT"}
      BY <3>1 DEF RefinedStep
    <3>3. SolveType(n, k) = RefinedStep[i]
      BY <1>1, <2>2 DEF SolveType, i
    <3> QED
      BY <3>2, <3>3
  <2> QED
    BY <2>1, <2>2
<1> QED
  BY <1>2, <1>3 DEF Of, Source

(* A semaphore tells the direction its boundary came from.                 *)
LEMMA SignalTellsSide ==
  ASSUME NEW n \in Node, NEW d1 \in Sides(n), NEW d2 \in Sides(n),
         SignalFrom(n, d1) = SignalFrom(n, d2), SignalFrom(n, d1) # NoSignal
  PROVE  d1 = d2
<1>1. IsLocal(n, Nbr[n][d1]) /\ IsLocal(n, Nbr[n][d2])
  BY DEF SignalFrom
<1>2. <<Nbr[n][d1], Flip[d1]>> = <<Nbr[n][d2], Flip[d2]>>
  BY <1>1 DEF SignalFrom
<1>3. Flip[d1] = Flip[d2]
  BY ONLY <1>2
<1> QED
  BY <1>3, TreeFacts

(* The counters of a node by where it is.                                  *)
LEMMA Counters ==
  ASSUME TypeOK, NEW n \in Node
  PROVE  /\ gcycle[n] \in Nat
         /\ Begun(n) \in Nat /\ Sent(n) \in Nat /\ Taken(n) \in Nat /\ Released(n) \in Nat
         /\ gcycle[n] <= Released(n) /\ Released(n) <= Taken(n)
         /\ Taken(n) <= Sent(n) /\ Sent(n) <= Begun(n) /\ Begun(n) <= gcycle[n] + 1
  BY DEF TypeOK, Begun, Sent, Taken, Released

(* No solve has begun and every semaphore is at one.                       *)
LEMMA InitInv == Init => TypeOK /\ IInv /\ SignalInv
<1> SUFFICES ASSUME Init PROVE TypeOK /\ IInv /\ SignalInv
  OBVIOUS
<1>1. TypeOK
  BY DEF Init, TypeOK
<1>2. \A n \in Node : gcycle[n] = 0 /\ Begun(n) = 0 /\ Sent(n) = 0 /\ Taken(n) = 0
                     /\ Released(n) = 0
  BY DEF Init, Begun, Sent, Taken, Released
<1>3. OwnInv /\ ChildInv /\ ParentInv /\ NeighborInv /\ HeldInv
  BY DEF Init, OwnInv, ChildInv, ParentInv, NeighborInv, HeldInv
<1>4. WaitInv
  BY <1>2, TreeFacts DEF WaitInv
<1>5. SignalInv
  BY <1>2, TreeFacts DEF Init, SignalInv
<1> QED
  BY <1>1, <1>3, <1>4, <1>5 DEF IInv

(* A node that begins a solve changes no channel.                          *)
LEMMA WaitStep ==
  ASSUME TypeOK, IInv, NEW n \in Node, Wait(n)
  PROVE  TypeOK' /\ IInv' /\ (SignalInv => SignalInv')
<1>1. /\ pc[n] = "idle" /\ pc'[n] = "gather"
      /\ \A m \in Node : m # n => pc'[m] = pc[m] /\ signals'[m] = signals[m]
      /\ \A d \in Dir : signals'[n][d] = IF d \in Sides(n) THEN signals[n][d] - 1
                                                         ELSE signals[n][d]
      /\ gcycle' = gcycle /\ neighbor' = neighbor /\ child' = child /\ parent' = parent
      /\ poles' = poles /\ held' = held /\ field' = field
  BY DEF Wait, TypeOK
<1>2. TypeOK'
  <2>1. pc' \in [Node -> {"idle", "gather", "collect", "interact", "expand"}]
    BY DEF Wait, TypeOK
  <2>2. signals' \in [Node -> [Dir -> Nat]]
    <3>1. \A d \in Sides(n) : signals[n][d] \in Nat /\ signals[n][d] > 0
      BY DEF Wait, TypeOK, Sides
    <3>2. [d \in Dir |-> IF d \in Sides(n) THEN signals[n][d] - 1 ELSE signals[n][d]]
            \in [Dir -> Nat]
      BY <3>1 DEF TypeOK
    <3> QED
      BY <3>2 DEF Wait, TypeOK
  <2> QED
    BY <1>1, <2>1, <2>2 DEF TypeOK
<1>3. /\ \A m \in Node : /\ Sent(m)' = Sent(m) /\ Taken(m)' = Taken(m)
                         /\ Released(m)' = Released(m)
      /\ \A m \in Node : m # n => Begun(m)' = Begun(m)
      /\ Begun(n)' = Begun(n) + 1
  BY <1>1 DEF Sent, Taken, Released, Begun, TypeOK
<1>4. OwnInv'
  BY <1>1 DEF IInv, OwnInv
<1>5. WaitInv'
  BY <1>1, <1>3, TreeFacts DEF IInv, WaitInv
<1>6. ChildInv' /\ ParentInv'
  BY <1>1, <1>3, TreeFacts DEF IInv, ChildInv, ParentInv
<1>7. NeighborInv'
  BY <1>1, <1>3, TreeFacts DEF IInv, NeighborInv
<1>8. HeldInv'
  BY <1>1 DEF IInv, HeldInv
<1>9. ASSUME SignalInv PROVE SignalInv'
  <2> SUFFICES ASSUME NEW m \in Node, NEW d \in Dir
               PROVE  signals'[m][d] =
                        IF d \notin Sides(m) THEN 1
                        ELSE IF IsLocal(m, Nbr[m][d]) THEN 1 + Released(Nbr[m][d])' - Begun(m)'
                        ELSE 1 + Sent(m)' - Begun(m)'
    BY DEF SignalInv
  <2>1. signals[m][d] =
          IF d \notin Sides(m) THEN 1
          ELSE IF IsLocal(m, Nbr[m][d]) THEN 1 + Released(Nbr[m][d]) - Begun(m)
          ELSE 1 + Sent(m) - Begun(m)
    BY <1>9 DEF SignalInv
  <2>2. d \in Sides(m) => /\ Nbr[m][d] \in Node /\ Released(Nbr[m][d])' = Released(Nbr[m][d])
                           /\ Released(Nbr[m][d]) \in Nat
    BY <1>3, TreeFacts, Counters
  <2>3. Sent(m) \in Nat /\ Begun(m) \in Nat /\ Sent(m)' = Sent(m)
    BY <1>3, Counters
  <2>4. CASE m = n
    BY <1>1, <1>3, <2>1, <2>2, <2>3, <2>4
  <2>5. CASE m # n
    BY <1>1, <1>3, <2>1, <2>2, <2>3, <2>5
  <2> QED
    BY <2>4, <2>5
<1> QED
  BY <1>2, <1>4, <1>5, <1>6, <1>7, <1>8, <1>9 DEF IInv

(* What a node sends when it has gathered its children's multipoles.       *)
LEMMA UpwardFacts ==
  ASSUME TypeOK, IInv, NEW n \in Node, Upward(n)
  PROVE  \E mine \in SUBSET Source :
           /\ mine \subseteq {Of(n, gcycle[n])}
           /\ \A c \in Children(n) : child[c] # {} /\ child'[c] = {}
           /\ poles' = [poles EXCEPT ![n] = mine]
           /\ child' \in [Node -> SUBSET SUBSET Source]
           /\ \A c \in Node \ Children(n) :
                child'[c] = IF c = n /\ n # Root THEN child[c] \cup {mine} ELSE child[c]
           /\ neighbor' = [m \in Node |-> [d \in Dir |->
                IF Nbr[n][Flip[d]] = m /\ ~AOnly(gcycle[n])
                THEN neighbor[m][d] \cup {GravityBoundary(n, Flip[d], mine)}
                ELSE neighbor[m][d]]]
<1>1. PICK arrived \in [Children(n) -> UNION {child[c] : c \in Children(n)}] :
        /\ \A c \in Children(n) : arrived[c] \in child[c]
        /\ poles' = [poles EXCEPT ![n] = Multipoles(n, arrived)]
        /\ child' = [c \in Node |->
             IF c \in Children(n) THEN child[c] \ {arrived[c]}
             ELSE IF c = n /\ n # Root THEN child[c] \cup {Multipoles(n, arrived)}
             ELSE child[c]]
        /\ neighbor' = [m \in Node |-> [d \in Dir |->
             IF Nbr[n][Flip[d]] = m /\ ~AOnly(gcycle[n])
             THEN neighbor[m][d] \cup {GravityBoundary(n, Flip[d], Multipoles(n, arrived))}
             ELSE neighbor[m][d]]]
  BY DEF Upward
<1> DEFINE mine == Multipoles(n, arrived)
<1>2. pc[n] = "gather" /\ gcycle[n] \in Nat /\ Sent(n) = gcycle[n]
  BY DEF Upward, TypeOK, Sent
<1>3. \A c \in Children(n) : c \in Node /\ Parent[c] = n
  BY TreeFacts
<1>4. \A c \in Children(n) : child[c] = {arrived[c]} /\ arrived[c] \subseteq {Of(c, gcycle[n])}
  BY <1>1, <1>2, <1>3 DEF IInv, ChildInv
<1>5. mine \subseteq {Of(n, gcycle[n])}
  <2>1. \A c \in Children(n) : arrived[c] \subseteq {Of(n, gcycle[n])}
    BY <1>2, <1>3, <1>4, SolvesAlike
  <2> QED
    BY <2>1 DEF Multipoles
<1>6. mine \in SUBSET Source
  BY <1>2, <1>5, SolvesAlike
<1> HIDE DEF mine
<1>7. child' \in [Node -> SUBSET SUBSET Source]
  <2>1. \A c \in Node : child[c] \in SUBSET SUBSET Source
    BY DEF TypeOK
  <2> HIDE DEF Source
  <2> QED
    BY <1>1, <1>6, <2>1 DEF mine
<1>8. \A c \in Children(n) : child[c] # {} /\ child'[c] = {}
  BY <1>1, <1>3, <1>4
<1>9. \A c \in Node \ Children(n) :
        child'[c] = IF c = n /\ n # Root THEN child[c] \cup {mine} ELSE child[c]
  BY <1>1 DEF mine
<1>10. /\ poles' = [poles EXCEPT ![n] = mine]
       /\ neighbor' = [m \in Node |-> [d \in Dir |->
            IF Nbr[n][Flip[d]] = m /\ ~AOnly(gcycle[n])
            THEN neighbor[m][d] \cup {GravityBoundary(n, Flip[d], mine)}
            ELSE neighbor[m][d]]]
  BY <1>1 DEF mine
<1> QED
  BY ONLY <1>5, <1>6, <1>7, <1>8, <1>9, <1>10

(* Multipoles go up and boundaries to the sides.                           *)
LEMMA UpwardStep ==
  ASSUME TypeOK, IInv, NEW n \in Node, Upward(n)
  PROVE  TypeOK' /\ IInv' /\ (SignalInv /\ ~Output => SignalInv')
<1>1. PICK mine \in SUBSET Source :
        /\ mine \subseteq {Of(n, gcycle[n])}
        /\ \A c \in Children(n) : child[c] # {} /\ child'[c] = {}
        /\ poles' = [poles EXCEPT ![n] = mine]
        /\ child' \in [Node -> SUBSET SUBSET Source]
        /\ \A c \in Node \ Children(n) :
             child'[c] = IF c = n /\ n # Root THEN child[c] \cup {mine} ELSE child[c]
        /\ neighbor' = [m \in Node |-> [d \in Dir |->
             IF Nbr[n][Flip[d]] = m /\ ~AOnly(gcycle[n])
             THEN neighbor[m][d] \cup {GravityBoundary(n, Flip[d], mine)}
             ELSE neighbor[m][d]]]
  BY UpwardFacts
<1>2. /\ pc[n] = "gather" /\ pc'[n] = "collect" /\ gcycle[n] \in Nat
      /\ \A m \in Node : m # n => /\ pc'[m] = pc[m] /\ signals'[m] = signals[m]
                                /\ poles'[m] = poles[m]
      /\ poles'[n] = mine
      /\ \A d \in Dir : signals'[n][d] =
           IF d \in Sides(n) /\ SelfSignalled(n, d) /\ ~AOnly(gcycle[n])
           THEN signals[n][d] + 1 ELSE signals[n][d]
      /\ gcycle' = gcycle /\ parent' = parent /\ held' = held /\ field' = field
  BY <1>1 DEF Upward, TypeOK
<1>3. /\ \A m \in Node : /\ Begun(m)' = Begun(m) /\ Taken(m)' = Taken(m)
                         /\ Released(m)' = Released(m)
      /\ \A m \in Node : m # n => Sent(m)' = Sent(m)
      /\ Sent(n) = gcycle[n] /\ Sent(n)' = gcycle[n] + 1
      /\ \A m \in Node : Sent(m) \in Nat /\ Sent(m)' \in Nat /\ Sent(m) <= Sent(m)'
  BY <1>2 DEF Sent, Taken, Released, Begun, TypeOK
<1>4. \A d \in Dir : Nbr[n][Flip[d]] \in Node =>
        /\ GravityBoundary(n, Flip[d], mine) \in Boundary
        /\ GravityBoundary(n, Flip[d], mine).cycle = gcycle[n]
        /\ GravityBoundary(n, Flip[d], mine).data = mine
        /\ GravityBoundary(n, Flip[d], mine).signal =
             IF IsLocal(n, Nbr[n][Flip[d]]) THEN <<n, Flip[d]>> ELSE NoSignal
  <2> SUFFICES ASSUME NEW d \in Dir, Nbr[n][Flip[d]] \in Node
               PROVE  /\ GravityBoundary(n, Flip[d], mine) \in Boundary
                      /\ GravityBoundary(n, Flip[d], mine).cycle = gcycle[n]
                      /\ GravityBoundary(n, Flip[d], mine).data = mine
                      /\ GravityBoundary(n, Flip[d], mine).signal =
                           IF IsLocal(n, Nbr[n][Flip[d]]) THEN <<n, Flip[d]>> ELSE NoSignal
    OBVIOUS
  <2> DEFINE sig == IF IsLocal(n, Nbr[n][Flip[d]]) THEN <<n, Flip[d]>> ELSE NoSignal
  <2>1. sig \in (Node \X Dir) \cup {NoSignal}
    BY TreeFacts
  <2>2. GravityBoundary(n, Flip[d], mine) = [cycle |-> gcycle[n], data |-> mine, signal |-> sig]
    BY DEF GravityBoundary
  <2> HIDE DEF sig
  <2>3. /\ GravityBoundary(n, Flip[d], mine) \in Boundary
        /\ GravityBoundary(n, Flip[d], mine).cycle = gcycle[n]
        /\ GravityBoundary(n, Flip[d], mine).data = mine
        /\ GravityBoundary(n, Flip[d], mine).signal = sig
    BY <1>2, <2>1, <2>2 DEF Boundary
  <2> QED
    BY <2>3 DEF sig
<1>5. TypeOK'
  <2>1. pc' \in [Node -> {"idle", "gather", "collect", "interact", "expand"}]
    BY DEF Upward, TypeOK
  <2>2. signals' \in [Node -> [Dir -> Nat]]
    BY DEF Upward, TypeOK
  <2>3. poles' \in [Node -> SUBSET Source]
    BY <1>1 DEF TypeOK
  <2>4. neighbor' \in [Node -> [Dir -> SUBSET Boundary]]
    <3>1. \A m \in Node : \A d \in Dir : neighbor[m][d] \in SUBSET Boundary
      BY DEF TypeOK
    <3> DEFINE new(m, d) ==
                 IF Nbr[n][Flip[d]] = m /\ ~AOnly(gcycle[n])
                 THEN neighbor[m][d] \cup {GravityBoundary(n, Flip[d], mine)}
                 ELSE neighbor[m][d]
    <3>2. \A m \in Node : \A d \in Dir : new(m, d) \in SUBSET Boundary
      BY <1>4, <3>1
    <3>3. neighbor' = [m \in Node |-> [d \in Dir |-> new(m, d)]]
      BY <1>1
    <3> HIDE DEF new
    <3> QED
      BY ONLY <3>2, <3>3
  <2> QED
    BY <1>1, <1>2, <2>1, <2>2, <2>3, <2>4 DEF TypeOK
<1>6. OwnInv'
  <2> SUFFICES ASSUME NEW m \in Node
               PROVE  /\ pc'[m] \in {"collect", "interact", "expand"} =>
                           poles'[m] \subseteq {Of(m, gcycle'[m])}
                      /\ pc'[m] = "expand" => field'[m] \subseteq {Of(m, gcycle'[m])}
                      /\ pc'[m] = "idle" /\ gcycle'[m] > 0 =>
                           field'[m] \subseteq {Of(m, gcycle'[m] - 1)}
    BY DEF OwnInv
  <2> QED
    BY <1>1, <1>2 DEF IInv, OwnInv
<1>7. WaitInv'
  <2>1. \A m \in Node : \A d \in Sides(m) : Taken(m)' <= Sent(Nbr[m][d])'
    <3> SUFFICES ASSUME NEW m \in Node, NEW d \in Sides(m)
                 PROVE  Taken(m)' <= Sent(Nbr[m][d])'
      OBVIOUS
    <3>1. Nbr[m][d] \in Node /\ Taken(m) <= Sent(Nbr[m][d]) /\ Taken(m) \in Nat
      BY TreeFacts, Counters DEF IInv, WaitInv
    <3> QED
      BY <1>3, <3>1
  <2>2. \A c \in Node \ {Root} : /\ Sent(Parent[c])' <= Sent(c)'
                               /\ gcycle'[c] <= gcycle'[Parent[c]]
    <3> SUFFICES ASSUME NEW c \in Node \ {Root}
                 PROVE  /\ Sent(Parent[c])' <= Sent(c)'
                        /\ gcycle'[c] <= gcycle'[Parent[c]]
      OBVIOUS
    <3>1. /\ Parent[c] \in Node /\ c \in Children(Parent[c])
          /\ Sent(Parent[c]) <= Sent(c) /\ gcycle[c] <= gcycle[Parent[c]]
      BY TreeFacts DEF IInv, WaitInv
    <3>2. CASE Parent[c] = n
      <4>1. PICK v \in child[c] : TRUE
        BY <1>1, <3>1, <3>2
      <4>2. Sent(c) = gcycle[n] + 1
        BY <1>3, <3>2, <4>1 DEF IInv, ChildInv
      <4> QED
        BY <1>2, <1>3, <3>1, <3>2, <4>2
    <3>3. CASE Parent[c] # n
      BY <1>2, <1>3, <3>1, <3>3
    <3> QED
      BY <3>2, <3>3
  <2> QED
    BY <2>1, <2>2 DEF WaitInv
<1>8. ChildInv'
  <2> SUFFICES ASSUME NEW c \in Node, NEW v \in child'[c]
               PROVE  /\ c # Root /\ Sent(c)' = Sent(Parent[c])' + 1
                      /\ v \subseteq {Of(c, Sent(Parent[c])')}
                      /\ child'[c] = {v}
    BY DEF ChildInv
  <2>1. c \notin Children(n)
    BY <1>1
  <2>2. CASE c = n /\ n # Root
    <3>1. /\ Parent[n] \in Node /\ Parent[n] # n
          /\ Sent(Parent[n]) <= Sent(n) /\ gcycle[n] <= gcycle[Parent[n]]
      BY <2>1, <2>2, TreeFacts DEF IInv, WaitInv
    <3>2. Sent(Parent[n]) = gcycle[n] /\ Sent(Parent[n])' = gcycle[n]
      BY <1>3, <3>1, Counters
    <3>3. child[n] = {}
      BY <1>2, <1>3, <3>2 DEF IInv, ChildInv
    <3>4. child'[n] = {mine}
      BY <1>1, <2>1, <2>2, <3>3
    <3> QED
      <4>1. v = mine /\ child'[c] = {v}
        BY <2>2, <3>4
      <4>2. Sent(c)' = Sent(Parent[c])' + 1 /\ Sent(Parent[c])' = gcycle[n]
        BY <1>3, <2>2, <3>2
      <4> QED
        BY <1>1, <2>2, <4>1, <4>2
  <2>3. CASE ~(c = n /\ n # Root)
    <3>1. child'[c] = child[c]
      BY <1>1, <2>1, <2>3
    <3>2. /\ c # Root /\ Sent(c) = Sent(Parent[c]) + 1
          /\ v \subseteq {Of(c, Sent(Parent[c]))} /\ child[c] = {v}
      BY <3>1 DEF IInv, ChildInv
    <3>3. Parent[c] \in Node /\ Parent[c] # n /\ c # n
      BY <2>1, <2>3, <3>2, TreeFacts
    <3> QED
      BY <1>3, <3>1, <3>2, <3>3
  <2> QED
    BY <2>2, <2>3
<1>9. ParentInv'
  BY <1>2 DEF IInv, ParentInv
<1>10. NeighborInv'
  <2> SUFFICES ASSUME NEW m \in Node, NEW d \in Dir
               PROVE  /\ \A b1, b2 \in neighbor'[m][d] : b1.cycle = b2.cycle => b1 = b2
                      /\ \A w \in neighbor'[m][d] :
                           /\ d \in Sides(m) /\ w.signal = SignalFrom(m, d)
                           /\ Taken(m)' <= w.cycle /\ w.cycle < Sent(Nbr[m][d])'
                           /\ w.data \subseteq {Of(m, w.cycle)}
    BY DEF NeighborInv
  <2>1. /\ \A b1, b2 \in neighbor[m][d] : b1.cycle = b2.cycle => b1 = b2
        /\ \A w \in neighbor[m][d] :
             /\ d \in Sides(m) /\ w.signal = SignalFrom(m, d)
             /\ Taken(m) <= w.cycle /\ w.cycle < Sent(Nbr[m][d])
             /\ w.data \subseteq {Of(m, w.cycle)} /\ w.cycle \in Nat
    BY DEF IInv, NeighborInv, TypeOK, Boundary
  <2>2. d \in Sides(m) => Nbr[m][d] \in Node
    BY TreeFacts
  <2>3. CASE Nbr[n][Flip[d]] = m /\ ~AOnly(gcycle[n])
    <3> DEFINE new == GravityBoundary(n, Flip[d], mine)
    <3>1. neighbor'[m][d] = neighbor[m][d] \cup {new}
      BY <1>1, <2>3
    <3>2. d \in Sides(m) /\ Nbr[m][d] = n
      BY <2>3, TreeFacts
    <3>3. new.cycle = gcycle[n] /\ new.data = mine /\ new.signal = SignalFrom(m, d)
      BY <1>4, <2>3, <3>2 DEF SignalFrom, IsLocal
    <3>4. Taken(m) <= gcycle[n]
      BY <1>3, <3>2 DEF IInv, WaitInv
    <3>5. mine \subseteq {Of(m, gcycle[n])}
      BY <1>1, <1>2, SolvesAlike
    <3> HIDE DEF new
    <3> QED
      BY <1>2, <1>3, <2>1, <3>1, <3>2, <3>3, <3>4, <3>5
  <2>4. CASE ~(Nbr[n][Flip[d]] = m /\ ~AOnly(gcycle[n]))
    <3>1. neighbor'[m][d] = neighbor[m][d]
      BY <1>1, <2>4
    <3> QED
      BY <1>3, <2>1, <2>2, <3>1
  <2> QED
    BY <2>3, <2>4
<1>11. HeldInv'
  BY <1>2 DEF IInv, HeldInv
<1>12. ASSUME SignalInv, ~Output PROVE SignalInv'
  <2> SUFFICES ASSUME NEW m \in Node, NEW d \in Dir
               PROVE  signals'[m][d] =
                        IF d \notin Sides(m) THEN 1
                        ELSE IF IsLocal(m, Nbr[m][d]) THEN 1 + Released(Nbr[m][d])' - Begun(m)'
                        ELSE 1 + Sent(m)' - Begun(m)'
    BY DEF SignalInv
  <2>1. signals[m][d] =
          IF d \notin Sides(m) THEN 1
          ELSE IF IsLocal(m, Nbr[m][d]) THEN 1 + Released(Nbr[m][d]) - Begun(m)
          ELSE 1 + Sent(m) - Begun(m)
    BY <1>12 DEF SignalInv
  <2>2. d \in Sides(m) => Nbr[m][d] \in Node /\ Released(Nbr[m][d])' = Released(Nbr[m][d])
    BY <1>3, TreeFacts
  <2>3. Begun(m) \in Nat /\ Begun(m)' = Begun(m) /\ ~AOnly(gcycle[n])
    BY <1>3, <1>12, Counters DEF AOnly
  <2>4. CASE m = n
    BY <1>2, <1>3, <2>1, <2>2, <2>3, <2>4 DEF SelfSignalled
  <2>5. CASE m # n
    BY <1>2, <1>3, <2>1, <2>2, <2>3, <2>5
  <2> QED
    BY <2>4, <2>5
<1> QED
  BY <1>5, <1>6, <1>7, <1>8, <1>9, <1>10, <1>11, <1>12 DEF IInv

(* The boundaries of the present cycle are taken out of the channels.      *)
LEMMA CollectStep ==
  ASSUME TypeOK, IInv, NEW n \in Node, Collect(n)
  PROVE  TypeOK' /\ IInv' /\ (SignalInv => SignalInv')
<1> DEFINE taken == UNION {Boundaries(neighbor[n][d], gcycle[n]) : d \in Sides(n)}
<1>1. /\ pc[n] = "collect" /\ pc'[n] = "interact" /\ gcycle[n] \in Nat
      /\ held'[n] = taken
      /\ \A d \in Dir : neighbor'[n][d] = neighbor[n][d] \ taken
      /\ \A m \in Node : m # n => /\ pc'[m] = pc[m] /\ held'[m] = held[m]
                                /\ neighbor'[m] = neighbor[m]
      /\ gcycle' = gcycle /\ signals' = signals /\ child' = child /\ parent' = parent
      /\ poles' = poles /\ field' = field
  BY DEF Collect, TypeOK
<1>2. \A w \in taken : \E d \in Sides(n) :
        /\ w \in neighbor[n][d] /\ w.cycle = gcycle[n] /\ w \in Boundary
        /\ w.signal = SignalFrom(n, d) /\ w.data \subseteq {Of(n, gcycle[n])}
  <2> SUFFICES ASSUME NEW d \in Sides(n), NEW w \in Boundaries(neighbor[n][d], gcycle[n])
               PROVE  /\ w \in neighbor[n][d] /\ w.cycle = gcycle[n] /\ w \in Boundary
                      /\ w.signal = SignalFrom(n, d) /\ w.data \subseteq {Of(n, gcycle[n])}
    OBVIOUS
  <2>1. d \in Dir /\ w \in neighbor[n][d] /\ w.cycle = gcycle[n]
    BY DEF Boundaries, Sides
  <2> QED
    BY <2>1 DEF TypeOK, IInv, NeighborInv
<1>3. \A d \in Sides(n) : \E w \in taken : w \in neighbor[n][d] /\ w.cycle = gcycle[n]
  BY DEF Collect, Boundaries
<1>4. \A d \in Sides(n) : \A w \in neighbor[n][d] : w.cycle = gcycle[n] => w \in taken
  BY DEF Boundaries
<1>5. taken \in SUBSET Boundary
  BY <1>2
<1> HIDE DEF taken
<1>6. TypeOK'
  <2>1. /\ pc' \in [Node -> {"idle", "gather", "collect", "interact", "expand"}]
        /\ held' \in [Node -> SUBSET Boundary]
    BY <1>5 DEF Collect, TypeOK, taken
  <2>2. neighbor' \in [Node -> [Dir -> SUBSET Boundary]]
    BY DEF Collect, TypeOK
  <2> QED
    BY <1>1, <2>1, <2>2 DEF TypeOK
<1>7. /\ \A m \in Node : /\ Begun(m)' = Begun(m) /\ Sent(m)' = Sent(m)
                         /\ Released(m)' = Released(m)
      /\ \A m \in Node : m # n => Taken(m)' = Taken(m)
      /\ Taken(n) = gcycle[n] /\ Taken(n)' = gcycle[n] + 1
  BY <1>1 DEF Sent, Taken, Released, Begun, TypeOK
<1>8. OwnInv'
  BY <1>1 DEF IInv, OwnInv
<1>9. WaitInv'
  <2>1. \A m \in Node : \A d \in Sides(m) : Taken(m)' <= Sent(Nbr[m][d])'
    <3> SUFFICES ASSUME NEW m \in Node, NEW d \in Sides(m)
                 PROVE  Taken(m)' <= Sent(Nbr[m][d])'
      OBVIOUS
    <3>1. Nbr[m][d] \in Node /\ Taken(m) <= Sent(Nbr[m][d]) /\ Sent(Nbr[m][d]) \in Nat
      BY TreeFacts, Counters DEF IInv, WaitInv
    <3>2. CASE m = n
      <4>1. PICK w \in neighbor[n][d] : w.cycle = gcycle[n]
        BY <1>3, <3>2
      <4>2. gcycle[n] < Sent(Nbr[n][d])
        BY <3>2, <4>1, TreeFacts DEF IInv, NeighborInv
      <4> QED
        BY <1>1, <1>7, <3>1, <3>2, <4>2
    <3>3. CASE m # n
      BY <1>7, <3>1, <3>3
    <3> QED
      BY <3>2, <3>3
  <2> QED
    BY <1>1, <1>7, <2>1, TreeFacts DEF IInv, WaitInv
<1>10. ChildInv' /\ ParentInv'
  BY <1>1, <1>7, TreeFacts DEF IInv, ChildInv, ParentInv
<1>11. NeighborInv'
  <2> SUFFICES ASSUME NEW m \in Node, NEW d \in Dir
               PROVE  /\ \A b1, b2 \in neighbor'[m][d] : b1.cycle = b2.cycle => b1 = b2
                      /\ \A w \in neighbor'[m][d] :
                           /\ d \in Sides(m) /\ w.signal = SignalFrom(m, d)
                           /\ Taken(m)' <= w.cycle /\ w.cycle < Sent(Nbr[m][d])'
                           /\ w.data \subseteq {Of(m, w.cycle)}
    BY DEF NeighborInv
  <2>1. /\ \A b1, b2 \in neighbor[m][d] : b1.cycle = b2.cycle => b1 = b2
        /\ \A w \in neighbor[m][d] :
             /\ d \in Sides(m) /\ w.signal = SignalFrom(m, d)
             /\ Taken(m) <= w.cycle /\ w.cycle < Sent(Nbr[m][d])
             /\ w.data \subseteq {Of(m, w.cycle)} /\ w.cycle \in Nat
    BY DEF IInv, NeighborInv, TypeOK, Boundary
  <2>2. d \in Sides(m) => Nbr[m][d] \in Node
    BY TreeFacts
  <2>3. CASE m = n
    <3>1. \A w \in neighbor'[m][d] : w \in neighbor[m][d] /\ w.cycle # gcycle[n]
      BY <1>1, <1>4, <2>1, <2>3
    <3> QED
      BY <1>1, <1>7, <2>1, <2>2, <2>3, <3>1
  <2>4. CASE m # n
    BY <1>1, <1>7, <2>1, <2>2, <2>4
  <2> QED
    BY <2>3, <2>4
<1>12. HeldInv'
  <2>1. ASSUME NEW b1 \in taken, NEW b2 \in taken, b1.signal = b2.signal,
               b1.signal # NoSignal
        PROVE  b1 = b2
    <3>1. PICK d1 \in Sides(n) : /\ b1 \in neighbor[n][d1] /\ b1.cycle = gcycle[n]
                                 /\ b1.signal = SignalFrom(n, d1)
      BY <1>2
    <3>2. PICK d2 \in Sides(n) : /\ b2 \in neighbor[n][d2] /\ b2.cycle = gcycle[n]
                                 /\ b2.signal = SignalFrom(n, d2)
      BY <1>2
    <3>3. d1 = d2
      BY <2>1, <3>1, <3>2, SignalTellsSide
    <3>4. d1 = d2 /\ d1 \in Dir
      BY <3>3, TreeFacts
    <3> QED
      BY <3>1, <3>2, <3>4 DEF IInv, NeighborInv
  <2>2. \A d \in Sides(n) : \E w \in taken : w.signal = SignalFrom(n, d)
    BY <1>3, TreeFacts DEF IInv, NeighborInv
  <2> SUFFICES ASSUME NEW m \in Node
               PROVE  /\ pc'[m] # "interact" => held'[m] = {}
                      /\ \A w \in held'[m] : /\ w.cycle = gcycle'[m]
                                            /\ w.data \subseteq {Of(m, gcycle'[m])}
                                            /\ \E d \in Sides(m) : w.signal = SignalFrom(m, d)
                      /\ \A b1, b2 \in held'[m] :
                           b1.signal = b2.signal /\ b1.signal # NoSignal => b1 = b2
                      /\ pc'[m] = "interact" =>
                           \A d \in Sides(m) : \E w \in held'[m] : w.signal = SignalFrom(m, d)
    BY DEF HeldInv
  <2>3. CASE m = n
    BY <1>1, <1>2, <2>1, <2>2, <2>3
  <2>4. CASE m # n
    BY <1>1, <2>4 DEF IInv, HeldInv
  <2> QED
    BY <2>3, <2>4
<1>13. ASSUME SignalInv PROVE SignalInv'
  BY <1>1, <1>7, <1>13, TreeFacts DEF SignalInv
<1> QED
  BY <1>6, <1>8, <1>9, <1>10, <1>11, <1>12, <1>13 DEF IInv

(* The interactions are computed and every shared boundary is given back.  *)
LEMMA InteractStep ==
  ASSUME TypeOK, IInv, NEW n \in Node, Interact(n)
  PROVE  TypeOK' /\ IInv' /\ (SignalInv => SignalInv')
<1>1. /\ pc[n] = "interact" /\ pc'[n] = "expand" /\ gcycle[n] \in Nat
      /\ held'[n] = {} /\ field'[n] = Interactions(n)
      /\ \A m \in Node : m # n => /\ pc'[m] = pc[m] /\ held'[m] = held[m]
                                /\ field'[m] = field[m]
      /\ \A m \in Node : \A d \in Dir : signals'[m][d] =
           IF \E w \in held[n] : w.signal = <<m, d>> THEN signals[m][d] + 1
                                                     ELSE signals[m][d]
      /\ gcycle' = gcycle /\ neighbor' = neighbor /\ child' = child /\ parent' = parent
      /\ poles' = poles
  BY DEF Interact, TypeOK
<1>2. Interactions(n) \subseteq {Of(n, gcycle[n])}
  BY <1>1 DEF IInv, OwnInv, HeldInv, Interactions
<1>3. TypeOK'
  <2>1. pc' \in [Node -> {"idle", "gather", "collect", "interact", "expand"}]
        /\ held' \in [Node -> SUBSET Boundary]
    BY DEF Interact, TypeOK
  <2>2. signals' \in [Node -> [Dir -> Nat]]
    BY DEF Interact, TypeOK
  <2>3. field' \in [Node -> SUBSET Source]
    <3>1. Interactions(n) \in SUBSET Source
      BY <1>1, <1>2, SolvesAlike
    <3> QED
      BY <3>1 DEF Interact, TypeOK
  <2> QED
    BY <1>1, <2>1, <2>2, <2>3 DEF TypeOK
<1>4. /\ \A m \in Node : /\ Begun(m)' = Begun(m) /\ Sent(m)' = Sent(m)
                         /\ Taken(m)' = Taken(m)
      /\ \A m \in Node : m # n => Released(m)' = Released(m)
      /\ Released(n) = gcycle[n] /\ Released(n)' = gcycle[n] + 1
  BY <1>1 DEF Sent, Taken, Released, Begun, TypeOK
<1>5. OwnInv'
  BY <1>1, <1>2 DEF IInv, OwnInv
<1>6. WaitInv'
  BY <1>1, <1>4, TreeFacts DEF IInv, WaitInv
<1>7. ChildInv' /\ ParentInv'
  BY <1>1, <1>4, TreeFacts DEF IInv, ChildInv, ParentInv
<1>8. NeighborInv'
  BY <1>1, <1>4, TreeFacts DEF IInv, NeighborInv
<1>9. HeldInv'
  BY <1>1 DEF IInv, HeldInv
<1>10. ASSUME SignalInv PROVE SignalInv'
  <2> SUFFICES ASSUME NEW m \in Node, NEW d \in Dir
               PROVE  signals'[m][d] =
                        IF d \notin Sides(m) THEN 1
                        ELSE IF IsLocal(m, Nbr[m][d]) THEN 1 + Released(Nbr[m][d])' - Begun(m)'
                        ELSE 1 + Sent(m)' - Begun(m)'
    BY DEF SignalInv
  <2>1. signals[m][d] =
          IF d \notin Sides(m) THEN 1
          ELSE IF IsLocal(m, Nbr[m][d]) THEN 1 + Released(Nbr[m][d]) - Begun(m)
          ELSE 1 + Sent(m) - Begun(m)
    BY <1>10 DEF SignalInv
  <2>2. /\ Begun(m) \in Nat /\ Sent(m) \in Nat /\ Begun(m)' = Begun(m) /\ Sent(m)' = Sent(m)
        /\ d \in Sides(m) => Nbr[m][d] \in Node
    BY <1>4, Counters, TreeFacts
  <2>3. ASSUME NEW w \in held[n], w.signal = <<m, d>>
        PROVE  d \in Sides(m) /\ Nbr[m][d] = n /\ IsLocal(m, n)
    <3>1. PICK e \in Sides(n) : w.signal = SignalFrom(n, e)
      BY DEF IInv, HeldInv
    <3>2. IsLocal(n, Nbr[n][e]) /\ <<m, d>> = <<Nbr[n][e], Flip[e]>>
      BY <2>3, <3>1 DEF SignalFrom, NoSignal
    <3>3. m = Nbr[n][e] /\ d = Flip[e]
      BY ONLY <3>2
    <3> QED
      BY <3>2, <3>3, TreeFacts DEF IsLocal
  <2>4. ASSUME d \in Sides(m), Nbr[m][d] = n, IsLocal(m, n)
        PROVE  \E w \in held[n] : w.signal = <<m, d>>
    <3>1. Flip[d] \in Sides(n) /\ Nbr[n][Flip[d]] = m /\ Flip[Flip[d]] = d
      BY <2>4, TreeFacts
    <3>2. PICK w \in held[n] : w.signal = SignalFrom(n, Flip[d])
      BY <1>1, <3>1 DEF IInv, HeldInv
    <3>3. SignalFrom(n, Flip[d]) = <<m, d>>
      BY <2>4, <3>1 DEF SignalFrom, IsLocal
    <3> QED
      BY <3>2, <3>3
  <2>5. CASE d \in Sides(m) /\ Nbr[m][d] = n /\ IsLocal(m, n)
    <3>1. signals'[m][d] = signals[m][d] + 1
      BY <1>1, <2>4, <2>5
    <3> QED
      BY <1>1, <1>4, <2>1, <2>2, <2>5, <3>1
  <2>6. CASE ~(d \in Sides(m) /\ Nbr[m][d] = n /\ IsLocal(m, n))
    <3>1. signals'[m][d] = signals[m][d]
      BY <1>1, <2>3, <2>6
    <3> QED
      BY <1>4, <2>1, <2>2, <2>6, <3>1
  <2> QED
    BY <2>5, <2>6
<1> QED
  BY <1>3, <1>5, <1>6, <1>7, <1>8, <1>9, <1>10 DEF IInv

(* Expansions come down and the solve is over.                             *)
LEMMA ExpandStep ==
  ASSUME TypeOK, IInv, NEW n \in Node, Expand(n)
  PROVE  TypeOK' /\ IInv' /\ (SignalInv => SignalInv')
<1>1. PICK arrived \in IF n = Root THEN {{}} ELSE parent[n] :
        /\ field' = [field EXCEPT ![n] = field[n] \cup arrived]
        /\ parent' = [m \in Node |->
             IF m \in Children(n) THEN parent[m] \cup {field[n] \cup arrived}
             ELSE IF m = n /\ n # Root THEN parent[m] \ {arrived}
             ELSE parent[m]]
  BY DEF Expand
<1> DEFINE mine == field[n] \cup arrived
<1>2. /\ pc[n] = "expand" /\ pc'[n] = "idle" /\ gcycle[n] \in Nat
      /\ gcycle'[n] = gcycle[n] + 1 /\ field'[n] = mine
      /\ \A m \in Node : m # n => /\ pc'[m] = pc[m] /\ gcycle'[m] = gcycle[m]
                                /\ field'[m] = field[m]
      /\ signals' = signals /\ neighbor' = neighbor /\ child' = child
      /\ poles' = poles /\ held' = held
  BY <1>1 DEF Expand, TypeOK
<1>3. n # Root => /\ parent[n] = {arrived} /\ arrived \subseteq {Of(n, gcycle[n])}
                  /\ gcycle[Parent[n]] = gcycle[n] + 1
  BY <1>1 DEF IInv, ParentInv
<1>4. mine \subseteq {Of(n, gcycle[n])} /\ mine \in SUBSET Source
  <2>1. mine \subseteq {Of(n, gcycle[n])}
    BY <1>1, <1>2, <1>3 DEF IInv, OwnInv
  <2> QED
    BY <1>2, <2>1, SolvesAlike
<1>5. n # Root => Parent[n] \in Node /\ Parent[n] # n /\ n \notin Children(n)
  BY <1>2, <1>3, TreeFacts
<1>6. n \notin Children(n)
  BY <1>5, TreeFacts
<1>7. /\ \A m \in Node : /\ Begun(m)' = Begun(m) /\ Sent(m)' = Sent(m)
                         /\ Taken(m)' = Taken(m) /\ Released(m)' = Released(m)
      /\ Sent(n) = gcycle[n] + 1
  BY <1>2 DEF Sent, Taken, Released, Begun, TypeOK
<1>8. \A c \in Children(n) : c \in Node /\ c # n /\ Parent[c] = n /\ c # Root
                            /\ gcycle[c] = gcycle[n] /\ parent[c] = {}
  <2> SUFFICES ASSUME NEW c \in Children(n)
               PROVE  c \in Node /\ c # n /\ Parent[c] = n /\ c # Root
                      /\ gcycle[c] = gcycle[n] /\ parent[c] = {}
    OBVIOUS
  <2>1. c \in Node \ {Root} /\ c # n /\ Parent[c] = n
    BY <1>6, TreeFacts
  <2>2. gcycle[c] <= gcycle[n] /\ gcycle[n] + 1 <= Sent(c)
    BY <1>7, <2>1 DEF IInv, WaitInv
  <2>3. gcycle[c] = gcycle[n]
    BY <1>2, <2>1, <2>2, Counters
  <2>4. parent[c] = {}
    BY <1>2, <2>1, <2>3 DEF IInv, ParentInv
  <2> QED
    BY <2>1, <2>3, <2>4
<1>9. /\ \A c \in Children(n) : parent'[c] = {mine}
      /\ n # Root => parent'[n] = {}
      /\ \A m \in Node \ Children(n) : m # n \/ n = Root => parent'[m] = parent[m]
  BY <1>1, <1>3, <1>6, <1>8
<1> HIDE DEF mine
<1>10. TypeOK'
  <2>1. pc' \in [Node -> {"idle", "gather", "collect", "interact", "expand"}]
        /\ gcycle' \in [Node -> Nat]
    BY DEF Expand, TypeOK
  <2>2. field' \in [Node -> SUBSET Source]
    BY <1>1, <1>4 DEF TypeOK, mine
  <2>3. parent' \in [Node -> SUBSET SUBSET Source]
    <3>1. \A m \in Node : parent[m] \in SUBSET SUBSET Source
      BY DEF TypeOK
    <3> HIDE DEF Source
    <3> QED
      BY ONLY <1>1, <1>4, <3>1 DEF mine
  <2> QED
    BY <1>2, <2>1, <2>2, <2>3 DEF TypeOK
<1>11. OwnInv'
  <2> SUFFICES ASSUME NEW m \in Node
               PROVE  /\ pc'[m] \in {"collect", "interact", "expand"} =>
                           poles'[m] \subseteq {Of(m, gcycle'[m])}
                      /\ pc'[m] = "expand" => field'[m] \subseteq {Of(m, gcycle'[m])}
                      /\ pc'[m] = "idle" /\ gcycle'[m] > 0 =>
                           field'[m] \subseteq {Of(m, gcycle'[m] - 1)}
    BY DEF OwnInv
  <2>1. CASE m = n
    <3>1. gcycle'[n] - 1 = gcycle[n]
      BY <1>2
    <3> QED
      BY <1>2, <1>4, <2>1, <3>1
  <2>2. CASE m # n
    BY <1>2, <2>2 DEF IInv, OwnInv
  <2> QED
    BY <2>1, <2>2
<1>12. WaitInv'
  <2>1. \A m \in Node : \A d \in Sides(m) : Taken(m)' <= Sent(Nbr[m][d])'
    BY <1>7, TreeFacts DEF IInv, WaitInv
  <2>2. \A c \in Node \ {Root} : /\ Sent(Parent[c])' <= Sent(c)'
                               /\ gcycle'[c] <= gcycle'[Parent[c]]
    <3> SUFFICES ASSUME NEW c \in Node \ {Root}
                 PROVE  /\ Sent(Parent[c])' <= Sent(c)'
                        /\ gcycle'[c] <= gcycle'[Parent[c]]
      OBVIOUS
    <3>1. /\ Parent[c] \in Node /\ gcycle[c] \in Nat /\ gcycle[Parent[c]] \in Nat
          /\ Sent(Parent[c]) <= Sent(c) /\ gcycle[c] <= gcycle[Parent[c]]
      BY TreeFacts, Counters DEF IInv, WaitInv
    <3>2. CASE c = n
      BY <1>2, <1>3, <1>5, <1>7, <3>1, <3>2
    <3>3. CASE c # n
      BY <1>2, <1>7, <3>1, <3>3
    <3> QED
      BY <3>2, <3>3
  <2> QED
    BY <2>1, <2>2 DEF WaitInv
<1>13. ChildInv'
  BY <1>2, <1>7, TreeFacts DEF IInv, ChildInv
<1>14. ParentInv'
  <2> SUFFICES ASSUME NEW c \in Node, NEW v \in parent'[c]
               PROVE  /\ c # Root /\ gcycle'[Parent[c]] = gcycle'[c] + 1
                      /\ v \subseteq {Of(c, gcycle'[c])}
                      /\ parent'[c] = {v}
    BY DEF ParentInv
  <2>1. CASE c \in Children(n)
    <3>1. v = mine /\ parent'[c] = {v}
      BY <1>9, <2>1
    <3>2. gcycle'[Parent[c]] = gcycle[n] + 1 /\ gcycle'[c] = gcycle[n]
      BY <1>2, <1>8, <2>1
    <3>3. Of(c, gcycle[n]) = Of(n, gcycle[n])
      BY <1>2, SolvesAlike
    <3> QED
      BY <1>4, <1>8, <2>1, <3>1, <3>2, <3>3
  <2>2. CASE c \notin Children(n)
    <3>1. c # n \/ n = Root
      BY <1>9
    <3>2. parent'[c] = parent[c]
      BY <1>9, <2>2, <3>1
    <3>3. /\ c # Root /\ gcycle[Parent[c]] = gcycle[c] + 1
          /\ v \subseteq {Of(c, gcycle[c])} /\ parent[c] = {v}
      BY <3>2 DEF IInv, ParentInv
    <3>4. Parent[c] \in Node /\ Parent[c] # n /\ c # n
      BY <2>2, <3>1, <3>3, TreeFacts
    <3> QED
      BY <1>2, <3>2, <3>3, <3>4
  <2> QED
    BY <2>1, <2>2
<1>15. NeighborInv'
  BY <1>2, <1>7, TreeFacts DEF IInv, NeighborInv
<1>16. HeldInv'
  BY <1>2 DEF IInv, HeldInv
<1>17. ASSUME SignalInv PROVE SignalInv'
  BY <1>2, <1>7, <1>17, TreeFacts DEF SignalInv
<1> QED
  BY <1>10, <1>11, <1>12, <1>13, <1>14, <1>15, <1>16, <1>17 DEF IInv

(* A step that changes nothing.                                            *)
LEMMA StutterStep ==
  ASSUME TypeOK, IInv, UNCHANGED vars
  PROVE  TypeOK' /\ IInv' /\ (SignalInv => SignalInv')
<1>1. TypeOK'
  BY DEF TypeOK, vars
<1>2. \A n \in Node : /\ Begun(n)' = Begun(n) /\ Sent(n)' = Sent(n)
                     /\ Taken(n)' = Taken(n) /\ Released(n)' = Released(n)
  BY DEF Begun, Sent, Taken, Released, vars
<1>3. OwnInv' /\ HeldInv'
  BY DEF IInv, OwnInv, HeldInv, vars
<1>4. WaitInv' /\ ChildInv' /\ ParentInv' /\ NeighborInv'
  BY <1>2, TreeFacts DEF IInv, WaitInv, ChildInv, ParentInv, NeighborInv, vars
<1>5. ASSUME SignalInv PROVE SignalInv'
  BY <1>2, <1>5, TreeFacts DEF SignalInv, vars
<1> QED
  BY <1>1, <1>3, <1>4, <1>5 DEF IInv

(* Every action keeps the strengthened invariant, and the count of the     *)
(* semaphores where boundaries are sent in every solve.                    *)
LEMMA Inductive ==
  TypeOK /\ IInv /\ [Next]_vars =>
    TypeOK' /\ IInv' /\ (SignalInv /\ ~Output => SignalInv')
<1> SUFFICES ASSUME TypeOK, IInv, [Next]_vars
             PROVE  TypeOK' /\ IInv' /\ (SignalInv /\ ~Output => SignalInv')
  OBVIOUS
<1>1. ASSUME NEW n \in Node, Wait(n)
      PROVE  TypeOK' /\ IInv' /\ (SignalInv /\ ~Output => SignalInv')
  BY <1>1, WaitStep
<1>2. ASSUME NEW n \in Node, Upward(n)
      PROVE  TypeOK' /\ IInv' /\ (SignalInv /\ ~Output => SignalInv')
  BY <1>2, UpwardStep
<1>3. ASSUME NEW n \in Node, Collect(n)
      PROVE  TypeOK' /\ IInv' /\ (SignalInv /\ ~Output => SignalInv')
  BY <1>3, CollectStep
<1>4. ASSUME NEW n \in Node, Interact(n)
      PROVE  TypeOK' /\ IInv' /\ (SignalInv /\ ~Output => SignalInv')
  BY <1>4, InteractStep
<1>5. ASSUME NEW n \in Node, Expand(n)
      PROVE  TypeOK' /\ IInv' /\ (SignalInv /\ ~Output => SignalInv')
  BY <1>5, ExpandStep
<1>6. CASE UNCHANGED vars
  BY <1>6, StutterStep
<1> QED
  BY <1>1, <1>2, <1>3, <1>4, <1>5, <1>6 DEF Next

(* Every variable keeps its type and the strengthened invariant holds in   *)
(* every state: the induction the theorems below rest on.                  *)
THEOREM Invariance == Spec => [](TypeOK /\ IInv)
<1>1. Init => TypeOK /\ IInv
  BY InitInv
<1>2. TypeOK /\ IInv /\ [Next]_vars => TypeOK' /\ IInv'
  BY Inductive
<1> QED
  BY <1>1, <1>2, PTL DEF Spec

(* The same with the count of the semaphores, without an output file.      *)
THEOREM SignalsCounted ==
  ASSUME ~Output
  PROVE  Spec => [](TypeOK /\ IInv /\ SignalInv)
<1>1. Init => TypeOK /\ IInv /\ SignalInv
  BY InitInv
<1>2. TypeOK /\ IInv /\ SignalInv /\ [Next]_vars => TypeOK' /\ IInv' /\ SignalInv'
  BY Inductive
<1> QED
  BY <1>1, <1>2, PTL DEF Spec

-----------------------------------------------------------------------------
(* Type correctness, for every tree and placement; no semaphore falls      *)
(* below zero.                                                             *)
THEOREM TypeCorrect == Spec => []TypeOK
  BY Invariance, PTL

(* A solve is made of nothing but itself, on every tree and however its    *)
(* nodes are placed and scheduled.                                         *)
THEOREM SolvesNeverMix == Spec => []FieldOfThisSolve
<1>1. TypeOK /\ IInv => FieldOfThisSolve
  BY DEF IInv, OwnInv, FieldOfThisSolve
<1> QED
  BY <1>1, Invariance, PTL

(* The channels that number values by arrival never hold two.              *)
THEOREM OneArrivalAtATime == Spec => []OneArrival
<1>1. ASSUME TypeOK, IInv PROVE OneArrival
  BY <1>1 DEF IInv, ChildInv, ParentInv, OneArrival
<1> QED
  BY <1>1, Invariance, PTL

(* At most one boundary shared with a neighbor is alive, at most two       *)
(* copies wait for one.                                                    *)
THEOREM FewBoundaries == ASSUME ~Output PROVE Spec => []AliveBoundaries
<1>1. ASSUME TypeOK, IInv, SignalInv PROVE AliveBoundaries
  <2> SUFFICES ASSUME NEW n \in Node, NEW d \in Sides(n)
               PROVE  /\ \A b1, b2 \in neighbor[n][d] \cup held[n] :
                           /\ b1.signal = <<Nbr[n][d], Flip[d]>>
                           /\ b2.signal = <<Nbr[n][d], Flip[d]>>
                           => b1 = b2
                      /\ \A b1, b2 \in neighbor[n][d] : b1.cycle - b2.cycle \in -1..1
    BY DEF AliveBoundaries
  <2> DEFINE m == Nbr[n][d]
             from == <<m, Flip[d]>>
  <2>1. /\ m \in Node /\ d \in Dir /\ Flip[d] \in Sides(m) /\ Flip[d] \in Dir
        /\ Nbr[m][Flip[d]] = n
    BY TreeFacts
  <2> HIDE DEF m
  <2>2. \A w \in neighbor[n][d] :
          /\ Taken(n) <= w.cycle /\ w.cycle < Sent(m) /\ w.cycle \in Nat
          /\ w.signal = SignalFrom(n, d)
    BY <1>1, <2>1 DEF IInv, NeighborInv, TypeOK, Boundary, m
  <2>3. /\ gcycle[n] \in Nat /\ Released(n) \in Nat /\ Taken(n) \in Nat /\ Sent(n) \in Nat
        /\ gcycle[n] <= Released(n) /\ Released(n) <= Taken(n) /\ Taken(n) <= Sent(n)
        /\ Sent(n) <= gcycle[n] + 1
        /\ gcycle[m] \in Nat /\ Taken(m) \in Nat /\ Sent(m) \in Nat /\ Begun(m) \in Nat
        /\ gcycle[m] <= Taken(m) /\ Sent(m) <= Begun(m) /\ Sent(m) <= gcycle[m] + 1
    <3>1. Sent(n) <= gcycle[n] + 1 /\ Sent(m) <= gcycle[m] + 1
      BY <1>1, <2>1 DEF Sent, TypeOK
    <3> QED
      BY <1>1, <2>1, <3>1, Counters
  <2>4. Taken(m) <= Sent(n)
    BY <1>1, <2>1 DEF IInv, WaitInv
  <2>5. \A b1, b2 \in neighbor[n][d] : b1.cycle - b2.cycle \in -1..1
    BY <2>2, <2>3, <2>4
  <2>6. ASSUME NEW b1 \in neighbor[n][d] \cup held[n], NEW b2 \in neighbor[n][d] \cup held[n],
               b1.signal = from, b2.signal = from
        PROVE  b1 = b2
    <3>1. IsLocal(n, m)
      <4>1. from # NoSignal
        BY DEF NoSignal
      <4>2. CASE b1 \in neighbor[n][d]
        BY <2>2, <2>6, <4>1, <4>2 DEF SignalFrom, m
      <4>3. CASE b1 \in held[n]
        <5>1. PICK e \in Sides(n) : b1.signal = SignalFrom(n, e)
          BY <1>1, <4>3 DEF IInv, HeldInv
        <5>2. IsLocal(n, Nbr[n][e]) /\ from = <<Nbr[n][e], Flip[e]>>
          BY <2>6, <4>1, <5>1 DEF SignalFrom
        <5>3. m = Nbr[n][e]
          BY ONLY <5>2
        <5> QED
          BY <5>2, <5>3
      <4> QED
        BY <4>2, <4>3
    <3>2. Begun(m) <= Released(n) + 1
      <4>1. signals[m][Flip[d]] = 1 + Released(n) - Begun(m)
        BY <1>1, <2>1, <3>1 DEF SignalInv, IsLocal
      <4>2. signals[m][Flip[d]] \in Nat
        BY <1>1, <2>1 DEF TypeOK
      <4> QED
        BY <2>3, <4>1, <4>2
    <3>3. \A w \in neighbor[n][d] : w.cycle = Released(n) /\ Taken(n) = Released(n)
      BY <2>2, <2>3, <3>2
    <3>4. CASE neighbor[n][d] = {}
      <4>1. b1 \in held[n] /\ b2 \in held[n] /\ b1.signal # NoSignal
        BY <2>6, <3>4 DEF NoSignal
      <4> QED
        BY <1>1, <2>6, <4>1 DEF IInv, HeldInv
    <3>5. CASE neighbor[n][d] # {}
      <4>1. pc[n] # "interact"
        BY <2>3, <3>3, <3>5 DEF Taken, Released
      <4>2. b1 \in neighbor[n][d] /\ b2 \in neighbor[n][d]
        BY <1>1, <4>1 DEF IInv, HeldInv
      <4> QED
        BY <1>1, <2>1, <3>3, <4>2 DEF IInv, NeighborInv
    <3> QED
      BY <3>4, <3>5
  <2> QED
    BY <2>5, <2>6 DEF m
<1> QED
  BY <1>1, SignalsCounted, PTL

(* Between two solves every semaphore is at one and every channel empty:   *)
(* a node may be moved with new semaphores.                                *)
THEOREM RestingSignals == ASSUME ~Output PROVE Spec => []SignalsAtRest
<1>1. ASSUME TypeOK, IInv, SignalInv PROVE SignalsAtRest
  <2> SUFFICES ASSUME \A n \in Node : pc[n] = "idle" /\ gcycle[n] = gcycle[Root],
                      NEW n \in Node
               PROVE  /\ child[n] = {} /\ parent[n] = {}
                      /\ \A d \in Dir : signals[n][d] = 1 /\ neighbor[n][d] = {}
    BY DEF SignalsAtRest
  <2>1. \A m \in Node : /\ gcycle[m] = gcycle[Root] /\ Sent(m) = gcycle[Root]
                       /\ Begun(m) = gcycle[Root] /\ Taken(m) = gcycle[Root]
                       /\ Released(m) = gcycle[Root]
    BY DEF Sent, Begun, Taken, Released
  <2>2. gcycle[Root] \in Nat
    BY <1>1, TreeFacts DEF TypeOK
  <2>3. child[n] = {}
    <3> SUFFICES ASSUME NEW v \in child[n] PROVE FALSE
      OBVIOUS
    <3>1. n # Root /\ Sent(n) = Sent(Parent[n]) + 1
      BY <1>1 DEF IInv, ChildInv
    <3>2. Parent[n] \in Node
      BY <3>1, TreeFacts
    <3> QED
      BY <2>1, <2>2, <3>1, <3>2
  <2>4. parent[n] = {}
    <3> SUFFICES ASSUME NEW v \in parent[n] PROVE FALSE
      OBVIOUS
    <3>1. n # Root /\ gcycle[Parent[n]] = gcycle[n] + 1
      BY <1>1 DEF IInv, ParentInv
    <3>2. Parent[n] \in Node
      BY <3>1, TreeFacts
    <3> QED
      BY <2>1, <2>2, <3>1, <3>2
  <2>5. ASSUME NEW d \in Dir PROVE signals[n][d] = 1 /\ neighbor[n][d] = {}
    <3>1. d \in Sides(n) => Nbr[n][d] \in Node
      BY TreeFacts
    <3>2. neighbor[n][d] = {}
      <4> SUFFICES ASSUME NEW w \in neighbor[n][d] PROVE FALSE
        OBVIOUS
      <4>1. /\ d \in Sides(n) /\ Taken(n) <= w.cycle /\ w.cycle < Sent(Nbr[n][d])
            /\ w.cycle \in Nat
        BY <1>1 DEF IInv, NeighborInv, TypeOK, Boundary
      <4> QED
        BY <2>1, <2>2, <3>1, <4>1
    <3>3. signals[n][d] = 1
      BY <1>1, <2>1, <2>2, <3>1 DEF SignalInv
    <3> QED
      BY <3>2, <3>3
  <2> QED
    BY <2>3, <2>4, <2>5
<1> QED
  BY <1>1, SignalsCounted, PTL

-----------------------------------------------------------------------------
(* Every pair of cells interacts exactly once.  The kernels are first shown*)
(* to agree, and to do what a reader would expect of them: a cell of a node*)
(* below the root receives the different cells whose parents are near and, *)
(* between multipoles, which are far themselves.  As distance only grows   *)
(* when two cells are divided, a pair is near on all levels up to one and  *)
(* far on all others.                                                      *)

(* From cell i to cell j, counted through the domain.                      *)
Offset(i, j) == Difference(i.x, j.x)

(* Halving the indices of a node's surroundings is halving the indices     *)
(* counted through the domain: the number of cells of a node is even.      *)
LEMMA CoarseIsHalf ==
  ASSUME NEW x \in Int, NEW n \in Int
  PROVE  Coarse(x - INX * n) = x \div 2 - (INX \div 2) * n
<1> DEFINE h == INX \div 2
<1>1. h \in Nat /\ INX = 2 * h
  BY GridAssumption
<1>2. PICK k \in Int : k = h * n
  BY <1>1
<1>3. INX * n = 2 * k
  BY <1>1, <1>2
<1>4. x - INX * n + INX = x - 2 * k + 2 * h
  BY <1>1, <1>3
<1>5. \A j \in Int : (x + 2 * j) \div 2 = x \div 2 + j
  OBVIOUS
<1>6. (x - 2 * k + 2 * h) \div 2 = x \div 2 + (h - k)
  <2>1. h - k \in Int /\ x - 2 * k + 2 * h = x + 2 * (h - k)
    BY <1>1, <1>2
  <2>2. (x + 2 * (h - k)) \div 2 = x \div 2 + (h - k)
    BY <2>1, <1>5
  <2> HIDE DEF h
  <2> QED BY <2>1, <2>2
<1> QED BY <1>1, <1>2, <1>4, <1>6 DEF Coarse

(* Offsets and octants are triples of integers.                            *)
LEMMA OffsetType ==
  ASSUME NEW p \in Place, NEW q \in Place
  PROVE  Offset(p, q) \in [Dim -> Int]
BY DEF Offset, Difference, Place

(* The same cells seen from the other side are as far apart.               *)
LEMMA FarBothWays ==
  ASSUME NEW p \in Place, NEW q \in Place
  PROVE  Far(Offset(p, q)) <=> Far(Offset(q, p))
<1>1. \A x, y \in Int : (x - y) * (x - y) = (y - x) * (y - x)
  OBVIOUS
<1>2. \A d \in Dim : /\ p.x[d] \in Int /\ q.x[d] \in Int
                     /\ Offset(p, q)[d] = q.x[d] - p.x[d]
                     /\ Offset(q, p)[d] = p.x[d] - q.x[d]
  BY DEF Offset, Difference, Place
<1>3. \A d \in Dim : Offset(p, q)[d] * Offset(p, q)[d] = Offset(q, p)[d] * Offset(q, p)[d]
  BY <1>1, <1>2
<1>4. 1 \in Dim /\ 2 \in Dim /\ 3 \in Dim
  BY DEF Dim
<1> QED BY <1>3, <1>4 DEF Far

(* The greater of two numbers has the greater square.                      *)
LEMMA Squares ==
  ASSUME NEW x \in Int, NEW y \in Int, 0 - y <= x, x <= y
  PROVE  x * x \in Nat /\ y * y \in Nat /\ x * x <= y * y
<1>1. y >= 0 /\ y - x >= 0 /\ y + x >= 0
  OBVIOUS
<1>2. \A u, v \in Int : u >= 0 /\ v >= 0 => u * v >= 0
  OBVIOUS
<1>3. (y - x) * (y + x) >= 0
  BY <1>1, <1>2
<1>4. (y - x) * (y + x) = y * y - x * x
  OBVIOUS
<1>5. x * x >= 0 /\ y * y >= 0
  <2>1. x * x >= 0
    <3>1. CASE x >= 0 BY <3>1, <1>2
    <3>2. CASE x < 0
      <4>1. (0 - x) * (0 - x) >= 0 BY <3>2, <1>2
      <4> QED BY <4>1
    <3> QED BY <3>1, <3>2
  <2> QED BY <2>1, <1>1, <1>2
<1> QED BY <1>3, <1>4, <1>5

(* A product of a natural number grows with the other factor.              *)
LEMMA Products ==
  ASSUME NEW c \in Nat, NEW s \in Int, NEW t \in Int, s <= t
  PROVE  c * s <= c * t
<1>1. \A u, v \in Int : u >= 0 /\ v >= 0 => u * v >= 0
  OBVIOUS
<1>2. c * (t - s) >= 0
  BY <1>1
<1> QED BY <1>2

(* Farther along every dimension, farther.                                 *)
LEMMA FarGrows ==
  ASSUME NEW v \in [Dim -> Int], NEW w \in [Dim -> Int], Far(v),
         \A d \in Dim : v[d] * v[d] <= w[d] * w[d]
  PROVE  Far(w)
<1> DEFINE V == v[1] * v[1] + v[2] * v[2] + v[3] * v[3]
           W == w[1] * w[1] + w[2] * w[2] + w[3] * w[3]
           c == ThetaNum * ThetaNum
<1>1. \A d \in Dim : v[d] \in Int /\ w[d] \in Int
  OBVIOUS
<1>2. 1 \in Dim /\ 2 \in Dim /\ 3 \in Dim
  BY DEF Dim
<1>3. \A d \in Dim : v[d] * v[d] \in Int /\ w[d] * w[d] \in Int
  BY <1>1
<1>4. V \in Int /\ W \in Int /\ V <= W
  BY <1>2, <1>3
<1>5. c \in Nat
  BY GridAssumption, Squares
<1>6. c * V <= c * W
  BY <1>4, <1>5, Products
<1>7. ThetaDen * ThetaDen <= c * V
  BY DEF Far
<1>8. ThetaDen * ThetaDen \in Int /\ c * V \in Int /\ c * W \in Int
  BY <1>4, <1>5, GridAssumption
<1>9. ThetaDen * ThetaDen <= c * W
  BY <1>6, <1>7, <1>8
<1> QED BY <1>9 DEF Far

-----------------------------------------------------------------------------
(* The parts of two cells are no nearer to each other than the cells are.  *)
LEMMA FarStaysFar ==
  ASSUME NEW p \in Place, NEW q \in Place, NEW o1 \in Octant, NEW o2 \in Octant,
         Far(Offset(p, q))
  PROVE  Far(Offset(Below(p, o1), Below(q, o2)))
<1> DEFINE v == Offset(p, q)
           w == Offset(Below(p, o1), Below(q, o2))
<1>1. \A d \in Dim : /\ v[d] \in Int /\ o1[d] \in 0..1 /\ o2[d] \in 0..1
                     /\ w[d] = 2 * v[d] + o2[d] - o1[d]
  BY DEF Offset, Difference, Below, Place, Octant
<1>2. v \in [Dim -> Int] /\ w \in [Dim -> Int]
  BY <1>1 DEF Offset, Difference
<1>3. ASSUME NEW d \in Dim PROVE v[d] * v[d] <= w[d] * w[d]
  <2>1. PICK x, y \in Int : x = v[d] /\ y = w[d]
    BY <1>1
  <2>2. y \in {2 * x - 1, 2 * x, 2 * x + 1}
    BY <1>1, <2>1
  <2>3. CASE x >= 0 /\ y >= 0
    <3>1. 0 - y <= x /\ x <= y BY <2>2, <2>3
    <3> QED BY <3>1, <2>1, Squares
  <2>4. CASE x >= 0 /\ y < 0
    <3>1. x = 0 BY <2>2, <2>4
    <3>2. y * y >= 0
      <4>1. 0 - (0 - y) <= y /\ y <= 0 - y BY <2>4
      <4> QED BY <4>1, Squares
    <3> QED BY <3>1, <3>2, <2>1
  <2>5. CASE x < 0
    <3>1. 0 - (0 - y) <= x /\ x <= 0 - y BY <2>2, <2>5
    <3>2. x * x <= (0 - y) * (0 - y) BY <3>1, Squares
    <3>3. (0 - y) * (0 - y) = y * y OBVIOUS
    <3> QED BY <3>2, <3>3, <2>1
  <2> QED BY <2>3, <2>4, <2>5, <2>1
<1> QED BY <1>2, <1>3, FarGrows

(* A cell is not far from itself.                                          *)
LEMMA SelfIsNear ==
  ASSUME NEW p \in Place
  PROVE  ~Far(Offset(p, p))
<1>1. Offset(p, p)[1] = 0 /\ Offset(p, p)[2] = 0 /\ Offset(p, p)[3] = 0
  BY DEF Offset, Difference, Place, Dim
<1>2. ThetaDen * ThetaDen > 0 /\ ThetaNum * ThetaNum \in Int
  <2>1. \A u \in Int : u >= 1 => u * u >= 1
    <3>1. ASSUME NEW u \in Int, u >= 1 PROVE u * u >= 1
      <4>1. u * 1 <= u * u BY <3>1, Products
      <4> QED BY <4>1, <3>1
    <3> QED BY <3>1
  <2> QED BY <2>1, GridAssumption
<1> DEFINE z == Offset(p, p)
<1>3. z[1] * z[1] + z[2] * z[2] + z[3] * z[3] = 0
  BY <1>1
<1>4. ThetaNum * ThetaNum * (z[1] * z[1] + z[2] * z[2] + z[3] * z[3]) = 0
  BY <1>2, <1>3
<1>5. ThetaDen * ThetaDen \in Int
  BY GridAssumption
<1> HIDE DEF z
<1>6. ~Far(z)
  BY <1>2, <1>4, <1>5 DEF Far
<1> QED BY <1>6 DEF z

-----------------------------------------------------------------------------
(* Arithmetic of indices.                                                  *)

(* A number and its quotient and remainder determine each other.           *)
LEMMA QuotientIs ==
  ASSUME NEW n \in Nat \ {0}, NEW k \in Int, NEW r \in Int, 0 <= r, r < n
  PROVE  (n * k + r) \div n = k /\ (n * k + r) % n = r
<1> DEFINE x == n * k + r
           q == x \div n
<1>1. x \in Int /\ n * k \in Int
  OBVIOUS
<1>2. q \in Int /\ n * q <= x /\ x < n * q + n /\ x % n = x - n * q
  BY <1>1
<1>3. q <= k
  <2>1. SUFFICES ASSUME k + 1 <= q PROVE FALSE
    BY <1>2
  <2>2. n * (k + 1) <= n * q
    BY <2>1, <1>2, Products
  <2>3. n * (k + 1) = n * k + n
    OBVIOUS
  <2> QED BY <1>1, <1>2, <2>2, <2>3
<1>4. k <= q
  <2>1. SUFFICES ASSUME q + 1 <= k PROVE FALSE
    BY <1>2
  <2>2. n * (q + 1) <= n * k
    BY <2>1, <1>2, Products
  <2>3. n * (q + 1) = n * q + n
    BY <1>2
  <2> QED BY <1>1, <1>2, <2>2, <2>3
<1>5. q = k
  BY <1>2, <1>3, <1>4
<1> QED BY <1>1, <1>2, <1>5

(* A number has a quotient and a remainder.                                *)
LEMMA QuotientExists ==
  ASSUME NEW n \in Nat \ {0}, NEW x \in Int
  PROVE  \E k \in Int, r \in 0..(n - 1) : x = n * k + r /\ k = x \div n
<1>1. x \div n \in Int /\ n * (x \div n) <= x /\ x < n * (x \div n) + n
  OBVIOUS
<1> DEFINE k == x \div n
           r == x - n * k
<1>2. k \in Int /\ n * k \in Int /\ r \in 0..(n - 1) /\ x = n * k + r
  BY <1>1
<1> QED BY <1>2

(* Numbers of two digits are equal if their digits are.                    *)
LEMMA Digits ==
  ASSUME NEW n \in Nat \ {0}, NEW p \in Int, NEW q \in Int,
         NEW r \in 0..(n - 1), NEW s \in 0..(n - 1), n * p + r = n * q + s
  PROVE  p = q /\ r = s
<1>1. (n * p + r) \div n = p /\ (n * p + r) % n = r
  BY QuotientIs
<1>2. (n * q + s) \div n = q /\ (n * q + s) % n = s
  BY QuotientIs
<1> QED BY <1>1, <1>2

(* So a place in an array of three dimensions is that of one element.      *)
LEMMA IndexIsUnique ==
  ASSUME NEW n \in Nat \ {0},
         NEW p1 \in 0..(n - 1), NEW p2 \in 0..(n - 1), NEW p3 \in 0..(n - 1),
         NEW q1 \in 0..(n - 1), NEW q2 \in 0..(n - 1), NEW q3 \in 0..(n - 1),
         p1 * (n * n) + (p2 * n + p3) = q1 * (n * n) + (q2 * n + q3)
  PROVE  p1 = q1 /\ p2 = q2 /\ p3 = q3
<1>1. PICK p \in Int, q \in Int : p = n * p1 + p2 /\ q = n * q1 + q2
  OBVIOUS
<1>2. n * p + p3 = n * q + q3
  <2>1. /\ n * (n * p1 + p2) + p3 = p1 * (n * n) + (p2 * n + p3)
        /\ n * (n * q1 + q2) + q3 = q1 * (n * n) + (q2 * n + q3)
    OBVIOUS
  <2> QED BY <1>1, <2>1
<1>3. p = q /\ p3 = q3
  BY <1>2, Digits
<1>4. n * p1 + p2 = n * q1 + q2
  BY <1>1, <1>3
<1>5. p1 = q1 /\ p2 = q2
  BY <1>4, Digits
<1> QED BY <1>3, <1>5

(* The place of an entry in such an array.                                 *)
PlaceOf(n, p1, p2, p3) == p1 * (n * n) + (p2 * n + p3)

(* It is that of one entry only.                                           *)
LEMMA PlaceIsUnique ==
  ASSUME NEW n \in Nat \ {0},
         NEW p1 \in 0..(n - 1), NEW p2 \in 0..(n - 1), NEW p3 \in 0..(n - 1),
         NEW q1 \in 0..(n - 1), NEW q2 \in 0..(n - 1), NEW q3 \in 0..(n - 1),
         PlaceOf(n, p1, p2, p3) = PlaceOf(n, q1, q2, q3)
  PROVE  p1 = q1 /\ p2 = q2 /\ p3 = q3
BY IndexIsUnique DEF PlaceOf

-----------------------------------------------------------------------------
(* How far apart near cells can be, along one dimension.                   *)
Reach == STENCIL_WIDTH_HELPER \div 2

(* A number is twice its half, and one if it is odd.                       *)
LEMMA Halves ==
  ASSUME NEW x \in Nat
  PROVE  x \div 2 \in Nat /\ x % 2 \in 0..1 /\ x = 2 * (x \div 2) + (x % 2)
<1>1. PICK k \in Int, e \in 0..1 : x = 2 * k + e
  <2>1. 2 \in Nat \ {0} /\ 2 - 1 = 1
    OBVIOUS
  <2> QED BY <2>1, QuotientExists
<1>2. (2 * k + e) \div 2 = k /\ (2 * k + e) % 2 = e
  OBVIOUS
<1>3. k \in Nat
  BY <1>1
<1>4. x \div 2 = k /\ x % 2 = e
  BY <1>1, <1>2, Zenon
<1>5. x = 2 * (x \div 2) + (x % 2)
  BY <1>1, <1>4, Zenon
<1> QED BY <1>3, <1>4, <1>5

(* What the assumptions say about the sizes of grids and stencils.         *)
LEMMA Widths ==
  /\ Reach \in Nat
  /\ STENCIL_WIDTH = 2 * Reach + 1
  /\ INX \div 2 \in Nat /\ INX = 2 * (INX \div 2)
  /\ Reach < INX \div 2
<1>1. STENCIL_WIDTH_HELPER \in Nat
  BY GridAssumption DEF STENCIL_WIDTH_HELPER
<1>2. Reach \in Nat /\ STENCIL_WIDTH_HELPER = 2 * Reach + (STENCIL_WIDTH_HELPER % 2)
      /\ STENCIL_WIDTH_HELPER % 2 \in 0..1
  BY <1>1, Halves DEF Reach
<1>3. STENCIL_WIDTH = 2 * Reach + 1
  <2>1. PICK h \in Nat, m \in 0..1 : h = STENCIL_WIDTH_HELPER /\ m = STENCIL_WIDTH_HELPER % 2
    BY <1>1, <1>2
  <2>2. STENCIL_WIDTH = IF m = 0 THEN h + 1 ELSE h
    BY <2>1 DEF STENCIL_WIDTH
  <2>3. PICK k \in Nat : k = Reach
    BY <1>2
  <2>4. h = 2 * k + m
    BY <1>2, <2>1, <2>3
  <2>5. (IF m = 0 THEN h + 1 ELSE h) = 2 * k + 1
    BY <2>4
  <2> QED BY <2>2, <2>3, <2>5
<1>4. INX \div 2 \in Nat /\ INX = 2 * (INX \div 2) /\ STENCIL_WIDTH <= INX
  BY GridAssumption
<1> QED BY <1>2, <1>3, <1>4

(* And about the masks, which are a cell narrower on either side if the    *)
(* helper is even.                                                         *)
LEMMA MaskWidths ==
  /\ STENCIL_INX \in Nat \ {0}
  /\ IF STENCIL_WIDTH_HELPER % 2 = 0
     THEN STENCIL_WIDTH_HELPER = 2 * Reach /\ STENCIL_INX = 2 * STENCIL_WIDTH - 1
     ELSE STENCIL_INX = 2 * STENCIL_WIDTH + 1
<1>1. STENCIL_WIDTH_HELPER \in Nat
  BY GridAssumption DEF STENCIL_WIDTH_HELPER
<1>2. Reach \in Nat /\ STENCIL_WIDTH_HELPER = 2 * Reach + (STENCIL_WIDTH_HELPER % 2)
      /\ STENCIL_WIDTH_HELPER % 2 \in 0..1
  BY <1>1, Halves DEF Reach
<1>3. PICK h \in Nat, m \in 0..1 : h = STENCIL_WIDTH_HELPER /\ m = STENCIL_WIDTH_HELPER % 2
  BY <1>1, <1>2
<1>4. h = 2 * Reach + m /\ STENCIL_WIDTH = 2 * Reach + 1 /\ STENCIL_INX = 2 * h + 1
  BY <1>2, <1>3, Widths DEF STENCIL_INX
<1>5. PICK k \in Nat : k = Reach
  BY Widths
<1>6. STENCIL_INX = 2 * h + 1 /\ h = 2 * k + m /\ STENCIL_WIDTH = 2 * k + 1
  BY <1>4, <1>5
<1>7. STENCIL_INX \in Nat \ {0}
  BY <1>6
<1>8. m = 0 => h = 2 * k /\ STENCIL_INX = 2 * STENCIL_WIDTH - 1
  BY <1>6
<1>9. m # 0 => STENCIL_INX = 2 * STENCIL_WIDTH + 1
  BY <1>6
<1> QED BY <1>3, <1>5, <1>7, <1>8, <1>9

(* A square is not negative.                                               *)
LEMMA SquareIsNat ==
  ASSUME NEW x \in Int
  PROVE  x * x \in Nat
<1>1. CASE 0 <= x
  BY <1>1, Squares
<1>2. CASE x < 0
  <2>1. 0 - (0 - x) <= x /\ x <= 0 - x /\ 0 - x \in Int BY <1>2
  <2> QED BY <2>1, Squares
<1> QED BY <1>1, <1>2

(* A cell that is not far is less than 1 / theta cells away.               *)
LEMMA NearBelowTheta ==
  ASSUME NEW v \in [Dim -> Int], ~Far(v), NEW d \in Dim, NEW x \in Nat,
         x = v[d] \/ x = 0 - v[d]
  PROVE  ThetaNum * x < ThetaDen
<1> DEFINE V == v[1] * v[1] + v[2] * v[2] + v[3] * v[3]
           y == ThetaNum * x
<1>1. \A e \in Dim : v[e] \in Int /\ v[e] * v[e] \in Nat
  BY SquareIsNat
<1>2. x * x = v[d] * v[d]
  BY <1>1
<1>3. V \in Nat /\ x * x \in Nat /\ x * x <= V
  BY <1>1, <1>2 DEF Dim
<1>4. ThetaNum \in Nat /\ ThetaDen \in Nat /\ y \in Nat
  BY GridAssumption
<1>5. SUFFICES ASSUME ThetaDen <= y PROVE FALSE
  BY <1>4
<1>6. ThetaDen * ThetaDen <= y * y
  BY <1>4, <1>5, Squares
<1>7. y * y = ThetaNum * ThetaNum * (x * x)
  BY <1>4
<1>8. ThetaNum * ThetaNum * (x * x) <= ThetaNum * ThetaNum * V
  BY <1>3, <1>4, SquareIsNat, Products
<1>9. ThetaDen * ThetaDen \in Int /\ y * y \in Int /\ ThetaNum * ThetaNum * V \in Int
  BY <1>3, <1>4
<1>10. ThetaDen * ThetaDen <= ThetaNum * ThetaNum * V
  BY <1>6, <1>7, <1>8, <1>9
<1> QED BY <1>10 DEF Far

(* And so no further than half a stencil's width.                          *)
LEMMA NearReach ==
  ASSUME NEW v \in [Dim -> Int], ~Far(v), NEW d \in Dim
  PROVE  0 - Reach <= v[d] /\ v[d] <= Reach
<1>1. ASSUME NEW x \in Nat, ThetaNum * x < ThetaDen
      PROVE  x <= Reach
  <2>1. /\ ThetaNum \in Nat \ {0} /\ ThetaDen \in Nat /\ FloorNum \in Nat \ {0}
        /\ FloorDen \in Nat /\ FloorNum * ThetaDen <= ThetaNum * FloorDen
    BY GridAssumption
  <2>2. FloorNum * (ThetaNum * x + 1) <= FloorNum * ThetaDen
    BY <1>1, <2>1, Products
  <2>3. FloorNum * (ThetaNum * x + 1) = ThetaNum * (FloorNum * x) + FloorNum
    BY <2>1
  <2>4. PICK m \in Nat : m = FloorNum * x
    BY <2>1
  <2>5. m < FloorDen
    <3>1. SUFFICES ASSUME FloorDen <= m PROVE FALSE
      BY <2>1
    <3>2. ThetaNum * FloorDen <= ThetaNum * m
      BY <3>1, <2>1, Products
    <3>3. ThetaNum * FloorDen \in Int /\ ThetaNum * m \in Int /\ FloorNum * ThetaDen \in Int
      BY <2>1
    <3> QED BY <2>1, <2>2, <2>3, <2>4, <3>2, <3>3
  <2>6. FloorNum * (2 * x) < 2 * FloorDen
    <3>1. FloorNum * (2 * x) = 2 * m
      BY <2>1, <2>4
    <3> QED BY <2>1, <2>5, <3>1
  <2>7. PICK k \in Int, r \in 0..(FloorNum - 1) :
          2 * FloorDen = FloorNum * k + r /\ k = (2 * FloorDen) \div FloorNum
    <3>1. PICK y \in Int : y = 2 * FloorDen
      BY <2>1
    <3>2. \E k \in Int, r \in 0..(FloorNum - 1) : y = FloorNum * k + r /\ k = y \div FloorNum
      BY <2>1, QuotientExists
    <3> QED BY <3>1, <3>2
  <2>8. 2 * x <= k
    <3>1. SUFFICES ASSUME k + 1 <= 2 * x PROVE FALSE
      OBVIOUS
    <3>2. FloorNum * (k + 1) <= FloorNum * (2 * x)
      BY <3>1, <2>1, Products
    <3>3. FloorNum * (k + 1) = FloorNum * k + FloorNum /\ FloorNum * k \in Int
          /\ FloorNum * (2 * x) \in Int
      BY <2>1
    <3> QED BY <2>1, <2>6, <2>7, <3>2, <3>3
  <2>9. k = STENCIL_WIDTH_HELPER
    BY <2>7 DEF STENCIL_WIDTH_HELPER
  <2> QED BY <2>8, <2>9 DEF Reach
<1>2. v[d] \in Int /\ Reach \in Nat
  BY Widths
<1>3. CASE v[d] >= 0
  <2>1. v[d] \in Nat /\ ThetaNum * v[d] < ThetaDen
    BY <1>2, <1>3, NearBelowTheta
  <2> QED BY <1>1, <1>2, <2>1
<1>4. CASE v[d] < 0
  <2>1. PICK x \in Nat : x = 0 - v[d]
    BY <1>2, <1>4
  <2>2. ThetaNum * x < ThetaDen
    BY <2>1, NearBelowTheta
  <2>3. x <= Reach
    BY <2>2, <1>1
  <2> QED BY <1>2, <2>1, <2>3
<1> QED BY <1>2, <1>3, <1>4

-----------------------------------------------------------------------------
(* Indices relative to a node.                                             *)

(* A node's own cells are counted from 0, and differences are the same     *)
(* whichever node counts.                                                  *)
LEMMA LocalIndices ==
  ASSUME NEW i \in Place, NEW j \in Place
  PROVE  /\ Local(i, i) \in Own
         /\ Local(i, j) \in [Dim -> Int]
         /\ Difference(Local(i, i), Local(i, j)) = Offset(i, j)
         /\ \A d \in Dim : Local(i, j)[d] = Local(i, i)[d] + Offset(i, j)[d]
<1>1. ASSUME NEW d \in Dim
      PROVE  /\ Local(i, i)[d] \in 0..(INX - 1) /\ Local(i, j)[d] \in Int
             /\ Local(i, j)[d] - Local(i, i)[d] = Offset(i, j)[d]
             /\ Local(i, j)[d] = Local(i, i)[d] + Offset(i, j)[d]
  <2>1. i.x[d] \in Int /\ j.x[d] \in Int /\ INX \in Nat \ {0}
    BY GridAssumption DEF Place
  <2>2. PICK k \in Int, r \in 0..(INX - 1) : i.x[d] = INX * k + r /\ k = i.x[d] \div INX
    BY <2>1, QuotientExists
  <2>3. NodeOf(i).x[d] = k
    BY <2>2 DEF NodeOf
  <2>4. PICK m \in Int : m = INX * k
    BY <2>1
  <2>5. Local(i, i)[d] = i.x[d] - m /\ Local(i, j)[d] = j.x[d] - m
    BY <2>3, <2>4 DEF Local
  <2>6. Offset(i, j)[d] = j.x[d] - i.x[d]
    BY DEF Offset, Difference
  <2> QED BY <2>1, <2>2, <2>4, <2>5, <2>6
<1>2. Local(i, i) \in Own /\ Local(i, j) \in [Dim -> Int]
  BY <1>1 DEF Own, Local
<1>3. Difference(Local(i, i), Local(i, j)) = Offset(i, j)
  BY <1>1 DEF Difference, Offset
<1> QED BY <1>1, <1>2, <1>3

(* The cells of another node are before or after the node's own.           *)
LEMMA SameNode ==
  ASSUME NEW i \in Place, NEW j \in Place, i.lev = j.lev
  PROVE  NodeOf(i) = NodeOf(j) <=> Local(i, j) \in Own
<1>1. ASSUME NEW d \in Dim
      PROVE  NodeOf(i).x[d] = NodeOf(j).x[d] <=> Local(i, j)[d] \in 0..(INX - 1)
  <2>1. i.x[d] \in Int /\ j.x[d] \in Int /\ INX \in Nat \ {0}
    BY GridAssumption DEF Place
  <2>2. PICK k \in Int, r \in 0..(INX - 1) : j.x[d] = INX * k + r /\ k = j.x[d] \div INX
    BY <2>1, QuotientExists
  <2>3. PICK l \in Int : l = NodeOf(i).x[d]
    BY <2>1 DEF NodeOf
  <2>4. NodeOf(j).x[d] = k
    BY <2>2 DEF NodeOf
  <2>5. Local(i, j)[d] = j.x[d] - INX * l
    BY <2>3 DEF Local
  <2>6. k = l => Local(i, j)[d] \in 0..(INX - 1)
    BY <2>1, <2>2, <2>5
  <2>7. ASSUME Local(i, j)[d] \in 0..(INX - 1) PROVE k = l
    <3>1. PICK s \in 0..(INX - 1) : s = Local(i, j)[d]
      BY <2>7
    <3>2. INX * k + r = INX * l + s
      BY <2>1, <2>2, <2>5, <3>1
    <3> QED BY <2>1, <3>2, Digits
  <2> QED BY <2>3, <2>4, <2>6, <2>7
<1>2. NodeOf(i) = NodeOf(j) <=> \A d \in Dim : NodeOf(i).x[d] = NodeOf(j).x[d]
  BY DEF NodeOf
<1>3. Local(i, j) \in Own <=> \A d \in Dim : Local(i, j)[d] \in 0..(INX - 1)
  BY DEF Own, Local
<1> QED BY <1>1, <1>2, <1>3

(* The masks compare the parents of the two cells.                         *)
LEMMA MasksCompareParents ==
  ASSUME NEW p \in Place, NEW q \in Place, NEW o1 \in Octant, NEW o2 \in Octant,
         NEW i, NEW j, i = Below(p, o1), j = Below(q, o2)
  PROVE  NearParents(Local(i, i), Local(i, j)) <=> ~Far(Offset(p, q))
<1>1. ASSUME NEW d \in Dim
      PROVE  Coarse(Local(i, j)[d]) - Coarse(Local(i, i)[d]) = q.x[d] - p.x[d]
  <2>1. /\ p.x[d] \in Int /\ q.x[d] \in Int /\ o1[d] \in 0..1 /\ o2[d] \in 0..1
        /\ i.x[d] = 2 * p.x[d] + o1[d] /\ j.x[d] = 2 * q.x[d] + o2[d]
    BY DEF Below, Place, Octant
  <2>2. PICK k \in Int : k = NodeOf(i).x[d]
    <3>1. NodeOf(i).x[d] = i.x[d] \div INX
      BY DEF NodeOf
    <3>2. i.x[d] \in Int /\ INX \in Nat \ {0}
      BY <2>1, GridAssumption
    <3> QED BY <3>1, <3>2
  <2>3. \A m \in Int, e \in 0..1 : (2 * m + e) \div 2 = m
    OBVIOUS
  <2>4. i.x[d] \div 2 = p.x[d] /\ j.x[d] \div 2 = q.x[d]
    BY <2>1, <2>3
  <2>5. i.x[d] \in Int /\ j.x[d] \in Int
    BY <2>1
  <2>6. PICK g \in Int : g = (INX \div 2) * k
    BY Widths
  <2>7. /\ Coarse(i.x[d] - INX * k) = i.x[d] \div 2 - g
        /\ Coarse(j.x[d] - INX * k) = j.x[d] \div 2 - g
    BY <2>5, <2>6, CoarseIsHalf
  <2>8. Local(i, i)[d] = i.x[d] - INX * k /\ Local(i, j)[d] = j.x[d] - INX * k
    BY <2>2 DEF Local
  <2> QED BY <2>1, <2>4, <2>6, <2>7, <2>8
<1>2. [d \in Dim |-> Coarse(Local(i, j)[d]) - Coarse(Local(i, i)[d])] = Offset(p, q)
  BY <1>1 DEF Offset, Difference
<1> QED BY <1>2 DEF NearParents

-----------------------------------------------------------------------------
(* Within a node's first cells the coarse index is half the index.         *)
LEMMA CoarseFromZero ==
  ASSUME NEW x \in Int
  PROVE  Coarse(x) = x \div 2
<1>1. Coarse(x - INX * 0) = x \div 2 - (INX \div 2) * 0
  BY CoarseIsHalf
<1>2. x - INX * 0 = x /\ (INX \div 2) * 0 = 0 /\ x \div 2 \in Int
  BY Widths
<1> QED BY <1>1, <1>2

(* Different cells whose parents are near are in each other's stencil.     *)
LEMMA StencilReaches ==
  ASSUME NEW p \in Place, NEW q \in Place, NEW o1 \in Octant, NEW o2 \in Octant,
         NEW i, NEW j, i = Below(p, o1), j = Below(q, o2),
         ~Far(Offset(p, q)), i # j, p.lev = q.lev
  PROVE  Offset(i, j) \in Stencil
<1> DEFINE u == Offset(p, q)
           v == Offset(i, j)
<1>1. \A d \in Dim : /\ p.x[d] \in Int /\ q.x[d] \in Int
                     /\ o1[d] \in 0..1 /\ o2[d] \in 0..1
                     /\ i.x[d] = 2 * p.x[d] + o1[d] /\ j.x[d] = 2 * q.x[d] + o2[d]
                     /\ i.x[d] \in Int /\ j.x[d] \in Int
                     /\ u[d] = q.x[d] - p.x[d] /\ v[d] = j.x[d] - i.x[d]
  BY DEF Below, Place, Octant, Offset, Difference
<1>2. u \in [Dim -> Int]
  BY OffsetType
<1>3. \A d \in Dim : 0 - Reach <= u[d] /\ u[d] <= Reach /\ u[d] \in Int
  BY <1>2, NearReach
<1>4. \A d \in Dim : v[d] = 2 * u[d] + o2[d] - o1[d] /\ v[d] \in Int
  <2> HIDE DEF u, v
  <2> QED BY <1>1
<1>5. \A d \in Dim : v[d] \in (0 - INX)..(INX - 1)
  <2> HIDE DEF u, v
  <2> QED BY <1>1, <1>3, <1>4, Widths
<1>6. v \in [Dim -> (0 - INX)..(INX - 1)]
  BY <1>5 DEF Offset, Difference
<1>7. v # Zero
  <2>1. SUFFICES ASSUME v = Zero PROVE FALSE
    OBVIOUS
  <2>2. \A d \in Dim : v[d] = 0
    BY <2>1 DEF Zero
  <2>3. \A d \in Dim : i.x[d] = j.x[d]
    <3> HIDE DEF v
    <3> QED BY <2>2, <1>1
  <2>4. i.x = j.x
    BY <2>3 DEF Below
  <2>5. i = j
    BY <2>4 DEF Below
  <2> QED BY <2>5
<1>8. NearParents(o1, [d \in Dim |-> o1[d] + v[d]])
  <2>1. ASSUME NEW d \in Dim PROVE Coarse(o1[d] + v[d]) - Coarse(o1[d]) = u[d]
    <3>1. /\ \A m \in Int, e \in 0..1 : (2 * m + e) \div 2 = m
          /\ \A e \in 0..1 : e \div 2 = 0
      OBVIOUS
    <3>2. PICK c \in Int, e1 \in 0..1, e2 \in 0..1 :
            c = u[d] /\ e1 = o1[d] /\ e2 = o2[d] /\ v[d] = 2 * c + e2 - e1
      BY <1>1, <1>3, <1>4
    <3>3. o1[d] + v[d] = 2 * c + e2 /\ o1[d] + v[d] \in Int /\ o1[d] \in Int
      <4> HIDE DEF v
      <4> QED BY <3>2
    <3>4. (2 * c + e2) \div 2 = c /\ e1 \div 2 = 0
      BY <3>1, <3>2
    <3> HIDE DEF u, v
    <3> QED BY <3>2, <3>3, <3>4, CoarseFromZero
  <2>2. [d \in Dim |-> Coarse([e \in Dim |-> o1[e] + v[e]][d]) - Coarse(o1[d])] = u
    BY <2>1 DEF Offset, Difference
  <2> QED BY <2>2 DEF NearParents
<1> QED BY <1>6, <1>7, <1>8 DEF Stencil

(* The elements of the stencil lead to a part of a cell near a cell's      *)
(* parent.                                                                 *)
LEMMA StencilParents ==
  ASSUME NEW v \in Stencil
  PROVE  /\ v \in [Dim -> Int] /\ v # Zero
         /\ \E c \in [Dim -> Int] :
              /\ ~Far(c)
              /\ \A d \in Dim : 2 * c[d] - 1 <= v[d] /\ v[d] <= 2 * c[d] + 1
<1>1. v \in [Dim -> (0 - INX)..(INX - 1)] /\ v # Zero
  BY DEF Stencil
<1>2. PICK i \in Octant : NearParents(i, [d \in Dim |-> i[d] + v[d]])
  BY DEF Stencil
<1> DEFINE c == [d \in Dim |-> Coarse(i[d] + v[d]) - Coarse(i[d])]
<1>3. ASSUME NEW d \in Dim
      PROVE  i[d] \in 0..1 /\ v[d] \in Int /\ c[d] = (i[d] + v[d]) \div 2 /\ c[d] \in Int
  <2>1. i[d] \in 0..1 /\ v[d] \in Int
    BY <1>1 DEF Octant
  <2>2. \A e \in 0..1 : e \div 2 = 0
    OBVIOUS
  <2>3. Coarse(i[d] + v[d]) = (i[d] + v[d]) \div 2 /\ Coarse(i[d]) = i[d] \div 2
    BY <2>1, CoarseFromZero
  <2>4. c[d] = Coarse(i[d] + v[d]) - Coarse(i[d])
    OBVIOUS
  <2> HIDE DEF c
  <2> QED BY <2>1, <2>2, <2>3, <2>4
<1>4. c \in [Dim -> Int]
  BY <1>3
<1>5. ~Far(c)
  <2>1. [d \in Dim |-> Coarse([e \in Dim |-> i[e] + v[e]][d]) - Coarse(i[d])] = c
    OBVIOUS
  <2> QED BY <1>2, <2>1 DEF NearParents
<1>6. ASSUME NEW d \in Dim PROVE 2 * c[d] - 1 <= v[d] /\ v[d] <= 2 * c[d] + 1
  <2> HIDE DEF c
  <2> QED BY <1>3
<1>7. v \in [Dim -> Int]
  BY <1>1, <1>3
<1> HIDE DEF c
<1> QED BY <1>1, <1>4, <1>5, <1>6, <1>7

(* The elements of the stencil are among those the kernels try.            *)
LEMMA StencilIsTried == Stencil \subseteq Tried
<1> SUFFICES ASSUME NEW v \in Stencil PROVE v \in Tried
  OBVIOUS
<1>1. v \in [Dim -> Int]
  BY StencilParents
<1>2. PICK c \in [Dim -> Int] :
        ~Far(c) /\ \A d \in Dim : 2 * c[d] - 1 <= v[d] /\ v[d] <= 2 * c[d] + 1
  BY StencilParents
<1>3. ASSUME NEW d \in Dim PROVE v[d] \in (0 - STENCIL_WIDTH)..STENCIL_WIDTH
  <2>1. 0 - Reach <= c[d] /\ c[d] <= Reach /\ c[d] \in Int /\ v[d] \in Int
    BY <1>1, <1>2, NearReach
  <2> QED BY <2>1, <1>2, Widths
<1> QED BY <1>1, <1>3 DEF Tried

(* The masks have room for every element of the stencils if the helper is  *)
(* odd, and if theta is 2 / STENCIL_WIDTH_HELPER at least: this covers the *)
(* minima of one third, of one half and of 0.34, the default.              *)
THEOREM MasksAreWideEnough ==
  ASSUME \/ STENCIL_WIDTH_HELPER % 2 = 1
         \/ 2 * ThetaDen <= ThetaNum * STENCIL_WIDTH_HELPER
  PROVE  MasksFit
<1> SUFFICES ASSUME NEW v \in Stencil, NEW d \in Dim
             PROVE  v[d] + STENCIL_WIDTH \in 0..(STENCIL_INX - 1)
  BY DEF MasksFit
<1>1. CASE STENCIL_WIDTH_HELPER % 2 # 0
  <2>1. v[d] \in (0 - STENCIL_WIDTH)..STENCIL_WIDTH
    BY StencilIsTried DEF Tried
  <2> QED BY <1>1, <2>1, Widths, MaskWidths
<1>2. CASE STENCIL_WIDTH_HELPER % 2 = 0
  <2>1. Reach \in Nat /\ ThetaNum \in Nat \ {0} /\ ThetaDen \in Nat
    BY Widths, GridAssumption
  <2>2. ThetaDen <= ThetaNum * Reach
    <3>1. 2 * ThetaDen <= ThetaNum * (2 * Reach)
      BY <1>2, MaskWidths
    <3>2. ThetaNum * (2 * Reach) = 2 * (ThetaNum * Reach) /\ ThetaNum * Reach \in Int
      BY <2>1
    <3> QED BY <2>1, <3>1, <3>2
  <2>3. v[d] \in Int
    BY StencilParents
  <2>4. PICK c \in [Dim -> Int] :
          ~Far(c) /\ \A e \in Dim : 2 * c[e] - 1 <= v[e] /\ v[e] <= 2 * c[e] + 1
    BY StencilParents
  <2>5. ASSUME NEW x \in Nat, x = c[d] \/ x = 0 - c[d] PROVE x < Reach
    <3>1. ThetaNum * x < ThetaDen
      BY <2>4, <2>5, NearBelowTheta
    <3>2. SUFFICES ASSUME Reach <= x PROVE FALSE
      BY <2>1
    <3>3. ThetaNum * Reach <= ThetaNum * x
      BY <2>1, <3>2, Products
    <3>4. ThetaNum * Reach \in Int /\ ThetaNum * x \in Int
      BY <2>1
    <3> QED BY <2>1, <2>2, <3>1, <3>3, <3>4
  <2>6. c[d] \in Int
    OBVIOUS
  <2>7. 1 - Reach <= c[d] /\ c[d] <= Reach - 1
    <3>1. CASE c[d] >= 0
      <4>1. c[d] \in Nat /\ c[d] < Reach
        BY <2>5, <2>6, <3>1
      <4> QED BY <2>1, <2>6, <3>1, <4>1
    <3>2. CASE c[d] < 0
      <4>1. 0 - c[d] \in Nat /\ 0 - c[d] < Reach
        BY <2>5, <2>6, <3>2
      <4> QED BY <2>1, <2>6, <3>2, <4>1
    <3> QED BY <2>6, <3>1, <3>2
  <2> QED BY <1>2, <2>1, <2>3, <2>4, <2>6, <2>7, Widths, MaskWidths
<1> QED BY <1>1, <1>2

(* The leaves' stencil is the same.                                        *)
LEMMA StencilsAgree == P2PStencil = Stencil
<1> DEFINE S(i) == {v \in [Dim -> (0 - INX)..(INX - 1)] :
                     v # Zero /\ NearParents(i, [d \in Dim |-> i[d] + v[d]])}
<1>1. P2PStencil = UNION {S(i) : i \in Octant}
  BY DEF P2PStencil
<1>2. ASSUME NEW v
      PROVE  v \in UNION {S(i) : i \in Octant} <=> \E i \in Octant : v \in S(i)
  <2> HIDE DEF S
  <2> QED OBVIOUS
<1>3. ASSUME NEW v
      PROVE  v \in Stencil <=> \E i \in Octant : v \in S(i)
  BY Zenon DEF Stencil
<1> HIDE DEF S
<1> QED BY <1>1, <1>2, <1>3

(* An element has a place of its own in the masks.                         *)
Fits(v) == \A d \in Dim : v[d] + STENCIL_WIDTH \in 0..(STENCIL_INX - 1)

(* An entry of the masks is that of one such element.                      *)
LEMMA MaskIndexIsUnique ==
  ASSUME NEW v \in [Dim -> Int], NEW w \in [Dim -> Int], Fits(v), Fits(w),
         MaskIndex(v) = MaskIndex(w)
  PROVE  v = w
<1> DEFINE W == STENCIL_WIDTH
<1>1. W \in Nat /\ STENCIL_INX \in Nat \ {0}
  BY Widths, MaskWidths
<1>2. \A d \in Dim : /\ v[d] \in Int /\ w[d] \in Int
                     /\ v[d] + W \in 0..(STENCIL_INX - 1)
                     /\ w[d] + W \in 0..(STENCIL_INX - 1)
  BY DEF Fits
<1>3. 1 \in Dim /\ 2 \in Dim /\ 3 \in Dim /\ \A d \in Dim : d \in {1, 2, 3}
  BY DEF Dim
<1>4. v[1] + W = w[1] + W /\ v[2] + W = w[2] + W /\ v[3] + W = w[3] + W
  <2>0. PICK n \in Nat \ {0} : n = STENCIL_INX
    BY <1>1
  <2>1. PICK p1 \in 0..(n - 1), p2 \in 0..(n - 1), p3 \in 0..(n - 1) :
          p1 = v[1] + W /\ p2 = v[2] + W /\ p3 = v[3] + W
    BY <1>2, <1>3, <2>0
  <2>2. PICK q1 \in 0..(n - 1), q2 \in 0..(n - 1), q3 \in 0..(n - 1) :
          q1 = w[1] + W /\ q2 = w[2] + W /\ q3 = w[3] + W
    BY <1>2, <1>3, <2>0
  <2>3. /\ MaskIndex(v) = PlaceOf(n, v[1] + W, v[2] + W, v[3] + W)
        /\ MaskIndex(w) = PlaceOf(n, w[1] + W, w[2] + W, w[3] + W)
    BY <2>0, Zenon DEF MaskIndex, PlaceOf
  <2>4. PlaceOf(n, p1, p2, p3) = PlaceOf(n, q1, q2, q3)
    <3> HIDE DEF W
    <3> QED BY <2>1, <2>2, <2>3, Zenon
  <2>5. p1 = q1 /\ p2 = q2 /\ p3 = q3
    BY <2>4, PlaceIsUnique
  <2> QED BY <2>1, <2>2, <2>5
<1>5. \A d \in Dim : v[d] = w[d]
  <2>1. v[1] = w[1] /\ v[2] = w[2] /\ v[3] = w[3]
    <3> HIDE DEF W
    <3>1. \A i, j \in Int : i + W = j + W => i = j
      BY <1>1
    <3>2. \A d \in Dim : v[d] \in Int /\ w[d] \in Int
      BY <1>2
    <3> QED BY ONLY <3>1, <3>2, <1>3, <1>4
  <2> QED BY <2>1, <1>3
<1> QED BY <1>5

(* And it is not past their ends.                                          *)
LEMMA FitsIsNotPast ==
  ASSUME NEW v \in [Dim -> Int], Fits(v)
  PROVE  ~PastTheEnd(v)
<1>1. 1 \in Dim /\ 2 \in Dim /\ 3 \in Dim
  BY DEF Dim
<1>2. PICK n \in Nat \ {0} : n = STENCIL_INX
  BY MaskWidths
<1>3. PICK p1 \in 0..(n - 1), p2 \in 0..(n - 1), p3 \in 0..(n - 1) :
        p1 = v[1] + STENCIL_WIDTH /\ p2 = v[2] + STENCIL_WIDTH /\ p3 = v[3] + STENCIL_WIDTH
  BY <1>1, <1>2 DEF Fits
<1>4. MaskIndex(v) = p1 * (n * n) + (p2 * n + p3)
  BY <1>2, <1>3 DEF MaskIndex
<1>5. p2 * n + p3 < n * n
  <2>1. n * p2 <= n * (n - 1)
    BY Products
  <2>2. n * (n - 1) = n * n - n /\ n * p2 = p2 * n /\ n * n \in Int /\ p2 * n \in Int
    OBVIOUS
  <2> QED BY <2>1, <2>2
<1>6. PICK m \in Nat : m = n * n
  OBVIOUS
<1>7. p1 * m + (p2 * n + p3) < n * m
  <2>1. m * p1 <= m * (n - 1)
    BY Products
  <2>2. m * (n - 1) = n * m - m /\ m * p1 = p1 * m /\ p1 * m \in Int /\ n * m \in Int
        /\ p2 * n + p3 \in Int
    OBVIOUS
  <2> QED BY <2>1, <2>2, <1>5, <1>6
<1>8. FULL_STENCIL_SIZE = n * m /\ n * m \in Int /\ p1 * m + (p2 * n + p3) \in Int
  BY <1>2, <1>6 DEF FULL_STENCIL_SIZE
<1> QED BY <1>4, <1>6, <1>7, <1>8 DEF PastTheEnd

(* A cell's own place is in the masks too: its siblings are in the stencil.*)
LEMMA ZeroFits ==
  ASSUME MasksFit
  PROVE  Zero \in [Dim -> Int] /\ Fits(Zero)
<1> DEFINE v == [d \in Dim |-> 1]
           i == [d \in Dim |-> 0]
<1>1. INX \in Nat /\ INX >= 2
  BY GridAssumption
<1>2. 1 \in Dim
  BY DEF Dim
<1>3. v \in [Dim -> (0 - INX)..(INX - 1)] /\ v # Zero /\ i \in Octant
  BY <1>1, <1>2 DEF Zero, Octant
<1>4. NearParents(i, [d \in Dim |-> i[d] + v[d]])
  <2>1. Coarse(1) = 0 /\ Coarse(0) = 0
    BY CoarseFromZero
  <2>2. [d \in Dim |-> Coarse([e \in Dim |-> i[e] + v[e]][d]) - Coarse(i[d])] = Zero
    BY <2>1 DEF Zero
  <2>3. ThetaDen \in Nat \ {0} /\ ThetaNum \in Nat
    BY GridAssumption
  <2>4. ThetaDen * ThetaDen > 0
    <3>1. \A u \in Int : u >= 1 => u * u >= 1
      OBVIOUS
    <3> QED BY <2>3, <3>1
  <2>5. ~Far(Zero)
    BY <2>3, <2>4 DEF Far, Zero, Dim
  <2> QED BY <2>2, <2>5 DEF NearParents
<1>5. v \in Stencil
  BY <1>3, <1>4 DEF Stencil
<1>6. 1 + STENCIL_WIDTH \in 0..(STENCIL_INX - 1)
  BY <1>2, <1>5 DEF MasksFit
<1>7. STENCIL_WIDTH \in Nat /\ STENCIL_INX \in Nat
  BY Widths, MaskWidths
<1>8. STENCIL_WIDTH \in 0..(STENCIL_INX - 1)
  BY <1>6, <1>7
<1> QED BY <1>7, <1>8 DEF Fits, Zero

(* So looking an element of the stencil up in the masks finds it, and a    *)
(* cell itself is not found, whatever is past the masks' ends.             *)
LEMMA MasksAreStencils ==
  ASSUME MasksFit, NEW v \in Stencil \cup {Zero}, NEW beyond
  PROVE  /\ Lookup(StencilMasks, v, beyond) <=> v \in Stencil
         /\ Lookup(P2PStencilMasks, v, beyond) <=> v \in Stencil
         /\ Lookup(InnerStencilMasks, v, beyond) <=> v \in Stencil /\ Far(v)
<1>1. \A w \in Stencil : w \in [Dim -> Int] /\ Fits(w)
  BY StencilParents DEF MasksFit, Fits
<1>2. v \in [Dim -> Int] /\ Fits(v)
  BY <1>1, ZeroFits
<1>3. \A w \in Stencil : MaskIndex(w) = MaskIndex(v) => w = v
  BY <1>1, <1>2, MaskIndexIsUnique
<1>4. ~PastTheEnd(v)
  BY <1>2, FitsIsNotPast
<1>5. MaskIndex(v) \in StencilMasks <=> v \in Stencil
  BY <1>3 DEF StencilMasks
<1>6. MaskIndex(v) \in P2PStencilMasks <=> v \in Stencil
  BY <1>3, StencilsAgree DEF P2PStencilMasks
<1>7. MaskIndex(v) \in InnerStencilMasks <=> v \in Stencil /\ Far(v)
  BY <1>3 DEF InnerStencilMasks, InnerStencil
<1> QED BY <1>4, <1>5, <1>6, <1>7 DEF Lookup

-----------------------------------------------------------------------------
(* Cells of adjacent nodes and their data.                                 *)

(* The direction of a cell and its place there are its quotient and its    *)
(* remainder.                                                              *)
LEMMA Directions ==
  ASSUME NEW v \in Around
  PROVE  /\ Second(v) \in Own
         /\ NeighborDir(v) \in [Dim -> (0 - 1)..1]
         /\ \A d \in Dim : /\ v[d] = INX * NeighborDir(v)[d] + Second(v)[d]
                           /\ NeighborDir(v)[d] = (v[d] + INX) \div INX - 1
         /\ v \in Own <=> NeighborDir(v) = Zero
<1>1. ASSUME NEW d \in Dim
      PROVE  /\ Second(v)[d] \in 0..(INX - 1) /\ NeighborDir(v)[d] \in (0 - 1)..1
             /\ v[d] = INX * NeighborDir(v)[d] + Second(v)[d]
             /\ NeighborDir(v)[d] = (v[d] + INX) \div INX - 1
             /\ v[d] \in 0..(INX - 1) <=> NeighborDir(v)[d] = 0
  <2>1. PICK n \in Nat \ {0} : n = INX
    BY GridAssumption
  <2>2. PICK x \in (0 - n)..(2 * n - 1) : x = v[d]
    BY <2>1 DEF Around
  <2>3. PICK k \in (0 - 1)..1 : k = IF x < 0 THEN 0 - 1 ELSE IF x >= n THEN 1 ELSE 0
    BY <2>1
  <2>4. PICK r \in 0..(n - 1) : x = n * k + r
    <3>1. CASE k = 0 - 1
      <4>1. x + n \in 0..(n - 1) /\ x = n * k + (x + n) BY <2>1, <2>2, <2>3, <3>1
      <4> QED BY <4>1
    <3>2. CASE k = 0
      <4>1. x \in 0..(n - 1) /\ x = n * k + x BY <2>1, <2>2, <2>3, <3>2
      <4> QED BY <4>1
    <3>3. CASE k = 1
      <4>1. x - n \in 0..(n - 1) /\ x = n * k + (x - n) BY <2>1, <2>2, <2>3, <3>3
      <4> QED BY <4>1
    <3> QED BY <3>1, <3>2, <3>3
  <2>5. PICK m \in Int : m = k + 1
    OBVIOUS
  <2>6. (n * m + r) \div n = m /\ (n * m + r) % n = r
    BY QuotientIs
  <2>7. n * m + r = x + n
    BY <2>4, <2>5
  <2>8. (x + n) \div n = k + 1 /\ (x + n) % n = r
    BY <2>5, <2>6, <2>7
  <2>9. Second(v)[d] = r /\ NeighborDir(v)[d] = k
    BY <2>1, <2>2, <2>3, <2>8 DEF Second, NeighborDir
  <2>10. (v[d] + INX) \div INX - 1 = k
    BY <2>1, <2>2, <2>8
  <2>11. x \in 0..(n - 1) <=> k = 0
    BY <2>2, <2>3
  <2>12. v[d] = INX * NeighborDir(v)[d] + Second(v)[d]
    BY <2>1, <2>2, <2>4, <2>9
  <2> QED BY <2>1, <2>2, <2>9, <2>10, <2>11, <2>12
<1>2. Second(v) \in Own /\ NeighborDir(v) \in [Dim -> (0 - 1)..1]
  BY <1>1 DEF Second, NeighborDir, Own
<1>3. v \in Own <=> \A d \in Dim : v[d] \in 0..(INX - 1)
  BY DEF Around, Own
<1>4. NeighborDir(v) = Zero <=> \A d \in Dim : NeighborDir(v)[d] = 0
  BY DEF NeighborDir, Zero
<1> QED BY <1>1, <1>2, <1>3, <1>4

(* What the kernels try is no further than the adjacent nodes.             *)
LEMMA TriedIsAround ==
  ASSUME NEW i \in Place, NEW j \in Place, Offset(i, j) \in Tried
  PROVE  Local(i, j) \in Around
<1>1. ASSUME NEW d \in Dim PROVE Local(i, j)[d] \in (0 - INX)..(2 * INX - 1)
  <2>1. /\ Local(i, j)[d] = Local(i, i)[d] + Offset(i, j)[d]
        /\ Local(i, i)[d] \in 0..(INX - 1)
    BY LocalIndices DEF Own
  <2>2. Offset(i, j)[d] \in (0 - STENCIL_WIDTH)..STENCIL_WIDTH
    BY DEF Tried
  <2> QED BY <2>1, <2>2, Widths
<1> QED BY <1>1 DEF Local, Around

(* The direction of a cell leads to its node.                              *)
LEMMA DirectionLeadsToNode ==
  ASSUME NEW i \in Place, NEW j \in Place, i.lev = j.lev, Local(i, j) \in Around
  PROVE  NodeOf(j) = NeighborOf(NodeOf(i), NeighborDir(Local(i, j)))
<1> DEFINE v == Local(i, j)
           dir == NeighborDir(v)
<1>1. ASSUME NEW d \in Dim
      PROVE  NodeOf(j).x[d] = NodeOf(i).x[d] + dir[d]
  <2>1. PICK n \in Nat \ {0} : n = INX
    BY GridAssumption
  <2>2. PICK l \in Int : l = NodeOf(i).x[d]
    <3>1. i.x[d] \in Int BY DEF Place
    <3> QED BY <2>1, <3>1 DEF NodeOf
  <2>3. j.x[d] \in Int /\ v[d] = j.x[d] - n * l
    BY <2>1, <2>2 DEF Local, Place
  <2>4. PICK k \in Int, r \in 0..(n - 1) : k = dir[d] /\ v[d] = n * k + r
    <3>1. /\ v[d] = INX * dir[d] + Second(v)[d]
          /\ dir[d] \in (0 - 1)..1 /\ Second(v)[d] \in 0..(INX - 1)
      BY Directions DEF Own
    <3> HIDE DEF v, dir
    <3>2. PICK e \in Int, s \in 0..(n - 1) : e = dir[d] /\ s = Second(v)[d]
      BY <3>1, <2>1
    <3>3. v[d] = n * e + s
      BY <3>1, <3>2, <2>1
    <3> QED BY <3>2, <3>3
  <2>5. PICK m \in Int : m = l + k
    OBVIOUS
  <2>6. (n * m + r) \div n = m
    BY QuotientIs
  <2>7. j.x[d] = n * m + r
    <3>1. v[d] = n * k + r /\ n * m = n * l + n * k
      BY <2>4, <2>5
    <3> HIDE DEF v, dir
    <3> QED BY <3>1, <2>3
  <2>8. NodeOf(j).x[d] = m
    BY <2>1, <2>6, <2>7 DEF NodeOf
  <2> HIDE DEF dir
  <2> QED BY <2>2, <2>4, <2>5, <2>8
<1>2. NodeOf(j).lev = NodeOf(i).lev
  BY DEF NodeOf
<1>3. NodeOf(j).x = [d \in Dim |-> NodeOf(i).x[d] + dir[d]]
  <2>1. NodeOf(j).x = [d \in Dim |-> NodeOf(j).x[d]]
    BY DEF NodeOf
  <2> HIDE DEF dir
  <2> QED BY <1>1, <2>1
<1>4. NodeOf(j) = [lev |-> NodeOf(j).lev, x |-> NodeOf(j).x]
  BY DEF NodeOf
<1> HIDE DEF dir, v
<1>5. NodeOf(j) = NeighborOf(NodeOf(i), dir)
  BY <1>2, <1>3, <1>4, Zenon DEF NeighborOf
<1> QED BY <1>5 DEF dir, v

(* The far side of an adjacent node is far from all of a node's cells, so  *)
(* a message is never as long as one of all cells.                         *)
LEMMA FarSideIsFar ==
  ASSUME NEW v \in Around, v \notin Own
  PROVE  \E w \in Own : w \notin Bnd(NeighborDir(v))
<1> DEFINE dir == NeighborDir(v)
           h == INX \div 2
<1>1. dir \in [Dim -> (0 - 1)..1] /\ dir # Zero
  BY Directions
<1>2. PICK d \in Dim : dir[d] # 0
  BY <1>1 DEF Zero
<1>3. h \in Nat /\ INX = 2 * h /\ Reach < h /\ Reach \in Nat
  BY Widths
<1> DEFINE w == [e \in Dim |-> IF dir[d] = 1 THEN INX - 1 ELSE 0]
<1>4. w \in Own
  <2> HIDE DEF dir, h
  <2> QED BY <1>3 DEF Own
<1>5. ASSUME NEW x \in Around, NEW u \in Own, NearParents(u, x),
             NeighborDir(x) = dir, Second(x) = w
      PROVE  FALSE
  <2> DEFINE c == [e \in Dim |-> Coarse(x[e]) - Coarse(u[e])]
  <2>1. \A e \in Dim : x[e] \in Int /\ u[e] \in 0..(INX - 1)
    BY <1>3 DEF Around, Own
  <2>2. \A e \in Dim : c[e] = x[e] \div 2 - u[e] \div 2 /\ c[e] \in Int
    <3> SUFFICES ASSUME NEW e \in Dim PROVE c[e] = x[e] \div 2 - u[e] \div 2 /\ c[e] \in Int
      OBVIOUS
    <3>1. Coarse(x[e]) = x[e] \div 2 /\ Coarse(u[e]) = u[e] \div 2
      BY <2>1, <1>3, CoarseFromZero
    <3>2. c[e] = Coarse(x[e]) - Coarse(u[e])
      OBVIOUS
    <3> HIDE DEF c
    <3> QED BY <2>1, <1>3, <3>1, <3>2
  <2>3. c \in [Dim -> Int] /\ ~Far(c)
    <3>1. ~Far(c)
      BY <1>5 DEF NearParents
    <3> QED BY <2>2, <3>1
  <2>4. 0 - Reach <= c[d] /\ c[d] <= Reach
    BY <2>3, NearReach
  <2>5. x[d] = INX * dir[d] + w[d]
    BY <1>5, Directions
  <2>6. x[d] = 0 - 2 * h \/ x[d] = 4 * h - 1
    <3>1. dir[d] = 1 \/ dir[d] = 0 - 1
      BY <1>1, <1>2
    <3>2. CASE dir[d] = 1
      <4>1. w[d] = INX - 1 BY <3>2
      <4> HIDE DEF dir, h, w
      <4> QED BY <4>1, <3>2, <2>5, <1>3
    <3>3. CASE dir[d] = 0 - 1
      <4>1. w[d] = 0 BY <3>3
      <4> HIDE DEF dir, h, w
      <4> QED BY <4>1, <3>3, <2>5, <1>3
    <3> QED BY <3>1, <3>2, <3>3
  <2>7. u[d] \div 2 \in 0..(h - 1)
    <3> HIDE DEF h
    <3> QED BY <2>1, <1>3
  <2>8. x[d] \div 2 = 0 - h \/ x[d] \div 2 = 2 * h - 1
    <3> HIDE DEF h
    <3> QED BY <2>6, <1>3
  <2>9. c[d] = x[d] \div 2 - u[d] \div 2
    BY <2>2
  <2> HIDE DEF c, h
  <2> QED BY <2>4, <2>7, <2>8, <2>9, <1>3
<1>6. w \notin Bnd(dir)
  <2>1. SUFFICES ASSUME <<dir, w>> \in BndPairs PROVE FALSE
    BY DEF Bnd
  <2>2. PICK x \in Around : /\ <<dir, w>> = <<NeighborDir(x), Second(x)>>
                            /\ \E u \in Own : Ilist("d", u, x)
    BY <2>1, Zenon DEF BndPairs
  <2>3. PICK u \in Own : NearParents(u, x)
    BY <2>2 DEF Ilist
  <2>4. NeighborDir(x) = dir /\ Second(x) = w
    BY <2>2, Zenon
  <2> QED BY <1>5, <2>3, <2>4, Zenon
<1> QED BY <1>4, <1>6

(* Cells in a pair with one of this node's have been loaded.               *)
LEMMA PairsAreLoaded ==
  ASSUME NEW u \in Own, NEW v \in Around, v \notin Own, Ilist("d", u, v),
         NEW is_local \in BOOLEAN
  PROVE  Second(v) \in Loaded(NeighborDir(v), is_local)
<1> DEFINE dir == NeighborDir(v)
           w == Second(v)
<1>1. w \in Own /\ dir \in [Dim -> (0 - 1)..1]
  BY Directions
<1>2. <<dir, w>> \in BndPairs
  BY DEF BndPairs
<1>3. Opposite(Opposite(dir)) = dir
  <2> HIDE DEF dir
  <2>1. \A d \in Dim : dir[d] \in (0 - 1)..1
    BY <1>1
  <2>2. \A d \in Dim : 0 - (0 - dir[d]) = dir[d]
    BY <2>1
  <2>3. Opposite(Opposite(dir)) = [d \in Dim |-> 0 - (0 - dir[d])]
    BY DEF Opposite
  <2> QED BY <1>1, <2>2, <2>3
<1>4. w \in Bnd(dir)
  BY <1>1, <1>2 DEF Bnd
<1>5. ~(Own \subseteq Bnd(dir))
  BY FarSideIsFar
<1> HIDE DEF dir, w
<1>6. w \in Loaded(dir, is_local)
  BY <1>1, <1>3, <1>4, <1>5 DEF Loaded, BoundaryCells
<1> QED BY <1>6 DEF dir, w

-----------------------------------------------------------------------------
(* What the kernels below the root do.                                     *)

(* Cells i and j are parts of p and q.                                     *)
Parts(p, q, i, j) ==
  /\ p \in Place /\ q \in Place /\ p.lev = q.lev
  /\ \E o1, o2 \in Octant : i = Below(p, o1) /\ j = Below(q, o2)

(* These interact, unless both are multipoles and too near to each other.  *)
Near(p, q, i, j) == i # j /\ ~Far(Offset(p, q))

(* A part of a cell is a cell.                                             *)
LEMMA PartsAreCells ==
  ASSUME NEW p \in Place, NEW o \in Octant
  PROVE  Below(p, o) \in Place /\ Below(p, o).lev = p.lev + 1
BY DEF Below, Place, Octant

(* Parts are of one level, and not the root's.                             *)
LEMMA PartsType ==
  ASSUME NEW p, NEW q, NEW i, NEW j, Parts(p, q, i, j)
  PROVE  i \in Place /\ j \in Place /\ i.lev = j.lev /\ NodeOf(i) # RootNode
<1>1. p.lev \in Nat /\ i \in Place /\ j \in Place /\ i.lev = p.lev + 1 /\ j.lev = p.lev + 1
  BY PartsAreCells DEF Parts, Place
<1>2. NodeOf(i).lev = p.lev + 1 /\ RootNode.lev = 0
  BY <1>1 DEF NodeOf, RootNode
<1> QED BY <1>1, <1>2

(* The stencil and the comparison of parents leave exactly the near pairs. *)
LEMMA StencilIsNear ==
  ASSUME NEW p, NEW q, NEW i, NEW j, Parts(p, q, i, j)
  PROVE  LET e == Offset(i, j)
             parents == NearParents(Local(i, i), Local(i, j))
         IN /\ Near(p, q, i, j) => parents /\ e \in Stencil /\ e \in Tried
            /\ parents => e \in Stencil \cup {Zero}
            /\ parents /\ e \in Stencil => Near(p, q, i, j)
<1> DEFINE e == Offset(i, j)
<1>1. PICK o1 \in Octant, o2 \in Octant : i = Below(p, o1) /\ j = Below(q, o2)
  BY DEF Parts
<1>2. p \in Place /\ q \in Place /\ p.lev = q.lev
  BY DEF Parts
<1>3. NearParents(Local(i, i), Local(i, j)) <=> ~Far(Offset(p, q))
  BY <1>1, <1>2, MasksCompareParents
<1>4. Near(p, q, i, j) => e \in Stencil
  BY <1>1, <1>2, StencilReaches DEF Near
<1>5. i = j => e = Zero
  <2>1. SUFFICES ASSUME i = j PROVE e = Zero
    OBVIOUS
  <2>2. \A d \in Dim : i.x[d] \in Int
    BY PartsType DEF Place
  <2> QED BY <2>1, <2>2 DEF Offset, Difference, Zero
<1>6. e \in Stencil => i # j
  BY <1>5 DEF Stencil
<1> HIDE DEF e
<1>7. e \in Stencil => e \in Tried
  BY StencilIsTried
<1>8. /\ Near(p, q, i, j) => NearParents(Local(i, i), Local(i, j)) /\ e \in Stencil /\ e \in Tried
      /\ NearParents(Local(i, i), Local(i, j)) => e \in Stencil \cup {Zero}
      /\ NearParents(Local(i, i), Local(i, j)) /\ e \in Stencil => Near(p, q, i, j)
  BY <1>3, <1>4, <1>5, <1>6, <1>7 DEF Near
<1> QED BY <1>8 DEF e

(* And so do the masks, if the stencil fits them: elements that are found  *)
(* in the place of another, or past the end, do not have near parents.     *)
LEMMA MasksAreNear ==
  ASSUME MasksFit, NEW p, NEW q, NEW i, NEW j, Parts(p, q, i, j), NEW beyond
  PROVE  LET e == Offset(i, j)
             near == Near(p, q, i, j)
         IN NearParents(Local(i, i), Local(i, j)) =>
              /\ Lookup(StencilMasks, e, beyond) <=> near
              /\ Lookup(P2PStencilMasks, e, beyond) <=> near
              /\ Lookup(InnerStencilMasks, e, beyond) <=> near /\ Far(e)
<1> DEFINE e == Offset(i, j)
<1>1. SUFFICES ASSUME NearParents(Local(i, i), Local(i, j))
               PROVE  /\ Lookup(StencilMasks, e, beyond) <=> Near(p, q, i, j)
                      /\ Lookup(P2PStencilMasks, e, beyond) <=> Near(p, q, i, j)
                      /\ Lookup(InnerStencilMasks, e, beyond) <=> Near(p, q, i, j) /\ Far(e)
  OBVIOUS
<1>2. e \in Stencil \cup {Zero} /\ (e \in Stencil <=> Near(p, q, i, j))
  BY <1>1, StencilIsNear
<1> HIDE DEF e
<1> QED BY <1>2, MasksAreStencils

(* Near pairs are within the range of the former kernels' lists.           *)
LEMMA ListsReach ==
  ASSUME NEW p, NEW q, NEW i, NEW j, Parts(p, q, i, j), Near(p, q, i, j)
  PROVE  \A d \in Dim : Local(i, j)[d] - Local(i, i)[d] \in (0 - INX)..INX
<1>1. i \in Place /\ j \in Place
  BY PartsType
<1>2. Offset(i, j) \in Tried
  BY StencilIsNear
<1>3. \A d \in Dim : Local(i, j)[d] - Local(i, i)[d] = Offset(i, j)[d]
  <2>1. Difference(Local(i, i), Local(i, j)) = Offset(i, j)
    BY <1>1, LocalIndices
  <2> QED BY <2>1 DEF Difference
<1>4. \A d \in Dim : Offset(i, j)[d] \in (0 - STENCIL_WIDTH)..STENCIL_WIDTH
  BY <1>2 DEF Tried
<1> QED BY <1>3, <1>4, Widths

(* Different cells have different indices.                                 *)
LEMMA LocalIsUnique ==
  ASSUME NEW i \in Place, NEW j \in Place, i.lev = j.lev
  PROVE  Local(i, i) = Local(i, j) <=> i = j
<1>1. SUFFICES ASSUME Local(i, i) = Local(i, j) PROVE i = j
  OBVIOUS
<1>2. ASSUME NEW d \in Dim PROVE i.x[d] = j.x[d]
  <2>1. /\ Difference(Local(i, i), Local(i, j)) = Offset(i, j)
        /\ Local(i, i)[d] \in Int
    BY LocalIndices DEF Own
  <2>2. Difference(Local(i, i), Local(i, j))[d] = 0
    BY <1>1, <2>1 DEF Difference
  <2>3. Offset(i, j)[d] = j.x[d] - i.x[d] /\ j.x[d] \in Int /\ i.x[d] \in Int
    BY DEF Offset, Difference, Place
  <2> QED BY <2>1, <2>2, <2>3
<1>3. i.x = j.x
  BY <1>2 DEF Place
<1> QED BY <1>3 DEF Place

(* The data of near cells are where the kernels look for them.             *)
LEMMA NearIsPresent ==
  ASSUME NEW p, NEW q, NEW i, NEW j, Parts(p, q, i, j), Near(p, q, i, j),
         NEW is_local \in BOOLEAN
  PROVE  Present(i, j, is_local)
<1>1. i \in Place /\ j \in Place /\ i.lev = j.lev
  BY PartsType
<1>2. SUFFICES ASSUME NodeOf(i) # NodeOf(j)
               PROVE  Second(Local(i, j)) \in Loaded(NeighborDir(Local(i, j)), is_local)
  BY DEF Present
<1>3. Local(i, i) \in Own /\ Local(i, j) \notin Own
  BY <1>1, <1>2, SameNode, LocalIndices
<1>4. Local(i, j) \in Around
  BY <1>1, StencilIsNear, TriedIsAround
<1>5. Ilist("d", Local(i, i), Local(i, j))
  <2>1. Local(i, i) # Local(i, j)
    BY <1>3
  <2>2. NearParents(Local(i, i), Local(i, j))
    BY StencilIsNear
  <2> QED BY <2>1, <2>2, ListsReach DEF Ilist
<1> QED BY <1>3, <1>4, <1>5, PairsAreLoaded

(* The multipoles' kernels agree, on the host and on the device.           *)
LEMMA MultipoleKernels ==
  ASSUME MasksFit, NEW p, NEW q, NEW i, NEW j, Parts(p, q, i, j), NEW t,
         NEW is_local \in BOOLEAN, NEW beyond
  PROVE  LET received == Once(Near(p, q, i, j) /\ (NodeOf(j) \in t => Far(Offset(i, j))))
         IN /\ MultipoleKernel(t, i, j, is_local, beyond) = received
            /\ MultipoleCudaKernel(t, i, j, is_local, beyond) = received
<1> DEFINE e == Offset(i, j)
           parents == NearParents(Local(i, i), Local(i, j))
           near == Near(p, q, i, j)
           multipole == NodeOf(j) \in t
           stencil == Lookup(StencilMasks, e, beyond.stencil)
           inner == Lookup(InnerStencilMasks, e, beyond.inner)
           present == Present(i, j, is_local)
<1>1. Difference(Local(i, i), Local(i, j)) = e
  BY PartsType, LocalIndices
<1>2. near => parents /\ e \in Tried /\ present
  BY StencilIsNear, NearIsPresent
<1>3. parents => (stencil <=> near) /\ (inner <=> near /\ Far(e))
  BY MasksAreNear
<1>4. MultipoleKernel(t, i, j, is_local, beyond) =
        Once(e \in Tried /\ stencil /\ parents /\ (multipole => inner) /\ present)
  BY <1>1 DEF MultipoleKernel
<1>5. MultipoleCudaKernel(t, i, j, is_local, beyond) =
        IF e \in Tried /\ stencil
        THEN IF multipole THEN Once(present) * (Once(parents) * Once(inner))
             ELSE Once(present) * Once(parents)
        ELSE 0
  BY <1>1 DEF MultipoleCudaKernel
<1> HIDE DEF e, parents, near, multipole, stencil, inner, present
<1>6. MultipoleKernel(t, i, j, is_local, beyond) = Once(near /\ (multipole => Far(e)))
  BY <1>2, <1>3, <1>4 DEF Once
<1>7. MultipoleCudaKernel(t, i, j, is_local, beyond) = Once(near /\ (multipole => Far(e)))
  <2>1. CASE near
    BY <2>1, <1>2, <1>3, <1>5 DEF Once
  <2>2. CASE ~near
    BY <2>2, <1>3, <1>5 DEF Once
  <2> QED BY <2>1, <2>2
<1> QED BY <1>6, <1>7 DEF near, multipole, e

(* So do those between leaves; two rows have the same coarse index.        *)
LEMMA P2PKernels ==
  ASSUME MasksFit, NEW p, NEW q, NEW i, NEW j, Parts(p, q, i, j), NEW t,
         NEW is_local \in BOOLEAN, NEW beyond
  PROVE  LET received == Once(Near(p, q, i, j) /\ NodeOf(j) \notin t)
         IN /\ P2PKernel(t, i, j, is_local, beyond) = received
            /\ P2PCudaKernel(t, i, j, is_local, beyond) = received
<1> DEFINE e == Offset(i, j)
           u == Local(i, i)
           v == Local(i, j)
           first == [u EXCEPT ![2] = u[2] - (u[2] % 2)]
           parents == NearParents(u, v)
           near == Near(p, q, i, j)
           multipole == NodeOf(j) \in t
           stencil == Lookup(StencilMasks, e, beyond.stencil)
           p2p == Lookup(P2PStencilMasks, e, beyond.stencil)
           present == Present(i, j, is_local)
<1>1. Difference(u, v) = e
  BY PartsType, LocalIndices
<1>2. near => parents /\ e \in Tried /\ present
  BY StencilIsNear, NearIsPresent
<1>3. parents => (stencil <=> near) /\ (p2p <=> near)
  BY MasksAreNear
<1>4. NearParents(first, v) <=> parents
  <2>1. u \in [Dim -> 0..(INX - 1)] /\ INX \in Nat
    BY PartsType, LocalIndices, GridAssumption DEF Own
  <2> HIDE DEF u, v
  <2>2. ASSUME NEW d \in Dim PROVE Coarse(first[d]) = Coarse(u[d])
    <3>1. CASE d = 2
      <4>1. PICK x \in Nat : x = u[2]
        BY <2>1, <3>1
      <4>2. first[d] = x - (x % 2)
        BY <2>1, <3>1, <4>1
      <4>3. Coarse(x - (x % 2)) = (x - (x % 2)) \div 2 /\ Coarse(x) = x \div 2
        BY CoarseFromZero
      <4>4. (x - (x % 2)) \div 2 = x \div 2
        OBVIOUS
      <4> QED BY <3>1, <4>1, <4>2, <4>3, <4>4
    <3>2. CASE d # 2
      BY <2>1, <3>2
    <3> QED BY <3>1, <3>2
  <2>3. [d \in Dim |-> Coarse(v[d]) - Coarse(first[d])]
          = [d \in Dim |-> Coarse(v[d]) - Coarse(u[d])]
    BY <2>2
  <2> QED BY <2>3 DEF NearParents
<1>5. P2PKernel(t, i, j, is_local, beyond) =
        Once(~multipole /\ e \in Tried /\ p2p /\ NearParents(first, v) /\ present)
  BY <1>1 DEF P2PKernel
<1>6. P2PCudaKernel(t, i, j, is_local, beyond) =
        IF e \in Tried /\ stencil THEN Once(~multipole /\ present) * Once(parents) ELSE 0
  BY <1>1 DEF P2PCudaKernel
<1> HIDE DEF e, u, v, first, parents, near, multipole, stencil, p2p, present
<1>7. P2PKernel(t, i, j, is_local, beyond) = Once(near /\ ~multipole)
  BY <1>2, <1>3, <1>4, <1>5 DEF Once
<1>8. P2PCudaKernel(t, i, j, is_local, beyond) = Once(near /\ ~multipole)
  <2>1. CASE near
    BY <2>1, <1>2, <1>3, <1>6 DEF Once
  <2>2. CASE ~near
    BY <2>2, <1>3, <1>6 DEF Once
  <2> QED BY <2>1, <2>2
<1> QED BY <1>7, <1>8 DEF near, multipole

(* The leaves' other kernel skips no refined node.                         *)
LEMMA P2MKernels ==
  ASSUME NEW p, NEW q, NEW i, NEW j, Parts(p, q, i, j), NEW t, NodeOf(i) \notin t,
         NEW is_local \in BOOLEAN
  PROVE  P2MKernel(t, i, j, is_local) = Once(Near(p, q, i, j) /\ NodeOf(j) \in t)
<1> DEFINE e == Offset(i, j)
           u == Local(i, i)
           v == Local(i, j)
           n == NodeOf(i)
           parents == NearParents(u, v)
           near == Near(p, q, i, j)
           present == Present(i, j, is_local)
           block == [d \in Dim |-> (v[d] + INX) \div INX - 1]
           skipped == ZSkip(t, n, block) \/ YSkip(t, n, block) \/ XSkip(t, n, block)
<1>1. Difference(u, v) = e /\ P2PStencil = Stencil
  BY PartsType, LocalIndices, StencilsAgree
<1>2. near => parents /\ e \in Stencil /\ present
  BY StencilIsNear, NearIsPresent
<1>3. parents /\ e \in Stencil => near
  BY StencilIsNear
<1>4. near => (skipped <=> NodeOf(j) \notin t)
  <2> SUFFICES ASSUME near PROVE skipped <=> NodeOf(j) \notin t
    OBVIOUS
  <2>1. i \in Place /\ j \in Place /\ i.lev = j.lev /\ v \in Around
    BY PartsType, StencilIsNear, TriedIsAround
  <2>2. block = NeighborDir(v)
    <3>1. \A d \in Dim : NeighborDir(v)[d] = (v[d] + INX) \div INX - 1
      BY <2>1, Directions
    <3>2. NeighborDir(v) = [d \in Dim |-> NeighborDir(v)[d]]
      BY DEF NeighborDir
    <3> HIDE DEF v
    <3> QED BY <3>1, <3>2
  <2>3. block \in [Dim -> (0 - 1)..1]
    BY <2>1, <2>2, Directions
  <2>4. NodeOf(j) = NeighborOf(n, block)
    BY <2>1, <2>2, DirectionLeadsToNode
  <2>5. block = Zero <=> NodeOf(i) = NodeOf(j)
    BY <2>1, <2>2, Directions, SameNode
  <2> HIDE DEF block, n, v
  <2>6. XSkip(t, n, block) <=> NodeOf(j) \notin t
    BY <2>4, <2>5 DEF XSkip
  <2>7. 2 \in Dim /\ 3 \in Dim
    BY DEF Dim
  <2>8. block[3] \in (0 - 1)..1 /\ [block EXCEPT ![3] = block[3]] = block
        /\ block[2] \in (0 - 1)..1 /\ [block EXCEPT ![2] = block[2]] = block
    BY <2>3, <2>7
  <2>9. YSkip(t, n, block) => XSkip(t, n, block)
    BY <2>8 DEF YSkip
  <2>10. ZSkip(t, n, block) => YSkip(t, n, block)
    BY <2>8 DEF ZSkip
  <2> QED BY <2>6, <2>9, <2>10
<1>5. P2MKernel(t, i, j, is_local) = Once(e \in Stencil /\ ~skipped /\ parents /\ present)
  <2>1. P2MKernel(t, i, j, is_local) =
          Once(/\ e \in Stencil
               /\ ~ZSkip(t, n, block) /\ ~YSkip(t, n, block) /\ ~XSkip(t, n, block)
               /\ parents /\ present)
    BY <1>1 DEF P2MKernel
  <2> HIDE DEF e, n, parents, present, block
  <2> QED BY <2>1 DEF Once
<1> HIDE DEF e, u, v, n, parents, near, present, block, skipped
<1>6. P2MKernel(t, i, j, is_local) = Once(near /\ NodeOf(j) \in t)
  BY <1>2, <1>3, <1>4, <1>5 DEF Once
<1> QED BY <1>6 DEF near

-----------------------------------------------------------------------------
(* The former kernels.                                                     *)

(* A list holds a pair in both orders or in none.                          *)
LEMMA ListBothWays ==
  ASSUME NEW list, NEW u \in Own, NEW v \in Own
  PROVE  Ilist(list, u, v) <=> Ilist(list, v, u)
<1>1. INX \in Nat /\ \A d \in Dim : u[d] \in Int /\ v[d] \in Int
  BY GridAssumption DEF Own
<1>2. \A x, y \in Int : (x - y) * (x - y) = (y - x) * (y - x)
  OBVIOUS
<1>3. Far(Difference(u, v)) <=> Far(Difference(v, u))
  <2>1. \A d \in Dim : Difference(u, v)[d] * Difference(u, v)[d]
                         = Difference(v, u)[d] * Difference(v, u)[d]
    BY <1>1, <1>2 DEF Difference
  <2> QED BY <2>1 DEF Far, Dim
<1>4. NearParents(u, v) <=> NearParents(v, u)
  <2> DEFINE c(x, y) == [d \in Dim |-> Coarse(y[d]) - Coarse(x[d])]
  <2>1. \A d \in Dim : Coarse(u[d]) \in Int /\ Coarse(v[d]) \in Int
    BY <1>1, Widths DEF Coarse
  <2>2. \A d \in Dim : c(u, v)[d] * c(u, v)[d] = c(v, u)[d] * c(v, u)[d]
    BY <1>2, <2>1
  <2> HIDE DEF c
  <2>3. Far(c(u, v)) <=> Far(c(v, u))
    BY <2>2 DEF Far, Dim
  <2> QED BY <2>3 DEF NearParents, c
<1>5. (\A d \in Dim : v[d] - u[d] \in (0 - INX)..INX)
        <=> (\A d \in Dim : u[d] - v[d] \in (0 - INX)..INX)
  BY <1>1
<1> QED BY <1>3, <1>4, <1>5 DEF Ilist

(* And one of two cells has the smaller index.                             *)
LEMMA IndicesDiffer ==
  ASSUME NEW u \in Own, NEW v \in Own, u # v
  PROVE  GIndex(u) < GIndex(v) <=> ~(GIndex(v) < GIndex(u))
<1>1. 1 \in Dim /\ 2 \in Dim /\ 3 \in Dim /\ \A d \in Dim : d \in {1, 2, 3}
  BY DEF Dim
<1>2. PICK n \in Nat \ {0} : n = INX
  BY GridAssumption
<1>3. PICK p1 \in 0..(n - 1), p2 \in 0..(n - 1), p3 \in 0..(n - 1) :
        p1 = u[1] /\ p2 = u[2] /\ p3 = u[3]
  BY <1>1, <1>2 DEF Own
<1>4. PICK q1 \in 0..(n - 1), q2 \in 0..(n - 1), q3 \in 0..(n - 1) :
        q1 = v[1] /\ q2 = v[2] /\ q3 = v[3]
  BY <1>1, <1>2 DEF Own
<1>5. PICK g \in Int, k \in Int :
        g = p1 * (n * n) + (p2 * n + p3) /\ k = q1 * (n * n) + (q2 * n + q3)
  OBVIOUS
<1>6. g # k
  <2>1. SUFFICES ASSUME g = k PROVE FALSE
    OBVIOUS
  <2>2. p1 * (n * n) + (p2 * n + p3) = q1 * (n * n) + (q2 * n + q3)
    BY <1>5, <2>1
  <2>3. p1 = q1 /\ p2 = q2 /\ p3 = q3
    BY <2>2, IndexIsUnique
  <2>4. \A d \in Dim : u[d] = v[d]
    BY <1>1, <1>3, <1>4, <2>3
  <2> QED BY <2>4 DEF Own
<1>7. GIndex(u) = g /\ GIndex(v) = k
  BY <1>2, <1>3, <1>4, <1>5 DEF GIndex
<1> QED BY <1>6, <1>7

(* A node's own pairs are in its list once, and go both ways.              *)
LEMMA OwnPairsOnce ==
  ASSUME NEW list, NEW u \in Own, NEW v \in Own
  PROVE  Once(InnerIlist(list, u, v)) + Once(InnerIlist(list, v, u)) = Once(Ilist(list, u, v))
<1>1. CASE u # v
  BY <1>1, ListBothWays, IndicesDiffer DEF InnerIlist, Once
<1>2. CASE u = v
  BY <1>2 DEF InnerIlist, Once, Ilist
<1> QED BY <1>1, <1>2

(* The former kernels agree with the others.                               *)
LEMMA FormerKernels ==
  ASSUME NEW p, NEW q, NEW i, NEW j, Parts(p, q, i, j), NEW t
  PROVE  OldStyle(t, i, j) =
           Once(Near(p, q, i, j) /\ (NodeOf(i) \in t /\ NodeOf(j) \in t => Far(Offset(i, j))))
<1> DEFINE e == Offset(i, j)
           u == Local(i, i)
           v == Local(i, j)
           near == Near(p, q, i, j)
           multipoles == NodeOf(i) \in t /\ NodeOf(j) \in t
<1>1. i \in Place /\ j \in Place /\ i.lev = j.lev /\ NodeOf(i) # RootNode
  BY PartsType
<1>2. Difference(u, v) = e /\ u \in Own
  BY <1>1, LocalIndices
<1>3. ASSUME NEW list, list # "r"
      PROVE  Once(Ilist(list, u, v)) = Once(near /\ (list # "d" => Far(e)))
  <2>1. u # v /\ NearParents(u, v) => near
    <3>1. NearParents(u, v) <=> ~Far(Offset(p, q))
      <4>1. PICK o1 \in Octant, o2 \in Octant : i = Below(p, o1) /\ j = Below(q, o2)
        BY DEF Parts
      <4> QED BY <4>1, MasksCompareParents DEF Parts
    <3>2. u # v => i # j
      OBVIOUS
    <3> QED BY <3>1, <3>2 DEF Near
  <2>2. near => /\ u # v /\ NearParents(u, v)
                /\ \A d \in Dim : v[d] - u[d] \in (0 - INX)..INX
    BY <1>1, LocalIsUnique, StencilIsNear, ListsReach DEF Near
  <2> HIDE DEF u, v, near, e
  <2> QED BY <2>1, <2>2, <1>2, <1>3 DEF Ilist, Once
<1>4. CASE NodeOf(i) = NodeOf(j)
  <2>1. v \in Own
    BY <1>1, <1>4, SameNode
  <2> DEFINE list == IF NodeOf(i) \notin t THEN "d" ELSE "n"
  <2>2. OldStyle(t, i, j) = Once(InnerIlist(list, u, v)) + Once(InnerIlist(list, v, u))
    BY <1>1, <1>4 DEF OldStyle, ComputeInteractions
  <2>3. list # "r" /\ (list # "d" <=> multipoles)
    BY <1>4
  <2> HIDE DEF u, v, e, near, list, multipoles
  <2>4. OldStyle(t, i, j) = Once(near /\ (multipoles => Far(e)))
    BY <2>1, <2>2, <2>3, <1>2, <1>3, OwnPairsOnce
  <2> QED BY <2>4 DEF near, multipoles, e
<1>5. CASE NodeOf(i) # NodeOf(j)
  <2> DEFINE list == IF multipoles THEN "n" ELSE "d"
  <2>1. OldStyle(t, i, j) = Once(Ilist(list, u, v))
    BY <1>5 DEF OldStyle, ComputeBoundaryInteractions, MultipoleMultipole,
                MonopoleMultipole, MultipoleMonopole, MonopoleMonopole
  <2>2. list # "r" /\ (list # "d" <=> multipoles)
    OBVIOUS
  <2> HIDE DEF u, v, e, near, list, multipoles
  <2>3. OldStyle(t, i, j) = Once(near /\ (multipoles => Far(e)))
    BY <2>1, <2>2, <1>3
  <2> QED BY <2>3 DEF near, multipoles, e
<1> QED BY <1>4, <1>5

(* And the root's let any two of its cells interact that are far.          *)
LEMMA RootKernel ==
  ASSUME NEW i \in Place, NEW j \in Place, NEW t, RootNode \in t,
         NodeOf(i) = RootNode, NodeOf(j) = RootNode
  PROVE  OldStyle(t, i, j) = Once(i # j /\ Far(Offset(i, j)))
<1> DEFINE u == Local(i, i)
           v == Local(i, j)
<1>1. i.lev = j.lev
  BY DEF NodeOf, RootNode
<1>2. u \in Own /\ v \in Own /\ Difference(u, v) = Offset(i, j) /\ (u = v <=> i = j)
  BY <1>1, LocalIndices, SameNode, LocalIsUnique
<1>3. OldStyle(t, i, j) = Once(InnerIlist("r", u, v)) + Once(InnerIlist("r", v, u))
  BY DEF OldStyle, ComputeInteractions
<1>4. \A d \in Dim : v[d] - u[d] \in (0 - INX)..INX
  <2> HIDE DEF u, v
  <2> SUFFICES ASSUME NEW d \in Dim PROVE v[d] - u[d] \in (0 - INX)..INX
    OBVIOUS
  <2>1. u[d] \in 0..(INX - 1) /\ v[d] \in 0..(INX - 1) /\ INX \in Nat
    BY <1>2, GridAssumption DEF Own
  <2> QED BY <2>1
<1> HIDE DEF u, v
<1>5. OldStyle(t, i, j) = Once(Ilist("r", u, v))
  BY <1>2, <1>3, OwnPairsOnce
<1>6. Ilist("r", u, v) <=> i # j /\ Far(Offset(i, j))
  BY <1>2, <1>4 DEF Ilist
<1> QED BY <1>5, <1>6 DEF Once

-----------------------------------------------------------------------------
(* What the kernels of a node below the root do, whichever run: a cell     *)
(* receives another if their parents are near, except that multipoles also *)
(* have to be far from each other.                                         *)
LEMMA KernelsBelowRoot ==
  ASSUME MasksFit, NEW p, NEW q, NEW i, NEW j, Parts(p, q, i, j), NEW t,
         NEW n \in Counts(t, i, j)
  PROVE  n = Once(/\ Near(p, q, i, j)
                  /\ NodeOf(i) \in t /\ NodeOf(j) \in t => Far(Offset(i, j)))
<1>1. i.lev = j.lev /\ NodeOf(i) # RootNode
  BY PartsType
<1>2. PICK type \in KernelTypes, free \in BOOLEAN, is_local \in BOOLEAN,
           beyond \in Beyond(Difference(Local(i, i), Local(i, j))) :
        n = Received(t, i, j, type, free, is_local, beyond)
  BY <1>1 DEF Counts
<1> DEFINE near == Near(p, q, i, j)
           far == Far(Offset(i, j))
           launch == Launched(type, free)
<1>3. launch \in {"host", "device", "old"}
  BY DEF Launched
<1>4. CASE NodeOf(i) \in t
  <2>1. n = ComputeMultipoleInteractions(t, i, j, launch, is_local, beyond)
    BY <1>1, <1>2, <1>4 DEF Received
  <2>2. /\ MultipoleKernel(t, i, j, is_local, beyond) = Once(near /\ (NodeOf(j) \in t => far))
        /\ MultipoleCudaKernel(t, i, j, is_local, beyond) = Once(near /\ (NodeOf(j) \in t => far))
    BY MultipoleKernels
  <2>3. OldStyle(t, i, j) = Once(near /\ (NodeOf(i) \in t /\ NodeOf(j) \in t => far))
    BY FormerKernels
  <2> HIDE DEF near, far, launch
  <2>4. n = Once(near /\ (NodeOf(i) \in t /\ NodeOf(j) \in t => far))
    BY <1>3, <1>4, <2>1, <2>2, <2>3 DEF ComputeMultipoleInteractions, Once
  <2> QED BY <2>4 DEF near, far
<1>5. CASE NodeOf(i) \notin t
  <2>1. n = ComputeP2PInteractions(t, i, j, launch, is_local, beyond)
              + ComputeP2MInteractions(t, i, j, type, is_local)
    BY <1>1, <1>2, <1>5 DEF Received
  <2>2. /\ P2PKernel(t, i, j, is_local, beyond) = Once(near /\ NodeOf(j) \notin t)
        /\ P2PCudaKernel(t, i, j, is_local, beyond) = Once(near /\ NodeOf(j) \notin t)
        /\ P2MKernel(t, i, j, is_local) = Once(near /\ NodeOf(j) \in t)
    BY <1>5, P2PKernels, P2MKernels
  <2>3. OldStyle(t, i, j) = Once(near /\ (NodeOf(i) \in t /\ NodeOf(j) \in t => far))
    BY FormerKernels
  <2> HIDE DEF near, far, launch
  <2>4. OldStyle(t, i, j) = Once(near)
    BY <1>5, <2>3 DEF Once
  <2>5. ComputeP2PInteractions(t, i, j, launch, is_local, beyond) = Once(near /\ NodeOf(j) \notin t)
    BY <1>3, <2>2, <2>4 DEF ComputeP2PInteractions, Once
  <2>6. ComputeP2MInteractions(t, i, j, type, is_local) = Once(near /\ NodeOf(j) \in t)
    BY <2>2, <2>4 DEF ComputeP2MInteractions, Once
  <2>7. n = Once(near)
    BY <2>1, <2>5, <2>6 DEF Once
  <2>8. n = Once(near /\ (NodeOf(i) \in t /\ NodeOf(j) \in t => far))
    BY <1>5, <2>7 DEF Once
  <2> QED BY <2>8 DEF near, far
<1> QED BY <1>4, <1>5

-----------------------------------------------------------------------------
(* The inductive invariant.  As long as both cells can be divided further, *)
(* they have received each other if they are far apart; once one is a      *)
(* leaf's, they have in any case, and it stays the coarser of the two.     *)
Both == NodeOf(a) \in refined /\ NodeOf(b) \in refined

Due == IF Both THEN (IF Far(Offset(a, b)) THEN 1 ELSE 0)
            ELSE (IF a = b THEN 0 ELSE 1)

PairIInv ==
  /\ refined \in Trees
  /\ a \in Place /\ b \in Place
  /\ a.lev < b.lev => NodeOf(a) \notin refined
  /\ b.lev < a.lev => NodeOf(b) \notin refined
  /\ toA = Due /\ toB = Due

(* The invariant holds of two cells of the root.                           *)
LEMMA InitIInv == PairInit => PairIInv
<1> SUFFICES ASSUME PairInit PROVE PairIInv
  OBVIOUS
<1>1. refined \in Trees /\ RootNode \in refined
  BY TreesAssumption DEF PairInit
<1>2. a \in Place /\ NodeOf(a) = RootNode /\ a.lev = 0
  <2>1. a \in Place /\ NodeOf(a) = RootNode
    BY PairsAssumption DEF PairInit
  <2>2. NodeOf(a).lev = a.lev /\ RootNode.lev = 0
    BY DEF NodeOf, RootNode
  <2> QED BY <2>1, <2>2
<1>3. b \in Place /\ NodeOf(b) = RootNode /\ b.lev = 0
  <2>1. b \in Place /\ NodeOf(b) = RootNode
    BY PairsAssumption DEF PairInit
  <2>2. NodeOf(b).lev = b.lev /\ RootNode.lev = 0
    BY DEF NodeOf, RootNode
  <2> QED BY <2>1, <2>2
<1>4. Both
  BY <1>1, <1>2, <1>3 DEF Both
<1>5. Far(Offset(a, b)) => a # b
  BY <1>2, SelfIsNear
<1>6. Far(Offset(a, b)) <=> Far(Offset(b, a))
  BY <1>2, <1>3, FarBothWays
<1>7. ASSUME NEW i \in Place, NEW j \in Place, NodeOf(i) = RootNode, NodeOf(j) = RootNode,
             NEW n \in Counts(refined, i, j)
      PROVE  n = Once(i # j /\ Far(Offset(i, j)))
  <2>1. i.lev = j.lev
    BY <1>7 DEF NodeOf, RootNode
  <2>2. n = OldStyle(refined, i, j)
    BY <1>7, <2>1 DEF Counts, Received
  <2> QED BY <1>1, <1>7, <2>2, RootKernel
<1>8. toA = Due /\ toB = Due
  BY <1>2, <1>3, <1>4, <1>5, <1>6, <1>7 DEF PairInit, Due, Once
<1> QED BY <1>1, <1>2, <1>3, <1>8 DEF PairIInv

(* Both cells are divided: what was near is received now, or divided again.*)
LEMMA BothDescend ==
  ASSUME MasksFit, PairIInv, Both, NEW o1 \in Octant, NEW o2 \in Octant,
         Descend, a' = Below(a, o1), b' = Below(b, o2)
  PROVE  PairIInv'
<1>1. a \in Place /\ b \in Place /\ a.lev = b.lev /\ refined' = refined /\ refined \in Trees
  <2>1. a.lev \in Nat /\ b.lev \in Nat
    BY DEF PairIInv, Place
  <2>2. ~(a.lev < b.lev) /\ ~(b.lev < a.lev)
    BY DEF PairIInv, Both
  <2> QED BY <2>1, <2>2 DEF PairIInv, Descend
<1>2. a' \in Place /\ b' \in Place /\ a'.lev = b'.lev /\ a'.lev \in Nat
  BY <1>1, PartsAreCells DEF Place
<1>3. /\ \A n \in Counts(refined, a', b') :
           n = Once(/\ a' # b' /\ ~Far(Offset(a, b))
                    /\ NodeOf(a') \in refined /\ NodeOf(b') \in refined => Far(Offset(a', b')))
      /\ \A n \in Counts(refined, b', a') :
           n = Once(/\ b' # a' /\ ~Far(Offset(b, a))
                    /\ NodeOf(b') \in refined /\ NodeOf(a') \in refined => Far(Offset(b', a')))
  <2>1. Parts(a, b, a', b') /\ Parts(b, a, b', a')
    BY <1>1 DEF Parts
  <2> QED BY <2>1, KernelsBelowRoot DEF Near
<1>4. /\ Far(Offset(a, b)) <=> Far(Offset(b, a))
      /\ Far(Offset(a', b')) <=> Far(Offset(b', a'))
  BY <1>1, <1>2, FarBothWays
<1>5. Far(Offset(a, b)) => Far(Offset(a', b'))
  BY <1>1, FarStaysFar
<1>6. Far(Offset(a', b')) => a' # b'
  BY <1>2, SelfIsNear
<1>7. toA = (IF Far(Offset(a, b)) THEN 1 ELSE 0) /\ toB = (IF Far(Offset(a, b)) THEN 1 ELSE 0)
  BY DEF PairIInv, Due
<1>8. /\ \E n \in Counts(refined, a', b') : toA' = toA + n
      /\ \E n \in Counts(refined, b', a') : toB' = toB + n
  BY DEF Descend
<1>9. Due' = IF NodeOf(a') \in refined /\ NodeOf(b') \in refined
                  THEN (IF Far(Offset(a', b')) THEN 1 ELSE 0)
                  ELSE (IF a' = b' THEN 0 ELSE 1)
  BY <1>1 DEF Due, Both
<1>10. toA' = Due' /\ toB' = Due'
  <2>1. CASE Far(Offset(a, b))
    BY <2>1, <1>3, <1>4, <1>5, <1>6, <1>7, <1>8, <1>9 DEF Once
  <2>2. CASE ~Far(Offset(a, b))
    BY <2>2, <1>3, <1>4, <1>6, <1>7, <1>8, <1>9 DEF Once
  <2> QED BY <2>1, <2>2
<1>11. ~(a'.lev < b'.lev) /\ ~(b'.lev < a'.lev)
  BY <1>2
<1> QED BY <1>1, <1>2, <1>10, <1>11 DEF PairIInv

(* One of the cells is a leaf's: it has received the other, and the parts  *)
(* of that are on levels on which it is not.                               *)
LEMMA OneDescends ==
  ASSUME PairIInv, ~Both, Descend
  PROVE  PairIInv'
<1>1. a \in Place /\ b \in Place /\ refined' = refined /\ refined \in Trees
      /\ a.lev \in Nat /\ b.lev \in Nat
  BY DEF PairIInv, Descend, Place
<1>2. CASE NodeOf(a) \in refined
  <2>1. NodeOf(b) \notin refined /\ b' = b
    BY <1>2 DEF Both, Descend
  <2>2. PICK o \in Octant : a' = Below(a, o)
    BY <1>2 DEF Descend
  <2>3. a' \in Place /\ a'.lev = a.lev + 1
    BY <1>1, <2>2, PartsAreCells
  <2>4. b.lev <= a.lev /\ b'.lev < a'.lev
    BY <1>1, <1>2, <2>1, <2>3 DEF PairIInv
  <2>5. a # b /\ toA = 1 /\ toB = 1
    BY <1>2, <2>1 DEF PairIInv, Due, Both
  <2>6. a'.lev # b'.lev /\ a' # b' /\ ~(a'.lev < b'.lev)
    BY <1>1, <2>1, <2>3, <2>4
  <2>7. toA' = 1 /\ toB' = 1
    BY <2>5, <2>6 DEF Descend, Counts
  <2>8. Due' = 1 /\ NodeOf(b') \notin refined'
    BY <1>1, <2>1, <2>6 DEF Due, Both
  <2> QED BY <1>1, <2>1, <2>3, <2>6, <2>7, <2>8 DEF PairIInv
<1>3. CASE NodeOf(a) \notin refined
  <2>1. NodeOf(b) \in refined /\ a' = a
    BY <1>3 DEF Both, Descend
  <2>2. PICK o \in Octant : b' = Below(b, o)
    BY <2>1 DEF Descend
  <2>3. b' \in Place /\ b'.lev = b.lev + 1
    BY <1>1, <2>2, PartsAreCells
  <2>4. a.lev <= b.lev /\ a'.lev < b'.lev
    BY <1>1, <1>3, <2>1, <2>3 DEF PairIInv
  <2>5. a # b /\ toA = 1 /\ toB = 1
    BY <1>3, <2>1 DEF PairIInv, Due, Both
  <2>6. a'.lev # b'.lev /\ a' # b' /\ ~(b'.lev < a'.lev)
    BY <1>1, <2>1, <2>3, <2>4
  <2>7. toA' = 1 /\ toB' = 1
    BY <2>5, <2>6 DEF Descend, Counts
  <2>8. Due' = 1 /\ NodeOf(a') \notin refined'
    BY <1>1, <1>3, <2>1, <2>6 DEF Due, Both
  <2> QED BY <1>1, <2>1, <2>3, <2>6, <2>7, <2>8 DEF PairIInv
<1> QED BY <1>2, <1>3

(* The invariant is inductive.                                             *)
LEMMA Invariant ==
  ASSUME MasksFit
  PROVE  PairSpec => []PairIInv
<1>1. PairInit => PairIInv
  BY InitIInv
<1>2. PairIInv /\ [PairNext]_pairVars => PairIInv'
  <2> SUFFICES ASSUME PairIInv, [PairNext]_pairVars PROVE PairIInv'
    OBVIOUS
  <2>1. CASE Descend
    <3>1. CASE Both
      <4>1. PICK o1 \in Octant : a' = Below(a, o1)
        BY <2>1, <3>1 DEF Descend, Both
      <4>2. PICK o2 \in Octant : b' = Below(b, o2)
        BY <2>1, <3>1 DEF Descend, Both
      <4> QED BY <2>1, <3>1, <4>1, <4>2, BothDescend
    <3>2. CASE ~Both
      BY <2>1, <3>2, OneDescends
    <3> QED BY <3>1, <3>2
  <2>2. CASE UNCHANGED pairVars
    BY <2>2 DEF pairVars, PairIInv, Due, Both
  <2> QED BY <2>1, <2>2 DEF PairNext
<1> QED BY <1>1, <1>2, PTL DEF PairSpec

(* In every set of trees, on grids of every even number of cells and for   *)
(* every theta and minimum whose stencils fit the adjacent nodes and the   *)
(* masks, each pair of leaves' cells interacts once: no kernel leaves out  *)
(* what another relies on it to count, and what kernels read of a mask in  *)
(* the place of another element, or past its end, makes no difference.     *)
THEOREM PairsInteractOnce ==
  ASSUME MasksFit
  PROVE  PairSpec => []EachPairOnce
<1>1. PairIInv => EachPairOnce
  BY DEF PairIInv, Due, Both, EachPairOnce
<1> QED BY <1>1, Invariant, PTL

(* Both cells of a pair receive each other on the same level, for the same *)
(* grids, thetas and minima.                                               *)
THEOREM ForcesInPairs ==
  ASSUME MasksFit
  PROVE  PairSpec => []Reciprocal
<1>1. PairIInv => Reciprocal
  BY DEF PairIInv, Reciprocal
<1> QED BY <1>1, Invariant, PTL
=============================================================================
