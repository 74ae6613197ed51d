--------------------------- MODULE Timestep_proofs ---------------------------
(***************************************************************************)
(* Proofs about module Timestep, for every tree, every set of CFL limits   *)
(* and every length of the run.                                            *)
(*                                                                         *)
(* The first part shows what the channels hold, and that the dt which is   *)
(* agreed exceeds no leaf's limit.  The second, that it is the limit of    *)
(* some leaf: with that Timestep implements LockStep, and no node passes   *)
(* stop_time.                                                              *)
(***************************************************************************)
EXTENDS Timestep, SequenceTheorems, TLAPS

A == Len(agreed)

(* A queue that holds one value, meant for step s.                         *)
Holds(q, s) == Len(q) = 1 /\ q[1].step = s

(* The ends of a call of step(): where a node is relative to its goal.     *)
GoalInv ==
  \A n \in Node :
    /\ pc[n] \in {"idle", "done"} => step[n] = goal[n]
    /\ pc[n] \in {"begin", "bounds", "wait"} => step[n] < goal[n]
    /\ pc[n] = "join" => step[n] <= goal[n]

(* An idle node has an idle subtree, which has come as far as itself.      *)
IdleInv ==
  \A n \in Node : pc[n] = "idle" =>
    \A d \in Below[n] : pc[d] = "idle" /\ goal[d] = goal[n]

(* The futures of the descent, and what a node posts for itself.           *)
OwnInv ==
  \A n \in Node :
    /\ pc[n] = "bounds" => pending[n]
    /\ pending[n] => pc[n] \in {"bounds", "wait"}
    /\ IF pc[n] = "wait" /\ pending[n] THEN Holds(own[n], step[n])
                                       ELSE own[n] = <<>>

(* Between a child and its parent is one value if the child has descended  *)
(* once more than its parent, otherwise none.                              *)
UpInv ==
  /\ up[Root] = {} /\ child[Root] = <<>>
  /\ \A c \in Node \ {Root} :
       \/ /\ Descents(c) = Descents(Parent[c])
          /\ up[c] = {} /\ child[c] = <<>>
       \/ /\ Descents(c) = Descents(Parent[c]) + 1
          /\ \/ /\ up[c] = {}
                /\ Holds(child[c], Descents(Parent[c]))
             \/ /\ child[c] = <<>>
                /\ \E v \in up[c] : up[c] = {v} /\ v.step = Descents(Parent[c])

(* No node descends before the nodes below it; the root's descents are the *)
(* agreements.                                                             *)
WaveInv ==
  /\ Descents(Root) = A
  /\ \A n \in Node : \A d \in Below[n] : Descents(n) <= Descents(d)

(* The latest agreed dt is the only one under way, from nodes that have    *)
(* seen it to nodes that have not.                                         *)
Unseen(n) == step[n] < A /\ global[n] = <<>>

DownInv ==
  /\ \A n \in Node :
       /\ step[n] <= A
       /\ global[n] # <<>> => /\ step[n] + 1 = A
                              /\ Holds(global[n], step[n])
                              /\ global[n][1].dt = agreed[A]
       /\ \A v \in down[n] : /\ down[n] = {v}
                             /\ v.step = step[n] /\ v.dt = agreed[A]
                             /\ Unseen(n)
  /\ \A c \in Node \ {Root} :
       Unseen(Parent[c]) => Unseen(c) /\ down[c] = {}
  /\ down[Root] = {}
  /\ ~Unseen(Root)

ClockInv ==
  \A m, n \in Node :
    /\ step[m] = step[n] => time[m] = time[n]
    /\ step[m] + 1 = step[n] => time[n] = time[m] + agreed[A]

(* A value on its way to the root bounds no leaf below it from above.      *)
LimitInv ==
  /\ \A l \in Leaf : own[l] # <<>> => own[l][1].dt = limit[l]
  /\ \A c \in Node \ {Root} : \A l \in Leaf \cap Below[c] :
       /\ child[c] # <<>> => child[c][1].dt <= limit[l]
       /\ \A v \in up[c] : v.dt <= limit[l]
  /\ \A l \in Leaf :
       A > 0 /\ ~(step[l] = A /\ pc[l] = "wait") => agreed[A] <= limit[l]

IInv == /\ GoalInv /\ IdleInv /\ OwnInv /\ UpInv /\ WaveInv /\ DownInv
        /\ ClockInv /\ LimitInv /\ CflRespected

-----------------------------------------------------------------------------
(* Facts about the channels and the tree that the proofs cite.             *)
LEMMA OneValue ==
  ASSUME NEW S, NEW q \in Seq(S), Len(q) = 1
  PROVE  q # <<>> /\ Head(q) = q[1] /\ q[1] \in S /\ Tail(q) = <<>>
<1>1. q # <<>> /\ Head(q) = q[1] /\ q[1] \in S
  OBVIOUS
<1>2. Tail(q) \in Seq(S) /\ Len(Tail(q)) = 0
  BY <1>1, HeadTailProperties
<1> QED
  BY <1>1, <1>2, EmptySeq

(* The first value of an empty channel is at its head.                     *)
LEMMA AppendToEmpty ==
  ASSUME NEW S, NEW v \in S
  PROVE  /\ Append(<<>>, v) \in Seq(S) /\ Append(<<>>, v) # <<>>
         /\ Len(Append(<<>>, v)) = 1 /\ Append(<<>>, v)[1] = v
  OBVIOUS

(* A channel that is not empty has a head and a tail.                      *)
LEMMA NonEmpty ==
  ASSUME NEW S, NEW q \in Seq(S), q # <<>>
  PROVE  Head(q) \in S /\ Tail(q) \in Seq(S) /\ Len(q) \in Nat /\ Len(q) > 0
  OBVIOUS

(* The root and every parent are nodes.                                    *)
LEMMA RootIsNode == Root \in Node /\ \A c \in Node \ {Root} : Parent[c] \in Node
  BY TreeAssumption

(* The tree as the proofs use it.                                          *)
LEMMA TreeFacts ==
  /\ \A n \in Node : n \in Below[n]
  /\ \A c \in Node \ {Root} :
       Parent[c] \in Node /\ c \in Children(Parent[c]) /\ c # Root
  /\ \A n \in Node : \A c \in Children(n) :
       c \in Node \ {Root} /\ Parent[c] = n /\ Below[c] \subseteq Below[n]
  /\ \A n \in Node : \A d \in Below[n] :
       /\ d \in Node
       /\ d = n \/ \E c \in Children(n) : d \in Below[c]
       /\ d = n \/ (d # Root /\ Parent[d] \in Below[n])
  /\ \A d \in Node : d \in Below[Root]
  BY TreeAssumption DEF Children, ChildNodes

(* The limit of a leaf is a positive timestep.                             *)
LEMMA MaxDtType ==
  ASSUME TypeOK, NEW n \in Node
  PROVE  MaxDt(n) \in Int
<1>1. RefFreq - (step[n] % RefFreq) \in Nat \ {0}
  BY DtAssumption DEF TypeOK
<1>2. StopTime - time[n] \in Int
  BY DtAssumption DEF TypeOK
<1> QED
  BY <1>1, <1>2 DEF MaxDt

(* Forwarding down keeps the channels sequences of timesteps.              *)
LEMMA ForwardType ==
  ASSUME TypeOK, NEW n \in Node, NEW v \in Val,
         NEW msgs \in [Node -> SUBSET Val], Forward(n, v, msgs)
  PROVE  global' \in [Node -> Seq(Val)] /\ down' \in [Node -> SUBSET Val]
<1>1. Append(global[n], v) \in Seq(Val)
  BY AppendProperties DEF TypeOK
<1>2. global' \in [Node -> Seq(Val)]
  BY <1>1 DEF Forward, TypeOK
<1>3. down' \in [Node -> SUBSET Val]
  BY DEF Forward
<1> QED
  BY <1>2, <1>3

(* Every variable keeps its type, whatever the tree and the limits: in     *)
(* particular no arithmetic on dt or on the step number leaves the         *)
(* integers, and what a channel yields is a timestep.                      *)
LEMMA TypeStep == TypeOK /\ [Next]_vars => TypeOK'
<1> SUFFICES ASSUME TypeOK, [Next]_vars PROVE TypeOK'
  OBVIOUS
<1> USE DEF TypeOK, PC
<1>1. CASE StartChunk
  <2>1. Smaller(step[Root] + RefFreq, StopStep + 1) \in Nat
    BY DtAssumption, RootIsNode DEF Smaller
  <2> QED
    BY <1>1, <2>1, RootIsNode DEF StartChunk
<1>2. CASE DescendRoot
  <2>1. \A c \in Node : child[c] # <<>> => Tail(child[c]) \in Seq(Val)
    BY NonEmpty
  <2>2. Tail(own[Root]) \in Seq(Val) /\ child' \in [Node -> Seq(Val)]
    BY <1>2, <2>1, NonEmpty, RootIsNode DEF DescendRoot, TakeHeads, Ready
  <2>3. \A v \in Heads(Root) : v \in Val
    <3>1. Head(own[Root]) \in Val
      BY <1>2, NonEmpty, RootIsNode DEF DescendRoot, Ready
    <3>2. \A c \in Children(Root) : Head(child[c]) \in Val
      BY <1>2, NonEmpty, RootIsNode DEF DescendRoot, Ready, Children, ChildNodes
    <3> QED
      BY <3>1, <3>2 DEF Heads
  <2>4. \A v \in Val : v.dt \in Int
    BY DEF Val
  <2>5. PICK v \in Val : /\ Forward(Root, v, down)
                         /\ agreed' = Append(agreed, v.dt)
    BY <1>2, <2>3 DEF DescendRoot, IsLeast
  <2>6. global' \in [Node -> Seq(Val)] /\ down' \in [Node -> SUBSET Val]
    BY <2>5, RootIsNode, ForwardType
  <2>7. agreed' \in Seq(Int)
    BY <2>4, <2>5
  <2>8. own' \in [Node -> Seq(Val)] /\ pending' \in [Node -> BOOLEAN]
    BY <1>2, <2>2, RootIsNode DEF DescendRoot, TakeHeads
  <2> QED
    BY <1>2, <2>2, <2>6, <2>7, <2>8 DEF DescendRoot
<1>3. ASSUME NEW c \in Node \ {Root}, StartChild(c) PROVE TypeOK'
  BY <1>3, RootIsNode DEF StartChild
<1>4. ASSUME NEW n \in Node \ {Root}, Descend(n) PROVE TypeOK'
  <2>1. \A c \in Node : child[c] # <<>> => Tail(child[c]) \in Seq(Val)
    BY NonEmpty
  <2>2. Tail(own[n]) \in Seq(Val) /\ child' \in [Node -> Seq(Val)]
    BY <1>4, <2>1, NonEmpty DEF Descend, TakeHeads, Ready
  <2>3. \A v \in Heads(n) : v \in Val
    <3>1. own[n] # <<>> /\ Head(own[n]) \in Val
      BY <1>4, NonEmpty DEF Descend, Ready
    <3>2. \A c \in Children(n) : c \in Node /\ child[c] # <<>>
      BY <1>4 DEF Descend, Ready, Children, ChildNodes
    <3>3. \A c \in Children(n) : Head(child[c]) \in Val
      BY <3>2, NonEmpty
    <3> QED
      BY ONLY <3>1, <3>3 DEF Heads
  <2> QED
    BY <1>4, <2>2, <2>3 DEF Descend, TakeHeads
<1>5. ASSUME NEW c \in Node \ {Root}, SetLocal(c) PROVE TypeOK'
  BY <1>5 DEF SetLocal
<1>6. ASSUME NEW c \in Node \ {Root}, Ascend(c) PROVE TypeOK'
  <2>1. PICK v \in down[c] : Forward(c, v, [down EXCEPT ![c] = @ \ {v}])
    BY <1>6 DEF Ascend
  <2>2. v \in Val
    BY <2>1
  <2>3. [down EXCEPT ![c] = @ \ {v}] \in [Node -> SUBSET Val]
    OBVIOUS
  <2>4. global' \in [Node -> Seq(Val)] /\ down' \in [Node -> SUBSET Val]
    BY <2>1, <2>2, <2>3, ForwardType
  <2> QED
    BY <1>6, <2>4 DEF Ascend
<1>7. ASSUME NEW l \in Leaf, PostLeaf(l) PROVE TypeOK'
  <2>1. l \in Node /\ \A cfl \in Cfl : Smaller(cfl, MaxDt(l)) \in Int
    BY MaxDtType, DtAssumption DEF Leaf, Smaller
  <2>2. \A d \in Int : [dt |-> d, step |-> step[l]] \in Val
    BY <2>1 DEF Val
  <2> QED
    BY <1>7, <2>1, <2>2 DEF PostLeaf
<1>8. ASSUME NEW n \in Node \ Leaf, PostRefined(n) PROVE TypeOK'
  <2>1. [dt |-> Huge, step |-> step[n]] \in Val
    BY DtAssumption DEF Val
  <2> QED
    BY <1>8, <2>1 DEF PostRefined
<1>9. ASSUME NEW n \in Node, BeginStep(n) PROVE TypeOK'
  BY <1>9 DEF BeginStep
<1>10. ASSUME NEW n \in Node, Update(n) PROVE TypeOK'
  <2>1. Head(global[n]) \in Val /\ Tail(global[n]) \in Seq(Val)
    BY <1>10, NonEmpty DEF Update
  <2>2. Head(global[n]).dt \in Int
    BY <2>1 DEF Val
  <2> QED
    <3> DEFINE d == Head(global[n]).dt
    <3>1. dt' = [dt EXCEPT ![n] = d] /\ time' = [time EXCEPT ![n] = @ + d]
      BY <1>10 DEF Update
    <3>2. dt' \in [Node -> Int] /\ time' \in [Node -> Int]
      <4> HIDE DEF d
      <4> QED
        BY <2>2, <3>1 DEF d
    <3> QED
      <4>1. global' \in [Node -> Seq(Val)] /\ step' \in [Node -> Nat]
        BY <1>10, <2>1 DEF Update
      <4>2. pc' \in [Node -> PC]
        BY <1>10 DEF Update
      <4> QED
        BY <1>10, <3>2, <4>1, <4>2 DEF Update
<1>11. ASSUME NEW n \in Node, EndStep(n) PROVE TypeOK'
  BY <1>11 DEF EndStep
<1>12. ASSUME NEW n \in Node, Return(n) PROVE TypeOK'
  BY <1>12 DEF Return
<1>13. CASE UNCHANGED vars
  BY <1>13 DEF vars
<1> QED
  BY <1>1, <1>2, <1>3, <1>4, <1>5, <1>6, <1>7, <1>8, <1>9, <1>10, <1>11,
     <1>12, <1>13 DEF Next

(* Every variable keeps its type.                                          *)
THEOREM TypeCorrect == Spec => []TypeOK
<1>1. Init => TypeOK
  BY DEF Init, TypeOK, PC
<1> QED
  BY <1>1, TypeStep, PTL DEF Spec

-----------------------------------------------------------------------------
(* What the inductive invariant says of a node on its own.                 *)
LEMMA Consequences ==
  ASSUME TypeOK, IInv
  PROVE  /\ A \in Nat
         /\ \A n \in Node :
              /\ step[n] \in Nat /\ Descents(n) \in Nat
              /\ Descents(n) >= A /\ step[n] <= A /\ A <= step[n] + 1
              /\ pc[n] # "wait" \/ pending[n] => Descents(n) = step[n] /\ step[n] = A
              /\ pc[n] = "wait" /\ ~pending[n] => Descents(n) = step[n] + 1
<1>1. A \in Nat
  BY DEF TypeOK, A
<1>2. ASSUME NEW n \in Node
      PROVE  /\ step[n] \in Nat /\ Descents(n) \in Nat
             /\ Descents(n) = step[n] \/ Descents(n) = step[n] + 1
             /\ pc[n] # "wait" \/ pending[n] => Descents(n) = step[n]
             /\ pc[n] = "wait" /\ ~pending[n] => Descents(n) = step[n] + 1
  BY DEF TypeOK, Descents
<1>3. ASSUME NEW n \in Node PROVE Descents(n) >= A
  BY <1>1, <1>2, TreeFacts, RootIsNode DEF IInv, WaveInv
<1>4. \A n \in Node : step[n] <= A
  BY DEF IInv, DownInv
<1> QED
  BY <1>1, <1>2, <1>3, <1>4

(* A step that moves no value and completes no descent.                    *)
LEMMA Frame ==
  ASSUME IInv, UNCHANGED <<step, time, child, global, up, down, agreed>>,
         \A n \in Node : Descents(n)' = Descents(n)
  PROVE  UpInv' /\ WaveInv' /\ DownInv' /\ ClockInv'
<1>1. UpInv'
  BY RootIsNode DEF IInv, UpInv, Holds
<1>2. WaveInv'
  BY TreeFacts, RootIsNode DEF IInv, WaveInv, A
<1>3. DownInv'
  BY DEF IInv, DownInv, Unseen, A, Holds
<1>4. ClockInv'
  BY DEF IInv, ClockInv, A
<1> QED
  BY <1>1, <1>2, <1>3, <1>4

(* The limits of all other leaves stay when one leaf sets its own.         *)
LEMMA LimitFrame ==
  ASSUME IInv, UNCHANGED <<step, own, child, up, limit, agreed>>,
         \A l \in Leaf : pc[l]' = "wait" <=> pc[l] = "wait"
  PROVE  LimitInv'
  BY DEF IInv, LimitInv, A

(* The steps of a node that change only its pc, its goal and its own post. *)
LEMMA StartChunkInv ==
  ASSUME TypeOK, IInv, StartChunk PROVE IInv'
<1> USE RootIsNode
<1>1. \A n \in Node : Descents(n)' = Descents(n)
  BY DEF TypeOK, StartChunk, Descents
<1>2. GoalInv'
  BY DtAssumption DEF TypeOK, IInv, GoalInv, StartChunk, Smaller
<1>3. IdleInv'
  <2>1. \A n \in Node : Root \in Below[n] => n = Root
    BY TreeFacts
  <2> QED
    <3> SUFFICES ASSUME NEW m \in Node, pc'[m] = "idle", NEW d \in Below[m]
                 PROVE  pc'[d] = "idle" /\ goal'[d] = goal'[m]
      BY DEF IdleInv
    <3>0. d \in Node
      BY TreeFacts
    <3>1. m # Root
      BY DEF TypeOK, StartChunk
    <3>2. d # Root
      BY <2>1, <3>1
    <3> QED
      BY <3>0, <3>1, <3>2 DEF TypeOK, IInv, IdleInv, StartChunk
<1>4. OwnInv'
  BY DEF TypeOK, IInv, OwnInv, StartChunk, Holds
<1>5. LimitInv'
  BY LimitFrame DEF TypeOK, StartChunk, Leaf
<1>6. CflRespected'
  BY DEF TypeOK, IInv, CflRespected, StartChunk, Leaf
<1> QED
  BY <1>1, <1>2, <1>3, <1>4, <1>5, <1>6, Frame DEF IInv, StartChunk

(* A child that begins its chunk adds nothing to a channel.                *)
LEMMA StartChildInv ==
  ASSUME TypeOK, IInv, NEW c \in Node \ {Root}, StartChild(c) PROVE IInv'
<1>1. \A n \in Node : Descents(n)' = Descents(n)
  BY DEF TypeOK, StartChild, Descents
<1>2. GoalInv'
  BY RootIsNode DEF TypeOK, IInv, GoalInv, StartChild
<1>3. IdleInv'
  <2>1. \A n \in Node : c \in Below[n] => n = c \/ Parent[c] \in Below[n]
    BY TreeFacts
  <2>2. \A n \in Node : pc[n] = "idle" /\ c \in Below[n] => n = c
    <3> SUFFICES ASSUME NEW n \in Node, pc[n] = "idle", c \in Below[n], n # c
                 PROVE  FALSE
      OBVIOUS
    <3>1. goal[c] = goal[n] /\ goal[Parent[c]] = goal[n]
      BY <2>1 DEF IInv, IdleInv
    <3> QED
      BY <3>1 DEF TypeOK, StartChild
  <2> SUFFICES ASSUME NEW m \in Node, pc'[m] = "idle", NEW d \in Below[m]
               PROVE  pc'[d] = "idle" /\ goal'[d] = goal'[m]
    BY DEF IdleInv
  <2>3. \A k \in Node : k # c => pc'[k] = pc[k] /\ goal'[k] = goal[k]
    BY DEF TypeOK, StartChild
  <2>4. pc'[c] = "begin" /\ d \in Node
    <3>1. pc'[c] = "begin"
      BY DEF TypeOK, StartChild
    <3> QED
      BY <3>1, TreeFacts
  <2>5. m # c /\ pc[m] = "idle"
    BY <2>3, <2>4
  <2>6. d # c /\ pc[d] = "idle" /\ goal[d] = goal[m]
    BY <2>2, <2>4, <2>5 DEF IInv, IdleInv
  <2> QED
    BY <2>3, <2>4, <2>5, <2>6
<1>4. OwnInv'
  BY DEF TypeOK, IInv, OwnInv, StartChild, Holds
<1>5. LimitInv'
  BY LimitFrame DEF TypeOK, StartChild, Leaf
<1>6. CflRespected'
  BY DEF TypeOK, IInv, CflRespected, StartChild, Leaf
<1> QED
  BY <1>1, <1>2, <1>3, <1>4, <1>5, <1>6, Frame DEF IInv, StartChild

(* A step of a node that is not idle, and does not become it.              *)
LEMMA IdleFrame ==
  ASSUME IdleInv, NEW n \in Node, pc[n] # "idle", pc'[n] # "idle",
         \A m \in Node : m # n => pc'[m] = pc[m], goal' = goal
  PROVE  IdleInv'
<1> SUFFICES ASSUME NEW m \in Node, pc'[m] = "idle", NEW d \in Below[m]
             PROVE  pc'[d] = "idle" /\ goal'[d] = goal'[m]
  BY DEF IdleInv
<1>1. m # n /\ pc[m] = "idle"
  OBVIOUS
<1>2. d \in Node /\ pc[d] = "idle" /\ goal[d] = goal[m]
  BY <1>1, TreeFacts DEF IdleInv
<1> QED
  BY <1>2

(* A node that begins a step.                                              *)
LEMMA BeginStepInv ==
  ASSUME TypeOK, IInv, NEW n \in Node, BeginStep(n) PROVE IInv'
<1>1. \A m \in Node : Descents(m)' = Descents(m)
  BY DEF TypeOK, BeginStep, Descents
<1>2. GoalInv'
  BY DEF TypeOK, IInv, GoalInv, BeginStep
<1>3. IdleInv'
  <2>1. pc[n] # "idle" /\ pc'[n] # "idle" /\ goal' = goal
    BY DEF TypeOK, BeginStep
  <2>2. \A m \in Node : m # n => pc'[m] = pc[m]
    BY DEF TypeOK, BeginStep
  <2> QED
    BY <2>1, <2>2, IdleFrame DEF IInv
<1>4. OwnInv'
  BY DEF TypeOK, IInv, OwnInv, BeginStep, Holds
<1>5. LimitInv'
  BY LimitFrame DEF TypeOK, BeginStep, Leaf
<1>6. CflRespected'
  BY DEF TypeOK, IInv, CflRespected, BeginStep, Leaf
<1> QED
  BY <1>1, <1>2, <1>3, <1>4, <1>5, <1>6, Frame DEF IInv, BeginStep

(* A node that ends a step.                                                *)
LEMMA EndStepInv ==
  ASSUME TypeOK, IInv, NEW n \in Node, EndStep(n) PROVE IInv'
<1>1. \A m \in Node : Descents(m)' = Descents(m)
  BY DEF TypeOK, EndStep, Descents
<1>2. GoalInv'
  <2>1. /\ pc[n] = "join" /\ \A m \in Node : m # n => pc'[m] = pc[m]
        /\ pc'[n] = IF step[n] < goal[n] THEN "begin" ELSE "done"
    BY DEF TypeOK, EndStep
  <2>2. step' = step /\ goal' = goal /\ step[n] \in Int /\ goal[n] \in Int
    BY DEF TypeOK, EndStep
  <2> QED
    BY <2>1, <2>2 DEF IInv, GoalInv
<1>3. IdleInv'
  <2>1. pc[n] # "idle" /\ pc'[n] # "idle" /\ goal' = goal
    BY DEF TypeOK, EndStep
  <2>2. \A m \in Node : m # n => pc'[m] = pc[m]
    BY DEF TypeOK, EndStep
  <2> QED
    BY <2>1, <2>2, IdleFrame DEF IInv
<1>4. OwnInv'
  BY DEF TypeOK, IInv, OwnInv, EndStep, Holds
<1>5. LimitInv'
  BY LimitFrame DEF TypeOK, EndStep, Leaf
<1>6. CflRespected'
  BY DEF TypeOK, IInv, CflRespected, EndStep, Leaf
<1> QED
  BY <1>1, <1>2, <1>3, <1>4, <1>5, <1>6, Frame DEF IInv, EndStep

(* A node whose chunk is over.                                             *)
LEMMA ReturnInv ==
  ASSUME TypeOK, IInv, NEW n \in Node, Return(n) PROVE IInv'
<1>1. \A m \in Node : Descents(m)' = Descents(m)
  BY DEF TypeOK, Return, Descents
<1>2. GoalInv'
  BY DEF TypeOK, IInv, GoalInv, Return
<1>3. IdleInv'
  <2>1. \A d \in Below[n] : d = n \/ (pc[d] = "idle" /\ goal[d] = goal[n])
    BY TreeFacts DEF IInv, IdleInv, Return
  <2> QED
    <3> SUFFICES ASSUME NEW m \in Node, pc'[m] = "idle", NEW d \in Below[m]
                 PROVE  pc'[d] = "idle" /\ goal'[d] = goal'[m]
      BY DEF IdleInv
    <3>1. d \in Node
      BY TreeFacts
    <3>2. CASE m = n
      BY <2>1, <3>1, <3>2 DEF TypeOK, Return
    <3>3. CASE m # n
      BY <3>1, <3>3 DEF TypeOK, IInv, IdleInv, Return
    <3> QED
      BY <3>2, <3>3
<1>4. OwnInv'
  BY DEF TypeOK, IInv, OwnInv, Return, Holds
<1>5. LimitInv'
  BY LimitFrame DEF TypeOK, Return, Leaf
<1>6. CflRespected'
  BY DEF TypeOK, IInv, CflRespected, Return, Leaf
<1> QED
  BY <1>1, <1>2, <1>3, <1>4, <1>5, <1>6, Frame DEF IInv, Return

(* A refined node that begins to wait for its children.                    *)
LEMMA PostRefinedInv ==
  ASSUME TypeOK, IInv, NEW n \in Node \ Leaf, PostRefined(n) PROVE IInv'
<1>1. \A m \in Node : Descents(m)' = Descents(m)
  BY DEF TypeOK, IInv, OwnInv, PostRefined, Descents
<1>2. GoalInv'
  BY DEF TypeOK, IInv, GoalInv, PostRefined
<1>3. IdleInv'
  <2>1. pc[n] # "idle" /\ pc'[n] # "idle" /\ goal' = goal
    BY DEF TypeOK, PostRefined
  <2>2. \A m \in Node : m # n => pc'[m] = pc[m]
    BY DEF TypeOK, PostRefined
  <2> QED
    BY <2>1, <2>2, IdleFrame DEF IInv
<1>4. OwnInv'
  <2>1. [dt |-> Huge, step |-> step[n]] \in Val
    BY DtAssumption DEF TypeOK, Val
  <2>2. own[n] = <<>> /\ pending[n]
    BY DEF IInv, OwnInv, PostRefined
  <2>3. Holds(own'[n], step[n])
    BY <2>1, <2>2, AppendToEmpty DEF TypeOK, PostRefined, Holds
  <2> QED
    BY <2>2, <2>3 DEF TypeOK, IInv, OwnInv, PostRefined, Holds
<1>5. LimitInv'
  <2>1. \A m \in Leaf : m \in Node /\ m # n
    BY DEF Leaf
  <2>2. \A m \in Leaf : own'[m] = own[m] /\ pc'[m] = pc[m]
    BY <2>1 DEF TypeOK, PostRefined
  <2> QED
    BY <2>2 DEF IInv, LimitInv, PostRefined, A
<1>6. CflRespected'
  BY DEF TypeOK, IInv, CflRespected, PostRefined, Leaf
<1> QED
  BY <1>1, <1>2, <1>3, <1>4, <1>5, <1>6, Frame DEF IInv, PostRefined

(* A leaf posts only when no value of a former step that counts it is on   *)
(* its way to the root.                                                    *)
LEMMA PostLeafInv ==
  ASSUME TypeOK, IInv, NEW l \in Leaf, PostLeaf(l) PROVE IInv'
<1> l \in Node
  BY DEF Leaf
<1>1. \A m \in Node : Descents(m)' = Descents(m)
  BY DEF TypeOK, IInv, OwnInv, PostLeaf, Descents
<1>2. GoalInv'
  BY DEF TypeOK, IInv, GoalInv, PostLeaf
<1>3. IdleInv'
  <2>1. pc[l] # "idle" /\ pc'[l] # "idle" /\ goal' = goal
    BY DEF TypeOK, PostLeaf
  <2>2. \A m \in Node : m # l => pc'[m] = pc[m]
    BY DEF TypeOK, PostLeaf
  <2> QED
    BY <2>1, <2>2, IdleFrame DEF IInv
<1>4. own[l] = <<>> /\ pending[l]
  BY DEF IInv, OwnInv, PostLeaf
<1>5. PICK d \in Int : /\ limit' = [limit EXCEPT ![l] = d]
                       /\ dt' = [dt EXCEPT ![l] = d]
                       /\ own' = [own EXCEPT ![l] =
                                    Append(@, [dt |-> d, step |-> step[l]])]
  <2>1. \A cfl \in Cfl : Smaller(cfl, MaxDt(l)) \in Int
    BY MaxDtType, DtAssumption DEF Smaller
  <2> QED
    BY <2>1 DEF PostLeaf
<1>6. /\ Holds(own'[l], step[l]) /\ own'[l][1].dt = d
      /\ \A m \in Node : m # l => own'[m] = own[m]
  <2>1. [dt |-> d, step |-> step[l]] \in Val
    BY DEF TypeOK, Val
  <2> QED
    BY <1>4, <1>5, <2>1, AppendToEmpty DEF TypeOK, Holds
<1>7. OwnInv'
  <2>1. /\ pc'[l] = "wait" /\ pending'[l] /\ step' = step /\ pending' = pending
        /\ \A m \in Node : m # l => pc'[m] = pc[m]
    BY <1>4 DEF TypeOK, PostLeaf
  <2> QED
    BY <1>6, <2>1 DEF TypeOK, IInv, OwnInv, Holds
<1>8. LimitInv'
  <2>1. step[l] = A /\ Descents(l) = A /\ A \in Nat
    BY <1>4, Consequences
  <2>2. ASSUME NEW c \in Node \ {Root}, l \in Below[c]
        PROVE  child[c] = <<>> /\ up[c] = {}
    <3>1. Descents(c) <= A /\ Descents(c) >= A /\ Descents(Parent[c]) >= A
      BY <2>1, <2>2, RootIsNode, Consequences DEF IInv, WaveInv
    <3>2. Descents(c) \in Nat /\ Descents(Parent[c]) \in Nat
      BY RootIsNode, Consequences
    <3>3. Descents(c) # Descents(Parent[c]) + 1
      BY <2>1, <3>1, <3>2
    <3> QED
      BY <3>3 DEF IInv, UpInv
  <2>3. \A m \in Leaf : m \in Node
    BY DEF Leaf
  <2>4. \A m \in Leaf : m # l => limit'[m] = limit[m] /\ pc'[m] = pc[m]
    BY <2>3 DEF TypeOK, PostLeaf
  <2>5. \A m \in Leaf : own'[m] # <<>> => own'[m][1].dt = limit'[m]
    BY <1>5, <1>6, <2>3, <2>4 DEF TypeOK, IInv, LimitInv
  <2>6. /\ A' = A /\ agreed' = agreed /\ step' = step
        /\ child' = child /\ up' = up /\ pc'[l] = "wait"
    BY DEF TypeOK, PostLeaf, A
  <2>7. \A c \in Node \ {Root} : \A m \in Leaf \cap Below[c] :
          /\ child'[c] # <<>> => child'[c][1].dt <= limit'[m]
          /\ \A v \in up'[c] : v.dt <= limit'[m]
    BY <2>2, <2>4, <2>6 DEF IInv, LimitInv
  <2>8. \A m \in Leaf :
          A' > 0 /\ ~(step'[m] = A' /\ pc'[m] = "wait") => agreed'[A'] <= limit'[m]
    BY <2>1, <2>4, <2>6 DEF IInv, LimitInv
  <2> QED
    BY <2>5, <2>7, <2>8 DEF LimitInv
<1>9. CflRespected'
  BY DEF TypeOK, IInv, CflRespected, PostLeaf, Leaf
<1> QED
  BY <1>1, <1>2, <1>3, <1>7, <1>8, <1>9, Frame DEF IInv, PostLeaf

(* The steps that move a value.                                            *)
LEMMA SetLocalInv ==
  ASSUME TypeOK, IInv, NEW c \in Node \ {Root}, SetLocal(c) PROVE IInv'
<1>1. PICK v \in up[c] : /\ up' = [up EXCEPT ![c] = @ \ {v}]
                         /\ child' = [child EXCEPT ![c] = Append(@, v)]
  BY DEF SetLocal
<1>2. /\ Descents(c) = Descents(Parent[c]) + 1
      /\ up[c] = {v} /\ child[c] = <<>> /\ v.step = Descents(Parent[c])
  BY <1>1 DEF IInv, UpInv
<1>3. /\ up'[c] = {} /\ Holds(child'[c], Descents(Parent[c]))
      /\ child'[c] # <<>> /\ child'[c][1] = v
      /\ \A m \in Node : m # c => up'[m] = up[m] /\ child'[m] = child[m]
  BY <1>1, <1>2, AppendToEmpty DEF TypeOK, Holds
<1>4. \A m \in Node : Descents(m)' = Descents(m)
  BY DEF SetLocal, Descents
<1>5. GoalInv' /\ IdleInv' /\ CflRespected'
  BY DEF IInv, GoalInv, IdleInv, CflRespected, SetLocal
<1>6. OwnInv'
  BY DEF IInv, OwnInv, SetLocal, Holds
<1>7. UpInv'
  BY <1>2, <1>3, <1>4, RootIsNode DEF IInv, UpInv, Holds
<1>8. WaveInv'
  BY <1>4, TreeFacts, RootIsNode DEF IInv, WaveInv, SetLocal, A
<1>9. DownInv' /\ ClockInv'
  BY DEF IInv, DownInv, ClockInv, Unseen, SetLocal, A, Holds
<1>10. LimitInv'
  <2>1. \A l \in Leaf \cap Below[c] : v.dt <= limit[l]
    BY <1>1 DEF IInv, LimitInv
  <2> QED
    BY <1>3, <2>1 DEF IInv, LimitInv, SetLocal, A
<1> QED
  BY <1>5, <1>6, <1>7, <1>8, <1>9, <1>10 DEF IInv

(* A leaf that takes the agreed timestep.                                  *)
LEMMA UpdateInv ==
  ASSUME TypeOK, TypeOK', IInv, NEW n \in Node, Update(n) PROVE IInv'
<1>1. /\ pc[n] = "wait" /\ ~pending[n] /\ step[n] + 1 = A /\ Descents(n) = A
      /\ Holds(global[n], step[n]) /\ global[n][1].dt = agreed[A]
      /\ step[n] \in Nat /\ A \in Nat /\ A > 0
  <2>1. /\ pc[n] = "wait" /\ step[n] + 1 = A /\ Holds(global[n], step[n])
        /\ global[n][1].dt = agreed[A]
    BY DEF IInv, DownInv, Update
  <2> QED
    BY <2>1, Consequences
<1>2. Head(global[n]) = global[n][1] /\ Tail(global[n]) = <<>>
  BY <1>1, OneValue DEF TypeOK, Holds
<1>3. /\ step'[n] = A /\ pc'[n] = "join" /\ global'[n] = <<>>
      /\ dt'[n] = agreed[A] /\ time'[n] = time[n] + agreed[A]
  <2>1. step'[n] = A /\ pc'[n] = "join"
    BY <1>1 DEF TypeOK, Update
  <2>4. global'[n] = <<>>
    BY <1>1, <1>2 DEF TypeOK, Update
  <2>2. dt'[n] = agreed[A]
    BY <1>1, <1>2 DEF TypeOK, Update
  <2>3. time'[n] = time[n] + agreed[A]
    BY <1>1, <1>2 DEF TypeOK, Update
  <2> QED
    BY <2>1, <2>2, <2>3, <2>4
<1>4. \A m \in Node : m # n => /\ step'[m] = step[m] /\ pc'[m] = pc[m]
                               /\ global'[m] = global[m] /\ dt'[m] = dt[m]
                               /\ time'[m] = time[m]
  <2>1. \A m \in Node : m # n => step'[m] = step[m] /\ pc'[m] = pc[m]
    BY DEF TypeOK, Update
  <2>2. \A m \in Node : m # n => global'[m] = global[m] /\ dt'[m] = dt[m]
    BY DEF TypeOK, Update
  <2>3. \A m \in Node : m # n => time'[m] = time[m]
    BY DEF TypeOK, Update
  <2> QED
    BY <2>1, <2>2, <2>3
<1>5. \A m \in Node : Descents(m)' = Descents(m)
  BY <1>1, <1>3, <1>4 DEF Descents, Update
<1>6. A' = A /\ agreed' = agreed /\ agreed[A] \in Int
  <2>1. agreed' = agreed
    BY DEF Update
  <2>2. agreed \in Seq(Int) /\ A \in 1..Len(agreed)
    BY <1>1 DEF TypeOK, A
  <2> QED
    BY <2>1, <2>2 DEF A
<1>7. GoalInv'
  BY <1>1, <1>3, <1>4 DEF TypeOK, IInv, GoalInv, Update
<1>8. IdleInv'
  BY <1>1, <1>3, <1>4, IdleFrame DEF IInv, Update
<1>9. OwnInv'
  BY <1>1, <1>3, <1>4 DEF IInv, OwnInv, Update, Holds
<1>10. UpInv'
  BY <1>5, RootIsNode DEF IInv, UpInv, Update, Holds
<1>11. WaveInv'
  BY <1>5, <1>6, TreeFacts, RootIsNode DEF IInv, WaveInv
<1>12. \A m \in Node : Unseen(m)' <=> Unseen(m)
  <2>1. ~Unseen(n) /\ ~Unseen(n)'
    BY <1>1, <1>3, <1>6 DEF Unseen, Update
  <2> QED
    BY <1>4, <1>6, <2>1 DEF Unseen
<1>13. DownInv'
  <2>1. down[n] = {} /\ down' = down
    BY <1>1 DEF IInv, DownInv, Unseen, Update
  <2>2. \A m \in Node :
          /\ step'[m] <= A'
          /\ global'[m] # <<>> => /\ step'[m] + 1 = A'
                                  /\ Holds(global'[m], step'[m])
                                  /\ global'[m][1].dt = agreed'[A']
    BY <1>1, <1>3, <1>4, <1>6 DEF IInv, DownInv, Holds
  <2>3. \A m \in Node : \A v \in down'[m] :
          down'[m] = {v} /\ v.step = step'[m] /\ v.dt = agreed'[A'] /\ Unseen(m)'
    BY <1>4, <1>6, <1>12, <2>1 DEF IInv, DownInv
  <2>4. /\ \A c \in Node \ {Root} : Unseen(Parent[c])' => Unseen(c)' /\ down'[c] = {}
        /\ down'[Root] = {} /\ ~Unseen(Root)'
    BY <1>12, <2>1, RootIsNode DEF IInv, DownInv
  <2> QED
    BY <2>2, <2>3, <2>4 DEF DownInv, Holds
<1>14. ClockInv'
  <2>1. \A m \in Node : /\ step[m] \in Nat /\ time[m] \in Int
                        /\ step[m] <= A
    BY Consequences DEF TypeOK
  <2>2. ASSUME NEW m \in Node, m # n
        PROVE  /\ step'[m] = step'[n] => time'[m] = time'[n]
               /\ step'[m] + 1 = step'[n] => time'[n] = time'[m] + agreed'[A']
               /\ step'[n] + 1 # step'[m]
    <3>1. /\ step[n] + 1 = step[m] => time[m] = time[n] + agreed[A]
          /\ step[m] = step[n] => time[m] = time[n]
      BY DEF IInv, ClockInv
    <3> QED
      BY <1>1, <1>3, <1>4, <1>6, <2>1, <2>2, <3>1
  <2>3. ASSUME NEW l \in Node, NEW m \in Node, l # n, m # n
        PROVE  /\ step'[l] = step'[m] => time'[l] = time'[m]
               /\ step'[l] + 1 = step'[m] => time'[m] = time'[l] + agreed'[A']
    BY <1>4, <1>6, <2>3 DEF IInv, ClockInv
  <2>4. step'[n] + 1 # step'[n]
    BY <1>1, <1>3
  <2> QED
    BY <2>2, <2>3, <2>4 DEF ClockInv
<1>15. LimitInv'
  <2>1. \A l \in Leaf : l \in Node
    BY DEF Leaf
  <2>2. n \in Leaf => agreed[A] <= limit[n]
    BY <1>1 DEF IInv, LimitInv
  <2>3. \A l \in Leaf :
          A' > 0 /\ ~(step'[l] = A' /\ pc'[l] = "wait") => agreed'[A'] <= limit'[l]
    BY <1>3, <1>4, <1>6, <2>1, <2>2 DEF IInv, LimitInv, Update
  <2> QED
    BY <2>3 DEF IInv, LimitInv, Update
<1>16. CflRespected'
  <2>1. n \in Leaf => agreed[A] <= limit[n]
    BY <1>1 DEF IInv, LimitInv
  <2> QED
    BY <1>3, <1>4, <2>1 DEF IInv, CflRespected, Update, Leaf
<1> QED
  BY <1>7, <1>8, <1>9, <1>10, <1>11, <1>13, <1>14, <1>15, <1>16 DEF IInv

(* What a node finds in its channels when its descent is ready.            *)
LEMMA ReadyFacts ==
  ASSUME TypeOK, IInv, NEW n \in Node, Ready(n)
  PROVE  /\ pc[n] = "wait" /\ pending[n] /\ Holds(own[n], step[n])
         /\ Descents(n) = step[n] /\ step[n] = A /\ A \in Nat
         /\ \A c \in Children(n) :
              /\ c \in Node \ {Root} /\ c # n /\ Parent[c] = n
              /\ Descents(c) = Descents(n) + 1 /\ up[c] = {}
              /\ Holds(child[c], step[n])
         /\ \A v \in Heads(n) : v \in Val /\ v.step = step[n]
         /\ \A v \in Heads(n) : IsLeast(v, Heads(n)) =>
              \A l \in Leaf \cap Below[n] : v.dt <= limit[l]
<1>1. pc[n] = "wait" /\ pending[n] /\ Holds(own[n], step[n])
  BY DEF IInv, OwnInv, Ready
<1>2. Descents(n) = step[n] /\ step[n] = A /\ A \in Nat
  BY <1>1, Consequences
<1>3. ASSUME NEW c \in Children(n)
      PROVE  /\ c \in Node \ {Root} /\ c # n /\ Parent[c] = n
             /\ Descents(c) = Descents(n) + 1 /\ up[c] = {}
             /\ Holds(child[c], step[n])
  <2>1. c \in Node \ {Root} /\ Parent[c] = n /\ child[c] # <<>>
    BY TreeFacts DEF Ready
  <2>2. /\ Descents(c) = Descents(n) + 1 /\ up[c] = {}
        /\ Holds(child[c], step[n])
    BY <1>2, <2>1 DEF IInv, UpInv
  <2> QED
    BY <1>2, <2>1, <2>2
<1>4. Head(own[n]) = own[n][1] /\ own[n][1] \in Val
  BY <1>1, OneValue DEF TypeOK, Holds
<1>5. \A c \in Children(n) : Head(child[c]) = child[c][1] /\ child[c][1] \in Val
  BY <1>3, OneValue DEF TypeOK, Holds
<1>6. \A v \in Heads(n) : v \in Val /\ v.step = step[n]
  BY <1>1, <1>3, <1>4, <1>5 DEF Heads, Holds
<1>7. ASSUME NEW v \in Heads(n), IsLeast(v, Heads(n)), NEW l \in Leaf \cap Below[n]
      PROVE  v.dt <= limit[l]
  <2>1. CASE l = n
    <3>1. own[n][1].dt = limit[n]
      BY <1>1, <1>4, <2>1 DEF IInv, LimitInv, Holds, Ready
    <3>2. own[n][1] \in Heads(n)
      BY <1>4 DEF Heads
    <3> QED
      BY <1>7, <2>1, <3>1, <3>2 DEF IsLeast
  <2>2. CASE l # n
    <3>1. PICK c \in Children(n) : l \in Below[c]
      BY <2>2, TreeFacts
    <3>2. child[c][1].dt <= limit[l]
      BY <1>3, <3>1 DEF IInv, LimitInv, Ready
    <3>3. child[c][1] \in Heads(n)
      BY <1>5 DEF Heads
    <3>4. v.dt <= child[c][1].dt
      BY <1>7, <3>3 DEF IsLeast
    <3>5. v.dt \in Int /\ child[c][1].dt \in Int /\ limit[l] \in Int
      BY <1>5, <1>6, TreeFacts DEF Val, TypeOK
    <3> QED
      BY <3>2, <3>4, <3>5
  <2> QED
    BY <2>1, <2>2
<1> QED
  BY <1>1, <1>2, <1>3, <1>6, <1>7

(* What taking one value from each child leaves in the channels.           *)
LEMMA TakeHeadsFacts ==
  ASSUME TypeOK, IInv, NEW n \in Node, Ready(n), TakeHeads(n), pc' = pc, step' = step
  PROVE  /\ ~pending'[n] /\ own'[n] = <<>>
         /\ \A m \in Node : m # n => pending'[m] = pending[m] /\ own'[m] = own[m]
         /\ \A c \in Children(n) : child'[c] = <<>>
         /\ \A c \in Node : c \notin Children(n) => child'[c] = child[c]
         /\ Descents(n)' = Descents(n) + 1
         /\ \A m \in Node : m # n => Descents(m)' = Descents(m)
<1>1. Tail(own[n]) = <<>> /\ \A c \in Children(n) : Tail(child[c]) = <<>>
  <2>1. own[n] \in Seq(Val) /\ Len(own[n]) = 1
    BY ReadyFacts DEF TypeOK, Holds
  <2>2. \A c \in Children(n) : child[c] \in Seq(Val) /\ Len(child[c]) = 1
    BY ReadyFacts DEF TypeOK, Holds
  <2> QED
    BY <2>1, <2>2, OneValue
<1>2. /\ ~pending'[n] /\ own'[n] = <<>>
      /\ \A m \in Node : m # n => pending'[m] = pending[m] /\ own'[m] = own[m]
  BY <1>1 DEF TypeOK, TakeHeads
<1>3. /\ \A c \in Children(n) : child'[c] = <<>>
      /\ \A c \in Node : c \notin Children(n) => child'[c] = child[c]
  BY <1>1, TreeFacts DEF TakeHeads
<1>4. Descents(n)' = Descents(n) + 1
  BY <1>2, ReadyFacts DEF Descents
<1>5. \A m \in Node : m # n => Descents(m)' = Descents(m)
  BY <1>2 DEF Descents
<1> QED
  BY <1>2, <1>3, <1>4, <1>5

(* A descent keeps the order of the wave: all nodes below have descended.  *)
LEMMA WaveStep ==
  ASSUME TypeOK, IInv, NEW n \in Node, Ready(n), TakeHeads(n), pc' = pc, step' = step
  PROVE  /\ \A m \in Node : \A d \in Below[m] : Descents(m)' <= Descents(d)'
         /\ \A d \in Below[n] : d # n => Descents(d) >= Descents(n) + 1
<1>1. \A m \in Node : Descents(m) \in Nat
  BY Consequences
<1>2. ASSUME NEW d \in Below[n], d # n PROVE Descents(d) >= Descents(n) + 1
  <2>1. PICK c \in Children(n) : d \in Below[c]
    BY <1>2, TreeFacts
  <2>2. Descents(c) = Descents(n) + 1 /\ c \in Node
    BY ReadyFacts
  <2>3. Descents(c) <= Descents(d)
    BY <2>1, <2>2 DEF IInv, WaveInv
  <2> QED
    BY <2>2, <2>3
<1>3. ASSUME NEW m \in Node, NEW d \in Below[m]
      PROVE  Descents(m)' <= Descents(d)'
  <2>1. d \in Node
    BY TreeFacts
  <2>2. Descents(m) <= Descents(d)
    BY DEF IInv, WaveInv
  <2>3. CASE m = n /\ d # n
    BY <1>1, <1>2, <2>1, <2>3, TakeHeadsFacts
  <2>4. CASE m # n \/ d = n
    BY <1>1, <2>1, <2>2, <2>4, TakeHeadsFacts
  <2> QED
    BY <2>3, <2>4
<1> QED
  BY <1>2, <1>3

(* An inner node passes the least of its children's values up.             *)
LEMMA DescendInv ==
  ASSUME TypeOK, IInv, NEW n \in Node \ {Root}, Descend(n) PROVE IInv'
<1> Ready(n) /\ TakeHeads(n) /\ pc' = pc /\ step' = step
  BY DEF Descend
<1>1. PICK v \in Heads(n) : /\ IsLeast(v, Heads(n))
                            /\ up' = [up EXCEPT ![n] = @ \cup {v}]
  BY DEF Descend
<1>2. GoalInv' /\ IdleInv' /\ CflRespected'
  BY DEF IInv, GoalInv, IdleInv, CflRespected, Descend
<1>3. OwnInv'
  <2>1. \A m \in Node : m # n => pending'[m] = pending[m] /\ own'[m] = own[m]
    BY TakeHeadsFacts
  <2>2. ~pending'[n] /\ own'[n] = <<>> /\ pc[n] = "wait"
    BY TakeHeadsFacts, ReadyFacts
  <2> QED
    BY <2>1, <2>2 DEF IInv, OwnInv, Holds
<1>4. /\ Descents(n) = Descents(Parent[n]) /\ up[n] = {} /\ child[n] = <<>>
      /\ Parent[n] # n
  <2>1. Descents(n) <= Descents(Parent[n])
    BY ReadyFacts, Consequences, RootIsNode
  <2>2. /\ Descents(n) = Descents(Parent[n]) /\ up[n] = {} /\ child[n] = <<>>
    BY <2>1, Consequences, RootIsNode DEF IInv, UpInv
  <2>3. Parent[n] # n
    BY <2>2, TreeFacts DEF Ready
  <2> QED
    BY <2>2, <2>3
<1>5. /\ up'[n] = {v} /\ v.step = Descents(Parent[n])
      /\ \A m \in Node : m # n => up'[m] = up[m]
  BY <1>1, <1>4, ReadyFacts DEF TypeOK
<1>6. UpInv'
  <2>1. up'[Root] = {} /\ child'[Root] = <<>>
    BY <1>5, TakeHeadsFacts, ReadyFacts, RootIsNode DEF IInv, UpInv
  <2>2. ASSUME NEW c \in Node \ {Root}, Parent[c] = n
        PROVE  /\ Descents(c)' = Descents(Parent[c])'
               /\ up'[c] = {} /\ child'[c] = <<>>
    <3>1. c \in Children(n)
      BY <2>2, TreeFacts
    <3> QED
      BY <1>5, <2>2, <3>1, TakeHeadsFacts, ReadyFacts
  <2>3. /\ Descents(n)' = Descents(Parent[n])' + 1
        /\ child'[n] = <<>> /\ up'[n] = {v} /\ v.step = Descents(Parent[n])'
    <3>1. n \notin Children(n)
      BY ReadyFacts
    <3> QED
      BY <1>4, <1>5, <3>1, TakeHeadsFacts, RootIsNode
  <2>4. ASSUME NEW c \in Node \ {Root}, Parent[c] # n, c # n
        PROVE  /\ Descents(c)' = Descents(c)
               /\ Descents(Parent[c])' = Descents(Parent[c])
               /\ up'[c] = up[c] /\ child'[c] = child[c]
    <3>1. c \notin Children(n)
      BY <2>4, TreeFacts
    <3> QED
      BY <1>5, <2>4, <3>1, TakeHeadsFacts, RootIsNode
  <2> QED
    BY <2>1, <2>2, <2>3, <2>4 DEF IInv, UpInv, Holds
<1>7. WaveInv'
  BY WaveStep, TakeHeadsFacts, RootIsNode DEF IInv, WaveInv, Descend, A
<1>8. DownInv' /\ ClockInv'
  BY DEF IInv, DownInv, ClockInv, Unseen, Descend, A, Holds
<1>9. LimitInv'
  <2>1. \A l \in Leaf : l \in Node
    BY DEF Leaf
  <2>2. \A l \in Leaf : own'[l] # <<>> => own'[l][1].dt = limit[l]
    BY <2>1, TakeHeadsFacts DEF IInv, LimitInv
  <2>3. \A c \in Node \ {Root} : \A l \in Leaf \cap Below[c] :
          /\ child'[c] # <<>> => child'[c][1].dt <= limit[l]
          /\ \A w \in up'[c] : w.dt <= limit[l]
    BY <1>1, <1>5, TakeHeadsFacts, ReadyFacts DEF IInv, LimitInv
  <2> QED
    BY <2>2, <2>3 DEF IInv, LimitInv, Descend, A
<1> QED
  BY <1>2, <1>3, <1>6, <1>7, <1>8, <1>9 DEF IInv

(* When the root descends, every node has posted for this step and none    *)
(* has still to take an older one: the agreement is a barrier.             *)
LEMMA DescendRootFacts ==
  ASSUME TypeOK, IInv, Ready(Root)
  PROVE  \A n \in Node : /\ step[n] = A /\ pc[n] = "wait"
                         /\ n # Root => ~pending[n]
                         /\ global[n] = <<>> /\ down[n] = {}
<1>1. A \in Nat /\ pc[Root] = "wait" /\ step[Root] = A /\ Descents(Root) = A
  BY ReadyFacts, RootIsNode
<1>2. ASSUME NEW n \in Node, n # Root
      PROVE  step[n] = A /\ pc[n] = "wait" /\ ~pending[n]
  <2>1. PICK c \in Children(Root) : n \in Below[c]
    BY <1>2, TreeFacts, RootIsNode
  <2>2. c \in Node /\ Descents(c) = A + 1
    BY <1>1, ReadyFacts, RootIsNode
  <2>3. Descents(n) >= A + 1
    BY <2>1, <2>2 DEF IInv, WaveInv
  <2> QED
    BY <1>1, <2>3, Consequences
<1>3. \A n \in Node : step[n] = A /\ pc[n] = "wait"
  BY <1>1, <1>2
<1>4. \A n \in Node : global[n] = <<>> /\ down[n] = {}
  BY <1>1, <1>3 DEF IInv, DownInv, Unseen
<1> QED
  BY <1>2, <1>3, <1>4

(* The root finds the least value and passes it down.                      *)
LEMMA DescendRootInv ==
  ASSUME TypeOK, TypeOK', IInv, DescendRoot PROVE IInv'
<1> USE RootIsNode
<1> Ready(Root) /\ TakeHeads(Root) /\ pc' = pc /\ step' = step
  BY DEF DescendRoot
<1>1. PICK v \in Heads(Root) : /\ IsLeast(v, Heads(Root))
                               /\ Forward(Root, v, down)
                               /\ agreed' = Append(agreed, v.dt)
  BY DEF DescendRoot
<1>2. GoalInv' /\ IdleInv' /\ CflRespected'
  BY DEF IInv, GoalInv, IdleInv, CflRespected, DescendRoot
<1>3. OwnInv'
  <2>1. \A m \in Node : m # Root => pending'[m] = pending[m] /\ own'[m] = own[m]
    BY TakeHeadsFacts
  <2>2. ~pending'[Root] /\ own'[Root] = <<>> /\ pc[Root] = "wait"
    BY TakeHeadsFacts, ReadyFacts
  <2> QED
    BY <2>1, <2>2 DEF IInv, OwnInv, Holds
<1>4. A \in Nat /\ A' = A + 1 /\ agreed'[A'] = v.dt /\ v \in Val /\ v.step = A
  <2>1. v \in Val /\ v.step = A /\ A \in Nat
    BY ReadyFacts
  <2> QED
    BY <1>1, <2>1, AppendProperties DEF TypeOK, Val, A
<1>5. UpInv'
  <2>1. up' = up /\ child'[Root] = <<>>
    BY TakeHeadsFacts, ReadyFacts DEF DescendRoot, IInv, UpInv
  <2>2. ASSUME NEW c \in Node \ {Root}, Parent[c] = Root
        PROVE  /\ Descents(c)' = Descents(Parent[c])'
               /\ up'[c] = {} /\ child'[c] = <<>>
    <3>1. c \in Children(Root)
      BY <2>2, TreeFacts
    <3> QED
      BY <2>1, <2>2, <3>1, TakeHeadsFacts, ReadyFacts
  <2>3. ASSUME NEW c \in Node \ {Root}, Parent[c] # Root
        PROVE  /\ Descents(c)' = Descents(c)
               /\ Descents(Parent[c])' = Descents(Parent[c])
               /\ up'[c] = up[c] /\ child'[c] = child[c]
    <3>1. c \notin Children(Root)
      BY <2>3, TreeFacts
    <3> QED
      BY <2>1, <2>3, <3>1, TakeHeadsFacts
  <2> QED
    BY <2>1, <2>2, <2>3 DEF IInv, UpInv, Holds
<1>6. WaveInv'
  BY <1>4, WaveStep, TakeHeadsFacts, ReadyFacts DEF WaveInv
<1>7. /\ Len(global'[Root]) = 1 /\ global'[Root][1] = v /\ global'[Root] # <<>>
      /\ \A n \in Node : n # Root => global'[n] = <<>>
      /\ \A n \in Node : down'[n] = IF n \in Children(Root) THEN {v} ELSE {}
  <2>1. \A n \in Node : global[n] = <<>> /\ down[n] = {}
    BY DescendRootFacts
  <2>2. global' = [global EXCEPT ![Root] = Append(<<>>, v)]
    BY <1>1, <2>1 DEF Forward
  <2>3. \A n \in Node : global'[n] = IF n = Root THEN Append(<<>>, v) ELSE <<>>
    BY <2>1, <2>2 DEF TypeOK
  <2>4. Len(global'[Root]) = 1 /\ global'[Root][1] = v /\ global'[Root] # <<>>
    BY <1>4, <2>3, AppendToEmpty
  <2>5. \A n \in Node : down'[n] = IF n \in Children(Root) THEN {v} ELSE {}
    BY <1>1, <2>1 DEF Forward
  <2> QED
    BY <2>3, <2>4, <2>5
<1>8. \A n \in Node : step'[n] = A /\ step'[n] \in Nat
  BY DescendRootFacts, Consequences
<1>9. \A n \in Node : Unseen(n)' <=> n # Root
  BY <1>4, <1>7, <1>8 DEF Unseen
<1>10. DownInv'
  <2>1. \A n \in Node :
          /\ step'[n] <= A'
          /\ global'[n] # <<>> => /\ step'[n] + 1 = A'
                                  /\ Len(global'[n]) = 1
                                  /\ global'[n][1].step = step'[n]
                                  /\ global'[n][1].dt = agreed'[A']
    BY <1>4, <1>7, <1>8
  <2>2. \A n \in Node : n \in Children(Root) => n # Root
    BY TreeFacts
  <2>3. \A n \in Node : \A w \in down'[n] :
          down'[n] = {w} /\ w.step = step'[n] /\ w.dt = agreed'[A'] /\ Unseen(n)'
    BY <1>4, <1>7, <1>8, <1>9, <2>2
  <2>4. \A c \in Node \ {Root} :
          Unseen(Parent[c])' => Unseen(c)' /\ down'[c] = {}
    <3> SUFFICES ASSUME NEW c \in Node \ {Root}, Parent[c] # Root
                 PROVE  Unseen(c)' /\ down'[c] = {}
      BY <1>9
    <3>1. c \notin Children(Root)
      BY TreeFacts
    <3> QED
      BY <1>7, <1>9, <3>1
  <2>5. down'[Root] = {} /\ ~Unseen(Root)'
    BY <1>7, <1>9, <2>2
  <2> QED
    BY <2>1, <2>3, <2>4, <2>5 DEF DownInv, Holds
<1>11. ClockInv'
  <2>1. \A m, n \in Node : step[m] = step[n] /\ time[m] = time[n]
    BY DescendRootFacts DEF IInv, ClockInv
  <2>2. time' = time
    BY DEF DescendRoot
  <2> QED
    BY <1>4, <1>8, <2>1, <2>2 DEF ClockInv
<1>12. LimitInv'
  <2>1. \A l \in Leaf : l \in Node /\ l \in Below[Root]
    BY TreeFacts DEF Leaf
  <2>2. \A l \in Leaf : own'[l] # <<>> => own'[l][1].dt = limit[l]
    BY <2>1, TakeHeadsFacts DEF IInv, LimitInv
  <2>3. \A c \in Node \ {Root} : \A l \in Leaf \cap Below[c] :
          /\ child'[c] # <<>> => child'[c][1].dt <= limit[l]
          /\ \A w \in up[c] : w.dt <= limit[l]
    BY TakeHeadsFacts DEF IInv, LimitInv
  <2>4. \A l \in Leaf : agreed'[A'] <= limit[l]
    BY <1>1, <1>4, <2>1, ReadyFacts
  <2> QED
    BY <2>2, <2>3, <2>4 DEF LimitInv, DescendRoot
<1> QED
  BY <1>2, <1>3, <1>5, <1>6, <1>10, <1>11, <1>12 DEF IInv

(* A refined node passes the agreed timestep down.                         *)
LEMMA AscendInv ==
  ASSUME TypeOK, IInv, NEW c \in Node \ {Root}, Ascend(c) PROVE IInv'
<1>1. PICK v \in down[c] : Forward(c, v, [down EXCEPT ![c] = @ \ {v}])
  BY DEF Ascend
<1>2. /\ down[c] = {v} /\ v.step = step[c] /\ v.dt = agreed[A] /\ Unseen(c)
      /\ global[c] = <<>> /\ step[c] + 1 = A /\ step[c] \in Nat /\ A \in Nat
  <2>1. down[c] = {v} /\ v.step = step[c] /\ v.dt = agreed[A] /\ Unseen(c)
    BY DEF IInv, DownInv
  <2> QED
    BY <2>1, Consequences DEF Unseen
<1>3. ASSUME NEW d \in Children(c)
      PROVE  /\ d \in Node \ {Root} /\ d # c /\ Parent[d] = c
             /\ Unseen(d) /\ down[d] = {} /\ step[d] = step[c]
  <2>1. d \in Node \ {Root} /\ Parent[d] = c
    BY TreeFacts
  <2>2. Unseen(d) /\ down[d] = {}
    BY <1>2, <2>1 DEF IInv, DownInv
  <2>3. step[d] = step[c]
    BY <1>2, <2>1, <2>2, Consequences DEF Unseen
  <2> QED
    BY <1>2, <2>1, <2>2, <2>3
<1>4. /\ Len(global'[c]) = 1 /\ global'[c][1] = v /\ global'[c] # <<>>
      /\ \A m \in Node : m # c => global'[m] = global[m]
  BY <1>1, <1>2, AppendToEmpty DEF TypeOK, Forward
<1>5. /\ down'[c] = {}
      /\ \A d \in Children(c) : down'[d] = {v}
      /\ \A m \in Node : m # c /\ m \notin Children(c) => down'[m] = down[m]
  <2>1. \A m \in Node : down'[m] = IF m \in Children(c)
                                     THEN [down EXCEPT ![c] = @ \ {v}][m] \cup {v}
                                     ELSE [down EXCEPT ![c] = @ \ {v}][m]
    BY <1>1 DEF Forward
  <2>2. c \notin Children(c) /\ \A d \in Children(c) : d \in Node /\ d # c
    BY <1>3 DEF Children, ChildNodes
  <2>3. \A m \in Node : [down EXCEPT ![c] = @ \ {v}][m] = IF m = c THEN {} ELSE down[m]
    BY <1>2 DEF TypeOK
  <2>4. \A d \in Children(c) : down[d] = {}
    BY <1>2, <1>3
  <2> QED
    BY <2>1, <2>2, <2>3, <2>4
<1>6. \A m \in Node : Descents(m)' = Descents(m)
  BY DEF Ascend, Descents
<1>7. A' = A /\ agreed' = agreed /\ step' = step
  BY DEF Ascend, A
<1>8. \A m \in Node : Unseen(m)' <=> Unseen(m) /\ m # c
  BY <1>4, <1>7 DEF Unseen
<1>9. GoalInv' /\ IdleInv' /\ OwnInv' /\ CflRespected'
  BY DEF IInv, GoalInv, IdleInv, OwnInv, CflRespected, Ascend, Holds
<1>10. UpInv' /\ WaveInv'
  <2>1. UpInv'
    BY <1>6, RootIsNode DEF IInv, UpInv, Ascend, Holds
  <2>2. WaveInv'
    BY <1>6, <1>7, TreeFacts, RootIsNode DEF IInv, WaveInv
  <2> QED
    BY <2>1, <2>2
<1>11. DownInv'
  <2>1. \A n \in Node :
          /\ step'[n] <= A'
          /\ global'[n] # <<>> => /\ step'[n] + 1 = A'
                                  /\ Len(global'[n]) = 1
                                  /\ global'[n][1].step = step'[n]
                                  /\ global'[n][1].dt = agreed'[A']
    BY <1>2, <1>4, <1>7 DEF IInv, DownInv, Holds
  <2>2. ASSUME NEW n \in Node, NEW w \in down'[n]
        PROVE  down'[n] = {w} /\ w.step = step'[n] /\ w.dt = agreed'[A'] /\ Unseen(n)'
    <3>1. CASE n \in Children(c)
      BY <1>2, <1>3, <1>5, <1>7, <1>8, <3>1
    <3>2. CASE n \notin Children(c)
      <4>1. n # c /\ down'[n] = down[n]
        BY <1>5, <3>2
      <4> QED
        BY <1>7, <1>8, <4>1 DEF IInv, DownInv
    <3> QED
      BY <3>1, <3>2
  <2>3. ASSUME NEW d \in Node \ {Root}, Unseen(Parent[d])'
        PROVE  Unseen(d)' /\ down'[d] = {}
    <3>1. Unseen(Parent[d]) /\ Parent[d] # c
      BY <1>8, <2>3, RootIsNode
    <3>2. Unseen(d) /\ down[d] = {}
      BY <3>1 DEF IInv, DownInv
    <3>3. d # c /\ d \notin Children(c)
      BY <1>2, <3>1, <3>2, TreeFacts
    <3> QED
      BY <1>5, <1>8, <3>2, <3>3
  <2>4. down'[Root] = {} /\ ~Unseen(Root)'
    <3>1. Root \notin Children(c)
      BY TreeFacts
    <3> QED
      BY <1>5, <1>8, <3>1, RootIsNode DEF IInv, DownInv
  <2> QED
    BY <2>1, <2>2, <2>3, <2>4 DEF DownInv, Holds
<1>12. ClockInv' /\ LimitInv'
  BY <1>7 DEF IInv, ClockInv, LimitInv, Ascend
<1> QED
  BY <1>9, <1>10, <1>11, <1>12 DEF IInv

-----------------------------------------------------------------------------
(* No step has begun and no channel holds anything.                        *)
LEMMA InitInv == Init => IInv
<1> SUFFICES ASSUME Init PROVE IInv
  OBVIOUS
<1>1. A = 0 /\ \A n \in Node : Descents(n) = 0
  BY DEF Init, A, Descents
<1>2. GoalInv /\ OwnInv /\ CflRespected
  BY DEF Init, GoalInv, OwnInv, CflRespected, Leaf
<1>3. IdleInv
  BY TreeFacts DEF Init, IdleInv
<1>4. UpInv
  BY <1>1, RootIsNode DEF Init, UpInv
<1>5. WaveInv
  BY <1>1, TreeFacts, RootIsNode DEF WaveInv
<1>6. DownInv
  BY <1>1, RootIsNode DEF Init, DownInv, Unseen
<1>7. ClockInv
  BY DEF Init, ClockInv
<1>8. LimitInv
  <2>1. \A l \in Leaf : l \in Node
    BY DEF Leaf
  <2> QED
    BY <1>1, <2>1 DEF Init, LimitInv
<1> QED
  BY <1>2, <1>3, <1>4, <1>5, <1>6, <1>7, <1>8 DEF IInv

(* A step that changes nothing.                                            *)
LEMMA StutterInv ==
  ASSUME IInv, UNCHANGED vars PROVE IInv'
<1>1. GoalInv' /\ IdleInv' /\ OwnInv' /\ CflRespected'
  BY DEF IInv, GoalInv, IdleInv, OwnInv, CflRespected, vars, Holds
<1>2. UpInv' /\ WaveInv' /\ DownInv' /\ ClockInv'
  <2>1. \A n \in Node : Descents(n)' = Descents(n)
    BY DEF vars, Descents
  <2> QED
    BY <2>1, Frame DEF vars
<1>3. LimitInv'
  BY LimitFrame DEF vars
<1> QED
  BY <1>1, <1>2, <1>3 DEF IInv

(* Every action keeps the strengthened invariant.                          *)
LEMMA Inductive == TypeOK /\ IInv /\ [Next]_vars => IInv'
<1> SUFFICES ASSUME TypeOK, IInv, [Next]_vars PROVE IInv'
  OBVIOUS
<1>1. TypeOK'
  BY TypeStep
<1>2. CASE StartChunk
  BY <1>2, StartChunkInv
<1>3. CASE DescendRoot
  BY <1>1, <1>3, DescendRootInv
<1>4. ASSUME NEW n \in Node \ {Root},
             StartChild(n) \/ Descend(n) \/ SetLocal(n) \/ Ascend(n)
      PROVE  IInv'
  BY <1>4, StartChildInv, DescendInv, SetLocalInv, AscendInv
<1>5. ASSUME NEW n \in Leaf, PostLeaf(n) PROVE IInv'
  BY <1>5, PostLeafInv
<1>6. ASSUME NEW n \in Node \ Leaf, PostRefined(n) PROVE IInv'
  BY <1>6, PostRefinedInv
<1>7. ASSUME NEW n \in Node, BeginStep(n) \/ Update(n) \/ EndStep(n) \/ Return(n)
      PROVE  IInv'
  BY <1>1, <1>7, BeginStepInv, UpdateInv, EndStepInv, ReturnInv
<1>8. CASE UNCHANGED vars
  BY <1>8, StutterInv
<1> QED
  BY <1>2, <1>3, <1>4, <1>5, <1>6, <1>7, <1>8 DEF Next

(* Every variable keeps its type and the strengthened invariant holds in   *)
(* every state: the induction the theorems below rest on.                  *)
THEOREM Invariance == Spec => [](TypeOK /\ IInv)
<1>1. Init => TypeOK /\ IInv
  BY InitInv DEF Init, TypeOK, PC
<1>2. TypeOK /\ IInv /\ [Next]_vars => (TypeOK /\ IInv)'
  BY TypeStep, Inductive
<1> QED
  BY <1>1, <1>2, PTL DEF Spec

(* In every tree, under every delay and reordering of set_local_timestep   *)
(* and timestep_driver_ascend, the channels that number values by arrival  *)
(* never hold a value for another step or a second one.                    *)
THEOREM ChannelsStayInStep == Spec => []ChannelsInStep
<1>1. TypeOK /\ IInv => ChannelsInStep
  <2> SUFFICES ASSUME TypeOK, IInv, NEW n \in Node
               PROVE  /\ \A q \in {own[n]} \cup {child[c] : c \in Children(n)} :
                           q # <<>> => Len(q) = 1 /\ q[1].step = Descents(n)
                      /\ global[n] # <<>> => /\ Len(global[n]) = 1
                                             /\ global[n][1].step = step[n]
    BY DEF ChannelsInStep
  <2>1. own[n] # <<>> => Len(own[n]) = 1 /\ own[n][1].step = Descents(n)
    BY Consequences DEF IInv, OwnInv, Holds
  <2>2. \A c \in Children(n) :
          child[c] # <<>> => Len(child[c]) = 1 /\ child[c][1].step = Descents(n)
    BY TreeFacts DEF IInv, UpInv, Holds
  <2>3. global[n] # <<>> => Len(global[n]) = 1 /\ global[n][1].step = step[n]
    BY DEF IInv, DownInv, Holds
  <2> QED
    BY <2>1, <2>2, <2>3
<1> QED
  BY <1>1, Invariance, PTL

(* Any two nodes that have completed equally many steps are at the same    *)
(* simulated time.                                                         *)
THEOREM ClocksAgree == Spec => []SameClock
<1>1. IInv => SameClock
  BY DEF IInv, ClockInv, SameClock
<1> QED
  BY <1>1, Invariance, PTL

(* No leaf ever advances by more than its own cells allow.                 *)
THEOREM StableTimesteps == Spec => []CflRespected
<1>1. IInv => CflRespected
  BY DEF IInv
<1> QED
  BY <1>1, Invariance, PTL

(* At every return of the root's step() the whole protocol is at rest.     *)
THEOREM QuietAtRegrid == Spec => []QuietBetweenChunks
<1>1. TypeOK /\ IInv => QuietBetweenChunks
  <2> SUFFICES ASSUME TypeOK, IInv, pc[Root] = "idle", NEW n \in Node
               PROVE  /\ pc[n] = "idle" /\ step[n] = step[Root] /\ ~pending[n]
                      /\ own[n] = <<>> /\ child[n] = <<>> /\ global[n] = <<>>
                      /\ up[n] = {} /\ down[n] = {}
    BY DEF QuietBetweenChunks
  <2>1. \A m \in Node : pc[m] = "idle" /\ goal[m] = goal[Root]
    BY TreeFacts, RootIsNode DEF IInv, IdleInv
  <2>2. \A m \in Node : step[m] = goal[m] /\ ~pending[m] /\ own[m] = <<>>
    BY <2>1 DEF IInv, GoalInv, OwnInv
  <2>3. \A m \in Node : Descents(m) = step[m] /\ step[m] = A /\ step[m] \in Nat
    BY <2>1, Consequences
  <2>4. child[n] = <<>> /\ up[n] = {}
    BY <2>3, RootIsNode DEF IInv, UpInv
  <2>5. global[n] = <<>> /\ down[n] = {}
    BY <2>3 DEF IInv, DownInv, Unseen
  <2>6. step[n] = step[Root]
    BY <2>1, <2>2, RootIsNode
  <2> QED
    BY <2>1, <2>2, <2>4, <2>5, <2>6
<1> QED
  BY <1>1, Invariance, PTL

-----------------------------------------------------------------------------
(* The agreed dt is the limit of some leaf.                                *)

(* A value stands for a leaf of the subtree, or for no leaf at all.        *)
Attained(v, n, lim) ==
  v.dt = Huge \/ \E l \in Leaf \cap Below[n] : v.dt = lim[l]

AttainInv ==
  /\ \A n \in Node : own[n] # <<>> =>
       own[n][1].dt = Huge \/ (n \in Leaf /\ own[n][1].dt = limit[n])
  /\ \A c \in Node \ {Root} :
       /\ child[c] # <<>> => Attained(child[c][1], c, limit)
       /\ \A v \in up[c] : Attained(v, c, limit)

(* There is time for the dt that is agreed and for the one that a leaf     *)
(* has posted.                                                             *)
StopInv ==
  \A n \in Node :
    /\ time[n] <= StopTime
    /\ step[n] < A => time[n] + agreed[A] <= StopTime
    /\ n \in Leaf /\ pc[n] = "wait" =>
         /\ limit[n] < Huge
         /\ step[n] = A => time[n] + limit[n] <= StopTime

MoreInv == AttainInv /\ StopInv

-----------------------------------------------------------------------------
(* Steps that move no value and post none.                                 *)
LEMMA MoreFrame ==
  ASSUME MoreInv, UNCHANGED <<step, time, limit, agreed, own, child, up>>,
         \A n \in Node : pc'[n] = "wait" => pc[n] = "wait"
  PROVE  MoreInv'
<1>1. AttainInv'
  BY DEF MoreInv, AttainInv, Attained
<1>2. StopInv'
  BY DEF MoreInv, StopInv, A
<1> QED
  BY <1>1, <1>2 DEF MoreInv

(* The cap of stop_time leaves time for what a leaf posts.                 *)
LEMMA CapHolds ==
  ASSUME TypeOK, NEW n \in Node, time[n] <= StopTime
  PROVE  time[n] + MaxDt(n) <= StopTime
<1> DEFINE k == RefFreq - (step[n] % RefFreq)
           left == StopTime - time[n]
<1>1. k \in Nat \ {0}
  BY DtAssumption DEF TypeOK
<1>2. left \in Nat /\ time[n] \in Int /\ StopTime \in Nat
  BY DtAssumption DEF TypeOK
<1>3. left \div k <= left /\ left \div k \in Int
  <2> HIDE DEF k, left
  <2> QED
    BY <1>1, <1>2
<1> QED
  BY <1>2, <1>3 DEF MaxDt

(* A leaf that posts its limit: no value that counts a former one is under *)
(* way from the nodes above it.                                            *)
LEMMA PostLeafMore ==
  ASSUME TypeOK, IInv, MoreInv, NEW l \in Leaf, PostLeaf(l) PROVE MoreInv'
<1>0. l \in Node /\ l \in Below[l] /\ \A m \in Leaf : m \in Node
  BY TreeFacts DEF Leaf
<1>1. own[l] = <<>> /\ step[l] = A /\ Descents(l) = A /\ A \in Nat
  BY <1>0, Consequences DEF IInv, OwnInv, PostLeaf
<1>2. PICK cfl \in Cfl :
        LET d == Smaller(cfl, MaxDt(l)) IN
          /\ limit' = [limit EXCEPT ![l] = d]
          /\ own' = [own EXCEPT ![l] = Append(@, [dt |-> d, step |-> step[l]])]
  BY DEF PostLeaf
<1> DEFINE d == Smaller(cfl, MaxDt(l))
<1>3. d \in Int /\ d < Huge /\ d <= MaxDt(l)
  BY <1>0, MaxDtType, DtAssumption DEF Smaller
<1> HIDE DEF d
<1>4. /\ limit'[l] = d /\ own'[l][1].dt = d
      /\ \A m \in Node : m # l => limit'[m] = limit[m] /\ own'[m] = own[m]
  <2>1. limit' = [limit EXCEPT ![l] = d]
        /\ own' = [own EXCEPT ![l] = Append(@, [dt |-> d, step |-> step[l]])]
    BY <1>2 DEF d
  <2>2. [dt |-> d, step |-> step[l]] \in Val
    BY <1>0, <1>3 DEF TypeOK, Val
  <2> QED
    BY <1>0, <1>1, <2>1, <2>2, AppendToEmpty DEF TypeOK
<1>5. /\ child' = child /\ up' = up /\ step' = step /\ time' = time
      /\ agreed' = agreed /\ A' = A
      /\ \A m \in Node : m # l => pc'[m] = pc[m]
  BY <1>0 DEF TypeOK, PostLeaf, A
<1>6. ASSUME NEW c \in Node \ {Root}, l \in Below[c]
      PROVE  child[c] = <<>> /\ up[c] = {}
  <2>1. Descents(c) <= A /\ Descents(c) >= A /\ Descents(Parent[c]) >= A
    BY <1>1, <1>6, RootIsNode, Consequences DEF IInv, WaveInv
  <2>2. Descents(c) \in Nat /\ Descents(Parent[c]) \in Nat
    BY RootIsNode, Consequences
  <2>3. Descents(c) # Descents(Parent[c]) + 1
    BY <1>1, <2>1, <2>2
  <2> QED
    BY <2>3 DEF IInv, UpInv
<1>7. ASSUME NEW m \in Node, NEW v, Attained(v, m, limit), l \notin Below[m]
      PROVE  Attained(v, m, limit')
  BY <1>0, <1>4, <1>7 DEF Attained
<1>8. AttainInv'
  <2>1. \A m \in Node : own'[m] # <<>> =>
          own'[m][1].dt = Huge \/ (m \in Leaf /\ own'[m][1].dt = limit'[m])
    BY <1>0, <1>4 DEF MoreInv, AttainInv
  <2>2. ASSUME NEW c \in Node \ {Root}
        PROVE  /\ child'[c] # <<>> => Attained(child'[c][1], c, limit')
               /\ \A v \in up'[c] : Attained(v, c, limit')
    <3>1. CASE l \in Below[c]
      BY <1>5, <1>6, <3>1
    <3>2. CASE l \notin Below[c]
      <4>1. child[c] # <<>> => Attained(child[c][1], c, limit')
        BY <1>7, <3>2 DEF MoreInv, AttainInv
      <4>2. \A v \in up[c] : Attained(v, c, limit')
        BY <1>7, <3>2 DEF MoreInv, AttainInv
      <4> QED
        BY <1>5, <4>1, <4>2
    <3> QED
      BY <3>1, <3>2
  <2> QED
    BY <1>5, <2>1, <2>2 DEF AttainInv, Attained
<1>9. StopInv'
  <2>1. time[l] + d <= StopTime
    <3>1. time[l] + MaxDt(l) <= StopTime /\ MaxDt(l) \in Int /\ time[l] \in Int
      BY <1>0, CapHolds, MaxDtType DEF MoreInv, StopInv, TypeOK
    <3> QED
      BY <1>3, <3>1, DtAssumption
  <2> QED
    BY <1>0, <1>1, <1>3, <1>4, <1>5, <2>1 DEF MoreInv, StopInv
<1> QED
  BY <1>8, <1>9 DEF MoreInv

(* What a refined node posts for itself counts no leaf.                    *)
LEMMA PostRefinedMore ==
  ASSUME TypeOK, IInv, MoreInv, NEW n \in Node \ Leaf, PostRefined(n)
  PROVE  MoreInv'
<1>1. own[n] = <<>>
  BY DEF IInv, OwnInv, PostRefined
<1>2. own'[n][1].dt = Huge /\ \A m \in Node : m # n => own'[m] = own[m]
  <2>1. [dt |-> Huge, step |-> step[n]] \in Val
    BY DtAssumption DEF TypeOK, Val
  <2> QED
    BY <1>1, <2>1, AppendToEmpty DEF TypeOK, PostRefined
<1>3. AttainInv'
  BY <1>2 DEF MoreInv, AttainInv, Attained, PostRefined
<1>4. \A l \in Leaf : pc'[l] = pc[l]
  BY DEF TypeOK, PostRefined, Leaf
<1>5. StopInv'
  BY <1>4 DEF MoreInv, StopInv, PostRefined, A
<1> QED
  BY <1>3, <1>5 DEF MoreInv

(* A call that arrives keeps its value.                                    *)
LEMMA SetLocalMore ==
  ASSUME TypeOK, IInv, MoreInv, NEW c \in Node \ {Root}, SetLocal(c)
  PROVE  MoreInv'
<1>1. PICK v \in up[c] : /\ up' = [up EXCEPT ![c] = @ \ {v}]
                         /\ child' = [child EXCEPT ![c] = Append(@, v)]
  BY DEF SetLocal
<1>2. child[c] = <<>> /\ v \in Val /\ Attained(v, c, limit)
  BY <1>1 DEF IInv, UpInv, TypeOK, MoreInv, AttainInv
<1>3. /\ child'[c][1] = v /\ up'[c] \subseteq up[c]
      /\ \A m \in Node : m # c => up'[m] = up[m] /\ child'[m] = child[m]
  BY <1>1, <1>2, AppendToEmpty DEF TypeOK
<1>4. AttainInv'
  BY <1>2, <1>3 DEF MoreInv, AttainInv, Attained, SetLocal
<1>5. StopInv'
  BY DEF MoreInv, StopInv, SetLocal, A
<1> QED
  BY <1>4, <1>5 DEF MoreInv

(* Every value that a descent compares stands for a leaf below, or none.   *)
LEMMA HeadsAttained ==
  ASSUME TypeOK, IInv, MoreInv, NEW n \in Node, Ready(n), NEW v \in Heads(n)
  PROVE  Attained(v, n, limit)
<1>1. CASE v = Head(own[n])
  <2>1. v = own[n][1] /\ own[n] # <<>>
    BY <1>1, ReadyFacts, OneValue DEF TypeOK, Holds
  <2> QED
    BY <2>1, TreeFacts DEF MoreInv, AttainInv, Attained
<1>2. ASSUME NEW c \in Children(n), v = Head(child[c])
      PROVE  Attained(v, n, limit)
  <2>1. c \in Node \ {Root} /\ Holds(child[c], step[n])
    BY ReadyFacts
  <2>2. v = child[c][1] /\ child[c] # <<>>
    BY <1>2, <2>1, OneValue DEF TypeOK, Holds
  <2>3. Attained(v, c, limit)
    BY <2>1, <2>2 DEF MoreInv, AttainInv
  <2> QED
    BY <2>3, TreeFacts DEF Attained
<1> QED
  BY <1>1, <1>2 DEF Heads

(* The least of the children's values goes up.                             *)
LEMMA DescendMore ==
  ASSUME TypeOK, IInv, MoreInv, NEW n \in Node \ {Root}, Descend(n)
  PROVE  MoreInv'
<1> Ready(n) /\ TakeHeads(n) /\ pc' = pc /\ step' = step
  BY DEF Descend
<1>1. PICK v \in Heads(n) : up' = [up EXCEPT ![n] = @ \cup {v}]
  BY DEF Descend
<1>2. /\ up'[n] = up[n] \cup {v} /\ Attained(v, n, limit)
      /\ \A m \in Node : m # n => up'[m] = up[m]
  BY <1>1, HeadsAttained DEF TypeOK
<1>3. limit' = limit /\ time' = time /\ A' = A /\ agreed' = agreed
  BY DEF Descend, A
<1>4. \A m \in Node : own'[m] # <<>> => own'[m] = own[m]
  BY TakeHeadsFacts
<1>5. \A c \in Node : child'[c] # <<>> => child'[c] = child[c]
  BY TakeHeadsFacts
<1>6. AttainInv'
  <2>1. \A m \in Node : own'[m] # <<>> =>
          own'[m][1].dt = Huge \/ (m \in Leaf /\ own'[m][1].dt = limit'[m])
    BY <1>3, <1>4 DEF MoreInv, AttainInv
  <2>2. \A c \in Node \ {Root} :
          /\ child'[c] # <<>> => Attained(child'[c][1], c, limit)
          /\ \A w \in up'[c] : Attained(w, c, limit)
    BY <1>2, <1>5 DEF MoreInv, AttainInv
  <2> QED
    BY <1>3, <2>1, <2>2 DEF AttainInv, Attained
<1>7. StopInv'
  BY <1>3 DEF MoreInv, StopInv
<1> QED
  BY <1>6, <1>7 DEF MoreInv

(* What the root sends out is the limit of one leaf, and exceeds none.     *)
LEMMA RootChoice ==
  ASSUME TypeOK, IInv, MoreInv, Ready(Root),
         NEW v \in Heads(Root), IsLeast(v, Heads(Root))
  PROVE  \E l \in Leaf : v.dt = limit[l] /\ \A m \in Leaf : limit[l] <= limit[m]
<1>1. \A m \in Leaf : m \in Node /\ m \in Leaf \cap Below[Root]
  BY TreeFacts DEF Leaf
<1>2. \A m \in Leaf : v.dt <= limit[m]
  BY <1>1, ReadyFacts, RootIsNode
<1>3. \A m \in Leaf : limit[m] < Huge /\ limit[m] \in Int
  BY <1>1, DescendRootFacts DEF MoreInv, StopInv, TypeOK
<1>4. v.dt \in Int
  BY ReadyFacts, RootIsNode DEF Val
<1>5. v.dt # Huge
  BY <1>2, <1>3, <1>4, LeavesExist, DtAssumption
<1>6. PICK l \in Leaf \cap Below[Root] : v.dt = limit[l]
  BY <1>5, HeadsAttained, RootIsNode DEF Attained
<1> QED
  BY <1>2, <1>6

(* The agreed dt takes no node past stop_time: all are at the clock of the *)
(* leaf that posted it.                                                    *)
LEMMA DescendRootMore ==
  ASSUME TypeOK, TypeOK', IInv, MoreInv, DescendRoot
  PROVE  MoreInv'
<1> USE RootIsNode
<1> Ready(Root) /\ TakeHeads(Root) /\ pc' = pc /\ step' = step
  BY DEF DescendRoot
<1>1. PICK v \in Heads(Root) : /\ IsLeast(v, Heads(Root))
                               /\ agreed' = Append(agreed, v.dt)
  BY DEF DescendRoot
<1>2. limit' = limit /\ time' = time /\ up' = up
  BY DEF DescendRoot
<1>3. A \in Nat /\ A' = A + 1 /\ agreed'[A'] = v.dt
  <2>1. v \in Val /\ A \in Nat
    BY ReadyFacts
  <2> QED
    BY <1>1, <2>1, AppendProperties DEF TypeOK, Val, A
<1>4. AttainInv'
  <2>1. \A m \in Node : own'[m] # <<>> => own'[m] = own[m]
    BY TakeHeadsFacts
  <2>2. \A c \in Node : child'[c] # <<>> => child'[c] = child[c]
    BY TakeHeadsFacts
  <2> QED
    BY <1>2, <2>1, <2>2 DEF MoreInv, AttainInv, Attained
<1>5. StopInv'
  <2>1. PICK l \in Leaf : v.dt = limit[l]
    BY <1>1, RootChoice
  <2>2. l \in Node /\ pc[l] = "wait" /\ step[l] = A
    BY DescendRootFacts DEF Leaf
  <2>3. time[l] + limit[l] <= StopTime
    BY <2>2 DEF MoreInv, StopInv
  <2>4. \A n \in Node : step[n] = A /\ time[n] = time[l]
    BY <2>2, DescendRootFacts DEF IInv, ClockInv
  <2>5. \A n \in Node : time'[n] + agreed'[A'] <= StopTime /\ step'[n] # A'
    BY <1>2, <1>3, <2>1, <2>3, <2>4
  <2> QED
    BY <1>2, <2>5 DEF MoreInv, StopInv
<1> QED
  BY <1>4, <1>5 DEF MoreInv

(* A node that takes the agreed dt.                                        *)
LEMMA UpdateMore ==
  ASSUME TypeOK, IInv, MoreInv, NEW n \in Node, Update(n)
  PROVE  /\ MoreInv'
         /\ step[n] + 1 = A
         /\ step' = [step EXCEPT ![n] = @ + 1]
         /\ time' = [time EXCEPT ![n] = @ + agreed[step[n] + 1]]
<1>1. /\ pc[n] = "wait" /\ step[n] + 1 = A /\ Holds(global[n], step[n])
      /\ global[n][1].dt = agreed[A] /\ step[n] \in Nat /\ A \in Nat
  BY Consequences DEF IInv, DownInv, Update
<1>2. Head(global[n]) = global[n][1]
  BY <1>1, OneValue DEF TypeOK, Holds
<1>3. /\ step' = [step EXCEPT ![n] = @ + 1]
      /\ time' = [time EXCEPT ![n] = @ + agreed[step[n] + 1]]
  BY <1>1, <1>2 DEF Update
<1>4. step'[n] = A /\ pc'[n] = "join" /\ time'[n] = time[n] + agreed[A]
  BY <1>1, <1>3 DEF TypeOK, Update
<1>5. \A m \in Node : m # n => /\ step'[m] = step[m] /\ pc'[m] = pc[m]
                               /\ time'[m] = time[m]
  BY DEF TypeOK, Update
<1>6. A' = A /\ agreed' = agreed /\ limit' = limit
  BY DEF Update, A
<1>7. AttainInv'
  BY DEF MoreInv, AttainInv, Attained, Update
<1>8. StopInv'
  <2>1. time[n] + agreed[A] <= StopTime
    BY <1>1 DEF MoreInv, StopInv
  <2>2. ~(step'[n] < A') /\ pc'[n] # "wait"
    BY <1>1, <1>4, <1>6
  <2> QED
    BY <1>4, <1>5, <1>6, <2>1, <2>2 DEF MoreInv, StopInv
<1> QED
  BY <1>1, <1>3, <1>7, <1>8 DEF MoreInv

-----------------------------------------------------------------------------
(* No step has begun.                                                      *)
LEMMA InitMore == Init => MoreInv
<1> SUFFICES ASSUME Init PROVE MoreInv
  OBVIOUS
<1>1. AttainInv
  BY RootIsNode DEF Init, AttainInv
<1>2. StopInv
  BY DtAssumption DEF Init, StopInv, A
<1> QED
  BY <1>1, <1>2 DEF MoreInv

(* Every action keeps what the two theorems below need.                    *)
LEMMA MoreStep == TypeOK /\ IInv /\ MoreInv /\ [Next]_vars => MoreInv'
<1> SUFFICES ASSUME TypeOK, IInv, MoreInv, [Next]_vars PROVE MoreInv'
  OBVIOUS
<1>1. TypeOK'
  BY TypeStep
<1>2. CASE StartChunk
  BY <1>2, MoreFrame, RootIsNode DEF StartChunk, TypeOK
<1>3. CASE DescendRoot
  BY <1>1, <1>3, DescendRootMore
<1>4. ASSUME NEW n \in Node \ {Root}, StartChild(n) PROVE MoreInv'
  BY <1>4, MoreFrame DEF StartChild, TypeOK
<1>5. ASSUME NEW n \in Node \ {Root}, Ascend(n) PROVE MoreInv'
  BY <1>5, MoreFrame DEF Ascend
<1>6. ASSUME NEW n \in Node \ {Root}, Descend(n) \/ SetLocal(n) PROVE MoreInv'
  BY <1>6, DescendMore, SetLocalMore
<1>7. ASSUME NEW n \in Leaf, PostLeaf(n) PROVE MoreInv'
  BY <1>7, PostLeafMore
<1>8. ASSUME NEW n \in Node \ Leaf, PostRefined(n) PROVE MoreInv'
  BY <1>8, PostRefinedMore
<1>9. ASSUME NEW n \in Node, BeginStep(n) PROVE MoreInv'
  BY <1>9, MoreFrame DEF BeginStep, TypeOK
<1>10. ASSUME NEW n \in Node, Update(n) PROVE MoreInv'
  BY <1>10, UpdateMore
<1>11. ASSUME NEW n \in Node, EndStep(n) PROVE MoreInv'
  BY <1>11, MoreFrame DEF EndStep, TypeOK
<1>12. ASSUME NEW n \in Node, Return(n) PROVE MoreInv'
  BY <1>12, MoreFrame DEF Return, TypeOK
<1>13. CASE UNCHANGED vars
  BY <1>13, MoreFrame DEF vars
<1> QED
  BY <1>2, <1>3, <1>4, <1>5, <1>6, <1>7, <1>8, <1>9, <1>10, <1>11, <1>12,
     <1>13 DEF Next

(* In every tree and for every set of CFL limits, the cap that each leaf   *)
(* applies from its own clock keeps every node within stop_time.           *)
THEOREM NeverOvershoots == Spec => []NeverPastStopTime
<1>1. Init => MoreInv
  BY InitMore
<1>2. TypeOK /\ IInv /\ MoreInv /\ [Next]_vars => MoreInv'
  BY MoreStep
<1>3. MoreInv => NeverPastStopTime
  BY DEF MoreInv, StopInv, NeverPastStopTime
<1> QED
  BY <1>1, <1>2, <1>3, Invariance, PTL DEF Spec

-----------------------------------------------------------------------------
Posted == {l \in Leaf : pc[l] = "wait" /\ step[l] = Len(agreed)}

(* A step in which no leaf posts and no step is agreed or taken.           *)
LEMMA NothingAbstract ==
  ASSUME UNCHANGED <<step, time, limit, agreed>>,
         \A l \in Leaf : pc'[l] = "wait" <=> pc[l] = "wait"
  PROVE  UNCHANGED Abstract!vars
BY DEF Abstract!vars

(* Every step of the channels and messages is a step of LockStep, or       *)
(* leaves what LockStep sees alone.                                        *)
LEMMA AbstractStep ==
  TypeOK /\ IInv /\ MoreInv /\ [Next]_vars => [Abstract!Next]_(Abstract!vars)
<1> SUFFICES ASSUME TypeOK, IInv, MoreInv, [Next]_vars
             PROVE  [Abstract!Next]_(Abstract!vars)
  OBVIOUS
<1>0. \A l \in Leaf : l \in Node
  BY DEF Leaf
<1>1. CASE StartChunk
  BY <1>0, <1>1, NothingAbstract, RootIsNode DEF StartChunk, TypeOK
<1>2. CASE DescendRoot
  <2>1. Ready(Root)
    BY <1>2 DEF DescendRoot
  <2>2. \A n \in Node : step[n] = A /\ pc[n] = "wait"
    BY <2>1, DescendRootFacts
  <2>3. PICK v \in Heads(Root) : /\ IsLeast(v, Heads(Root))
                                 /\ agreed' = Append(agreed, v.dt)
    BY <1>2 DEF DescendRoot
  <2>4. \E l \in Leaf : /\ \A m \in Leaf : limit[l] <= limit[m]
                        /\ agreed' = Append(agreed, limit[l])
    BY <2>1, <2>3, RootChoice
  <2>5. Len(agreed') = A + 1 /\ A \in Nat
    <3>1. v.dt \in Int
      BY <2>1, ReadyFacts, RootIsNode DEF Val
    <3> QED
      BY <2>3, <3>1, AppendProperties DEF TypeOK, A
  <2>6. Posted = Leaf /\ Posted' = {}
    BY <1>0, <1>2, <2>2, <2>5 DEF Posted, A, DescendRoot
  <2>7. Abstract!Agree
    BY <1>2, <2>2, <2>4, <2>6 DEF Abstract!Agree, Posted, A, DescendRoot
  <2> QED
    BY <2>7 DEF Abstract!Next
<1>3. ASSUME NEW n \in Node \ {Root}, StartChild(n)
      PROVE  UNCHANGED Abstract!vars
  BY <1>0, <1>3, NothingAbstract DEF StartChild, TypeOK
<1>4. ASSUME NEW n \in Node \ {Root}, Descend(n) \/ SetLocal(n) \/ Ascend(n)
      PROVE  UNCHANGED Abstract!vars
  BY <1>4, NothingAbstract DEF Descend, SetLocal, Ascend
<1>5. ASSUME NEW l \in Leaf, PostLeaf(l)
      PROVE  Abstract!Post(l)
  <2>1. step[l] = A /\ pc[l] = "bounds" /\ pc'[l] = "wait"
    BY <1>0, <1>5, Consequences DEF IInv, OwnInv, PostLeaf, TypeOK
  <2>2. PICK d \in Int : limit' = [limit EXCEPT ![l] = d]
    <3>1. \A cfl \in Cfl : Smaller(cfl, MaxDt(l)) \in Int
      BY <1>0, MaxDtType, DtAssumption DEF Smaller
    <3> QED
      BY <1>5, <3>1 DEF PostLeaf
  <2>3. limit'[l] \in Int /\ limit' = [limit EXCEPT ![l] = limit'[l]]
    BY <1>0, <2>2 DEF TypeOK
  <2>4. /\ step' = step /\ time' = time /\ agreed' = agreed
        /\ \A m \in Leaf : m # l => pc'[m] = pc[m]
    BY <1>0, <1>5 DEF PostLeaf, TypeOK
  <2>5. l \notin Posted /\ Posted' = Posted \cup {l}
    BY <2>1, <2>4 DEF Posted, A
  <2> QED
    BY <2>1, <2>3, <2>4, <2>5 DEF Abstract!Post, Posted, A
<1>6. ASSUME NEW n \in Node \ Leaf, PostRefined(n)
      PROVE  UNCHANGED Abstract!vars
  BY <1>0, <1>6, NothingAbstract DEF PostRefined, TypeOK
<1>7. ASSUME NEW n \in Node, BeginStep(n) \/ EndStep(n) \/ Return(n)
      PROVE  UNCHANGED Abstract!vars
  BY <1>0, <1>7, NothingAbstract DEF BeginStep, EndStep, Return, TypeOK
<1>8. ASSUME NEW n \in Node, Update(n)
      PROVE  Abstract!Take(n)
  <2>1. /\ step[n] + 1 = A /\ step[n] \in Nat /\ A \in Nat
        /\ step' = [step EXCEPT ![n] = @ + 1]
        /\ time' = [time EXCEPT ![n] = @ + agreed[step[n] + 1]]
    BY <1>8, UpdateMore, Consequences
  <2>2. limit' = limit /\ agreed' = agreed /\ pc'[n] = "join"
        /\ \A m \in Node : m # n => pc'[m] = pc[m] /\ step'[m] = step[m]
    BY <1>8 DEF Update, TypeOK
  <2>3. Posted' = Posted
    BY <1>0, <2>1, <2>2 DEF Posted, A
  <2> QED
    BY <2>1, <2>2, <2>3 DEF Abstract!Take, Posted, A
<1>9. CASE UNCHANGED vars
  BY <1>9, NothingAbstract DEF vars
<1> QED
  BY <1>1, <1>2, <1>3, <1>4, <1>5, <1>6, <1>7, <1>8, <1>9
  DEF Next, Abstract!Next

(* The descents, the ascents and their messages, in every tree and under   *)
(* every delay, implement one agreement per step: every leaf posts, the    *)
(* smallest limit is agreed once all have, every node takes it once.       *)
THEOREM ImplementsAgreement == Spec => ImplementsLockStep
<1>1. Init => MoreInv
  BY InitMore
<1>2. TypeOK /\ IInv /\ MoreInv /\ [Next]_vars => MoreInv'
  BY MoreStep
<1>3. Init => Abstract!Init
  BY DEF Init, Abstract!Init, Leaf
<1>4. TypeOK /\ IInv /\ MoreInv /\ [Next]_vars
        => [Abstract!Next]_(Abstract!vars)
  BY AbstractStep
<1> QED
  BY <1>1, <1>2, <1>3, <1>4, Invariance, PTL
  DEF Spec, ImplementsLockStep, Abstract!Spec
=============================================================================
