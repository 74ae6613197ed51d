------------------------------ MODULE Timestep ------------------------------
(***************************************************************************)
(* How the nodes of the octree agree on the size of a timestep: the part   *)
(* of node_server::step, local_step, refined_step and nonrefined_step that *)
(* moves dt, with timestep_driver_descend / _ascend, set_local_timestep    *)
(* and the channels between them, and the loop of execute_solver that      *)
(* starts a chunk of steps on the root.                                    *)
(*                                                                         *)
(* A `channel` numbers what it stores and what it is asked for in order of *)
(* arrival: no step number travels with a value.  Here a channel is the    *)
(* queue of what is stored and not yet taken.  Messages (hpx::apply) stay  *)
(* in a set until delivered, in any order.  The field `step` of a value is *)
(* a ghost that no action reads: it lets a property say which step a value *)
(* was meant for.                                                          *)
(***************************************************************************)
EXTENDS Integers, Sequences, FiniteSets

CONSTANTS
  Node,       \* the nodes of the octree
  Root,       \* the node of level 0
  Parent,     \* the parent of each other node
  Below,      \* the nodes of the subtree under each node, itself included
  Cfl,        \* the dts that a leaf's cells may allow (cfl0 * dx / a.a)
  Huge,       \* std::numeric_limits<real>::max()
  RefFreq,    \* refinement_freq(): steps between two regrids
  StopTime,   \* opts().stop_time
  StopStep    \* opts().stop_step

ChildNodes == [n \in Node |-> {c \in Node \ {Root} : Parent[c] = n}]
Children(n) == ChildNodes[n]
Leaf == {n \in Node : Children(n) = {}}

ASSUME TreeAssumption ==
  /\ Root \in Node
  /\ Parent \in [Node \ {Root} -> Node]
  /\ Below \in [Node -> SUBSET Node]
  /\ Below[Root] = Node
  /\ \A n \in Node : Below[n] = {n} \cup UNION {Below[c] : c \in Children(n)}
  /\ \A n \in Node : \A d \in Below[n] \ {n} : d # Root /\ Parent[d] \in Below[n]

(* A tree of the root alone never completes a step: an unrefined root      *)
(* sends its dt to a parent it has not got (timestep_driver_descend).      *)
ASSUME RootIsRefined == Root \notin Leaf

(* The octree is finite.                                                   *)
ASSUME LeavesExist == Leaf # {}

ASSUME DtAssumption ==
  /\ Cfl \subseteq Nat
  /\ Huge \in Nat /\ \A dt \in Cfl : dt < Huge
  /\ RefFreq \in Nat \ {0}
  /\ StopTime \in Nat
  /\ StopStep \in Nat

VARIABLES
  pc,       \* where a node is in its step
  goal,     \* the step number at which its current step(steps) call ends
  step,     \* step_num
  time,     \* current_time
  dt,       \* dt_.dt
  limit,    \* ghost: the dt a leaf last posted as its own
  pending,  \* timestep_driver_descend holds futures that are not all ready
  own,      \* local_timestep_channels[NCHILD] of a node
  child,    \* the parent's local_timestep_channels[get_child_index()]
  global,   \* global_timestep_channel
  up,       \* set_local_timestep calls in flight, by sender
  down,     \* timestep_driver_ascend calls in flight, by receiver
  agreed    \* ghost: the dts the root has sent out, one per step

vars == <<pc, goal, step, time, dt, limit, pending, own, child, global, up,
          down, agreed>>

PC == {"idle", "begin", "bounds", "wait", "join", "done"}
Val == [dt : Int, step : Nat]

TypeOK ==
  /\ pc \in [Node -> PC]
  /\ goal \in [Node -> Nat]
  /\ step \in [Node -> Nat]
  /\ time \in [Node -> Int]
  /\ dt \in [Node -> Int]
  /\ limit \in [Node -> Int]
  /\ pending \in [Node -> BOOLEAN]
  /\ own \in [Node -> Seq(Val)]
  /\ child \in [Node -> Seq(Val)]
  /\ global \in [Node -> Seq(Val)]
  /\ up \in [Node -> SUBSET Val]
  /\ down \in [Node -> SUBSET Val]
  /\ agreed \in Seq(Int)

Init ==
  /\ pc = [n \in Node |-> "idle"]
  /\ goal = [n \in Node |-> 0]
  /\ step = [n \in Node |-> 0]
  /\ time = [n \in Node |-> 0]
  /\ dt = [n \in Node |-> 0]
  /\ limit = [n \in Node |-> 0]
  /\ pending = [n \in Node |-> FALSE]
  /\ own = [n \in Node |-> <<>>]
  /\ child = [n \in Node |-> <<>>]
  /\ global = [n \in Node |-> <<>>]
  /\ up = [n \in Node |-> {}]
  /\ down = [n \in Node |-> {}]
  /\ agreed = <<>>

Smaller(a, b) == IF a <= b THEN a ELSE b

-----------------------------------------------------------------------------
(* The loop of execute_solver: while there is simulated time and a step    *)
(* left, the root is asked for the steps up to the next regrid.            *)
StartChunk ==
  /\ pc[Root] = "idle"
  /\ StopStep # 0
  /\ time[Root] < StopTime
  /\ step[Root] <= StopStep
  /\ goal' = [goal EXCEPT ![Root] = Smaller(step[Root] + RefFreq, StopStep + 1)]
  /\ pc' = [pc EXCEPT ![Root] = "begin"]
  /\ UNCHANGED <<step, time, dt, limit, pending, own, child, global, up, down,
                 agreed>>

(* The step action of a child, called by its parent with the same number   *)
(* of steps before the parent's own local_step.                            *)
StartChild(c) ==
  /\ pc[c] = "idle"
  /\ goal[c] < goal[Parent[c]]
  /\ goal' = [goal EXCEPT ![c] = goal[Parent[c]]]
  /\ pc' = [pc EXCEPT ![c] = "begin"]
  /\ UNCHANGED <<step, time, dt, limit, pending, own, child, global, up, down,
                 agreed>>

(* The head of local_step's continuation: timestep_driver_descend takes    *)
(* out its futures, then the first exchange of boundaries begins.          *)
BeginStep(n) ==
  /\ pc[n] = "begin"
  /\ pending' = [pending EXCEPT ![n] = TRUE]
  /\ pc' = [pc EXCEPT ![n] = "bounds"]
  /\ UNCHANGED <<goal, step, time, dt, limit, own, child, global, up, down,
                 agreed>>

(* A slip: the cap forgets the time already simulated.                     *)
MaxDtOfWholeRun(n) == StopTime \div (RefFreq - (step[n] % RefFreq))

(* The largest dt left so that stop_time falls on the next regrid or after *)
MaxDt(n) == (StopTime - time[n]) \div (RefFreq - (step[n] % RefFreq))

(* A slip: the limit is posted in a second Runge-Kutta stage as well.      *)
PostLeafTwice(l) ==
  /\ pc[l] = "bounds"
  /\ \E cfl \in Cfl :
       LET d == Smaller(cfl, MaxDt(l))
           v == [dt |-> d, step |-> step[l]] IN
         /\ dt' = [dt EXCEPT ![l] = d]
         /\ limit' = [limit EXCEPT ![l] = d]
         /\ own' = [own EXCEPT ![l] = @ \o <<v, v>>]
  /\ pc' = [pc EXCEPT ![l] = "wait"]
  /\ UNCHANGED <<goal, step, time, pending, child, global, up, down, agreed>>

(* nonrefined_step, rk = 0: the limit of the leaf's own cells.             *)
PostLeaf(l) ==
  /\ pc[l] = "bounds"
  /\ \E cfl \in Cfl :
       LET d == Smaller(cfl, MaxDt(l)) IN
         /\ dt' = [dt EXCEPT ![l] = d]
         /\ limit' = [limit EXCEPT ![l] = d]
         /\ own' = [own EXCEPT ![l] = Append(@, [dt |-> d, step |-> step[l]])]
  /\ pc' = [pc EXCEPT ![l] = "wait"]
  /\ UNCHANGED <<goal, step, time, pending, child, global, up, down, agreed>>

(* refined_step: a refined node has no cells of its own to limit dt.       *)
PostRefined(n) ==
  /\ pc[n] = "bounds"
  /\ own' = [own EXCEPT ![n] = Append(@, [dt |-> Huge, step |-> step[n]])]
  /\ pc' = [pc EXCEPT ![n] = "wait"]
  /\ UNCHANGED <<goal, step, time, dt, limit, pending, child, global, up, down,
                 agreed>>

(* What the futures of timestep_driver_descend yield, and their minimum.   *)
Ready(n) ==
  /\ pending[n]
  /\ own[n] # <<>>
  /\ \A c \in Children(n) : child[c] # <<>>

Heads(n) == {Head(own[n])} \cup {Head(child[c]) : c \in Children(n)}

(* A slip: the comparison of the minimum is turned round.                  *)
IsGreatest(v, S) == v \in S /\ \A w \in S : v.dt >= w.dt

(* The loop over dts that keeps the smaller one.                           *)
IsLeast(v, S) == v \in S /\ \A w \in S : v.dt <= w.dt

TakeHeads(n) ==
  /\ pending' = [pending EXCEPT ![n] = FALSE]
  /\ own' = [own EXCEPT ![n] = Tail(@)]
  /\ child' = [c \in Node |-> IF c \in Children(n) THEN Tail(child[c])
                                                   ELSE child[c]]

(* The continuation of timestep_driver_descend below the root: the minimum *)
(* goes to the parent.                                                     *)
Descend(n) ==
  /\ Ready(n)
  /\ TakeHeads(n)
  /\ \E v \in Heads(n) :
       /\ IsLeast(v, Heads(n))
       /\ up' = [up EXCEPT ![n] = @ \cup {v}]
  /\ UNCHANGED <<pc, goal, step, time, dt, limit, global, down, agreed>>

(* A slip: the value is stored but the children are not called.            *)
StoreOnly(n, v, msgs) ==
  /\ global' = [global EXCEPT ![n] = Append(@, v)]
  /\ down' = msgs

(* timestep_driver_ascend on node n: store the value, call the children.   *)
Forward(n, v, msgs) ==
  /\ global' = [global EXCEPT ![n] = Append(@, v)]
  /\ down' = [c \in Node |-> IF c \in Children(n) THEN msgs[c] \cup {v}
                                                  ELSE msgs[c]]

(* The same continuation on the root: the minimum is everybody's dt.       *)
DescendRoot ==
  /\ Ready(Root)
  /\ TakeHeads(Root)
  /\ \E v \in Heads(Root) :
       /\ IsLeast(v, Heads(Root))
       /\ Forward(Root, v, down)
       /\ agreed' = Append(agreed, v.dt)
  /\ UNCHANGED <<pc, goal, step, time, dt, limit, up>>

(* A set_local_timestep call of child c reaches its parent.                *)
SetLocal(c) ==
  \E v \in up[c] :
    /\ up' = [up EXCEPT ![c] = @ \ {v}]
    /\ child' = [child EXCEPT ![c] = Append(@, v)]
    /\ UNCHANGED <<pc, goal, step, time, dt, limit, pending, own, global, down,
                   agreed>>

(* A timestep_driver_ascend call reaches node c.                           *)
Ascend(c) ==
  \E v \in down[c] :
    /\ Forward(c, v, [down EXCEPT ![c] = @ \ {v}])
    /\ UNCHANGED <<pc, goal, step, time, dt, limit, pending, own, child, up,
                   agreed>>

(* A slip: update() runs before dt_ is replaced by the global one.         *)
UpdateBeforeGet(n) ==
  /\ pc[n] = "wait"
  /\ global[n] # <<>>
  /\ dt' = [dt EXCEPT ![n] = Head(global[n]).dt]
  /\ global' = [global EXCEPT ![n] = Tail(@)]
  /\ time' = [time EXCEPT ![n] = @ + dt[n]]
  /\ step' = [step EXCEPT ![n] = @ + 1]
  /\ pc' = [pc EXCEPT ![n] = "join"]
  /\ UNCHANGED <<goal, limit, pending, own, child, up, down, agreed>>

(* A slip: recv_step is not advanced, the value is read again next time.   *)
UpdateWithoutTaking(n) ==
  /\ pc[n] = "wait"
  /\ global[n] # <<>>
  /\ dt' = [dt EXCEPT ![n] = Head(global[n]).dt]
  /\ time' = [time EXCEPT ![n] = @ + Head(global[n]).dt]
  /\ step' = [step EXCEPT ![n] = @ + 1]
  /\ pc' = [pc EXCEPT ![n] = "join"]
  /\ UNCHANGED <<goal, limit, pending, own, child, global, up, down, agreed>>

(* dt_ = GET(dt_fut), update() and ++step_num.                             *)
Update(n) ==
  /\ pc[n] = "wait"
  /\ global[n] # <<>>
  /\ dt' = [dt EXCEPT ![n] = Head(global[n]).dt]
  /\ global' = [global EXCEPT ![n] = Tail(@)]
  /\ time' = [time EXCEPT ![n] = @ + Head(global[n]).dt]
  /\ step' = [step EXCEPT ![n] = @ + 1]
  /\ pc' = [pc EXCEPT ![n] = "join"]
  /\ UNCHANGED <<goal, limit, pending, own, child, up, down, agreed>>

(* GET(next_dt), then the next link of local_step's chain, if any.         *)
EndStep(n) ==
  /\ pc[n] = "join"
  /\ ~pending[n]
  /\ pc' = [pc EXCEPT ![n] = IF step[n] < goal[n] THEN "begin" ELSE "done"]
  /\ UNCHANGED <<goal, step, time, dt, limit, pending, own, child, global, up,
                 down, agreed>>

(* A slip: step() does not wait for the children.                          *)
ReturnAlone(n) ==
  /\ pc[n] = "done"
  /\ pc' = [pc EXCEPT ![n] = "idle"]
  /\ UNCHANGED <<goal, step, time, dt, limit, pending, own, child, global, up,
                 down, agreed>>

(* step() is ready once the node's own chain and its children's are.       *)
Return(n) ==
  /\ pc[n] = "done"
  /\ \A c \in Children(n) : pc[c] = "idle" /\ goal[c] = goal[n]
  /\ pc' = [pc EXCEPT ![n] = "idle"]
  /\ UNCHANGED <<goal, step, time, dt, limit, pending, own, child, global, up,
                 down, agreed>>

Next ==
  \/ StartChunk
  \/ DescendRoot
  \/ \E n \in Node \ {Root} :
       StartChild(n) \/ Descend(n) \/ SetLocal(n) \/ Ascend(n)
  \/ \E n \in Leaf : PostLeaf(n)
  \/ \E n \in Node \ Leaf : PostRefined(n)
  \/ \E n \in Node : BeginStep(n) \/ Update(n) \/ EndStep(n) \/ Return(n)

Spec == Init /\ [][Next]_vars

(* As long as a task is ready to run, or a call to be delivered, HPX runs  *)
(* or delivers one.  Every step is progress: no stronger fairness is needed.*)
FairSpec == Spec /\ WF_vars(Next)

-----------------------------------------------------------------------------
(* The descents a node has completed: one more than its steps while it     *)
(* waits for the dt that its last descent helped to choose.                *)
Descents(n) == IF pc[n] = "wait" /\ ~pending[n] THEN step[n] + 1 ELSE step[n]

(* Arrival order is step order.  A value carries no step number, so a node *)
(* that combines the heads of its channels, or takes the head of its       *)
(* global channel, relies on those heads being for the step it is in.  A   *)
(* fast child may already have sent the value of the next step (its parent *)
(* has descended, but not yet taken the step), never that of a later one:  *)
(* whatever the delays, no channel holds two values.                       *)
ChannelsInStep ==
  \A n \in Node :
    /\ \A q \in {own[n]} \cup {child[c] : c \in Children(n)} :
         q # <<>> => Len(q) = 1 /\ q[1].step = Descents(n)
    /\ global[n] # <<>> => Len(global[n]) = 1 /\ global[n][1].step = step[n]

(* Nodes that have completed the same number of steps are at the same      *)
(* simulated time, though each adds up its own current_time.               *)
SameClock ==
  \A m, n \in Node : step[m] = step[n] => time[m] = time[n]

(* CFL stability: the dt with which a leaf has just advanced is not larger *)
(* than the limit it computed from its own cells for that step.            *)
CflRespected ==
  \A l \in Leaf : pc[l] \in {"join", "done"} => dt[l] <= limit[l]

(* The cap in nonrefined_step keeps every node from overshooting           *)
(* opts().stop_time, although it is applied by each leaf separately, from  *)
(* that leaf's current_time.                                               *)
NeverPastStopTime == \A n \in Node : time[n] <= StopTime

(* When the root's step() returns to execute_solver, which then may regrid *)
(* and so copy nodes without their channels, no value is left in a channel *)
(* or on its way, and all nodes have taken the same steps.                 *)
QuietBetweenChunks ==
  pc[Root] = "idle" =>
    \A n \in Node :
      /\ pc[n] = "idle" /\ step[n] = step[Root] /\ ~pending[n]
      /\ own[n] = <<>> /\ child[n] = <<>> /\ global[n] = <<>>
      /\ up[n] = {} /\ down[n] = {}

(* The run of execute_solver ends: every node comes to rest, with one of   *)
(* the conditions met under which the loop is left.                        *)
Finishes ==
  <>[](\A n \in Node :
         pc[n] = "idle" /\ (StopStep = 0 \/ step[n] > StopStep \/ time[n] >= StopTime))

(* stop_step as options.cpp documents it, the "number of timesteps to run".*)
(* The loop goes on while step_num does not exceed it, and takes one more; *)
(* only when no step is asked for is there none.                           *)
StepsAsDocumented == \A n \in Node : step[n] <= StopStep

(* The descent and the ascent implement one agreement per step among all   *)
(* leaves of the tree.                                                     *)
Abstract == INSTANCE LockStep WITH
              posted <- {l \in Leaf : pc[l] = "wait" /\ step[l] = Len(agreed)}
ImplementsLockStep == Abstract!Spec
=============================================================================
