----------------------------- MODULE SiloOutput -----------------------------
(***************************************************************************)
(* output_all: the four stages in which all localities write the leaves    *)
(* they hold into a few files, one per group of localities, and locality 0 *)
(* writes a master file that says where each leaf is.  The caller waits    *)
(* for the first two stages, which copy the cells; the writing of files    *)
(* goes on behind its back while it takes steps and regrids, and only the  *)
(* next output waits for it.                                               *)
(*                                                                         *)
(* A tree is the sequence of its nodes by position, TRUE where refined; as *)
(* TreeFormation shows, the node at position i lives on locality           *)
(* i * localities / nodes.  Cells are abstracted to the number of steps    *)
(* they have seen.                                                         *)
(***************************************************************************)
EXTENDS Integers, Sequences, FiniteSets

CONSTANTS
  MaxLocalities,  \* bound: processes a run may have
  Shares,         \* the numbers of localities and groups a run may have
  Trees,          \* the trees that a regrid may lead to
  Name,           \* names of output files
  NoFile          \* no master file of that name

ASSUME OutputAssumption ==
  /\ MaxLocalities \in Nat \ {0}
  /\ Shares \subseteq {s \in (1..MaxLocalities) \X (1..MaxLocalities) : s[2] <= s[1]}
  /\ \A t \in Trees : t \in Seq(BOOLEAN) /\ Len(t) >= MaxLocalities

(* What the master file, and the barrier of a file being written, hold.    *)
Entry == [leaf : Nat, group : 0..(MaxLocalities - 1)]
Master == [list : SUBSET Entry, nsteps : Nat, time : Nat]
Writing == [name : Name, nsteps : Nat, list : SUBSET Entry]

VARIABLES
  L,         \* localities of this run
  G,         \* opts().silo_num_groups
  tree,      \* the tree as it is now
  cells,     \* steps its cells have seen
  time,      \* and the time they have reached
  call,      \* the output under way: its name, and whether to block
  stage,     \* the stage the caller of output_all is in
  arrived,   \* localities that have finished that stage
  futs,      \* futs_ of each locality: its leaves
  mesh,      \* all_mesh_vars of each locality: copies of their cells
  meta,      \* silo_output_time of locality 0
  barrier,   \* the files that are being written: name, node_list_, nsteps
  turn,      \* for each group, the locality that writes next
  data,      \* the files of each name, by group
  master     \* the master file of each name

runVars == <<L, G, tree, cells, time>>
outputVars == <<call, stage, arrived, futs, mesh, meta, barrier, turn>>
diskVars == <<data, master>>

Localities == 0..(L - 1)
Groups == 0..(G - 1)

Leaves(t) == {i \in 1..Len(t) : ~t[i]}
LocalityOf(t, i) == ((i - 1) * L) \div Len(t)

(* The group of a locality, and the range of localities of a group.  In the*)
(* slip the localities are shared out from the front.                      *)
GroupOfFloor(id) == (id * G) \div L
GroupOf(id) == ((id + 1) * G - 1) \div L
GroupBegin(g) == (g * L) \div G
GroupEnd(g) == ((g + 1) * L) \div G

Idle == barrier = NoFile

OutputInit ==
  /\ \E s \in Shares : L = s[1] /\ G = s[2]
  /\ tree \in Trees /\ cells = 0 /\ time = 0
  /\ call = NoFile /\ stage = "none" /\ arrived = {}
  /\ futs = [l \in Localities |-> {}] /\ mesh = [l \in Localities |-> {}]
  /\ meta = 0 /\ barrier = NoFile
  /\ turn = [g \in Groups |-> GroupEnd(g)]
  /\ data = [n \in Name |-> [g \in 0..(MaxLocalities - 1) |-> {}]]
  /\ master = [n \in Name |-> NoFile]

-----------------------------------------------------------------------------
(* output_all is called, and makes the directory.                          *)
OutputAll(name, block) ==
  /\ call' = [name |-> name, block |-> block]
  /\ stage' = "barrier"
  /\ UNCHANGED <<arrived, futs, mesh, meta, barrier, turn>>

(* A slip: the files of the last output are not waited for.                *)
NoBarrier ==
  /\ stage = "barrier"
  /\ stage' = "stage1" /\ arrived' = {}
  /\ UNCHANGED <<runVars, call, futs, mesh, meta, barrier, turn, diskVars>>

(* GET(barrier), and the calls of stage 1.                                 *)
Barrier ==
  /\ stage = "barrier" /\ Idle
  /\ stage' = "stage1" /\ arrived' = {}
  /\ UNCHANGED <<runVars, call, futs, mesh, meta, barrier, turn, diskVars>>

(* The next stage starts when all localities have finished this one.       *)
Arrive(l, next) ==
  IF arrived \cup {l} = Localities
  THEN stage' = next /\ arrived' = {}
  ELSE stage' = stage /\ arrived' = arrived \cup {l}

(* output_stage1: a locality finds its leaves in the registry.             *)
Stage1(l) ==
  /\ stage = "stage1" /\ l \notin arrived
  /\ futs' = [futs EXCEPT ![l] = {i \in Leaves(tree) : LocalityOf(tree, i) = l}]
  /\ meta' = IF l = 0 THEN time ELSE meta
  /\ Arrive(l, "stage2")
  /\ UNCHANGED <<runVars, call, mesh, barrier, turn, diskVars>>

(* output_stage2: the copies of the cells are complete.                    *)
Stage2(l) ==
  /\ stage = "stage2" /\ l \notin arrived
  /\ mesh' = [mesh EXCEPT ![l] = {[leaf |-> i, tree |-> tree, cells |-> cells] : i \in futs[l]}]
  /\ Arrive(l, "write")
  /\ UNCHANGED <<runVars, call, futs, meta, barrier, turn, diskVars>>

(* The lists of all localities are joined, stage 3 begins in each group,   *)
(* and output_all returns, or waits for the barrier if it has to block.    *)
Spawn ==
  /\ stage = "write"
  /\ barrier' = [name |-> call.name, nsteps |-> cells,
                 list |-> UNION {{[leaf |-> m.leaf, group |-> GroupOf(l)] : m \in mesh[l]}
                                   : l \in Localities}]
  /\ turn' = [g \in Groups |-> GroupBegin(g)]
  /\ stage' = IF call.block THEN "block" ELSE "none"
  /\ UNCHANGED <<runVars, call, arrived, futs, mesh, meta, diskVars>>

(* The first locality of a group creates the file, the others append.      *)
Appended(file, id, g) ==
  IF id = GroupBegin(g) THEN mesh[id] ELSE file \cup mesh[id]

(* output_stage3 on the locality whose turn it is, which then calls the    *)
(* next one.                                                               *)
Stage3(g) ==
  /\ ~Idle /\ turn[g] < GroupEnd(g)
  /\ data' = [data EXCEPT ![barrier.name][g] = Appended(@, turn[g], g)]
  /\ turn' = [turn EXCEPT ![g] = @ + 1]
  /\ UNCHANGED <<runVars, call, stage, arrived, futs, mesh, meta, barrier, master>>

(* A slip: the barrier is not renewed when the files are complete.         *)
BarrierKept == barrier

(* What the next output finds in the barrier then.                         *)
BarrierReady == NoFile

(* output_stage4 on locality 0, once all groups are written.               *)
Stage4 ==
  /\ ~Idle /\ \A g \in Groups : turn[g] = GroupEnd(g)
  /\ master' = [master EXCEPT ![barrier.name] =
       [list |-> barrier.list, nsteps |-> barrier.nsteps, time |-> meta]]
  /\ barrier' = BarrierReady
  /\ stage' = IF stage = "block" THEN "none" ELSE stage
  /\ UNCHANGED <<runVars, call, arrived, futs, mesh, meta, turn, data>>

OutputStep ==
  \/ Barrier \/ Spawn \/ Stage4
  \/ \E l \in Localities : Stage1(l) \/ Stage2(l)
  \/ \E g \in Groups : Stage3(g)

-----------------------------------------------------------------------------
(* What a restart from file n takes for granted: every leaf of one tree is *)
(* found once in the list, and in the file that the list names for it,     *)
(* with cells of the step the master file claims.                          *)
Intact(n) ==
  /\ master[n] # NoFile
  /\ \E t \in Trees :
       /\ {e.leaf : e \in master[n].list} = Leaves(t)
       /\ Cardinality(master[n].list) = Cardinality(Leaves(t))
       /\ \A e \in master[n].list :
            [leaf |-> e.leaf, tree |-> t, cells |-> master[n].nsteps] \in data[n][e.group]
=============================================================================
