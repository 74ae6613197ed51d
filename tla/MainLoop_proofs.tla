--------------------------- MODULE MainLoop_proofs ---------------------------
(***************************************************************************)
(* That what the program leaves on disk can be restarted from, however the *)
(* solver's steps, the stages of output_all and the writers behind it      *)
(* interleave, and wherever the program is killed.                         *)
(*                                                                         *)
(* It rests on the group of a locality being the one whose range contains  *)
(* it, for any number of localities and groups: stage 3 writes by the      *)
(* ranges, the master file names files by the group, and were they to      *)
(* differ, the leaves would be looked for in the wrong file.               *)
(***************************************************************************)
EXTENDS MainLoop, FiniteSetTheorems, TLAPS


(* Integer division lies between its neighbors.                            *)
LEMMA DivIsQuotient ==
  ASSUME NEW x \in Nat, NEW n \in Nat \ {0}
  PROVE  /\ x \div n \in Nat
         /\ n * (x \div n) <= x
         /\ x < n * (x \div n) + n
  OBVIOUS

LEMMA DivAtMost ==
  ASSUME NEW x \in Nat, NEW n \in Nat \ {0}, NEW k \in Int, x < n * (k + 1)
  PROVE  x \div n <= k
  BY DivIsQuotient

LEMMA DivAtLeast ==
  ASSUME NEW x \in Nat, NEW n \in Nat \ {0}, NEW k \in Nat, n * k <= x
  PROVE  k <= x \div n
  BY DivIsQuotient

(* Multiplying by a positive number keeps order.                           *)
LEMMA ProductMonotone ==
  ASSUME NEW a \in Int, NEW b \in Int, a <= b, NEW n \in Nat
  PROVE  a * n <= b * n
  OBVIOUS

(* A locality has a group, and lies in the range of localities that write  *)
(* that group's file in turn (lines 550, 571 and 572 of silo_out.cpp).     *)
THEOREM GroupContainsLocality ==
  ASSUME L \in Nat \ {0}, G \in 1..L, NEW id \in Localities
  PROVE  /\ GroupOf(id) \in Groups
         /\ GroupBegin(GroupOf(id)) <= id
         /\ id < GroupEnd(GroupOf(id))
<1> DEFINE x == (id + 1) * G - 1
           g == x \div L
<1>1. id \in Nat /\ id + 1 <= L /\ G \in Nat \ {0}
  BY DEF Localities
<1>2. x \in Nat /\ (id + 1) * G \in Nat \ {0}
  BY <1>1
<1>3. (id + 1) * G <= L * G
  BY <1>1, ProductMonotone
<1>4. g \in Nat /\ L * g <= x /\ x < L * g + L
  BY <1>2, DivIsQuotient
<1>5. g <= G - 1
  <2>1. x < L * ((G - 1) + 1)
    BY <1>1, <1>2, <1>3
  <2> QED BY <2>1, <1>1, <1>2, DivAtMost
<1>6. (g * L) \div G <= id
  <2>1. g * L < G * (id + 1)
    BY <1>1, <1>2, <1>4
  <2> DEFINE y == g * L
  <2>2. y \in Nat /\ y < G * (id + 1) /\ id \in Int /\ G \in Nat \ {0}
    BY <2>1, <1>1, <1>4
  <2> HIDE DEF y, g
  <2>3. y \div G <= id
    BY ONLY <2>2, DivAtMost
  <2> QED BY <2>3 DEF y
<1>7. id + 1 <= ((g + 1) * L) \div G
  <2>1. G * (id + 1) <= (g + 1) * L
    <3>1. G * (id + 1) = x + 1 /\ (g + 1) * L = L * g + L
      BY <1>1, <1>4
    <3>2. x + 1 <= L * g + L
      BY <1>1, <1>2, <1>4
    <3> QED BY ONLY <3>1, <3>2
  <2> QED BY <2>1, <1>1, <1>4, DivAtLeast
<1>8. g = GroupOf(id)
  BY DEF GroupOf
<1>9. ((g + 1) * L) \div G \in Nat
  BY <1>1, <1>4, DivIsQuotient
<1> HIDE DEF g
<1> QED BY <1>1, <1>4, <1>5, <1>6, <1>7, <1>8, <1>9 DEF Groups, GroupBegin, GroupEnd

(* The ranges follow one another without a gap and end with the last       *)
(* locality, so every locality is asked to write, and only once.           *)
THEOREM GroupsAreDisjoint ==
  ASSUME L \in Nat \ {0}, G \in 1..L, NEW g \in Groups
  PROVE  /\ GroupBegin(0) = 0
         /\ GroupEnd(G - 1) = L
         /\ GroupEnd(g) = GroupBegin(g + 1)
         /\ GroupBegin(g) < GroupEnd(g)
<1>1. G \in Nat \ {0} /\ G <= L /\ g \in Nat
  BY DEF Groups
<1>2. GroupBegin(0) = 0
  <2>1. 0 < G * (0 + 1) /\ 0 * L = 0
    BY <1>1
  <2> QED BY <2>1, <1>1, DivIsQuotient, DivAtMost DEF GroupBegin
<1>3. GroupEnd(G - 1) = L
  <2>1. G * L <= L * G /\ L * G < G * (L + 1) /\ L * G \in Nat
    BY <1>1
  <2>2. L <= (L * G) \div G /\ (L * G) \div G <= L
    BY <2>1, <1>1, DivAtLeast, DivAtMost
  <2>3. (L * G) \div G \in Nat /\ ((G - 1) + 1) * L = L * G
    BY <2>1, <1>1, DivIsQuotient
  <2> QED BY <2>2, <2>3 DEF GroupEnd
<1>4. GroupEnd(g) = GroupBegin(g + 1)
  BY DEF GroupEnd, GroupBegin
<1>5. GroupBegin(g) < GroupEnd(g)
  <2> DEFINE b == (g * L) \div G
  <2>1. g * L \in Nat /\ (g + 1) * L \in Nat /\ (g + 1) * L = g * L + L
    BY <1>1
  <2>2. b \in Nat /\ G * b <= g * L
    BY <2>1, <1>1, DivIsQuotient
  <2>3. G * (b + 1) <= (g + 1) * L
    <3>1. G * (b + 1) = G * b + G
      BY <2>2, <1>1
    <3>2. G * b \in Nat
      BY <2>2, <1>1
    <3>3. G * b + G <= g * L + L
      <4> HIDE DEF b
      <4> QED BY <3>2, <2>1, <2>2, <1>1
    <3> QED BY ONLY <3>1, <3>3, <2>1
  <2>4. b + 1 <= ((g + 1) * L) \div G
    <3> DEFINE y == (g + 1) * L
               k == b + 1
    <3>1. y \in Nat /\ k \in Nat /\ G * k <= y /\ G \in Nat \ {0}
      BY <2>3, <2>2, <2>1, <1>1
    <3> HIDE DEF y, k
    <3>2. k <= y \div G
      BY ONLY <3>1, DivAtLeast
    <3> QED BY <3>2 DEF y, k
  <2>5. ((g + 1) * L) \div G \in Nat
    BY <2>1, <1>1, DivIsQuotient
  <2> HIDE DEF b
  <2>6. b = GroupBegin(g)
    BY DEF b, GroupBegin
  <2> QED BY <2>2, <2>4, <2>5, <2>6 DEF GroupEnd
<1> QED BY <1>2, <1>3, <1>4, <1>5

-----------------------------------------------------------------------------
(* What a locality contributes to the output of a tree, and what all of    *)
(* them together put into the list of the master file.                     *)
Mine(t, l) == {i \in Leaves(t) : LocalityOf(t, i) = l}
Copies(t, c, l) == {[leaf |-> i, tree |-> t, cells |-> c] : i \in Mine(t, l)}
Entries(t) == {[leaf |-> i, group |-> GroupOf(LocalityOf(t, i))] : i \in Leaves(t)}

Copy == [leaf : Nat, tree : Trees, cells : Nat]

LoopTypeOK ==
  /\ <<L, G>> \in Shares
  /\ tree \in Trees /\ cells \in Nat /\ time \in Nat
  /\ stage \in {"none", "barrier", "stage1", "stage2", "write", "block"}
  /\ stage # "none" => call \in [name : Name, block : BOOLEAN]
  /\ arrived \subseteq Localities /\ meta \in Nat
  /\ futs \in [Localities -> SUBSET Nat] /\ mesh \in [Localities -> SUBSET Copy]
  /\ barrier \in Writing \cup {NoFile}
  /\ turn \in [Groups -> Nat]
  /\ data \in [Name -> [0..(MaxLocalities - 1) -> SUBSET Copy]]
  /\ master \in [Name -> Master \cup {NoFile}]
  /\ opts \in Options /\ pc \in {"start", "loop", "steps", "final", "analytic", "done"}
  /\ pc = "steps" => step <= opts.stop_step
  /\ step \in Nat /\ cnt \in Nat /\ first \in BOOLEAN
  /\ source \in Name \cup {NoFile} /\ written \subseteq Name /\ crashes \in Nat

(* The stages work on one tree, which stays while they last, and on copies *)
(* that no writer reads any more.                                          *)
StageInv ==
  /\ stage \in {"stage1", "stage2", "write"} => Idle
  /\ stage = "block" => ~Idle /\ barrier.name = call.name
  /\ stage = "stage1" => \A l \in arrived : futs[l] = Mine(tree, l) /\ (l = 0 => meta = time)
  /\ stage \in {"stage2", "write"} =>
       meta = time /\ \A l \in Localities : futs[l] = Mine(tree, l)
  /\ stage = "stage2" => \A l \in arrived : mesh[l] = Copies(tree, cells, l)
  /\ stage = "write" => \A l \in Localities : mesh[l] = Copies(tree, cells, l)

(* The writers work on the copies of one tree, perhaps no longer the       *)
(* present one, and those who had their turn are in the group's file.      *)
WritingInv ==
  ~Idle => \E t \in Trees :
    /\ barrier.list = Entries(t)
    /\ \A l \in Localities : mesh[l] = Copies(t, barrier.nsteps, l)
    /\ \A g \in Groups :
         /\ GroupBegin(g) <= turn[g] /\ turn[g] <= GroupEnd(g)
         /\ \A l \in Localities : GroupBegin(g) <= l /\ l < turn[g] =>
              mesh[l] \subseteq data[barrier.name][g]

UnderWay(n) == stage # "none" /\ call.name = n

(* A file this run has begun is in the hands of output_all or of the       *)
(* writers, or complete.                                                   *)
FilesInv ==
  /\ ~Idle => barrier.name \in written
  /\ stage # "none" => call.name \in written
  /\ \A n \in written : Overwriting(n) \/ UnderWay(n) \/ Intact(n)

(* X.k is never written before its time has come.                          *)
TimesInv ==
  \A k \in Nat :
    /\ stage \notin {"none", "block"} /\ call.name = X(k) => k * OutputDt <= time
    /\ Overwriting(X(k)) => k * OutputDt <= meta
    /\ X(k) \in Name /\ master[X(k)] # NoFile => k * OutputDt <= master[X(k)].time

(* So a run that goes on from X.k counts on beyond k before it writes.     *)
SourceInv ==
  source # NoFile =>
    /\ opts.mode \in {"run", "rewrite"}
    /\ opts.mode # "rewrite" =>
         /\ \A k \in Nat : source = X(k) =>
              IF pc = "start" THEN k * OutputDt <= time ELSE k <= cnt /\ (first \/ k < cnt)
         /\ source \notin {Final, Analytic} => Intact(source) /\ source \notin written

(* What is written before the run starts, and when it comes to its end.    *)
EndInv ==
  /\ pc = "start" => stage = "none" /\ first /\ cnt = 0
  /\ pc \in {"loop", "steps"} => opts.mode \notin {"static", "once"}
  /\ Final \in written => pc \in {"analytic", "done"}
  /\ Analytic \in written => pc = "done" /\ opts.analytic
  /\ pc = "analytic" => opts.analytic /\ (opts.disable_output \/ Final \in written)
  /\ pc = "done" /\ LastFilesDue => Final \in written /\ (opts.analytic => Analytic \in written)
  /\ \A n \in written \cap {Final, Analytic} : ~(stage # "block" /\ UnderWay(n)) =>
       IF Overwriting(n) THEN barrier.nsteps = cells ELSE master[n].nsteps = cells
  /\ source = NoFile =>
       /\ opts.mode # "rewrite"
       /\ pc = "start" => time = 0
       /\ \A k \in 0..(cnt - 1) : X(k) \in written

LoopInv ==
  /\ LoopTypeOK /\ StageInv /\ WritingInv /\ FilesInv
  /\ TimesInv /\ SourceInv /\ EndInv

-----------------------------------------------------------------------------
LEMMA SharesAre ==
  ASSUME LoopTypeOK
  PROVE  /\ L \in Nat \ {0} /\ G \in 1..L /\ L <= MaxLocalities
         /\ Groups \subseteq 0..(MaxLocalities - 1)
BY OutputAssumption DEF LoopTypeOK, Groups

(* A leaf lives on a locality of the run.                                  *)
LEMMA LeafHasLocality ==
  ASSUME L \in Nat \ {0}, NEW t \in Trees, NEW i \in Leaves(t)
  PROVE  LocalityOf(t, i) \in Localities
<1>1. Len(t) \in Nat \ {0} /\ i \in 1..Len(t)
  BY OutputAssumption DEF Leaves
<1> DEFINE n == Len(t)
<1>2. (i - 1) * L \in Nat /\ (i - 1) * L <= (n - 1) * L /\ n * L = (n - 1) * L + L
  BY <1>1, ProductMonotone
<1>3. (i - 1) * L < n * ((L - 1) + 1)
  BY <1>1, <1>2
<1>4. n \in Nat \ {0} /\ L - 1 \in Int
  BY <1>1
<1> HIDE DEF n
<1> DEFINE x == (i - 1) * L
<1>5. x \in Nat /\ x < n * ((L - 1) + 1)
  BY <1>2, <1>3
<1> HIDE DEF x
<1>6. x \div n <= L - 1
  BY <1>4, <1>5, DivAtMost
<1>7. x \div n \in Nat
  BY <1>4, <1>5, DivIsQuotient
<1> QED BY <1>6, <1>7 DEF LocalityOf, Localities, n, x

LEMMA LeavesAreFinite ==
  ASSUME NEW t \in Trees
  PROVE  IsFiniteSet(Leaves(t)) /\ Leaves(t) \subseteq Nat
<1>1. Len(t) \in Nat
  BY OutputAssumption
<1>2. IsFiniteSet(1..Len(t))
  BY <1>1, FS_Interval
<1> QED BY <1>1, <1>2, FS_Subset DEF Leaves

(* The list has one entry for every leaf.                                  *)
LEMMA EntriesOfTree ==
  ASSUME NEW t \in Trees
  PROVE  /\ {e.leaf : e \in Entries(t)} = Leaves(t)
         /\ Cardinality(Entries(t)) = Cardinality(Leaves(t))
<1> DEFINE f == [i \in Leaves(t) |-> [leaf |-> i, group |-> GroupOf(LocalityOf(t, i))]]
<1>1. {e.leaf : e \in Entries(t)} = Leaves(t)
  <2>1. ASSUME NEW e \in Entries(t) PROVE e.leaf \in Leaves(t)
    BY DEF Entries
  <2>2. ASSUME NEW i \in Leaves(t) PROVE \E e \in Entries(t) : i = e.leaf
    <3> DEFINE e == [leaf |-> i, group |-> GroupOf(LocalityOf(t, i))]
    <3>1. e \in Entries(t) /\ e.leaf = i
      BY DEF Entries
    <3> QED BY <3>1
  <2> QED BY <2>1, <2>2
<1>2. f \in Bijection(Leaves(t), Entries(t))
  <2>1. f \in [Leaves(t) -> Entries(t)]
    <3>1. \A i \in Leaves(t) :
            [leaf |-> i, group |-> GroupOf(LocalityOf(t, i))] \in Entries(t)
      BY DEF Entries
    <3> QED BY <3>1
  <2>2. \A i, j \in Leaves(t) : f[i] = f[j] => i = j
    <3> SUFFICES ASSUME NEW i \in Leaves(t), NEW j \in Leaves(t), f[i] = f[j] PROVE i = j
      OBVIOUS
    <3>1. f[i].leaf = i /\ f[j].leaf = j
      OBVIOUS
    <3> QED BY <3>1
  <2>3. \A e \in Entries(t) : \E i \in Leaves(t) : f[i] = e
    <3> SUFFICES ASSUME NEW e \in Entries(t) PROVE \E i \in Leaves(t) : f[i] = e
      OBVIOUS
    <3>1. PICK i \in Leaves(t) : e = [leaf |-> i, group |-> GroupOf(LocalityOf(t, i))]
      BY DEF Entries
    <3> QED BY <3>1
  <2> QED BY <2>1, <2>2, <2>3 DEF Bijection, Injection, Surjection, IsInjective
<1>3. ExistsBijection(Leaves(t), Entries(t))
  BY <1>2 DEF ExistsBijection
<1> HIDE DEF f
<1> QED BY <1>1, <1>3, LeavesAreFinite, FS_Bijection

(* The lists that the localities hand in make up that list.                *)
LEMMA ListsJoined ==
  ASSUME LoopTypeOK, NEW t \in Trees, NEW c,
         \A l \in Localities : mesh[l] = Copies(t, c, l)
  PROVE  UNION {{[leaf |-> m.leaf, group |-> GroupOf(l)] : m \in mesh[l]} : l \in Localities}
           = Entries(t)
<1> DEFINE U == UNION {{[leaf |-> m.leaf, group |-> GroupOf(l)] : m \in mesh[l]} : l \in Localities}
<1>1. ASSUME NEW e \in U PROVE e \in Entries(t)
  <2>1. PICK l \in Localities : \E m \in mesh[l] : e = [leaf |-> m.leaf, group |-> GroupOf(l)]
    OBVIOUS
  <2>2. PICK m \in mesh[l] : e = [leaf |-> m.leaf, group |-> GroupOf(l)]
    BY <2>1
  <2>3. PICK i \in Mine(t, l) : m = [leaf |-> i, tree |-> t, cells |-> c]
    BY <2>2 DEF Copies
  <2>4. i \in Leaves(t) /\ LocalityOf(t, i) = l /\ m.leaf = i
    BY <2>3 DEF Mine
  <2> QED BY <2>2, <2>4 DEF Entries
<1>2. ASSUME NEW e \in Entries(t) PROVE e \in U
  <2>1. PICK i \in Leaves(t) : e = [leaf |-> i, group |-> GroupOf(LocalityOf(t, i))]
    BY DEF Entries
  <2> DEFINE l == LocalityOf(t, i)
             m == [leaf |-> i, tree |-> t, cells |-> c]
  <2>2. l \in Localities
    BY SharesAre, LeafHasLocality
  <2>3. m \in mesh[l] /\ m.leaf = i
    BY <2>2 DEF Copies, Mine
  <2>4. e = [leaf |-> m.leaf, group |-> GroupOf(l)]
    BY <2>1, <2>3
  <2> QED BY <2>2, <2>3, <2>4
<1> QED BY <1>1, <1>2

(* A file stays as complete as it is while neither of its parts changes.   *)
LEMMA IntactKept ==
  ASSUME NEW n, Intact(n), master'[n] = master[n], data'[n] = data[n]
  PROVE  Intact(n)'
BY DEF Intact

(* When all writers had their turn, the file is complete with its master.  *)
LEMMA CompletedIsIntact ==
  ASSUME LoopTypeOK, WritingInv, Stage4, NEW n, n = barrier.name
  PROVE  Intact(n)'
<1>1. /\ ~Idle /\ \A g \in Groups : turn[g] = GroupEnd(g)
      /\ n \in Name /\ barrier \in Writing
      /\ master'[n] = [list |-> barrier.list, nsteps |-> barrier.nsteps, time |-> meta]
      /\ data' = data
  BY DEF Stage4, LoopTypeOK, Writing, Idle
<1>2. PICK t \in Trees :
        /\ barrier.list = Entries(t)
        /\ \A l \in Localities : mesh[l] = Copies(t, barrier.nsteps, l)
        /\ \A g \in Groups :
             /\ GroupBegin(g) <= turn[g] /\ turn[g] <= GroupEnd(g)
             /\ \A l \in Localities : GroupBegin(g) <= l /\ l < turn[g] =>
                  mesh[l] \subseteq data[n][g]
  BY <1>1 DEF WritingInv
<1>3. master'[n] \in Master
  BY <1>1 DEF Master, Writing, LoopTypeOK
<1>4. master'[n] # NoFile
  BY <1>3, NameAssumption
<1>5. ASSUME NEW e \in Entries(t)
      PROVE  [leaf |-> e.leaf, tree |-> t, cells |-> barrier.nsteps] \in data[n][e.group]
  <2>1. PICK i \in Leaves(t) : e = [leaf |-> i, group |-> GroupOf(LocalityOf(t, i))]
    BY DEF Entries
  <2> DEFINE l == LocalityOf(t, i)
  <2>2. l \in Localities
    BY SharesAre, LeafHasLocality
  <2>3. GroupOf(l) \in Groups /\ GroupBegin(GroupOf(l)) <= l /\ l < GroupEnd(GroupOf(l))
    BY <2>2, SharesAre, GroupContainsLocality
  <2>4. turn[GroupOf(l)] = GroupEnd(GroupOf(l))
    BY <2>3, <1>1
  <2>5. mesh[l] \subseteq data[n][GroupOf(l)]
    BY <2>2, <2>3, <2>4, <1>2
  <2>6. [leaf |-> i, tree |-> t, cells |-> barrier.nsteps] \in mesh[l]
    BY <2>2, <1>2 DEF Copies, Mine
  <2> QED BY <2>1, <2>5, <2>6
<1> DEFINE M == master'[n]
<1>6. M.list = Entries(t) /\ M.nsteps = barrier.nsteps
  BY <1>1, <1>2
<1>7. {e.leaf : e \in M.list} = Leaves(t) /\ Cardinality(M.list) = Cardinality(Leaves(t))
  BY <1>6, EntriesOfTree
<1>8. \A e \in M.list : [leaf |-> e.leaf, tree |-> t, cells |-> M.nsteps] \in data'[n][e.group]
  BY <1>1, <1>5, <1>6
<1> QED BY <1>4, <1>7, <1>8 DEF Intact

(* What does not change when the numbers of localities and groups do not.  *)
LEMMA SameLocalities ==
  ASSUME UNCHANGED <<L, G>>
  PROVE  /\ Localities' = Localities /\ Groups' = Groups
         /\ \A g : GroupBegin(g)' = GroupBegin(g) /\ GroupEnd(g)' = GroupEnd(g)
         /\ \A t : Entries(t)' = Entries(t)
         /\ \A t, l : Mine(t, l)' = Mine(t, l)
         /\ \A t, c, l : Copies(t, c, l)' = Copies(t, c, l)
BY DEF Localities, Groups, GroupBegin, GroupEnd, Entries, Mine, Copies, GroupOf,
       LocalityOf, Leaves

LEMMA DiskKept ==
  ASSUME UNCHANGED diskVars
  PROVE  \A n : Intact(n) => Intact(n)'
BY DEF Intact, diskVars

-----------------------------------------------------------------------------
LEMMA BarrierKeepsInv ==
  ASSUME LoopInv, Barrier, UNCHANGED loopVars
  PROVE  LoopInv'
<1> USE DEF Barrier, runVars, diskVars, loopVars
<1>1. LoopTypeOK'
  BY SameLocalities DEF LoopInv, LoopTypeOK
<1>2. StageInv'
  BY DEF LoopInv, StageInv, Idle
<1>3. WritingInv'
  BY DEF Idle, WritingInv
<1>4. FilesInv'
  BY DiskKept DEF LoopInv, FilesInv, Overwriting, UnderWay, Idle
<1>5. TimesInv'
  BY DEF LoopInv, TimesInv, Overwriting, Idle
<1>6. SourceInv'
  BY DiskKept DEF LoopInv, SourceInv
<1>7. EndInv'
  BY DEF LoopInv, EndInv, LastFilesDue, Overwriting, UnderWay, Idle
<1> QED BY <1>1, <1>2, <1>3, <1>4, <1>5, <1>6, <1>7 DEF LoopInv

LEMMA Stage1KeepsInv ==
  ASSUME LoopInv, NEW l \in Localities, Stage1(l), UNCHANGED loopVars
  PROVE  LoopInv'
<1> USE DEF Stage1, Arrive, runVars, diskVars, loopVars
<1>0. futs \in [Localities -> SUBSET Nat] /\ arrived \subseteq Localities /\ tree \in Trees
  BY DEF LoopInv, LoopTypeOK
<1>1. LoopTypeOK'
  <2>1. {i \in Leaves(tree) : LocalityOf(tree, i) = l} \subseteq Nat
    BY <1>0, LeavesAreFinite
  <2>2. futs' \in [Localities -> SUBSET Nat]
    BY <1>0, <2>1
  <2> QED BY <2>2, SameLocalities DEF LoopInv, LoopTypeOK
<1>2. StageInv'
  <2>1. \A k \in arrived \cup {l} : futs'[k] = Mine(tree, k) /\ (k = 0 => meta' = time)
    <3>1. \A k \in arrived : futs[k] = Mine(tree, k) /\ (k = 0 => meta = time)
      BY DEF LoopInv, StageInv
    <3>2. futs'[l] = Mine(tree, l) /\ (l = 0 => meta' = time)
      BY <1>0 DEF Mine
    <3> QED BY <3>1, <3>2, <1>0
  <2>2. 0 \in Localities
    BY SharesAre DEF LoopInv, Localities
  <2>3. \A k : Mine(tree, k)' = Mine(tree, k)
    BY DEF Mine, LocalityOf, Leaves
  <2>4. Idle /\ Idle'
    BY DEF LoopInv, StageInv, Idle
  <2>5. Localities' = Localities
    BY SameLocalities
  <2>6. CASE arrived \cup {l} = Localities
    <3>1. stage' = "stage2" /\ arrived' = {} /\ meta' = time /\ time' = time
      BY <2>6, <2>1, <2>2
    <3> QED BY <3>1, <2>6, <2>1, <2>3, <2>4, <2>5 DEF StageInv
  <2>7. CASE arrived \cup {l} # Localities
    <3>1. stage' = "stage1" /\ arrived' = arrived \cup {l} /\ time' = time
      BY <2>7
    <3> QED BY <3>1, <2>1, <2>3, <2>4 DEF StageInv
  <2> QED BY <2>6, <2>7
<1>3. WritingInv'
  BY DEF LoopInv, StageInv, Idle, WritingInv
<1>4. FilesInv'
  BY DiskKept DEF LoopInv, FilesInv, Overwriting, UnderWay, Idle
<1>5. TimesInv'
  BY DEF LoopInv, StageInv, TimesInv, Overwriting, Idle
<1>6. SourceInv'
  BY DiskKept DEF LoopInv, SourceInv
<1>7. EndInv'
  BY DEF LoopInv, EndInv, LastFilesDue, Overwriting, UnderWay, Idle
<1> QED BY <1>1, <1>2, <1>3, <1>4, <1>5, <1>6, <1>7 DEF LoopInv

LEMMA Stage2KeepsInv ==
  ASSUME LoopInv, NEW l \in Localities, Stage2(l), UNCHANGED loopVars
  PROVE  LoopInv'
<1> USE DEF Stage2, Arrive, runVars, diskVars, loopVars
<1>0. mesh \in [Localities -> SUBSET Copy] /\ arrived \subseteq Localities /\ tree \in Trees
  BY DEF LoopInv, LoopTypeOK
<1>1. mesh'[l] = Copies(tree, cells, l)
  BY <1>0 DEF LoopInv, StageInv, Copies
<1>2. LoopTypeOK'
  <2>1. Copies(tree, cells, l) \subseteq Copy
    BY <1>0, LeavesAreFinite DEF Copies, Mine, Copy, LoopInv, LoopTypeOK
  <2>2. mesh' \in [Localities -> SUBSET Copy]
    BY <1>0, <1>1, <2>1
  <2> QED BY <2>2, SameLocalities DEF LoopInv, LoopTypeOK
<1>3. StageInv'
  <2>1. \A k \in arrived \cup {l} : mesh'[k] = Copies(tree, cells, k)
    BY <1>0, <1>1 DEF LoopInv, StageInv
  <2>2. \A k : Mine(tree, k)' = Mine(tree, k) /\ Copies(tree, cells, k)' = Copies(tree, cells, k)
    BY DEF Copies, Mine, LocalityOf, Leaves
  <2>3. Idle /\ Idle' /\ meta' = time' /\ \A k \in Localities : futs'[k] = Mine(tree, k)
    BY DEF LoopInv, StageInv, Idle
  <2>4. Localities' = Localities
    BY SameLocalities
  <2>5. CASE arrived \cup {l} = Localities
    <3>1. stage' = "write" /\ arrived' = {}
      BY <2>5
    <3> QED BY <3>1, <2>5, <2>1, <2>2, <2>3, <2>4 DEF StageInv
  <2>6. CASE arrived \cup {l} # Localities
    <3>1. stage' = "stage2" /\ arrived' = arrived \cup {l}
      BY <2>6
    <3> QED BY <3>1, <2>1, <2>2, <2>3, <2>4 DEF StageInv
  <2> QED BY <2>5, <2>6
<1>4. WritingInv'
  BY DEF LoopInv, StageInv, Idle, WritingInv
<1>5. FilesInv'
  BY DiskKept DEF LoopInv, FilesInv, Overwriting, UnderWay, Idle
<1>6. TimesInv'
  BY DEF LoopInv, TimesInv, Overwriting, Idle
<1>7. SourceInv'
  BY DiskKept DEF LoopInv, SourceInv
<1>8. EndInv'
  BY DEF LoopInv, EndInv, LastFilesDue, Overwriting, UnderWay, Idle
<1> QED BY <1>2, <1>3, <1>4, <1>5, <1>6, <1>7, <1>8 DEF LoopInv

LEMMA SpawnKeepsInv ==
  ASSUME LoopInv, Spawn, UNCHANGED loopVars
  PROVE  LoopInv'
<1> USE DEF Spawn, runVars, diskVars, loopVars
<1>0. /\ LoopTypeOK /\ Idle /\ meta = time /\ tree \in Trees /\ cells \in Nat
      /\ call \in [name : Name, block : BOOLEAN]
      /\ \A l \in Localities : mesh[l] = Copies(tree, cells, l)
  BY DEF LoopInv, LoopTypeOK, StageInv
<1>1. barrier' = [name |-> call.name, nsteps |-> cells, list |-> Entries(tree)]
  BY <1>0, ListsJoined
<1>2. barrier' \in Writing /\ barrier' # NoFile
  <2>1. ASSUME NEW e \in Entries(tree) PROVE e \in Entry
    <3>1. PICK i \in Leaves(tree) : e = [leaf |-> i, group |-> GroupOf(LocalityOf(tree, i))]
      BY DEF Entries
    <3>2. LocalityOf(tree, i) \in Localities
      BY <1>0, SharesAre, LeafHasLocality
    <3>3. GroupOf(LocalityOf(tree, i)) \in 0..(MaxLocalities - 1)
      BY <1>0, <3>2, SharesAre, GroupContainsLocality
    <3>4. i \in Nat
      BY <1>0, LeavesAreFinite
    <3> QED BY <3>1, <3>3, <3>4 DEF Entry
  <2>2. barrier' \in Writing
    BY <1>0, <1>1, <2>1 DEF Writing
  <2> QED BY <2>2, NameAssumption
<1>3. \A g \in Groups : GroupBegin(g) \in Nat /\ GroupBegin(g) < GroupEnd(g)
  <2> SUFFICES ASSUME NEW g \in Groups
               PROVE  GroupBegin(g) \in Nat /\ GroupBegin(g) < GroupEnd(g)
    OBVIOUS
  <2>1. L \in Nat \ {0} /\ G \in 1..L /\ g \in Nat
    BY <1>0, SharesAre DEF Groups
  <2>2. g * L \in Nat /\ G \in Nat \ {0}
    BY <2>1
  <2> QED BY <2>1, <2>2, GroupsAreDisjoint, DivIsQuotient DEF GroupBegin
<1>4. LoopTypeOK'
  BY <1>0, <1>2, <1>3, SameLocalities DEF LoopTypeOK
<1>5. StageInv'
  BY <1>1, <1>2 DEF StageInv, Idle
<1>6. WritingInv'
  <2>1. \A g \in Groups : turn'[g] = GroupBegin(g)
    OBVIOUS
  <2>2. \A l \in Localities : mesh'[l] = Copies(tree, barrier'.nsteps, l)
    BY <1>0, <1>1
  <2>3. barrier'.list = Entries(tree)
    BY <1>1
  <2>4. \A g \in Groups :
          /\ GroupBegin(g) <= turn'[g] /\ turn'[g] <= GroupEnd(g)
          /\ \A l \in Localities : ~(GroupBegin(g) <= l /\ l < turn'[g])
    <3> SUFFICES ASSUME NEW g \in Groups
                 PROVE  /\ GroupBegin(g) <= turn'[g] /\ turn'[g] <= GroupEnd(g)
                        /\ \A l \in Localities : ~(GroupBegin(g) <= l /\ l < turn'[g])
      OBVIOUS
    <3>1. GroupBegin(g) \in Nat /\ GroupBegin(g) < GroupEnd(g) /\ turn'[g] = GroupBegin(g)
      BY <1>3, <2>1
    <3>2. GroupEnd(g) \in Int
      <4>1. L \in Nat \ {0} /\ G \in Nat \ {0} /\ (g + 1) * L \in Nat
        BY <1>0, SharesAre DEF Groups
      <4> QED BY <4>1, DivIsQuotient DEF GroupEnd
    <3> QED BY <3>1, <3>2 DEF Localities
  <2> QED BY <1>0, <2>2, <2>3, <2>4, SameLocalities DEF WritingInv
<1>7. FilesInv'
  BY <1>0, <1>1, <1>2, DiskKept DEF LoopInv, FilesInv, Overwriting, UnderWay, Idle
<1>8. TimesInv'
  BY <1>0, <1>1 DEF LoopInv, TimesInv, Overwriting, Idle
<1>9. SourceInv'
  BY DiskKept DEF LoopInv, SourceInv
<1>10. EndInv'
  BY <1>0, <1>1, <1>2 DEF LoopInv, EndInv, LastFilesDue, Overwriting, UnderWay, Idle
<1> QED BY <1>4, <1>5, <1>6, <1>7, <1>8, <1>9, <1>10 DEF LoopInv

LEMMA Stage3KeepsInv ==
  ASSUME LoopInv, NEW g \in Groups, Stage3(g), UNCHANGED loopVars
  PROVE  LoopInv'
<1> USE DEF Stage3, runVars, loopVars
<1> DEFINE b == barrier.name
           l == turn[g]
<1>0. /\ LoopTypeOK /\ ~Idle /\ b \in Name /\ b \in written /\ g \in 0..(MaxLocalities - 1)
      /\ data \in [Name -> [0..(MaxLocalities - 1) -> SUBSET Copy]]
      /\ turn \in [Groups -> Nat] /\ mesh \in [Localities -> SUBSET Copy]
      /\ barrier' = barrier
  BY SharesAre DEF LoopInv, LoopTypeOK, FilesInv, Writing, Idle
<1>1. PICK t \in Trees :
        /\ barrier.list = Entries(t)
        /\ \A k \in Localities : mesh[k] = Copies(t, barrier.nsteps, k)
        /\ \A h \in Groups :
             /\ GroupBegin(h) <= turn[h] /\ turn[h] <= GroupEnd(h)
             /\ \A k \in Localities : GroupBegin(h) <= k /\ k < turn[h] =>
                  mesh[k] \subseteq data[b][h]
  BY <1>0 DEF LoopInv, WritingInv
<1>2. GroupBegin(g) \in Nat /\ GroupEnd(g) \in Nat /\ GroupEnd(g) <= L
  <2>1. /\ L \in Nat \ {0} /\ G \in Nat \ {0} /\ g \in Nat /\ g + 1 <= G
        /\ (g + 1) * L \in Nat /\ g * L \in Nat
    BY <1>0, SharesAre DEF Groups
  <2>2. (g + 1) * L <= G * L /\ G * L < G * (L + 1)
    BY <2>1, ProductMonotone
  <2> QED BY <2>1, <2>2, DivIsQuotient, DivAtMost DEF GroupBegin, GroupEnd
<1>3. l \in Localities /\ turn' = [turn EXCEPT ![g] = l + 1] /\ l < GroupEnd(g)
  BY <1>0, <1>1, <1>2, SharesAre DEF Localities
<1>4. /\ data'[b][g] = Appended(data[b][g], l, g)
      /\ \A h \in Groups \ {g} : data'[b][h] = data[b][h]
      /\ \A n \in Name \ {b} : data'[n] = data[n]
  BY <1>0, SharesAre
<1>5. Appended(data[b][g], l, g) \subseteq Copy
  <2>1. mesh[l] \subseteq Copy
    BY <1>0, <1>3
  <2>2. data[b][g] \subseteq Copy
    BY <1>0
  <2> QED BY <2>1, <2>2 DEF Appended
<1>6. LoopTypeOK'
  <2>1. data' \in [Name -> [0..(MaxLocalities - 1) -> SUBSET Copy]]
    BY <1>0, <1>5
  <2>2. turn' \in [Groups -> Nat]
    BY <1>0, <1>3
  <2> QED BY <1>0, <2>1, <2>2, SameLocalities DEF LoopTypeOK
<1>7. StageInv'
  <2>1. /\ Localities' = Localities /\ Idle' = Idle /\ \A k : Mine(tree, k)' = Mine(tree, k)
        /\ \A k : Copies(tree, cells, k)' = Copies(tree, cells, k)
    BY SameLocalities DEF Idle, Mine, Copies, LocalityOf, Leaves
  <2> QED BY <2>1 DEF LoopInv, StageInv
<1>8. WritingInv'
  <2>1. ASSUME NEW h \in Groups
        PROVE  /\ GroupBegin(h) <= turn'[h] /\ turn'[h] <= GroupEnd(h)
               /\ \A k \in Localities : GroupBegin(h) <= k /\ k < turn'[h] =>
                    mesh[k] \subseteq data'[b][h]
    <3>1. CASE h # g
      <4>1. turn'[h] = turn[h] /\ data'[b][h] = data[b][h]
        BY <3>1, <1>0, <1>3, <1>4
      <4> QED BY <4>1, <1>1
    <3>2. CASE h = g
      <4>1. turn'[h] = l + 1 /\ data'[b][h] = Appended(data[b][g], l, g)
        BY <3>2, <1>0, <1>3, <1>4
      <4>2. GroupBegin(g) <= l /\ l \in Nat
        BY <1>0, <1>1
      <4>3. GroupBegin(h) <= turn'[h] /\ turn'[h] <= GroupEnd(h)
        BY <4>1, <4>2, <3>2, <1>2, <1>3
      <4>4. ASSUME NEW k \in Localities, GroupBegin(g) <= k, k < l + 1
            PROVE  mesh[k] \subseteq Appended(data[b][g], l, g)
        <5>1. CASE k = l
          BY <5>1 DEF Appended
        <5>2. CASE k # l
          <6>1. k \in Nat /\ k < l /\ l # GroupBegin(g)
            BY <5>2, <4>2, <4>4, <1>2 DEF Localities
          <6> QED BY <6>1, <4>4, <1>1 DEF Appended
        <5> QED BY <5>1, <5>2
      <4> QED BY <3>2, <4>1, <4>3, <4>4
    <3> QED BY <3>1, <3>2
  <2>2. /\ barrier'.list = Entries(t)
        /\ \A k \in Localities : mesh'[k] = Copies(t, barrier'.nsteps, k)
        /\ \A h \in Groups :
             /\ GroupBegin(h) <= turn'[h] /\ turn'[h] <= GroupEnd(h)
             /\ \A k \in Localities : GroupBegin(h) <= k /\ k < turn'[h] =>
                  mesh'[k] \subseteq data'[barrier'.name][h]
    <3>1. mesh' = mesh /\ barrier' = barrier
      BY <1>0
    <3> HIDE DEF Stage3
    <3> QED BY <3>1, <1>1, <2>1
  <2>3. UNCHANGED <<L, G>>
    OBVIOUS
  <2> HIDE DEF Stage3
  <2> QED BY <2>2, <2>3, SameLocalities DEF WritingInv
<1>9. \A n \in Name \ {b} : Intact(n) => Intact(n)'
  BY <1>4, IntactKept
<1>10. FilesInv'
  BY <1>0, <1>9 DEF LoopInv, LoopTypeOK, FilesInv, Overwriting, UnderWay, Idle
<1>11. TimesInv'
  BY <1>0 DEF LoopInv, TimesInv, Overwriting, Idle
<1>12. SourceInv'
  BY <1>0, <1>9 DEF LoopInv, LoopTypeOK, SourceInv
<1>13. EndInv'
  BY <1>0 DEF LoopInv, EndInv, LastFilesDue, Overwriting, UnderWay, Idle
<1> QED BY <1>6, <1>7, <1>8, <1>10, <1>11, <1>12, <1>13 DEF LoopInv

LEMMA Stage4KeepsInv ==
  ASSUME LoopInv, Stage4, UNCHANGED loopVars
  PROVE  LoopInv'
<1> USE DEF Stage4, BarrierReady, runVars, loopVars
<1> DEFINE b == barrier.name
<1>0. /\ LoopTypeOK /\ ~Idle /\ barrier \in Writing /\ b \in Name /\ b \in written
      /\ master \in [Name -> Master \cup {NoFile}]
      /\ barrier' = NoFile /\ Idle'
  BY DEF LoopInv, LoopTypeOK, FilesInv, Writing, Idle
<1>1. /\ master'[b] = [list |-> barrier.list, nsteps |-> barrier.nsteps, time |-> meta]
      /\ master'[b] \in Master
      /\ \A n \in Name \ {b} : master'[n] = master[n]
      /\ data' = data
  BY <1>0 DEF Writing, Master, LoopTypeOK
<1>2. \A n \in Name : n = b \/ Intact(n) => Intact(n)'
  <2>1. \A n : n = b => Intact(n)'
    BY CompletedIsIntact DEF LoopInv
  <2>2. \A n \in Name \ {b} : Intact(n) => Intact(n)'
    BY <1>1, IntactKept
  <2> QED BY <2>1, <2>2
<1>3. LoopTypeOK'
  BY <1>0, <1>1, SameLocalities DEF LoopTypeOK
<1>4. StageInv'
  <2>1. \A k : Mine(tree, k)' = Mine(tree, k)
    BY DEF Mine, LocalityOf, Leaves
  <2>2. stage \notin {"stage1", "stage2", "write"} /\ stage' # "block"
    BY <1>0 DEF LoopInv, StageInv
  <2>3. stage' \notin {"stage1", "stage2", "write"}
    BY <2>2
  <2> QED BY <2>2, <2>3 DEF StageInv
<1>5. WritingInv'
  BY <1>0 DEF WritingInv
<1>6. FilesInv'
  BY <1>0, <1>2 DEF LoopInv, LoopTypeOK, StageInv, FilesInv, Overwriting, UnderWay, Idle
<1>7. TimesInv'
  <2> SUFFICES ASSUME NEW k \in Nat
      PROVE  /\ stage' \notin {"none", "block"} /\ call'.name = X(k) => k * OutputDt <= time'
             /\ X(k) \in Name /\ master'[X(k)] # NoFile => k * OutputDt <= master'[X(k)].time
    BY <1>0 DEF TimesInv, Overwriting
  <2>1. stage' \notin {"none", "block"} /\ call'.name = X(k) => k * OutputDt <= time'
    BY DEF LoopInv, TimesInv
  <2>2. CASE X(k) = b
    BY <1>0, <1>1, <2>1, <2>2 DEF LoopInv, TimesInv, Overwriting
  <2>3. CASE X(k) # b
    BY <1>1, <2>1, <2>3 DEF LoopInv, TimesInv
  <2> QED BY <2>2, <2>3
<1>8. SourceInv'
  BY <1>0, <1>2 DEF LoopInv, LoopTypeOK, SourceInv
<1>9. EndInv'
  <2>1. Final \in Name /\ Analytic \in Name
    BY NameAssumption
  <2>2. ASSUME NEW n \in written \cap {Final, Analytic}, ~(stage' # "block" /\ UnderWay(n)')
        PROVE  master'[n].nsteps = cells'
    <3>1. CASE n = b
      BY <1>0, <1>1, <2>2, <3>1 DEF LoopInv, StageInv, EndInv, UnderWay, Overwriting
    <3>2. CASE n # b
      <4>1. stage = "block" => call.name # n
        BY <3>2 DEF LoopInv, StageInv
      <4>2. ~Overwriting(n) /\ master'[n] = master[n]
        BY <3>2, <2>1, <1>1 DEF Overwriting
      <4> QED BY <4>1, <4>2, <2>2, <1>0 DEF LoopInv, EndInv, UnderWay
    <3> QED BY <3>1, <3>2
  <2>3. \A n : ~Overwriting(n)'
    BY <1>0 DEF Overwriting
  <2>4. UNCHANGED <<written, pc, opts, source, cnt, first, time>> /\ (pc = "start" => stage' = "none")
    BY <1>0 DEF LoopInv, EndInv
  <2> QED BY <2>2, <2>3, <2>4 DEF LoopInv, EndInv, LastFilesDue
<1> QED BY <1>3, <1>4, <1>5, <1>6, <1>7, <1>8, <1>9 DEF LoopInv

-----------------------------------------------------------------------------
(* Calling output_all: a file that is under way or was complete stays one  *)
(* of these.                                                               *)
LEMMA OutputKeepsFiles ==
  ASSUME LoopInv, stage = "none", NEW n \in Name, NEW block \in BOOLEAN, OutputAll(n, block),
         written' = written \cup {n}, UNCHANGED <<L, G, diskVars>>
  PROVE  StageInv' /\ WritingInv' /\ FilesInv'
<1> USE DEF OutputAll, diskVars
<1>1. Idle' = Idle /\ stage' = "barrier" /\ call'.name = n /\ written' = written \cup {n}
  BY DEF Idle
<1>2. StageInv'
  BY <1>1 DEF StageInv
<1>3. WritingInv'
  <2> SUFFICES ASSUME ~Idle PROVE WritingInv'
    BY <1>1 DEF WritingInv
  <2>1. PICK t \in Trees :
        /\ barrier.list = Entries(t)
        /\ \A l \in Localities : mesh[l] = Copies(t, barrier.nsteps, l)
        /\ \A g \in Groups :
             /\ GroupBegin(g) <= turn[g] /\ turn[g] <= GroupEnd(g)
             /\ \A l \in Localities : GroupBegin(g) <= l /\ l < turn[g] =>
                  mesh[l] \subseteq data[barrier.name][g]
    BY DEF LoopInv, WritingInv
  <2> QED BY <2>1, SameLocalities DEF WritingInv
<1>4. FilesInv'
  BY <1>1, DiskKept DEF LoopInv, FilesInv, Overwriting, UnderWay
<1> QED BY <1>2, <1>3, <1>4

(* And when neither the output nor the disk changes.                       *)
LEMMA NoOutputKeepsFiles ==
  ASSUME LoopInv, stage = "none",
         UNCHANGED <<L, G, outputVars, diskVars, written>>
  PROVE  StageInv' /\ WritingInv' /\ FilesInv'
<1> USE DEF outputVars, diskVars
<1>1. Idle' = Idle /\ stage' = "none"
  BY DEF Idle
<1>2. StageInv'
  BY <1>1 DEF StageInv
<1>3. WritingInv'
  <2> SUFFICES ASSUME ~Idle PROVE WritingInv'
    BY <1>1 DEF WritingInv
  <2>1. PICK t \in Trees :
        /\ barrier.list = Entries(t)
        /\ \A l \in Localities : mesh[l] = Copies(t, barrier.nsteps, l)
        /\ \A g \in Groups :
             /\ GroupBegin(g) <= turn[g] /\ turn[g] <= GroupEnd(g)
             /\ \A l \in Localities : GroupBegin(g) <= l /\ l < turn[g] =>
                  mesh[l] \subseteq data[barrier.name][g]
    BY DEF LoopInv, WritingInv
  <2> QED BY <2>1, SameLocalities DEF WritingInv
<1>4. FilesInv'
  BY <1>1, DiskKept DEF LoopInv, FilesInv, Overwriting, UnderWay
<1> QED BY <1>2, <1>3, <1>4

LEMMA NamesDiffer ==
  ASSUME NEW k
  PROVE  X(k) \notin {Final, Analytic, Once} /\ Final \notin {Analytic, Once} /\ Analytic # Once
BY DEF X, Final, Analytic, Once

(* And for a run that may not write.                                       *)
LEMMA OutputIs ==
  ASSUME NEW n, NEW block, Output(n, block)
  PROVE  \/ opts.disable_output /\ UNCHANGED <<outputVars, written>>
         \/ ~opts.disable_output /\ OutputAll(n, block) /\ written' = written \cup {n}
BY DEF Output

LEMMA StartKeepsInv ==
  ASSUME LoopInv, Start
  PROVE  LoopInv'
<1> USE DEF Start, diskVars
<1>0. /\ LoopTypeOK /\ stage = "none" /\ time \in Nat /\ OutputDt \in Nat \ {0}
      /\ pc = "start" /\ tree' \in Trees
      /\ UNCHANGED <<L, G, cells, time, opts, step, first, source, crashes, master, data>>
      /\ Final \notin written /\ Analytic \notin written
  BY LoopAssumption DEF LoopInv, LoopTypeOK, EndInv
<1>1. FirstOutput \in Nat
  BY <1>0, DivIsQuotient DEF FirstOutput
<1>2. CASE /\ UNCHANGED <<outputVars, written>>
           /\ \/ cnt' = cnt /\ pc' = "final"
              \/ cnt' = cnt /\ pc' = "done" /\ opts.mode = "once"
              \/ cnt' = FirstOutput /\ pc' = "loop" /\ opts.mode \notin {"static", "once"}
  <2> USE DEF outputVars
  <2>0. cnt' \in Nat /\ pc' \in {"final", "done", "loop"}
    BY <1>0, <1>1, <1>2 DEF LoopTypeOK
  <2> HIDE DEF Start
  <2>1. LoopTypeOK'
    BY <1>0, <1>2, <2>0, SameLocalities DEF LoopTypeOK
  <2>2. StageInv' /\ WritingInv' /\ FilesInv'
    BY <1>0, <1>2, NoOutputKeepsFiles
  <2>3. TimesInv'
    BY <1>0, <1>2 DEF LoopInv, TimesInv, Overwriting, Idle
  <2>4. SourceInv'
    <3>1. CASE pc' \in {"final", "done"}
      <4>1. opts.mode \in {"static", "once"} => source = NoFile
        BY DEF LoopInv, SourceInv
      <4> QED BY <1>0, <1>2, <3>1, <4>1 DEF SourceInv, Start
    <3>2. CASE cnt' = FirstOutput /\ pc' = "loop"
      <4>1. ASSUME NEW k \in Nat, k * OutputDt <= time PROVE k <= FirstOutput
        BY <1>0, <4>1, DivAtLeast DEF FirstOutput
      <4> QED BY <1>0, <1>2, <3>2, <4>1, DiskKept DEF LoopInv, SourceInv, EndInv
    <3> QED BY <1>2, <3>1, <3>2
  <2>5. EndInv'
    <3>1. source = NoFile => FirstOutput = 0 /\ cnt = 0 /\ opts.mode # "rewrite"
      <4>1. 0 < OutputDt * (0 + 1)
        BY <1>0
      <4> QED BY <4>1, <1>0, <1>1, DivAtMost DEF LoopInv, EndInv, FirstOutput
    <3>2. pc' = "done" => ~LastFilesDue
      BY <1>0, <1>2 DEF LastFilesDue, Start
    <3>3. LastFilesDue' = LastFilesDue
      BY <1>0 DEF LastFilesDue
    <3>4. written' = written /\ opts' = opts /\ source' = source /\ pc' # "start" /\ pc' # "analytic"
      BY <1>0, <1>2, <2>0
    <3>5. pc' \in {"loop", "steps"} => opts'.mode \notin {"static", "once"}
      BY <1>0, <1>2
    <3>6. /\ Final \notin written' /\ Analytic \notin written'
          /\ \A n \in written' \cap {Final, Analytic} : FALSE
      BY <1>0, <3>4
    <3>7. source' = NoFile => opts'.mode # "rewrite" /\ \A k \in 0..(cnt' - 1) : X(k) \in written'
      BY <1>0, <1>2, <3>1, <3>4
    <3> QED BY <3>2, <3>3, <3>4, <3>5, <3>6, <3>7 DEF EndInv
  <2> QED BY <2>1, <2>2, <2>3, <2>4, <2>5 DEF LoopInv
<1>3. CASE /\ opts.mode = "once" /\ pc' = "done" /\ UNCHANGED <<tree, cnt>>
           /\ OutputAll(Once, FALSE) /\ written' = written \cup {Once}
  <2>0. Once \in Name /\ FALSE \in BOOLEAN
    BY NameAssumption
  <2> HIDE DEF Start
  <2>1. LoopTypeOK'
    BY <1>0, <1>3, <2>0, SameLocalities DEF LoopTypeOK, OutputAll
  <2>2. StageInv' /\ WritingInv' /\ FilesInv'
    BY <1>0, <1>3, <2>0, OutputKeepsFiles
  <2>3. TimesInv'
    BY <1>0, <1>3, NamesDiffer DEF LoopInv, TimesInv, Overwriting, Idle, OutputAll
  <2>4. SourceInv'
    BY <1>0, <1>3 DEF LoopInv, SourceInv
  <2>5. EndInv'
    BY <1>0, <1>3, NamesDiffer DEF LoopInv, EndInv, LastFilesDue
  <2> QED BY <2>1, <2>2, <2>3, <2>4, <2>5 DEF LoopInv
<1> QED BY <1>2, <1>3, OutputIs

LEMMA LoopKeepsInv ==
  ASSUME LoopInv, Loop
  PROVE  LoopInv'
<1>0. /\ LoopTypeOK /\ pc = "loop" /\ stage = "none" /\ time \in Nat /\ cnt \in Nat
      /\ first \in BOOLEAN /\ opts.stop_step \in Nat
      /\ OutputDt \in Nat \ {0} /\ StopTime \in Nat /\ step \in Nat
      /\ UNCHANGED <<L, G, tree, cells, time, diskVars, data, master>>
      /\ UNCHANGED <<opts, step, source, crashes>>
      /\ Final \notin written /\ Analytic \notin written
  BY LoopAssumption
     DEF LoopInv, LoopTypeOK, EndInv, Option, Loop, runVars, diskVars
<1>1. ~LoopOver => step <= opts.stop_step /\ time < StopTime
  BY <1>0 DEF LoopOver
<1>2. CASE /\ UNCHANGED <<outputVars, written, cnt, first>>
           /\ \/ pc' = "final"
              \/ pc' = "done" /\ opts.stop_step = 0
              \/ pc' = "steps" /\ step <= opts.stop_step
  <2> USE DEF outputVars
  <2>1. LoopTypeOK'
    BY <1>0, <1>2, SameLocalities DEF LoopTypeOK
  <2>2. StageInv' /\ WritingInv' /\ FilesInv'
    BY <1>0, <1>2, NoOutputKeepsFiles
  <2>3. TimesInv'
    BY <1>0, <1>2 DEF LoopInv, TimesInv, Overwriting, Idle
  <2>4. SourceInv'
    BY <1>0, <1>2, DiskKept DEF LoopInv, SourceInv
  <2>5. EndInv'
    <3>1. pc' = "done" => ~LastFilesDue'
      BY <1>0, <1>2 DEF LoopInv, EndInv, LastFilesDue
    <3> QED BY <1>0, <1>2, <3>1 DEF LoopInv, EndInv
  <2> QED BY <2>1, <2>2, <2>3, <2>4, <2>5 DEF LoopInv
<1>3. ASSUME ~LoopOver, opts.stop_step # 0, OutputDue,
             IF Writes THEN Output(X(cnt), first) ELSE UNCHANGED <<outputVars, written>>,
             first' = (opts.mode = "rewrite" /\ first),
             cnt' = IF opts.mode = "rewrite" THEN cnt ELSE cnt + 1,
             pc' = IF opts.mode = "rewrite" THEN "done" ELSE "steps"
      PROVE  LoopInv'
  <2>0. X(cnt) \in Name
    <3>1. OutputDt * cnt <= StopTime
      BY <1>0, <1>1, <1>3 DEF OutputDue
    <3>2. cnt <= StopTime \div OutputDt /\ StopTime \div OutputDt \in Nat
      BY <1>0, <3>1, DivAtLeast, DivIsQuotient
    <3> QED BY <1>0, <3>2, NameAssumption
  <2>1. CASE ~Writes
    <3>0. /\ UNCHANGED <<outputVars, written>>
          /\ opts.mode # "rewrite" /\ first /\ source # NoFile /\ step <= opts.stop_step
          /\ first' = FALSE /\ cnt' = cnt + 1 /\ pc' = "steps"
      BY <1>1, <1>3, <2>1, <1>0 DEF Writes
    <3> USE DEF outputVars
    <3>1. LoopTypeOK'
      <4>1. cnt' \in Nat /\ first' \in BOOLEAN
        <5>1. cnt' = cnt + 1 /\ first' = FALSE
          BY <3>0
        <5>2. cnt' \in Nat
          BY <1>0, <5>1
        <5>3. first' \in BOOLEAN
          BY <5>1
        <5> QED BY <5>2, <5>3
      <4>2. UNCHANGED <<call, stage, arrived, futs, mesh, meta, barrier, turn, written>>
            /\ pc' = "steps"
        BY <3>0
      <4>3. step <= opts.stop_step
        BY <3>0
      <4> QED BY <1>0, <4>1, <4>2, <4>3, SameLocalities DEF LoopTypeOK
    <3>2. StageInv' /\ WritingInv' /\ FilesInv'
      BY <1>0, <3>0, NoOutputKeepsFiles
    <3>3. TimesInv'
      BY <1>0, <3>0 DEF LoopInv, TimesInv, Overwriting, Idle
    <3>4. SourceInv'
      BY <1>0, <3>0, DiskKept DEF LoopInv, SourceInv
    <3>5. EndInv'
      BY <1>0, <3>0 DEF LoopInv, EndInv
    <3> QED BY <3>1, <3>2, <3>3, <3>4, <3>5 DEF LoopInv
  <2>2. CASE Writes
    <3>0. OutputAll(X(cnt), first) /\ written' = written \cup {X(cnt)}
      BY <1>3, <2>2 DEF Output, OutputDue
    <3> USE DEF OutputAll
    <3>1. LoopTypeOK'
      BY <1>0, <1>1, <1>3, <2>0, <3>0, SameLocalities DEF LoopTypeOK
    <3>2. StageInv' /\ WritingInv' /\ FilesInv'
      <4> HIDE DEF OutputAll
      <4> QED BY <1>0, <2>0, <3>0, OutputKeepsFiles
    <3>3. TimesInv'
      <4>1. ASSUME NEW k \in Nat, X(cnt) = X(k) PROVE k * OutputDt <= time
        BY <4>1, <1>3 DEF X, OutputDue
      <4> QED BY <1>0, <3>0, <4>1 DEF LoopInv, TimesInv, Overwriting, Idle
    <3>4. SourceInv'
      <4> SUFFICES ASSUME source # NoFile, opts.mode # "rewrite"
                   PROVE  SourceInv'
        BY <1>0 DEF LoopInv, SourceInv
      <4>1. ~first /\ cnt' = cnt + 1
        BY <1>0, <1>3, <2>2 DEF Writes
      <4>2. source # X(cnt)
        BY <1>0, <4>1 DEF LoopInv, SourceInv
      <4> QED BY <1>0, <1>3, <3>0, <4>1, <4>2, DiskKept DEF LoopInv, SourceInv
    <3>5. EndInv'
      <4>0. opts.mode \notin {"static", "once"}
        BY <1>0 DEF LoopInv, EndInv
      <4>1. Final # X(cnt) /\ Analytic # X(cnt)
        BY NamesDiffer
      <4>2. Final \notin written' /\ Analytic \notin written'
        BY <1>0, <3>0, <4>1
      <4>3. pc' # "start" /\ pc' # "analytic"
        BY <1>3
      <4>4. source' = NoFile =>
              opts'.mode # "rewrite" /\ \A k \in 0..(cnt' - 1) : X(k) \in written'
        BY <1>0, <1>3, <3>0 DEF LoopInv, EndInv
      <4>5. ~(pc' = "done" /\ LastFilesDue')
        BY <1>0, <1>3 DEF LastFilesDue
      <4> QED BY <1>0, <4>0, <4>2, <4>3, <4>4, <4>5 DEF EndInv
    <3> QED BY <3>1, <3>2, <3>3, <3>4, <3>5 DEF LoopInv
  <2> QED BY <2>1, <2>2
<1> QED BY <1>1, <1>2, <1>3 DEF Loop

LEMMA StepAndRegridKeepsInv ==
  ASSUME LoopInv, StepAndRegrid
  PROVE  LoopInv'
<1> USE DEF StepAndRegrid, outputVars, diskVars
<1>0. /\ LoopTypeOK /\ pc = "steps" /\ stage = "none" /\ stage' = "none"
      /\ tree' \in Trees /\ step' \in Nat /\ cells' \in Nat /\ time' \in Nat /\ time <= time'
      /\ pc' \in {"final", "loop"}
      /\ UNCHANGED <<L, G, outputVars, diskVars, opts, cnt, first, source, written, crashes>>
  <2>1. /\ LoopTypeOK /\ time \in Nat /\ StopTime \in Nat /\ opts.stop_step \in Nat
        /\ RefinementFreq \in Nat \ {0} /\ step \in Nat /\ cells \in Nat /\ tree \in Trees
    BY LoopAssumption DEF LoopInv, LoopTypeOK, Option
  <2>2. NextStep \in Nat
    BY <2>1 DEF NextStep
  <2>3. NextStep >= step
    <3>1. step <= opts.stop_step
      BY DEF LoopInv, LoopTypeOK
    <3> QED BY <2>1, <3>1 DEF NextStep
  <2>4. time' \in Nat /\ time <= time'
    BY <2>1
  <2>5. cells' \in Nat
    BY <2>1, <2>2, <2>3
  <2> QED BY <2>1, <2>2, <2>4, <2>5
<1>1. LoopTypeOK'
  BY <1>0, SameLocalities DEF LoopTypeOK
<1>2. StageInv' /\ WritingInv' /\ FilesInv'
  BY <1>0, NoOutputKeepsFiles
<1>3. TimesInv'
  BY <1>0 DEF LoopInv, TimesInv, Overwriting, Idle
<1>4. SourceInv'
  BY <1>0, DiskKept DEF LoopInv, SourceInv
<1>5. EndInv'
  <2>1. Final \notin written /\ Analytic \notin written
    BY <1>0 DEF LoopInv, EndInv
  <2> QED BY <1>0, <2>1 DEF LoopInv, EndInv
<1> QED BY <1>1, <1>2, <1>3, <1>4, <1>5 DEF LoopInv

LEMMA LastFilesKeepsInv ==
  ASSUME LoopInv, LastFiles
  PROVE  LoopInv'
<1> USE DEF LastFiles, runVars, diskVars
<1>0. PICK n \in {Final, Analytic} :
        /\ LoopTypeOK /\ stage = "none" /\ n \in Name /\ TRUE \in BOOLEAN
        /\ Output(n, TRUE)
        /\ \/ n = Final /\ pc = "final" /\ pc' = IF opts.analytic THEN "analytic" ELSE "done"
           \/ n = Analytic /\ pc = "analytic" /\ pc' = "done"
        /\ UNCHANGED <<L, G, tree, cells, time, master, data>>
        /\ UNCHANGED <<opts, step, cnt, first, source, crashes>>
  BY NameAssumption DEF LoopInv
<1> HIDE DEF LastFiles
<1>1. pc' \in {"analytic", "done"} /\ LastFilesDue' = LastFilesDue
  BY <1>0 DEF LastFilesDue
<1>2. Final # Analytic
  BY NamesDiffer
<1>3. CASE opts.disable_output /\ UNCHANGED <<outputVars, written>>
  <2> USE DEF outputVars
  <2>1. LoopTypeOK'
    BY <1>0, <1>1, <1>3, SameLocalities DEF LoopTypeOK
  <2>2. StageInv' /\ WritingInv' /\ FilesInv'
    BY <1>0, <1>3, NoOutputKeepsFiles
  <2>3. TimesInv'
    BY <1>0, <1>3 DEF LoopInv, TimesInv, Overwriting, Idle
  <2>4. SourceInv'
    BY <1>0, <1>3, DiskKept DEF LoopInv, SourceInv
  <2>5. EndInv'
    BY <1>0, <1>1, <1>3 DEF LoopInv, EndInv, LastFilesDue, Overwriting, UnderWay, Idle
  <2> QED BY <2>1, <2>2, <2>3, <2>4, <2>5 DEF LoopInv
<1>4. CASE ~opts.disable_output /\ OutputAll(n, TRUE) /\ written' = written \cup {n}
  <2>1. /\ stage' = "barrier" /\ call' = [name |-> n, block |-> TRUE]
        /\ UNCHANGED <<arrived, futs, mesh, meta, barrier, turn>>
    BY <1>4 DEF OutputAll
  <2>2. LoopTypeOK'
    BY <1>0, <1>1, <1>4, <2>1, SameLocalities DEF LoopTypeOK
  <2>3. StageInv' /\ WritingInv' /\ FilesInv'
    BY <1>0, <1>4, OutputKeepsFiles
  <2>4. TimesInv'
    BY <1>0, <2>1, NamesDiffer DEF LoopInv, TimesInv, Overwriting, Idle
  <2>5. SourceInv'
    BY <1>0, <1>1, <1>4, DiskKept DEF LoopInv, SourceInv
  <2>6. EndInv'
    <3>1. /\ Final \in written'
          /\ Analytic \in written' => pc' = "done" /\ opts.analytic
          /\ pc' = "analytic" => opts.analytic
          /\ pc' = "done" /\ opts.analytic => Analytic \in written'
      BY <1>0, <1>2, <1>4 DEF LoopInv, EndInv
    <3>2. ASSUME NEW m \in written' \cap {Final, Analytic}, ~(stage' # "block" /\ UnderWay(m)')
          PROVE  (IF Overwriting(m) THEN barrier.nsteps = cells ELSE master[m].nsteps = cells)'
      <4>1. m \in written /\ m # n
        BY <1>4, <2>1, <3>2 DEF UnderWay
      <4>2. Overwriting(m)' = Overwriting(m)
        BY <2>1 DEF Overwriting, Idle
      <4> QED BY <1>0, <2>1, <4>1, <4>2 DEF LoopInv, EndInv, UnderWay
    <3>3. source' = NoFile =>
            opts'.mode # "rewrite" /\ \A k \in 0..(cnt' - 1) : X(k) \in written'
      BY <1>0, <1>4 DEF LoopInv, EndInv
    <3>4. pc' \notin {"start", "loop", "steps"}
      BY <1>1
    <3>5. (\A m \in written \cap {Final, Analytic} : ~(stage # "block" /\ UnderWay(m)) =>
             IF Overwriting(m) THEN barrier.nsteps = cells ELSE master[m].nsteps = cells)'
      BY <3>2
    <3> QED BY <1>0, <1>1, <3>1, <3>3, <3>4, <3>5 DEF EndInv
  <2> QED BY <2>2, <2>3, <2>4, <2>5, <2>6 DEF LoopInv
<1> QED BY <1>0, <1>3, <1>4, OutputIs

LEMMA RestartKeepsInv ==
  ASSUME LoopInv, NEW f \in Name, Restart(f)
  PROVE  LoopInv'
<1> USE DEF Restart, diskVars
<1>1. /\ LoopTypeOK /\ Intact(f) /\ f # NoFile /\ UNCHANGED <<data, master>>
      /\ master[f] \in Master /\ data[f] \in [0..(MaxLocalities - 1) -> SUBSET Copy]
      /\ source' = f /\ written' = {} /\ pc' = "start" /\ stage' = "none" /\ first' = TRUE
      /\ time' = master[f].time /\ opts' \in Options
      /\ opts'.mode \in {"run", "rewrite"} /\ barrier' = NoFile
  BY NameAssumption DEF LoopInv, LoopTypeOK, Intact
<1>2. Idle'
  BY <1>1 DEF Idle
<1>3. LoopTypeOK'
  <2>1. PICK e \in master[f].list : \E m \in data[f][e.group] :
          m.cells = master[f].nsteps /\ tree' = m.tree /\ cells' = m.cells
    OBVIOUS
  <2>2. e \in Entry
    BY <1>1, <2>1 DEF Master
  <2>3. PICK m \in data[f][e.group] : tree' = m.tree /\ cells' = m.cells
    BY <2>1
  <2>4. m \in Copy
    BY <1>1, <2>2, <2>3 DEF Entry
  <2>5. tree' \in Trees /\ cells' \in Nat /\ time' \in Nat
    BY <1>1, <2>3, <2>4 DEF Copy, Master
  <2>6. <<L, G>>' \in Shares
    <3>1. PICK s \in Shares : L' = s[1] /\ G' = s[2]
      OBVIOUS
    <3>2. s \in (1..MaxLocalities) \X (1..MaxLocalities)
      BY OutputAssumption
    <3>3. s = <<s[1], s[2]>>
      BY <3>2
    <3> QED BY <3>1, <3>3
  <2>7. L' \in Nat \ {0} /\ G' \in Nat \ {0}
    BY <2>6, OutputAssumption
  <2>8. turn' \in [0..(G' - 1) -> Nat]
    <3>1. ASSUME NEW g \in 0..(G' - 1) PROVE ((g + 1) * L') \div G' \in Nat
      <4> DEFINE l == L'
      <4>0. g + 1 \in Nat /\ l \in Nat
        BY <2>7
      <4> HIDE DEF l
      <4>1. g + 1 \in Nat /\ (g + 1) * l \in Nat
        BY <4>0
      <4> USE DEF l
      <4> QED BY <4>1, <2>7, DivIsQuotient
    <3> QED BY <3>1
  <2>9. /\ futs' \in [0..(L' - 1) -> SUBSET Nat] /\ mesh' \in [0..(L' - 1) -> SUBSET Copy]
        /\ arrived' \subseteq 0..(L' - 1) /\ meta' \in Nat /\ step' \in Nat /\ cnt' \in Nat
    OBVIOUS
  <2>10. crashes' \in Nat
    BY DEF LoopInv, LoopTypeOK
  <2>11. /\ data' \in [Name -> [0..(MaxLocalities - 1) -> SUBSET Copy]]
         /\ master' \in [Name -> Master \cup {NoFile}]
    BY <1>1 DEF LoopTypeOK
  <2> QED BY <1>1, <2>5, <2>6, <2>8, <2>9, <2>10, <2>11 DEF LoopTypeOK, Localities, Groups
<1>4. StageInv'
  BY <1>1 DEF StageInv
<1>5. WritingInv'
  BY <1>2 DEF WritingInv
<1>6. FilesInv'
  BY <1>1, <1>2 DEF FilesInv
<1>7. TimesInv'
  BY <1>1, <1>2 DEF LoopInv, TimesInv, Overwriting
<1>8. SourceInv'
  <2>1. \A k \in Nat : f = X(k) => k * OutputDt <= time'
    BY <1>1 DEF LoopInv, TimesInv, Intact
  <2>2. Intact(f)'
    BY <1>1, IntactKept
  <2> QED BY <1>1, <2>1, <2>2 DEF SourceInv
<1>9. EndInv'
  BY <1>1 DEF EndInv
<1> QED BY <1>3, <1>4, <1>5, <1>6, <1>7, <1>8, <1>9 DEF LoopInv

-----------------------------------------------------------------------------
LEMMA InitHasInv == LoopInit => LoopInv
<1> SUFFICES ASSUME LoopInit PROVE LoopInv
  OBVIOUS
<1> USE DEF LoopInit, OutputInit
<1>1. Idle
  BY DEF Idle
<1>2. LoopTypeOK
  <2>1. PICK s \in Shares : L = s[1] /\ G = s[2]
    OBVIOUS
  <2>2. s \in (1..MaxLocalities) \X (1..MaxLocalities)
    BY OutputAssumption
  <2>3. s = <<s[1], s[2]>>
    BY <2>2
  <2>4. L \in Nat \ {0} /\ G \in Nat \ {0} /\ <<L, G>> \in Shares
    BY <2>1, <2>2, <2>3
  <2>5. turn \in [Groups -> Nat]
    <3>1. ASSUME NEW g \in Groups PROVE GroupEnd(g) \in Nat
      <4>1. g + 1 \in Nat /\ (g + 1) * L \in Nat
        BY <2>4 DEF Groups
      <4> QED BY <4>1, <2>4, DivIsQuotient DEF GroupEnd
    <3> QED BY <3>1
  <2>6. /\ data \in [Name -> [0..(MaxLocalities - 1) -> SUBSET Copy]]
        /\ master \in [Name -> Master \cup {NoFile}]
        /\ futs \in [Localities -> SUBSET Nat] /\ mesh \in [Localities -> SUBSET Copy]
    OBVIOUS
  <2> QED BY <2>4, <2>5, <2>6 DEF LoopTypeOK
<1>3. StageInv /\ WritingInv /\ FilesInv
  BY <1>1 DEF StageInv, WritingInv, FilesInv
<1>4. TimesInv
  BY <1>1 DEF TimesInv, Overwriting
<1>5. SourceInv /\ EndInv
  BY DEF SourceInv, EndInv
<1> QED BY <1>2, <1>3, <1>4, <1>5 DEF LoopInv

LEMMA StutterKeepsInv ==
  ASSUME LoopInv, UNCHANGED allVars
  PROVE  LoopInv'
<1> USE DEF allVars, runVars, outputVars, diskVars, loopVars
<1>1. \A n : Intact(n) => Intact(n)'
  BY DiskKept
<1>2. LoopTypeOK'
  BY SameLocalities DEF LoopInv, LoopTypeOK
<1>3. StageInv'
  <2>1. /\ \A k : Mine(tree, k)' = Mine(tree, k)
        /\ \A k : Copies(tree, cells, k)' = Copies(tree, cells, k)
    BY DEF Mine, Copies, LocalityOf, Leaves
  <2> QED BY <2>1, SameLocalities DEF LoopInv, StageInv, Idle
<1>4. WritingInv'
  <2> SUFFICES ASSUME ~Idle PROVE WritingInv'
    BY DEF WritingInv, Idle
  <2>1. PICK t \in Trees :
        /\ barrier.list = Entries(t)
        /\ \A l \in Localities : mesh[l] = Copies(t, barrier.nsteps, l)
        /\ \A g \in Groups :
             /\ GroupBegin(g) <= turn[g] /\ turn[g] <= GroupEnd(g)
             /\ \A l \in Localities : GroupBegin(g) <= l /\ l < turn[g] =>
                  mesh[l] \subseteq data[barrier.name][g]
    BY DEF LoopInv, WritingInv
  <2> QED BY <2>1, SameLocalities DEF WritingInv
<1>5. FilesInv'
  BY <1>1 DEF LoopInv, FilesInv, Overwriting, UnderWay, Idle
<1>6. TimesInv'
  BY DEF LoopInv, TimesInv, Overwriting, Idle
<1>7. SourceInv'
  BY <1>1 DEF LoopInv, SourceInv
<1>8. EndInv'
  BY DEF LoopInv, EndInv, LastFilesDue, Overwriting, UnderWay, Idle
<1> QED BY <1>2, <1>3, <1>4, <1>5, <1>6, <1>7, <1>8 DEF LoopInv

(* Every step of the program, the output it waits for, the writers it does *)
(* not wait for, and a kill, keep the invariant.                           *)
THEOREM LoopInvariant == LoopSpec => []LoopInv
<1>1. LoopInv /\ [LoopNext]_allVars => LoopInv'
  <2> SUFFICES ASSUME LoopInv, [LoopNext]_allVars PROVE LoopInv'
    OBVIOUS
  <2>1. CASE Start
    BY <2>1, StartKeepsInv
  <2>2. CASE Loop
    BY <2>2, LoopKeepsInv
  <2>3. CASE StepAndRegrid
    BY <2>3, StepAndRegridKeepsInv
  <2>4. CASE LastFiles
    BY <2>4, LastFilesKeepsInv
  <2>5. CASE OutputStep /\ UNCHANGED loopVars
    <3>1. CASE Barrier
      BY <2>5, <3>1, BarrierKeepsInv
    <3>2. CASE Spawn
      BY <2>5, <3>2, SpawnKeepsInv
    <3>3. CASE Stage4
      BY <2>5, <3>3, Stage4KeepsInv
    <3>4. CASE \E l \in Localities : Stage1(l)
      BY <2>5, <3>4, Stage1KeepsInv
    <3>5. CASE \E l \in Localities : Stage2(l)
      BY <2>5, <3>5, Stage2KeepsInv
    <3>6. CASE \E g \in Groups : Stage3(g)
      BY <2>5, <3>6, Stage3KeepsInv
    <3> QED BY <2>5, <3>1, <3>2, <3>3, <3>4, <3>5, <3>6 DEF OutputStep
  <2>6. CASE \E f \in Name : Restart(f)
    BY <2>6, RestartKeepsInv
  <2>7. CASE UNCHANGED allVars
    BY <2>7, StutterKeepsInv
  <2> QED BY <2>1, <2>2, <2>3, <2>4, <2>5, <2>6, <2>7 DEF LoopNext, Run
<1> QED BY <1>1, InitHasInv, PTL DEF LoopSpec

(* A file that output_all has begun in this run and that nobody is writing *)
(* can be restarted from: its leaves are those of one moment, though steps,*)
(* regrids and the next output went on while it was written.               *)
THEOREM WrittenFilesAreIntact == LoopSpec => []FilesIntact
<1>1. LoopInv => FilesIntact
  BY DEF LoopInv, FilesInv, UnderWay, FilesIntact
<1> QED BY <1>1, LoopInvariant, PTL

(* The file a run goes on from stays as it was, since output_cnt starts    *)
(* beyond its number: a second kill leaves something to start from.        *)
THEOREM RestartFileIsKept == LoopSpec => []SourceKept
<1>1. LoopInv => SourceKept
  BY DEF LoopInv, SourceInv, SourceKept
<1> QED BY <1>1, LoopInvariant, PTL

(* At the end of the program no output is missing or half written.         *)
THEOREM OutputsAreComplete == LoopSpec => []NoOutputLost
<1>1. LoopInv => NoOutputLost
  BY DEF LoopInv, FilesInv, EndInv, Overwriting, UnderWay, Idle, NoOutputLost
<1> QED BY <1>1, LoopInvariant, PTL
=============================================================================
