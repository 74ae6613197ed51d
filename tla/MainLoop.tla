------------------------------ MODULE MainLoop ------------------------------
(***************************************************************************)
(* execute_solver on the root: chunks of steps between two regrids, with   *)
(* the outputs that fall due between them, the early ends, and the files   *)
(* written at the end.  The program may be killed at any time, and started *)
(* again from a file it has written, with another number of localities.    *)
(***************************************************************************)
EXTENDS SiloOutput

CONSTANTS
  RefinementFreq,  \* refinement_freq(): steps of a chunk
  StopTime,        \* opts().stop_time
  OutputDt,        \* opts().output_dt
  Options,         \* what else the program may be asked for
  MaxCrashes       \* bound: how often the program is killed

(* Besides opts(): whether SCF comes first, neither hydro nor radiation is *)
(* on, or output_filename or rewrite_silo are given, and whether the       *)
(* problem has an analytic solution; SCF is for DWD, which has none.       *)
Option == [mode : {"run", "scf", "static", "once", "rewrite"}, stop_step : Nat,
           disable_output : BOOLEAN, bench : BOOLEAN, analytic : BOOLEAN]

ASSUME LoopAssumption ==
  /\ RefinementFreq \in Nat \ {0} /\ OutputDt \in Nat \ {0}
  /\ StopTime \in Nat /\ MaxCrashes \in Nat
  /\ Options \subseteq Option
  /\ \A o \in Options : o.mode = "scf" => ~o.analytic

X(n) == <<"X", n>>
Final == <<"final", 0>>
Analytic == <<"analytic", 0>>
Once == <<"output_filename", 0>>

(* Every name that is asked for is there, and NoFile is neither a name nor *)
(* what is known of a file.                                                *)
ASSUME NameAssumption ==
  /\ {X(n) : n \in 0..(StopTime \div OutputDt)} \cup {Final, Analytic, Once} \subseteq Name
  /\ NoFile \notin Name \cup Master \cup Writing

VARIABLES
  opts,      \* what this run was asked for
  pc,        \* where execute_solver is
  step,      \* its step_num
  cnt,       \* output_cnt
  first,     \* first_call
  source,    \* opts().restart_filename
  written,   \* the names output_all was called with in this run
  crashes    \* how often the program was killed

loopVars == <<opts, pc, step, cnt, first, source, written, crashes>>
allVars == <<runVars, outputVars, diskVars, loopVars>>

LoopInit ==
  /\ OutputInit
  /\ opts \in Options /\ opts.mode # "rewrite" /\ pc = "start"
  /\ step = 0 /\ cnt = 0 /\ first = TRUE
  /\ source = NoFile /\ written = {} /\ crashes = 0

-----------------------------------------------------------------------------
(* output_all returns at once when output is disabled.                     *)
Output(name, block) ==
  IF opts.disable_output THEN UNCHANGED <<outputVars, written>>
  ELSE OutputAll(name, block) /\ written' = written \cup {name}

(* output_cnt starts at the number of outputs the time would have made.    *)
FirstOutput == time \div OutputDt

(* What execute_solver does before the loop, and where it leaves early.    *)
(* With output_filename it gets here only when gravity is off: the regrid  *)
(* before it would not end (OutputReached in MCGravity's second run).      *)
Start ==
  /\ pc = "start"
  /\ \/ /\ opts.mode = "static" /\ pc' = "final"
        /\ UNCHANGED <<tree, outputVars, written, cnt>>
     \/ /\ opts.mode = "once" /\ pc' = "done"
        /\ Output(Once, FALSE) /\ UNCHANGED <<tree, cnt>>
     \/ /\ opts.mode \notin {"static", "once"} /\ pc' = "loop"
        /\ IF opts.stop_step # 0 THEN tree' \in Trees ELSE tree' = tree
        /\ cnt' = FirstOutput /\ UNCHANGED <<outputVars, written>>
  /\ UNCHANGED <<L, G, cells, time, diskVars, opts, step, first, source, crashes>>

(* A slip: the file a run was started from is written first.               *)
WritesAlways == TRUE

(* Not on the first call after a restart, unless that is what was asked.   *)
Writes == opts.mode = "rewrite" \/ ~first \/ source = NoFile

LoopOver == time >= StopTime \/ step > opts.stop_step
OutputDue == ~opts.disable_output /\ time >= cnt * OutputDt

(* The top of the loop: it ends; the program returns without the last      *)
(* files when no step is asked for; or an output may be due.               *)
Loop ==
  /\ pc = "loop" /\ stage = "none"
  /\ \/ /\ LoopOver /\ pc' = "final"
        /\ UNCHANGED <<outputVars, written, cnt, first>>
     \/ /\ ~LoopOver /\ opts.stop_step = 0 /\ pc' = "done"
        /\ UNCHANGED <<outputVars, written, cnt, first>>
     \/ /\ ~LoopOver /\ opts.stop_step # 0 /\ OutputDue
        /\ IF Writes THEN Output(X(cnt), first) ELSE UNCHANGED <<outputVars, written>>
        /\ first' = (opts.mode = "rewrite" /\ first)
        /\ cnt' = IF opts.mode = "rewrite" THEN cnt ELSE cnt + 1
        /\ pc' = IF opts.mode = "rewrite" THEN "done" ELSE "steps"
     \/ /\ ~LoopOver /\ opts.stop_step # 0 /\ ~OutputDue /\ pc' = "steps"
        /\ UNCHANGED <<outputVars, written, cnt, first>>
  /\ UNCHANGED <<runVars, diskVars, opts, step, source, crashes>>

(* next_step: a chunk ends where stop_step has been passed.                *)
NextStep == IF step + RefinementFreq < opts.stop_step + 1 THEN step + RefinementFreq
            ELSE opts.stop_step + 1

Regrids == NextStep % RefinementFreq = 0

(* A chunk of steps, in which the dts of Timestep add up to some time no   *)
(* later than stop_time; after a full chunk a regrid, which leaves any     *)
(* tree.  After SCF the first chunk is the last, and in a benchmark the    *)
(* first that ends with a regrid.                                          *)
StepAndRegrid ==
  /\ pc = "steps" /\ stage = "none"
  /\ step' = NextStep
  /\ cells' = cells + NextStep - step
  /\ time' \in (time + 1)..StopTime
  /\ IF Regrids THEN tree' \in Trees ELSE tree' = tree
  /\ pc' = IF opts.mode = "scf" \/ (opts.bench /\ Regrids) THEN "final" ELSE "loop"
  /\ UNCHANGED <<L, G, outputVars, diskVars, opts, cnt, first, source, written, crashes>>

(* The files at the end, for which the solver waits: the second only if    *)
(* there is an analytic solution to compare with.                          *)
LastFiles ==
  /\ stage = "none"
  /\ \/ /\ pc = "final" /\ Output(Final, TRUE)
        /\ pc' = IF opts.analytic THEN "analytic" ELSE "done"
     \/ pc = "analytic" /\ Output(Analytic, TRUE) /\ pc' = "done"
  /\ UNCHANGED <<runVars, diskVars, opts, step, cnt, first, source, crashes>>

(* The program is killed, and started again: load_data_from_silo gives     *)
(* every node of the file to the locality its position asks for, and       *)
(* reconstruct_tree creates them from the root down.                       *)
Restart(f) ==
  /\ crashes < MaxCrashes /\ Intact(f)
  /\ crashes' = crashes + 1
  /\ \E s \in Shares : L' = s[1] /\ G' = s[2]
  /\ \E e \in master[f].list : \E m \in data[f][e.group] :
       /\ m.leaf = e.leaf /\ m.cells = master[f].nsteps
       /\ tree' = m.tree /\ cells' = m.cells
  /\ time' = master[f].time
  /\ call' = NoFile /\ stage' = "none" /\ arrived' = {} /\ meta' = 0
  /\ futs' = [l \in 0..(L' - 1) |-> {}] /\ mesh' = [l \in 0..(L' - 1) |-> {}]
  /\ barrier' = NoFile /\ turn' = [g \in 0..(G' - 1) |-> ((g + 1) * L') \div G']
  /\ opts' \in Options /\ opts'.mode \in {"run", "rewrite"} /\ pc' = "start"
  /\ step' = 0 /\ cnt' = 0 /\ first' = TRUE
  /\ source' = f /\ written' = {}
  /\ UNCHANGED diskVars

Run == \/ Start \/ Loop \/ StepAndRegrid \/ LastFiles
       \/ (OutputStep /\ UNCHANGED loopVars)

LoopNext == Run \/ \E f \in Name : Restart(f)

LoopSpec == LoopInit /\ [][LoopNext]_allVars

(* As long as the root or a writer can go on, one does.                    *)
LoopFairSpec == LoopSpec /\ WF_allVars(Run)

-----------------------------------------------------------------------------
Overwriting(n) == ~Idle /\ barrier.name = n

(* Every file of this run that is not being written right now can be       *)
(* restarted from: its leaves are those of one moment, each is in the file *)
(* of its group, though the steps, and another output, went on while they  *)
(* were written.                                                           *)
FilesIntact ==
  \A n \in written :
    master[n] # NoFile /\ ~Overwriting(n) /\ (stage # "none" => call.name # n)
      => Intact(n)

(* A run leaves the file it was restarted from as it is, unless it was     *)
(* asked to rewrite it or came to its end again: a crash at any time       *)
(* leaves something to start from.                                         *)
SourceKept ==
  source # NoFile /\ opts.mode # "rewrite" /\ source \notin {Final, Analytic} => Intact(source)

(* A run that is to leave last files: not if it was only to write one file,*)
(* may not write any, or was asked for no steps.                           *)
LastFilesDue ==
  /\ ~opts.disable_output
  /\ opts.mode = "static" \/ (opts.mode \in {"run", "scf"} /\ opts.stop_step # 0)

(* When the program is over, each output that was begun is complete; the   *)
(* last files, of which the analytic one is for problems with a solution   *)
(* only, show the last step; and a run without a restart has written all X *)
(* files that fell due, in order.                                          *)
NoOutputLost ==
  pc = "done" /\ stage = "none" /\ Idle =>
    /\ \A n \in written : Intact(n)
    /\ \A n \in written \cap {Final, Analytic} : master[n].nsteps = cells
    /\ LastFilesDue => Final \in written /\ (Analytic \in written <=> opts.analytic)
    /\ source = NoFile => \A k \in 0..(cnt - 1) : X(k) \in written

(* The run comes to its end, and so does all writing, also when the last   *)
(* call of output_all did not wait for it.                                 *)
Terminates == <>[](pc = "done" /\ stage = "none" /\ Idle)
=============================================================================
