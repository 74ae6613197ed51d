# Octo-Tiger in TLA+

Octo-Tiger simulates self-gravitating fluids on an adaptive octree. Every node of the octree is
an HPX component (`node_server`) that lives on one locality, keeps a small grid of cells, and
talks to its parent, children and neighbors by remote actions and channels. There is no global
barrier inside a timestep: each node runs its own chain of futures, and what keeps thousands of
them together is the bookkeeping of those channels. That bookkeeping is modelled here, with the
tree it runs on, the files it writes, and the index arithmetic that decides which cell of which
node ends up where. The floating-point numerics are not.

## 1. Inventory

### Parts that are modelled

| Part | Code | State | Operations |
|---|---|---|---|
| Timestep agreement | `src/node_server_actions_3.cpp`, `octotiger/channel.hpp` | `dt_`, `step_num`, `current_time`, `local_timestep_channels`, `global_timestep_channel` | start a chunk, post a dt, take the minimum of a subtree, send it up, send the global one down, update |
| Hydro boundaries | `src/node_server.cpp` (`all_hydro_bounds`, `energy_hydro_bounds` and what they call) | `hcycle`, `child_hydro_channels`, `sibling_hydro_channels`, `amr_flags` | restrict, send to neighbors, collect, send AMR boundaries |
| Flux correction | `exchange_flux_corrections`, `recv_hydro_flux_correct` | `aunts`, `nieces`, `niece_hydro_channels` | send fluxes to the aunt, receive, replace own fluxes |
| Cells and ghost cells | `src/grid.cpp`, `src/grid_amr.cpp`, `src/geometry.cpp` | the cells and ghost cells of each grid | restriction, boundaries from neighbors, from the parent and of the domain, prolongation |
| Hydro kernels | `octotiger/unitiger/` (`hydro_impl/reconstruct.hpp`, `hydro_impl/flux.hpp`, `physics_impl.hpp`, `cell_geometry.hpp`), `grid::compute_fluxes` | scratch arrays of each thread: `V`, `D1`, `Q`, `disc`, `AM` | primitive variables, slopes, states at the points of faces, angular momentum correction, fluxes |
| Conserved quantities | `src/grid.cpp` (`next_u`, `diagnostics`), flux correction, prolongation | `U`, `U0`, `F`, `U_out` | fluxes, correction, stages, outflow, refinement and derefinement |
| Refinement marking | `check_for_refinement`, `force_nodes_to_exist`, `regrid_gather`, `src/node_location.cpp` | `is_refined`, `refinement_flag` | check, force, gather |
| Tree formation | `regrid_gather`, `regrid_scatter`, `create_child`, `form_tree`, `set_child_aunt`, `set_aunt`, `src/node_registry.cpp` | `children`, `neighbors`, `aunts`, `nieces`, `amr_flags`, `node_list` | count, kill, number, create, form |
| Balancing and migration | `regrid_gather(true)`, `regrid_scatter`, `copy_to_locality` | `position`, `my_id` and the locality of each node | number, move |
| Gravity solve | `compute_fmm`, `solve_gravity`, `grid::compute_multipoles`, `grid::get_gravity_boundary` | `gcycle`, `neighbor_signals`, `neighbor_gravity_channels`, `child_gravity_channels`, `parent_gravity_channel` | wait for signals, gather multipoles, swap boundaries, interact, expand |
| FMM interactions | `calculate_stencil`, `calculate_stencil_masks`, `compute_ilist`, `update_input` and the loops of the former, the host's and the device's kernels | stencils, masks, lists, input buffers | which pairs of cells interact, on which level, by which kernel |
| Radiation transport | `src/radiation/rad_grid.cpp` | `rcycle`, `child_rad_channels`, `sibling_rad_channels`, `niece_rad_channels` | substeps, exchange, flux correction |
| Silo output | `src/io/silo_out.cpp` | `futs_`, `mesh_vars`, `barrier`, the files | four stages, groups of localities |
| Silo load and restart | `src/io/silo_in.cpp` | the files | read back, rebuild the tree |
| Main loop | `execute_solver`, `hpx_main` | `step_num`, `output_cnt`, `first_call` | chunks, outputs, early ends, final files |

How they interact. `hpx_main` makes a root or loads a file, and calls `execute_solver`, which
alternates outputs, a chunk of steps on the root, and `regrid` (refinement marking, tree
formation, migration, one gravity solve). A step of a node is: one hydro exchange; then for each
of three Runge-Kutta stages fluxes, flux correction, the dt agreement (in stage 0 only), a
gravity solve, the update, and another hydro exchange; then, if asked for, radiation in as many
substeps as the agreed dt demands. Nodes share no memory but two things: the gravity boundaries
between neighbors on one locality, guarded by counting semaphores, and the registries of each
process. All else goes through two kinds of channel: `unordered_channel`, keyed by a cycle number
that travels with the value, and `channel`, which numbers values by order of arrival, so that
nothing says which step a value was meant for.

What makes these parts hard, and what makes them correct:

- *Timestep agreement.* Channels by arrival, remote calls that may overtake one another, children
  a step ahead of their parent. Correct if the dts combined always belong to the same step, if
  everybody advances by the same dt, no leaf by more than its cells allow, nobody past
  `stop_time`, if nothing is left in a channel when a regrid copies nodes without their channels,
  and if nobody waits for ever.
- *Hydro boundaries.* No barrier between exchanges; sender and receiver decide independently
  whether an exchange carries all fields or the energy alone; a side of a node is served by a
  neighbor or by the parent. Correct if every boundary a node computes with is of the stage the
  node is in, and each direction is served exactly once.
- *Flux correction.* A channel by arrival between leaves of different levels, with no
  acknowledgement. Correct only because the boundary exchange holds the finer leaves back.
- *Cells.* Three sources for a ghost cell (a neighbor, the parent, the domain's edge), three
  orders in which they may overwrite each other, halves of coarse cells whose parity depends on
  the ghost width. Correct if after every exchange each ghost cell holds the value of its place.
- *Hydro kernels.* Chains of loops over scratch arrays that outlive the call, each over a ring of
  cells less than the one before, reading one or two cells further; fields of different ghost
  widths. Correct if a flux is made only of this grid's cells of this stage, and both states at a
  point of a face are states at that point.
- *Conserved quantities.* Every stage combines the new cells with those stored before the first;
  outflow must be combined in the same way; a coarse flux must be the sum of the fine ones, also in
  the outflow; a regrid must not lose what left the domain before. Correct if the sum of cells and
  outflow never changes.
- *Refinement.* Demands spread asynchronously through a tree; the first to set a flag passes the
  demand on. Correct if the outcome does not depend on the order and is the least graded tree.
- *Tree formation.* While some nodes still wait to be told their neighbors, others already call
  these. Correct if afterwards all neighbors, aunts and nieces are known and mutual, and every
  node is registered where it lives.
- *Gravity.* Five kinds of waiting in one function, two of them on semaphores that travel with
  the data. Correct if no solve is mixed with another, no buffer is reused while it is read, and
  nobody blocks. The lists are correct if every pair of cells interacts on exactly one level.
- *Radiation.* How many exchanges a step has is computed by every node for itself; refined nodes
  transport too and are overwritten. Correct as hydro boundaries and flux correction are.
- *Output.* Steps go on while files are written from copies; localities of a group append to one
  file in turn. Correct if every file is of one moment and complete, whenever the program is
  killed, and if the file it was started from survives.

### Parts that are not modelled, and why

- *Kernels* (reconstruction, fluxes, Taylor expansions, the radiation solver's implicit part,
  their vectorised and CUDA variants), *equations of state, initial conditions, analytic
  solutions*: floating-point numerics, whose correctness is a matter of accuracy. They are the
  greater part of the source.
- *SCF iteration*: numerics; its collective operations are those of other components.
- *Diagnostics and other recursions over the tree*: every node asks its children and adds up.
- *CUDA stream scheduler, start-up attendance, location ids*: short pieces of arithmetic and
  one loop; see the plan. That a stream may or may not be free is a choice in `Interactions`.
- *Options, printing, profiling, tools that compare or plot files*: no state that other parts
  depend on. Vendored code and build scripts are left aside.

`PROJECT.json` names each with its files.

## 2. Modules

| Module | What it is |
|---|---|
| `LockStep` | abstract specification: in each round all leaves post a limit, one dt is agreed, the least, and every node takes that step once, at its own pace |
| `Timestep` | the distributed protocol; `Abstract == INSTANCE LockStep WITH posted <- ...` is its refinement mapping |
| `HydroBounds` | boundary exchange; at the same time the abstract specification of `FluxCorrection` |
| `FluxCorrection` | EXTENDS `HydroBounds`: its `Advance` is `Work` with the waits for the nieces, `Exchange` is `Interlevel` or `Collect` |
| `HydroKernel` | what a cell's next value is made of: the cells and scratch entries each kernel reads |
| `GhostCells` | EXTENDS `HydroKernel`: index arithmetic of all transfers between grids, with the stages values come from, and the stages between them |
| `Conservation` | fluxes, stages, outflow and regrids with exact integers |
| `Refinement` | marking and gathering, over many regrids |
| `TreeFormation` | EXTENDS `Refinement`: a whole regrid, from the marks to a formed tree, with localities, registry and migration |
| `Gravity` | one solve after another |
| `Interactions` | stencils, masks, lists and all three sets of kernels with what they load from neighbors, and two cells followed down the tree |
| `Radiation` | substeps with exchanges and flux corrections |
| `SiloOutput` | the stages and groups of an output |
| `MainLoop` | EXTENDS `SiloOutput`: `execute_solver` with its outputs, and restarts after a kill |
| `*_proofs` | theorems about `Timestep` (with `LockStep`), `FluxCorrection` (with `HydroBounds`), `GhostCells` (with `HydroKernel`), `Conservation`, `TreeFormation` (with `Refinement`), `Gravity` (with `Interactions`), `Radiation`, `MainLoop` (with `SiloOutput`) |
| `MC*`, `*.cfg` | small instances for TLC |

The protocols take the tree as a constant (`Node`, `Parent`, `Nbr`, `Dir`, `Flip`) with weak
assumptions: neighbors are mutual, children have a parent, and for `FaceAssumption` of
`FluxCorrection` the tree is graded. That the program's trees satisfy them is what `Refinement`
(`LeastGradedTree`) and `TreeFormation` (`NeighborsKnown`, `FluxPartners`) show.

Definitions named "A slip" in a comment are variants of a definition that a plausible mistake in
the code would produce; each property is seen to fail with at least one of them.

### Correspondence with the code

*Channels.* A `channel` is a queue in order of arrival (`Timestep`, `FluxCorrection`,
`Radiation`) or, where a property shows that it never holds two values, a set (`Gravity`). Remote
calls that fill it are kept in a set of their own (`up`, `down`, `wire`), from which any may
arrive next. An `unordered_channel` is a set of values with their cycle: it yields the value of a
cycle whenever that has arrived, so flight and storage need not be told apart.

*Atomicity.* An action runs from one wait to the next: what a task does between two `GET`s
touches only its own node and channels. `Timestep` splits a step into `BeginStep` (the futures of
`timestep_driver_descend`), `PostLeaf`/`PostRefined`, `Update`, `EndStep`; `HydroBounds` splits an
exchange into `Work`, `Interlevel` (after all children's restrictions), `Collect` (after all
boundaries), and `Radiation` does so too; `Gravity` splits a solve into `Wait`, `Upward`,
`Collect`, `Interact`, `Expand`. `Collect` in `Gravity` takes all boundaries at once where the
code takes one after another: none of them enables anything else. In `Refinement` each call handled
is an action, and `refinement_flag` is atomic in the code. In `TreeFormation` the recursions
`regrid_gather` and `regrid_scatter` are one action each, as every handler touches only its own
node and children and the root waits for all; the calls of `form_tree` are actions that interleave.
In `SiloOutput` each locality does each stage on its own.

*Data.* In the protocols a cell, a flux, a multipole is the set of stages or solves it was
computed from. In `GhostCells` a cell's value is the level and place it is the value of, and the
stage of the oldest value in it; interpolation yields a value only if all cells it reads are
those at the right places. In `HydroKernel` a value is the set of fields and cells it was made of,
and an entry of a scratch array that the call has not written is `Stale`; in `GhostCells` a leaf
gets to the next stage only if all of that set holds what the domain has there. In `Conservation` it is
an integer, scaled so that every quotient the behaviors contain is exact, as it is for the reals of
the code (`Quotient` has no value otherwise, so that TLC would stop); the three weights of the stages
(1, 1/4, 2/3) are as in the code. In
`Interactions` a cell is its level and indices through the whole domain, and comparisons of
distances with `theta` are made with squares of integers; a kernel is how often it adds a cell's
attraction to another's, so that a value computed twice or with a mask of zero shows. In `SiloOutput` a file is a set of leaves,
each with its tree and number of steps. Fields that only properties read are marked ghosts. The
test on the cells (`refine_me`), the limit of a leaf's cells and the dts that a chunk of
`MainLoop` adds up are nondeterministic.

*Timestep* takes dt as integers; `MaxDt` rounds down where the code divides reals. That makes
`NeverPastStopTime` exact where the code has rounding error. A tree of the root alone is
excluded (`RootIsRefined`): an unrefined root sends its dt to a parent it has not got.

*FluxCorrection* computes `aunts` and `nieces` from the tree the way `form_tree` leaves them. A
leaf sends its fluxes before it waits for those of its nieces, as in the code.

*GhostCells and Conservation* let all nodes of a level act at once; that exchanges do not mix is
what `HydroBounds` shows. The fields in `GhostCells` stand for the three widths in the code: all
of `H_BW`, one less for angular momentum, one cell of `egas` in an energy exchange. Only
outflow boundaries are modelled. `HydroKernel` numbers directions as `cell_geometry` does, since
half of them are computed and the others copied; it is computed once, before the first state, with
and without `correct_am_hydro` and `cdisc_detect`. `rho` stands for `tau`, `pot` and the species too:
that `pot` is smooth, and that the first species is reconstructed by `minmod` without the
correction, only makes them read less. `experiment` 1 of the reconstruction (0 unless asked for),
`reconstruct_cuda`, which nothing calls, and the source terms beyond what they read are left out. `Conservation` has no sources, floors or switch between energies:
those create what they add.

*Refinement* keeps `Candidates`, the nodes whose cells may pass the test, as a constant; others
never pass it. A call carries the locations it is for; equal calls to one node are one element
of the set, which loses nothing as handling a call twice changes nothing.

*TreeFormation* begins with the root alone or, as after a load, with any graded tree whose nodes
are where their positions put them and which is not formed; the load's `regrid(..., true, ...)` is
`Rebalance`.

*Gravity* begins a regrid's solve with `solve_gravity`'s calls delivered to all nodes. The energy
conversions around the solve change no control and are left out.

*Interactions* has the kernels of `grid_fmm.cpp` (`OldStyle`, used at the root, for the kernel type
OLD, and for SOA_CUDA where no stream is free), those for the host and those for the device, and
chooses among them as `compute_fmm` and the interfaces do, anew for every node. What a kernel
reads of an adjacent node is what `update_input` has put there (`Loaded`): all of it if the
neighbor is on this locality, else the cells of the list that `get_gravity_boundary` packed in the
opposite direction, in that list's order. The variant of the kernels that computes the time
derivative has the same loops and masks and is not told apart. A kernel looks its elements up in
the masks by their index (`Lookup`), as the code does: it may find another element's entry there, and
past the end of the array any value (`Beyond`).

*Radiation* counts dts in units of half the light's crossing time of the finest cell, so that the
rounding of the number of substeps is seen.

*MainLoop* keeps five ways of running: as usual, SCF first, neither hydro nor radiation, one
output only (`output_filename`), rewriting a file; and of the options `stop_step`,
`disable_output`, `bench`, and whether the problem has an analytic solution to write. With an output file named
the model goes on to that output, as the program does with gravity off; with gravity on it gets no
further than the regrid before (`OutputReached`). The outputs that
`run_scf` makes by itself (`src/src/grid_scf.cpp:467`) and the one of the AMR test are left out. A kill loses all but the files; the next run
may have another number of localities and groups. Killing the program while a file is being written
leaves that file incomplete, and a run is only restarted from a complete one.

## 3. Runs

| Run | States | What it shows |
|---|---|---|
| `timestep` | 174 535 | `ChannelsInStep`: no channel ever holds two values, and its value is for the step the receiver is in. `SameClock`, `CflRespected`, `NeverPastStopTime`, `QuietBetweenChunks`. `ImplementsLockStep`: refinement. `Finishes`: the loop comes to one of its ends |
| `stop_step` | violation | `StepsAsDocumented`: the first finding of section 6 |
| `flux_correction` | 118 916 | `FreshBoundaries`, `EnergyAgreed`, `BoundedSkew`, `DrainedAtEnd`: the exchange of boundaries; `FluxOfThisStage`, `NoFluxLeftOver`: the fluxes; `AllExchanged`: with the waits of coarse leaves for fine ones nobody blocks |
| `ghost_cells` | 756 | `GhostsExact`: after every exchange every ghost cell holds the value that belongs there, of this stage, and every stage is made of such values alone |
| `conservation` | 20 440 | `Conserved`: cells and outflow keep their sum through stages, flux correction and regrids |
| `refinement` | 59 542 | `LeastGradedTree`: the tree a regrid makes is exactly the least graded tree with all that was wished for; `NeverAborts`, `RegridEnds` |
| `tree_formation` | 28 965 | `NeighborsKnown`, `FluxPartners`, `FormNeverAborts`, `RegistryComplete`, `EvenShares`, `RegridFinishes` |
| `radiation` | 103 230 | `RadiationFresh`, `RadiationFluxMatches`, `RadiationDrained`, `RadiationDone` |
| `gravity_solves` | 12 770 | `FieldOfThisSolve`, `AliveBoundaries`, `SignalsAtRest`, `AllSolved` |
| `gravity_output` | violation | `OutputReached`: the second finding of section 6 |
| `interactions` | 130 680 | `EachPairOnce`: any two cells of leaves attract each other exactly once; `Reciprocal`: on the same level |
| `main_loop` | 666 778 | `FilesIntact`, `SourceKept`, `NoOutputLost`, `Terminates` |

Bounds, and why they are enough:

- `timestep`: a root with a leaf and a refined child with two leaves, the least tree on which a
  descent passes through a node that is not the root. Three steps in two chunks (`RefFreq` = 2,
  `StopStep` = 2) so that a chunk follows another and the last is short; limits 2 and 6 with
  `StopTime` = 8, so that the cap of `stop_time` binds for some leaves and not for others.
- `stop_step`: the same tree, two steps asked for, time enough for more.
- `flux_correction`: a coarse leaf between two refined nodes, with a niece on either side which
  run independently. The fine leaves at the ends of a row get a side from their parent (at a
  coarse-fine face or at the domain's edge); one in the middle of a row has neighbors on both
  sides and may run ahead of its parent. Two steps of one Runge-Kutta
  stage, two exchanges each: the sequence of full and energy exchanges is passed twice, and fluxes
  of two stages exist. The program has more stages and may have radiation; the safety theorems hold for any number and for both.
- `ghost_cells`: two dimensions; 4 cells and 3 ghosts per side, where the program has 8 and 3 (odd,
  so that the parity of halves is turned round, and 4 cells are the fewest that 3 ghosts of a
  neighbor fit into). Seven trees of up to four levels, coarse-fine borders at faces and corners
  and at the domain's edge; two timesteps with any regrid between them; three stages. The kernels'
  loops have the bounds of the program; in two dimensions there is one angular momentum.
- `conservation`: two dimensions, 2 cells per side, three levels, two regrids (one to refine, one
  to derefine what was refined), three stages. Fluxes are chosen anew for each stage.
  A field is a multiple of 27 * 2^10, which all quotients of these behaviors divide: the run also shows
  that the hypothesis `Exact` of the theorem about it is met.
- `refinement`: five levels in two dimensions, where a demand entails another two levels up and
  reaches across a corner; any number of regrids.
- `tree_formation`: three levels in two dimensions, two nodes that meet at a corner, two
  localities, three regrids: a node is created, killed and created again.
- `radiation`: a niece and its aunt, which is the relation that all others are held by; one and
  two substeps of three stages; two timesteps.
- `gravity_solves`: one pair of neighbors on one locality, which share boundaries, one pair on
  two, which copy; five solves of two kinds.
- `interactions`: 6^3 cells per node, `theta` and its minimum at 1/2, the upper end of the range the options
  name: the helper is 4, the loops go 5 cells either way, stencils reach 3, and the masks have 9 entries per
  dimension where the loops try 11, so that elements alias and are looked up past the end. Trees
  with one refined child and with two that meet at a face or at the centre; one of the two cells starts
  where these meet, the other is near, just outside, or far. Odd helpers, as the default's, have
  masks as wide as the loops. The theorems hold for all sizes.
- `main_loop`: one locality in one group, three in two (a group of one and one of two, so that
  one appends); two trees; outputs due at start, midway and at the end; one kill; eight sets of options, so
  that every way of running and each option occurs, and after a kill others may be given.

Fairness is `WF(Next)` throughout: as long as some task has what it waits for, or a call is
on its way, HPX runs one or delivers one. This is less than HPX gives (it runs every
ready task). It is enough, as every step is progress in a finite computation, and what
is left to fear is a circle of waits. In `MainLoop` a kill is not fair, only the program is.

## 4. What is proved

TLAPS checks these for every tree, every number of stages and steps, and all other constants
that satisfy the assumptions:

| Module | Theorems | From |
|---|---|---|
| `Timestep_proofs` | of `Timestep`: `TypeCorrect`, `Invariance`, `ChannelsStayInStep`, `ClocksAgree`, `StableTimesteps`, `QuietAtRegrid` | `TreeAssumption`, `RootIsRefined`, `DtAssumption` |
| | with `LockStep`: `NeverOvershoots`, `ImplementsAgreement` | those and `LeavesExist` |
| `FluxCorrection_proofs` | of `HydroBounds`: `TypeCorrect`, `Invariance`, `BoundariesAreFresh`, `EnergyOnlyAgreed`, `NoValueTwice`, `SkewIsBounded`, `DrainedAtRegrid` | `TreeAssumption`, `StepAssumption` |
| | of `FluxCorrection`: `FluxImplementsExchange`, `FluxInvariance`, `FluxesOfTheirStage`, `OneFlux`, `NoneLeftAtRegrid` | those and `FaceAssumption` |
| `GhostCells_proofs` | of `HydroKernel`: `KernelsReadGiven` | `GridAssumption` |
| | of `GhostCells`: `CollectedAtPlace`, `RestrictedAtPlace`, `ProlongedAtPlace`, `GhostInvariant`, `GhostsAreExact` | that and `TreesAssumption` |
| `TreeFormation_proofs` | of `Refinement`: `AbortsOutOfReach`, `TreeStaysGraded`, `RegridIsLeast` | `LevelAssumption` |
| | of `TreeFormation`: `TreeInvariant`, `AllNeighborsAreKnown`, `FluxesHavePartners`, `FormingNeverAborts`, `RegistriesAreComplete`, `SharesAreEven` | `LevelAssumption`, `FormationAssumption`, `CandidateAssumption` |
| `Radiation_proofs` | `RadiationInvariant`, `RadiationIsFresh`, `RadiationFluxesMatch`, `RadiationDrains` | `RadiationAssumption`, `NeighborAssumption` |
| `Conservation_proofs` | `NothingLost`, `SlopesCancel`, `MassInvariant`, `MassIsConserved` | `GridAssumption`, `TreesAssumption`, `DataAssumption`; the last two also that `Exact` always holds |
| `Gravity_proofs` | of `Gravity`: `TypeCorrect`, `SolvesNeverMix`, `OneArrivalAtATime`, `FewBoundaries`, `RestingSignals`, `Invariance`, `SignalsCounted` | `TreeAssumption`, `StepAssumption`; `FewBoundaries` and `RestingSignals` also that `Output` is false |
| | of `Interactions`: `PairsInteractOnce`, `ForcesInPairs` | `GridAssumption`, `TreesAssumption`, `PairsAssumption`, and that `MasksFit` |
| | `MasksAreWideEnough` | `GridAssumption`, and that the helper is odd or `theta` >= 2 / helper |
| `MainLoop_proofs` | `LoopInvariant`, `WrittenFilesAreIntact`, `RestartFileIsKept`, `OutputsAreComplete` | `OutputAssumption`, `LoopAssumption`, `NameAssumption` |
| | of the groups: `GroupContainsLocality`, `GroupsAreDisjoint` | that there are as many localities as groups, or more |

The arguments:

- *Timestep.* Nothing in the state says which step a value is for; the ghost does, and the
  invariant ties it to the receiver. Each node is somewhere in a step; from that follows how many
  descents it has made, how many values it has sent to its parent and how many global ones it has
  received, and a channel holds exactly the difference. The invariant states this for each edge
  of the tree, so that the induction is local; `SameClock` follows because all take the values of
  one list of agreed dts, `CflRespected` because a minimum over a subtree (`Below`) is not larger
  than any leaf's limit.
- *LockStep.* That a minimum exceeds no limit is not enough for a refinement, nor for
  `stop_time`: the value that reaches the root must also *be* the limit of a leaf (`AttainInv`).
  When the root takes it, all nodes wait at one time (`DescendRootFacts`), so what the cap allowed
  that leaf is allowed to all (`StopInv`). The step of the root then maps to `Agree`, a leaf's post
  to `Post`, an update to `Take`, and every message to a stutter (`AbstractStep`).
- *HydroBounds.* `Sent` and `Served` count what a node has sent up or sideways and down; the
  invariant says of each channel that it holds exactly the values of the cycles between what the
  sender has sent and what the receiver has taken, each made of that stage alone
  (`StageInv`, `WaitInv`, `ChildInv`, `SiblingInv`). All properties are read off these intervals.
- *FluxCorrection.* Every step is a step of `HydroBounds` or leaves its variables alone, so all
  its theorems carry over. The lemma `HeldBack` is the heart: a niece is never ahead of its aunt
  by a stage, because it needs a boundary from its parent, which needs one from the aunt. From it
  follows that the fluxes between them number at most one, of the aunt's next stage.
- *HydroKernel.* `Given` are the cells as deep as the exchange of all fields goes, one cell less for angular
  momentum. Slopes read one cell to either side and the kernels of reconstruction two, but they
  start two cells from the edge, so nothing outside `Given` is reached, and no scratch entry is read that the
  call has not written (`Rings`). Both states at a point of a face are computed from another cell,
  in another numbering of directions, and are at the same point in cells of half the size (`HalfwayIs`).
  That takes faces that begin at least 3 cells from the edge: `GridAssumption` has `H_BW` >= 3.
- *GhostCells.* A cell beyond a node's own is reached through exactly one side (`SidesAre`, and
  `CoarseSidesAre` in the coarse cells of the parent's size), and the sender's cell is at the same place
  (`AcrossIs`), or is the coarse cell of which the ghost is the half that `Half` says
  (`ParentPlaceIs`). Interpolation needs one more coarse cell all around, of which the parent must have
  got the value itself (`ParentCellIs`). Physical boundaries, one dimension after the
  other, lead to the one cell nearest to the domain's (`PhysicalBoundariesClamp`, by the least
  counterexample in the number of dimensions); so a ghost beyond the domain's edge is a copy
  of a cell that a neighbor or the parent has filled before. The induction follows an
  exchange: upwards, own cells become of this stage level by level (`InnerFresh`); downwards,
  ghosts do (`AllFresh`), as the level above has collected before. That ghosts keep at least their place from
  exchange to exchange (`AllRight`) is what slopes need after an exchange of the energy.
- *Conservation.* The invariant adds to `Conserved` what makes its next step hold. Between two fluxes
  of one face: after `compute_fluxes` both nodes beside it have the same, as a face has one place
  (`SamePlace`); after the correction a coarser leaf has the average of its nieces' instead
  (`Corrected`). Then what enters one leaf through a face leaves another, in each of three cases: a
  neighbor of its level, its nieces, its aunt (`EvenBalance`, `AuntBalance`); within a leaf, what
  leaves a cell enters the next (`Telescopes`); what is left is what `next_u` adds to `U_out`
  (`NothingLost`). A stage blends what it computes with what was stored, so that must have had the same
  mass (`Keeps`); as a stage begins with the mass there was and loses none, the blend has it too
  (`StageMass`). During an exchange, nodes of the levels that have restricted have what their children
  have, in cells and in outflow (`Restores`), so when a regrid comes all have, and the mass is
  that of the root, whatever the tree (`LeafSum`, `TreeMass`). Regrid must restore that for
  the nodes it refines: slopes toward opposite octants are each other's negatives (`SlopesCancel`),
  so the new cells average to the old one, and one child gets the outflow (`ToFirstChild`).
  The proofs rearrange sums over leaves, faces, cells and octants, for which the
  module begins with a small theory of `SumFunction`: that its fold is well defined is shown by the
  least counterexample in the size of the domain (`AddsExists`, `AddsIs`), and its laws (sums, multiples,
  renaming, sums over pairs, exchange of two sums) by the smallest subset without them.
  Why `Exact`: in the reals nothing is left over. In integers something may be, and is then lost; so the
  theorem is about the behaviors on which the integers do what the reals do. TLC has checked
  the invariant on the run's instance before it was proved.
- *Refinement.* A call asks only for locations of the domain that are finer than the node asked
  (`CallInv`). Passing a demand on keeps this: to a child or a neighbor go only locations below
  it, and the rest goes to the parent, which is coarser still and exists for all but the root
  (`ParentIsLoc`). All locations but the root's own are below the root, so it has no rest.
  For the tree (`GradedInv`): the tree stays graded, so a demand gets in one step to where it must
  (`Near`); every flagged node has wished it or is next to a flagged one (`Justified`), and what
  the flagged ones demand is met or asked for by a call on its way (`Promised`). When no call is left, the
  flags are the wishes and what these need, whatever the order was. `Needed` is defined level by level,
  from the finest; that it is what is flagged is an induction on levels, by the least
  counterexample (`LeastElement`).
- *TreeFormation.* A node is told its neighbors by its parent, so while the tree is being formed
  each node knows them, or a call on its way will tell it, or its parent has not been told
  either (`CallsInv`). What it is told is right because a child's
  neighbors are siblings or children of the parent's neighbors (`ChildNeighborsAreRight`). What
  is known across a leaf's face lags behind by a call of `set_child_aunt` (`NieceInv`, `AuntInv`);
  no aunt is set twice, so no abort is reached, as what lies across a face, and back again, is
  one node (`BackAcross`). At the end all are told: a node of the least level that is not would
  have a parent that is (`AllAreTold`). A node is told once it is in the registry, so the registry must
  hold nothing of an earlier tree when the forming begins: all nodes have left it by then, those that
  make no check of their own with their parents (`RegistryInv`, `WithinInv`).
- *Positions.* `PositionOf` is a recursive function whose steps are themselves recursive sums. The sum over
  elder siblings is the number of nodes below any of them (`SumOfSizes`: a function that satisfies
  the recursion of the sum is exhibited, and any other agrees with it, by the least counterexample in the
  number of siblings), as no node is below two of one level (`OneAbove`). That the recursion by
  levels has a solution at all is `PositionsExist`. A node and all below it then have the numbers of an
  interval as long as they are many; it is within the parent's (`WithinParent`) and apart
  from those of siblings (`AfterElders`). Of two nodes one is below the other, or they are below
  two siblings (`Branch`), so their numbers differ; there are as many numbers as nodes, so
  none is missing (`PositionsNumber`). The share of one locality is an interval of positions
  (`OneShare`, by the bounds of a quotient).
  Positions and localities stay what the scattering made them until nodes are next
  killed (`PlacedInv`), which gives `EvenShares`.
- *Gravity.* Again each channel holds what lies between two counters, and nothing but values of
  its solve. A semaphore is at one, plus the boundaries the neighbor has given back (or the node has
  signalled to itself, for copies), minus the solves begun (`SignalInv`); that it never falls below
  zero bounds the neighbors' distance, from which `AliveBoundaries` follows. `SignalsCounted` is
  this invariant's induction.
- *Radiation.* As for hydro boundaries, an `unordered_channel` holds the cycles between two counters,
  and the flux channels, which are by arrival, hold at most one value; but how many exchanges a
  step has is computed anew for every step. So a cycle alone does not say at which stage of which
  step it is, nor whether fluxes follow. The invariant says that there is *one* history for all: two
  functions from stages to the timestep, and to the stages done in it, that every node agrees
  with as far as it has come (`TimelineInv`). It grows when the first node gets to a stage, and the
  nodes that follow compute the same from the same dt. A niece then has its flux ready for every
  stage that its aunt has come through (`Corrected`), and between the two there is nothing or the flux
  of the stage the aunt is in (`FluxInv`).
- *Interactions.* Two cells are near on all levels down to some level, and far on those below it,
  as halving indices never turns far into near: of the relations between ancestors the invariant
  keeps that their parents were near as long as none has received the other. Each kernel, by a
  lemma of its own, lets one cell receive another exactly once if their parents are near and,
  between two multipoles, they themselves are far, and not at all otherwise. That takes four facts.
  Coarse indices relative to a node, with integer divisions of negative numbers, are the parents'
  indices. Elements of the stencil, and the cell itself, have places of their own in the masks
  (`MaskIndexIsUnique`, digits in base `STENCIL_INX`), so that a mask is as good as the stencil for
  them; any other element a kernel tries has no near parents, so it does not matter what is
  found in its place (`MasksAreNear`). This needs `MasksFit`, that the stencil fits the masks: these
  are `2 * STENCIL_WIDTH_HELPER + 1` wide and the loops over them
  `2 * STENCIL_WIDTH + 1`, which is the same if the helper is odd. If it is even the masks are narrower, and
  wide enough if `theta` is 2 / helper or more (`MasksAreWideEnough`); so they are with the minima 0.34, 1/3 and
  1/2, but nothing in the code ensures it (section 6). A cell a kernel reads was loaded: it is in a pair of the list, and as the far side of
  an adjacent node never is, a message never has as many cells as a node and is never taken for
  a whole one. No skip of `p2m_kernel` hides a multipole. `GridAssumption` (`theta` not below its
  minimum, stencils within adjacent nodes) is what the options and an assertion in `main` check.
- *MainLoop.* The localities of a group write their file in turn, from what they copied in an
  earlier stage, while the tree already changes. `StageInv` says what each stage has collected so
  far, `WritingInv` that all copies are of one tree and one moment and that those who had their turn
  are in the file; with `FilesInv`, every file this run has begun is under way or complete. That
  the file a run was started from is never written is arithmetic over two runs: `X.k` is never written
  before `k * OutputDt` (`TimesInv`), so a run that starts from it counts beyond `k` before its
  first output (`SourceInv`). `EndInv` follows the outputs due up to the ends of `execute_solver`: the last files
  are due where the loop is left at its end, with output enabled, and the analytic one if there is a solution.
- *SiloOutput.* Group of a locality and first locality of a group are two formulas with divisions
  that must be inverse to one another.

On the assumptions that serve the proofs: `CandidateAssumption` (in `TreeFormation`) says that a
node that may be made to refine by a neighbor has a check of its own; the program's nodes all
have one, `Candidates` only bounds whose cells may pass the test. `NeighborAssumption` and
`RadiationAssumption` describe a graded tree, as in the other protocols. `NameAssumption` says that
the set of names covers those the loop makes up, and that none of these is the mark for no file.

## 5. What is only model-checked

The liveness properties alone: `Finishes`, `AllExchanged`, `RegridEnds`, `RegridFinishes`,
`RadiationDone`, `AllSolved` and `Terminates`, as liveness under fairness and `ENABLED` are out of the
prover's reach, and that the data of the run `conservation` are `Exact`. Every invariant, and the
refinement of `LockStep`, is proved. The library's induction theorems cannot be instantiated, as they
take an operator; where induction is needed, a least counterexample in the natural numbers
serves (`LeastElement`, from the well-foundedness of `<`): for what is defined level by level, for
sums (`SumOfSizes`, and the theory of sums in `Conservation_proofs`) and for powers of
two. There are no modules with RECURSIVE operators: recursion is by recursive functions or folds.

## 6. Findings and observations

`stop_step` shows a disagreement: `execute_solver` takes `stop_step` + 1 steps, or none if it is 0
(`src/src/node_server_actions_3.cpp:327`, 331 and 354), while the option is documented as "number of
timesteps to run" (`src/src/options.cpp:140`). The models take as many as the code.

`gravity_output` shows another: with an output file named, `regrid` asks `compute_fmm` for
the accelerations alone; then no boundaries are sent (`src/src/node_server.cpp:410`) but all are
awaited (435-437). Every node with a neighbor blocks, and the file is never written.

Seen while reading, and not the subject of a run:

- `run_scf` calls `all_hydro_bounds` on the root alone (`src/src/grid_scf.cpp:668`): a refined root
  waits for restrictions that its children never send. This happens with radiation and the white
  dwarf equation of state; `MainLoop` leaves that configuration out.
- `rotational_time` is restored as 2 pi times the time unless the problem is a binary
  (`src/src/grid.cpp:2034`), where `driving_time` would be expected.
- After an exchange of the energy alone, AMR ghosts of `egas` are interpolated with slopes from
  cells of the parent that lie deeper than that exchange goes, so are of an earlier stage.
  `GhostsExact` exempts exactly these.
- At a regrid without radiation the ghosts of all fields but `egas` are one stage old, and the
  slopes of prolongation come from them; parents' restricted `tau` and `egas` predate
  `dual_energy_update`; ghosts of new children are zero up to their first exchange.
- `field_bw` has a 3 where `H_BW` is `OCTOTIGER_BW`, and so have the faces of `flux`
  (`octotiger/unitiger/hydro_impl/flux.hpp:33`).
- Without `correct_am_hydro`, `f > lx_i + NANGMOM` in `reconstruct`
  (`octotiger/unitiger/hydro_impl/reconstruct.hpp:272`) counts the first species among the angular
  momenta: it gets `minmod` slopes, and `use_disc_detect` has no effect on it.
- With a leaf as the root, only `ilist_d` is used, and pairs whose parents are far from each other
  are lost.
- An `OCTOTIGER_THETA_MINIMUM` whose `int(2 / theta)` is even (0.333, 0.49, 0.5) makes `STENCIL_INX`
  smaller than the loops over the masks assume (`interaction_constants.hpp:39-47`), and these read
  beyond the masks, without consequence for the pairs (`PairsInteractOnce`). With such a minimum and a `theta`
  below 2 / helper (0.49 at a minimum of 0.49; 0.333 at one of 0.333) the stencil itself does not fit:
  `calculate_stencil_masks` writes to places of other elements and past the end, which `MasksFit` excludes.
- `p2p_cpu_kernel::cell_interactions` initialises `tmpstore1` twice and `tmpstore2` never
  (`src/src/monopole_interactions/p2p_cpu_kernel.cpp:83-92`), and so relies on Vc's zeros.
  `fill_received_array` and the blocked loops of `multipole_cpu_kernel` are never called.
- `output_filename` makes the program end while its file is being written, by waiting for nothing.
- `zone_count` in the Silo writer's `node_list_` is never cleared between outputs
  (`src/src/io/silo_out.cpp:559-563`); nothing reads the surplus. A locality without nodes reads an
  empty registry (`silo_out.cpp:95`); `reconstruct_tree` takes an entry for every child without a
  test (`silo_in.cpp:336`). `grid::restore` swaps indices, but is never called.

## 7. Plan

Done, in this order: timestep agreement; hydro boundaries; flux correction, composed with the
latter; refinement; gravity; tree formation with migration, composed with refinement; radiation;
cells and conserved quantities; output, restart and main loop; interaction lists. What is left:

1. `Radiation` as a refinement of a `HydroBounds` whose number of exchanges per step is chosen by
   the agreed dt; its invariants are proved on their own
2. The assumptions on the tree (`TreeAssumption`, `FaceAssumption`) from `TreeFormation`
3. Reflecting boundaries in `GhostCells`
4. Shares of CUDA streams among workers, and start-up attendance
5. Location ids (`node_location::to_id`, `from_id`) and direction arithmetic, as operators checked
   to be inverse to each other
