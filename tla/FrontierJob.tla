----------------------------- MODULE FrontierJob -----------------------------
(***************************************************************************)
(* One job of the study: the script runs its commands one after the other  *)
(* in one allocation and one shell (module StudyJobs).  Rows of a launch   *)
(* are appended to its result file as they are printed; which algorithm a  *)
(* row measured follows from the settings (module AllreduceSelection) and  *)
(* the GPU of a rank from the launcher (module GpuBinding).                *)
(*                                                                         *)
(* A module command may fail unnoticed, a launch may die after any number  *)
(* of rows, a check may print anything, and the job may reach its walltime *)
(* at any moment.                                                          *)
(***************************************************************************)
EXTENDS GpuBinding, StudyJobs, FiniteSets

CONSTANTS Jobs,             \* the jobs, a sequence
          BetaSwaps,        \* whether composition beta stages: a set of BOOLEAN
          SampleNodes,      \* the nodes whose ranks are looked at
          MaxTroubles       \* bound: failed commands, launches and checks

Scripts == {"run_allreduce", "run_ml_sync", "run_rccl_8192_sweep", "run_csel_auto",
            "run_hybrid_prod", "run_hybrid_test", "run_csel_confirm", "run_smallalg_probe",
            "validate"}

\* The trees apply to any call of a job whose ranks and split they can hold.
ASSUME StudyConstants ==
  /\ \A j \in DOMAIN Jobs :
       /\ Jobs[j].script \in Scripts /\ Jobs[j].cray \in BOOLEAN
       /\ Jobs[j].nodes \in Nat \ {0} /\ Jobs[j].nodes * PPN <= Unlimited
       /\ Jobs[j].split \in 0 .. Unlimited
  /\ BetaSwaps \subseteq BOOLEAN /\ MaxTroubles \in Nat /\ SampleNodes \subseteq Nat

VARIABLES job,            \* the number of the job
          betaSwaps,
          status,         \* of the job: "running", "ended" or "killed"
          at,             \* the command of the plan the script is at
          row,            \* of its launch: the next one, 0 before it is started
          env,            \* of the script: loaded modules, library path
          files,          \* the result files that exist: the rows of each
          ran,            \* what each launch ran with
          over,           \* how each launch ended, what each check printed
          broken,         \* the commands that failed
          fail            \* of the gate: a check did not print what it should

vars == <<job, betaSwaps, status, at, row, env, files, ran, over, broken, fail>>

\* The plans of all jobs and the sizes of their launches, worked out once.
Plans == [j \in DOMAIN Jobs |-> Plan(Jobs[j])]
Sizes == [j \in DOMAIN Jobs |-> [i \in DOMAIN Plans[j] |->
            IF Plans[j][i].op = "launch" THEN Range(Plans[j][i].sizes) ELSE {}]]
TheJob == Jobs[job]
ThePlan == Plans[job]
Command == ThePlan[at]
Commands(op) == {i \in DOMAIN ThePlan : ThePlan[i].op = op}

\* A function with one value put in.
Put(f, x, value) == [y \in DOMAIN f \cup {x} |-> IF y = x THEN value ELSE f[y]]

Running(op) == status = "running" /\ at <= Len(ThePlan) /\ Command.op = op

Troubles == Cardinality(broken)
Trouble == Troubles < MaxTroubles /\ broken' = broken \cup {at}

(***************************************************************************)
(* env.sh.  The library path is the order in which directories holding a   *)
(* libmpi are searched; modules put theirs in front and take them away     *)
(* again, an export stays for the rest of the script.                      *)
(***************************************************************************)
Without(path, lib) ==
  LET kept[k \in 0 .. Len(path)] ==
        IF k = 0 THEN <<>>
        ELSE IF path[k] = lib THEN kept[k - 1] ELSE Append(kept[k - 1], path[k])
  IN  kept[Len(path)]

ModuleLoad(e, m) ==
  [modules |-> e.modules \cup {m},
   path |-> IF m = "cray-mpich" THEN <<"cray">> \o Without(e.path, "cray") ELSE e.path]
ModuleUnload(e, m) ==
  [modules |-> e.modules \ {m},
   path |-> IF m = "cray-mpich" THEN Without(e.path, "cray") ELSE e.path]

\* Back to the default modules of the system, cray-mpich among them.
ModuleReset(e) == ModuleLoad([modules |-> {}, path |-> e.path], "cray-mpich")

\* env.sh without the reset, and with the path appended (mutants).
LoadWithoutReset(e, failed) == e
AppendMine(e) == [e EXCEPT !.path = @ \o <<"mine">>]

LoadBaseModules(e, failed) == IF "reset" \in failed THEN e ELSE ModuleReset(e)

ExportMine(e) == [e EXCEPT !.path = <<"mine">> \o @]

LoadMine(e, failed) ==
  LET base == LoadBaseModules(e, failed)
      bare == IF "unload" \in failed THEN base ELSE ModuleUnload(base, "cray-mpich")
  IN  ExportMine(bare)

LoadCray(e, failed) ==
  LET base == LoadBaseModules(e, failed)
  IN  IF "load" \in failed THEN base ELSE ModuleLoad(base, "cray-mpich")

LoadPlugin(e, failed) ==
  IF "plugin" \in failed THEN e ELSE ModuleLoad(e, "rccl-net-plugin")

\* The libmpi a program linked against `own` gets: its RUNPATH comes last.
LibMpi(e, own) == IF e.path = <<>> THEN own ELSE Head(e.path)
------------------------------------------------------------------------------
\* The job starts in the environment of the shell that submitted it.
Inherited ==
  [modules : {{"rccl-net-plugin"}}, path : {<<"mine">>}]
    \cup [modules : {{"cray-mpich"}, {"cray-mpich", "rccl-net-plugin"}},
          path : {<<"cray">>, <<"mine", "cray">>, <<"cray", "mine">>}]

Init ==
  /\ job \in DOMAIN Jobs /\ betaSwaps \in BetaSwaps
  /\ status = "running" /\ at = 1 /\ row = 0
  /\ env \in Inherited
  /\ files = <<>> /\ ran = <<>> /\ over = <<>>
  /\ broken = {} /\ fail = FALSE

\* The module commands behind a load, as far as they matter here.
ModuleCommands(what) ==
  CASE what = "mine" -> {"reset", "unload"}
    [] what = "cray" -> {"reset", "load"}
    [] what = "plugin" -> {"plugin"}

\* load_mine, load_cray or the plugin.  Nobody looks at their status.
LoadModules ==
  /\ Running("load")
  /\ \E failed \in SUBSET ModuleCommands(Command.what) :
       /\ IF failed = {} THEN UNCHANGED broken ELSE Trouble
       /\ env' = CASE Command.what = "mine" -> LoadMine(env, failed)
                   [] Command.what = "cray" -> LoadCray(env, failed)
                   [] Command.what = "plugin" -> LoadPlugin(env, failed)
  /\ at' = at + 1
  /\ UNCHANGED <<job, betaSwaps, status, row, files, ran, over, fail>>

\* echo ... | tee creates or empties the file, tee -a leaves what there is.
Header ==
  /\ Running("header")
  /\ files' = IF Command.append /\ Command.file \in DOMAIN files THEN files
              ELSE Put(files, Command.file, <<>>)
  /\ at' = at + 1
  /\ UNCHANGED <<job, betaSwaps, status, row, env, ran, over, broken, fail>>

\* The GCD every rank of a launch ends up with.
RankGcds(program) ==
  [node \in SampleNodes |-> [l \in LocalRanks |->
     CASE program = "osu_cray" -> Device(Srun(node, l))
       [] program = "rccl_tests" -> OnlyDevice(Bind(Hydra(node, l)))
       [] OTHER -> Device(Bind(Hydra(node, l)))]]

Stack(program) ==
  [mpi |-> LibMpi(env, IF program = "osu_cray" THEN "cray" ELSE "mine"),
   plugin |-> "rccl-net-plugin" \in env.modules]

\* A script that starts the benchmark in the background (a mutant).
LaunchAndGoOn ==
  /\ Running("launch") /\ row = 0
  /\ ran' = Put(ran, at, Stack(Command.program))
  /\ at' = at + 1
  /\ UNCHANGED <<job, betaSwaps, status, row, env, files, over, broken, fail>>

\* mpiexec or srun starts the ranks.
Launch ==
  /\ Running("launch") /\ row = 0
  /\ ran' = Put(ran, at, Stack(Command.program))
  /\ row' = 1
  /\ UNCHANGED <<job, betaSwaps, status, at, env, files, over, broken, fail>>

\* The allreduce that a launch makes at a size, and what becomes of it.
TheCall(launch, size) == OsuCall(size, TheJob.nodes * PPN, launch.buffer)
Outcome(launch, size) == Selected(launch.settings, TheCall(launch, size), betaSwaps)
Endless(launch, size) ==
  launch.program = "osu_mine" /\ Recurses(launch.settings, TheCall(launch, size), betaSwaps)

Size == Command.sizes[row]
RowsLeft == row <= Len(Command.sizes)

\* The benchmark prints a row and tee -a appends it.
Row ==
  /\ Running("launch") /\ row > 0 /\ RowsLeft
  /\ ~Endless(Command, Size)
  /\ files' = [files EXCEPT ![Command.file] = Append(@, [launch |-> at, size |-> Size])]
  /\ row' = row + 1
  /\ UNCHANGED <<job, betaSwaps, status, at, env, ran, over, broken, fail>>

\* A script with `set -e` (a mutant).
StopAtFailure(how) == IF how = "complete" THEN at + 1 ELSE Len(ThePlan) + 1
\* No `set -e`: the next command follows, however the launch ended.
GoOn(how) == at + 1

\* The loop counter survives the loop (a mutant).
EndAndKeepRow(how) ==
  /\ over' = Put(over, at, how)
  /\ at' = GoOn(how) /\ row' = row
  /\ UNCHANGED <<job, betaSwaps, status, env, files, ran, fail>>

EndLaunch(how) ==
  /\ over' = Put(over, at, how)
  /\ at' = GoOn(how) /\ row' = 0
  /\ UNCHANGED <<job, betaSwaps, status, env, files, ran, fail>>

Complete ==
  /\ Running("launch") /\ row > 0 /\ ~RowsLeft
  /\ EndLaunch("complete") /\ UNCHANGED broken

\* The ranks die, with a message that has a word of an error or without; the
\* rows printed so far stay in the file.
LaunchFails ==
  /\ Running("launch") /\ row > 0
  /\ \E how \in {"failed", "quiet"} : EndLaunch(how)
  /\ Trouble

\* The ranks die of a selection that calls itself.
StackExhausted ==
  /\ Running("launch") /\ row > 0 /\ RowsLeft
  /\ Endless(Command, Size)
  /\ EndLaunch("recursed") /\ UNCHANGED broken

Verdicts == {"passed", "failed", "none"}

\* The last check decides (a mutant).
CheckLast ==
  /\ Running("check")
  /\ \E printed \in Verdicts :
       /\ IF printed = Command.expected THEN UNCHANGED broken ELSE Trouble
       /\ over' = Put(over, at, printed)
       /\ fail' = (printed # Command.expected)
  /\ at' = at + 1
  /\ UNCHANGED <<job, betaSwaps, status, row, env, files, ran>>

\* A launch of the correctness benchmark; its output is searched for the
\* verdict, its status is not looked at.
RunCase ==
  /\ Running("check")
  /\ \E printed \in Verdicts :
       /\ IF printed = Command.expected THEN UNCHANGED broken ELSE Trouble
       /\ over' = Put(over, at, printed)
       /\ fail' = (fail \/ printed # Command.expected)
  /\ at' = at + 1
  /\ UNCHANGED <<job, betaSwaps, status, row, env, files, ran>>

\* Every script ends with status 0, but for the gate: exit $fail.
End ==
  /\ status = "running" /\ at > Len(ThePlan)
  /\ status' = "ended"
  /\ UNCHANGED <<job, betaSwaps, at, row, env, files, ran, over, broken, fail>>

\* The walltime: a hung or slow launch takes the rest of the job with it.
Walltime ==
  /\ status = "running"
  /\ status' = "killed"
  /\ UNCHANGED <<job, betaSwaps, at, row, env, files, ran, over, broken, fail>>

Next == LoadModules \/ Header \/ Launch \/ Row \/ Complete \/ LaunchFails \/ StackExhausted
          \/ RunCase \/ End \/ Walltime

Spec == Init /\ [][Next]_vars
------------------------------------------------------------------------------
Launches == Commands("launch")
Started == DOMAIN ran
Wanted(i) == Sizes[job][i]
Died(i) == i \in DOMAIN over /\ over[i] # "complete"

Rows(i) == IF ThePlan[i].file \in DOMAIN files THEN files[ThePlan[i].file] ELSE <<>>
Measured(i) ==
  {size \in Wanted(i) : \E k \in DOMAIN Rows(i) : Rows(i)[k] = [launch |-> i, size |-> size]}
Lost(i) == Wanted(i) \ Measured(i)

\* Types; a row of a file comes from a started launch into that file and is of
\* a size this was asked for.
TypeOK ==
  /\ job \in DOMAIN Jobs /\ betaSwaps \in BetaSwaps /\ fail \in BOOLEAN
  /\ status \in {"running", "ended", "killed"}
  /\ at \in 1 .. Len(ThePlan) + 1 /\ row \in Nat
  /\ row > 0 => at \in Started /\ row <= Len(Command.sizes) + 1
  /\ env.modules \subseteq {"cray-mpich", "rccl-net-plugin"}
  /\ Range(env.path) \subseteq {"mine", "cray"}
  /\ Started \subseteq Launches /\ broken \subseteq DOMAIN ThePlan
  /\ DOMAIN over \subseteq Started \cup Commands("check")
  /\ \A file \in DOMAIN files : \A k \in DOMAIN files[file] :
       LET r == files[file][k]
       IN  r.launch \in Started /\ ThePlan[r.launch].file = file /\ r.size \in Wanted(r.launch)

-----------------------------------------------------------------------------
\* The loads a launch relies on: from the last one that resets the modules.
Setup(i) ==
  LET loads == {j \in 1 .. i : ThePlan[j].op = "load"}
      bases == {j \in loads : ThePlan[j].what # "plugin"}
  IN  {j \in loads : \A b \in bases : b <= j}

MayUseRccl(launch) ==
  \/ launch.program = "rccl_tests"
  \/ launch.settings.algorithm = "ccl"
  \/ \E k \in DOMAIN launch.settings.mpir : launch.settings.mpir[k].leaf = "ccl"

Baselines == {"A_mpich_host", "B_mpich_dev", "D_cray_gpuaware", "AUTO_default", "AUTO_hmem"}

\* Whatever the shell of the user or the blocks before left behind, and
\* whatever failed in those, a launch whose own module commands work runs the
\* MPI it is named for; with the network plugin when RCCL may be selected,
\* without it when it measures a baseline (run_allreduce.sbatch:79,
\* run_csel_auto.sbatch:43, 55).
RightStack ==
  \A i \in Started :
    Setup(i) \cap broken = {} =>
      LET launch == ThePlan[i]
      IN  /\ ran[i].mpi = (IF launch.program = "osu_cray" THEN "cray" ELSE "mine")
          /\ MayUseRccl(launch) => ran[i].plugin
          /\ launch.file \in Baselines => ~ran[i].plugin

\* Even when module commands fail, a launch of the own build never runs on the
\* libmpi of Cray (env.sh fears that a loaded cray-mpich hijacks it).
NotHijacked ==
  \A i \in Started : ThePlan[i].program # "osu_cray" => ran[i].mpi = "mine"

\* The ranks of a node drive different GCDs, and every launch of a job puts a
\* rank on the same GCD although the launchers set different variables.
OneGcdPerRank ==
  LET programs == {ThePlan[i].program : i \in {i \in Started : ThePlan[i].buffer = "device"}}
      gcds == [p \in programs |-> RankGcds(p)]
  IN  \A p, q \in programs :
        /\ gcds[p] = gcds[q]
        /\ \A node \in SampleNodes : IsInjective(gcds[p][node])

\* A job that comes to its end has tried every launch and check of its plan,
\* however many failed ("one config failing must not abort the rest"), and has
\* a file for each configuration.
FilesAsPlanned ==
  status = "ended" =>
    /\ DOMAIN files = {ThePlan[i].file : i \in Commands("header")}
    /\ DOMAIN over = Launches \cup Commands("check")

\* A launch that lacks rows although it did not die is the last of the job: a
\* walltime never leaves a gap in the middle of a comparison.
ClippedIsLast ==
  \A i \in Started : Lost(i) # {} /\ ~Died(i) => \A j \in Started : j <= i

\* What the order of the launches is for: in the sweep of 8192 nodes a walltime
\* costs the small sizes and not the large ones (run_rccl_8192_sweep.sbatch:18),
\* in the gradient job the slow baseline takes nothing from RCCL and Cray
\* (run_ml_sync.sbatch:84).
WalltimeSparesHeadline ==
  \A i, j \in Launches :
    /\ Measured(j) # {}
    /\ \/ /\ TheJob.script = "run_rccl_8192_sweep"
          /\ \E s \in Wanted(i), t \in Measured(j) : s > t
       \/ TheJob.script = "run_ml_sync" /\ ThePlan[j].file = "B_mpich_dev"
                                     /\ ThePlan[i].file # "B_mpich_dev"
    => Lost(i) = {} \/ Died(i)

-----------------------------------------------------------------------------
\* The size up to which a two-level launch is to go through the host.
Threshold ==
  CASE TheJob.script = "run_csel_auto" -> 32 * KiB
    [] TheJob.script = "run_hybrid_prod" -> 16 * KiB
    [] TheJob.script = "run_csel_confirm" -> TheJob.split
    [] TheJob.script = "run_hybrid_test" ->
         IF TheJob.nodes * PPN <= 32 THEN 8 * KiB
         ELSE IF TheJob.nodes * PPN <= 8192 THEN 16 * KiB ELSE 64 * KiB

TwoLevelFiles == {"HYBRID", "AUTO_hybrid"}
RcclFiles == {"C_mpich_rccl", "C_forced", "RCCL", "rccl", "AUTO_json"}

\* Every row measures what its file is named for: RCCL, or an algorithm of
\* MPICH without RCCL, or up to the threshold one on a copy in the host's
\* memory and RCCL above, whichever of the repository's two accounts of
\* composition beta is right.
IntendedMechanism ==
  \A i \in Started :
    LET launch == ThePlan[i]
        rccl(size) == Outcome(launch, size).at = "rccl"
    IN  launch.program = "osu_mine" =>
          \A size \in Measured(i) :
            IF launch.file \in TwoLevelFiles
            THEN /\ rccl(size) <=> size > Threshold
                 /\ Outcome(launch, size).staged <=> size <= Threshold
            ELSE rccl(size) <=> launch.file \in RcclFiles

\* A selection calls itself only where more fits the swap buffer than the tree
\* below keeps from RCCL (run_hybrid_prod.sbatch:9, "SWAP must equal the
\* ch4/mpir split").
SwapMatchesSplit ==
  \A i \in Started : Died(i) /\ over[i] = "recursed" =>
    LET settings == ThePlan[i].settings
    IN  \E s \in Wanted(i) :
          s <= settings.swap /\ Leaf(settings.mpir, TheCall(ThePlan[i], s)) = "ccl"

\* docs/NOTES.md:290 and run_hybrid_test.sbatch:10: a call that RCCL refuses
\* falls back to an algorithm, and no host buffer reaches the wrapper anyway.
FallbackEnds == \A i \in Started : Died(i) => over[i] # "recursed"

\* The gate lets the study begin only when every check printed the verdict it
\* should, the one with corrupted data included.
GateSound ==
  TheJob.script = "validate" /\ status = "ended" /\ ~fail =>
    \A i \in Commands("check") : over[i] = ThePlan[i].expected
=============================================================================
