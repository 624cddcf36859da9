------------------------------ MODULE StudyJobs ------------------------------
(***************************************************************************)
(* The job scripts of src/frontier/run and the correctness gate of         *)
(* src/frontier/check as the sequences of their commands: load modules,    *)
(* write the header of a result file, launch a benchmark, check a verdict. *)
(* FrontierJob runs them.                                                  *)
(*                                                                         *)
(* A job is a record of its script, its nodes, cray (RUN_CRAY) and split   *)
(* (PROBE_SPLIT).  A launch lists the message sizes it measures, in the    *)
(* order of its loop; Ladder holds the sizes that are looked at.           *)
(***************************************************************************)
EXTENDS AllreduceSelection, SequencesExt

CONSTANT Ladder             \* message sizes, ascending

ASSUME LadderAscends ==
  /\ Ladder \in Seq(Nat)
  /\ \A i, k \in DOMAIN Ladder : i < k => Ladder[i] < Ladder[k]

\* The sizes from lo to hi: the loops of osu_allreduce and of the scripts.
Sweep(lo, hi) ==
  SubSeq(Ladder, Cardinality({i \in DOMAIN Ladder : Ladder[i] < lo}) + 1,
                 Cardinality({i \in DOMAIN Ladder : Ladder[i] <= hi}))

\* Commands of a script.
Load(what) == [op |-> "load", what |-> what]
New(file) == [op |-> "header", file |-> file, append |-> FALSE]
Mark(file) == [op |-> "header", file |-> file, append |-> TRUE]
Measure(file, program, buffer, sizes, settings) ==
  [op |-> "launch", file |-> file, program |-> program, buffer |-> buffer,
   sizes |-> sizes, settings |-> settings]
Check(expected) == [op |-> "check", expected |-> expected]

UseMine == <<Load("mine")>>
UseRccl == <<Load("mine"), Load("plugin")>>
UseCray == <<Load("cray")>>

\* Cray's MPI and rccl-tests do not read the settings.
NotOurs == Automatic(StockMpir)

\* osu_allreduce of the own build on GPU buffers, and its wrapped header.
OnDevice(file, sizes, settings) == Measure(file, "osu_mine", "device", sizes, settings)
Fresh(file, sizes, settings) == <<New(file), OnDevice(file, sizes, settings)>>
Cray(file, sizes) == Measure(file, "osu_cray", "device", sizes, NotOurs)

ForcedCcl == Forced("ccl")

-----------------------------------------------------------------------------
\* run_allreduce.sbatch
CPU_MAX == 32 * MiB
GPU_MAX == 4 * GiB
CRAY_MAX(nodes) == IF nodes >= 1024 THEN 4 * MiB ELSE GPU_MAX

Allreduce(j) ==
  UseMine
    \o <<New("A_mpich_host"),
         Measure("A_mpich_host", "osu_mine", "host", Sweep(0, CPU_MAX), Automatic(StockMpir))>>
    \o UseMine \o Fresh("B_mpich_dev", Sweep(0, CPU_MAX), Compositions)
    \o UseRccl \o Fresh("C_mpich_rccl", Sweep(0, GPU_MAX), ForcedCcl)
    \o (IF j.cray THEN UseCray \o <<New("D_cray_gpuaware"),
                           Cray("D_cray_gpuaware", Sweep(0, CRAY_MAX(j.nodes)))>>
        ELSE <<>>)
    \o (IF j.nodes <= 8 THEN UseRccl \o <<New("E_rccl_tests"),
          Measure("E_rccl_tests", "rccl_tests", "device", Sweep(1, GPU_MAX), NotOurs)>>
        ELSE <<>>)

\* run_ml_sync.sbatch: the sizes of three gradients, one launch for each.
Gradients == <<3276800, 12778516, 85000000>>

OneByOne(sizes, file, launch(_)) ==
  FlattenSeq([i \in DOMAIN sizes |-> <<Mark(file), launch(<<sizes[i]>>)>>])

MlSync(j) ==
  UseRccl
    \o OneByOne(Gradients, "C_mpich_rccl", LAMBDA s : OnDevice("C_mpich_rccl", s, ForcedCcl))
    \o (IF j.nodes <= 512
        THEN UseCray \o OneByOne(Gradients, "D_cray_gpuaware",
                                     LAMBDA s : Cray("D_cray_gpuaware", s))
        ELSE <<New("D_cray_gpuaware")>>)
    \o UseMine
    \o OneByOne(Gradients, "B_mpich_dev", LAMBDA s : OnDevice("B_mpich_dev", s, Compositions))

\* The sweep in the order of the other jobs (a mutant).
SmallestFirst == Sweep(1 * KiB, 4 * GiB)

\* run_rccl_8192_sweep.sbatch: largest first.
SIZES == Reverse(Sweep(1 * KiB, 4 * GiB))

RcclSweep(j) ==
  UseRccl \o <<New("C_mpich_rccl")>>
    \o OneByOne(SIZES, "C_mpich_rccl", LAMBDA s : OnDevice("C_mpich_rccl", s, ForcedCcl))

\* run_csel_auto.sbatch: no modules are reset between its launches.
CselAuto(j) ==
  LET sizes == Sweep(1, 256 * MiB)
  IN  UseMine \o Fresh("AUTO_default", sizes, Automatic(StockMpir))
        \o Fresh("AUTO_hmem", sizes, Automatic(StockMpir))
        \o <<Load("plugin")>>
        \o Fresh("AUTO_json", sizes, Automatic(allreduce_rccl_auto))
        \o Fresh("C_forced", sizes, ForcedCcl)
        \o Fresh("AUTO_hybrid", sizes,
                 TwoLevel(32 * KiB, allreduce_ch4_hybrid, allreduce_mpir_hybrid))

\* A two-level selection, then RCCL for comparison.
Hybrid(sizes, settings) ==
  UseRccl \o Fresh("HYBRID", sizes, settings) \o Fresh("RCCL", sizes, ForcedCcl)

HybridProd(j) ==
  Hybrid(Sweep(1 * KiB, 256 * KiB), TwoLevel(16 * KiB, allreduce_ch4_prod, allreduce_mpir_prod))

HybridTest(j) ==
  Hybrid(Sweep(1 * KiB, 256 * KiB),
         TwoLevel(64 * KiB, allreduce_ch4_percomm, allreduce_mpir_percomm))

\* run_csel_confirm.sbatch with the trees and the window that
\* submit_csel_confirm.sh makes of the split: split = 4 hi, window hi/8 to 4 hi.
CselConfirm(j) ==
  Hybrid(Sweep(j.split \div 32, j.split),
         TwoLevel(j.split, AlphaUpto(j.split), CclAbove(j.split)))

\* run_smallalg_probe.sbatch
Algorithms == <<"recursive_doubling", "smp", "recexch", "reduce_scatter_allgather", "tree",
                "recursive_doubling", "smp", "recexch", "ccl">>
Labels == <<"mpir_recursive_doubling", "mpir_smp", "mpir_recexch",
            "mpir_reduce_scatter_allgather", "mpir_tree", "mpir_recursive_doubling_hmem",
            "mpir_smp_hmem", "mpir_recexch_hmem", "rccl">>

SmallAlg(j) ==
  UseRccl \o FlattenSeq([i \in DOMAIN Labels |->
                            Fresh(Labels[i], Sweep(1, 64 * KiB), Forced(Algorithms[i]))])

\* validate.sbatch: two backends, three types and two sizes, then one launch
\* with corrupted data.
Validate(j) ==
  UseMine \o [i \in 1 .. 12 |-> Check("passed")] \o <<Check("failed")>>

Plan(j) ==
  CASE j.script = "run_allreduce" -> Allreduce(j)
    [] j.script = "run_ml_sync" -> MlSync(j)
    [] j.script = "run_rccl_8192_sweep" -> RcclSweep(j)
    [] j.script = "run_csel_auto" -> CselAuto(j)
    [] j.script = "run_hybrid_prod" -> HybridProd(j)
    [] j.script = "run_hybrid_test" -> HybridTest(j)
    [] j.script = "run_csel_confirm" -> CselConfirm(j)
    [] j.script = "run_smallalg_probe" -> SmallAlg(j)
    [] j.script = "validate" -> Validate(j)
=============================================================================
