----------------------------- MODULE MCFrontier -----------------------------
(***************************************************************************)
(* The scaling job on either side of its two thresholds of nodes, and one  *)
(* job or two of every other script: gradients with and without Cray, the  *)
(* per-communicator trees below and above 32 ranks.                        *)
(***************************************************************************)
EXTENDS ResultChecks

Job(script, nodes) == [script |-> script, nodes |-> nodes, cray |-> TRUE, split |-> 0]

MCLadder ==
  <<8 * KiB, 16 * KiB, 32 * KiB, 64 * KiB, 4 * MiB, 32 * MiB, 1 * GiB, 4 * GiB>>

MCJobs ==
  <<Job("run_allreduce", 8), Job("run_allreduce", 1024),
   [Job("run_allreduce", 9) EXCEPT !.cray = FALSE],
   Job("run_ml_sync", 512), Job("run_ml_sync", 1024), Job("run_rccl_8192_sweep", 8192),
   Job("run_csel_auto", 2), Job("run_hybrid_prod", 512), Job("run_hybrid_test", 2),
   Job("run_hybrid_test", 8), [Job("run_csel_confirm", 16) EXCEPT !.split = 64 * KiB],
   [Job("run_csel_confirm", 2048) EXCEPT !.split = 1 * MiB],
   Job("run_smallalg_probe", 2), Job("validate", 2)>>

MCSampleNodes == {0, 1}

\* The per-communicator trees above 32 ranks, composition beta as
\* run_hybrid_test.sbatch describes it.
PerCommunicator == <<Job("run_hybrid_test", 8), Job("run_hybrid_test", 1024)>>
NeverBeta == {FALSE}
=============================================================================
