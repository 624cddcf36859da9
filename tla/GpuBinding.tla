----------------------------- MODULE GpuBinding -----------------------------
(***************************************************************************)
(* Which GCD a rank drives: what the launcher puts in its environment, the *)
(* wrapper bind_frontier.sh, and the device osu_allreduce selects among    *)
(* those it can see (init_accel).  A rank is a node and a local rank.      *)
(***************************************************************************)
EXTENDS Integers, Sequences

PPN == 8                    \* ranks of a node
Gcds == 0 .. 7
LocalRanks == 0 .. PPN - 1

Unset == -1                 \* an environment variable that is not set
AllGcds == <<0, 1, 2, 3, 4, 5, 6, 7>>

\* mpiexec -bootstrap slurm: one srun proxy per node forks all its ranks, so
\* the SLURM variables are those of the proxy.
Hydra(node, l) ==
  [MPI_LOCALRANKID |-> l, SLURM_LOCALID |-> 0, PMI_LOCALRANKID |-> Unset,
   SLURM_PROCID |-> node, visible |-> AllGcds]

\* The local-rank -> GCD affinity of the node: the order in which srun
\* --gpu-bind=closest hands out the GCDs.
GPU_MAP == <<4, 5, 2, 3, 6, 7, 0, 1>>

\* srun starts every rank itself and, with --gpu-bind=closest, shows it only
\* the GCD nearest to its cores.
Srun(node, l) ==
  [MPI_LOCALRANKID |-> Unset, SLURM_LOCALID |-> l, PMI_LOCALRANKID |-> Unset,
   SLURM_PROCID |-> node * PPN + l, visible |-> <<GPU_MAP[l + 1]>>]

\* The first of the variables that is set, 0 when none is.
FirstSet(values) ==
  LET set == {i \in 1 .. Len(values) : values[i] # Unset}
  IN  IF set = {} THEN 0 ELSE values[CHOOSE i \in set : \A j \in set : i <= j]

\* A wrapper that trusts SLURM_LOCALID first (used as a mutant).
SlurmFirst(env) ==
  FirstSet(<<env.SLURM_LOCALID, env.MPI_LOCALRANKID, env.PMI_LOCALRANKID>>)

\* The local rank bind_frontier.sh computes.  Neither launcher gets as far as
\* the last variable.
LID(env) == FirstSet(<<env.MPI_LOCALRANKID, env.SLURM_LOCALID, env.PMI_LOCALRANKID>>)

\* bind_frontier.sh: the program it execs sees a single GCD.
Bind(env) == [env EXCEPT !.visible = <<GPU_MAP[(LID(env) % 8) + 1]>>]

\* The local rank osu_allreduce finds, which under srun is the rank in the job.
OmbLocalRank(env) ==
  IF env.MPI_LOCALRANKID # Unset THEN env.MPI_LOCALRANKID ELSE env.SLURM_PROCID

\* init_accel: the visible device number local rank % device count.
Device(env) == env.visible[(OmbLocalRank(env) % Len(env.visible)) + 1]

\* rccl-tests with one GPU per rank, bound to a single one: the only device.
OnlyDevice(env) == env.visible[1]
=============================================================================
