---------------------------- MODULE ResultChecks ----------------------------
(***************************************************************************)
(* What check_results.sh and monitor.sh show of the files and the job that *)
(* run_allreduce.sbatch leaves behind.                                     *)
(***************************************************************************)
EXTENDS FrontierJob

\* Files the scan looks at: [ABCDE]_*.txt
Scanned == {"A_mpich_host", "B_mpich_dev", "C_mpich_rccl", "D_cray_gpuaware", "E_rccl_tests"}

LaunchOf(file) == CHOOSE i \in Launches : ThePlan[i].file = file

\* Lines that begin with a digit: osu_allreduce prints such, rccl-tests
\* indents its lines.
DataRows(file) == IF file = "E_rccl_tests" THEN <<>> ELSE files[file]

\* The words of an error: printed by ranks that die loudly.
ErrorText(file) ==
  LET i == LaunchOf(file) IN i \in DOMAIN over /\ over[i] \in {"failed", "recursed"}

Flagged(file) == Len(DataRows(file)) = 0 \/ ErrorText(file)

\* The column max= and what its title wants there, or one maximum for all
\* files (a mutant).
MaxShown(file) == Last(DataRows(file)).size
OneWanted(file) == 32 * MiB
MaxWanted(file) == IF file \in {"A_mpich_host", "B_mpich_dev"} THEN 32 * MiB ELSE 1 * GiB

\* The state SLURM reports; monitor.sh lists what is not COMPLETED.
JobState == IF status = "killed" THEN "TIMEOUT" ELSE "COMPLETED"

Noticed(file) ==
  JobState # "COMPLETED" \/ Flagged(file) \/ MaxShown(file) < MaxWanted(file)

\* A result file that lacks rows is noticed, by its flag, by the size it
\* reached or by the state of its job, unless all it lacks is sizes beyond the
\* 1 GiB that check_results.sh wants, which has not followed GPU_MAX.
TruncationNoticed ==
  status # "running" /\ TheJob.script = "run_allreduce" =>
    \A file \in DOMAIN files \cap Scanned :
      Lost(LaunchOf(file)) # {} /\ ~Noticed(file)
        => \A size \in Lost(LaunchOf(file)) : size > 1 * GiB
=============================================================================
