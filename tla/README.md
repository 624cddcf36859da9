# TLA+ verification of the allreduce work

The repository adds a collective-library (RCCL/NCCL) backend to MPICH's
`MPI_Allreduce`, and holds the programs that measure and validate it: two
stand-alone benchmarks, a modified OSU micro-benchmark (`osu_allreduce`) with
its utility library, and the scripts that bind ranks to GPUs and run sweeps on
Frontier. This directory models those parts in TLA+, checks the models with TLC
on small instances and proves the central facts with TLAPS.

## 1. Inventory

| Component | Source | State it keeps | Operations | What is hard |
|---|---|---|---|---|
| CCL backend | `src/rccl-backend/{allreduce_intra_ccl.c,rccl.c,nccl.c,mpir_cclcomm.h}` | per communicator and rank: `comm->cclcomm`, `cclcomm->rcclcomm` (id, stream, library communicator); the current HIP device | choose CCL or fallback; lazy init (malloc, get id, broadcast, stream, `ncclCommInitRank`, publish); enqueue; synchronise; free | ranks decide for themselves; a rendezvous hidden in a reduction; partial failures that report success; retries; cached device |
| Stand-alone benchmarks | `src/benchmark/*.c`, `src/omb/lambda/allreduce_benchmark_mpi.c` | options, send and receive buffers, corrupted ranks, error counts | parse, bind, fill, corrupt, reduce, validate, sum errors, report | wrap-around of `int8` sums; corruption that cancels; one rank that exits alone |
| `osu_allreduce` | `src/omb/c/mpi/collective/blocking/osu_allreduce.c` | the options it consumes, the buffers, the error totals, the latency array | main (option outcome, buffers, tuning phases, types), the size loop, the iteration loop | sizes doubling from and to option values; options changed half-way; verdict that must reach the exit status |
| OSU options | `src/omb/c/util/osu_util.c`, `osu_util_options.h` | the global `options` | defaults, one handler per option letter, checks after the loop | order of options, limits that are set one at a time |
| OSU buffers and validation | `src/omb/c/util/osu_util_mpi.c`, `osu_util_mpi.h` | send, expected and receive buffers, statistics | fill, compute the expected result, compare, free | two formulas that must agree for every rank, block and iteration; element counts versus byte counts; what a buffer held before |
| Neighbourhoods | `osu_util_mpi.c:1529-1736`, `osu_util.c:1318-1370` | lists of sources and destinations per rank | read a graph file, lay out a grid, refuse a radius | each rank builds its lists alone, yet they must agree; a rank that leaves alone |
| Pair buffers and one-sided windows | `osu_util_mpi.c:2586-2992, 3296-3775` | the buffers of either side, the window, addresses sent to the other rank | allocate, exchange addresses, create the window, use it, free | seven ways to allocate and seven to free, chosen by side, letter, pair and window option, that must match; memory that another rank still reaches into |
| Dummy compute, CUDA kernels | `osu_util_mpi.c`, `kernel.cu` | request state | compute, probe | only in builds with CUDA kernels, for benchmarks that are not in the repository |
| GPU binding | `src/frontier/bind_frontier.sh`, `src/omb/map_rank_to_gpu`, `osu_util_mpi.c:3110-3269`, `src/omb/lambda/*.c` | environment, visible devices, current device | choose local id, map to a GCD, set device | the two launchers set different variables |
| Jobs of the study | `src/frontier/run/*.sbatch`, `src/frontier/env.sh`, `src/frontier/check/validate.sbatch` | result files, environment, settings of the algorithm selection | load modules, write headers, launch a benchmark for some sizes, check a verdict | a step that fails is not noticed until the results are read; what one block leaves for the next; the walltime |
| Algorithm selection | `src/frontier/tuning/*.json`, `allreduce_intra_ccl.c` | the trees and settings of a launch | choose a composition, a leaf, a fallback | three thresholds in three files; a fallback that selects again |
| Checks of results | `src/frontier/check/*.sh` | | count rows, look for words of errors, list jobs | what is truncated and looks complete |
| Java and Python ports, plots, results, build files, tuning tables | `src/omb/java`, `src/omb/python`, `src/frontier/{plots,results*,build,tuning}` | | | vendored, generated or data |

The benchmarks call `MPI_Allreduce` (or RCCL directly); MPICH's algorithm
selection hands the call to the backend with the CVAR `ccl`; the backend calls
HIP and RCCL. `osu_allreduce` reads `options` and writes some of its fields
while it runs. The scripts decide the environment in which everything runs and, through
the trees, which algorithm a size gets; the checking scripts see no more of it than
the files.

## 2. Modules

| Module | Models | Proved about |
|---|---|---|
| `BlockingAllreduce` | what `MPI_Allreduce` promises on any path (abstract) | refinement in `AllreduceCclProofs` |
| `AllreduceCcl` | the CCL backend, one process per rank | `AllreduceCclProofs` |
| `BenchValidate` | buffers, sums and validation of the stand-alone benchmarks (operators) | `SumLemmas`, `AllreduceBenchmarkProofs` |
| `AllreduceBenchmark` | `main()` of the three benchmarks, one process per rank | `AllreduceBenchmarkProofs` |
| `OsuOptions` | `process_options` as a fold of one handler per option over the command line, with the lists of `-T` and `-z` that overrun into the next members, and the words behind the options | `OsuAllreduceProofs` |
| `OsuAllreduce` | `main` and `run_allreduce_loop` of `osu_allreduce` with the latencies and percentiles; uses `OsuOptions` | `OsuAllreduceProofs` |
| `OsuBuffers` | `set_buffer_*` and `validate_*` of point-to-point messages, data-moving collectives and `MPI_Reduce_scatter` (operators) | `OsuDataProofs` |
| `OsuMemory` | buffers and windows of two sides: every `allocate_*` and `free_*` of point-to-point, multi-pair, one-sided and atomic benchmarks | `OsuCollectivesProofs` |
| `OsuNeighborhood` | option `-N` and `omb_neighborhood_create` (operators) | `OsuCollectivesProofs` |
| `OsuCollectives` | a benchmark of any of these operations from allocation to free; uses the three above | `OsuCollectivesProofs`, `OsuDataProofs` |
| `GpuBinding` | launcher environment, `bind_frontier.sh`, `init_accel` (operators) | `FrontierJobProofs` |
| `AllreduceSelection` | settings, trees and the wrapper with its fallback: what an allreduce of some size, ranks and buffer ends up with (operators) | `FrontierJobProofs` |
| `StudyJobs` | eight job scripts and the correctness gate as sequences of commands (operators) | `FrontierPlans` |
| `FrontierJob` | a job that executes such a sequence, with `env.sh`; uses `GpuBinding`, `StudyJobs`, `AllreduceSelection` | `FrontierJobProofs` |
| `ResultChecks` | what `check_results.sh` and `monitor.sh` show of the files and the job; extends `FrontierJob` | `FrontierJobProofs` |

The `MC*` modules extend these and only define small instances, except
`MCBenchSums`, which is a state machine over the operators of `BenchValidate`.

### AllreduceCcl

A rank executes a script of calls (`MPI_Allreduce` with an operation, a
datatype and buffer places, or `MPI_Comm_free`). `pc[r]` names the point in
`MPIR_CCL_Allreduce` and below where another rank, or a failure, can matter:

| `pc` | Code |
|---|---|
| `idle` | between two calls; the `Enter*` actions are the choice of `allreduce_intra_ccl.c` and what precedes the first blocking call of initialisation |
| `bcast` | in `MPIR_Bcast_fallback` of the id (`RootBcast`, `ReceiveId`, `BcastFails`) |
| `stream` | `hipStreamCreate` (`CreateStream`) |
| `initrank`, `joined` | in `ncclCommInitRank` (`Meet`, `InitRankFails`, `RefuseId`) and after it (`Publish`) |
| `issue`, `sync` | `ncclAllReduce` (`Enqueue`) and `hipStreamSynchronize` (`Synchronize`) |
| `fallback` | in MPICH's own algorithm |
| `crashed` | dereferenced a null `rcclcomm` |

`cclcomm`, `rcclcomm`, `dev` and `live` are the C pointers and what is alive
behind them; `bcasts` and `formed` are the identity of the id and of the
meeting; `enq` and `fb` hold which call each operation on a stream or in the
fallback came from, so that a wrong pairing is visible as a wrong `out`.

`KeepsPromise` is the refinement: with `entered` and `left` read from `pos` and
`pc`, and `sum` from `out`, every behaviour of `FairSpec` is one of
`BlockingAllreduce`, where a rank leaves a reduction only after all have entered
it and with the contribution of all.

### Stand-alone benchmarks

The three programs differ in the order and kind of steps, so the module has a
sequence `Steps` per variant and one action per step: being *at* a barrier or a
reduction means having called it. Values are small integers stored modulo 256
for `int8`. A checked call that fails ends the process (`exit` in the HIP and
RCCL checks), and the launcher may then end the job.

### osu_allreduce

`OsuOptions` gives the outcome of a command line, in the order of its options:
a refused option ends the parse. The lists of datatypes and percentiles have 3
and 5 places and no check; further entries land in the members behind them,
in the order of `struct options_t`: types in the session, `MPI_IN_PLACE`, tail
latencies and the validation log with its directory, percentiles in tuning
and the two halves of its threshold. With the log on, a wrong sum is written to a file, which ends
the process if there is no directory to write to (`LogFails`, `Fail`). getopt stops at the
first word that is not an option, and so does the fold (`Operands`).
`OsuAllreduce` starts from that record. The content of a buffer is represented
by the multiple of the fill pattern it holds, or `Junk`; the array of latencies
(`lat`) by the row a sample was taken for, and a percentile by the rows of
the samples it may be. Collectives that every rank must enter (barrier, the
warm-up, the measured reduction, the sum of the errors) are joint actions, while
the reductions to rank 0 let the other ranks run ahead.

### Collectives, point-to-point and one-sided benchmarks

`OsuBuffers` has the two halves of validation as the code has them, separately:
what is written (`FillValue`, `ReduceValue`) and what is expected
(`ValidateCollective`, `ValidateReduceScatter`, ...). The elements of a block are
filled alike, so a buffer is a sequence of one value per block. `OsuCollectives`
moves blocks between the buffers as MPI defines (`Route`, external), and
remembers in `bad` where a block is not the right one, so that the verdict,
which rests on values, can be compared with the truth.

`OsuMemory` knows a block of memory by its rank, the variable it was allocated
for, its allocator and its size. `heap` holds the blocks in use, `ptr` what each
variable points to, `window` what a rank has put into the window, `mail` the addresses
under way to the other rank; `misuse` records a pointer given to the wrong
`free`. The functions choose the allocator by the letters of the two
sides (`SRC` for the lower half of the ranks, `DST` for the upper), and the free
by the same letters once more: that the choices agree is what is checked.

The benchmarks that call these functions for other operations than
`MPI_Allreduce` are not in the repository; the frame (fill, call, validate,
barrier) is the one of `osu_allreduce`, and the sizes of buffers are MPI's.

A rank leaves alone when it reads a line of the graph file it dislikes
(`Start`), and with too large a radius all leave (`Radius`).

### Jobs of the study

`StudyJobs` writes a script as a sequence of four kinds of commands: `load` (the
functions of `env.sh`), `header` (a result file is created or continued), `launch`
(program, buffer, sizes, settings, file) and `check` (a case of the gate).
`FrontierJob` executes the sequence of one job. A script is sequential; what
makes it hard is what carries over from block to block, and that anything may
fail unnoticed.

| Variable | In the script |
|---|---|
| `job`, `at`, `row` | which script and node count, the command it is at, the row of its launch |
| `env` | the loaded modules, and the directories with a `libmpi` in the order they are searched |
| `files` | the result files that exist and their rows |
| `status`, `fail` | of the job; `$fail` of the gate |
| `ran`, `over`, `broken` | what the launches ran on, how they ended, what failed: kept for the properties |
| `betaSwaps` | which of two accounts of MPICH's composition beta holds (below) |

What a row measures follows from `AllreduceSelection`: the settings (`MPIR_CVAR_*`
and the trees) are data of the launch, the trees are sequences of branches
that are tried in order. The upper tree chooses a composition, by size and
sometimes by ranks; alpha stages messages up to the swap size on the host, beta
stages them or not (`run_hybrid_test.sbatch:9` says it does not, the settings of
`run_hybrid_prod.sbatch` make sense if it does; both are checked); the lower
tree chooses an algorithm or the CCL wrapper, and the wrapper hands a
call RCCL cannot take to the selection again (`Recurses` if that leads back).

## 3. What is checked

| Run | Instance | Shows |
|---|---|---|
| `ccl_uniform` | 3 ranks, 2 communicators, a GPU each, scripts of 3 calls, no failures; fair | types; success means reduced; nothing is leaked; all calls return; the abstract specification is implemented |
| `ccl_faults` | 3 ranks, 1 communicator, GPUs that may be shared, buffers anywhere, up to 2 failures of any external call, errors returned | ids agree; nothing is used after it was freed; without a failure ranks are stuck only where they chose differently or share a GPU |
| `ccl_success` | violation | a failed reduction is reported as success |
| `ccl_device` | violation | a buffer on another GPU is reduced on the GPU of the first call |
| `bench` | 3 ranks, 3 programs, 8 command lines; fair | verdicts are exact, injections come first, every rank ends |
| `bench_sums` | up to 16 ranks, clean and corrupted | the validation finds exactly the corrupted elements |
| `bench_int8` | violation, 17 ranks | a correct `int8` sum fails |
| `osu` | 1 to 3 ranks, 41 command lines, one failing call or wrong sum; fair | the table is complete, its verdicts are exact and its tail latencies those of the row; all ranks end alike |
| `osu_exit` | violation | a failed validation exits with success |
| `osu_blocks` | 233 jobs on 2 to 9 ranks: every operation and datatype, in place or not, fixed and rotating root; grids, graphs, refused and broken topologies; buffers of both sides on host and device, every way to make a window; one wrong block or failing call; fair | validation tells right from wrong blocks; topologies agree; buffers are there while used and given back once; a window outlives its use; no rank is left waiting |
| `frontier` | 14 jobs of nine scripts on 2 to 8192 nodes, inherited environments, one failing module command, launch or check, walltime at any moment, both accounts of beta | every launch on its stack and GPUs and with the algorithm its file is named for; the order of launches protects what it should; a cut file is noticed; the gate is sound |
| `selection` | violation | a call RCCL refuses is selected again without end |

**Bounds.** Three ranks are the least for which one rank can be ahead, one
behind and one neither; two communicators are needed for objects to be mixed up
between them; three calls allow a failure, a retry and a call after the retry,
or use, free and reuse. The two failures in `ccl_faults` can hit two ranks in one attempt, or an
attempt and its retry; one communicator suffices there, since no object is shared between
communicators (`ccl_uniform` has two). In `bench_sums` no rank count below 17 wraps on correct
data, and the smaller shapes leave room for every set of corrupted ranks. In
`osu`, sizes run over a scaled `LARGE_MESSAGE_SIZE` of 8, so that iteration
counts change within a table; lists reach up to nine and four entries past their
ends. `IntRange`, half of a `size_t`, is 128 there instead of 2^32, so that a list of `-z` reaches
both halves of a threshold; the directory of the log has room for two entries instead of 256.
In `osu_blocks`, 9 ranks are the least with a grid of two dimensions and radius
1; three iterations show a wrong block, the one after it, and one before;
`MaxEdges` is 3, so that files reach the limit; pairs need 2 ranks and multi-pair
jobs 4; a largest message of 32 bytes holds every message of the jobs. In `frontier` the
node counts lie on either side of the thresholds of the scripts and trees, and
the ladder has a size in each interval between the limits of sweeps, thresholds and swap
sizes (`AllreduceSelection` compares sizes in units of 8 bytes, since 4 GiB is beyond TLC's
integers); ranks of two nodes stand for all, since nothing in the binding
depends on the node but `SLURM_PROCID`.

**Preconditions, named in the modules.**

* `StatusExact` leaves out three cases in which the verdict is not to be trusted
  (`Untrusted`): tuning mode with `MPI_IN_PLACE` overwrites the data in the
  warm-up; a size that is no multiple of the element is compared beyond what
  was written; and a list of `-T` so long that it overruns into `in_place` leaves a
  value there that turns off the filling of the send buffer
  (`osu_util_mpi.c:1303` asks for 0) but not its use (`osu_allreduce.c:46` asks for 1).
  Of a type of floats it says only that no right result fails: a sum that is off
  by less than one passes, since the difference goes through the integer `abs()`
  (`osu_util_mpi.c:2255`).
* `TailFresh` lets a percentile of less than one sample (`TooFew`) be none of the
  samples: it is read before the array.
* `TableComplete` speaks of command lines that do not overrun the lists of `-T` and
  `-z` (`ListsFit`), and of runs that end well without a wrong sum.
* `EveryRankEnds` of `OsuAllreduce` leaves out `-E` without `-S` (`Spins`), which
  doubles 0 for ever, and, through "no rank is lost", validation with the default
  warm-ups outside tuning mode, which aborts on a null buffer (`WarmupRefused`).
* `VerdictExact` of `OsuCollectives` speaks of the blocks in `Visible`: with floats
  the first block only is compared, of a message of integers the first quarter (of
  the element it ends in only some bytes, so that may be noticed or not: `InPart`), of
  a reduce-scatter nothing but at rank 0; and the own block of rank 0 in a gather,
  or in a scatter in place, lies in the buffer beforehand. It leaves out
  broadcasts from another root than 0 (`Misfilled`), which fail although they are
  right. That a wrong block is refused depends on the size as well: see `Plain` in section 4.
* `VerdictExact`, `WindowAlive` and `MemoryBalanced` speak of letters that mean something
  (`KnownLetters`); `MemoryBalanced` names the one block that is never freed
  (`LeftBehind`).
* `RightStack` speaks of blocks whose own module commands worked.
* `TruncationNoticed` lets sizes beyond 1 GiB be lost, as `check_results.sh` does.

**Fairness.** The operating system runs every process, so a step a rank can
take alone, or that the library can complete because all have arrived, is
eventually taken: weak fairness per rank and of the meeting in `AllreduceCcl`,
per rank in `AllreduceBenchmark`. In `OsuAllreduce` and `OsuCollectives` weak fairness of progress as
a whole is assumed, and suffices: no behaviour but `Spins` is infinite without
stuttering. Failures and the walltime are never fair. No
liveness is claimed of `FrontierJob`: a launch may hang.

**Mutants.** `PROJECT.json` names for each property a change of the code it
would notice (the operators marked *mutant* in the modules); these are
among others: enqueueing without synchronising, freeing without destroying, an
`errors` that is not summed over the ranks, a wrapper that trusts
`SLURM_LOCALID`, blocks that do not reset the modules, `set -e`, a launch in the
background, sizes in ascending order, a gate that keeps the last verdict only, a
composition that always copies, a rank taken for one of the other side, an
address nobody receives, a free of memory that belongs to MPI.

## 4. What is proved

| Module | Theorems | Holds for |
|---|---|---|
| `AllreduceCclProofs` | `TypeCorrect`, `IdsAgree`, `NoneDangles` | any finite set of ranks, any communicators, GPUs, scripts, failures and fault bound (`ConstantsAssumption`) |
| | `NoneLeaks` | the same, as long as no external call has failed |
| | `ChecksAreConverted` | the same, whatever fails |
| | `SuccessIsReduction`, `ImplementsPromise` | as long as no external call has failed |
| `AllreduceBenchmarkProofs` | `TypeCorrect`, `CorruptsBeforeReducing`, `LossesGoUnreported`, `VerdictCounts` | any number of ranks, programs and command lines (`BenchConstants`) |
| | `VerdictIsExact` | sizes of jobs at which sums do not wrap (`Sound`) |
| `OsuAllreduceProofs` | `TypeInvariant`, `LockstepAlways`, `RowsCover`, `StatusOfRound`, `TailsAreFresh`, `SizesGrow` | any number of ranks, command lines of the modelled options in any order and number (`OsuConstants`), message sizes and fault bound |
| `FrontierJobProofs` | `TypesHold`, `StackIsRight`, `NeverHijacked`, `GcdsAgree`, `EndsAsPlanned`, `OnlyTheLastIsClipped`, `HeadlineSpared`, `RowsMeasureTheirFile`, `OnlyMismatchRecurses`, `GateHolds`, `TruncationShows` | all scripts, any number of jobs, nodes, troubles and splits, any ascending ladder of sizes (`LadderAscends`, `StudyConstants`) |
| `OsuCollectivesProofs` | `MemoryHolds`, `BuffersStay`, `WindowStays`, `MemoryReturned` | any jobs (`WellMade`): ranks, pairs, sizes, letters, kinds of windows, failures and fault bound |
| | `NeighborsKnown`, `NeighborsDeclared` | the same; grids of any size, dimension and radius, graph files with any lines of ranks (`Declared`) |
| `OsuDataProofs` | `DataHolds`, `TypeCorrect` | the same |
| | `RightAccepted` | the same, any number of wrong blocks |
| | `VerdictsExact` | jobs whose values tell where they come from (`Plain`), with at most one wrong block, or any number where receive buffers are filled anew (`Recleared`) |

`SumLemmas` (sums of functions over finite sets and over `0 .. n - 1`, functions that
refer to themselves) and `FrontierPlans` (the plans of the scripts) hold the lemmas these
rest on.

### AllreduceCcl

**Types.** Typing alone is not inductive, since a
step looks up the call a rank is in, the stream it waits on and the GPU of its
buffer. `TypeInv` adds that (`InCall`): a rank that is not idle has a call
left, on the CCL path its buffer is on a GPU, and what it waits for is there.

**Ids.** The publication of a communicator happens long after the
meeting, and ranks fail and retry in between, so agreement has to be carried
along: `AgreeInv` says that if ranks met under the n-th id, every rank has
received at least n of them (`MetIdsReceived`), that the latest id of a rank
that has published is one of a meeting (`PublishedMet`), and that a rank still
initialising has published nothing, and once joined has its latest id from a
meeting (`InitialisingOK`; without it publishing would not preserve the
second part). Agreement follows: of two ranks that published, each has received
as many ids as the other.

**Pairing.** RCCL and the fallback match operations by their position on the stream,
not by the call they come from. That the k-th operation of each rank comes from
the same call is `PairInv`, the same statement twice, for streams (`enq`) and for
the fallback (`fb`):

* a history holds calls of the script on its communicator, each once, none ahead
  of the rank, and at `sync` or `fallback` the last is the call the rank is in
  (`History`);
* the histories of two ranks on a communicator are prefixes of one another (`Agree`);
* a call is never in both histories of a rank (`Exclusive`), and a reduction some
  rank is through with is in the same one at every rank (`Completed`).

The step that matters is `NothingMissed`: a rank that takes a call lacks none that
another rank has taken before it, since that rank could only pass a
reduction that all came to. With `Results` it follows that what a call delivers
is what all ranks contributed to it. The invariant needs `faults = 0`: an enqueue that
fails leaves no operation, and the pairing is off by one from there on
(`ccl_success` shows what comes of it).

**Refinement.** `ImplementsPromise` is `Spec /\ [](faults = 0) => Promise!Safety`.
Entering a call in the code is entering it in `BlockingAllreduce`, `Synchronize` and
the end of the fallback are leaving it, where `PairInv` provides that all have
entered and that the sum is complete, and every other action leaves the mapped variables alone.

**Handles.** `HandleInv` is a ledger per rank: the pointers it has published, plus what
the initialisation it is in holds at that label, bound what is alive from below,
and communicators never outnumber streams nor streams structs.
Without failures the bounds are equalities (`ExactInv`), and at `idle` nothing is
left over.

### Stand-alone benchmarks

`IInv` goes through the program in its order, using only the place of a label
in `Steps` (`Numbered`, `PastOrder`), so it serves all three programs at once: what parsing lets
through (`ParseInv`), the draw that the root makes before anyone hears of it (`DrawInv`),
who has injected (`InjectInv`), that behind the barrier all have (`BarrierInv`), what
the buffers hold at each place (`BufferInv`), and the counts, total and verdict
(`CountInv`, `VerdictInv`). `LossInv` says in which steps a rank can be lost.

Without any bound on the ranks a verdict is the sum of what all found
(`VerdictCounts`). That what they find is what was corrupted is arithmetic
(`CountsOverwritten`): a sum of markers and ranks differs from
the expected one if any rank put a marker. `Sound` is the condition for it, and it is
the largest possible: from 1000 ranks on the marker 999 is also the value of a rank, and
from 12 ranks on the markers of 11 ranks can add up to a multiple of 256 in `int8`.

### osu_allreduce

`OsuConstants` says of a command line only that it is a sequence of options with
arguments of the right sort (`WellFormed`): integers for `-m`, `-i`, `-x`, `-u` and in the
list of `-z`, and a threshold that is not negative (as a `size_t`, a negative one is beyond
any memory). Nothing bounds how often an option is given, so the proofs cover
what the lists overwrite, as far as the code says what that is: a list of `-z` has at most 9
entries, the last of which is the end of `options`, and one of `-T` ends within the
directory name of the log (`TypesWithin`), beyond which types would
become percentiles. The sizes of the two halves of a threshold and of that directory name are constants
(`IntRange`, `LogPathInts`).

**Options.** `process_options` is a fold over the command line, and within it
`-T` and `-z` are folds over their lists. A fold keeps what every application of its
operator keeps (`ApplyKeeps`, `AppendKeeps`, `PutKeeps`, by least counterexample on
the definition of the fold). With it `ProcessedOK` gives the range of every option
afterwards: counts of iterations are positive and those of large messages not above
the others, since `-i` sets both, and the percentiles of an accepted command line are
within 0 and 100.

**Lockstep.** Each rank goes through the loops alone, and nothing but the barrier before
the iterations brings the ranks together. What is to be shown is that they
arrive there with the same datatype, half, size, round, options and errors. Comparing two
ranks step by step does not work, for one may be sizes ahead of the other in everything
between two barriers. `PathInv` says instead that they are on one path: where a rank goes from a place
(`Move`) depends on the place alone, and of two ranks outside the iterations one's place
can be reached from the other's (`Reaches`, the least set closed under `Move`). From a place where
`Move` stays no other is reached, so ranks that all wait at the barrier before the iterations
are at the same place (`AgreeAtBegin`), and `TogetherInv` carries that through the iterations. `PlaceInv` is what each
rank knows of its own counters at its label, `RootInv` that rank 0 leaves its first
reduction only when every rank has called it. `RowsCover` follows, and `Lockstep` is what the other
theorems rest on.

**Verdict.** `ErrorInv` and `DataInv` say that error counts are 0 at the head of a loop and the
buffers hold what the iteration needs; `RoundInv` that the table lags one row behind the
round that is measured; `VerdictInv` that in a round exactly then a sum was wrong when a
rank has counted an error or is about to, and after the sum of errors exactly when it is not
0, but for floats, where an error that was counted is right and one may be missed. Each kind of untrusted verdict is a case where `DataInv` or the check fails.

**Samples and sizes.** `SampleInv`: of the array of latencies, the places of iterations already
done in this round hold samples of this round, so the part that rank 0 sorts does when it prints,
although the iteration count may have been lowered since the array was made. `SizeInv`: what
has been printed of the current datatype lies below the current size, and within the
threshold until the second half begins.

### Collectives, point-to-point and one-sided benchmarks

`WellMade` is what the command line and the program leave open of a job: its ranks, root,
elements, iterations, letters, window and topology, each in the range the utilities
document (a latency test has two ranks, no message is longer than the longest).

**Memory.** `MemoryInv` says for each rank what it has at its label (`Held`): nothing before the
allocation, then the blocks that side, letters and program call for (`Given`), inside the
window also the memory that MPI brought, and at the end again what was given. That every
free fits follows, because the block that is freed is one of these and its allocator is the
one the letter says (`FreedWasGiven`). A rank may only reach into the window while the
other is inside too (`InStep`), and where the addresses are of a dynamic window is
`Exchange`, place by place of the two ranks.

**Neighbours.** The lists of a rank are a function of the job alone (`Knows`): of the file,
if it was read without a complaint, or of the grid and the radius. For a file the
claim is one of lists: of the lines read until the arrays are full, a rank keeps as
sources and destinations what the others keep the other way round (`LinesAgree`). For a grid it is arithmetic:
coordinates and ranks determine each other, a radius that fits brings no neighbour twice, and what is
reached by a displacement reaches back by the opposite one.

**Data.** `Content` says what the two buffers of a rank hold at each label: before the call
block by block what `set_buffer_*` writes (`Filled`), of the old buffers only
that they are values. `Expected` is the value `validate_*` computes for a block, and `DeliversAll` that the
operation delivers it for every operation, datatype, root, place and topology; the two
formulas of the code, one by rank and block and one by loop indices, are brought together in
`ValuesAgree`, and for a reduction the sum of equal contributions in `SumsAgree`. A wrong
block that validation cannot see is not compared or is the right one
(`Invisible`), so `AcceptInv` is inductive, and `RightAccepted` is one half of `VerdictExact`:
nobody fails but a rank that was delivered a wrong block where validation reads.

The other half, that a wrong block is refused, is not true of every job, and the proof shows why
(`ValuesRepeat`). Letters wrap around at 256. The values of a reduction repeat after 100
elements, and over one rank the contribution is the result already. What the receive buffer of
a gather is filled with may be what is expected, if the root is not rank 0: of 20 ranks
with root 1 in the third iteration, block 6. `Plain` leaves these jobs out. For the others
the values tell sender, receiver and iteration apart (`Apart`), so a block from elsewhere or
of the iteration before is not the expected one (`WrongSeen`). A block that does not come
leaves what was there, which is the concern of `RejectInv`: when the operation is called, no
block that will be compared is right beforehand (`Clear`). The filling of the receive buffer
provides that, except in an all-gather or reduce-scatter out of place, whose
receive buffer is not filled: there it holds what was expected in the iteration before, as long as nothing
failed, and so `VerdictsExact` goes up to the first wrong block. `Refused` carries the
result through validation, and with `RightAccepted` gives `VerdictExact`.

### Jobs of the study

A script's plan is put together of stages (a load of modules, and what follows) and
blocks (headers and launches without a load). `FrontierPlans` proves for
each script which launches it has, that a launch has a header before it and none
after it that would empty its file (`HasHeader`, `KeepsRows`), and that the last loads
before a launch suit it (`SetUp`); `Settled`, `Stage` and `Block` name plans with these
properties, and concatenation keeps them, so a script costs one step per block.

What the script has done is what its plan says up to where it is (`JobInv`:
`Position` and `Progress`). On top of it:

* `RowsInv`: rows come from started launches into their file and are of a size that was asked
  for and is not lost in a selection without end; `WrittenInv`: what a launch has been through
  is in its file. Both use that no later header empties the file.
* `EnvInv`: what the last load that resets the modules and the plugins after it leave, each part under
  the condition that it did not fail; `StackInv` follows for the launch that starts.
* `AlignInv`: where every launch has a result file of its own, the k-th row of a file is of
  the k-th size its launch was given; so, the sizes being ascending, the last row bounds
  everything that is missing, which is what `check_results.sh` relies on.
* `ChecksInv` and `OverInv`: a wrong answer of a check has set `fail`; a launch that
  ended in a selection without end had a size for it.

`RowsMeasureTheirFile` and `OnlyMismatchRecurses` follow a selection tree by tree: a
selection ends within five steps or never (`FiveSteps`), with trees of one level
(`PlainWay`, `RcclWay`) or two (`TwoLevelEnds`), for either account of beta. `GcdsAgree` is about the
arithmetic of the two binding scripts: the map of local ids to GCDs is a permutation.

`StudyConstants` bounds nodes and splits by what the trees can compare
(`Unlimited`); the ladder is any ascending sequence of sizes.

### Induction over data

The theorems of the library on induction take an operator, which no prover here
can instantiate. The sums and the recursive functions of the models are therefore treated by
least counterexample: of the set of numbers for which a fact fails, the least
(`SumLemmas`, `UpTo`) is not 0 and cannot be a successor.

### Only model-checked

* Liveness and fairness: `AllCallsReturn`, `EveryRankEnds` of three modules, the fair part of `KeepsPromise`.
* `ENABLED`: `StuckOnlyIfDiverged`.
* `ValidationRight` of `MCBenchSums`, whose content at the sizes in `Sound` is
  `CountsOverwritten`.
* `TableComplete` of `OsuAllreduce`: that no size is missing is a statement about powers of two,
  by induction over the number of doublings, for each list of datatypes.
* `VerdictExact` for jobs that are not `Plain`. TLC finds it true of the jobs of
  `osu_blocks`; of others `ValuesRepeat` names what goes unnoticed. Also for several
  wrong blocks in one all-gather or reduce-scatter out of place.

## 5. Where code and text disagree

* `rccl.c:229`: a failed reduction returns `MPI_SUCCESS` (`ccl_success`).
* `nccl.c:212`: the device is set, but stream and communicator belong to the
  device of the first call (`ccl_device`).
* `allreduce_benchmark_rccl.c:31`: validation of the default type is wrong from
  17 ranks on (`bench_int8`).
* `osu_allreduce.c:300`: the exit status ignores the validation (`osu_exit`).
* `allreduce_intra_ccl.c:49`: the fallback is the automatic selection, not
  `recursive_doubling` as `NOTES.md:290` says; with the trees and the one swap size of
  `run_hybrid_test.sbatch` a message that alpha stages on the host and the lower
  tree sends to RCCL comes back for ever (`selection`). The kept results
  (`results_hybrid_test/N2_job4953409`) show a crash at 16384 bytes on 16 ranks, between the 8
  KiB split of the lower tree and the swap size. `run_hybrid_prod.sbatch:8` draws
  the right conclusion (`SwapMatchesSplit`) and contradicts `run_hybrid_test.sbatch:9`.

Met while modelling and kept as observations.

The backend and `osu_allreduce`:

* after a failed initialisation that reports success the same call dereferences a null
  pointer (`DereferenceNull`, `rccl.c:41`); without a failure this takes two ranks on one GPU;
* in tuning mode the two halves of `osu_allreduce` may leave the range given by
  `-m` (`osu_allreduce.c:203`);
* `-T` and `-z` write past their lists (`osu_util.c:1097`, `:845`);
* a percentile of 0 is accepted ("between 0 and 100", `osu_util.c:849`) and read at
  index -1, like any of less than one sample (`osu_util_mpi.c:746`);
* with two words left, any letter but `M` is accepted as a place of memory and what
  `setAccel` answers is dropped (`osu_util.c:1255-1257`); for a collective the letters
  have no effect but to enable a device, and an option among the two words is lost.

The utility library:

* the reader of graph files writes one edge beyond its arrays before it reports
  that the maximum is exceeded (`osu_util_mpi.c:1563`), which `TypeOK` of
  `OsuCollectives` states as a bound of `MaxEdges + 1`;
* the loop of `validate_reduce_scatter` (`osu_util_mpi.c:2173`) ends at
  `recvcounts[rank]` although it starts at the sum of the counts before, so with
  equal counts ranks above 0 compare nothing;
* `free_atomic_memory` frees `win_baseptr` on the host if it *is* null
  (`osu_util_mpi.c:3715`), so it is never freed;
* `omb_ddt_assign` counts all blocks of an indexed datatype into the transmitted
  size and builds it from all but the last (`osu_util_mpi.c:3047`).

The scripts:

* `env.sh:54-58` fears that a loaded cray-mpich hijacks the own build, yet the
  export two lines below already puts the own directory first, so unloading is a
  second safeguard (`NotHijacked` holds when the unload fails);
* `check_results.sh:2` promises to flag truncated files, but line 14 flags empty
  ones and words of errors only: a quiet truncation shows in the column of sizes
  alone. Line 8 wants 1 GiB of C and D, which is short of the 4 GiB of `GPU_MAX`, and more than
  D measures at 1024 nodes; rows of `rccl-tests` are indented, so E is always EMPTY;
* `validate.sbatch:10` "Exits non-zero if anything is wrong", yet the status of
  `mpiexec` is dropped (`:35`): a case that prints its verdict and then dies passes;
* `run_csel_auto.sbatch:8-16` describes a threshold of 64 KiB that
  `allreduce_rccl_auto.json:72-92` does not have: every size above 0 goes to RCCL.

## 6. What is not modelled

* Dummy compute and the CUDA kernels of `osu_util_mpi.c` and `kernel.cu`, managed
  memory: compiled in CUDA builds only, called by benchmarks that are not here.
* Derived datatypes: no benchmark of the repository enables them.
* Printing, graphs, PAPI counters, minimum, maximum and average
  of latencies: no state depends on them. The validation log of the benchmarks of `OsuCollectives`;
  of `osu_allreduce`, what is written into it.
* Floating-point rounding (all values are whole, and so are the wrong ones that come from another
  rank, block or iteration, which the integer `abs()` tells apart); `int` overflow of the patterns (with thousands of ranks;
  writer and checker would wrap alike).
* How MPICH searches a tree and stages a message: its code is not in the repository;
  `AllreduceSelection` has what the trees, scripts and notes of the study say of it.
* Scripts that repeat one or two blocks of a modelled script with other sizes or
  tuning variables, or submit them in a loop.
* The JLSE scripts and tuning files, the Java and Python ports, build files, plots and data.

`PROJECT.json` lists each with its reason.

## 7. Plan

Done, in this order: the CCL backend with its abstract specification and first
two theorems; the stand-alone benchmarks; `osu_allreduce` with its options; GPU
binding and the scaling job; the other patterns of validation and neighbourhoods;
the other jobs of the study, the selection trees and the checks of results;
overrun lists, words behind the options, percentiles and completeness of the
table; pair buffers and windows; reduce-scatter.

Then the proofs: pairing, refinement and handles of the backend; the stand-alone
benchmarks with their sums; the jobs of the study; `osu_allreduce` with its options; memory,
topologies and data of the other benchmarks.

Left to model, should the code come to use them: derived datatypes and the
probing of requests during dummy compute.
