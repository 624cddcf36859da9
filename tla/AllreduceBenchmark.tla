------------------------- MODULE AllreduceBenchmark -------------------------
(***************************************************************************)
(* The stand-alone benchmarks as a program of Size processes:              *)
(*   "rccl"    src/benchmark/allreduce_benchmark_rccl.c                    *)
(*   "mpi"     src/benchmark/allreduce_benchmark_mpi.c                     *)
(*   "lambda"  src/omb/lambda/allreduce_benchmark_mpi.c                    *)
(* A process runs the steps of its variant in order.  pc[r] is the number  *)
(* of the step process r is in: being "at" a collective means having       *)
(* called it.  A barrier or a reduction to all is left when everyone has   *)
(* called it; a broadcast lets its root go at once, and a reduction to the *)
(* root lets everyone else go at once.                                     *)
(***************************************************************************)
EXTENDS BenchValidate

CONSTANTS
  Variants,      \* the programs to look at
  Size,          \* number of processes
  CommandLines   \* records: the message size and the flags after it

ASSUME BenchConstants ==
  /\ Variants \subseteq {"rccl", "mpi", "lambda"}
  /\ Size \in Nat \ {0}
  /\ \A c \in CommandLines : c.bytes \in Nat

VARIABLES
  variant,      \* the program
  line,         \* its command line, the same at every rank
  pc,           \* pc[r]: the step rank r is in
  ended,        \* ended[r]: "no", "ok", "rejected" or "failed"
  send, recv,   \* the buffers
  chosen,       \* corrupt_ranks as the root drew it
  injected,     \* the elements that were overwritten, <<rank, index>>
  errs,         \* local_errors, or -1 before validate()
  verdict,      \* what the root printed: "none", "passed" or "failed"
  total,        \* total_errors
  killed        \* MPI_Abort or the launcher ended the whole job

inputs == <<variant, line>>
data == <<send, recv, chosen, injected, errs>>
report == <<verdict, total>>
vars == <<inputs, pc, ended, data, report, killed>>

Procs == 0 .. Size - 1
Root == 0
args == line.args
type == TypeOf(args)
count == Count(line.bytes, type)

\* Mutant: the verdict is printed before the errors are known.
ReportsEarly == <<"report", "validate", "errors", "min", "max", "sum", "cleanup">>

\* The order of the steps in main().
Reports == <<"validate", "errors", "report", "min", "max", "sum", "cleanup">>
Steps ==
  (CASE variant = "rccl" ->
          <<"args", "device", "parse", "alloc", "id", "pick", "inject", "barrier",
            "comm", "allreduce", "copy">>
     [] variant = "mpi" ->
          <<"args", "parse", "fill", "pick", "inject", "barrier", "start", "allreduce">>
     [] variant = "lambda" ->
          <<"args", "device", "parse", "fill", "pick", "inject", "barrier", "start",
            "allreduce">>) \o Reports

NumberOf(label) == CHOOSE n \in DOMAIN Steps : Steps[n] = label

Init ==
  /\ variant \in Variants /\ line \in CommandLines
  /\ pc = [r \in Procs |-> 1]
  /\ ended = [r \in Procs |-> "no"]
  /\ send = [r \in Procs |-> <<>>] /\ recv = [r \in Procs |-> <<>>]
  /\ chosen = {} /\ injected = {}
  /\ errs = [r \in Procs |-> -1]
  /\ verdict = "none" /\ total = 0
  /\ killed = FALSE

At(r, label) == ~killed /\ ended[r] = "no" /\ Steps[pc[r]] = label
Advance(r) == pc' = [pc EXCEPT ![r] = @ + 1] /\ UNCHANGED <<ended, killed>>
End(r, how) == ended' = [ended EXCEPT ![r] = how] /\ UNCHANGED pc

\* Rank q has called the collective rank r is in.
Arrived(q, r) == pc[q] > pc[r] \/ (pc[q] = pc[r] /\ ended[q] = "no")
AllArrived(r) == \A q \in Procs : Arrived(q, r)

-----------------------------------------------------------------------------
\* argc is checked before MPI_Init.  (Who prints the usage is decided by a
\* rank that is not set yet.)
CheckArgs(r) ==
  /\ At(r, "args")
  /\ IF Len(args) <= 2 THEN Advance(r) ELSE End(r, "rejected") /\ UNCHANGED killed
  /\ UNCHANGED <<inputs, data, report>>

\* Mutant: only the root looks.
ParseAtRoot(r) ==
  /\ At(r, "parse")
  /\ IF (KnownArgs(args) /\ count > 0) \/ r # Root THEN Advance(r)
     ELSE End(r, "rejected") /\ UNCHANGED killed
  /\ UNCHANGED <<inputs, data, report>>

\* An unknown flag, or a message smaller than an element.
Parse(r) ==
  /\ At(r, "parse")
  /\ IF KnownArgs(args) /\ count > 0 THEN Advance(r)
     ELSE End(r, "rejected") /\ UNCHANGED killed
  /\ UNCHANGED <<inputs, data, report>>

\* Allocate, and fill with the rank ("alloc" is the RCCL version, which
\* copies to the GPU and checks every call).
Fill(r) ==
  /\ At(r, "alloc") \/ At(r, "fill")
  /\ send' = [send EXCEPT ![r] = Filled(type, count, r)]
  /\ Advance(r)
  /\ UNCHANGED <<inputs, recv, chosen, injected, errs, report>>

\* The id broadcast; the root leaves it first.
ExchangeId(r) ==
  /\ At(r, "id")
  /\ r # Root => pc[Root] > pc[r]
  /\ Advance(r)
  /\ UNCHANGED <<inputs, data, report>>

\* The root draws a subset, at least one rank, and broadcasts it.
Pick(r) ==
  /\ At(r, "pick")
  /\ IF r = Root THEN chosen' \in (IF CorruptOf(args) THEN (SUBSET Procs) \ {{}} ELSE {{}})
     ELSE pc[Root] > pc[r] /\ UNCHANGED chosen
  /\ Advance(r)
  /\ UNCHANGED <<inputs, send, recv, injected, errs, report>>

\* A chosen rank overwrites one element.
Inject(r) ==
  /\ At(r, "inject")
  /\ IF CorruptOf(args) /\ r \in chosen
     THEN \E i \in 1 .. count :
            /\ send' = [send EXCEPT ![r] = Corrupted(type, @, i)]
            /\ injected' = injected \cup {<<r, i>>}
     ELSE UNCHANGED <<send, injected>>
  /\ Advance(r)
  /\ UNCHANGED <<inputs, recv, chosen, errs, report>>

\* Mutant: nobody waits.
BarrierNot(r) ==
  /\ At(r, "barrier") \/ At(r, "start")
  /\ Advance(r)
  /\ UNCHANGED <<inputs, data, report>>

\* "All corruption injections completed", and the barrier before the timer.
Barrier(r) ==
  /\ At(r, "barrier") \/ At(r, "start")
  /\ AllArrived(r)
  /\ Advance(r)
  /\ UNCHANGED <<inputs, data, report>>

\* ncclCommInitRank returns when every rank has called it.
InitComm(r) ==
  /\ At(r, "comm")
  /\ AllArrived(r)
  /\ Advance(r)
  /\ UNCHANGED <<inputs, data, report>>

\* The sum of all send buffers.
Allreduce(r) ==
  /\ At(r, "allreduce")
  /\ AllArrived(r)
  /\ recv' = [recv EXCEPT ![r] = Reduced(type, send)]
  /\ Advance(r)
  /\ UNCHANGED <<inputs, send, chosen, injected, errs, report>>

\* hipSetDevice; and hipEventDestroy and the copy back to the host.
UseDevice(r) ==
  /\ At(r, "device") \/ At(r, "copy")
  /\ Advance(r)
  /\ UNCHANGED <<inputs, data, report>>

ValidateResult(r) ==
  /\ At(r, "validate")
  /\ errs' = [errs EXCEPT ![r] = Validate(recv[r], Size)]
  /\ Advance(r)
  /\ UNCHANGED <<inputs, send, recv, chosen, injected, report>>

\* Mutant: the root adds up what has come so far.
SumWithoutWaiting(r) ==
  /\ At(r, "errors")
  /\ total' = IF r # Root THEN total
              ELSE SumFunction([q \in {p \in Procs : errs[p] >= 0} |-> errs[q]])
  /\ Advance(r)
  /\ UNCHANGED <<inputs, data, verdict>>

\* MPI_Reduce of the error counts.
SumErrors(r) ==
  /\ At(r, "errors")
  /\ IF r = Root THEN AllArrived(r) /\ total' = SumFunction(errs)
     ELSE UNCHANGED total
  /\ Advance(r)
  /\ UNCHANGED <<inputs, data, verdict>>

\* A barrier, and the root's verdict.
Report(r) ==
  /\ At(r, "report")
  /\ AllArrived(r)
  /\ verdict' = IF r # Root THEN verdict ELSE IF total = 0 THEN "passed" ELSE "failed"
  /\ Advance(r)
  /\ UNCHANGED <<inputs, data, total>>

\* The three reductions of the times.
ReduceTimes(r) ==
  /\ At(r, "min") \/ At(r, "max") \/ At(r, "sum")
  /\ r = Root => AllArrived(r)
  /\ Advance(r)
  /\ UNCHANGED <<inputs, data, report>>

Cleanup(r) ==
  /\ At(r, "cleanup")
  /\ End(r, "ok")
  /\ UNCHANGED <<inputs, data, report, killed>>

\* CHECK and RCCL_CHECK exit the process on the spot; the lambda version
\* aborts the job if it gets no device, and looks at no other HIP result.
FallibleSteps ==
  CASE variant = "rccl" -> {"device", "alloc", "comm", "allreduce", "copy", "cleanup"}
    [] variant = "mpi" -> {}
    [] variant = "lambda" -> {"device"}

Fail(r) ==
  /\ \E label \in FallibleSteps : At(r, label)
  /\ End(r, "failed")
  /\ killed' = (variant = "lambda")
  /\ UNCHANGED <<inputs, data, report>>

\* mpiexec ends the job when one of its processes exits with a failure.
Launcher ==
  /\ ~killed
  /\ \E r \in Procs : ended[r] = "failed"
  /\ killed' = TRUE
  /\ UNCHANGED <<inputs, pc, ended, data, report>>

Step(r) ==
  \/ CheckArgs(r) \/ UseDevice(r) \/ Parse(r) \/ Fill(r) \/ ExchangeId(r)
  \/ Pick(r) \/ Inject(r) \/ Barrier(r) \/ InitComm(r) \/ Allreduce(r)
  \/ ValidateResult(r) \/ SumErrors(r) \/ Report(r) \/ ReduceTimes(r) \/ Cleanup(r)

AllEnded == \A r \in Procs : ended[r] # "no"
Over == (killed \/ AllEnded) /\ UNCHANGED vars

Next == (\E r \in Procs : Step(r) \/ Fail(r)) \/ Launcher \/ Over

Spec == Init /\ [][Next]_vars

\* The operating system runs every process.
FairSpec == Spec /\ \A r \in Procs : WF_vars(Step(r))

-----------------------------------------------------------------------------
TypeOK ==
  /\ variant \in Variants /\ line \in CommandLines
  /\ pc \in [Procs -> DOMAIN Steps]
  /\ ended \in [Procs -> {"no", "ok", "rejected", "failed"}]
  /\ DOMAIN send = Procs /\ DOMAIN recv = Procs
  /\ \A r \in Procs : DOMAIN send[r] \in {{}, 1 .. count} /\ DOMAIN recv[r] \in {{}, 1 .. count}
  /\ chosen \subseteq Procs
  /\ injected \subseteq chosen \X (1 .. count)
  /\ errs \in [Procs -> -1 .. count]
  /\ verdict \in {"none", "passed", "failed"} /\ total \in Nat
  /\ killed \in BOOLEAN

\* What the root reports is exact: every corrupted element is counted once by
\* every rank and nothing else is, and it passes exactly the clean runs
\* (README: validates the correctness of the result, and --corrupt tests that
\* the validation detects errors).
VerdictExact ==
  verdict # "none" =>
    /\ total = Size * Cardinality({hit[2] : hit \in injected})
    /\ verdict = "passed" <=> ~CorruptOf(args)

\* No rank goes into the reduction before the last injection is done ("All
\* corruption injections completed").
InjectionsFirst ==
  (\E r \in Procs : pc[r] > NumberOf("barrier")) =>
    /\ \A q \in Procs : pc[q] >= NumberOf("barrier")
    /\ {hit[1] : hit \in injected} = chosen

\* A run in which a rank dropped out before it gave its count reports nothing.
NoVerdictAfterLoss ==
  verdict # "none" =>
    \A r \in Procs : errs[r] >= 0 /\ (ended[r] # "failed" \/ Steps[pc[r]] = "cleanup")

\* If no call fails, every rank ends, and all in the same way: whatever makes
\* one return early (lines 61, 91, 104) makes all, or the rest would wait.
EveryRankEnds ==
  [](\A r \in Procs : ended[r] # "failed") =>
    <>(AllEnded /\ \A q, r \in Procs : ended[q] = ended[r])

=============================================================================
