---------------------------- MODULE OsuAllreduce ----------------------------
(***************************************************************************)
(* osu_allreduce: main() and run_allreduce_loop() of                       *)
(* src/omb/c/mpi/collective/blocking/osu_allreduce.c, with the buffers and *)
(* the validation of src/omb/c/util/osu_util_mpi.c.                        *)
(*                                                                         *)
(* All ranks run the same program on the same command line.  A rank that   *)
(* has called a collective waits at its label; a barrier or an allreduce   *)
(* completes for all ranks in one step, a reduction to rank 0 holds up     *)
(* rank 0 only.                                                            *)
(*                                                                         *)
(* The library under test may return a wrong sum, a call may fail at one   *)
(* rank: MaxFaults bounds how often.                                       *)
(*                                                                         *)
(* Contents of buffers are followed when validation is on.  Element j of   *)
(* the send buffer of iteration i is (j+1)(i+1) times a constant of the    *)
(* datatype, and stays a multiple of j+1 in every sum, so the multiple     *)
(* stands for the whole buffer; Junk is a content without this form.       *)
(***************************************************************************)
EXTENDS OsuOptions, FiniteSets

CONSTANTS
  NumProcs,           \* the sizes of the job
  CommandLines,       \* the command lines, see OsuOptions
  LargeMessageSize,   \* LARGE_MESSAGE_SIZE
  MaxFaults           \* bound: wrong sums and failing calls

ASSUME OsuConstants ==
  /\ NumProcs \subseteq Nat \ {0}
  /\ \A l \in CommandLines :
       /\ l \in Seq(Range(l)) /\ \A k \in DOMAIN l : WellFormed(l[k])
       /\ TypesWithin(ProcessOptions(l))
  /\ LargeMessageSize \in Nat /\ MaxFaults \in Nat

VARIABLES
  line, np,    \* the command line and the number of ranks
  asked,       \* what process_options makes of the command line
  opts,        \* opts[r]: the global options of rank r
  pc,          \* pc[r]: where rank r is
  typ,         \* typ[r]: mpi_type_itr, from 1
  part,        \* part[r]: the call of run_allreduce_loop: "cpu", "rocm", "all"
  size,        \* size[r]: the message size of the loop
  iter,        \* iter[r]: i
  warm,        \* warm[r]: j, the warm-up calls of this iteration
  sbuf, rbuf,  \* contents of sendbuf and recvbuf
  localErrs,   \* local_errors of run_allreduce_loop
  errs,        \* its errors
  lat,         \* lat[r]: omb_lat_arr; each sample is the round it is from
  round,       \* round[r]: sizes rank r has begun to measure
  rows,        \* the table rank 0 prints
  wrong,       \* rounds in which a measured sum came out wrong
  ended,       \* ended[r]: "no", "success", "failure" or "lost"
  killed,      \* MPI_Abort, or the launcher, ended the job
  faults       \* failures so far

input == <<line, np, asked>>
loop == <<typ, part, size, iter, warm, round>>
bufs == <<sbuf, rbuf>>
totals == <<localErrs, errs, lat>>
outcome == <<rows, wrong>>
vars == <<input, opts, pc, loop, bufs, totals, outcome, ended, killed, faults>>

Procs == 0 .. np - 1
Root == 0
Junk == -1
TypeSize == [MPI_CHAR |-> 1, MPI_INT |-> 4, MPI_FLOAT |-> 4]

At(r, label) == ~killed /\ ended[r] = "no" /\ pc[r] = label
AllAt(label) == \A r \in Procs : At(r, label)
Goto(r, label) == pc' = [pc EXCEPT ![r] = label]
AllGoto(label) == pc' = [r \in Procs |-> label]

dtype(r) == opts[r].dtypes[typ[r]]

\* mpi_type_list has room for OMB_NUM_DATATYPES; main reads beyond it what is
\* there, no datatype or one by chance.
Populate(o, beyond) ==
  [o EXCEPT !.dtypes = [i \in DOMAIN @ |-> IF i <= NumDatatypes THEN @[i] ELSE beyond]]
NotADatatype == "not a datatype"

NumElements(r) == size[r] \div TypeSize[dtype(r)]

\* Where the buffers of the loop are, and the sizes it goes through.
Place(r) == CASE part[r] = "cpu" -> "NONE" [] part[r] = "rocm" -> "ROCM"
              [] part[r] = "all" -> opts[r].accel
\* Mutant: the last size is left out.
EndBefore(o, p) == IF p = "cpu" THEN o.threshold ELSE o.max - 1

\* Mutant: the GPU half starts at the threshold itself.
StartAtThreshold(o, p) == IF p = "rocm" THEN o.threshold ELSE o.min

StartSize(o, p) == IF p = "rocm" THEN o.threshold * 2 ELSE o.min
EndSize(o, p) == IF p = "cpu" THEN o.threshold ELSE o.max

Init ==
  /\ line \in CommandLines /\ np \in NumProcs
  /\ \E beyond \in {NotADatatype, "MPI_INT"} : asked = Populate(ProcessOptions(line), beyond)
  /\ opts = [r \in Procs |-> Defaults]
  /\ pc = [r \in Procs |-> "start"]
  /\ typ = [r \in Procs |-> 1] /\ part = [r \in Procs |-> "all"]
  /\ size = [r \in Procs |-> 0] /\ iter = [r \in Procs |-> 0]
  /\ warm = [r \in Procs |-> 0] /\ round = [r \in Procs |-> 0]
  /\ sbuf = [r \in Procs |-> Junk] /\ rbuf = [r \in Procs |-> Junk]
  /\ localErrs = [r \in Procs |-> 0] /\ errs = [r \in Procs |-> 0]
  /\ lat = [r \in Procs |-> <<>>]
  /\ rows = <<>> /\ wrong = {}
  /\ ended = [r \in Procs |-> "no"] /\ killed = FALSE /\ faults = 0

-----------------------------------------------------------------------------
\* main() up to the buffers: the options, the reasons to stop before and after
\* MPI_Init (no communicator for a session, which needs MPI-4), the latency
\* array for options.iterations samples.
Start(r) ==
  /\ At(r, "start")
  /\ LET o == asked
         go == o.ret = "PO_OKAY" /\ np >= 2 /\ o.session # 1
     IN  /\ opts' = [opts EXCEPT ![r] = o]
         /\ ended' = IF go THEN ended
                     ELSE [ended EXCEPT ![r] =
                             IF o.session = 1 THEN "lost"
                             ELSE IF o.ret \in {"PO_HELP_MESSAGE", "PO_VERSION_MESSAGE"}
                             THEN "success" ELSE "failure"]
         /\ part' = [part EXCEPT ![r] = IF o.tuning THEN "cpu" ELSE "all"]
         /\ lat' = [lat EXCEPT ![r] =
                      IF go /\ o.tail_lat THEN [i \in 1 .. o.iterations |-> 0] ELSE <<>>]
         /\ Goto(r, IF go THEN "part" ELSE "start")
  /\ UNCHANGED <<input, typ, size, iter, warm, round, bufs, localErrs, errs, outcome,
                 killed, faults>>

\* A call of run_allreduce_loop with its own error counts; after the last type,
\* the end of main.  The buffers are set to one and zero for every call in
\* tuning mode, else for the first type alone.
OpenPart(r) ==
  /\ At(r, "part")
  /\ IF typ[r] > Len(opts[r].dtypes)
     THEN Goto(r, "finish") /\ UNCHANGED <<size, bufs, localErrs, errs>>
     ELSE /\ dtype(r) # NotADatatype
          /\ Goto(r, "size")
          /\ size' = [size EXCEPT ![r] = StartSize(opts[r], part[r])]
          /\ LET fresh == part[r] # "all" \/ typ[r] = 1
             IN  /\ sbuf' = [sbuf EXCEPT ![r] = IF fresh THEN Junk ELSE @]
                 /\ rbuf' = [rbuf EXCEPT ![r] = IF fresh THEN Junk ELSE @]
          /\ localErrs' = [localErrs EXCEPT ![r] = 0] /\ errs' = [errs EXCEPT ![r] = 0]
  /\ UNCHANGED <<input, opts, typ, part, iter, warm, round, lat, outcome, ended, killed,
                 faults>>

\* MPI_Type_size refuses what is not a datatype: MPI_CHECK aborts the job.
TypeRefused(r) ==
  /\ At(r, "part") /\ typ[r] <= Len(opts[r].dtypes) /\ dtype(r) = NotADatatype
  /\ killed' = TRUE
  /\ UNCHANGED <<input, opts, pc, loop, bufs, totals, outcome, ended, faults>>

\* The loop returns: the GPU half after the CPU half, then the next type.
CloseLoop(r) ==
  /\ Goto(r, "part")
  /\ part' = [part EXCEPT ![r] =
                CASE @ = "cpu" -> "rocm" [] @ = "rocm" -> "cpu" [] @ = "all" -> "all"]
  /\ typ' = [typ EXCEPT ![r] = IF part[r] = "cpu" THEN @ ELSE @ + 1]

\* The head of the loop: past the end, no element to send, or a size to
\* measure.  The iteration counts of large messages stay for good.
NextSize(r) ==
  /\ At(r, "size")
  /\ IF size[r] > EndSize(opts[r], part[r])
     THEN CloseLoop(r) /\ UNCHANGED <<size, iter, round, opts>>
     ELSE /\ UNCHANGED <<part, typ>>
          /\ IF NumElements(r) = 0
             THEN /\ size' = [size EXCEPT ![r] = @ * 2]
                  /\ UNCHANGED <<pc, iter, round, opts>>
             ELSE /\ Goto(r, "begin") /\ UNCHANGED size
                  /\ iter' = [iter EXCEPT ![r] = 0]
                  /\ round' = [round EXCEPT ![r] = @ + 1]
                  /\ opts' = IF size[r] > LargeMessageSize
                             THEN [opts EXCEPT ![r].skip = opts[r].skip_large,
                                               ![r].iterations = opts[r].iterations_large]
                             ELSE opts
  /\ UNCHANGED <<input, warm, bufs, totals, outcome, ended, killed, faults>>

\* The head of the iteration loop.
Iterate(o, i) ==
  IF i >= o.iterations + o.skip THEN "min" ELSE IF o.validate THEN "fill" ELSE "reduce"

\* MPI_Barrier: before the first iteration, before a warm-up, before and
\* after the measured call, after the row.
Barrier ==
  /\ \E label \in {"begin", "warmup barrier", "before", "after", "row barrier"} :
       /\ AllAt(label)
       /\ pc' = [r \in Procs |->
                   CASE label = "begin" -> Iterate(opts[r], 0)
                     [] label = "warmup barrier" -> "warmup"
                     [] label = "before" -> "reduce"
                     [] label = "after" -> "check"
                     [] label = "row barrier" -> "double"]
  /\ UNCHANGED <<input, opts, loop, bufs, totals, outcome, ended, killed, faults>>

\* Mutant: the receive buffer is not reset and the sum not written over it.
FillOnlyOnce(r) ==
  /\ At(r, "fill")
  /\ sbuf' = [sbuf EXCEPT ![r] = IF @ = Junk THEN iter[r] + 1 ELSE @]
  /\ warm' = [warm EXCEPT ![r] = 0]
  /\ Goto(r, IF opts[r].warmup_validation > 0 THEN "warmup barrier" ELSE "before")
  /\ UNCHANGED <<input, opts, typ, part, size, iter, round, rbuf, ended, totals, outcome,
                 killed, faults>>

\* set_buffer_validation.  OMB_MPI_REDUCE_CHAR_CHECK has turned MPI_CHAR into
\* MPI_SIGNED_CHAR, which omb_get_num_elements does not know: it exits.  The
\* buffers are written as memory of options.accel wherever they are, which
\* may or may not work.
Fill(r) ==
  /\ At(r, "fill")
  /\ \/ /\ dtype(r) # "MPI_CHAR"
        /\ IF opts[r].in_place # 0
           THEN rbuf' = [rbuf EXCEPT ![r] = iter[r] + 1] /\ UNCHANGED sbuf
           ELSE /\ sbuf' = [sbuf EXCEPT ![r] = iter[r] + 1]
                /\ rbuf' = [rbuf EXCEPT ![r] = 0]
        /\ warm' = [warm EXCEPT ![r] = 0]
        /\ Goto(r, IF opts[r].warmup_validation > 0 THEN "warmup barrier" ELSE "before")
        /\ UNCHANGED ended
     \/ /\ dtype(r) = "MPI_CHAR" \/ Place(r) # opts[r].accel
        /\ ended' = [ended EXCEPT ![r] = "lost"]
        /\ UNCHANGED <<pc, bufs, warm>>
  /\ UNCHANGED <<input, opts, typ, part, size, iter, round, totals, outcome, killed, faults>>

\* What MPI_SUM makes of the ranks' contributions.
Sum(content) ==
  IF \E r \in Procs : content[r] = Junk THEN Junk ELSE SumFunction(content)

\* The library may return something else at one rank.
Results(sum) ==
  {[r \in Procs |-> sum]} \cup
  (IF faults < MaxFaults THEN {[r \in Procs |-> IF r = q THEN Junk ELSE sum] : q \in Procs}
   ELSE {})

Corrupt(sum, result) == \E r \in Procs : result[r] # sum

\* A warm-up call.  In tuning mode it works on the buffers of the measured
\* call.
Warmup ==
  /\ AllAt("warmup") /\ part[Root] # "all"
  /\ LET sum == Sum(sbuf)
     IN  /\ rbuf' \in Results(sum)
         /\ faults' = IF Corrupt(sum, rbuf') THEN faults + 1 ELSE faults
  /\ warm' = [r \in Procs |-> warm[r] + 1]
  /\ pc' = [r \in Procs |-> IF warm'[r] < opts[r].warmup_validation
                            THEN "warmup barrier" ELSE "before"]
  /\ UNCHANGED <<input, opts, typ, part, size, iter, round, sbuf, totals, outcome, ended,
                 killed>>

\* Otherwise recvbuf_warmup was never set, and MPI_CHECK aborts the job.
WarmupRefused(r) ==
  /\ At(r, "warmup") /\ part[r] = "all"
  /\ killed' = TRUE
  /\ UNCHANGED <<input, opts, pc, loop, bufs, totals, outcome, ended, faults>>

\* The measured MPI_Allreduce.
Allreduce ==
  /\ AllAt("reduce")
  /\ AllGoto("after")
  /\ IF opts[Root].validate
     THEN LET sum == Sum(IF opts[Root].in_place = 1 THEN rbuf ELSE sbuf)
          IN  /\ rbuf' \in Results(sum)
              /\ faults' = IF Corrupt(sum, rbuf') THEN faults + 1 ELSE faults
              /\ wrong' = IF Corrupt(sum, rbuf') THEN wrong \cup {round[Root]} ELSE wrong
     ELSE UNCHANGED <<rbuf, faults, wrong>>
  /\ UNCHANGED <<input, opts, loop, sbuf, totals, rows, ended, killed>>

\* Of an MPI_INT message that is not a whole number of elements the tail is
\* memory nobody wrote: validate_reduction compares it as well.
Ragged(r) == dtype(r) = "MPI_INT" /\ size[r] % TypeSize["MPI_INT"] # 0

\* What validate_reduction may answer.  Of the difference of two floats it
\* takes the integer abs(): a Junk that is off by less than one passes.
Verdicts(r) ==
  LET right == rbuf[r] = (iter[r] + 1) * np
  IN  {bad \in {0, 1} : /\ bad = 0 => right \/ (rbuf[r] = Junk /\ dtype(r) = "MPI_FLOAT")
                        /\ bad = 1 => ~right \/ Ragged(r)}

\* validate_data, and the sample, into omb_lat_arr[i - skip].  What is wrong is
\* logged if there is where to.
Check(r) ==
  /\ At(r, "check")
  /\ IF opts[r].validate
     THEN \E bad \in Verdicts(r) :
            /\ bad = 1 => opts[r].log # "nowhere"
            /\ localErrs' = [localErrs EXCEPT ![r] = @ + bad]
     ELSE UNCHANGED localErrs
  /\ lat' = IF iter[r] >= opts[r].skip /\ opts[r].tail_lat
            THEN [lat EXCEPT ![r] = [i \in DOMAIN @ \cup {iter[r] - opts[r].skip + 1} |->
                    IF i = iter[r] - opts[r].skip + 1 THEN round[r] ELSE @[i]]]
            ELSE lat
  /\ iter' = [iter EXCEPT ![r] = @ + 1]
  /\ Goto(r, Iterate(opts[r], iter[r] + 1))
  /\ UNCHANGED <<input, opts, typ, part, size, warm, round, bufs, errs, outcome, ended,
                 killed, faults>>

\* validation_log without a directory exits.
LogFails(r) ==
  /\ At(r, "check") /\ opts[r].validate /\ 1 \in Verdicts(r) /\ opts[r].log = "nowhere"
  /\ ended' = [ended EXCEPT ![r] = "lost"]
  /\ UNCHANGED <<input, opts, pc, loop, bufs, totals, outcome, killed, faults>>

\* The reductions to rank 0 after the iterations, in this order.
Reductions == <<"min", "max", "avg", "stats">>
NumberOf(label) == CHOOSE n \in DOMAIN Reductions : Reductions[n] = label

\* Rank q has called the n-th reduction.
Called(q, n) ==
  /\ ended[q] = "no"
  /\ \/ \E k \in n .. Len(Reductions) : pc[q] = Reductions[k]
     \/ pc[q] \in {"error sum", "row", "row barrier"}

\* Mutant: rank 0 waits for nobody.
ReduceAlone(r) ==
  /\ \E label \in {"min", "max", "avg", "stats"} :
       /\ At(r, label)
       /\ Goto(r, IF label # "stats" THEN Reductions[NumberOf(label) + 1]
                  ELSE IF opts[r].validate THEN "error sum" ELSE "row")
  /\ UNCHANGED <<input, opts, loop, bufs, totals, outcome, ended, killed, faults>>

\* MPI_Reduce of the times and, for the tail latencies, of the samples.
Reduce(r) ==
  /\ \E label \in {"min", "max", "avg", "stats"} :
       /\ At(r, label)
       /\ r = Root /\ (label = "stats" => opts[r].tail_lat) =>
            \A q \in Procs : Called(q, NumberOf(label))
       /\ Goto(r, IF label # "stats" THEN Reductions[NumberOf(label) + 1]
                  ELSE IF opts[r].validate THEN "error sum" ELSE "row")
  /\ UNCHANGED <<input, opts, loop, bufs, totals, outcome, ended, killed, faults>>

\* Mutant: every rank keeps its own count.
SumErrorsNot ==
  /\ AllAt("error sum") /\ AllGoto("row")
  /\ errs' = localErrs
  /\ UNCHANGED <<input, opts, loop, bufs, localErrs, lat, outcome, ended, killed, faults>>

\* MPI_Allreduce of the error counts.
SumErrors ==
  /\ AllAt("error sum") /\ AllGoto("row")
  /\ errs' = [r \in Procs |-> SumFunction(localErrs)]
  /\ UNCHANGED <<input, opts, loop, bufs, localErrs, lat, outcome, ended, killed, faults>>

\* Mutant: the samples are sorted in the array for all iterations.
TailOfAll(r) ==
  LET samples == {lat[q][i] : q \in Procs, i \in 1 .. asked.iterations}
      given == {k \in DOMAIN opts[r].percentiles : k <= StatMaxNum}
  IN  [k \in given |->
         IF (opts[r].iterations * opts[r].percentiles[k]) \div 100 = 0 THEN {} ELSE samples]

\* omb_calculate_tail_lat: for each percentile the rounds its sample may be
\* from, none if it is read before the array.  No rank has a newer sample:
\* all wait for rank 0 at the barrier after the row.
TailLat(r) ==
  LET samples == {lat[q][i] : q \in Procs, i \in 1 .. opts[r].iterations}
      given == {k \in DOMAIN opts[r].percentiles : k <= StatMaxNum}
  IN  [k \in given |->
         IF (opts[r].iterations * opts[r].percentiles[k]) \div 100 = 0 THEN {} ELSE samples]

\* Rank 0 prints a row.
PrintRow(r) ==
  /\ At(r, "row")
  /\ rows' = IF r # Root THEN rows
             ELSE Append(rows, [type |-> typ[r], size |-> size[r], place |-> Place(r),
                                in_place |-> opts[r].in_place = 1,
                                tail |-> IF opts[r].tail_lat THEN TailLat(r) ELSE <<>>,
                                status |-> IF ~opts[r].validate THEN "none"
                                           ELSE IF errs[r] > 0 THEN "Fail" ELSE "Pass"])
  /\ Goto(r, "row barrier")
  /\ UNCHANGED <<input, opts, loop, bufs, totals, wrong, ended, killed, faults>>

\* Errors end the loop, else the size doubles.
Double(r) ==
  /\ At(r, "double")
  /\ IF errs[r] # 0 THEN CloseLoop(r) /\ UNCHANGED size
     ELSE /\ size' = [size EXCEPT ![r] = @ * 2] /\ Goto(r, "size")
          /\ UNCHANGED <<part, typ>>
  /\ UNCHANGED <<input, opts, iter, warm, round, bufs, totals, outcome, ended, killed, faults>>

\* The end of main.  Its own errors is still 0, whatever the loops have found.
Finish(r) ==
  /\ At(r, "finish")
  /\ ended' = [ended EXCEPT ![r] = "success"]
  /\ UNCHANGED <<input, opts, pc, loop, bufs, totals, outcome, killed, faults>>

\* A call that fails at one rank.  init_accel and the ROCm calls exit the
\* process; outside tuning a failing allocation on the host aborts the job,
\* in tuning mode nobody looks and memset is given no buffer.  A log that
\* cannot be made or opened ends the process.
Fail(r) ==
  /\ faults < MaxFaults
  /\ \/ /\ At(r, "start")
        /\ asked.ret = "PO_OKAY" /\ asked.accel # "NONE"
        /\ UNCHANGED killed
     \/ /\ At(r, "part") /\ typ[r] <= Len(opts[r].dtypes)
        /\ part[r] = "all" => typ[r] = 1
        /\ killed' = (part[r] = "all" /\ opts[r].accel = "NONE")
     \/ /\ At(r, "fill") \/ At(r, "check") \/ At(r, "finish")
        /\ opts[r].accel = "ROCM"
        /\ At(r, "check") => opts[r].validate
        /\ UNCHANGED killed
     \/ /\ At(r, "check") /\ opts[r].validate /\ 1 \in Verdicts(r)
        /\ opts[r].log = "directory"
        /\ UNCHANGED killed
  /\ faults' = faults + 1
  /\ ended' = [ended EXCEPT ![r] = "lost"]
  /\ UNCHANGED <<input, opts, pc, loop, bufs, totals, outcome>>

\* mpiexec ends the job when a process is lost.
Launcher ==
  /\ ~killed /\ \E r \in Procs : ended[r] = "lost"
  /\ killed' = TRUE
  /\ UNCHANGED <<input, opts, pc, loop, bufs, totals, outcome, ended, faults>>

Local(r) == Start(r) \/ OpenPart(r) \/ TypeRefused(r) \/ NextSize(r) \/ Fill(r)
              \/ WarmupRefused(r) \/ Check(r) \/ LogFails(r) \/ PrintRow(r) \/ Double(r) \/ Finish(r)
Collective == Barrier \/ Warmup \/ Allreduce \/ SumErrors

AllEnded == \A r \in Procs : ended[r] # "no"
Over == (killed \/ AllEnded) /\ UNCHANGED vars

Progress == (\E r \in Procs : Local(r) \/ Reduce(r)) \/ Collective \/ Launcher

Next == Progress \/ (\E r \in Procs : Fail(r)) \/ Over

Spec == Init /\ [][Next]_vars

\* While some process can go on, some process does.  That is enough: no
\* process can go on for ever, but in the case Spins below.
FairSpec == Spec /\ WF_vars(Progress)

-----------------------------------------------------------------------------
TypeOK ==
  /\ line \in CommandLines /\ np \in NumProcs
  /\ \A r \in Procs : opts[r].min > 0 /\ opts[r].max >= 0 /\ opts[r].iterations > 0
  /\ typ \in [Procs -> Nat \ {0}] /\ part \in [Procs -> {"cpu", "rocm", "all"}]
  /\ size \in [Procs -> Nat] /\ iter \in [Procs -> Nat]
  /\ warm \in [Procs -> Nat] /\ round \in [Procs -> Nat]
  /\ sbuf \in [Procs -> Nat \cup {Junk}] /\ rbuf \in [Procs -> Nat \cup {Junk}]
  /\ localErrs \in [Procs -> Nat] /\ errs \in [Procs -> Nat]
  /\ \A n \in DOMAIN rows : rows[n].status \in {"none", "Pass", "Fail"}
  /\ wrong \subseteq Nat
  /\ ended \in [Procs -> {"no", "success", "failure", "lost"}]
  /\ killed \in BOOLEAN /\ faults \in 0 .. MaxFaults

\* The iteration counts under which p/100 of the samples is less than one.
TooFew(p) == \E n \in {asked.iterations, asked.iterations_large} : n * p < 100

\* The tail latencies (-z) of a row are samples of that row alone, the rounds
\* before it have left none in the part of the array that is sorted, and no
\* sample is stored outside the array, although the number of iterations
\* changes after the array was allocated (lines 38, 72, 84, 175).  Only a
\* percentile of less than one sample is read outside (osu_util_mpi.c:746).
TailFresh ==
  /\ \A r \in Procs :
       opts[r].tail_lat /\ pc[r] # "start" => DOMAIN lat[r] = 1 .. asked.iterations
  /\ \A n \in DOMAIN rows : \A k \in DOMAIN rows[n].tail :
       rows[n].tail[k] = {n} \/ (rows[n].tail[k] = {} /\ TooFew(asked.percentiles[k]))

\* Where the verdict of validation is not to be trusted: the warm-up of
\* tuning mode overwrites the data of MPI_IN_PLACE; a list of -T that overruns
\* into in_place turns off the filling of sendbuf (osu_util_mpi.c:1303) but not
\* its use (line 46); a ragged message is compared beyond its elements.
Untrusted(row) ==
  \/ asked.in_place # 0 /\ asked.warmup_validation > 0
  \/ asked.in_place \notin {0, 1}
  \/ asked.dtypes[row.type] = "MPI_INT" /\ row.size % 4 # 0

\* A row says Fail only if a measured reduction of that size came out wrong at
\* some rank: neither a wrong warm-up nor the results of earlier iterations and
\* sizes count.  And no wrong result is missed, but one of MPI_FLOAT that is
\* off by less than one (osu_util_mpi.c:2255).
StatusExact ==
  \A n \in DOMAIN rows :
    rows[n].status # "none" /\ ~Untrusted(rows[n]) =>
      /\ rows[n].status = "Fail" => n \in wrong
      /\ n \in wrong /\ asked.dtypes[rows[n].type] # "MPI_FLOAT" => rows[n].status = "Fail"

\* The sizes of a datatype grow from row to row, over both halves of a tuning
\* run, with CPU buffers up to the threshold and ROCm buffers beyond (-E).
SizesAscend ==
  \A m, n \in DOMAIN rows :
    /\ m < n /\ rows[m].type = rows[n].type => rows[m].size < rows[n].size
    /\ asked.tuning => (rows[n].place = "NONE" <=> rows[n].size <= asked.threshold)

\* The lists of -T and -z have held all they were given.
ListsFit == Len(asked.dtypes) <= NumDatatypes /\ \A k \in DOMAIN asked.percentiles : k <= StatMaxNum

\* The sizes a datatype should be measured at: doubling from the first to the
\* last, in tuning mode to the threshold and from twice the threshold on,
\* those with at least one element.
Doubling(first, last) == {n \in first .. last : \E k \in 0 .. n : n = first * 2 ^ k}
WantedSizes(dtypeName) ==
  {n \in (IF asked.tuning
          THEN Doubling(asked.min, asked.threshold) \cup Doubling(2 * asked.threshold, asked.max)
          ELSE Doubling(asked.min, asked.max)) : n >= TypeSize[dtypeName]}

\* A job that ends well and has seen no error has printed what its command
\* line asks for: each datatype of -T with every size in the range once,
\* reduced in place if and only if -l was given -- as long as the lists of
\* -T and -z are not overrun (osu_util.c:1097 and :845).
TableComplete ==
  (\A r \in Procs : ended[r] = "success" /\ pc[r] = "finish") /\ ListsFit
      /\ (\A n \in DOMAIN rows : rows[n].status # "Fail") =>
    /\ \A t \in DOMAIN asked.dtypes :
         LET ofType == {n \in DOMAIN rows : rows[n].type = t}
         IN  /\ {rows[n].size : n \in ofType} = WantedSizes(asked.dtypes[t])
             /\ \A m, n \in ofType : rows[m].size = rows[n].size => m = n
    /\ \A n \in DOMAIN rows :
         rows[n].in_place <=> \E k \in DOMAIN line : line[k] = <<"l">>

\* When rank 0 prints, every rank has measured the same size to the end: the
\* minimum, maximum and average are over all ranks (lines 79-91).
RowCoversAllRanks ==
  pc[Root] \in {"row", "row barrier"} =>
    \A r \in Procs : /\ ended[r] = "no" /\ round[r] = round[Root]
                     /\ size[r] = size[Root] /\ typ[r] = typ[Root]
                     /\ iter[r] = opts[r].iterations + opts[r].skip

\* Tuning mode without -S starts its second half at size 0, which doubles to 0.
Spins == asked.ret = "PO_OKAY" /\ asked.tuning /\ asked.threshold = 0

\* If no rank is lost, all ranks end, in the same way: errors at one rank end
\* the loop at every rank, and nobody is left in a collective.
EveryRankEnds ==
  ([](~killed /\ \A r \in Procs : ended[r] # "lost") /\ ~Spins) =>
    <>(AllEnded /\ \A q, r \in Procs : ended[q] = ended[r])

\* Contradicted (lines 300-303): a run that fails validation exits with a
\* failure.
ExitTellsValidation ==
  ended[Root] = "success" => \A n \in DOMAIN rows : rows[n].status # "Fail"
=============================================================================
