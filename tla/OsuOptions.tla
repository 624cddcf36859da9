----------------------------- MODULE OsuOptions -----------------------------
(***************************************************************************)
(* The options of osu_allreduce: process_options in                        *)
(* src/omb/c/util/osu_util.c.  A command line is a sequence of tuples      *)
(* whose first part is the option letter:                                  *)
(*   <<"m", "MAX", b>>, <<"m", "MIN:", a>>, <<"m", "MIN:MAX", a, b>>       *)
(*   <<"i", n>> <<"x", n>> <<"u", n>> <<"S", n>>                           *)
(*   <<"T", name>> <<"d", type>>                                           *)
(*   <<"z">> without a list, <<"z", p, ...>> with one                      *)
(*   <<"c">>, <<"c", "log">> with -clog and a directory it can have,       *)
(*   <<"c", "refused">> with one that exists or has too long a name        *)
(*   <<"l">> <<"E">> <<"h">> <<"v">>                                       *)
(* and any other letter is one getopt does not know, or one of a part that *)
(* was not configured (-I, -P).  Options that only change what is printed  *)
(* are left out.  A last tuple <<"", w, ...>> has the words from the first *)
(* that is no option: getopt stops there, whatever follows.                *)
(*                                                                         *)
(* The lists behind -T and -z have a fixed size and no check: what does    *)
(* not fit goes to the members of struct options_t that follow the list    *)
(* (osu_util.h:385-400).  Followed as far as the struct goes.              *)
(***************************************************************************)
EXTENDS Integers, Sequences, SequencesExt

CONSTANTS
  CollLoopSmall, CollSkipSmall,   \* iterations up to LARGE_MESSAGE_SIZE
  CollLoopLarge, CollSkipLarge,   \* iterations beyond
  ValidationSkip,                 \* VALIDATION_SKIP_DEFAULT
  ValidationSkipMax,              \* VALIDATION_SKIP_MAX
  MaxMsgSizeColl,                 \* MAX_MSG_SIZE_COLL
  RocmEnabled,                    \* built with ROCm support
  IntRange,                       \* the values of an int, 2^32: half a size_t
  LogPathInts                     \* the ints in log_validation_dir_path, 256

ASSUME OptionConstants ==
  /\ CollLoopSmall \in Nat \ {0} /\ CollLoopLarge \in Nat \ {0}
  /\ CollSkipSmall \in Nat /\ CollSkipLarge \in Nat
  /\ CollLoopLarge <= CollLoopSmall
  /\ ValidationSkip \in Nat /\ ValidationSkipMax \in Nat
  /\ MaxMsgSizeColl \in Nat /\ RocmEnabled \in BOOLEAN
  /\ IntRange \in Nat \ {0} /\ LogPathInts \in Nat \ {0}

NumDatatypes == 3    \* OMB_NUM_DATATYPES
StatMaxNum == 5      \* OMB_STAT_MAX_NUM

\* The numbers an option comes with.  A negative -S is a threshold beyond any
\* memory, for which there is no buffer.  Bound: the struct ends four ints after
\* the list of -z, and what a longer one overwrites the compiler decides.
WellFormed(opt) ==
  /\ opt[1] \in {"i", "x", "u"} => opt[2] \in Int
  /\ opt[1] = "S" => opt[2] \in Nat
  /\ opt[1] = "z" => Tail(opt) \in Seq(Int) /\ Len(Tail(opt)) <= StatMaxNum + 4
  /\ opt[1] = "m" /\ opt[2] \in {"MAX", "MIN:", "MIN:MAX"} =>
       LET parts == SubSeq(opt, 3, Len(opt))
       IN  parts \in Seq(Int) /\ Len(parts) = (IF opt[2] = "MIN:MAX" THEN 2 ELSE 1)

\* struct options_t at the start of the loop over the command line.
Defaults ==
  [ret |-> "PO_OKAY", accel |-> "NONE", min |-> 1, max |-> MaxMsgSizeColl,
   iterations |-> CollLoopSmall, skip |-> CollSkipSmall,
   iterations_large |-> CollLoopLarge, skip_large |-> CollSkipLarge,
   validate |-> FALSE, warmup_validation |-> ValidationSkip, dtypes |-> <<>>,
   session |-> 0, in_place |-> 0, tail_lat |-> FALSE, log |-> "no",
   percentiles |-> <<>>, tuning |-> FALSE, threshold |-> 0]

BadUsage(o) == [o EXCEPT !.ret = "PO_BAD_USAGE"]

\* Mutant: any minimum will do.
SetAnyMin(o, a) == [o EXCEPT !.min = a]

SetMin(o, a) == IF a > 0 THEN [o EXCEPT !.min = a] ELSE o
SetMax(o, b) == IF b >= 0 THEN [o EXCEPT !.max = b] ELSE o

\* Given both parts the answer is that of the maximum: a minimum that was
\* refused goes unnoticed.
SetMessageSize(o, form, parts) ==
  CASE form = "MAX" ->
         IF parts[1] < 0 THEN BadUsage(o) ELSE SetMax(o, parts[1])
    [] form = "MIN:" ->
         IF parts[1] <= 0 THEN BadUsage(o) ELSE SetMin(o, parts[1])
    [] form = "MIN:MAX" ->
         IF parts[2] < 0 THEN BadUsage(SetMin(o, parts[1]))
         ELSE SetMax(SetMin(o, parts[1]), parts[2])
    [] OTHER -> BadUsage(o)

SetNumIterations(o, n) ==
  IF n < 1 THEN BadUsage(o) ELSE [o EXCEPT !.iterations = n, !.iterations_large = n]

SetNumWarmup(o, n) ==
  IF n < 0 THEN BadUsage(o) ELSE [o EXCEPT !.skip = n, !.skip_large = n]

SetWarmupValidation(o, n) ==
  IF n < 0 THEN BadUsage(o)
  ELSE LET set == [o EXCEPT !.warmup_validation = n]
       IN  IF n > ValidationSkipMax THEN BadUsage(set) ELSE set

\* enum omb_dtypes_t.
DtypeValue == [MPI_CHAR |-> 1, MPI_INT |-> 2, MPI_FLOAT |-> 3]

\* The ints after omb_dtype_list are papi_enabled, which a build without PAPI
\* does not read, omb_enable_session, omb_enable_mpi_in_place, omb_root_rank,
\* which this benchmark does not read, omb_tail_lat, log_validation and those of
\* log_validation_dir_path: a log that was not asked for has no directory, until
\* the next type makes a name of one letter.
AppendDtype(o, dtype) ==
  LET place == Len(o.dtypes) + 1 - NumDatatypes
      longer == [o EXCEPT !.dtypes = Append(@, dtype)]
  IN  CASE place = 2 -> [longer EXCEPT !.session = DtypeValue[dtype]]
        [] place = 3 -> [longer EXCEPT !.in_place = DtypeValue[dtype]]
        [] place = 5 -> [longer EXCEPT !.tail_lat = TRUE]
        [] place = 6 -> [longer EXCEPT !.log = IF @ = "no" THEN "nowhere" ELSE @]
        [] place = 7 -> [longer EXCEPT !.log = "directory"]
        [] OTHER -> longer

\* Bound: the list of -T goes no further than the name of that directory.
TypesWithin(o) == Len(o.dtypes) <= NumDatatypes + 6 + LogPathInts

\* An unknown type is passed over in silence.
AddDtypes(o, name) ==
  FoldLeft(AppendDtype, o,
           CASE name = "ALL" -> <<"MPI_CHAR", "MPI_INT", "MPI_FLOAT">>
             [] name \in DOMAIN DtypeValue -> <<name>>
             [] OTHER -> <<>>)

\* One entry of -z at its place in the list.  The ints after
\* omb_stat_percentiles are num_partitions, which this benchmark does not
\* read, tuning, and the low and the high half of threshold.  Nobody reads
\* what a refused entry leaves behind.
PutPercentile(o, place, p) ==
  LET longer == [o EXCEPT !.percentiles =
                   [k \in DOMAIN @ \cup {place} |-> IF k = place THEN p ELSE @[k]]]
  IN  IF p \notin 0 .. 100 THEN BadUsage(o)
      ELSE CASE place = StatMaxNum + 2 -> [longer EXCEPT !.tuning = (p # 0)]
             [] place = StatMaxNum + 3 -> [longer EXCEPT !.threshold = (@ - (@ % IntRange)) + p]
             [] place = StatMaxNum + 4 -> [longer EXCEPT !.threshold = (@ % IntRange) + p * IntRange]
             [] OTHER -> longer

\* Entries of an earlier -z stay where the new list is shorter.
SetPercentiles(o, list) ==
  LET given == IF list = <<>> THEN <<50, 90, 99>> ELSE list
      put(sofar, place) == IF sofar.ret = "PO_OKAY"
                           THEN PutPercentile(sofar, place, given[place]) ELSE sofar
  IN  FoldLeft(put, [o EXCEPT !.tail_lat = TRUE], [k \in DOMAIN given |-> k])

SetAccel(o, type) ==
  IF RocmEnabled /\ type = "rocm" THEN [o EXCEPT !.accel = "ROCM"] ELSE BadUsage(o)

\* Validation, and a log of what it finds.
SetValidate(o, given) ==
  LET set == [o EXCEPT !.validate = TRUE]
  IN  CASE given = <<"log">> -> [set EXCEPT !.log = "directory"]
        [] given = <<"refused">> -> BadUsage(set)
        [] OTHER -> set

SetThreshold(o, n) ==
  IF n = 0 THEN BadUsage([o EXCEPT !.threshold = 0]) ELSE [o EXCEPT !.threshold = n]

\* One round of the loop; the first refusal, -h or -v ends it.
Apply(o, opt) ==
  IF o.ret # "PO_OKAY" THEN o
  ELSE CASE opt[1] = "h" -> [o EXCEPT !.ret = "PO_HELP_MESSAGE"]
         [] opt[1] = "v" -> [o EXCEPT !.ret = "PO_VERSION_MESSAGE"]
         [] opt[1] = "m" -> SetMessageSize(o, opt[2], SubSeq(opt, 3, Len(opt)))
         [] opt[1] = "i" -> SetNumIterations(o, opt[2])
         [] opt[1] = "x" -> SetNumWarmup(o, opt[2])
         [] opt[1] = "u" -> SetWarmupValidation(o, opt[2])
         [] opt[1] = "T" -> AddDtypes(o, opt[2])
         [] opt[1] = "d" -> SetAccel(o, opt[2])
         [] opt[1] = "S" -> SetThreshold(o, opt[2])
         [] opt[1] = "c" -> SetValidate(o, Tail(opt))
         [] opt[1] = "z" -> SetPercentiles(o, Tail(opt))
         [] opt[1] = "l" -> [o EXCEPT !.in_place = 1]
         [] opt[1] = "E" -> [o EXCEPT !.tuning = TRUE]
         [] opt[1] = "" -> o
         [] OTHER -> BadUsage(o)

\* What follows the loop: no warm-up without validation, MPI_INT by default.
Complete(o) ==
  [o EXCEPT !.warmup_validation = IF o.validate THEN @ ELSE 0,
            !.dtypes = IF @ = <<>> THEN <<"MPI_INT">> ELSE @]

\* The words left over are SRC and DST if the build knows accelerators: none
\* or two.  M needs CUDA; of other letters nothing is heard, although setAccel
\* refuses D for a collective and what it does not know.
Operands(o, words) ==
  IF RocmEnabled /\ (Len(words) \notin {0, 2} \/ "M" \in Range(words)) THEN BadUsage(o) ELSE o

ProcessOptions(line) ==
  LET read == FoldLeft(Apply, Defaults, line)
      words == FlattenSeq([k \in DOMAIN line |-> IF line[k][1] = "" THEN Tail(line[k]) ELSE <<>>])
  IN  IF read.ret = "PO_OKAY" THEN Operands(Complete(read), words) ELSE read

=============================================================================
