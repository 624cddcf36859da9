--------------------------- MODULE BenchValidate ---------------------------
(***************************************************************************)
(* The arithmetic of the stand-alone allreduce benchmarks                  *)
(* (src/benchmark/allreduce_benchmark_rccl.c; the MPI and lambda versions  *)
(* compute the same): what a rank sends, what --corrupt writes into it,    *)
(* what the sum is in the benchmark's datatype, and validate().            *)
(* A buffer is a function on 1 .. count; ranks are 0 .. size-1.            *)
(***************************************************************************)
EXTENDS Integers, FiniteSets, Sequences, Functions

DataType == {"INT8", "INT", "FLOAT", "DOUBLE"}
Flags == [INT |-> "--int", FLOAT |-> "--float", DOUBLE |-> "--double"]

TypeSize == [INT8 |-> 1, INT |-> 4, FLOAT |-> 4, DOUBLE |-> 8]

\* The last datatype flag wins; int8 is the default.
TypeOf(args) ==
  LET last == {t \in DOMAIN Flags : \E i \in DOMAIN args :
                 /\ args[i] = Flags[t]
                 /\ \A j \in i + 1 .. Len(args) : args[j] \notin Range(Flags)}
  IN  IF last = {} THEN "INT8" ELSE CHOOSE t \in last : TRUE

CorruptOf(args) == "--corrupt" \in Range(args)

KnownArgs(args) == Range(args) \subseteq Range(Flags) \cup {"--corrupt"}

Count(bytes, type) == bytes \div TypeSize[type]

\* A value stored in an element: int8 wraps, and for the values a benchmark
\* meets the other types are exact.
Int8(x) == ((x + 128) % 256) - 128
Store(type, x) == IF type = "INT8" THEN Int8(x) ELSE x

Filled(type, count, rank) == [i \in 1 .. count |-> Store(type, rank)]

\* Mutant: a marker that is a rank's own value.
MarkerOne(type) == IF type = "INT8" THEN 1 ELSE 999

Marker(type) == IF type = "INT8" THEN 99 ELSE 999
Corrupted(type, buffer, i) == [buffer EXCEPT ![i] = Store(type, Marker(type))]

\* ncclAllReduce or MPI_Allreduce with a sum.
Reduced(type, send) ==
  [i \in DOMAIN send[0] |->
     Store(type, SumFunction([r \in DOMAIN send |-> send[r][i]]))]

Expected(size) == ((size - 1) * size) \div 2

\* Mutant: the loop runs one element too far.
ValidatePastEnd(recv, size) == Cardinality({i \in DOMAIN recv : recv[i] # Expected(size)}) + 1

\* validate(): the number of wrong elements.
Validate(recv, size) == Cardinality({i \in DOMAIN recv : recv[i] # Expected(size)})

=============================================================================
