----------------------------- MODULE MCOsuBlocks -----------------------------
(***************************************************************************)
(* Jobs for OsuCollectives: every operation with every datatype, in place  *)
(* where the benchmarks allow it, with fixed and rotating roots; grids of  *)
(* one and two dimensions and graphs, right, refused and broken; buffers   *)
(* on the host and on the device, and windows of every kind.               *)
(***************************************************************************)
EXTENDS OsuCollectives

Job(subtype, dtype, np, iters) ==
  [bench |-> "COLLECTIVE", subtype |-> subtype, dtype |-> dtype, in_place |-> FALSE,
   root |-> 0, np |-> np, len |-> 1, nhbrhd |-> <<"cart", 1, 1>>, iters |-> iters,
   call |-> "pt2pt", src |-> "H", dst |-> "H", accel |-> "NONE", win |-> "CREATE",
   compare |-> FALSE]

Types == {"MPI_CHAR", "MPI_INT", "MPI_FLOAT"}

Moves ==
  {[Job(s, t, np, 3) EXCEPT !.in_place = p] :
     s \in {"ALLTOALL", "GATHER", "ALL_GATHER", "SCATTER"}, t \in Types, np \in {2, 4},
     p \in BOOLEAN}
  \cup {Job("BCAST", t, 3, 3) : t \in Types}
  \cup {[Job("REDUCE_SCATTER", t, np, 3) EXCEPT !.in_place = p, !.len = 5] :
          t \in Types, np \in {2, 3}, p \in BOOLEAN}
  \cup {[Job(s, "MPI_INT", 3, 3) EXCEPT !.root = k, !.in_place = p] :
          s \in {"GATHER", "SCATTER", "BCAST"}, k \in {RotateRoot, 1, 3}, p \in BOOLEAN}

Messages ==
  {[Job("LAT", t, 2, 3) EXCEPT !.bench = "PT2PT", !.len = 8] : t \in Types}
  \cup {[Job("LAT", "MPI_INT", 2, 3) EXCEPT !.bench = "PT2PT", !.len = 6]}

Sides(j, src, dst) ==
  [j EXCEPT !.src = src, !.dst = dst, !.accel = setAccel(setAccel("NONE", src), dst)]

\* Two ranks or two pairs, buffers of every kind, a letter nobody knows.
Placed ==
  {[Sides(Job("LAT", "MPI_FLOAT", 2, 1), a, b) EXCEPT
      !.bench = "PT2PT", !.call = c, !.len = l] :
     a \in {"H", "D"}, b \in {"H", "D", "X"}, c \in {"pt2pt", "pt2pt_size"}, l \in {0, 3}}
  \cup
  {[Sides(Job("MBW_MR", "MPI_FLOAT", 2 * n, 1), a, b) EXCEPT
      !.bench = "PT2PT", !.call = c, !.len = l] :
     n \in {1, 2}, a \in {"H", "D"}, b \in {"H", "D"}, c \in {"mul", "mul_size"}, l \in {0, 2}}

Windows ==
  {[Sides(Job("LAT", "MPI_CHAR", 2, 1), a, b) EXCEPT
      !.bench = "ONE_SIDED", !.call = c[1], !.compare = c[2], !.win = w, !.len = 8] :
     a \in {"H", "D", "X"}, b \in {"H", "D"}, w \in {"CREATE", "ALLOCATE", "DYNAMIC"},
     c \in {<<"one_sided", FALSE>>, <<"atomic", FALSE>>, <<"atomic", TRUE>>}}

Around(subtype, dtype, np, arg) == [Job(subtype, dtype, np, 2) EXCEPT !.nhbrhd = arg]

Sample == << <<>>, <<2, 0>>, <<0, 1>>, <<1, 2>>, <<2, 3>>, <<1, 3>>, <<0, 3>> >>

Neighborhoods ==
  {Around(s, t, np, <<"cart", 1, 1>>) :
     s \in {"NHBR_GATHER", "NHBR_ALLTOALL"}, t \in Types, np \in {3, 5}}
  \cup {Around(s, "MPI_INT", 5, <<"cart", 1, 2>>) : s \in {"NHBR_GATHER", "NHBR_ALLTOALL"}}
  \cup {[Around("NHBR_GATHER", "MPI_INT", 9, <<"cart", 2, 1>>) EXCEPT !.iters = 1]}
  \cup {Around("NHBR_GATHER", "MPI_INT", 6, <<"cart", 2, 0>>)}
  \cup {Around(s, t, 4, <<"graph", TRUE, Sample>>) :
          s \in {"NHBR_GATHER", "NHBR_ALLTOALL"}, t \in Types}
  \cup {Around("NHBR_ALLTOALL", "MPI_INT", 3,
               <<"graph", TRUE, << <<0, 1>>, <<0, 1>>, <<1, 1>>, <<2, 0>> >> >>)}

\* Too large a radius, dimensions of one, too few ranks for the file, files
\* that are missing, broken or too deep in their directories, more edges than
\* fit, options cut short.
Refused ==
  {Around("NHBR_GATHER", "MPI_INT", c[1], c[2]) :
     c \in {<<2, <<"cart", 1, 1>> >>, <<4, <<"cart", 1, 2>> >>, <<6, <<"cart", 2, 1>> >>,
            <<3, <<"cart", 2, 1>> >>, <<3, <<"graph", TRUE, Sample>> >>, <<2, <<"graph">> >>,
            <<2, <<"graph", TRUE, << <<0, 1>>, <<7>> >> >> >>,
            <<3, <<"graph", TRUE, << <<0, 1>>, <<0, 2>>, <<0, 0>>, <<0, 1>> >> >> >>,
            <<3, <<"graph", TRUE, << <<0, 1>>, <<0, 2>>, <<0, 0>>, <<0, 1>>, <<1, 2>> >> >> >>,
            <<3, <<"graph", TRUE, << <<0, 1>>, <<2, 1>>, <<1, 1>>, <<0, 1>>, <<0, 1>> >> >> >>,
            <<2, <<"graph", FALSE, <<>> >> >>,
            <<2, <<>> >>, <<2, <<"cart">> >>, <<2, <<"cart", 1>> >>, <<2, <<"ring">> >>}}

AllJobs == Moves \cup Messages \cup Placed \cup Windows \cup Neighborhoods \cup Refused
=============================================================================
