---------------------------- MODULE MCBenchmark ----------------------------
(***************************************************************************)
(* Command lines for the benchmarks: each datatype, with and without       *)
(* corruption, and what is rejected at each of the three places.           *)
(***************************************************************************)
EXTENDS AllreduceBenchmark

Line(size, flags) == [bytes |-> size, args |-> flags]
Lines == {Line(2, <<>>), Line(2, <<"--corrupt">>), Line(8, <<"--int", "--corrupt">>),
          Line(8, <<"--corrupt", "--double">>), Line(8, <<"--float", "--int">>),
          Line(3, <<"--float">>), Line(8, <<"--int", "--long">>),
          Line(8, <<"--int", "--corrupt", "--float">>)}
=============================================================================
