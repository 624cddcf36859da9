------------------------------- MODULE MCOsu -------------------------------
(***************************************************************************)
(* Command lines of osu_allreduce.  Iterations and limits are scaled down; *)
(* 8 stands for LARGE_MESSAGE_SIZE, so that sizes cross it.                *)
(***************************************************************************)
EXTENDS OsuAllreduce

\* -m 0:MAX, as the scripts call it, with a type smaller than the others.
Plain == {<< <<"m", "MIN:MAX", 0, 16>>, <<"T", "ALL">>, <<"z">> >>,
          << <<"x", 0>>, <<"m", "MAX", 16>>, <<"z">>, <<"i", 1>>, <<"d", "rocm">> >>}

\* Percentiles: a full list, and the ends of the range with one sample.
Percentiles == {<< <<"m", "MIN:MAX", 4, 16>>, <<"z", 10, 50, 67, 90, 100>> >>,
                << <<"z">>, <<"z", 0, 100>>, <<"i", 1>>, <<"m", "MIN:MAX", 4, 8>>, <<"x", 0>> >>}

\* Lists that overrun: a fourth to twelfth datatype (session, place, tail
\* latencies, the log and its directory), a sixth to ninth percentile (tuning
\* and both halves of its threshold, 4 and 128 + 4).
Overrun == {<< <<"T", "ALL">>, <<"T", "MPI_INT">>, <<"m", "MAX", 4>> >>,
            << <<"T", "ALL">>, <<"T", "MPI_FLOAT">>, <<"T", "MPI_CHAR">> >>,
            << <<"T", "ALL">>, <<"T", "MPI_INT">>, <<"T", "MPI_FLOAT">>, <<"T", "MPI_CHAR">>,
               <<"m", "MAX", 4>>, <<"x", 0>> >>,
            << <<"c">>, <<"u", 0>>, <<"i", 1>>, <<"x", 0>>, <<"m", "MIN:MAX", 4, 4>> >>
               \o [k \in 1 .. 6 |-> <<"T", "MPI_INT">>],
            << <<"i", 1>>, <<"x", 0>>, <<"m", "MIN:MAX", 4, 4>> >>
               \o [k \in 1 .. 8 |-> <<"T", "MPI_INT">>],
            << <<"c">>, <<"u", 0>>, <<"i", 1>>, <<"x", 0>>, <<"m", "MIN:MAX", 4, 4>> >>
               \o [k \in 1 .. 9 |-> <<"T", "MPI_INT">>],
            << <<"c">>, <<"u", 0>>, <<"i", 1>>, <<"x", 0>>, <<"m", "MIN:MAX", 4, 4>> >>
               \o [k \in 1 .. 11 |-> <<"T", "MPI_INT">>],
            << <<"z", 10, 50, 90, 95, 99, 0, 1, 4>>, <<"m", "MIN:MAX", 4, 8>>, <<"x", 0>> >>,
            << <<"S", 2>>, <<"z", 10, 50, 90, 95, 99, 0, 1, 4, 1>>, <<"m", "MIN:", 64>> >>,
            << <<"z", 1, 10, 50, 90, 95, 99, 100>>, <<"m", "MAX", 4>> >>,
            << <<"z", 10, 50, 90, 95, 99, 100>>, <<"m", "MAX", 4>>, <<"x", 0>> >>}

\* Validation, with and without warm-up, sizes in the middle of an element.
Validating == {<< <<"u", 0>>, <<"c">>, <<"m", "MIN:MAX", 4, 16>>, <<"T", "MPI_INT">>,
                  <<"T", "MPI_FLOAT">> >>,
               << <<"c">>, <<"m", "MAX", 4>> >>,
               << <<"c">>, <<"u", 0>>, <<"l">>, <<"m", "MIN:MAX", 6, 8>> >>,
               << <<"c", "log">>, <<"u", 0>>, <<"i", 1>>, <<"m", "MIN:MAX", 6, 8>> >>,
               << <<"c">>, <<"T", "MPI_CHAR">> >>}

\* Tuning mode with the threshold within, below and above the range, and
\* without one.
Tuning == {<< <<"E">>, <<"S", 4>>, <<"m", "MIN:MAX", 0, 16>>, <<"d", "rocm">> >>,
           << <<"c">>, <<"u", 1>>, <<"E">>, <<"S", 4>>, <<"m", "MAX", 8>>, <<"i", 2>>,
              <<"x", 0>> >>,
           << <<"c">>, <<"u", 1>>, <<"l">>, <<"E">>, <<"S", 4>>, <<"m", "MAX", 4>> >>,
           << <<"E">>, <<"S", 16>>, <<"m", "MAX", 8>> >>,
           << <<"E">>, <<"S", 2>>, <<"m", "MIN:", 8>> >>,
           << <<"E">> >>}

\* What ends before the first message.
Refused == {<< <<"h">>, <<"i", 0>> >>, << <<"v">> >>, << <<"c">>, <<"u", 11>> >>,
            << <<"d", "cuda">> >>, << <<"E">>, <<"S", 0>> >>, << <<"m", "MIN:", 0>> >>,
            << <<"x", -1>> >>, << <<"m", "MIN:MAX", 4, -1>> >>, << <<"q">> >>,
            << <<"z", 50, 101>> >>, << <<"", "D">> >>, << <<"c">>, <<"", "M", "H">> >>,
            << <<"c", "refused">> >>}

\* Words that are no options: device memory for a collective, an option too
\* late.
Words == {<< <<"m", "MAX", 4>>, <<"x", 0>>, <<"", "D", "D">> >>,
          << <<"m", "MAX", 4>>, <<"x", 0>>, <<"", "D", "-l">> >>}

Lines == Plain \cup Percentiles \cup Overrun \cup Validating \cup Tuning \cup Refused \cup Words
=============================================================================
