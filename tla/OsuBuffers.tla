----------------------------- MODULE OsuBuffers -----------------------------
(***************************************************************************)
(* What OSU benchmarks with validation put into their buffers and what     *)
(* they expect in them afterwards: src/omb/c/util/osu_util_mpi.c, for the  *)
(* collectives that move data, for MPI_Reduce_scatter, for point-to-point  *)
(* messages and for neighbourhoods.  (Allreduce is in OsuAllreduce.)       *)
(*                                                                         *)
(* All elements a collective sends from one rank to another are filled     *)
(* with one value, or with one that counts up along the block, so a buffer *)
(* is a sequence of one value per block.  The elements of a point-to-point *)
(* message or a reduction differ, and each is a block of its own.  Junk is *)
(* what malloc returned.                                                   *)
(*                                                                         *)
(* A job is a record with its parts of options: bench, subtype, dtype,     *)
(* in_place and root (RotateRoot for -k rotate), and the number np of its  *)
(* ranks and len of the elements of a message or a reduction; src and dst  *)
(* are the letters of SRC and DST.                                         *)
(***************************************************************************)
EXTENDS Integers, Sequences, FiniteSets, SequencesExt

Junk == -1
RotateRoot == -1

IntMultiplier == 10
FloatMultiplier == 2
CharMultiplier == 7
CharRange == 256

SizeOfType == [MPI_CHAR |-> 1, MPI_INT |-> 4, MPI_FLOAT |-> 4]

AssignToType(val, dtype) ==
  CASE dtype = "MPI_CHAR" -> (CharMultiplier * val) % CharRange
    [] dtype = "MPI_INT" -> val * IntMultiplier
    [] dtype = "MPI_FLOAT" -> val * FloatMultiplier

GetRootRank(job, iter) == IF job.root # RotateRoot THEN job.root ELSE iter % job.np

-----------------------------------------------------------------------------
\* Mutant: every iteration sends the same.
FillValueOnce(rank, num_procs, i, iter) == rank * num_procs + i + (rank * num_procs + 1) * (i + 1)

\* The value of block i among num_procs blocks of the rank.
FillValue(rank, num_procs, i, iter) ==
  rank * num_procs + i + (iter + 1) * (rank * num_procs + 1) * (i + 1)

\* Zeros in receive buffers, save that of a gather; with MPI_IN_PLACE, the
\* rank's own block at the place it has in the result.
SetBufferDtype(job, isSend, rank, num_procs, id, blocks, iter) ==
  LET ownPlace == job.in_place /\ \/ job.subtype = "ALL_GATHER"
                                  \/ job.subtype = "GATHER" /\ ~isSend
      offset == IF ownPlace THEN id ELSE 0
      filled == isSend \/ job.subtype = "GATHER"
      value(i) == IF filled THEN AssignToType(FillValue(rank, num_procs, i, iter), job.dtype)
                  ELSE AssignToType(0, job.dtype)
  IN  [b \in 1 .. blocks |->
         IF b - offset \in 1 .. num_procs THEN value(b - offset - 1) ELSE Junk]

\* Which letter holds for a rank of a point-to-point benchmark.  What it says
\* decides how buffers are copied; with any other letter nothing is copied.
Pairs(job) == job.np \div 2
Letter(job, r) == IF r < Pairs(job) THEN job.src ELSE job.dst
Copies(job, r) == Letter(job, r) \in {"H", "D"}

\* A point-to-point message: its i-th element, counted from 1.
MessageValue(job, i, iter) ==
  AssignToType(CharMultiplier * i + job.len * SizeOfType[job.dtype] + iter, job.dtype)

\* Element i of a contribution to a reduction, counted from 0.
ReduceValue(job, i, iter) == AssignToType(((i % 100) + 1) * (iter + 1), job.dtype)

\* The elements of the result that go to each rank.
RecvCounts(job) ==
  [k \in 0 .. job.np - 1 |-> (job.len \div job.np) + (IF k < job.len % job.np THEN 1 ELSE 0)]
FirstOf(job, r) == SumFunctionOnSet(RecvCounts(job), 0 .. r - 1)

\* Of the receive buffer of a reduce-scatter (size / numprocs + 1) bytes are
\* cleared, which may be fewer than the rank will receive.
ClearReduced(job, old) ==
  LET cleared == (((job.len * SizeOfType[job.dtype]) \div job.np) + 1) \div SizeOfType[job.dtype]
  IN  [i \in 1 .. (job.len \div job.np) + 1 |->
         IF i <= cleared THEN 0 ELSE IF i \in DOMAIN old THEN old[i] ELSE Junk]

\* set_buffer_validation at rank r: the pair of its buffers.  A broadcast has
\* one buffer, in place all but a gather use only the second.
SetBufferValidation(job, r, iter, old) ==
  LET np == job.np
      fill(isSend, rank, num_procs, blocks) ==
        SetBufferDtype(job, isSend, rank, num_procs, r, blocks, iter)
      both(s, t) == [s |-> s, r |-> t]
  IN  CASE job.bench = "PT2PT" ->
             IF Copies(job, r)
             THEN both([i \in 1 .. job.len |-> MessageValue(job, i, iter)],
                       [i \in 1 .. job.len |-> AssignToType(0, job.dtype)])
             ELSE both([i \in 1 .. job.len |-> Junk],
                       [i \in 1 .. job.len |-> IF iter > 0 THEN old.r[i] ELSE Junk])
        [] job.subtype = "ALLTOALL" ->
             IF job.in_place THEN both(old.s, fill(TRUE, r, np, np))
             ELSE both(fill(TRUE, r, np, np), fill(FALSE, r, np, np))
        [] job.subtype = "GATHER" ->
             both(fill(TRUE, r * np, 1, 1),
                  IF job.in_place THEN fill(FALSE, r * np, 1, np) ELSE fill(FALSE, r, np, np))
        [] job.subtype = "ALL_GATHER" ->
             IF job.in_place THEN both(old.s, fill(TRUE, r * np, 1, np))
             ELSE both(fill(TRUE, r * np, 1, 1), IF r = 0 THEN fill(FALSE, r, np, np) ELSE old.r)
        [] job.subtype = "SCATTER" ->
             IF job.in_place THEN both(old.s, fill(TRUE, 0, np, np))
             ELSE both(fill(TRUE, 0, np, np), fill(FALSE, r * np, 1, 1))
        [] job.subtype = "REDUCE_SCATTER" ->
             LET own == [i \in 1 .. job.len |-> ReduceValue(job, i - 1, iter)]
             IN  IF job.in_place THEN both(old.s, own) ELSE both(own, ClearReduced(job, old.r))
        [] job.subtype = "BCAST" ->
             LET buffer == fill(r = 0, 1, 1, 1) IN both(buffer, buffer)

\* set_buffer_nhbr_validation at rank r with neighbours n.
SetBufferNhbrValidation(job, r, n, iter) ==
  LET sends == IF job.subtype = "NHBR_GATHER" THEN 1 ELSE n.outdegree
      value1(i) == IF job.subtype = "NHBR_GATHER" THEN 0 ELSE n.destinations[i]
  IN  [s |-> [i \in 1 .. sends |-> AssignToType(r + iter + value1(i) + 1, job.dtype)],
       r |-> [i \in 1 .. n.indegree |-> AssignToType(0, job.dtype)]]

-----------------------------------------------------------------------------
\* Floats are compared over the elements of one block only, and by abs() of
\* whole numbers: all values here are whole, and none is within one of another.
ValidateCollective(buffer, value1, value2, itr, dtype) ==
  LET expected(i) == AssignToType(i * value2 + value1
                                    + (itr + 1) * (value1 + 1) * (i * value2 + 1), dtype)
      compared == IF dtype = "MPI_FLOAT" THEN {0} ELSE 0 .. value2 - 1
  IN  IF \E i \in compared : buffer[i + 1] # expected(i) THEN 1 ELSE 0

\* Other types than floats are compared over as many bytes as there are
\* elements: of the last element reached perhaps only the low bytes.
ValidateMessage(job, buffer, iter) ==
  LET width == IF job.dtype = "MPI_FLOAT" THEN 1 ELSE SizeOfType[job.dtype]
      whole == job.len \div width
      rest == job.len % width
      differs(i) == buffer[i] # MessageValue(job, i, iter)
      low(v) == v % CharRange ^ rest
      lowDiffers(i) == low(buffer[i]) # low(MessageValue(job, i, iter))
  IN  IF (\E i \in 1 .. whole : differs(i)) \/ (rest > 0 /\ lowDiffers(whole + 1)) THEN 1 ELSE 0

\* validate_reduce_scatter: the loop starts at the first element of the rank,
\* but ends at the number of its elements.
ValidateReduceScatter(job, r, buffer, iter) ==
  LET compared == FirstOf(job, r) .. RecvCounts(job)[r] - 1
      expected(i) == AssignToType(((i % 100) + 1) * (iter + 1) * job.np, job.dtype)
  IN  IF \E i \in compared : buffer[i + 1] # expected(i) THEN 1 ELSE 0

\* validate_data, or the function of its own a reduce-scatter needs.
ValidateData(job, r, buffer, iter) ==
  LET check(value1, value2) == ValidateCollective(buffer, value1, value2, iter, job.dtype)
  IN  CASE job.bench = "PT2PT" -> ValidateMessage(job, buffer, iter)
        [] job.subtype = "ALLTOALL" -> check(r, job.np)
        [] job.subtype \in {"GATHER", "ALL_GATHER"} -> check(0, job.np)
        [] job.subtype = "SCATTER" -> check(r, 1)
        [] job.subtype = "REDUCE_SCATTER" -> ValidateReduceScatter(job, r, buffer, iter)
        [] job.subtype = "BCAST" -> check(1, 1)

ValidateNeighborhoodCol(job, r, n, buffer, iter) ==
  LET value1 == IF job.subtype = "NHBR_GATHER" THEN 0 ELSE r
      expected(l) == AssignToType(n.sources[l] + value1 + iter + 1, job.dtype)
  IN  IF \E l \in 1 .. n.indegree : buffer[l] # expected(l) THEN 1 ELSE 0

\* omb_scatter_offset_copy: the root's own block of a scatter in place.
ScatterOffsetCopy(buffer, root) == [buffer EXCEPT ![1] = buffer[root + 1]]
=============================================================================
