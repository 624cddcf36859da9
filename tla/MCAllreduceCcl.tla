--------------------------- MODULE MCAllreduceCcl ---------------------------
(***************************************************************************)
(* Small instances of AllreduceCcl.  A benchmark program binds rank r to   *)
(* GPU r before its first call (OneGpuEach); an application may also use a *)
(* second one (SpareGpu), or the GPU of another rank (SharedGpus).         *)
(***************************************************************************)
EXTENDS AllreduceCcl

CONSTANTS r0, r1, r2, g0, g1, g2, c1, c2

Allreduce(c, op, dtype, place) ==
  [kind |-> "allreduce", comm |-> c, op |-> op, dtype |-> dtype, place |-> place]
Free(c) == [kind |-> "free", comm |-> c, op |-> "NULL", dtype |-> "NULL", place |-> "host"]

OneGpuEach == [r \in Ranks |-> CASE r = r0 -> {g0} [] r = r1 -> {g1} [] OTHER -> {g2}]
SpareGpu == [r \in Ranks |-> IF r = r0 THEN {g0} ELSE {g1, g2}]
SharedGpus == [r \in Ranks |-> CASE r = r0 -> {g0} [] r = r1 -> {g0, g1} [] OTHER -> {g2}]

\* All ranks have their buffers in the same kind of place.  MPI_BAND and the
\* 16-bit brain float have no counterpart in the library.
UniformCalls ==
  {Allreduce(c1, "SUM", "INT32", "gpu"), Allreduce(c2, "SUM", "INT32", "gpu"),
   Allreduce(c1, "MAX", "FLOAT64", "host"), Allreduce(c1, "BAND", "INT32", "gpu"),
   Allreduce(c2, "PROD", "BFLOAT16", "gpu"), Free(c1)}
GpuCalls == {Allreduce(c1, "SUM", "INT32", "gpu"), Free(c1)}
MixedCalls == {Allreduce(c1, "SUM", "INT32", "any"), Free(c1)}

=============================================================================
