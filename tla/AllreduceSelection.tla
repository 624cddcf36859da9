------------------------- MODULE AllreduceSelection -------------------------
(***************************************************************************)
(* Which algorithm an MPI_Allreduce ends in: the settings that the study's *)
(* scripts give MPICH, the tuning trees of src/frontier/tuning, and the    *)
(* wrapper of the CCL algorithm with its fallback.  The search of a tree,  *)
(* the compositions and the other algorithms are MPICH's and external.     *)
(*                                                                         *)
(* Sizes are counted in units of 8 bytes: TLC has integers of 32 bits.     *)
(***************************************************************************)
EXTENDS Integers, Sequences

KiB == 128
MiB == 1024 * KiB
GiB == 1024 * MiB

(***************************************************************************)
(* A call of MPI_Allreduce: its size, the ranks of its communicator, where *)
(* its buffers are, and its operation: whether that is built in and, if    *)
(* so, whether RCCL has it.                                                *)
(***************************************************************************)
Call(size, ranks, buffer, builtin, supported) ==
  [size |-> size, ranks |-> ranks, buffer |-> buffer, builtin |-> builtin, supported |-> supported]

\* What osu_allreduce calls: a sum of integers.
OsuCall(size, ranks, buffer) == Call(size, ranks, buffer, TRUE, TRUE)

(***************************************************************************)
(* A tree is the sequence of its leaves, each with the conditions on the   *)
(* way to it; the first that applies is taken.                             *)
(***************************************************************************)
Unlimited == 8 * GiB
Rule(ranks, size, ops, leaf) == [ranks |-> ranks, size |-> size, ops |-> ops, leaf |-> leaf]
Upto(size, leaf) == Rule(Unlimited, size, BOOLEAN, leaf)
Otherwise(leaf) == Upto(Unlimited, leaf)
UserDefined(leaf) == Rule(Unlimited, Unlimited, {FALSE}, leaf)

Applies(rule, call) ==
  call.ranks <= rule.ranks /\ call.size <= rule.size /\ call.builtin \in rule.ops

Leaf(tree, call) ==
  LET hits == {i \in DOMAIN tree : Applies(tree[i], call)}
  IN  tree[CHOOSE i \in hits : \A j \in hits : i <= j].leaf

\* The trees built into MPICH have no CCL leaf.
StockCh4 == <<Otherwise("beta")>>
StockMpir == <<Otherwise("stock")>>

\* The two-level trees: staged through the host up to the split, RCCL above.
AlphaUpto(split) == <<Upto(split, "alpha"), Otherwise("beta")>>
CclAbove(split) ==
  <<Upto(split, "recursive_doubling"), UserDefined("recursive_doubling"), Otherwise("ccl")>>

allreduce_ch4_hybrid == AlphaUpto(32 * KiB)
allreduce_mpir_hybrid == CclAbove(32 * KiB)
allreduce_ch4_prod == AlphaUpto(16 * KiB)
allreduce_mpir_prod == CclAbove(16 * KiB)

\* One tree below for the largest of the thresholds above (a mutant).
LargestSplit == CclAbove(64 * KiB)
allreduce_mpir_percomm == CclAbove(8 * KiB)

\* Thresholds by the size of the communicator.
allreduce_ch4_percomm ==
  << Rule(32, 8 * KiB, BOOLEAN, "alpha"), Rule(32, Unlimited, BOOLEAN, "beta"),
     Rule(8192, 16 * KiB, BOOLEAN, "alpha"), Rule(8192, Unlimited, BOOLEAN, "beta"),
     Upto(64 * KiB, "alpha"), Otherwise("beta") >>

\* No size but 0 is kept from RCCL.
allreduce_rccl_auto ==
  <<Upto(0, "smp"), UserDefined("recursive_doubling"), Otherwise("ccl")>>

-----------------------------------------------------------------------------
(***************************************************************************)
(* The settings of a launch: MPIR_CVAR_DEVICE_COLLECTIVES, _INTRA_         *)
(* ALGORITHM ("auto" when unset), CH4_GPU_COLL_SWAP_BUFFER_SZ and the two  *)
(* tuning files.                                                           *)
(***************************************************************************)
Settings(collectives, algorithm, swap, ch4, mpir) ==
  [collectives |-> collectives, algorithm |-> algorithm, swap |-> swap, ch4 |-> ch4, mpir |-> mpir]

Forced(algorithm) == Settings("none", algorithm, 0, StockCh4, StockMpir)
Automatic(mpir) == Settings("none", "auto", 0, StockCh4, mpir)
TwoLevel(swap, ch4, mpir) == Settings("all", "auto", swap, ch4, mpir)
Compositions == TwoLevel(0, StockCh4, StockMpir)

\* What RCCL asks of a call: an operation and a type it has, GPU buffers.
CheckRequirements(call, staged) == call.buffer = "device" /\ ~staged /\ call.supported

\* MPIR_Allreduce_intra_ccl as docs/NOTES.md describes it (a mutant).
IntraCclDirect(call, staged) ==
  IF CheckRequirements(call, staged) THEN "rccl" ELSE "recursive_doubling"

\* A refused call goes back to the automatic selection.
IntraCcl(call, staged) == IF CheckRequirements(call, staged) THEN "rccl" ELSE "allcomm_auto"

\* A composition that copies whatever comes (a mutant).
CopyAlways(settings, call, name, betaSwaps) == name = "alpha" \/ betaSwaps

\* A composition copies the message to the host when it fits the swap buffer.
\* betaSwaps: whether beta does, on which the repository's texts disagree.
Composition(settings, call, name, betaSwaps) ==
  call.size <= settings.swap /\ (name = "alpha" \/ betaSwaps)

\* One step of the way from MPI_Allreduce to an algorithm.
Step(settings, call, betaSwaps, p) ==
  CASE p.at = "MPI_Allreduce" ->
         [p EXCEPT !.at = IF settings.collectives = "all" THEN Leaf(settings.ch4, call)
                          ELSE "impl"]
    [] p.at \in {"alpha", "beta"} ->
         [at |-> "impl", staged |-> Composition(settings, call, p.at, betaSwaps)]
    [] p.at = "impl" ->
         [p EXCEPT !.at = IF settings.algorithm = "auto" THEN "allcomm_auto"
                          ELSE settings.algorithm]
    [] p.at = "allcomm_auto" -> [p EXCEPT !.at = Leaf(settings.mpir, call)]
    [] p.at = "ccl" -> [p EXCEPT !.at = IntraCcl(call, p.staged)]
    [] OTHER -> p

\* The longest way without a repetition: MPI_Allreduce, composition, impl,
\* ccl, allcomm_auto, algorithm.
LongestWay == 5

Way(settings, call, betaSwaps) ==
  LET after[n \in 0 .. LongestWay] ==
        IF n = 0 THEN [at |-> "MPI_Allreduce", staged |-> FALSE]
        ELSE Step(settings, call, betaSwaps, after[n - 1])
  IN  after

\* Where a call ends, and whether its data went through the host before.
Selected(settings, call, betaSwaps) == Way(settings, call, betaSwaps)[LongestWay]

\* A call that is still on its way then is there for ever: the wrapper and the
\* selection call each other until the stack is used up.
Recurses(settings, call, betaSwaps) ==
  Selected(settings, call, betaSwaps).at \in {"impl", "allcomm_auto", "ccl"}
=============================================================================
