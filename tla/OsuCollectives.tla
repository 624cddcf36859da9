--------------------------- MODULE OsuCollectives ---------------------------
(***************************************************************************)
(* A validating benchmark over the utilities of                            *)
(* src/omb/c/util/osu_util_mpi.c: the topology is built and memory         *)
(* allocated, then in each iteration all ranks fill their buffers, call    *)
(* the operation and validate what they received, and the memory is freed. *)
(* A one-sided benchmark creates its window, reaches into the memory of    *)
(* the other rank and frees the window instead.                            *)
(*                                                                         *)
(* The repository has the utilities and one program that uses them, for    *)
(* MPI_Allreduce (module OsuAllreduce); the frame here is that program's,  *)
(* with the other operations of set_buffer_validation and validate_data in *)
(* its place.  Between two collectives a rank touches only its own memory, *)
(* so filling and validating are taken by all ranks together; what a rank  *)
(* may do alone is to leave.                                               *)
(*                                                                         *)
(* The library under test may deliver one wrong block: from another        *)
(* sender, meant for another receiver, of the iteration before, or none.   *)
(***************************************************************************)
EXTENDS OsuMemory, OsuNeighborhood

CONSTANTS
  Jobs,        \* records of bench, subtype, dtype, in_place, root, np, len,
               \* nhbrhd (the argument of -N), iters and what OsuMemory needs
  MaxFaults    \* bound: wrong blocks in a behaviour

Moving == {"ALLTOALL", "GATHER", "ALL_GATHER", "SCATTER", "BCAST"}
Neighbors == {"NHBR_GATHER", "NHBR_ALLTOALL"}

\* What option -N may stand for: a grid has a dimension, a radius is not
\* negative, and a line of the file holds ranks, of this job or not.
Declared(topology) ==
  topology.ret = "PO_OKAY" =>
    /\ topology.type = "cart" => topology.dim \in Nat \ {0} /\ topology.rad \in Nat
    /\ topology.type = "graph" => topology.file = NoFile \/ topology.file \in Seq(Seq(Nat))

\* A job the utilities are made for: a latency test of either kind has two
\* ranks, no message is longer than the longest, setAccel has seen both letters.
WellMade(j) ==
  /\ j.np \in Nat \ {0} /\ j.iters \in Nat \ {0} /\ j.len \in Nat
  /\ j.dtype \in DOMAIN SizeOfType /\ j.in_place \in BOOLEAN /\ j.compare \in BOOLEAN
  /\ j.root \in Nat \cup {RotateRoot}
  /\ j.win \in {"CREATE", "ALLOCATE", "DYNAMIC"}
  /\ j.accel = setAccel(setAccel(j.accel, j.src), j.dst)
  /\ \/ /\ j.bench = "COLLECTIVE" /\ ~OneSided(j)
        /\ j.subtype \in Moving \cup Neighbors \cup {"REDUCE_SCATTER"}
        /\ j.subtype \in Neighbors => Declared(NhbrhdOptions(j.nhbrhd))
     \/ /\ j.bench = "PT2PT" /\ j.subtype \in {"LAT", "MBW_MR"}
        /\ j.call \in {"pt2pt", "pt2pt_size", "mul", "mul_size"}
        /\ j.call \in {"pt2pt", "pt2pt_size"} => j.np = 2
        /\ j.np % 2 = 0 /\ Bytes(j) <= MaxMessageSize
     \/ j.bench = "ONE_SIDED" /\ j.subtype = "LAT" /\ OneSided(j) /\ j.np = 2

ASSUME CollectivesConstants == (\A j \in Jobs : WellMade(j)) /\ MaxFaults \in Nat

VARIABLES
  job,
  pc,          \* pc[r]: where rank r is
  grid,        \* the dimensions of the cartesian communicator
  nbr,         \* nbr[r]: its neighbours
  iter,        \* the iteration
  bufs, last,  \* bufs[r]: its buffers; last: as sent one iteration before
  verdict,     \* verdict[r]: what validation returned, or 0
  bad,         \* the wrong blocks of this iteration: <<rank, block, how>>
  ended,       \* ended[r]: "no", "success", "failure" or "lost"
  killed,      \* the launcher has ended the job
  faults

data == <<iter, bufs, last, verdict, bad>>
vars == <<job, pc, grid, nbr, data, memory, ended, killed, faults>>

Procs == 0 .. job.np - 1
Neighborhood == job.subtype \in Neighbors
Reduces == job.subtype = "REDUCE_SCATTER"
Topology == NhbrhdOptions(job.nhbrhd)

At(r, label) == ~killed /\ ended[r] = "no" /\ pc[r] = label
AllAt(label) == \A r \in Procs : At(r, label)
Goto(r, label) == pc' = [pc EXCEPT ![r] = label]
AllGoto(label) == pc' = [r \in Procs |-> label]
Leave(r, how) == ended' = [ended EXCEPT ![r] = how]

Init ==
  /\ job \in Jobs
  /\ pc = [r \in Procs |-> "start"] /\ grid = <<>>
  /\ nbr = [r \in Procs |-> NoNeighbors]
  /\ iter = 0 /\ bad = {}
  /\ bufs = [r \in Procs |-> [s |-> <<>>, r |-> [b \in 1 .. job.np |-> Junk]]]
  /\ last = bufs
  /\ verdict = [r \in Procs |-> 0]
  /\ MemoryInit(job)
  /\ ended = [r \in Procs |-> "no"] /\ killed = FALSE /\ faults = 0

-----------------------------------------------------------------------------
\* A rank leaves when it dislikes an option or cannot read the graph; the
\* others only notice at the next collective.
Start(r) ==
  /\ At(r, "start")
  /\ IF job.root >= job.np \/ (Neighborhood /\ Topology.ret # "PO_OKAY")
     THEN Leave(r, "failure") /\ UNCHANGED <<pc, nbr>>
     ELSE IF Neighborhood /\ Topology.type = "graph"
     THEN LET read == ReadGraph(r, job.np, Topology.file)
          IN  IF read.ok THEN /\ nbr' = [nbr EXCEPT ![r] = read]
                              /\ Goto(r, "graph") /\ UNCHANGED ended
              ELSE Leave(r, "failure") /\ UNCHANGED <<pc, nbr>>
     ELSE /\ Goto(r, IF Neighborhood THEN "cart"
                    ELSE IF job.bench = "COLLECTIVE" THEN "fill" ELSE "allocate")
          /\ UNCHANGED <<nbr, ended>>
  /\ UNCHANGED <<job, grid, data, killed, memory, faults>>

\* A rank with more edges than the arrays hold has written beyond them.
Overrun(r) ==
  /\ At(r, "graph") /\ Topology.type = "graph"
  /\ MaxEdges < Len(nbr[r].sources) \/ MaxEdges < Len(nbr[r].destinations)
  /\ Leave(r, "lost")
  /\ UNCHANGED <<job, pc, grid, nbr, data, killed, memory, faults>>

\* MPI_Cart_create and the barrier after it.
CartCreate ==
  /\ AllAt("cart") /\ AllGoto("radius")
  /\ grid' = DimsCreate(job.np, Topology.dim)
  /\ UNCHANGED <<job, nbr, data, ended, killed, memory, faults>>

\* Mutant: only rank 0, which writes the message, leaves.
RadiusAtRoot(r) ==
  /\ At(r, "radius")
  /\ IF TooFar(Topology.rad, job.np, grid) /\ r = 0
     THEN Leave(r, "success") /\ UNCHANGED <<pc, nbr>>
     ELSE /\ nbr' = [nbr EXCEPT ![r] = CartNeighbors(r, grid, Topology.rad)]
          /\ Goto(r, "graph") /\ UNCHANGED ended
  /\ UNCHANGED <<job, grid, data, killed, memory, faults>>

\* Too large a radius ends every rank, with status 0.
Radius(r) ==
  /\ At(r, "radius")
  /\ IF TooFar(Topology.rad, job.np, grid)
     THEN Leave(r, "success") /\ UNCHANGED <<pc, nbr>>
     ELSE /\ nbr' = [nbr EXCEPT ![r] = CartNeighbors(r, grid, Topology.rad)]
          /\ Goto(r, "graph") /\ UNCHANGED ended
  /\ UNCHANGED <<job, grid, data, killed, memory, faults>>

\* MPI_Dist_graph_create_adjacent.
GraphCreate ==
  /\ AllAt("graph") /\ AllGoto("fill")
  /\ UNCHANGED <<job, grid, nbr, data, ended, killed, memory, faults>>

\* The memory of a rank, or the end of it when there is none.
Allocate(r) ==
  /\ At(r, "allocate")
  /\ \/ /\ AllocateMemory(job, r)
        /\ Goto(r, IF OneSided(job) THEN "window" ELSE "fill")
        /\ UNCHANGED <<ended, faults>>
     \/ /\ faults < MaxFaults /\ faults' = faults + 1
        /\ Leave(r, "failure") /\ UNCHANGED <<pc, memory>>
  /\ UNCHANGED <<job, grid, nbr, data, killed>>

\* Memory that was never allocated is written to and given to the window, where
\* it is not MPI that allocates it.
Stray(r) ==
  /\ At(r, "window") \/ At(r, "use")
  /\ \E name \in BufferNames(job) : ptr[r][name] = Wild /\ ~(name = "win_base" /\ Brought(job))
  /\ Leave(r, "lost")
  /\ UNCHANGED <<job, pc, grid, nbr, data, killed, memory, faults>>

WinCreate ==
  /\ AllAt("window") /\ CreateWindow(job)
  /\ pc' = [r \in Procs |-> IF job.win # "DYNAMIC" THEN "use"
                            ELSE IF r = 0 THEN "send" ELSE "recv"]
  /\ UNCHANGED <<job, grid, nbr, data, ended, killed, faults>>

Send(r) ==
  /\ At(r, "send") /\ SendAddress(r)
  /\ Goto(r, IF r = 0 THEN "recv" ELSE "use")
  /\ UNCHANGED <<job, grid, nbr, data, ended, killed, faults>>

Receive(r) ==
  /\ At(r, "recv") /\ ReceiveAddress(r)
  /\ Goto(r, IF r = 0 THEN "use" ELSE "send")
  /\ UNCHANGED <<job, grid, nbr, data, ended, killed, faults>>

\* The puts, gets or atomics of rank r on Target(job, r).
Access(r) ==
  /\ At(r, "use") /\ Goto(r, "win free")
  /\ UNCHANGED <<job, grid, nbr, data, ended, killed, memory, faults>>

WinFree ==
  /\ AllAt("win free") /\ AllGoto("release") /\ FreeWindow
  /\ UNCHANGED <<job, grid, nbr, data, ended, killed, faults>>

\* A pointer that is no block may end the process; a hipFree that fails ends
\* it for certain.
Release(r) ==
  /\ At(r, "release")
  /\ \/ /\ ReleaseMemory(job, r)
        /\ \E how \in {"success"} \cup IF misuse' = misuse THEN {} ELSE {"lost"} : Leave(r, how)
        /\ UNCHANGED faults
     \/ /\ faults < MaxFaults /\ faults' = faults + 1
        /\ \E name \in BufferNames(job) : ptr[r][name].by = "device"
        /\ Leave(r, "failure") /\ UNCHANGED memory
  /\ UNCHANGED <<job, pc, grid, nbr, data, killed>>

Fill ==
  /\ AllAt("fill") /\ AllGoto("call")
  /\ bufs' = [r \in Procs |-> IF Neighborhood THEN SetBufferNhbrValidation(job, r, nbr[r], iter)
                              ELSE SetBufferValidation(job, r, iter, bufs[r])]
  /\ bad' = {} /\ verdict' = [r \in Procs |-> 0]
  /\ UNCHANGED <<job, grid, nbr, iter, last, ended, killed, memory, faults>>

-----------------------------------------------------------------------------
Root == GetRootRank(job, iter)

\* The buffer a rank sends from.
Sent(bs, s) ==
  IF job.in_place /\ job.subtype \in {"ALLTOALL", "ALL_GATHER", "SCATTER", "REDUCE_SCATTER"}
  THEN bs[s].r ELSE bs[s].s

\* Block k as it arrives from rank s: of a reduction the sum over the ranks.
SumOver(bs, ranks, k) ==
  LET sum == SumFunction([s \in ranks |-> Sent(bs, s)[k]])
  IN  IF job.dtype = "MPI_CHAR" THEN sum % CharRange ELSE sum
Arriving(bs, s, k) == IF Reduces THEN SumOver(bs, Procs, k) ELSE Sent(bs, s)[k]

\* The other rank of the pair.
Partner(r) == IF r < Pairs(job) THEN r + Pairs(job) ELSE r - Pairs(job)

\* Where the k-th block for r is among the blocks s sends, k counting from 1.
BlockFor(s, r, k) ==
  CHOOSE i \in DOMAIN nbr[s].destinations :
    /\ nbr[s].destinations[i] = r
    /\ Cardinality({j \in 1 .. i : nbr[s].destinations[j] = r}) = k

\* The blocks that rank r receives, each as <<sender, block of the sender>>;
\* with MPI_IN_PLACE its own stays where it is.
Route(r) ==
  LET others == IF job.in_place THEN Procs \ {r} ELSE Procs
      from(ranks, k(_)) == [b \in {s + 1 : s \in ranks} |-> <<b - 1, k(b - 1)>>]
      src == nbr[r].sources
      nth(l) == Cardinality({j \in 1 .. l : src[j] = src[l]})
  IN  CASE job.bench = "PT2PT" -> [i \in 1 .. job.len |-> <<Partner(r), i>>]
        [] Reduces -> [i \in 1 .. RecvCounts(job)[r] |-> <<r, FirstOf(job, r) + i>>]
        [] job.subtype = "ALLTOALL" -> from(others, LAMBDA s : r + 1)
        [] job.subtype = "GATHER" -> from(IF r = Root THEN others ELSE {}, LAMBDA s : 1)
        [] job.subtype = "ALL_GATHER" -> from(others, LAMBDA s : IF job.in_place THEN s + 1 ELSE 1)
        [] job.subtype = "SCATTER" ->
             [b \in IF job.in_place /\ r = Root THEN {} ELSE {1} |-> <<Root, r + 1>>]
        [] job.subtype = "BCAST" -> [b \in IF r = Root THEN {} ELSE {1} |-> <<Root, 1>>]
        [] job.subtype = "NHBR_GATHER" -> [l \in DOMAIN src |-> <<src[l], 1>>]
        [] job.subtype = "NHBR_ALLTOALL" ->
             [l \in DOMAIN src |-> <<src[l], BlockFor(src[l], r, nth(l))>>]

\* The result of rank r, before anything goes wrong.
Received(r) ==
  LET route == Route(r)
      put == [b \in DOMAIN bufs[r].r |->
                IF b \in DOMAIN route THEN Arriving(bufs, route[b][1], route[b][2])
                ELSE bufs[r].r[b]]
  IN  IF job.subtype = "SCATTER" /\ job.in_place /\ r = Root
      THEN ScatterOffsetCopy(put, Root) ELSE put

\* What block b of rank r may hold instead, and how that came; to a sum one
\* rank may not have contributed.
Wrong(r, b) ==
  LET route == Route(r)
      s == route[b][1]
      k == route[b][2]
      perReceiver == job.bench = "PT2PT" \/ Reduces
                        \/ job.subtype \in {"ALLTOALL", "SCATTER", "NHBR_ALLTOALL"}
      forUs == IF job.subtype = "NHBR_ALLTOALL"
               THEN {i \in DOMAIN nbr[s].destinations : nbr[s].destinations[i] = r} ELSE {k}
  IN  {<<"sender", Arriving(bufs, route[c][1], route[c][2])>> :
         c \in {c \in DOMAIN route : route[c][1] # s}}
      \cup {<<"sender", SumOver(bufs, Procs \ {q}, k)>> : q \in IF Reduces THEN Procs ELSE {}}
      \cup {<<"receiver", Arriving(bufs, s, j)>> :
              j \in IF perReceiver THEN DOMAIN Sent(bufs, s) \ forUs ELSE {}}
      \cup {<<"before", Arriving(last, s, k)>> : i \in IF iter > 0 THEN {iter} ELSE {}}
      \cup {<<"none", bufs[r].r[b]>>}

\* The operation, right or with one wrong block.
Collective ==
  LET right == [r \in Procs |-> [bufs[r] EXCEPT !.r = Received(r)]]
  IN  /\ AllAt("call") /\ AllGoto("check")
      /\ last' = bufs
      /\ \/ /\ bufs' = right
            /\ UNCHANGED <<bad, faults>>
         \/ /\ faults < MaxFaults /\ faults' = faults + 1
            /\ \E r \in Procs : \E b \in DOMAIN Route(r) : \E w \in Wrong(r, b) :
                 /\ bad' = {<<r, b, w[1]>>}
                 /\ bufs' = [right EXCEPT ![r].r[b] = w[2]]
      /\ UNCHANGED <<job, grid, nbr, iter, verdict, ended, killed, memory>>

\* The ranks that have a result validate it; a message that was not copied is
\* compared as memory nobody wrote.
Validates(r) == job.subtype # "GATHER" \/ r = Root
Unread == {r \in Procs : job.bench = "PT2PT" /\ ~Copies(job, r)}

Validate ==
  /\ AllAt("check") /\ AllGoto("checked")
  /\ \E failing \in SUBSET Unread : verdict' = [r \in Procs |->
       IF ~Validates(r) \/ r \in Unread \ failing THEN 0 ELSE IF r \in failing THEN 1
       ELSE IF Neighborhood THEN ValidateNeighborhoodCol(job, r, nbr[r], bufs[r].r, iter)
       ELSE ValidateData(job, r, bufs[r].r, iter)]
  /\ UNCHANGED <<job, grid, nbr, iter, bufs, last, bad, ended, killed, memory, faults>>

\* The next iteration, after the barrier, or the end.
Again ==
  /\ AllAt("checked")
  /\ IF iter + 1 < job.iters
     THEN iter' = iter + 1 /\ AllGoto("fill") /\ UNCHANGED ended
     ELSE IF job.bench = "PT2PT" THEN AllGoto("release") /\ UNCHANGED <<iter, ended>>
     ELSE ended' = [r \in Procs |-> "success"] /\ UNCHANGED <<pc, iter>>
  /\ UNCHANGED <<job, grid, nbr, bufs, last, verdict, bad, killed, memory, faults>>

\* mpiexec ends the job when a process leaves with a failure.
Launcher ==
  /\ ~killed /\ \E r \in Procs : ended[r] \in {"failure", "lost"}
  /\ killed' = TRUE
  /\ UNCHANGED <<job, pc, grid, nbr, data, memory, ended, faults>>

Over == (killed \/ \A r \in Procs : ended[r] # "no") /\ UNCHANGED vars

Progress ==
  \/ \E r \in Procs : \/ Start(r) \/ Radius(r) \/ Allocate(r)
                      \/ Send(r) \/ Receive(r) \/ Access(r) \/ Release(r)
  \/ CartCreate \/ GraphCreate \/ WinCreate \/ WinFree \/ Fill \/ Collective \/ Validate \/ Again
  \/ Launcher

Next == Progress \/ (\E r \in Procs : Overrun(r) \/ Stray(r)) \/ Over

Spec == Init /\ [][Next]_vars

\* While some rank can go on, some rank does; every behaviour is finite but for
\* stuttering, so that is enough.
FairSpec == Spec /\ WF_vars(Progress)

-----------------------------------------------------------------------------
\* No list of neighbours is more than one entry longer than its array.
TypeOK ==
  /\ job \in Jobs /\ iter \in 0 .. job.iters - 1
  /\ \A r \in Procs :
       /\ ended[r] \in {"no", "success", "failure", "lost"}
       /\ Topology.type = "graph" => /\ Len(nbr[r].sources) <= MaxEdges + 1
                                     /\ Len(nbr[r].destinations) <= MaxEdges + 1
       /\ \A b \in DOMAIN bufs[r].r : bufs[r].r[b] \in Nat \cup {Junk}
  /\ verdict \in [Procs -> {0, 1}]
  /\ \A w \in bad : w[3] \in {"sender", "receiver", "before", "none"}
  /\ killed \in BOOLEAN /\ faults \in 0 .. MaxFaults

\* Every block that validation reads at all: of a reduce-scatter those of rank
\* 0 (line 2173), with floats those of the first block only (line 2320), in a
\* message of integers the first quarter (line 1813).  The own block of rank 0
\* may stay away unnoticed where the buffer is filled with it beforehand: that
\* of root 0 in a gather (line 1471), that of rank 0 in a scatter in place
\* (line 1328).
Visible(r, b, how) ==
  /\ job.bench = "PT2PT" => job.dtype = "MPI_FLOAT" \/ b * SizeOfType[job.dtype] <= job.len
  /\ Reduces => r = 0
  /\ job.bench = "COLLECTIVE" /\ job.dtype = "MPI_FLOAT" /\ ~Neighborhood /\ ~Reduces => b = 1
  /\ job.subtype = "GATHER" \/ (job.subtype = "SCATTER" /\ job.in_place) =>
       ~(r = 0 /\ b = 1 /\ how = "none")

\* The one element of a message of integers of which only some bytes are
\* compared: whether it is noticed depends on its value.
InPart(b) ==
  /\ job.bench = "PT2PT" /\ job.dtype = "MPI_INT" /\ job.len % SizeOfType[job.dtype] # 0
  /\ b = (job.len \div SizeOfType[job.dtype]) + 1

\* A broadcast fills the buffer of rank 0, whoever the root is (line 1355).
Misfilled == job.subtype = "BCAST" /\ Root # 0

\* Letters of SRC and DST that stand for something.
KnownLetters == {job.src, job.dst} \subseteq {"H", "D"}

\* Validation accepts what the operation delivers when it is right, and
\* notices any visible block that came from another sender, was meant for
\* another receiver, is of the iteration before or did not come: the values
\* written by set_buffer_* and the values computed by validate_* tell these
\* apart, in every iteration and with MPI_IN_PLACE.  Letters, reductions of more
\* than 100 elements or over one rank, and gathers to another root than 0 out of
\* place may repeat their values: there this holds of some sizes only (Plain in
\* OsuDataProofs).
VerdictExact ==
  pc = [r \in Procs |-> "checked"] /\ ~Misfilled /\ KnownLetters =>
    \A r \in Procs :
      /\ (\E w \in bad : w[1] = r /\ Visible(r, w[2], w[3])) => verdict[r] = 1
      /\ verdict[r] = 1 => \E w \in bad : w[1] = r /\ (Visible(r, w[2], w[3]) \/ InPart(w[2]))

\* What all ranks declare about the graph agrees: r names s as a source as
\* often as s names r as a destination.  On a grid, in addition, nobody is
\* his own neighbour or has one twice, and the lists are as long as announced.
NeighborsAgree ==
  AllAt("graph") =>
    /\ \A r, s \in Procs :
         Cardinality({l \in DOMAIN nbr[r].sources : nbr[r].sources[l] = s})
           = Cardinality({l \in DOMAIN nbr[s].destinations : nbr[s].destinations[l] = r})
    /\ Topology.type = "cart" =>
         \A r \in Procs : /\ IsInjective(nbr[r].sources)
                          /\ r \notin Range(nbr[r].sources)
                          /\ Len(nbr[r].sources) = nbr[r].indegree

\* Whenever buffers are filled, sent or compared they are there, hold the
\* message, and lie on the device exactly if the letter of that side says so:
\* what was allocated by rank and pair is what the loop works on.
BuffersThere ==
  \A r \in Procs :
    job.bench = "PT2PT" /\ (At(r, "fill") \/ At(r, "call") \/ At(r, "check")) =>
      \A name \in {"sbuf", "rbuf"} :
        /\ ptr[r][name] \in heap /\ ptr[r][name].size >= Bytes(job)
        /\ ptr[r][name].by = "device" <=> Letter(job, r) = "D"

\* As long as a rank may reach into the window, what it reaches is the
\* window's memory at the other rank, and still allocated: nobody frees
\* before all have called MPI_Win_free, and the addresses of a dynamic window
\* arrive at the right rank (osu_util_mpi.c:2966-2977 and :3343).
WindowAlive ==
  \A r \in Procs :
    At(r, "use") /\ KnownLetters =>
      /\ Target(job, r) \in heap
      /\ Target(job, r).rank = Peer(r) /\ Target(job, r).name = "win_base"

\* The one block nobody frees: the memory of a window of atomics on the host
\* (osu_util_mpi.c:3715).
LeftBehind(r) ==
  IF job.bench = "ONE_SIDED" /\ job.call = "atomic" /\ (IF r = 0 THEN job.src ELSE job.dst) = "H"
  THEN {Block(r, "win_base", "host", Bytes(job))} ELSE {}

\* What a rank has allocated it frees once, by the allocator it came from and
\* with SRC for its own side and DST for the other; memory of MPI goes with
\* the window.  A rank that ends well leaves nothing but LeftBehind.
MemoryBalanced ==
  KnownLetters =>
    /\ misuse = {}
    /\ \A r \in Procs : ended[r] = "success" => {b \in heap : b.rank = r} = LeftBehind(r)

\* Either every rank ends by itself or the launcher ends the job: no rank
\* waits for one that has left (lines 1585, 1593, 1670).
EveryRankEnds == <>(killed \/ \A r \in Procs : ended[r] # "no")
=============================================================================
