--------------------------- MODULE OsuNeighborhood ---------------------------
(***************************************************************************)
(* The process topologies of the neighbourhood collectives: the option -N  *)
(* (omb_nhbrhd_process_options in src/omb/c/util/osu_util.c) and           *)
(* omb_neighborhood_create in src/omb/c/util/osu_util_mpi.c.               *)
(*                                                                         *)
(* The argument of -N is a tuple of its parts: <<"cart", dim, rad>> or     *)
(* <<"graph", fits, file>>, possibly cut short; fits is FALSE for a path   *)
(* longer than there is room for.  A file is a sequence of lines:          *)
(* <<source, destination>>, <<n>> for a line without a comma, <<>> for a   *)
(* comment.                                                                *)
(***************************************************************************)
EXTENDS Integers, Sequences, FiniteSets, SequencesExt

CONSTANT MaxEdges   \* OMB_NHBRHD_ADJ_EDGES_MAX_NUM

ASSUME NeighborhoodConstants == MaxEdges \in Nat \ {0}

NoFile == "no file"

NhbrhdDefaults ==
  [ret |-> "PO_OKAY", type |-> "cart", dim |-> 1, rad |-> 1, file |-> NoFile]

\* Parts of an option that is refused have been stored all the same, but not
\* a path that is too long.
NhbrhdOptions(arg) ==
  LET o == NhbrhdDefaults
      bad(opts) == [opts EXCEPT !.ret = "PO_BAD_USAGE"]
  IN  CASE arg = <<>> -> bad(o)
        [] arg # <<>> /\ arg[1] = "cart" ->
             CASE Len(arg) = 1 -> bad(o)
               [] Len(arg) = 2 -> bad([o EXCEPT !.dim = arg[2]])
               [] OTHER -> [o EXCEPT !.dim = arg[2], !.rad = arg[3]]
        [] arg # <<>> /\ arg[1] = "graph" ->
             LET graph == [o EXCEPT !.type = "graph"]
             IN  IF Len(arg) = 1 THEN graph
                 ELSE IF arg[2] THEN [graph EXCEPT !.file = arg[3]]
                 ELSE bad(graph)
        [] OTHER -> bad(o)

\* What omb_neighborhood_create returns at a rank; ok is FALSE if it exits.
NoNeighbors ==
  [ok |-> TRUE, indegree |-> 0, sources |-> <<>>, outdegree |-> 0, destinations |-> <<>>]

-----------------------------------------------------------------------------
\* Mutant: the limit is looked at one edge later.
ReadLineLate(r, np, n, l) ==
  IF l = <<>> \/ ~n.ok THEN n
  ELSE IF MaxEdges + 1 < Len(n.sources) \/ MaxEdges + 1 < Len(n.destinations) \/ Len(l) < 2
       THEN [n EXCEPT !.ok = FALSE]
  ELSE IF r \in {l[1], l[2]} /\ (l[1] >= np \/ l[2] >= np) THEN [n EXCEPT !.ok = FALSE]
  ELSE [n EXCEPT !.destinations = IF l[1] = r THEN Append(@, l[2]) ELSE @,
                 !.sources = IF l[2] = r THEN Append(@, l[1]) ELSE @]

\* One line of the file, read by rank r.  The limit is tested before the line
\* is looked at, and refuses only what is already beyond it; an edge that
\* names a rank the job does not have stops only the ranks at its ends.
ReadLine(r, np, n, l) ==
  IF l = <<>> \/ ~n.ok THEN n
  ELSE IF MaxEdges < Len(n.sources) \/ MaxEdges < Len(n.destinations) \/ Len(l) < 2
       THEN [n EXCEPT !.ok = FALSE]
  ELSE IF r \in {l[1], l[2]} /\ (l[1] >= np \/ l[2] >= np) THEN [n EXCEPT !.ok = FALSE]
  ELSE [n EXCEPT !.destinations = IF l[1] = r THEN Append(@, l[2]) ELSE @,
                 !.sources = IF l[2] = r THEN Append(@, l[1]) ELSE @]

ReadGraph(r, np, file) ==
  IF file = NoFile THEN [NoNeighbors EXCEPT !.ok = FALSE]
  ELSE LET read[k \in 0 .. Len(file)] ==
             IF k = 0 THEN NoNeighbors ELSE ReadLine(r, np, read[k - 1], file[k])
           all == read[Len(file)]
       IN  [all EXCEPT !.indegree = Len(all.sources), !.outdegree = Len(all.destinations)]

-----------------------------------------------------------------------------
ProductOf(s) ==
  LET upTo[k \in 0 .. Len(s)] == IF k = 0 THEN 1 ELSE upTo[k - 1] * s[k]
  IN  upTo[Len(s)]

\* MPI_Dims_create: d factors of n, the largest first, as close as possible.
DimsCreate(n, d) ==
  LET grids == {f \in [1 .. d -> 1 .. n] :
                  ProductOf(f) = n /\ \A k \in 1 .. d - 1 : f[k] >= f[k + 1]}
  IN  CHOOSE f \in grids : \A g \in grids : f[1] - f[d] <= g[1] - g[d]

\* MPI_Cart_create, _coords and _rank: row-major and periodic in every dimension.
Coords(dims, rank) ==
  LET rest[k \in 0 .. Len(dims)] ==
        IF k = Len(dims) THEN rank ELSE rest[k + 1] \div dims[k + 1]
  IN  [k \in DOMAIN dims |-> rest[k] % dims[k]]
CartRank(dims, c) ==
  LET upTo[k \in 0 .. Len(dims)] == IF k = 0 THEN 0 ELSE upTo[k - 1] * dims[k] + (c[k] % dims[k])
  IN  upTo[Len(dims)]

\* Mutant: the radius may reach half-way round.
HalfWay(rad, np, dims) == rad > Min(Range(dims) \cup {np}) \div 2

\* The radius that would reach a neighbour twice.
TooFar(rad, np, dims) == rad > (Min(Range(dims) \cup {np}) - 1) \div 2

\* The displacement vectors from -rad to rad, the last dimension fastest: they
\* are counted like the coordinates of a grid of 2 rad + 1 in each dimension.
Box(d, rad) == [k \in 1 .. d |-> 2 * rad + 1]
Displacements(d, rad) ==
  [n \in 1 .. ProductOf(Box(d, rad)) |->
     [k \in 1 .. d |-> Coords(Box(d, rad), n - 1)[k] - rad]]

\* Everybody within the radius in every dimension, but the rank itself.
CartNeighbors(r, dims, rad) ==
  LET d == Len(dims)
      me == Coords(dims, r)
      disps == Displacements(d, rad)
      reached == [n \in DOMAIN disps |-> CartRank(dims, [k \in 1 .. d |-> me[k] + disps[n][k]])]
      kept[n \in 0 .. Len(reached)] ==
        IF n = 0 THEN <<>> ELSE IF reached[n] = r THEN kept[n - 1]
                           ELSE Append(kept[n - 1], reached[n])
      nbrs == kept[Len(reached)]
      degree == ProductOf(Box(d, rad)) - 1
  IN  [ok |-> TRUE, indegree |-> degree, sources |-> nbrs,
       outdegree |-> degree, destinations |-> nbrs]
=============================================================================
