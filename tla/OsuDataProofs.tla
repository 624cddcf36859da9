---------------------------- MODULE OsuDataProofs ----------------------------
(***************************************************************************)
(* The data of the benchmarks over osu_util_mpi.c: what is in the buffers  *)
(* of every rank at every point of the loop, what the operation delivers,  *)
(* and when validation accepts and refuses it, for every job, any number   *)
(* of ranks, iterations and elements.                                      *)
(***************************************************************************)
EXTENDS OsuCollectivesProofs

(***************************************************************************)
(* What the buffers hold before the operation: SentValue is block k of     *)
(* rank s with neighbours n in iteration it, BlocksOf how many it sends    *)
(* and SlotsOf how many it has room for.                                   *)
(***************************************************************************)
Values == Nat \cup {Junk}

InPlaceSent(j) ==
  j.in_place /\ j.subtype \in {"ALLTOALL", "ALL_GATHER", "SCATTER", "REDUCE_SCATTER"}

BlocksOf(j, n) ==
  CASE j.bench = "PT2PT" -> j.len
    [] j.subtype = "REDUCE_SCATTER" -> j.len
    [] j.subtype \in {"ALLTOALL", "SCATTER"} -> j.np
    [] j.subtype = "ALL_GATHER" -> IF j.in_place THEN j.np ELSE 1
    [] j.subtype \in {"GATHER", "BCAST", "NHBR_GATHER"} -> 1
    [] j.subtype = "NHBR_ALLTOALL" -> n.outdegree

SlotsOf(j, n) ==
  CASE j.bench = "PT2PT" -> j.len
    [] j.subtype = "REDUCE_SCATTER" -> IF j.in_place THEN j.len ELSE (j.len \div j.np) + 1
    [] j.subtype \in {"ALLTOALL", "GATHER", "ALL_GATHER"} -> j.np
    [] j.subtype = "SCATTER" -> IF j.in_place THEN j.np ELSE 1
    [] j.subtype = "BCAST" -> 1
    [] j.subtype \in Neighbors -> n.indegree

SentValue(j, s, n, it, k) ==
  CASE j.bench = "PT2PT" -> IF Copies(j, s) THEN MessageValue(j, k, it) ELSE Junk
    [] j.subtype = "REDUCE_SCATTER" -> ReduceValue(j, k - 1, it)
    [] j.subtype = "ALLTOALL" -> AssignToType(FillValue(s, j.np, k - 1, it), j.dtype)
    [] j.subtype = "SCATTER" -> AssignToType(FillValue(0, j.np, k - 1, it), j.dtype)
    [] j.subtype = "GATHER" -> AssignToType(FillValue(s * j.np, 1, 0, it), j.dtype)
    [] j.subtype = "ALL_GATHER" ->
         IF ~j.in_place \/ k = s + 1 THEN AssignToType(FillValue(s * j.np, 1, 0, it), j.dtype)
         ELSE Junk
    [] j.subtype = "BCAST" -> AssignToType(IF s = 0 THEN FillValue(1, 1, 0, it) ELSE 0, j.dtype)
    [] j.subtype = "NHBR_GATHER" -> AssignToType(s + it + 1, j.dtype)
    [] j.subtype = "NHBR_ALLTOALL" -> AssignToType(s + it + n.destinations[k] + 1, j.dtype)

\* The buffers of rank s, ready for the operation.
Filled(j, s, n, it, b) ==
  /\ b = [s |-> b.s, r |-> b.r]
  /\ (IF InPlaceSent(j) THEN b.r ELSE b.s)
       = [k \in 1 .. BlocksOf(j, n) |-> SentValue(j, s, n, it, k)]
  /\ b.r \in [1 .. SlotsOf(j, n) -> Values]
  /\ j.subtype = "GATHER" /\ (j.in_place \/ s = 0) => b.r[s + 1] = SentValue(j, s, n, it, 1)
  /\ j.subtype = "BCAST" => b.r = b.s

LEMMA AssignIsNat ==
  ASSUME NEW v \in Nat, NEW dtype \in DOMAIN SizeOfType
  PROVE  AssignToType(v, dtype) \in Nat /\ AssignToType(v, dtype) \in Values
BY DEF AssignToType, SizeOfType, IntMultiplier, FloatMultiplier, CharMultiplier, CharRange, Values

LEMMA FillIsNat ==
  ASSUME NEW rank \in Nat, NEW n \in Nat, NEW i \in Nat, NEW it \in Nat
  PROVE  FillValue(rank, n, i, it) \in Nat
<1>1. \A x, y \in Nat : x * y \in Nat /\ x + y \in Nat
  OBVIOUS
<1>2. rank * n + i \in Nat /\ (it + 1) * (rank * n + 1) * (i + 1) \in Nat
  BY <1>1
<1> QED
  BY <1>1, <1>2 DEF FillValue

\* All blocks, from the first one on; zeros; one block, where the rank has its place.
Row(n, rank, it, dtype) == [k \in 1 .. n |-> AssignToType(FillValue(rank, n, k - 1, it), dtype)]
Zeros(n, dtype) == [k \in 1 .. n |-> AssignToType(0, dtype)]
OwnBlock(n, s, it, dtype) ==
  [k \in 1 .. n |-> IF k = s + 1 THEN AssignToType(FillValue(s * n, 1, 0, it), dtype) ELSE Junk]

LEMMA RowsAre ==
  ASSUME NEW n \in Nat, NEW rank \in Nat, NEW it \in Nat, NEW dtype \in DOMAIN SizeOfType
  PROVE  /\ Row(n, rank, it, dtype) \in [1 .. n -> Values]
         /\ Zeros(n, dtype) \in [1 .. n -> Values]
         /\ rank \in 0 .. n - 1 => OwnBlock(n, rank, it, dtype) \in [1 .. n -> Values]
<1>1. ASSUME NEW k \in 1 .. n PROVE AssignToType(FillValue(rank, n, k - 1, it), dtype) \in Values
  <2>1. FillValue(rank, n, k - 1, it) \in Nat
    BY FillIsNat
  <2> QED
    BY <2>1, AssignIsNat
<1>2. AssignToType(0, dtype) \in Values
  BY AssignIsNat
<1>3. AssignToType(FillValue(rank * n, 1, 0, it), dtype) \in Values
  <2>1. rank * n \in Nat
    OBVIOUS
  <2>2. FillValue(rank * n, 1, 0, it) \in Nat
    BY <2>1, FillIsNat
  <2> QED
    BY <2>2, AssignIsNat
<1> QED
  BY <1>1, <1>2, <1>3 DEF Row, Zeros, OwnBlock, Values

LEMMA FillsRow ==
  ASSUME NEW j, NEW rank, NEW n \in Nat, NEW id, NEW it, ~(j.in_place /\ j.subtype = "ALL_GATHER")
  PROVE  SetBufferDtype(j, TRUE, rank, n, id, n, it) = Row(n, rank, it, j.dtype)
<1>1. \A b \in 1 .. n : b - 0 \in 1 .. n /\ (b - 0) - 1 = b - 1
  OBVIOUS
<1> QED
  BY <1>1 DEF SetBufferDtype, Row

LEMMA FillsZeros ==
  ASSUME NEW j, NEW rank, NEW n \in Nat, NEW id, NEW it,
         ~(j.in_place /\ j.subtype = "ALL_GATHER"), j.subtype # "GATHER"
  PROVE  SetBufferDtype(j, FALSE, rank, n, id, n, it) = Zeros(n, j.dtype)
<1>1. \A b \in 1 .. n : b - 0 \in 1 .. n
  OBVIOUS
<1> QED
  BY <1>1 DEF SetBufferDtype, Zeros

LEMMA FillsRoom ==
  ASSUME NEW j, NEW rank, NEW n \in Nat, NEW id, NEW it, ~j.in_place, j.subtype = "GATHER"
  PROVE  SetBufferDtype(j, FALSE, rank, n, id, n, it) = Row(n, rank, it, j.dtype)
<1>1. \A b \in 1 .. n : b - 0 \in 1 .. n /\ (b - 0) - 1 = b - 1
  OBVIOUS
<1> QED
  BY <1>1 DEF SetBufferDtype, Row

LEMMA FillsOwn ==
  ASSUME NEW j, NEW n \in Nat, NEW s \in Nat, NEW it, j.in_place
  PROVE  /\ j.subtype = "ALL_GATHER" =>
              SetBufferDtype(j, TRUE, s * n, 1, s, n, it) = OwnBlock(n, s, it, j.dtype)
         /\ j.subtype = "GATHER" =>
              SetBufferDtype(j, FALSE, s * n, 1, s, n, it) = OwnBlock(n, s, it, j.dtype)
<1>1. \A b \in 1 .. n : b - s \in 1 .. 1 <=> b = s + 1
  OBVIOUS
<1>2. \A b \in 1 .. n : b = s + 1 => (b - s) - 1 = 0
  OBVIOUS
<1> QED
  BY <1>1, <1>2 DEF SetBufferDtype, OwnBlock

\* A job of the collectives that move or reduce data, and one of its ranks.
Moves(j, s, it) ==
  /\ j.bench = "COLLECTIVE" /\ j.np \in Nat \ {0} /\ j.np \in Nat /\ j.len \in Nat
  /\ j.dtype \in DOMAIN SizeOfType /\ j.in_place \in BOOLEAN
  /\ s \in 0 .. j.np - 1 /\ s \in Nat /\ it \in Nat

LEMMA FillAlltoall ==
  ASSUME NEW j, NEW s, NEW it, Moves(j, s, it), NEW n, NEW old, j.subtype = "ALLTOALL"
  PROVE  Filled(j, s, n, it, SetBufferValidation(j, s, it, old))
<1> DEFINE sent == Row(j.np, s, it, j.dtype)
           room == Zeros(j.np, j.dtype)
           b == SetBufferValidation(j, s, it, old)
<1>1. j.np \in Nat /\ ~(j.in_place /\ j.subtype = "ALL_GATHER") /\ j.subtype # "GATHER"
  BY DEF Moves
<1>2. /\ SetBufferDtype(j, TRUE, s, j.np, s, j.np, it) = sent
      /\ SetBufferDtype(j, FALSE, s, j.np, s, j.np, it) = room
  BY ONLY <1>1, FillsRow, FillsZeros
<1>3. sent \in [1 .. j.np -> Values] /\ room \in [1 .. j.np -> Values]
  BY RowsAre DEF Moves
<1>4. b = IF j.in_place THEN [s |-> old.s, r |-> sent] ELSE [s |-> sent, r |-> room]
  BY <1>2 DEF SetBufferValidation, Moves
<1>5. BlocksOf(j, n) = j.np /\ SlotsOf(j, n) = j.np /\ (InPlaceSent(j) <=> j.in_place)
  BY DEF BlocksOf, SlotsOf, InPlaceSent, Moves, Neighbors
<1>6. sent = [k \in 1 .. BlocksOf(j, n) |-> SentValue(j, s, n, it, k)]
  BY <1>5 DEF Row, SentValue, Moves
<1> HIDE DEF sent, room, b
<1>7. b.r \in [1 .. SlotsOf(j, n) -> Values] /\ b = [s |-> b.s, r |-> b.r]
  BY <1>3, <1>4, <1>5
<1>8. (IF InPlaceSent(j) THEN b.r ELSE b.s) = sent
  BY <1>4, <1>5
<1> QED
  BY <1>6, <1>7, <1>8 DEF Filled, b

LEMMA FillScatter ==
  ASSUME NEW j, NEW s, NEW it, Moves(j, s, it), NEW n, NEW old, j.subtype = "SCATTER"
  PROVE  Filled(j, s, n, it, SetBufferValidation(j, s, it, old))
<1> DEFINE sent == Row(j.np, 0, it, j.dtype)
           room == Zeros(1, j.dtype)
           b == SetBufferValidation(j, s, it, old)
<1>1. /\ j.np \in Nat /\ 1 \in Nat
      /\ ~(j.in_place /\ j.subtype = "ALL_GATHER") /\ j.subtype # "GATHER"
  BY DEF Moves
<1>2. /\ SetBufferDtype(j, TRUE, 0, j.np, s, j.np, it) = sent
      /\ SetBufferDtype(j, FALSE, s * j.np, 1, s, 1, it) = room
  BY ONLY <1>1, FillsRow, FillsZeros
<1>3. sent \in [1 .. j.np -> Values] /\ room \in [1 .. 1 -> Values]
  BY RowsAre DEF Moves
<1>4. b = IF j.in_place THEN [s |-> old.s, r |-> sent] ELSE [s |-> sent, r |-> room]
  BY <1>2 DEF SetBufferValidation, Moves
<1>5. /\ BlocksOf(j, n) = j.np /\ SlotsOf(j, n) = (IF j.in_place THEN j.np ELSE 1)
      /\ InPlaceSent(j) <=> j.in_place
  BY DEF BlocksOf, SlotsOf, InPlaceSent, Moves, Neighbors
<1>6. sent = [k \in 1 .. BlocksOf(j, n) |-> SentValue(j, s, n, it, k)]
  BY <1>5 DEF Row, SentValue, Moves
<1> HIDE DEF sent, room, b
<1>7. b.r \in [1 .. SlotsOf(j, n) -> Values] /\ b = [s |-> b.s, r |-> b.r]
  BY <1>3, <1>4, <1>5
<1>8. (IF InPlaceSent(j) THEN b.r ELSE b.s) = sent
  BY <1>4, <1>5
<1> QED
  BY <1>6, <1>7, <1>8 DEF Filled, b

LEMMA FillGather ==
  ASSUME NEW j, NEW s, NEW it, Moves(j, s, it), NEW n, NEW old, j.subtype = "GATHER"
  PROVE  Filled(j, s, n, it, SetBufferValidation(j, s, it, old))
<1> DEFINE mine == AssignToType(FillValue(s * j.np, 1, 0, it), j.dtype)
           sent == Row(1, s * j.np, it, j.dtype)
           own == OwnBlock(j.np, s, it, j.dtype)
           room == IF j.in_place THEN own ELSE Row(j.np, s, it, j.dtype)
           b == SetBufferValidation(j, s, it, old)
<1>1. /\ j.np \in Nat /\ 1 \in Nat /\ s \in Nat /\ j.subtype = "GATHER"
      /\ ~(j.in_place /\ j.subtype = "ALL_GATHER")
  BY DEF Moves
<1>2. SetBufferDtype(j, TRUE, s * j.np, 1, s, 1, it) = sent
  BY ONLY <1>1, FillsRow
<1>3. ~j.in_place => SetBufferDtype(j, FALSE, s, j.np, s, j.np, it) = Row(j.np, s, it, j.dtype)
  BY ONLY <1>1, FillsRoom
<1>4. j.in_place => SetBufferDtype(j, FALSE, s * j.np, 1, s, j.np, it) = own
  BY ONLY <1>1, FillsOwn
<1>5. room \in [1 .. j.np -> Values]
  BY RowsAre DEF Moves
<1>6. own[s + 1] = mine /\ \A k \in 1 .. 1 : sent[k] = mine
  BY DEF OwnBlock, Row, Moves
<1>7. b = [s |-> sent, r |-> room]
  BY <1>2, <1>3, <1>4 DEF SetBufferValidation, Moves
<1>8. BlocksOf(j, n) = 1 /\ SlotsOf(j, n) = j.np /\ ~InPlaceSent(j)
  BY DEF BlocksOf, SlotsOf, InPlaceSent, Moves, Neighbors
<1>9. \A k : SentValue(j, s, n, it, k) = mine
  BY DEF SentValue, Moves
<1>10. sent = [k \in 1 .. BlocksOf(j, n) |-> SentValue(j, s, n, it, k)]
  BY <1>6, <1>8, <1>9 DEF Row
<1> HIDE DEF mine, sent, own, b
<1>11. b.r = room /\ b.s = sent /\ b = [s |-> b.s, r |-> b.r]
  BY <1>7
<1>12. ASSUME j.in_place \/ s = 0 PROVE b.r[s + 1] = SentValue(j, s, n, it, 1)
  <2>1. CASE j.in_place
    BY <1>6, <1>9, <1>11, <2>1
  <2>2. CASE ~j.in_place /\ s = 0
    <3>1. b.r = Row(j.np, 0, it, j.dtype) /\ s + 1 = 1 /\ 1 \in 1 .. j.np
      BY <1>11, <2>2 DEF Moves
    <3>2. FillValue(0, j.np, 1 - 1, it) = FillValue(s * j.np, 1, 0, it)
      <4>1. 0 * j.np = 0 /\ 0 * 1 = 0 /\ 1 - 1 = 0 /\ s * j.np = 0
        BY <2>2 DEF Moves
      <4> QED
        BY <4>1 DEF FillValue
    <3>3. Row(j.np, 0, it, j.dtype)[1] = AssignToType(FillValue(0, j.np, 1 - 1, it), j.dtype)
      BY <3>1 DEF Row
    <3> QED
      BY <1>9, <3>1, <3>2, <3>3 DEF mine
  <2> QED
    BY <1>12, <2>1, <2>2
<1> QED
  BY <1>5, <1>8, <1>10, <1>11, <1>12 DEF Filled, b

LEMMA FillAllGather ==
  ASSUME NEW j, NEW s, NEW it, Moves(j, s, it), NEW n, NEW old, j.subtype = "ALL_GATHER",
         old.r \in [1 .. j.np -> Values]
  PROVE  Filled(j, s, n, it, SetBufferValidation(j, s, it, old))
<1> DEFINE mine == AssignToType(FillValue(s * j.np, 1, 0, it), j.dtype)
           sent == Row(1, s * j.np, it, j.dtype)
           own == OwnBlock(j.np, s, it, j.dtype)
           room == IF s = 0 THEN Zeros(j.np, j.dtype) ELSE old.r
           b == SetBufferValidation(j, s, it, old)
<1>1. /\ j.np \in Nat /\ 1 \in Nat /\ s \in Nat /\ j.subtype = "ALL_GATHER" /\ j.subtype # "GATHER"
      /\ ~j.in_place => ~(j.in_place /\ j.subtype = "ALL_GATHER")
  BY DEF Moves
<1>2. ~j.in_place => SetBufferDtype(j, TRUE, s * j.np, 1, s, 1, it) = sent
  BY ONLY <1>1, FillsRow
<1>3. ~j.in_place => SetBufferDtype(j, FALSE, s, j.np, s, j.np, it) = Zeros(j.np, j.dtype)
  BY ONLY <1>1, FillsZeros
<1>4. j.in_place => SetBufferDtype(j, TRUE, s * j.np, 1, s, j.np, it) = own
  BY ONLY <1>1, FillsOwn
<1>5. room \in [1 .. j.np -> Values] /\ own \in [1 .. j.np -> Values]
  BY RowsAre DEF Moves
<1>6. b = IF j.in_place THEN [s |-> old.s, r |-> own] ELSE [s |-> sent, r |-> room]
  BY <1>2, <1>3, <1>4 DEF SetBufferValidation, Moves
<1>7. /\ BlocksOf(j, n) = (IF j.in_place THEN j.np ELSE 1)
      /\ SlotsOf(j, n) = j.np /\ (InPlaceSent(j) <=> j.in_place)
  BY DEF BlocksOf, SlotsOf, InPlaceSent, Moves, Neighbors
<1>8. \A k : SentValue(j, s, n, it, k) = IF ~j.in_place \/ k = s + 1 THEN mine ELSE Junk
  BY DEF SentValue, Moves
<1>9. CASE j.in_place
  <2>1. own = [k \in 1 .. BlocksOf(j, n) |-> SentValue(j, s, n, it, k)]
    BY <1>7, <1>8, <1>9 DEF OwnBlock
  <2> HIDE DEF mine, sent, own, room, b
  <2>2. b.r = own /\ b = [s |-> b.s, r |-> b.r]
    BY <1>6, <1>9
  <2> QED
    BY <1>5, <1>7, <1>9, <2>1, <2>2 DEF Filled, b
<1>10. CASE ~j.in_place
  <2>1. \A k \in 1 .. 1 : sent[k] = mine
    BY DEF Row
  <2>2. sent = [k \in 1 .. BlocksOf(j, n) |-> SentValue(j, s, n, it, k)]
    BY <1>7, <1>8, <1>10, <2>1 DEF Row
  <2> HIDE DEF mine, sent, own, room, b
  <2>3. b.s = sent /\ b.r = room /\ b = [s |-> b.s, r |-> b.r]
    BY <1>6, <1>10
  <2> QED
    BY <1>5, <1>7, <1>10, <2>2, <2>3 DEF Filled, b
<1> QED
  BY <1>9, <1>10

LEMMA FillBcast ==
  ASSUME NEW j, NEW s, NEW it, Moves(j, s, it), NEW n, NEW old, j.subtype = "BCAST"
  PROVE  Filled(j, s, n, it, SetBufferValidation(j, s, it, old))
<1> DEFINE sent == IF s = 0 THEN Row(1, 1, it, j.dtype) ELSE Zeros(1, j.dtype)
           b == SetBufferValidation(j, s, it, old)
<1>1. 1 \in Nat /\ ~(j.in_place /\ j.subtype = "ALL_GATHER") /\ j.subtype # "GATHER"
  BY DEF Moves
<1>2. /\ SetBufferDtype(j, TRUE, 1, 1, s, 1, it) = Row(1, 1, it, j.dtype)
      /\ SetBufferDtype(j, FALSE, 1, 1, s, 1, it) = Zeros(1, j.dtype)
  BY ONLY <1>1, FillsRow, FillsZeros
<1>3. SetBufferDtype(j, s = 0, 1, 1, s, 1, it) = sent
  <2>1. CASE s = 0
    <3>1. (s = 0) = TRUE
      BY <2>1
    <3> QED
      BY <1>2, <2>1, <3>1
  <2>2. CASE s # 0
    <3>1. (s = 0) = FALSE
      BY <2>2
    <3> QED
      BY <1>2, <2>2, <3>1
  <2> QED
    BY <2>1, <2>2
<1>4. sent \in [1 .. 1 -> Values]
  BY RowsAre DEF Moves
<1>5. b = [s |-> sent, r |-> sent]
  BY <1>3 DEF SetBufferValidation, Moves
<1>6. BlocksOf(j, n) = 1 /\ SlotsOf(j, n) = 1 /\ ~InPlaceSent(j)
  BY DEF BlocksOf, SlotsOf, InPlaceSent, Moves, Neighbors
<1>7. \A k : SentValue(j, s, n, it, k) = AssignToType(IF s = 0 THEN FillValue(1, 1, 0, it) ELSE 0, j.dtype)
  BY DEF SentValue, Moves
<1>8. sent = [k \in 1 .. 1 |-> SentValue(j, s, n, it, k)]
  BY <1>7 DEF Row, Zeros
<1> HIDE DEF sent, b
<1>9. b.s = sent /\ b.r = sent /\ b = [s |-> b.s, r |-> b.r]
  BY <1>5
<1> QED
  BY <1>4, <1>6, <1>8, <1>9 DEF Filled, b

LEMMA FillReduce ==
  ASSUME NEW j, NEW s, NEW it, Moves(j, s, it), NEW n, NEW old, j.subtype = "REDUCE_SCATTER",
         \A k \in DOMAIN old.r : old.r[k] \in Values
  PROVE  Filled(j, s, n, it, SetBufferValidation(j, s, it, old))
<1> DEFINE own == [i \in 1 .. j.len |-> ReduceValue(j, i - 1, it)]
           room == ClearReduced(j, old.r)
           b == SetBufferValidation(j, s, it, old)
<1>1. ASSUME NEW i \in 1 .. j.len PROVE ReduceValue(j, i - 1, it) \in Values
  <2>1. i \in Nat /\ i - 1 \in Nat /\ it \in Nat /\ \A x, y \in Nat : x * y \in Nat
    BY DEF Moves
  <2>2. ((i - 1) % 100) + 1 \in Nat /\ it + 1 \in Nat
    BY <2>1
  <2>3. (((i - 1) % 100) + 1) * (it + 1) \in Nat
    BY <2>1, <2>2
  <2> QED
    BY <2>3, AssignIsNat DEF ReduceValue, Moves
<1>2. room \in [1 .. (j.len \div j.np) + 1 -> Values]
  BY DEF ClearReduced, Values
<1>3. b = IF j.in_place THEN [s |-> old.s, r |-> own] ELSE [s |-> own, r |-> room]
  BY DEF SetBufferValidation, Moves
<1>4. /\ BlocksOf(j, n) = j.len
      /\ SlotsOf(j, n) = (IF j.in_place THEN j.len ELSE (j.len \div j.np) + 1)
      /\ InPlaceSent(j) <=> j.in_place
  BY DEF BlocksOf, SlotsOf, InPlaceSent, Moves, Neighbors
<1>5. \A k : SentValue(j, s, n, it, k) = ReduceValue(j, k - 1, it)
  BY DEF SentValue, Moves
<1>6. own = [k \in 1 .. BlocksOf(j, n) |-> SentValue(j, s, n, it, k)]
  BY <1>4, <1>5
<1>7. own \in [1 .. j.len -> Values]
  BY <1>1
<1> HIDE DEF own, room, b
<1>8. b.r \in [1 .. SlotsOf(j, n) -> Values] /\ b = [s |-> b.s, r |-> b.r]
  BY <1>2, <1>3, <1>4, <1>7
<1>9. (IF InPlaceSent(j) THEN b.r ELSE b.s) = own
  BY <1>3, <1>4
<1> QED
  BY <1>6, <1>8, <1>9 DEF Filled, b

LEMMA MessageIsNat ==
  ASSUME NEW j, j.len \in Nat, j.dtype \in DOMAIN SizeOfType, NEW it \in Nat, NEW k \in Nat
  PROVE  MessageValue(j, k, it) \in Nat
<1>1. SizeOfType[j.dtype] \in Nat /\ \A x, y \in Nat : x * y \in Nat
  BY DEF SizeOfType
<1>2. CharMultiplier * k \in Nat /\ j.len * SizeOfType[j.dtype] \in Nat
  BY <1>1 DEF CharMultiplier
<1>3. CharMultiplier * k + j.len * SizeOfType[j.dtype] + it \in Nat
  BY <1>2
<1> QED
  BY <1>3, AssignIsNat DEF MessageValue

LEMMA FillMessage ==
  ASSUME NEW j, NEW s, NEW it \in Nat, NEW n, NEW old, j.bench = "PT2PT",
         j.subtype \in {"LAT", "MBW_MR"}, j.len \in Nat, j.dtype \in DOMAIN SizeOfType,
         it > 0 => old.r \in [1 .. j.len -> Values]
  PROVE  Filled(j, s, n, it, SetBufferValidation(j, s, it, old))
<1> DEFINE sent == [k \in 1 .. j.len |-> IF Copies(j, s) THEN MessageValue(j, k, it) ELSE Junk]
           room == [k \in 1 .. j.len |->
                      IF Copies(j, s) THEN AssignToType(0, j.dtype)
                      ELSE IF it > 0 THEN old.r[k] ELSE Junk]
           b == SetBufferValidation(j, s, it, old)
<1>1. AssignToType(0, j.dtype) \in Values /\ Junk \in Values
  BY AssignIsNat DEF Values
<1>2. room \in [1 .. j.len -> Values]
  BY <1>1
<1>3. b = [s |-> sent, r |-> room]
  BY DEF SetBufferValidation
<1>4. BlocksOf(j, n) = j.len /\ SlotsOf(j, n) = j.len /\ ~InPlaceSent(j)
  BY DEF BlocksOf, SlotsOf, InPlaceSent, Neighbors
<1>5. \A k : SentValue(j, s, n, it, k) = IF Copies(j, s) THEN MessageValue(j, k, it) ELSE Junk
  BY DEF SentValue
<1>6. sent = [k \in 1 .. BlocksOf(j, n) |-> SentValue(j, s, n, it, k)]
  BY <1>4, <1>5
<1> HIDE DEF sent, room, b
<1>7. b.s = sent /\ b.r = room /\ b = [s |-> b.s, r |-> b.r]
  BY <1>3
<1> QED
  BY <1>2, <1>4, <1>6, <1>7 DEF Filled, b

LEMMA FillNeighbors ==
  ASSUME NEW j, NEW s, NEW it, Moves(j, s, it), NEW n, j.subtype \in Neighbors, Announced(j.np, n)
  PROVE  Filled(j, s, n, it, SetBufferNhbrValidation(j, s, n, it))
<1> DEFINE b == SetBufferNhbrValidation(j, s, n, it)
           sends == IF j.subtype = "NHBR_GATHER" THEN 1 ELSE n.outdegree
           value(i) == IF j.subtype = "NHBR_GATHER" THEN 0 ELSE n.destinations[i]
           sent == [i \in 1 .. sends |-> AssignToType(s + it + value(i) + 1, j.dtype)]
           room == [i \in 1 .. n.indegree |-> AssignToType(0, j.dtype)]
<1>1. b = [s |-> sent, r |-> room]
  BY DEF SetBufferNhbrValidation
<1>2. BlocksOf(j, n) = sends /\ SlotsOf(j, n) = n.indegree /\ ~InPlaceSent(j)
  BY DEF BlocksOf, SlotsOf, InPlaceSent, Moves, Neighbors
<1>3. AssignToType(0, j.dtype) \in Values
  BY AssignIsNat DEF Moves
<1>4. room \in [1 .. n.indegree -> Values]
  BY <1>3
<1>5. ASSUME NEW k \in 1 .. sends
      PROVE  SentValue(j, s, n, it, k) = AssignToType(s + it + value(k) + 1, j.dtype)
  <2>1. CASE j.subtype = "NHBR_GATHER"
    <3>1. s + it + 0 + 1 = s + it + 1
      BY DEF Moves
    <3> QED
      BY <2>1, <3>1 DEF SentValue, Moves
  <2>2. CASE j.subtype = "NHBR_ALLTOALL"
    BY <2>2 DEF SentValue, Moves
  <2> QED
    BY <2>1, <2>2 DEF Neighbors
<1>6. sent = [k \in 1 .. sends |-> SentValue(j, s, n, it, k)]
  BY <1>5
<1> HIDE DEF sent, room, b, sends, value
<1>7. b.s = sent /\ b.r = room /\ b = [s |-> b.s, r |-> b.r]
  BY <1>1
<1>8. ~(j.subtype = "GATHER") /\ ~(j.subtype = "BCAST")
  BY DEF Neighbors
<1> QED
  BY <1>2, <1>4, <1>6, <1>7, <1>8 DEF Filled, b

LEMMA SumOnSet ==
  ASSUME NEW f, IsFiniteSet(DOMAIN f), NEW T \in SUBSET DOMAIN f
  PROVE  SumFunctionOnSet(f, T) = PartialSum(f, T)
<1> DEFINE h == CHOOSE g : Adds(f, T, g)
           G == {U \in SUBSET T : h[U] = PartialSum(f, U)}
<1>1. IsFiniteSet(T)
  BY FS_Subset
<1>2. Adds(f, T, h)
  BY <1>1, AddsExists
<1>3. SumFunctionOnSet(f, T) = h[T]
  BY DEF SumFunctionOnSet, FoldFunctionOnSet, MapThenFoldSet, Adds, Some
<1> HIDE DEF h
<1>4. ASSUME NEW U \in SUBSET T, \A y \in U : U \ {y} \in G
      PROVE  U \in G
  <2>1. h[U] = IF U = {} THEN 0 ELSE f[Some(U)] + h[U \ {Some(U)}]
    BY <1>2 DEF Adds
  <2>2. PartialSum(f, U) = IF U = {} THEN 0 ELSE f[Some(U)] + PartialSum(f, U \ {Some(U)})
    BY SumUnfolds
  <2>3. U # {} => h[U \ {Some(U)}] = PartialSum(f, U \ {Some(U)})
    BY <1>4 DEF Some
  <2> QED
    BY <2>1, <2>2, <2>3
<1> HIDE DEF G
<1>5. \A U \in SUBSET T : U \in G
  BY <1>1, <1>4, SubsetInduction
<1> QED
  BY <1>3, <1>5 DEF G

\* The elements of the result before those of rank r.
LEMMA FirstIs ==
  ASSUME NEW j, j.np \in Nat \ {0}, j.len \in Nat, NEW r \in 0 .. j.np - 1
  PROVE  /\ RecvCounts(j)[r] \in Nat /\ FirstOf(j, r) \in Nat
         /\ FirstOf(j, r) + RecvCounts(j)[r] <= j.len
         /\ RecvCounts(j)[r] <= (j.len \div j.np) + 1
         /\ FirstOf(j, 0) = 0
         /\ r # 0 => RecvCounts(j)[r] <= FirstOf(j, r)
<1> DEFINE n == j.np
           each == j.len \div n
           more == j.len % n
           f == RecvCounts(j)
           Less(k) == IF k < more THEN k ELSE more
           G == {k \in 0 .. n : PartialSum(f, 0 .. k - 1) = k * each + Less(k)}
<1>1. /\ n \in Nat \ {0} /\ each \in Nat /\ more \in 0 .. n - 1 /\ j.len = n * each + more
  OBVIOUS
<1>2. /\ f \in [0 .. n - 1 -> Nat] /\ f \in [0 .. n - 1 -> Int]
      /\ \A k \in 0 .. n - 1 : f[k] = each + (IF k < more THEN 1 ELSE 0)
  <2>1. f = [k \in 0 .. n - 1 |-> each + (IF k < more THEN 1 ELSE 0)]
    BY DEF RecvCounts
  <2> HIDE DEF n, each, more, f
  <2> QED
    BY <1>1, <2>1
<1> HIDE DEF n, each, more, f
<1>3. 0 \in G
  <2>1. PartialSum(f, 0 .. 0 - 1) = 0
    BY <1>1, <1>2, WholeSum
  <2>2. 0 * each = 0 /\ Less(0) = 0
    BY <1>1
  <2> QED
    BY <1>1, <2>1, <2>2
<1>4. ASSUME NEW k \in 0 .. n - 1, k \in G PROVE k + 1 \in G
  <2>1. PartialSum(f, 0 .. (k + 1) - 1) = f[k] + PartialSum(f, 0 .. k - 1)
    BY <1>1, <1>2, NextRank
  <2>2. PartialSum(f, 0 .. k - 1) = k * each + Less(k)
    BY <1>4
  <2>3. k \in Nat /\ k + 1 \in 0 .. n
    BY <1>1
  <2>4. (k + 1) * each = k * each + each
    BY <1>1, <2>3
  <2>5. k * each \in Nat
    BY <1>1, <2>3
  <2>6. f[k] = each + (IF k < more THEN 1 ELSE 0)
    BY <1>2
  <2>7. PartialSum(f, 0 .. (k + 1) - 1) = (k + 1) * each + Less(k + 1)
    BY <1>1, <2>1, <2>2, <2>3, <2>4, <2>5, <2>6
  <2> QED
    BY <2>3, <2>7
<1>5. \A k \in 0 .. n : PartialSum(f, 0 .. k - 1) = k * each + Less(k)
  <2>1. n \in Nat
    BY <1>1
  <2> HIDE DEF G
  <2>2. \A k \in 0 .. n : k \in G
    BY <1>3, <1>4, <2>1, CountingUp
  <2> QED
    BY <2>2 DEF G
<1>6. ASSUME NEW k \in 0 .. n - 1 PROVE FirstOf(j, k) = k * each + Less(k)
  <2>1. IsFiniteSet(DOMAIN f) /\ 0 .. k - 1 \in SUBSET DOMAIN f
    BY <1>1, <1>2, FS_Interval
  <2>2. SumFunctionOnSet(f, 0 .. k - 1) = PartialSum(f, 0 .. k - 1)
    BY <2>1, SumOnSet
  <2>3. k \in 0 .. n
    BY <1>1
  <2> QED
    BY <1>5, <2>2, <2>3 DEF FirstOf, f
<1>7. r \in 0 .. n - 1 /\ 0 \in 0 .. n - 1
  BY <1>1 DEF n
<1>8. FirstOf(j, r) = r * each + Less(r) /\ FirstOf(j, 0) = 0 * each + Less(0)
  BY <1>6, <1>7
<1>9. f[r] = each + (IF r < more THEN 1 ELSE 0)
  BY <1>2, <1>7
<1>10. /\ \A x, y \in Nat : x * y \in Nat
       /\ \A x, y, z \in Nat : x + 1 <= y => x * z + z <= y * z
       /\ \A x, z \in Nat : x # 0 => z <= x * z
  <2>1. \A x, y \in Nat : x * y \in Nat
    OBVIOUS
  <2>2. ASSUME NEW x \in Nat, NEW y \in Nat, NEW z \in Nat, x + 1 <= y PROVE x * z + z <= y * z
    <3>1. y = (x + 1) + (y - (x + 1)) /\ y - (x + 1) \in Nat
      BY <2>2
    <3>2. y * z = (x * z + z) + (y - (x + 1)) * z
      BY <3>1
    <3>3. (y - (x + 1)) * z \in Nat /\ x * z + z \in Nat
      BY <2>1, <3>1
    <3> QED
      BY <3>2, <3>3
  <2>3. ASSUME NEW x \in Nat, NEW z \in Nat, x # 0 PROVE z <= x * z
    <3>1. 0 + 1 <= x /\ 0 * z = 0
      BY <2>3
    <3>2. 0 * z + z <= x * z
      BY <2>2, <3>1
    <3> QED
      BY <3>1, <3>2
  <2> QED
    BY <2>1, <2>2, <2>3
<1>11. /\ r * each \in Nat /\ n * each \in Nat /\ r * each + each <= n * each
       /\ r # 0 => each <= r * each
  <2>1. r \in Nat /\ n \in Nat /\ each \in Nat /\ r + 1 <= n
    BY <1>1, <1>7
  <2> QED
    BY <1>10, <2>1
<1>12. /\ FirstOf(j, r) \in Nat /\ f[r] \in Nat /\ f[r] <= each + 1
       /\ FirstOf(j, r) + f[r] <= n * each + more
       /\ r # 0 => f[r] <= FirstOf(j, r)
       /\ FirstOf(j, 0) = 0
  BY <1>1, <1>7, <1>8, <1>9, <1>11
<1> QED
  BY <1>1, <1>12 DEF f, n, each

\* A job in the loop, one of its ranks, and what that knows of its neighbours.
InLoop(j, s, n, it) ==
  /\ WellMade(j) /\ j.bench # "ONE_SIDED"
  /\ s \in 0 .. j.np - 1 /\ it \in Nat
  /\ j.subtype \in Neighbors => Announced(j.np, n)

LEMMA LoopIs ==
  ASSUME NEW j, NEW s, NEW n, NEW it, InLoop(j, s, n, it)
  PROVE  /\ j.bench \in {"COLLECTIVE", "PT2PT"} /\ s \in Nat /\ it \in Nat
         /\ j.np \in Nat \ {0} /\ j.np \in Nat /\ j.len \in Nat
         /\ j.dtype \in DOMAIN SizeOfType
         /\ j.bench = "COLLECTIVE" =>
              /\ Moves(j, s, it) /\ j.subtype \in Moving \cup Neighbors \cup {"REDUCE_SCATTER"}
         /\ j.bench = "PT2PT" =>
              /\ j.subtype \in {"LAT", "MBW_MR"} /\ j.subtype \notin Neighbors
              /\ j.np % 2 = 0
<1>1. /\ WellMade(j) /\ j.bench # "ONE_SIDED"
      /\ s \in 0 .. j.np - 1 /\ it \in Nat
  BY DEF InLoop
<1>2. j.np \in Nat \ {0} /\ j.len \in Nat /\ j.dtype \in DOMAIN SizeOfType /\ j.in_place \in BOOLEAN
  BY <1>1 DEF WellMade
<1>3. s \in Nat /\ j.np \in Nat
  BY <1>1, <1>2
<1>4. \/ /\ j.bench = "COLLECTIVE" /\ j.subtype \in Moving \cup Neighbors \cup {"REDUCE_SCATTER"}
      \/ /\ j.bench = "PT2PT" /\ j.subtype \in {"LAT", "MBW_MR"} /\ j.np % 2 = 0
  BY <1>1 DEF WellMade
<1> QED
  BY <1>1, <1>2, <1>3, <1>4 DEF Moves, Neighbors

LEMMA FillIs ==
  ASSUME NEW j, NEW s, NEW n, NEW it, InLoop(j, s, n, it), NEW old,
         old.r \in [1 .. IF it > 0 THEN SlotsOf(j, n) ELSE j.np -> Values]
  PROVE  Filled(j, s, n, it, IF j.subtype \in Neighbors THEN SetBufferNhbrValidation(j, s, n, it)
                             ELSE SetBufferValidation(j, s, it, old))
<1>1. CASE j.bench = "PT2PT"
  <2>1. j.subtype \notin Neighbors /\ SlotsOf(j, n) = j.len
    BY <1>1, LoopIs DEF SlotsOf, Neighbors
  <2>2. it > 0 => old.r \in [1 .. j.len -> Values]
    BY <2>1
  <2> QED
    BY <1>1, <2>1, <2>2, LoopIs, FillMessage
<1>2. CASE j.bench = "COLLECTIVE"
  <2>1. Moves(j, s, it) /\ j.subtype \in Moving \cup Neighbors \cup {"REDUCE_SCATTER"}
    BY <1>2, LoopIs
  <2>2. CASE j.subtype \in Neighbors
    BY <2>1, <2>2, FillNeighbors DEF InLoop
  <2>3. CASE j.subtype \notin Neighbors
    <3>1. CASE j.subtype = "ALL_GATHER"
      <4>1. SlotsOf(j, n) = j.np
        BY <1>2, <3>1 DEF SlotsOf, Neighbors
      <4>2. old.r \in [1 .. j.np -> Values]
        BY <4>1
      <4> QED
        BY <2>1, <2>3, <3>1, <4>2, FillAllGather
    <3>2. CASE j.subtype = "REDUCE_SCATTER"
      BY <2>1, <2>3, <3>2, FillReduce
    <3>3. CASE j.subtype = "ALLTOALL"
      BY <2>1, <2>3, <3>3, FillAlltoall
    <3>4. CASE j.subtype = "SCATTER"
      BY <2>1, <2>3, <3>4, FillScatter
    <3>5. CASE j.subtype = "GATHER"
      BY <2>1, <2>3, <3>5, FillGather
    <3>6. CASE j.subtype = "BCAST"
      BY <2>1, <2>3, <3>6, FillBcast
    <3> QED
      BY <2>1, <2>3, <3>1, <3>2, <3>3, <3>4, <3>5, <3>6 DEF Moving
  <2> QED
    BY <2>2, <2>3
<1> QED
  BY <1>1, <1>2, LoopIs

\* The buffer a rank sends from; what is added up is not Junk.
Stock(j) == IF j.subtype = "REDUCE_SCATTER" THEN Nat ELSE Values
SentOf(j, b) == IF InPlaceSent(j) THEN b.r ELSE b.s
Holds(j, n, b) == SentOf(j, b) \in [1 .. BlocksOf(j, n) -> Stock(j)]

LEMMA SentIs ==
  ASSUME NEW j, NEW s, NEW n, NEW it, InLoop(j, s, n, it), NEW k \in 1 .. BlocksOf(j, n)
  PROVE  SentValue(j, s, n, it, k) \in Stock(j)
<1>1. \A x, y \in Nat : x * y \in Nat /\ x + y \in Nat
  OBVIOUS
<1>2. \A v \in Nat : AssignToType(v, j.dtype) \in Nat /\ AssignToType(v, j.dtype) \in Values
  BY LoopIs, AssignIsNat
<1>3. Junk \in Values
  BY DEF Values
<1>4. CASE j.bench = "PT2PT"
  <2>1. k \in Nat
    BY <1>4, LoopIs DEF BlocksOf
  <2>2. MessageValue(j, k, it) \in Nat
    BY <2>1, LoopIs, MessageIsNat
  <2>3. SentValue(j, s, n, it, k) = IF Copies(j, s) THEN MessageValue(j, k, it) ELSE Junk
    <3>1. j.subtype \in {"LAT", "MBW_MR"}
      BY <1>4, LoopIs
    <3> QED
      BY <1>4, <3>1 DEF SentValue
  <2>4. SentValue(j, s, n, it, k) \in Values
    BY <1>3, <2>2, <2>3 DEF Values
  <2> QED
    BY <1>4, <2>4, LoopIs DEF Stock
<1>5. CASE j.bench = "COLLECTIVE"
  <2>0. /\ Moves(j, s, it) /\ j.subtype \in Moving \cup Neighbors \cup {"REDUCE_SCATTER"}
        /\ s \in Nat /\ it \in Nat /\ j.np \in Nat /\ s * j.np \in Nat
    BY <1>1, <1>5, LoopIs
  <2>1. CASE j.subtype = "REDUCE_SCATTER"
    <3>1. k \in Nat /\ k - 1 \in Nat
      BY <1>5, <2>0, <2>1 DEF BlocksOf, Moves
    <3>2. ((k - 1) % 100) + 1 \in Nat /\ it + 1 \in Nat
      BY <2>0, <3>1
    <3>3. (((k - 1) % 100) + 1) * (it + 1) \in Nat
      BY <1>1, <3>2
    <3>4. ReduceValue(j, k - 1, it) \in Nat
      BY <1>2, <3>3 DEF ReduceValue
    <3> QED
      BY <1>5, <2>1, <3>4 DEF SentValue, Stock
  <2>2. CASE j.subtype \in {"ALLTOALL", "SCATTER"}
    <3>1. k - 1 \in Nat
      BY <1>5, <2>0, <2>2 DEF BlocksOf, Moves
    <3>2. FillValue(s, j.np, k - 1, it) \in Nat /\ FillValue(0, j.np, k - 1, it) \in Nat
      BY <2>0, <3>1, FillIsNat
    <3> QED
      BY <1>2, <1>5, <2>2, <3>2 DEF SentValue, Stock
  <2>3. CASE j.subtype \in {"GATHER", "ALL_GATHER"}
    <3>1. FillValue(s * j.np, 1, 0, it) \in Nat
      BY <2>0, FillIsNat
    <3> QED
      BY <1>2, <1>3, <1>5, <2>3, <3>1 DEF SentValue, Stock
  <2>4. CASE j.subtype = "BCAST"
    <3>1. FillValue(1, 1, 0, it) \in Nat
      BY <2>0, FillIsNat
    <3>2. AssignToType(IF s = 0 THEN FillValue(1, 1, 0, it) ELSE 0, j.dtype) \in Values
      BY <1>2, <3>1
    <3> QED
      BY <1>5, <2>4, <3>2 DEF SentValue, Stock
  <2>5. CASE j.subtype = "NHBR_GATHER"
    <3>1. s + it + 1 \in Nat
      BY <2>0
    <3> QED
      BY <1>2, <1>5, <2>5, <3>1 DEF SentValue, Stock
  <2>6. CASE j.subtype = "NHBR_ALLTOALL"
    <3>1. BlocksOf(j, n) = n.outdegree /\ Announced(j.np, n)
      BY <1>5, <2>6 DEF BlocksOf, InLoop, Neighbors
    <3>2. n.destinations[k] \in 0 .. j.np - 1
      <4>1. n.destinations \in Seq(0 .. j.np - 1) /\ k \in 1 .. Len(n.destinations)
        BY <3>1 DEF Announced
      <4> QED
        BY <4>1, ElementOfSeq
    <3>3. s + it + n.destinations[k] + 1 \in Nat
      BY <2>0, <3>2
    <3> QED
      BY <1>2, <1>5, <2>6, <3>3 DEF SentValue, Stock
  <2> QED
    BY <2>0, <2>1, <2>2, <2>3, <2>4, <2>5, <2>6 DEF Moving, Neighbors
<1> QED
  BY <1>4, <1>5, LoopIs

LEMMA FilledHolds ==
  ASSUME NEW j, NEW s, NEW n, NEW it, InLoop(j, s, n, it), NEW b, Filled(j, s, n, it, b)
  PROVE  Holds(j, n, b)
<1>1. SentOf(j, b) = [k \in 1 .. BlocksOf(j, n) |-> SentValue(j, s, n, it, k)]
  BY DEF Filled, SentOf
<1> QED
  BY <1>1, SentIs DEF Holds

Others(r) == IF job.in_place THEN Procs \ {r} ELSE Procs
Nth(r, l) == Cardinality(UpTo(nbr[r].sources, nbr[r].sources[l], l))

\* Which block goes where, operation by operation.
LEMMA RouteMoves ==
  ASSUME job.bench = "COLLECTIVE", NEW r
  PROVE  /\ job.subtype = "REDUCE_SCATTER" =>
              Route(r) = [i \in 1 .. RecvCounts(job)[r] |-> <<r, FirstOf(job, r) + i>>]
         /\ job.subtype = "ALLTOALL" =>
              Route(r) = [b \in {s + 1 : s \in Others(r)} |-> <<b - 1, r + 1>>]
         /\ job.subtype = "GATHER" =>
              Route(r) = [b \in {s + 1 : s \in IF r = Root THEN Others(r) ELSE {}} |-> <<b - 1, 1>>]
         /\ job.subtype = "ALL_GATHER" =>
              Route(r) = [b \in {s + 1 : s \in Others(r)} |->
                            <<b - 1, IF job.in_place THEN (b - 1) + 1 ELSE 1>>]
         /\ job.subtype = "SCATTER" =>
              Route(r) = [b \in IF job.in_place /\ r = Root THEN {} ELSE {1} |-> <<Root, r + 1>>]
         /\ job.subtype = "BCAST" =>
              Route(r) = [b \in IF r = Root THEN {} ELSE {1} |-> <<Root, 1>>]
         /\ job.subtype = "NHBR_GATHER" =>
              Route(r) = [l \in DOMAIN nbr[r].sources |-> <<nbr[r].sources[l], 1>>]
         /\ job.subtype = "NHBR_ALLTOALL" =>
              Route(r) = [l \in DOMAIN nbr[r].sources |->
                            <<nbr[r].sources[l], BlockFor(nbr[r].sources[l], r, Nth(r, l))>>]
<1>1. CASE job.subtype = "REDUCE_SCATTER"
  BY <1>1 DEF Route, Reduces
<1>2. CASE job.subtype = "ALLTOALL"
  BY <1>2 DEF Route, Reduces, Others
<1>3. CASE job.subtype = "GATHER"
  BY <1>3 DEF Route, Reduces, Others
<1>4. CASE job.subtype = "ALL_GATHER"
  BY <1>4 DEF Route, Reduces, Others
<1>5. CASE job.subtype = "SCATTER"
  BY <1>5 DEF Route, Reduces, Others
<1>6. CASE job.subtype = "BCAST"
  BY <1>6 DEF Route, Reduces, Others
<1>7. CASE job.subtype = "NHBR_GATHER"
  BY <1>7 DEF Route, Reduces, Others
<1>8. CASE job.subtype = "NHBR_ALLTOALL"
  BY <1>8 DEF Route, Reduces, Others, Nth, UpTo
<1> QED
  BY <1>1, <1>2, <1>3, <1>4, <1>5, <1>6, <1>7, <1>8

LEMMA RouteMessage ==
  ASSUME job.bench = "PT2PT", job.subtype \in {"LAT", "MBW_MR"}, NEW r
  PROVE  Route(r) = [i \in 1 .. job.len |-> <<Partner(r), i>>]
BY DEF Route, Reduces

\* A job in the loop, with a root and neighbours known at every rank.
Ready ==
  /\ job \in Jobs /\ job.bench # "ONE_SIDED" /\ iter \in Nat /\ job.root < job.np
  /\ \A q \in Procs : job.subtype \in Neighbors => Knows(job, q, nbr[q])

LEMMA ReadyIs ==
  ASSUME Ready
  PROVE  /\ Root \in Procs /\ job.np \in Nat \ {0} /\ Procs = 0 .. job.np - 1
         /\ \A q \in Procs : InLoop(job, q, nbr[q], iter)
<1>1. /\ job \in Jobs /\ WellMade(job) /\ job.np \in Nat \ {0} /\ job.bench # "ONE_SIDED"
      /\ iter \in Nat /\ job.root < job.np /\ job.root \in Nat \cup {RotateRoot}
  BY JobIs DEF Ready, WellMade
<1>2. Root \in Procs
  BY <1>1 DEF Root, GetRootRank, Procs, RotateRoot
<1>3. ASSUME NEW q \in Procs, job.subtype \in Neighbors PROVE Announced(job.np, nbr[q])
  <2>1. Neighborhood /\ Knows(job, q, nbr[q])
    BY <1>3 DEF Ready, Neighborhood
  <2> QED
    BY <1>1, <2>1, KnownLists
<1> QED
  BY <1>1, <1>2, <1>3 DEF InLoop, Procs

\* Every block a rank receives is one that a rank sends.
LEMMA RouteIs ==
  ASSUME Ready, NEW r \in Procs, NEW b \in DOMAIN Route(r)
  PROVE  \E s \in Procs : \E k \in 1 .. BlocksOf(job, nbr[s]) : Route(r)[b] = <<s, k>>
<1>1. /\ Root \in Procs /\ job.np \in Nat \ {0} /\ job.np \in Nat /\ r \in Nat
      /\ r + 1 \in 1 .. job.np /\ job.len \in Nat /\ job.in_place \in BOOLEAN
      /\ \A q \in Procs : q \in Nat /\ q + 1 \in 1 .. job.np /\ (q + 1) - 1 = q
      /\ InLoop(job, r, nbr[r], iter)
  <2>1. job.len \in Nat /\ job.in_place \in BOOLEAN
    BY JobIs DEF Ready, WellMade
  <2> QED
    BY <2>1, ReadyIs
<1>2. Others(r) \subseteq Procs
  BY DEF Others
<1>3. CASE job.bench = "PT2PT"
  <2>1. job.subtype \in {"LAT", "MBW_MR"} /\ job.np % 2 = 0
    BY <1>1, <1>3, LoopIs
  <2>2. Route(r) = [i \in 1 .. job.len |-> <<Partner(r), i>>]
    BY <1>3, <2>1, RouteMessage
  <2>3. Partner(r) \in Procs
    BY <1>1, <2>1 DEF Partner, Pairs, Procs
  <2>4. BlocksOf(job, nbr[Partner(r)]) = job.len
    BY <1>3, <2>1 DEF BlocksOf
  <2> QED
    BY <2>2, <2>3, <2>4
<1>4. CASE job.bench = "COLLECTIVE"
  <2>0. Moves(job, r, iter) /\ job.subtype \in Moving \cup Neighbors \cup {"REDUCE_SCATTER"}
    BY <1>1, <1>4, LoopIs
  <2>1. CASE job.subtype = "REDUCE_SCATTER"
    <3>1. Route(r) = [i \in 1 .. RecvCounts(job)[r] |-> <<r, FirstOf(job, r) + i>>]
      BY <1>4, <2>1, RouteMoves
    <3>2. BlocksOf(job, nbr[r]) = job.len
      BY <1>4, <2>1 DEF BlocksOf
    <3>3. /\ RecvCounts(job)[r] \in Nat /\ FirstOf(job, r) \in Nat
          /\ FirstOf(job, r) + RecvCounts(job)[r] <= job.len
      BY <1>1, FirstIs DEF Procs
    <3>4. b \in 1 .. RecvCounts(job)[r] /\ FirstOf(job, r) + b \in 1 .. job.len
      BY <1>1, <3>1, <3>3
    <3> QED
      BY <3>1, <3>2, <3>4
  <2>2. CASE job.subtype = "ALLTOALL"
    <3>1. Route(r) = [c \in {s + 1 : s \in Others(r)} |-> <<c - 1, r + 1>>]
      BY <1>4, <2>2, RouteMoves
    <3>2. PICK s \in Others(r) : b = s + 1
      BY <3>1
    <3>3. s \in Procs /\ b - 1 = s
      BY <1>1, <1>2, <3>2
    <3>4. BlocksOf(job, nbr[s]) = job.np
      BY <1>4, <2>2 DEF BlocksOf
    <3> QED
      BY <1>1, <3>1, <3>3, <3>4
  <2>3. CASE job.subtype = "GATHER"
    <3>1. Route(r) = [c \in {s + 1 : s \in IF r = Root THEN Others(r) ELSE {}} |-> <<c - 1, 1>>]
      BY <1>4, <2>3, RouteMoves
    <3>2. PICK s \in Others(r) : b = s + 1
      BY <3>1
    <3>3. s \in Procs /\ b - 1 = s
      BY <1>1, <1>2, <3>2
    <3>4. BlocksOf(job, nbr[s]) = 1 /\ 1 \in 1 .. 1
      BY <1>4, <2>3 DEF BlocksOf
    <3> QED
      BY <3>1, <3>3, <3>4
  <2>4. CASE job.subtype = "ALL_GATHER"
    <3> DEFINE at(c) == IF job.in_place THEN (c - 1) + 1 ELSE 1
    <3>1. Route(r) = [c \in {s + 1 : s \in Others(r)} |-> <<c - 1, at(c)>>]
      BY <1>4, <2>4, RouteMoves
    <3>2. PICK s \in Others(r) : b = s + 1
      BY <3>1
    <3>3. s \in Procs /\ b - 1 = s
      BY <1>1, <1>2, <3>2
    <3>4. BlocksOf(job, nbr[s]) = IF job.in_place THEN job.np ELSE 1
      BY <1>4, <2>4 DEF BlocksOf
    <3>5. at(b) \in 1 .. BlocksOf(job, nbr[s])
      BY <1>1, <3>3, <3>4
    <3> QED
      BY <3>1, <3>3, <3>5
  <2>5. CASE job.subtype = "SCATTER"
    <3>1. Route(r) = [c \in IF job.in_place /\ r = Root THEN {} ELSE {1} |-> <<Root, r + 1>>]
      BY <1>4, <2>5, RouteMoves
    <3>2. BlocksOf(job, nbr[Root]) = job.np
      BY <1>4, <2>5 DEF BlocksOf
    <3> QED
      BY <1>1, <3>1, <3>2
  <2>6. CASE job.subtype = "BCAST"
    <3>1. Route(r) = [c \in IF r = Root THEN {} ELSE {1} |-> <<Root, 1>>]
      BY <1>4, <2>6, RouteMoves
    <3>2. BlocksOf(job, nbr[Root]) = 1 /\ 1 \in 1 .. 1
      BY <1>4, <2>6 DEF BlocksOf
    <3> QED
      BY <1>1, <3>1, <3>2
  <2>7. CASE job.subtype \in Neighbors
    <3> DEFINE q == nbr[r].sources
    <3>1. /\ q \in Seq(0 .. job.np - 1)
          /\ \A s \in Procs : /\ nbr[s].destinations \in Seq(0 .. job.np - 1)
                              /\ nbr[s].outdegree = Len(nbr[s].destinations)
      BY <2>7, ReadyIs DEF InLoop, Announced
    <3>2. DOMAIN Route(r) = DOMAIN q
      <4>1. CASE job.subtype = "NHBR_GATHER"
        <5>1. Route(r) = [l \in DOMAIN q |-> <<q[l], 1>>]
          BY <1>4, <4>1, RouteMoves
        <5> HIDE DEF q
        <5> QED
          BY <5>1
      <4>2. CASE job.subtype = "NHBR_ALLTOALL"
        <5>1. Route(r) = [l \in DOMAIN q |-> <<q[l], BlockFor(q[l], r, Nth(r, l))>>]
          BY <1>4, <4>2, RouteMoves
        <5> HIDE DEF q
        <5> QED
          BY <5>1
      <4> QED
        BY <2>7, <4>1, <4>2 DEF Neighbors
    <3>3. b \in 1 .. Len(q)
      BY <3>1, <3>2
    <3>4. q[b] \in Procs
      BY <3>1, <3>3, ElementOfSeq DEF Procs
    <3>5. CASE job.subtype = "NHBR_GATHER"
      <4>1. Route(r)[b] = <<q[b], 1>>
        BY <1>4, <3>2, <3>5, RouteMoves
      <4>2. BlocksOf(job, nbr[q[b]]) = 1 /\ 1 \in 1 .. 1
        BY <1>4, <3>5 DEF BlocksOf
      <4> QED
        BY <3>4, <4>1, <4>2
    <3>6. CASE job.subtype = "NHBR_ALLTOALL"
      <4> DEFINE s == q[b]
                 k == Nth(r, b)
      <4>1. Route(r)[b] = <<s, BlockFor(s, r, k)>>
        BY <1>4, <3>2, <3>6, RouteMoves
      <4>2. k \in 1 .. Count(q, s)
        BY <3>1, <3>3, NthOf DEF Nth
      <4>3. Count(q, s) = Count(nbr[s].destinations, r)
        BY <2>7, <3>4, KnownAgree DEF Ready, Neighborhood
      <4>4. nbr[s].destinations \in Seq(0 .. job.np - 1)
        BY <3>1, <3>4
      <4>5. BlocksOf(job, nbr[s]) = Len(nbr[s].destinations)
        BY <1>4, <3>1, <3>4, <3>6 DEF BlocksOf
      <4> HIDE DEF s, k, q
      <4>6. BlockFor(s, r, k) \in 1 .. Len(nbr[s].destinations)
        BY <4>2, <4>3, <4>4, BlockForIs
      <4> QED
        BY <3>4, <4>1, <4>5, <4>6 DEF s
    <3> QED
      BY <2>7, <3>5, <3>6 DEF Neighbors
  <2> QED
    BY <2>0, <2>1, <2>2, <2>3, <2>4, <2>5, <2>6, <2>7 DEF Moving
<1> QED
  BY <1>1, <1>3, <1>4, LoopIs

LEMMA SumIs ==
  ASSUME Ready, Reduces, NEW bs, NEW ranks \in SUBSET Procs,
         \A q \in Procs : Holds(job, nbr[q], bs[q]), NEW k \in 1 .. job.len
  PROVE  SumOver(bs, ranks, k) \in Nat
<1> DEFINE f == [s \in ranks |-> Sent(bs, s)[k]]
<1>1. job.bench = "COLLECTIVE" /\ job.np \in Nat
  BY JobIs DEF Ready
<1>2. ASSUME NEW s \in ranks PROVE Sent(bs, s)[k] \in Nat
  <2>1. BlocksOf(job, nbr[s]) = job.len /\ Stock(job) = Nat
    BY <1>1 DEF BlocksOf, Stock, Reduces
  <2>2. Sent(bs, s) = SentOf(job, bs[s])
    BY DEF Sent, SentOf, InPlaceSent
  <2>3. SentOf(job, bs[s]) \in [1 .. job.len -> Nat]
    BY <2>1 DEF Holds
  <2> QED
    BY <2>2, <2>3
<1>3. f \in [ranks -> Nat]
  BY <1>2
<1>4. IsFiniteSet(ranks)
  <2>1. IsFiniteSet(0 .. job.np - 1)
    <3>1. 0 \in Int /\ job.np - 1 \in Int
      BY <1>1
    <3> QED
      BY ONLY <3>1, FS_Interval
  <2> QED
    BY <2>1, FS_Subset DEF Procs
<1>5. SumFunction(f) \in Nat
  <2> HIDE DEF f
  <2> QED
    BY <1>3, <1>4, SumOfNaturals
<1>6. SumOver(bs, ranks, k) = IF job.dtype = "MPI_CHAR" THEN SumFunction(f) % CharRange ELSE SumFunction(f)
  BY DEF SumOver
<1> HIDE DEF f
<1> QED
  BY <1>5, <1>6 DEF CharRange

LEMMA ArrivingIs ==
  ASSUME Ready, NEW bs, \A q \in Procs : Holds(job, nbr[q], bs[q]),
         NEW s \in Procs, NEW k \in 1 .. BlocksOf(job, nbr[s])
  PROVE  Arriving(bs, s, k) \in Values
<1>1. CASE Reduces
  <2>1. BlocksOf(job, nbr[s]) = job.len
    BY <1>1, JobIs DEF BlocksOf, Reduces, Ready
  <2>2. SumOver(bs, Procs, k) \in Nat
    BY <1>1, <2>1, SumIs
  <2> QED
    BY <1>1, <2>2 DEF Arriving, Values
<1>2. CASE ~Reduces
  <2>1. SentOf(job, bs[s])[k] \in Stock(job)
    BY DEF Holds
  <2>2. Sent(bs, s) = SentOf(job, bs[s])
    BY DEF Sent, SentOf, InPlaceSent
  <2> QED
    BY <1>2, <2>1, <2>2 DEF Arriving, Stock, Reduces
<1> QED
  BY <1>1, <1>2

LEMMA ReceivedIs ==
  ASSUME Ready, NEW r \in Procs, \A q \in Procs : Holds(job, nbr[q], bufs[q]),
         bufs[r].r \in [1 .. SlotsOf(job, nbr[r]) -> Values]
  PROVE  Received(r) \in [1 .. SlotsOf(job, nbr[r]) -> Values]
<1> DEFINE route == Route(r)
           S == 1 .. SlotsOf(job, nbr[r])
           put == [b \in DOMAIN bufs[r].r |->
                     IF b \in DOMAIN route THEN Arriving(bufs, route[b][1], route[b][2])
                     ELSE bufs[r].r[b]]
<1>1. ASSUME NEW b \in DOMAIN route PROVE Arriving(bufs, route[b][1], route[b][2]) \in Values
  <2>0. PICK s \in Procs : \E k \in 1 .. BlocksOf(job, nbr[s]) : route[b] = <<s, k>>
    BY <1>1, RouteIs
  <2>1. PICK k \in 1 .. BlocksOf(job, nbr[s]) : route[b] = <<s, k>>
    BY <2>0
  <2>2. Arriving(bufs, s, k) \in Values
    BY ArrivingIs
  <2> QED
    BY <2>1, <2>2
<1>2. put \in [S -> Values]
  <2> HIDE DEF route, S
  <2>1. bufs[r].r \in [S -> Values]
    BY DEF S
  <2> QED
    BY <1>1, <2>1
<1>3. CASE job.subtype = "SCATTER" /\ job.in_place /\ r = Root
  <2>1. Received(r) = [put EXCEPT ![1] = put[Root + 1]]
    BY <1>3 DEF Received, ScatterOffsetCopy
  <2>2. job.bench = "COLLECTIVE"
    BY <1>3, JobIs DEF Ready, WellMade
  <2>3. SlotsOf(job, nbr[r]) = job.np
    BY <1>3, <2>2 DEF SlotsOf, Neighbors
  <2>4. Root + 1 \in S
    BY <2>3, ReadyIs
  <2> HIDE DEF put, S
  <2>5. put[Root + 1] \in Values
    BY <1>2, <2>4
  <2> QED
    BY <1>2, <2>1, <2>5 DEF S
<1>4. CASE ~(job.subtype = "SCATTER" /\ job.in_place /\ r = Root)
  <2>1. Received(r) = put
    BY <1>4 DEF Received
  <2> QED
    BY <1>2, <2>1
<1> QED
  BY <1>3, <1>4

Kinds == {"sender", "receiver", "before", "none"}

(***************************************************************************)
(* A wrong block of rank r, by how it came: from another sender, without   *)
(* the contribution of one, meant for another receiver, of the iteration   *)
(* before, or not at all.                                                  *)
(***************************************************************************)
FromAnother(r, b, w) ==
  \E c \in DOMAIN Route(r) : /\ Route(r)[c][1] # Route(r)[b][1]
                             /\ w = <<"sender", Arriving(bufs, Route(r)[c][1], Route(r)[c][2])>>
Short(r, b, w) ==
  Reduces /\ \E q \in Procs : w = <<"sender", SumOver(bufs, Procs \ {q}, Route(r)[b][2])>>
ForAnother(r, b, w) ==
  /\ job.bench = "PT2PT" \/ Reduces \/ job.subtype \in {"ALLTOALL", "SCATTER", "NHBR_ALLTOALL"}
  /\ \E i \in DOMAIN Sent(bufs, Route(r)[b][1]) :
       /\ IF job.subtype = "NHBR_ALLTOALL"
          THEN i \in DOMAIN nbr[Route(r)[b][1]].destinations =>
                 nbr[Route(r)[b][1]].destinations[i] # r
          ELSE i # Route(r)[b][2]
       /\ w = <<"receiver", Arriving(bufs, Route(r)[b][1], i)>>
FromBefore(r, b, w) ==
  iter > 0 /\ w = <<"before", Arriving(last, Route(r)[b][1], Route(r)[b][2])>>
Absent(r, b, w) == w = <<"none", bufs[r].r[b]>>

LEMMA WrongForms ==
  ASSUME NEW r, NEW b, NEW w \in Wrong(r, b)
  PROVE  /\ \/ FromAnother(r, b, w) \/ Short(r, b, w) \/ ForAnother(r, b, w)
            \/ FromBefore(r, b, w) \/ Absent(r, b, w)
         /\ FromAnother(r, b, w) \/ Short(r, b, w) => w[1] = "sender"
         /\ ForAnother(r, b, w) => w[1] = "receiver"
         /\ FromBefore(r, b, w) => w[1] = "before"
         /\ Absent(r, b, w) => w[1] = "none" /\ w[2] = bufs[r].r[b]
<1>1. \/ FromAnother(r, b, w) \/ Short(r, b, w) \/ ForAnother(r, b, w)
      \/ FromBefore(r, b, w) \/ Absent(r, b, w)
  BY DEF Wrong, FromAnother, Short, ForAnother, FromBefore, Absent
<1>2. FromAnother(r, b, w) => w[1] = "sender"
  BY DEF FromAnother
<1>3. Short(r, b, w) => w[1] = "sender"
  BY DEF Short
<1>4. ForAnother(r, b, w) => w[1] = "receiver"
  BY DEF ForAnother
<1>5. FromBefore(r, b, w) => w[1] = "before"
  BY DEF FromBefore
<1>6. Absent(r, b, w) => w[1] = "none" /\ w[2] = bufs[r].r[b]
  BY DEF Absent
<1> QED
  BY <1>1, <1>2, <1>3, <1>4, <1>5, <1>6

LEMMA WrongIs ==
  ASSUME Ready, NEW r \in Procs, \A q \in Procs : Holds(job, nbr[q], bufs[q]),
         iter > 0 => \A q \in Procs : Holds(job, nbr[q], last[q]),
         bufs[r].r \in [1 .. SlotsOf(job, nbr[r]) -> Values],
         NEW b \in DOMAIN Route(r), NEW w \in Wrong(r, b)
  PROVE  w[1] \in Kinds /\ (b \in DOMAIN bufs[r].r => w[2] \in Values)
<1> DEFINE route == Route(r)
<1>1. ASSUME NEW c \in DOMAIN route
      PROVE  /\ route[c][1] \in Procs /\ route[c][2] \in 1 .. BlocksOf(job, nbr[route[c][1]])
             /\ Arriving(bufs, route[c][1], route[c][2]) \in Values
  <2>0. PICK s \in Procs : \E k \in 1 .. BlocksOf(job, nbr[s]) : route[c] = <<s, k>>
    BY <1>1, RouteIs
  <2>1. PICK k \in 1 .. BlocksOf(job, nbr[s]) : route[c] = <<s, k>>
    BY <2>0
  <2>2. Arriving(bufs, s, k) \in Values
    BY ArrivingIs
  <2> QED
    BY <2>1, <2>2
<1> DEFINE s == route[b][1]
           k == route[b][2]
<1>2. s \in Procs /\ k \in 1 .. BlocksOf(job, nbr[s])
  BY <1>1
<1> HIDE DEF route, s, k
<1>3. CASE FromAnother(r, b, w)
  <2>1. \E c \in DOMAIN route : w = <<"sender", Arriving(bufs, route[c][1], route[c][2])>>
    BY <1>3 DEF FromAnother, route
  <2> QED
    BY <1>1, <2>1 DEF Kinds
<1>4. CASE Short(r, b, w)
  <2>0. Reduces /\ \E q \in Procs : w = <<"sender", SumOver(bufs, Procs \ {q}, k)>>
    BY <1>4 DEF Short, k, route
  <2>1. BlocksOf(job, nbr[s]) = job.len
    BY <2>0, JobIs DEF BlocksOf, Reduces, Ready
  <2>2. \A q \in Procs : SumOver(bufs, Procs \ {q}, k) \in Nat
    BY <1>2, <2>0, <2>1, SumIs
  <2> QED
    BY <2>0, <2>2 DEF Kinds, Values
<1>5. CASE ForAnother(r, b, w)
  <2>0. \E i \in DOMAIN Sent(bufs, s) : w = <<"receiver", Arriving(bufs, s, i)>>
    BY <1>5 DEF ForAnother, s, route
  <2>1. DOMAIN Sent(bufs, s) = 1 .. BlocksOf(job, nbr[s])
    BY <1>2 DEF Holds, Sent, SentOf, InPlaceSent
  <2>2. \A i \in DOMAIN Sent(bufs, s) : Arriving(bufs, s, i) \in Values
    BY <1>2, <2>1, ArrivingIs
  <2> QED
    BY <2>0, <2>2 DEF Kinds
<1>6. CASE FromBefore(r, b, w)
  <2>0. iter > 0 /\ w = <<"before", Arriving(last, s, k)>>
    BY <1>6 DEF FromBefore, s, k, route
  <2>1. Arriving(last, s, k) \in Values
    BY <1>2, <2>0, ArrivingIs
  <2> QED
    BY <2>0, <2>1 DEF Kinds
<1>7. CASE Absent(r, b, w)
  BY <1>7 DEF Absent, Kinds
<1> QED
  BY <1>3, <1>4, <1>5, <1>6, <1>7, WrongForms

-----------------------------------------------------------------------------
(***************************************************************************)
(* What is in the buffers of a rank, by where it is: r is the rank, at its *)
(* place, n its neighbours, b its buffers and l those it sent last time.   *)
(***************************************************************************)
Content(j, r, at, n, it, b, l) ==
  /\ at # "start" => j.root < j.np
  /\ at \notin Loop \cup {"release"} => it = 0
  /\ b = [s |-> b.s, r |-> b.r] /\ \A k \in DOMAIN b.r : b.r[k] \in Values
  /\ at \notin {"call", "check", "checked", "release"} /\ it = 0 => b.r \in [1 .. j.np -> Values]
  /\ at \in Loop /\ (at # "fill" \/ it > 0) => b.r \in [1 .. SlotsOf(j, n) -> Values]
  /\ at = "call" => Filled(j, r, n, it, b)
  /\ at \in {"check", "checked"} \/ (at \in {"fill", "call"} /\ it > 0) => Holds(j, n, l)

DataInv ==
  /\ iter \in 0 .. job.iters - 1
  /\ bufs = [r \in Procs |-> bufs[r]] /\ last = [r \in Procs |-> last[r]]
  /\ verdict \in [Procs -> {0, 1}] /\ \A w \in bad : w[3] \in Kinds
  /\ \A r \in Procs : Content(job, r, pc[r], nbr[r], iter, bufs[r], last[r])

\* What a rank has noted of its neighbours does not get lost.
Noted == \A r \in Procs : nbr[r] = NoNeighbors \/ (Neighborhood /\ Knows(job, r, nbr[r]))

LEMMA NotedKept ==
  ASSUME TypeInv, NeighborInv, Noted, [Next]_vars
  PROVE  Noted'
<1>1. job' = job /\ Procs' = Procs /\ (Neighborhood' <=> Neighborhood)
  BY SameJob DEF Procs, Neighborhood
<1>2. CASE \E r \in Procs : Start(r)
  <2>1. PICK r \in Procs : Start(r)
    BY <1>2
  <2>2. CASE UNCHANGED nbr
    BY <1>1, <2>2 DEF Noted
  <2>3. CASE /\ Neighborhood /\ Topology.ret = "PO_OKAY" /\ Topology.type = "graph"
             /\ ReadGraph(r, job.np, Topology.file).ok
             /\ nbr' = [nbr EXCEPT ![r] = ReadGraph(r, job.np, Topology.file)]
    <3>1. nbr'[r] = ReadGraph(r, job.np, Topology.file) /\ \A q \in Procs \ {r} : nbr'[q] = nbr[q]
      BY <2>3 DEF NeighborInv
    <3>2. Knows(job, r, nbr'[r])
      BY <2>3, <3>1 DEF Knows, Topology, TopologyOf
    <3> QED
      BY <1>1, <2>3, <3>1, <3>2 DEF Noted
  <2> QED
    BY <2>1, <2>2, <2>3 DEF Start
<1>3. CASE \E r \in Procs : Radius(r)
  <2>1. PICK r \in Procs : Radius(r)
    BY <1>3
  <2>2. CASE UNCHANGED nbr
    BY <1>1, <2>2 DEF Noted
  <2>3. CASE /\ ~TooFar(Topology.rad, job.np, grid)
             /\ nbr' = [nbr EXCEPT ![r] = CartNeighbors(r, grid, Topology.rad)]
    <3>1. nbr'[r] = CartNeighbors(r, grid, Topology.rad) /\ \A q \in Procs \ {r} : nbr'[q] = nbr[q]
      BY <2>3 DEF NeighborInv
    <3>2. Placed(job, r, "radius", grid, nbr[r])
      BY <2>1 DEF NeighborInv, Radius, At
    <3>3. Knows(job, r, nbr'[r]) /\ Neighborhood
      BY <2>3, <3>1, <3>2 DEF Knows, Topology, TopologyOf, Placed, Neighborhood
    <3> QED
      BY <1>1, <3>1, <3>3 DEF Noted
  <2> QED
    BY <2>1, <2>2, <2>3 DEF Radius
<1>4. CASE UNCHANGED nbr
  BY <1>1, <1>4 DEF Noted
<1> QED
  BY <1>2, <1>3, <1>4 DEF Next, Progress, Allocate, Send, Receive, Access, Release, CartCreate,
     GraphCreate, WinCreate, WinFree, Fill, Collective, Validate, Again, Launcher, Overrun, Stray,
     Over, vars

\* Away from the loop nothing happens to the buffers.
LEMMA ContentElsewhere ==
  ASSUME NEW j, NEW r, NEW at, NEW n, NEW it, NEW b, NEW l, Content(j, r, at, n, it, b, l),
         NEW at2, NEW n2,
         \/ at2 = at /\ n2 = n
         \/ /\ at \notin Loop \cup {"release"} /\ at2 \notin {"start", "call", "check", "checked"}
            /\ j.root < j.np
  PROVE  Content(j, r, at2, n2, it, b, l)
BY DEF Content, Loop

\* A step that leaves the buffers alone: a rank stays where it is or goes on
\* towards the loop or the end.
Idle ==
  /\ UNCHANGED <<job, data>>
  /\ \A q \in Procs :
       \/ pc'[q] = pc[q] /\ nbr'[q] = nbr[q]
       \/ /\ pc[q] \notin Loop \cup {"release"}
          /\ pc'[q] \notin {"start", "call", "check", "checked"}
          /\ pc[q] = "start" => job.root < job.np

LEMMA DataElsewhere ==
  ASSUME TypeInv, DataInv, Idle
  PROVE  DataInv'
<1>1. /\ job' = job /\ Procs' = Procs /\ iter' = iter /\ bufs' = bufs /\ last' = last
      /\ verdict' = verdict /\ bad' = bad
  BY DEF Idle, data, Procs
<1>2. ASSUME NEW q \in Procs PROVE Content(job, q, pc'[q], nbr'[q], iter, bufs[q], last[q])
  <2>1. Content(job, q, pc[q], nbr[q], iter, bufs[q], last[q])
    BY DEF DataInv
  <2>2. pc[q] # "start" => job.root < job.np
    BY <2>1 DEF Content
  <2>3. \/ pc'[q] = pc[q] /\ nbr'[q] = nbr[q]
        \/ /\ pc[q] \notin Loop \cup {"release"}
           /\ pc'[q] \notin {"start", "call", "check", "checked"}
           /\ job.root < job.np
    BY <2>2 DEF Idle
  <2> QED
    BY ONLY <2>1, <2>3, ContentElsewhere
<1> QED
  BY <1>1, <1>2 DEF DataInv

LEMMA OutsideIsIdle ==
  ASSUME TypeInv, NeighborInv, NEW r \in Procs,
         \/ Start(r) \/ Radius(r) \/ Allocate(r) \/ Send(r) \/ Receive(r) \/ Access(r) \/ Release(r)
         \/ CartCreate \/ GraphCreate \/ WinCreate \/ WinFree
  PROVE  Idle
<1>1. UNCHANGED <<job, data>>
  BY DEF Start, Radius, Allocate, Send, Receive, Access, Release, CartCreate, GraphCreate,
         WinCreate, WinFree
<1>2. ASSUME NEW q \in Procs
      PROVE  \/ pc'[q] = pc[q] /\ nbr'[q] = nbr[q]
             \/ /\ pc[q] \notin Loop \cup {"release"}
                /\ pc'[q] \notin {"start", "call", "check", "checked"}
                /\ pc[q] = "start" => job.root < job.np
  <2>1. CASE Start(r)
    <3>1. UNCHANGED <<pc, nbr>> \/ \E label \in {"graph", "cart", "fill", "allocate"} :
             /\ ~(job.root >= job.np) /\ Goto(r, label)
             /\ nbr' = nbr \/ nbr' = [nbr EXCEPT ![r] = nbr'[r]]
      BY <2>1 DEF Start, NeighborInv
    <3>2. job.root \in Int /\ job.np \in Int
      BY JobIs DEF TypeInv, WellMade, RotateRoot
    <3>3. pc[r] = "start"
      BY <2>1 DEF Start, At
    <3> QED
      BY <3>1, <3>2, <3>3 DEF Goto, TypeInv, NeighborInv, Loop
  <2>2. CASE Radius(r)
    <3>1. UNCHANGED <<pc, nbr>>
          \/ (Goto(r, "graph") /\ nbr' = [nbr EXCEPT ![r] = CartNeighbors(r, grid, Topology.rad)])
      BY <2>2 DEF Radius
    <3>2. pc[r] = "radius"
      BY <2>2 DEF Radius, At
    <3> QED
      BY <3>1, <3>2 DEF Goto, TypeInv, NeighborInv, Loop
  <2>3. CASE Allocate(r) \/ Send(r) \/ Receive(r) \/ Access(r) \/ Release(r)
    <3>1. nbr' = nbr /\ (pc' = pc \/ \E label \in {"window", "fill", "recv", "use", "send", "win free"} :
                                       Goto(r, label))
      BY <2>3 DEF Allocate, Send, Receive, Access, Release
    <3>2. CASE Release(r)
      BY <3>2 DEF Release
    <3>3. CASE ~Release(r)
      <4>1. pc[r] \in {"allocate", "send", "recv", "use"}
        BY <2>3, <3>3 DEF Allocate, Send, Receive, Access, At
      <4> QED
        BY <3>1, <4>1 DEF Goto, TypeInv, Loop
    <3> QED
      BY <3>2, <3>3
  <2>4. CASE CartCreate \/ GraphCreate \/ WinFree
    <3>1. nbr' = nbr /\ \E label \in {"radius", "fill", "release"} : AllGoto(label)
      BY <2>4 DEF CartCreate, GraphCreate, WinFree
    <3>2. pc[q] \in {"cart", "graph", "win free"}
      BY <2>4, Everybody DEF CartCreate, GraphCreate, WinFree
    <3> QED
      BY <3>1, <3>2 DEF AllGoto, Loop
  <2>5. CASE WinCreate
    <3>1. nbr' = nbr /\ pc'[q] \in {"use", "send", "recv"}
      BY <2>5 DEF WinCreate
    <3>2. pc[q] = "window"
      BY <2>5, Everybody DEF WinCreate
    <3> QED
      BY <3>1, <3>2 DEF Loop
  <2> QED
    BY <2>1, <2>2, <2>3, <2>4, <2>5
<1> QED
  BY <1>1, <1>2 DEF Idle

\* Every other step is one of the loop.
LEMMA IdleOrLoop ==
  ASSUME TypeInv, NeighborInv, [Next]_vars
  PROVE  Idle \/ Fill \/ Collective \/ Validate \/ Again
<1>1. CASE \/ \E r \in Procs : Overrun(r) \/ Stray(r)
           \/ Launcher \/ UNCHANGED vars
  <2>1. UNCHANGED <<job, data>> /\ pc' = pc /\ nbr' = nbr
    BY <1>1 DEF Overrun, Stray, Launcher, vars
  <2> QED
    BY <2>1 DEF Idle
<1>2. 0 \in Procs
  BY JobIs DEF TypeInv, Procs
<1> QED
  BY <1>1, <1>2, OutsideIsIdle DEF Next, Progress, Over

\* All ranks are at one place of the loop.
LEMMA LoopReady ==
  ASSUME TypeInv, NeighborInv, DataInv, NEW label \in Loop, AllAt(label)
  PROVE  /\ Ready
         /\ \A r \in Procs : /\ pc[r] = label /\ ended[r] = "no"
                             /\ Content(job, r, label, nbr[r], iter, bufs[r], last[r])
<1>1. 0 \in Procs /\ label \in Places(job) /\ \A r \in Procs : pc[r] = label /\ ended[r] = "no"
  BY Everybody
<1>2. \A r \in Procs : Content(job, r, label, nbr[r], iter, bufs[r], last[r])
  BY <1>1 DEF DataInv
<1>3. job.bench # "ONE_SIDED"
  BY <1>1, PlacesOf DEF TypeInv
<1>4. job.root < job.np
  BY <1>1, <1>2 DEF Content, Loop
<1>5. iter \in Nat
  BY JobIs DEF TypeInv, DataInv
<1>6. \A q \in Procs : job.subtype \in Neighbors => Knows(job, q, nbr[q])
  BY <1>1 DEF NeighborInv, Placed
<1> QED
  BY <1>1, <1>2, <1>3, <1>4, <1>5, <1>6 DEF Ready, TypeInv

LEMMA DataFill ==
  ASSUME TypeInv, NeighborInv, DataInv, Fill
  PROVE  DataInv'
<1> DEFINE new(r) == IF Neighborhood THEN SetBufferNhbrValidation(job, r, nbr[r], iter)
                     ELSE SetBufferValidation(job, r, iter, bufs[r])
<1>1. /\ job' = job /\ Procs' = Procs /\ iter' = iter /\ last' = last /\ nbr' = nbr
      /\ bad' = {} /\ verdict' = [r \in Procs |-> 0] /\ bufs' = [r \in Procs |-> new(r)]
      /\ \A r \in Procs : pc'[r] = "call"
  BY DEF Fill, Procs, AllGoto
<1>2. AllAt("fill")
  BY DEF Fill
<1>3. Ready /\ \A r \in Procs : Content(job, r, "fill", nbr[r], iter, bufs[r], last[r])
  BY <1>2, LoopReady DEF Loop
<1> HIDE DEF new
<1>4. ASSUME NEW r \in Procs PROVE Content(job, r, "call", nbr[r], iter, new(r), last[r])
  <2>1. Content(job, r, "fill", nbr[r], iter, bufs[r], last[r]) /\ iter \in Nat
    BY <1>3 DEF Ready
  <2>2. bufs[r].r \in [1 .. IF iter > 0 THEN SlotsOf(job, nbr[r]) ELSE job.np -> Values]
    BY <2>1 DEF Content, Loop
  <2>3. InLoop(job, r, nbr[r], iter)
    BY <1>3, ReadyIs
  <2>4. Filled(job, r, nbr[r], iter, new(r))
    BY <2>2, <2>3, FillIs DEF new, Neighborhood
  <2>5. new(r) = [s |-> new(r).s, r |-> new(r).r] /\ new(r).r \in [1 .. SlotsOf(job, nbr[r]) -> Values]
    BY <2>4 DEF Filled
  <2> QED
    BY <2>1, <2>4, <2>5 DEF Content, Loop
<1>5. \A r \in Procs : Content(job, r, pc'[r], nbr[r], iter, bufs'[r], last[r])
  BY <1>1, <1>4
<1>6. bufs' = [r \in Procs |-> bufs'[r]]
  BY <1>1
<1> QED
  BY <1>1, <1>5, <1>6 DEF DataInv

\* The operation leaves values at every rank, and what was sent behind.
LEMMA DataCollective ==
  ASSUME TypeInv, NeighborInv, DataInv, Collective
  PROVE  DataInv'
<1> DEFINE right == [r \in Procs |-> [bufs[r] EXCEPT !.r = Received(r)]]
<1>1. /\ job' = job /\ Procs' = Procs /\ iter' = iter /\ last' = bufs /\ nbr' = nbr
      /\ verdict' = verdict /\ AllAt("call") /\ \A r \in Procs : pc'[r] = "check"
  BY DEF Collective, Procs, AllGoto
<1>2. Ready /\ \A r \in Procs : Content(job, r, "call", nbr[r], iter, bufs[r], last[r])
  BY <1>1, LoopReady DEF Loop
<1>3. ASSUME NEW r \in Procs
      PROVE  /\ InLoop(job, r, nbr[r], iter) /\ Filled(job, r, nbr[r], iter, bufs[r])
             /\ bufs[r] = [s |-> bufs[r].s, r |-> bufs[r].r]
             /\ bufs[r].r \in [1 .. SlotsOf(job, nbr[r]) -> Values]
             /\ Holds(job, nbr[r], bufs[r]) /\ (iter > 0 => Holds(job, nbr[r], last[r]))
             /\ job.root < job.np
  <2>1. Content(job, r, "call", nbr[r], iter, bufs[r], last[r])
    BY <1>2
  <2>2. InLoop(job, r, nbr[r], iter) /\ Filled(job, r, nbr[r], iter, bufs[r])
    BY <1>2, <2>1, ReadyIs DEF Content
  <2> QED
    BY <2>1, <2>2, FilledHolds DEF Content, Loop
<1>4. ASSUME NEW r \in Procs PROVE Received(r) \in [1 .. SlotsOf(job, nbr[r]) -> Values]
  BY <1>2, <1>3, ReceivedIs
<1>5. ASSUME NEW r \in Procs
      PROVE  /\ right[r] = [s |-> bufs[r].s, r |-> Received(r)]
             /\ right[r] = [s |-> right[r].s, r |-> right[r].r]
             /\ right[r].r = Received(r)
  <2>1. \A x, y : x = [s |-> x.s, r |-> x.r] => [x EXCEPT !.r = y] = [s |-> x.s, r |-> y]
    OBVIOUS
  <2>2. right[r] = [bufs[r] EXCEPT !.r = Received(r)] /\ bufs[r] = [s |-> bufs[r].s, r |-> bufs[r].r]
    BY <1>3
  <2>3. right[r] = [s |-> bufs[r].s, r |-> Received(r)]
    BY ONLY <2>1, <2>2
  <2> QED
    BY ONLY <2>3
<1> HIDE DEF right
<1>6. ASSUME NEW b, b = [s |-> b.s, r |-> b.r], NEW r \in Procs,
             b.r \in [1 .. SlotsOf(job, nbr[r]) -> Values]
      PROVE  Content(job, r, "check", nbr[r], iter, b, bufs[r])
  BY <1>3, <1>6 DEF Content, Loop
<1>7. CASE bufs' = right /\ UNCHANGED <<bad, faults>>
  <2>1. \A r \in Procs : Content(job, r, pc'[r], nbr[r], iter, bufs'[r], last'[r])
    BY <1>1, <1>4, <1>5, <1>6, <1>7
  <2>2. bufs' = [r \in Procs |-> bufs'[r]] /\ last' = [r \in Procs |-> last'[r]]
    BY <1>1, <1>7 DEF right, DataInv
  <2> QED
    BY <1>1, <1>7, <2>1, <2>2 DEF DataInv
<1>8. CASE \E r \in Procs : \E b \in DOMAIN Route(r) : \E w \in Wrong(r, b) :
             bad' = {<<r, b, w[1]>>} /\ bufs' = [right EXCEPT ![r].r[b] = w[2]]
  <2>1. PICK r \in Procs : \E b \in DOMAIN Route(r) : \E w \in Wrong(r, b) :
             bad' = {<<r, b, w[1]>>} /\ bufs' = [right EXCEPT ![r].r[b] = w[2]]
    BY <1>8
  <2>2. PICK b \in DOMAIN Route(r) : \E w \in Wrong(r, b) :
             bad' = {<<r, b, w[1]>>} /\ bufs' = [right EXCEPT ![r].r[b] = w[2]]
    BY <2>1
  <2>3. PICK w \in Wrong(r, b) :
             bad' = {<<r, b, w[1]>>} /\ bufs' = [right EXCEPT ![r].r[b] = w[2]]
    BY <2>2
  <2>4. w[1] \in Kinds /\ (b \in DOMAIN bufs[r].r => w[2] \in Values)
    BY <1>2, <1>3, WrongIs
  <2>5. right = [q \in Procs |-> right[q]]
    BY DEF right
  <2>6. ASSUME NEW q \in Procs
        PROVE  /\ bufs'[q] = [s |-> bufs'[q].s, r |-> bufs'[q].r]
               /\ bufs'[q].r \in [1 .. SlotsOf(job, nbr[q]) -> Values]
    <3>1. right[q].r \in [1 .. SlotsOf(job, nbr[q]) -> Values]
      BY <1>4, <1>5
    <3>2. CASE q # r
      <4>1. bufs'[q] = right[q]
        BY <2>3, <2>5, <3>2
      <4> QED
        BY <1>5, <3>1, <4>1
    <3>3. CASE q = r
      <4>1. bufs'[r] = [right[r] EXCEPT !.r = [right[r].r EXCEPT ![b] = w[2]]]
        BY <2>3, <2>5
      <4>2. bufs'[r] = [s |-> right[r].s, r |-> [right[r].r EXCEPT ![b] = w[2]]]
        BY <1>5, <4>1
      <4>3. DOMAIN bufs[r].r = 1 .. SlotsOf(job, nbr[r])
        BY <1>3
      <4>4. [right[r].r EXCEPT ![b] = w[2]] \in [1 .. SlotsOf(job, nbr[r]) -> Values]
        BY <2>4, <3>1, <3>3, <4>3
      <4> QED
        BY <3>3, <4>2, <4>4
    <3> QED
      BY <3>2, <3>3
  <2>7. \A q \in Procs : Content(job, q, pc'[q], nbr[q], iter, bufs'[q], last'[q])
    BY <1>1, <1>6, <2>6
  <2>8. bufs' = [q \in Procs |-> bufs'[q]] /\ last' = [q \in Procs |-> last'[q]]
    BY <1>1, <2>3, <2>5 DEF DataInv
  <2>9. \A x \in bad' : x[3] \in Kinds
    BY <2>3, <2>4
  <2> QED
    BY <1>1, <2>7, <2>8, <2>9 DEF DataInv
<1> QED
  BY <1>7, <1>8 DEF Collective, right

LEMMA VerdictIs ==
  ASSUME Ready, NEW r \in Procs, NEW n, NEW buffer
  PROVE  /\ Neighborhood => ValidateNeighborhoodCol(job, r, n, buffer, iter) \in {0, 1}
         /\ ~Neighborhood => ValidateData(job, r, buffer, iter) \in {0, 1}
<1>1. InLoop(job, r, nbr[r], iter)
  BY ReadyIs
<1>2. \A v1, v2 : ValidateCollective(buffer, v1, v2, iter, job.dtype) \in {0, 1}
  BY DEF ValidateCollective
<1>3. ValidateMessage(job, buffer, iter) \in {0, 1} /\ ValidateReduceScatter(job, r, buffer, iter) \in {0, 1}
  BY DEF ValidateMessage, ValidateReduceScatter
<1>4. CASE job.bench = "PT2PT"
  <2>1. ValidateData(job, r, buffer, iter) = ValidateMessage(job, buffer, iter)
    <3>1. job.subtype \in {"LAT", "MBW_MR"}
      BY <1>1, <1>4, LoopIs
    <3> QED
      BY <1>4, <3>1 DEF ValidateData
  <2> QED
    BY <1>3, <1>4, <2>1, JobIs DEF Ready
<1>5. CASE job.bench = "COLLECTIVE"
  <2>1. job.subtype \in Moving \cup Neighbors \cup {"REDUCE_SCATTER"}
    BY <1>1, <1>5, LoopIs
  <2>2. ValidateNeighborhoodCol(job, r, n, buffer, iter) \in {0, 1}
    BY DEF ValidateNeighborhoodCol
  <2>3. ASSUME ~Neighborhood PROVE ValidateData(job, r, buffer, iter) \in {0, 1}
    BY <1>2, <1>3, <1>5, <2>1, <2>3 DEF ValidateData, Moving, Neighborhood
  <2> QED
    BY <2>2, <2>3
<1> QED
  BY <1>1, <1>4, <1>5, LoopIs

LEMMA DataValidate ==
  ASSUME TypeInv, NeighborInv, DataInv, Validate
  PROVE  DataInv'
<1>1. /\ job' = job /\ Procs' = Procs /\ iter' = iter /\ last' = last /\ nbr' = nbr /\ bufs' = bufs
      /\ bad' = bad /\ AllAt("check") /\ \A r \in Procs : pc'[r] = "checked"
  BY DEF Validate, Procs, AllGoto
<1>2. Ready /\ \A r \in Procs : Content(job, r, "check", nbr[r], iter, bufs[r], last[r])
  BY <1>1, LoopReady DEF Loop
<1>3. verdict' \in [Procs -> {0, 1}]
  <2>1. PICK failing \in SUBSET Unread : verdict' = [r \in Procs |->
           IF ~Validates(r) \/ r \in Unread \ failing THEN 0 ELSE IF r \in failing THEN 1
           ELSE IF Neighborhood THEN ValidateNeighborhoodCol(job, r, nbr[r], bufs[r].r, iter)
           ELSE ValidateData(job, r, bufs[r].r, iter)]
    BY DEF Validate
  <2> QED
    BY <1>2, <2>1, VerdictIs
<1>4. \A r \in Procs : Content(job, r, "checked", nbr[r], iter, bufs[r], last[r])
  BY <1>2 DEF Content, Loop
<1> QED
  BY <1>1, <1>3, <1>4 DEF DataInv

LEMMA DataAgain ==
  ASSUME TypeInv, NeighborInv, DataInv, Again
  PROVE  DataInv'
<1>1. /\ job' = job /\ Procs' = Procs /\ last' = last /\ nbr' = nbr /\ bufs' = bufs
      /\ bad' = bad /\ verdict' = verdict /\ AllAt("checked")
  BY DEF Again, Procs
<1>2. Ready /\ \A r \in Procs : pc[r] = "checked" /\ Content(job, r, "checked", nbr[r], iter, bufs[r], last[r])
  BY <1>1, LoopReady DEF Loop
<1>3. iter \in Nat /\ job.iters \in Nat
  BY <1>2, JobIs DEF Ready
<1>4. CASE iter + 1 < job.iters /\ iter' = iter + 1 /\ AllGoto("fill")
  <2>1. \A r \in Procs : Content(job, r, "fill", nbr[r], iter', bufs[r], last[r])
    BY <1>2, <1>3, <1>4 DEF Content, Loop
  <2>2. \A r \in Procs : pc'[r] = "fill"
    BY <1>4 DEF AllGoto
  <2>3. iter' \in 0 .. job.iters - 1
    BY <1>3, <1>4
  <2> QED
    BY <1>1, <2>1, <2>2, <2>3 DEF DataInv
<1>5. CASE AllGoto("release") /\ iter' = iter
  <2>1. \A r \in Procs : Content(job, r, "release", nbr[r], iter, bufs[r], last[r])
    BY <1>2 DEF Content, Loop
  <2>2. \A r \in Procs : pc'[r] = "release"
    BY <1>5 DEF AllGoto
  <2> QED
    BY <1>1, <1>5, <2>1, <2>2 DEF DataInv
<1>6. CASE UNCHANGED <<pc, iter>>
  BY <1>1, <1>6 DEF DataInv
<1> QED
  BY <1>4, <1>5, <1>6 DEF Again

LEMMA DataKeeps ==
  ASSUME TypeInv, NeighborInv, DataInv, [Next]_vars
  PROVE  DataInv'
BY IdleOrLoop, DataElsewhere, DataFill, DataCollective, DataValidate, DataAgain

LEMMA DataAtFirst ==
  ASSUME Init
  PROVE  DataInv
<1>1. /\ job \in Jobs /\ iter = 0 /\ bad = {} /\ verdict = [r \in Procs |-> 0] /\ last = bufs
      /\ bufs = [r \in Procs |-> [s |-> <<>>, r |-> [b \in 1 .. job.np |-> Junk]]]
      /\ pc = [r \in Procs |-> "start"]
  BY DEF Init
<1>2. iter \in 0 .. job.iters - 1
  BY <1>1, JobIs
<1>3. ASSUME NEW r \in Procs PROVE Content(job, r, pc[r], nbr[r], iter, bufs[r], last[r])
  BY <1>1 DEF Content, Loop, Values
<1> QED
  BY <1>1, <1>2, <1>3 DEF DataInv

(***************************************************************************)
(* DataInv is inductive together with TypeInv and NeighborInv.             *)
(***************************************************************************)
THEOREM DataHolds == Spec => [](TypeInv /\ NeighborInv /\ Noted /\ DataInv)
<1>1. Init => TypeInv /\ NeighborInv /\ Noted /\ DataInv
  BY TypeAtFirst, DataAtFirst DEF Init, NeighborInv, Placed, Loop, Noted
<1>2. TypeInv /\ NeighborInv /\ Noted /\ DataInv /\ [Next]_vars
        => (TypeInv /\ NeighborInv /\ Noted /\ DataInv)'
  BY TypeKeeps, NeighborsKeep, NotedKept, DataKeeps
<1> QED
  BY <1>1, <1>2, PTL DEF Spec

LEMMA TypeIsOK ==
  ASSUME TypeInv, Noted, DataInv
  PROVE  TypeOK
<1>1. ASSUME NEW r \in Procs, Topology.type = "graph"
      PROVE  Len(nbr[r].sources) <= MaxEdges + 1 /\ Len(nbr[r].destinations) <= MaxEdges + 1
  <2>1. CASE nbr[r] = NoNeighbors
    BY <2>1, NeighborhoodConstants DEF NoNeighbors
  <2>2. CASE Neighborhood /\ Knows(job, r, nbr[r])
    BY <1>1, <2>2, KnownLists DEF TypeInv
  <2> QED
    BY <2>1, <2>2 DEF Noted
<1>2. ASSUME NEW r \in Procs, NEW b \in DOMAIN bufs[r].r PROVE bufs[r].r[b] \in Nat \cup {Junk}
  BY DEF DataInv, Content, Values
<1> QED
  BY <1>1, <1>2 DEF TypeOK, TypeInv, DataInv, Ends, Kinds

(***************************************************************************)
(* TypeOK of every job, any number of ranks and iterations.                *)
(***************************************************************************)
THEOREM TypeCorrect == Spec => []TypeOK
BY DataHolds, TypeIsOK, PTL

-----------------------------------------------------------------------------
(***************************************************************************)
(* What validation compares, and with what: Compared are the blocks that   *)
(* rank r with neighbours n looks at, Expected is the value of block k.    *)
(***************************************************************************)
CollectiveValue(j, v1, v2, it, i) ==
  AssignToType(i * v2 + v1 + (it + 1) * (v1 + 1) * (i * v2 + 1), j.dtype)

Compared(j, r, n) ==
  CASE j.bench = "PT2PT" -> 1 .. (IF j.dtype = "MPI_FLOAT" THEN j.len ELSE j.len \div SizeOfType[j.dtype])
    [] j.subtype = "REDUCE_SCATTER" -> {i + 1 : i \in FirstOf(j, r) .. RecvCounts(j)[r] - 1}
    [] j.subtype \in Neighbors -> 1 .. n.indegree
    [] j.subtype \in {"ALLTOALL", "GATHER", "ALL_GATHER"} ->
         IF j.dtype = "MPI_FLOAT" THEN {1} ELSE 1 .. j.np
    [] j.subtype \in {"SCATTER", "BCAST"} -> {1}

Expected(j, r, n, it, k) ==
  CASE j.bench = "PT2PT" -> MessageValue(j, k, it)
    [] j.subtype = "REDUCE_SCATTER" -> AssignToType((((k - 1) % 100) + 1) * (it + 1) * j.np, j.dtype)
    [] j.subtype = "NHBR_GATHER" -> AssignToType(n.sources[k] + 0 + it + 1, j.dtype)
    [] j.subtype = "NHBR_ALLTOALL" -> AssignToType(n.sources[k] + r + it + 1, j.dtype)
    [] j.subtype = "ALLTOALL" -> CollectiveValue(j, r, j.np, it, k - 1)
    [] j.subtype \in {"GATHER", "ALL_GATHER"} -> CollectiveValue(j, 0, j.np, it, k - 1)
    [] j.subtype = "SCATTER" -> CollectiveValue(j, r, 1, it, k - 1)
    [] j.subtype = "BCAST" -> CollectiveValue(j, 1, 1, it, k - 1)

Matches(j, r, n, it, buffer) == \A k \in Compared(j, r, n) : buffer[k] = Expected(j, r, n, it, k)

\* With the block of a message of which only some bytes are compared.
Looked(r) == Compared(job, r, nbr[r]) \cup {k \in 1 .. job.len : InPart(k)}
Agrees(r, buffer) == \A k \in Looked(r) : buffer[k] = Expected(job, r, nbr[r], iter, k)

\* The comparison of one value per block, as in ValidateCollective.
Compares(j, buffer, v1, v2, it, C) ==
  ValidateCollective(buffer, v1, v2, it, j.dtype)
    = IF \A k \in C : buffer[k] = CollectiveValue(j, v1, v2, it, k - 1) THEN 0 ELSE 1

LEMMA CollectiveCompares ==
  ASSUME NEW j, NEW buffer, NEW v1, NEW v2 \in Nat \ {0}, NEW it,
         NEW C, C = IF j.dtype = "MPI_FLOAT" THEN {1} ELSE 1 .. v2
  PROVE  Compares(j, buffer, v1, v2, it, C)
<1> DEFINE value(i) == CollectiveValue(j, v1, v2, it, i)
           D == IF j.dtype = "MPI_FLOAT" THEN {0} ELSE 0 .. v2 - 1
<1>1. ValidateCollective(buffer, v1, v2, it, j.dtype)
        = IF \E i \in D : buffer[i + 1] # value(i) THEN 1 ELSE 0
  BY DEF ValidateCollective, CollectiveValue
<1>2. (\A i \in D : i + 1 \in C /\ (i + 1) - 1 = i) /\ \A k \in C : k - 1 \in D /\ (k - 1) + 1 = k
  OBVIOUS
<1> HIDE DEF D, value
<1>3. (\E i \in D : buffer[i + 1] # value(i)) <=> ~(\A k \in C : buffer[k] = value(k - 1))
  BY <1>2
<1> QED
  BY <1>1, <1>3 DEF value, Compares

LEMMA MatchCompares ==
  ASSUME Ready, NEW r \in Procs, NEW n, n = nbr[r], NEW buffer, NEW v,
         v = IF Neighborhood THEN ValidateNeighborhoodCol(job, r, n, buffer, iter)
             ELSE ValidateData(job, r, buffer, iter)
  PROVE  /\ Agrees(r, buffer) => v = 0
         /\ ~Matches(job, r, n, iter, buffer) => v = 1
<1> DEFINE C == Compared(job, r, n)
           value(k) == Expected(job, r, n, iter, k)
           verd == IF Neighborhood THEN ValidateNeighborhoodCol(job, r, n, buffer, iter)
                   ELSE ValidateData(job, r, buffer, iter)
<1>1. InLoop(job, r, nbr[r], iter) /\ job.np \in Nat \ {0} /\ 1 \in Nat \ {0}
  BY ReadyIs
<1>2. CASE job.bench = "PT2PT"
  <2>1. job.subtype \in {"LAT", "MBW_MR"} /\ ~Neighborhood
    BY <1>1, <1>2, LoopIs DEF Neighborhood
  <2>2. verd = ValidateMessage(job, buffer, iter)
    BY <1>2, <2>1 DEF ValidateData
  <2>3. C = 1 .. (IF job.dtype = "MPI_FLOAT" THEN job.len ELSE job.len \div SizeOfType[job.dtype])
    BY <1>2, <2>1 DEF Compared, Neighbors
  <2>4. \A k : value(k) = MessageValue(job, k, iter)
    BY <1>2, <2>1 DEF Expected
  <2> DEFINE width == IF job.dtype = "MPI_FLOAT" THEN 1 ELSE SizeOfType[job.dtype]
             whole == job.len \div width
             low(x) == x % CharRange ^ (job.len % width)
  <2>5. /\ job.len \in Nat /\ C = 1 .. whole
        /\ job.len % width > 0 => InPart(whole + 1) /\ whole + 1 \in 1 .. job.len
    <3>1. job.len \in Nat /\ job.dtype \in DOMAIN SizeOfType
      BY <1>1, LoopIs
    <3>2. CASE job.dtype = "MPI_CHAR"
      BY <2>3, <3>1, <3>2 DEF SizeOfType
    <3>3. CASE job.dtype = "MPI_FLOAT"
      BY <2>3, <3>1, <3>3
    <3>4. CASE job.dtype = "MPI_INT"
      <4>1. width = 4 /\ SizeOfType[job.dtype] = 4
        BY <3>4 DEF SizeOfType
      <4>2. job.len % 4 > 0 => (job.len \div 4) + 1 \in 1 .. job.len
        BY <3>1
      <4> QED
        BY <1>2, <2>3, <3>1, <3>4, <4>1, <4>2 DEF InPart
    <3> QED
      BY <3>1, <3>2, <3>3, <3>4 DEF SizeOfType
  <2>6. verd = IF \/ \E k \in 1 .. whole : buffer[k] # MessageValue(job, k, iter)
                  \/ /\ job.len % width > 0
                     /\ low(buffer[whole + 1]) # low(MessageValue(job, whole + 1, iter))
               THEN 1 ELSE 0
    BY <2>2 DEF ValidateMessage
  <2>7. Looked(r) = C \cup {k \in 1 .. job.len : InPart(k)}
    BY DEF Looked
  <2> HIDE DEF C, value, verd, width, whole, low
  <2>8. ASSUME Agrees(r, buffer) PROVE verd = 0
    <3>1. \A k \in Looked(r) : buffer[k] = value(k)
      BY <2>8 DEF Agrees, value
    <3>2. \A k \in 1 .. whole : buffer[k] = MessageValue(job, k, iter)
      BY <2>4, <2>5, <2>7, <3>1
    <3>3. job.len % width > 0 => buffer[whole + 1] = MessageValue(job, whole + 1, iter)
      BY <2>4, <2>5, <2>7, <3>1
    <3> QED
      BY <2>6, <3>2, <3>3
  <2>9. ASSUME ~Matches(job, r, n, iter, buffer) PROVE verd = 1
    <3>1. \E k \in C : buffer[k] # value(k)
      BY <2>9 DEF Matches, C, value
    <3> QED
      BY <2>4, <2>5, <2>6, <3>1
  <2> QED
    BY <2>8, <2>9 DEF verd
<1>3. ASSUME job.bench = "COLLECTIVE"
      PROVE  verd = IF Matches(job, r, n, iter, buffer) THEN 0 ELSE 1
  <2>0. job.subtype \in Moving \cup Neighbors \cup {"REDUCE_SCATTER"} /\ job.bench # "PT2PT"
    BY <1>1, <1>3, LoopIs
  <2>1. CASE job.subtype = "REDUCE_SCATTER"
    <3>1. verd = ValidateReduceScatter(job, r, buffer, iter)
      BY <2>0, <2>1 DEF ValidateData, Neighborhood, Neighbors
    <3> DEFINE D == FirstOf(job, r) .. RecvCounts(job)[r] - 1
    <3>2. C = {i + 1 : i \in D}
      BY <2>0, <2>1 DEF Compared, Neighbors
    <3>3. \A k : value(k) = AssignToType((((k - 1) % 100) + 1) * (iter + 1) * job.np, job.dtype)
      BY <2>0, <2>1 DEF Expected
    <3>4. \A i \in D : (i + 1) - 1 = i
      <4>1. FirstOf(job, r) \in Nat /\ RecvCounts(job)[r] \in Nat
        BY <1>1, FirstIs, LoopIs DEF Procs
      <4> QED
        BY <4>1
    <3>5. verd = IF \E i \in D : buffer[i + 1] # AssignToType(((i % 100) + 1) * (iter + 1) * job.np, job.dtype)
                 THEN 1 ELSE 0
      BY <3>1 DEF ValidateReduceScatter
    <3> HIDE DEF C, D, value, verd
    <3>6. \A i \in D : value(i + 1) = AssignToType(((i % 100) + 1) * (iter + 1) * job.np, job.dtype)
      BY <3>3, <3>4
    <3>7. (\E i \in D : buffer[i + 1] # AssignToType(((i % 100) + 1) * (iter + 1) * job.np, job.dtype))
             <=> \E k \in C : buffer[k] # value(k)
      BY <3>2, <3>6
    <3>8. verd = IF \E k \in C : buffer[k] # value(k) THEN 1 ELSE 0
      BY <3>5, <3>7
    <3> QED
      BY <3>8 DEF Matches, C, value, verd
  <2>2. CASE job.subtype \in Neighbors
    <3>1. verd = ValidateNeighborhoodCol(job, r, n, buffer, iter)
      BY <2>2 DEF Neighborhood
    <3>2. C = 1 .. n.indegree
      BY <2>0, <2>2 DEF Compared, Neighbors
    <3> DEFINE v1 == IF job.subtype = "NHBR_GATHER" THEN 0 ELSE r
    <3>3. \A k : value(k) = AssignToType(n.sources[k] + v1 + iter + 1, job.dtype)
      <4>1. CASE job.subtype = "NHBR_GATHER"
        BY <2>0, <4>1 DEF Expected
      <4>2. CASE job.subtype = "NHBR_ALLTOALL"
        BY <2>0, <4>2 DEF Expected
      <4> QED
        BY <2>2, <4>1, <4>2 DEF Neighbors
    <3>4. verd = IF \E l \in 1 .. n.indegree :
                      buffer[l] # AssignToType(n.sources[l] + v1 + iter + 1, job.dtype) THEN 1 ELSE 0
      BY <3>1 DEF ValidateNeighborhoodCol
    <3> HIDE DEF C, value, verd, v1
    <3>5. verd = IF \E k \in C : buffer[k] # value(k) THEN 1 ELSE 0
      BY <3>2, <3>3, <3>4
    <3> QED
      BY <3>5 DEF Matches, C, value, verd
  <2>3. CASE job.subtype = "ALLTOALL"
    <3>1. verd = ValidateCollective(buffer, r, job.np, iter, job.dtype)
      BY <2>0, <2>3 DEF ValidateData, Neighborhood, Neighbors
    <3>2. C = IF job.dtype = "MPI_FLOAT" THEN {1} ELSE 1 .. job.np
      BY <2>0, <2>3 DEF Compared, Neighbors
    <3>3. \A k : value(k) = CollectiveValue(job, r, job.np, iter, k - 1)
      BY <2>0, <2>3 DEF Expected
    <3> HIDE DEF C, value, verd
    <3>4. Compares(job, buffer, r, job.np, iter, C)
      BY ONLY <1>1, <3>2, CollectiveCompares
    <3>5. verd = IF \A k \in C : buffer[k] = value(k) THEN 0 ELSE 1
      BY <3>1, <3>3, <3>4 DEF Compares
    <3> QED
      BY <3>5 DEF Matches, C, value, verd
  <2>4. CASE job.subtype \in {"GATHER", "ALL_GATHER"}
    <3>1. verd = ValidateCollective(buffer, 0, job.np, iter, job.dtype)
      BY <2>0, <2>4 DEF ValidateData, Neighborhood, Neighbors
    <3>2. C = IF job.dtype = "MPI_FLOAT" THEN {1} ELSE 1 .. job.np
      BY <2>0, <2>4 DEF Compared, Neighbors
    <3>3. \A k : value(k) = CollectiveValue(job, 0, job.np, iter, k - 1)
      BY <2>0, <2>4 DEF Expected
    <3> HIDE DEF C, value, verd
    <3>4. Compares(job, buffer, 0, job.np, iter, C)
      BY ONLY <1>1, <3>2, CollectiveCompares
    <3>5. verd = IF \A k \in C : buffer[k] = value(k) THEN 0 ELSE 1
      BY <3>1, <3>3, <3>4 DEF Compares
    <3> QED
      BY <3>5 DEF Matches, C, value, verd
  <2>5. CASE job.subtype = "SCATTER"
    <3>1. verd = ValidateCollective(buffer, r, 1, iter, job.dtype)
      BY <2>0, <2>5 DEF ValidateData, Neighborhood, Neighbors
    <3>2. C = {1}
      BY <2>0, <2>5 DEF Compared, Neighbors
    <3>3. C = IF job.dtype = "MPI_FLOAT" THEN {1} ELSE 1 .. 1
      BY <3>2
    <3>4. \A k : value(k) = CollectiveValue(job, r, 1, iter, k - 1)
      BY <2>0, <2>5 DEF Expected
    <3> HIDE DEF C, value, verd
    <3>5. Compares(job, buffer, r, 1, iter, C)
      BY ONLY <1>1, <3>3, CollectiveCompares
    <3>6. verd = IF \A k \in C : buffer[k] = value(k) THEN 0 ELSE 1
      BY <3>1, <3>4, <3>5 DEF Compares
    <3> QED
      BY <3>6 DEF Matches, C, value, verd
  <2>6. CASE job.subtype = "BCAST"
    <3>1. verd = ValidateCollective(buffer, 1, 1, iter, job.dtype)
      BY <2>0, <2>6 DEF ValidateData, Neighborhood, Neighbors
    <3>2. C = {1}
      BY <2>0, <2>6 DEF Compared, Neighbors
    <3>3. C = IF job.dtype = "MPI_FLOAT" THEN {1} ELSE 1 .. 1
      BY <3>2
    <3>4. \A k : value(k) = CollectiveValue(job, 1, 1, iter, k - 1)
      BY <2>0, <2>6 DEF Expected
    <3> HIDE DEF C, value, verd
    <3>5. Compares(job, buffer, 1, 1, iter, C)
      BY ONLY <1>1, <3>3, CollectiveCompares
    <3>6. verd = IF \A k \in C : buffer[k] = value(k) THEN 0 ELSE 1
      BY <3>1, <3>4, <3>5 DEF Compares
    <3> QED
      BY <3>6 DEF Matches, C, value, verd
  <2> QED
    BY <2>0, <2>1, <2>2, <2>3, <2>4, <2>5, <2>6 DEF Moving
<1>4. Agrees(r, buffer) => Matches(job, r, n, iter, buffer)
  BY DEF Agrees, Looked, Matches
<1>5. v = verd
  OBVIOUS
<1> HIDE DEF C, value, verd
<1> QED
  BY <1>1, <1>2, <1>3, <1>4, <1>5, LoopIs

(***************************************************************************)
(* What the operation delivers when it is right is what is expected: where *)
(* a block comes from decides its value, and the formulas of set_buffer_*  *)
(* and validate_* give the same number for it.                             *)
(***************************************************************************)
Supplied == Ready /\ \A q \in Procs : Filled(job, q, nbr[q], iter, bufs[q])

Delivers(r, k) ==
  /\ k \in 1 .. SlotsOf(job, nbr[r])
  /\ Received(r)[k] = Expected(job, r, nbr[r], iter, k)

LEMMA ReceivedAt ==
  ASSUME Supplied, NEW r \in Procs, ~(job.subtype = "SCATTER" /\ job.in_place /\ r = Root),
         NEW k \in 1 .. SlotsOf(job, nbr[r])
  PROVE  Received(r)[k] = IF k \in DOMAIN Route(r) THEN Arriving(bufs, Route(r)[k][1], Route(r)[k][2])
                          ELSE bufs[r].r[k]
<1>1. DOMAIN bufs[r].r = 1 .. SlotsOf(job, nbr[r])
  BY DEF Supplied, Filled
<1> DEFINE put == [b \in DOMAIN bufs[r].r |->
                     IF b \in DOMAIN Route(r) THEN Arriving(bufs, Route(r)[b][1], Route(r)[b][2])
                     ELSE bufs[r].r[b]]
<1>2. Received(r) = put
  BY DEF Received
<1> QED
  BY <1>1, <1>2

LEMMA ArrivingAt ==
  ASSUME Supplied, ~Reduces, NEW s \in Procs, NEW k \in 1 .. BlocksOf(job, nbr[s])
  PROVE  Arriving(bufs, s, k) = SentValue(job, s, nbr[s], iter, k)
<1>1. Arriving(bufs, s, k) = Sent(bufs, s)[k]
  BY DEF Arriving
<1>2. Sent(bufs, s) = IF InPlaceSent(job) THEN bufs[s].r ELSE bufs[s].s
  BY DEF Sent, InPlaceSent
<1>3. Sent(bufs, s) = [i \in 1 .. BlocksOf(job, nbr[s]) |-> SentValue(job, s, nbr[s], iter, i)]
  BY <1>2 DEF Supplied, Filled
<1> QED
  BY <1>1, <1>3

\* Block i of the np blocks of rank s; the only one, which is numbered like the
\* first of as many blocks as there are ranks.
BlockValue(j, s, np, i, it) == AssignToType(FillValue(s, np, i, it), j.dtype)
OnlyValue(j, s, np, it) == AssignToType(FillValue(s * np, 1, 0, it), j.dtype)

\* Block i of rank s among np blocks is what rank i expects from rank s.
LEMMA ValuesAgree ==
  ASSUME NEW np \in Nat, NEW s \in Nat, NEW i \in Nat, NEW it \in Nat, NEW j
  PROVE  /\ BlockValue(j, s, np, i, it) = CollectiveValue(j, i, np, it, s)
         /\ OnlyValue(j, s, np, it) = CollectiveValue(j, 0, np, it, s)
         /\ BlockValue(j, 0, np, i, it) = CollectiveValue(j, i, 1, it, 0)
         /\ BlockValue(j, 1, 1, 0, it) = CollectiveValue(j, 1, 1, it, 0)
<1>1. \A a, b, c \in Nat : (a + 1) * (b + 1) * (c + 1) = (a + 1) * (c + 1) * (b + 1)
  OBVIOUS
<1>2. s * np \in Nat /\ 0 * np = 0 /\ s * np * 1 = s * np /\ 0 * 1 = 0 /\ 1 * 1 = 1
  OBVIOUS
<1>3. FillValue(s, np, i, it) = s * np + i + (it + 1) * (i + 1) * (s * np + 1)
  <2>1. (it + 1) * (s * np + 1) * (i + 1) = (it + 1) * (i + 1) * (s * np + 1)
    BY ONLY <1>1, <1>2, it \in Nat, i \in Nat
  <2> QED
    BY <2>1 DEF FillValue
<1>4. FillValue(s * np, 1, 0, it) = s * np + 0 + (it + 1) * (0 + 1) * (s * np + 1)
  <2>1. (it + 1) * (s * np + 1) * (0 + 1) = (it + 1) * (0 + 1) * (s * np + 1)
    BY ONLY <1>1, <1>2, it \in Nat
  <2> QED
    BY <1>2, <2>1 DEF FillValue
<1>5. FillValue(0, np, i, it) = 0 * 1 + i + (it + 1) * (i + 1) * (0 * 1 + 1)
  <2>1. (it + 1) * (0 + 1) * (i + 1) = (it + 1) * (i + 1) * (0 + 1)
    BY ONLY <1>1, it \in Nat, i \in Nat
  <2> QED
    BY <1>2, <2>1 DEF FillValue
<1>6. FillValue(1, 1, 0, it) = 0 * 1 + 1 + (it + 1) * (1 + 1) * (0 * 1 + 1)
  <2>1. 1 * 1 + 0 = 0 * 1 + 1
    OBVIOUS
  <2> QED
    BY <1>2, <2>1 DEF FillValue
<1> QED
  BY <1>3, <1>4, <1>5, <1>6 DEF CollectiveValue, BlockValue, OnlyValue

\* A job of the loop, as the lemmas about one operation need it.
LEMMA InTheLoop ==
  ASSUME Supplied, NEW r \in Procs
  PROVE  /\ job.np \in Nat \ {0} /\ job.np \in Nat /\ job.len \in Nat /\ iter \in Nat /\ r \in Nat
         /\ Root \in Procs /\ Procs = 0 .. job.np - 1
         /\ job.dtype \in DOMAIN SizeOfType /\ job.in_place \in BOOLEAN
         /\ \A q \in Procs : /\ Filled(job, q, nbr[q], iter, bufs[q])
                             /\ InLoop(job, q, nbr[q], iter)
                             /\ q \in Nat /\ q + 1 \in 1 .. job.np
         /\ \A k \in 1 .. job.np : k - 1 \in Procs /\ k - 1 \in Nat /\ (k - 1) + 1 = k
         /\ job.bench = "COLLECTIVE" =>
              job.subtype \in Moving \cup Neighbors \cup {"REDUCE_SCATTER"} /\ job.bench # "PT2PT"
<1>1. Ready /\ job \in Jobs /\ iter \in Nat
  BY DEF Supplied, Ready
<1>2. job.np \in Nat \ {0} /\ job.len \in Nat /\ job.dtype \in DOMAIN SizeOfType /\ job.in_place \in BOOLEAN
  BY <1>1, JobIs DEF WellMade
<1>3. Root \in Procs /\ Procs = 0 .. job.np - 1 /\ \A q \in Procs : InLoop(job, q, nbr[q], iter)
  BY <1>1, ReadyIs
<1>4. \A q \in Procs : Filled(job, q, nbr[q], iter, bufs[q])
  BY DEF Supplied
<1>5. job.bench = "COLLECTIVE" => job.subtype \in Moving \cup Neighbors \cup {"REDUCE_SCATTER"}
  BY <1>3, LoopIs
<1> QED
  BY <1>1, <1>2, <1>3, <1>4, <1>5

LEMMA DeliversAlltoall ==
  ASSUME Supplied, job.bench = "COLLECTIVE", job.subtype = "ALLTOALL",
         NEW r \in Procs, NEW k \in 1 .. job.np
  PROVE  Delivers(r, k)
<1> DEFINE s == k - 1
<1>1. s \in Procs /\ s \in Nat /\ s + 1 = k /\ r \in Nat /\ r + 1 \in 1 .. job.np
      /\ job.np \in Nat /\ iter \in Nat /\ job.bench # "PT2PT" /\ (r + 1) - 1 = r
      /\ Filled(job, r, nbr[r], iter, bufs[r])
  <2>1. r \in Nat /\ job.np \in Nat /\ Procs = 0 .. job.np - 1
    BY InTheLoop
  <2>2. s \in Procs /\ s \in Nat /\ s + 1 = k /\ r + 1 \in 1 .. job.np /\ (r + 1) - 1 = r
    BY <2>1
  <2> QED
    BY <2>1, <2>2, InTheLoop
<1>2. /\ SlotsOf(job, nbr[r]) = job.np /\ ~Reduces
      /\ \A q : BlocksOf(job, nbr[q]) = job.np
  BY <1>1 DEF SlotsOf, BlocksOf, Neighbors, Reduces
<1>3. \A q, b : SentValue(job, q, nbr[q], iter, b) = BlockValue(job, q, job.np, b - 1, iter)
  BY <1>1 DEF SentValue, BlockValue, OnlyValue
<1>4. Expected(job, r, nbr[r], iter, k) = CollectiveValue(job, r, job.np, iter, s)
  BY <1>1 DEF Expected
<1>5. BlockValue(job, s, job.np, r, iter) = CollectiveValue(job, r, job.np, iter, s)
  BY ONLY <1>1, ValuesAgree, 0 \in Nat
<1>6. Route(r) = [b \in {q + 1 : q \in Others(r)} |-> <<b - 1, r + 1>>]
  BY RouteMoves
<1>7. k \in DOMAIN Route(r) <=> s \in Others(r)
  <2>1. \A q \in Others(r) : q \in Int
    BY InTheLoop DEF Others
  <2> QED
    BY <1>1, <1>6, <2>1
<1>8. Received(r)[k] = IF k \in DOMAIN Route(r) THEN Arriving(bufs, Route(r)[k][1], Route(r)[k][2])
                       ELSE bufs[r].r[k]
  BY <1>2, ReceivedAt
<1> HIDE DEF s
<1>9. CASE s \in Others(r)
  <2>1. Route(r)[k] = <<s, r + 1>>
    BY <1>6, <1>7, <1>9 DEF s
  <2>2. Arriving(bufs, s, r + 1) = BlockValue(job, s, job.np, r, iter)
    BY <1>1, <1>2, <1>3, ArrivingAt
  <2> QED
    BY <1>2, <1>4, <1>5, <1>7, <1>8, <1>9, <2>1, <2>2 DEF Delivers
<1>10. CASE s \notin Others(r)
  <2>1. s = r /\ job.in_place
    BY <1>1, <1>10 DEF Others
  <2>2. bufs[r].r = [b \in 1 .. job.np |-> SentValue(job, r, nbr[r], iter, b)]
    BY <1>1, <1>2, <2>1 DEF Filled, InPlaceSent
  <2>3. k = r + 1 /\ k - 1 = r
    BY <1>1, <2>1
  <2>4. bufs[r].r[k] = SentValue(job, r, nbr[r], iter, k)
    BY <2>2
  <2>5. bufs[r].r[k] = BlockValue(job, r, job.np, k - 1, iter)
    BY <1>3, <2>4
  <2> QED
    BY <1>2, <1>4, <1>5, <1>7, <1>8, <1>10, <2>1, <2>3, <2>5 DEF Delivers
<1> QED
  BY <1>9, <1>10

LEMMA DeliversGather ==
  ASSUME Supplied, job.bench = "COLLECTIVE", job.subtype = "GATHER", NEW k \in 1 .. job.np
  PROVE  Delivers(Root, k)
<1> DEFINE s == k - 1
<1>0. Root \in Procs
  <2>1. Ready
    BY DEF Supplied
  <2> QED
    BY <2>1, ReadyIs
<1>1. s \in Procs /\ s \in Nat /\ s + 1 = k /\ Root \in Nat
      /\ job.np \in Nat /\ iter \in Nat /\ job.bench # "PT2PT"
      /\ Filled(job, Root, nbr[Root], iter, bufs[Root])
  BY <1>0, InTheLoop
<1>2. /\ SlotsOf(job, nbr[Root]) = job.np /\ ~Reduces
      /\ \A q : BlocksOf(job, nbr[q]) = 1 /\ 1 \in 1 .. BlocksOf(job, nbr[q])
  BY <1>1 DEF SlotsOf, BlocksOf, Neighbors, Reduces
<1>3. \A q, b : SentValue(job, q, nbr[q], iter, b) = OnlyValue(job, q, job.np, iter)
  BY <1>1 DEF SentValue, BlockValue, OnlyValue
<1>4. Expected(job, Root, nbr[Root], iter, k) = CollectiveValue(job, 0, job.np, iter, s)
  BY <1>1 DEF Expected
<1>5. OnlyValue(job, s, job.np, iter) = CollectiveValue(job, 0, job.np, iter, s)
  BY ONLY <1>1, ValuesAgree, 0 \in Nat
<1>6. Route(Root) = [b \in {q + 1 : q \in Others(Root)} |-> <<b - 1, 1>>]
  BY RouteMoves
<1>7. k \in DOMAIN Route(Root) <=> s \in Others(Root)
  <2>1. \A q \in Others(Root) : q \in Int
    BY <1>0, InTheLoop DEF Others
  <2> QED
    BY <1>1, <1>6, <2>1
<1>8. Received(Root)[k]
        = IF k \in DOMAIN Route(Root) THEN Arriving(bufs, Route(Root)[k][1], Route(Root)[k][2])
          ELSE bufs[Root].r[k]
  BY <1>0, <1>2, ReceivedAt
<1> HIDE DEF s
<1>9. CASE s \in Others(Root)
  <2>1. Route(Root)[k] = <<s, 1>>
    BY <1>6, <1>7, <1>9 DEF s
  <2>2. Arriving(bufs, s, 1) = OnlyValue(job, s, job.np, iter)
    BY <1>1, <1>2, <1>3, ArrivingAt
  <2> QED
    BY <1>2, <1>4, <1>5, <1>7, <1>8, <1>9, <2>1, <2>2 DEF Delivers
<1>10. CASE s \notin Others(Root)
  <2>1. s = Root /\ job.in_place
    BY <1>1, <1>10 DEF Others
  <2>2. bufs[Root].r[Root + 1] = OnlyValue(job, Root, job.np, iter)
    BY <1>1, <1>3, <2>1 DEF Filled
  <2> QED
    BY <1>1, <1>2, <1>4, <1>5, <1>7, <1>8, <1>10, <2>1, <2>2 DEF Delivers
<1> QED
  BY <1>9, <1>10

LEMMA DeliversAllGather ==
  ASSUME Supplied, job.bench = "COLLECTIVE", job.subtype = "ALL_GATHER",
         NEW r \in Procs, NEW k \in 1 .. job.np
  PROVE  Delivers(r, k)
<1> DEFINE s == k - 1
<1>1. s \in Procs /\ s \in Nat /\ s + 1 = k /\ r \in Nat
      /\ job.np \in Nat /\ iter \in Nat /\ job.bench # "PT2PT"
      /\ Filled(job, r, nbr[r], iter, bufs[r])
  BY InTheLoop
<1>2. /\ SlotsOf(job, nbr[r]) = job.np /\ ~Reduces
      /\ \A q : BlocksOf(job, nbr[q]) = IF job.in_place THEN job.np ELSE 1
  BY <1>1 DEF SlotsOf, BlocksOf, Neighbors, Reduces
<1>3. \A q, b : ~job.in_place \/ b = q + 1 =>
        SentValue(job, q, nbr[q], iter, b) = OnlyValue(job, q, job.np, iter)
  BY <1>1 DEF SentValue, BlockValue, OnlyValue
<1>4. Expected(job, r, nbr[r], iter, k) = CollectiveValue(job, 0, job.np, iter, s)
  BY <1>1 DEF Expected
<1>5. OnlyValue(job, s, job.np, iter) = CollectiveValue(job, 0, job.np, iter, s)
  BY ONLY <1>1, ValuesAgree, 0 \in Nat
<1> DEFINE at(b) == IF job.in_place THEN (b - 1) + 1 ELSE 1
<1>6. Route(r) = [b \in {q + 1 : q \in Others(r)} |-> <<b - 1, at(b)>>]
  BY RouteMoves
<1>7. k \in DOMAIN Route(r) <=> s \in Others(r)
  <2>1. \A q \in Others(r) : q \in Int
    BY InTheLoop DEF Others
  <2> HIDE DEF at
  <2> QED
    BY <1>1, <1>6, <2>1
<1>8. Received(r)[k] = IF k \in DOMAIN Route(r) THEN Arriving(bufs, Route(r)[k][1], Route(r)[k][2])
                       ELSE bufs[r].r[k]
  BY <1>2, ReceivedAt
<1>9. at(k) = IF job.in_place THEN k ELSE 1
  BY <1>1
<1> HIDE DEF s, at
<1>10. CASE s \in Others(r)
  <2>1. Route(r)[k] = <<s, at(k)>>
    BY <1>6, <1>7, <1>10 DEF s
  <2>2. at(k) \in 1 .. BlocksOf(job, nbr[s]) /\ (~job.in_place \/ at(k) = s + 1)
    BY <1>1, <1>2, <1>9
  <2>3. Arriving(bufs, s, at(k)) = OnlyValue(job, s, job.np, iter)
    BY <1>1, <1>2, <1>3, <2>2, ArrivingAt
  <2> QED
    BY <1>2, <1>4, <1>5, <1>7, <1>8, <1>10, <2>1, <2>3 DEF Delivers
<1>11. CASE s \notin Others(r)
  <2>1. s = r /\ job.in_place
    BY <1>1, <1>11 DEF Others
  <2>2. bufs[r].r = [b \in 1 .. job.np |-> SentValue(job, r, nbr[r], iter, b)]
    BY <1>1, <1>2, <2>1 DEF Filled, InPlaceSent
  <2>3. bufs[r].r[k] = OnlyValue(job, s, job.np, iter)
    BY <1>1, <1>3, <2>1, <2>2
  <2> QED
    BY <1>2, <1>4, <1>5, <1>7, <1>8, <1>11, <2>3 DEF Delivers
<1> QED
  BY <1>10, <1>11

LEMMA DeliversScatter ==
  ASSUME Supplied, job.bench = "COLLECTIVE", job.subtype = "SCATTER", NEW r \in Procs
  PROVE  Delivers(r, 1)
<1>1. /\ Root \in Procs /\ Root \in Nat /\ Root + 1 \in 1 .. job.np /\ (Root + 1) - 1 = Root
      /\ r \in Nat /\ r + 1 \in 1 .. job.np /\ (r + 1) - 1 = r /\ 0 \in Nat /\ 1 - 1 = 0
      /\ job.np \in Nat /\ job.np \in Nat \ {0} /\ iter \in Nat /\ job.bench # "PT2PT"
      /\ Filled(job, r, nbr[r], iter, bufs[r])
  <2>1. r \in Nat /\ Root \in Procs /\ Procs = 0 .. job.np - 1 /\ job.np \in Nat
    BY InTheLoop
  <2>2. /\ Root \in Nat /\ Root + 1 \in 1 .. job.np /\ (Root + 1) - 1 = Root
        /\ r + 1 \in 1 .. job.np /\ (r + 1) - 1 = r
    BY <2>1
  <2> QED
    BY <2>1, <2>2, InTheLoop
<1>2. /\ SlotsOf(job, nbr[r]) = (IF job.in_place THEN job.np ELSE 1) /\ ~Reduces
      /\ \A q : BlocksOf(job, nbr[q]) = job.np
      /\ 1 \in 1 .. SlotsOf(job, nbr[r])
  BY <1>1 DEF SlotsOf, BlocksOf, Neighbors, Reduces
<1>3. \A q, b : SentValue(job, q, nbr[q], iter, b) = BlockValue(job, 0, job.np, b - 1, iter)
  BY <1>1 DEF SentValue, BlockValue
<1>4. Expected(job, r, nbr[r], iter, 1) = CollectiveValue(job, r, 1, iter, 0)
  BY <1>1 DEF Expected
<1>5. BlockValue(job, 0, job.np, r, iter) = CollectiveValue(job, r, 1, iter, 0)
  BY ONLY <1>1, ValuesAgree
<1>6. CASE job.in_place /\ r = Root
  <2> DEFINE put == [b \in DOMAIN bufs[r].r |->
                       IF b \in DOMAIN Route(r) THEN Arriving(bufs, Route(r)[b][1], Route(r)[b][2])
                       ELSE bufs[r].r[b]]
  <2>1. Received(r) = [put EXCEPT ![1] = put[Root + 1]]
    BY <1>6 DEF Received, ScatterOffsetCopy
  <2>2. bufs[r].r = [b \in 1 .. job.np |-> SentValue(job, r, nbr[r], iter, b)]
    BY <1>1, <1>2, <1>6 DEF Filled, InPlaceSent
  <2>3. DOMAIN Route(r) = {}
    BY <1>6, RouteMoves
  <2>4. put[Root + 1] = bufs[r].r[Root + 1] /\ 1 \in DOMAIN put
    BY <1>1, <2>2, <2>3
  <2>5. bufs[r].r[Root + 1] = BlockValue(job, 0, job.np, r, iter)
    <3>1. bufs[r].r[Root + 1] = SentValue(job, r, nbr[r], iter, Root + 1)
      BY <1>1, <2>2
    <3>2. SentValue(job, r, nbr[r], iter, Root + 1) = BlockValue(job, 0, job.np, (Root + 1) - 1, iter)
      BY <1>3
    <3> QED
      BY <1>1, <1>6, <3>1, <3>2
  <2> HIDE DEF put
  <2>6. Received(r)[1] = BlockValue(job, 0, job.np, r, iter)
    BY <2>1, <2>4, <2>5
  <2> QED
    BY <1>2, <1>4, <1>5, <2>6 DEF Delivers
<1>7. CASE ~(job.in_place /\ r = Root)
  <2>1. Route(r) = [b \in {1} |-> <<Root, r + 1>>]
    BY <1>7, RouteMoves
  <2>2. Received(r)[1] = Arriving(bufs, Root, r + 1)
    BY <1>2, <1>7, <2>1, ReceivedAt
  <2>3. Arriving(bufs, Root, r + 1) = SentValue(job, Root, nbr[Root], iter, r + 1)
    BY <1>1, <1>2, ArrivingAt
  <2>4. SentValue(job, Root, nbr[Root], iter, r + 1) = BlockValue(job, 0, job.np, (r + 1) - 1, iter)
    BY <1>3
  <2> QED
    BY <1>1, <1>2, <1>4, <1>5, <2>2, <2>3, <2>4 DEF Delivers
<1> QED
  BY <1>6, <1>7

LEMMA DeliversBcast ==
  ASSUME Supplied, job.bench = "COLLECTIVE", job.subtype = "BCAST", Root = 0, NEW r \in Procs
  PROVE  Delivers(r, 1)
<1>1. /\ Root \in Procs /\ 0 \in Procs /\ 1 - 1 = 0 /\ 1 \in Nat /\ 0 \in Nat
      /\ iter \in Nat /\ job.bench # "PT2PT" /\ Filled(job, r, nbr[r], iter, bufs[r])
  BY InTheLoop
<1>2. /\ SlotsOf(job, nbr[r]) = 1 /\ ~Reduces /\ 1 \in 1 .. SlotsOf(job, nbr[r])
      /\ \A q : BlocksOf(job, nbr[q]) = 1 /\ 1 \in 1 .. BlocksOf(job, nbr[q])
  BY <1>1 DEF SlotsOf, BlocksOf, Neighbors, Reduces
<1>3. SentValue(job, 0, nbr[0], iter, 1) = BlockValue(job, 1, 1, 0, iter)
  BY <1>1 DEF SentValue, BlockValue
<1>4. Expected(job, r, nbr[r], iter, 1) = CollectiveValue(job, 1, 1, iter, 0)
  BY <1>1 DEF Expected
<1>5. BlockValue(job, 1, 1, 0, iter) = CollectiveValue(job, 1, 1, iter, 0)
  BY ONLY <1>1, ValuesAgree
<1>6. Route(r) = [b \in IF r = Root THEN {} ELSE {1} |-> <<Root, 1>>]
  BY RouteMoves
<1>7. Received(r)[1] = IF r = 0 THEN bufs[r].r[1] ELSE Arriving(bufs, 0, 1)
  BY <1>2, <1>6, ReceivedAt
<1>8. CASE r = 0
  <2>1. bufs[r].r = [b \in 1 .. 1 |-> SentValue(job, r, nbr[r], iter, b)]
    BY <1>1, <1>2 DEF Filled, InPlaceSent
  <2>2. bufs[r].r[1] = SentValue(job, 0, nbr[0], iter, 1)
    BY <1>8, <2>1
  <2> QED
    BY <1>2, <1>3, <1>4, <1>5, <1>7, <1>8, <2>2 DEF Delivers
<1>9. CASE r # 0
  <2>1. Arriving(bufs, 0, 1) = SentValue(job, 0, nbr[0], iter, 1)
    BY <1>1, <1>2, ArrivingAt
  <2> QED
    BY <1>2, <1>3, <1>4, <1>5, <1>7, <1>9, <2>1 DEF Delivers
<1> QED
  BY <1>8, <1>9

LEMMA DeliversMessage ==
  ASSUME Supplied, job.bench = "PT2PT", KnownLetters, NEW r \in Procs, NEW k \in 1 .. job.len
  PROVE  Delivers(r, k)
<1>1. /\ job.subtype \in {"LAT", "MBW_MR"} /\ job.np % 2 = 0 /\ job.np \in Nat
      /\ Procs = 0 .. job.np - 1 /\ ~Reduces
  BY InTheLoop, LoopIs DEF Reduces
<1>2. SlotsOf(job, nbr[r]) = job.len /\ \A q : BlocksOf(job, nbr[q]) = job.len
  BY <1>1 DEF SlotsOf, BlocksOf, Neighbors
<1>3. Partner(r) \in Procs
  BY <1>1 DEF Partner, Pairs
<1>4. Copies(job, Partner(r))
  BY DEF Copies, Letter, KnownLetters
<1>5. SentValue(job, Partner(r), nbr[Partner(r)], iter, k) = MessageValue(job, k, iter)
  BY <1>1, <1>4 DEF SentValue
<1>6. Expected(job, r, nbr[r], iter, k) = MessageValue(job, k, iter)
  BY <1>1 DEF Expected
<1>7. Route(r) = [i \in 1 .. job.len |-> <<Partner(r), i>>]
  BY <1>1, RouteMessage
<1>8. Received(r)[k] = Arriving(bufs, Partner(r), k)
  <2>1. ~(job.subtype = "SCATTER" /\ job.in_place /\ r = Root)
    BY <1>1
  <2>2. k \in DOMAIN Route(r) /\ Route(r)[k] = <<Partner(r), k>>
    BY <1>7
  <2>3. k \in 1 .. SlotsOf(job, nbr[r])
    BY <1>2
  <2> QED
    BY <2>1, <2>2, <2>3, ReceivedAt
<1>9. Arriving(bufs, Partner(r), k) = SentValue(job, Partner(r), nbr[Partner(r)], iter, k)
  BY <1>1, <1>2, <1>3, ArrivingAt
<1> QED
  BY <1>2, <1>5, <1>6, <1>8, <1>9 DEF Delivers

\* The sum of equal contributions, and the same where a character wraps.
LEMMA SumsAgree ==
  ASSUME NEW n \in Nat, NEW x \in Nat, NEW dtype \in DOMAIN SizeOfType
  PROVE  (IF dtype = "MPI_CHAR" THEN (n * AssignToType(x, dtype)) % CharRange
          ELSE n * AssignToType(x, dtype)) = AssignToType(x * n, dtype)
<1>1. CASE dtype = "MPI_CHAR"
  <2> DEFINE y == (7 * x) % 256
             z == (7 * x) \div 256
  <2>1. 7 * x = 256 * z + y /\ y \in Nat /\ z \in Nat
    OBVIOUS
  <2> HIDE DEF y, z
  <2>2. 7 * (x * n) = (n * z) * 256 + n * y
    <3>1. 7 * (x * n) = n * (7 * x)
      OBVIOUS
    <3>2. n * (256 * z + y) = (n * z) * 256 + n * y
      BY <2>1
    <3> QED
      BY <2>1, <3>1, <3>2
  <2>3. n * z \in Nat /\ n * y \in Nat
    BY <2>1
  <2>4. \A a, b \in Nat : (a * 256 + b) % 256 = b % 256
    OBVIOUS
  <2>5. (7 * (x * n)) % 256 = (n * y) % 256
    <3>1. ((n * z) * 256 + n * y) % 256 = (n * y) % 256
      BY ONLY <2>3, <2>4
    <3> QED
      BY ONLY <2>2, <3>1
  <2> QED
    BY <1>1, <2>5 DEF AssignToType, CharMultiplier, CharRange, y
<1>2. CASE dtype = "MPI_INT"
  <2>1. n * (x * 10) = (x * n) * 10
    OBVIOUS
  <2> QED
    BY <1>2, <2>1 DEF AssignToType, IntMultiplier
<1>3. CASE dtype = "MPI_FLOAT"
  <2>1. n * (x * 2) = (x * n) * 2
    OBVIOUS
  <2> QED
    BY <1>3, <2>1 DEF AssignToType, FloatMultiplier
<1> QED
  BY <1>1, <1>2, <1>3 DEF SizeOfType

LEMMA DeliversReduced ==
  ASSUME Supplied, job.bench = "COLLECTIVE", job.subtype = "REDUCE_SCATTER",
         NEW r \in Procs, NEW k \in Compared(job, r, nbr[r])
  PROVE  Delivers(r, k)
<1>1. /\ job.np \in Nat /\ job.np \in Nat \ {0} /\ job.len \in Nat /\ iter \in Nat
      /\ r \in 0 .. job.np - 1 /\ job.bench # "PT2PT" /\ Reduces
      /\ Procs = 0 .. job.np - 1 /\ job.dtype \in DOMAIN SizeOfType /\ job.in_place \in BOOLEAN
  BY InTheLoop DEF Reduces
<1> DEFINE first == FirstOf(job, r)
           count == RecvCounts(job)[r]
<1>2. /\ count \in Nat /\ first \in Nat /\ first + count <= job.len
      /\ count <= (job.len \div job.np) + 1 /\ FirstOf(job, 0) = 0 /\ (r # 0 => count <= first)
  BY <1>1, FirstIs
<1>3. Compared(job, r, nbr[r]) = {i + 1 : i \in first .. count - 1}
  BY <1>1 DEF Compared, Neighbors
<1>4. SlotsOf(job, nbr[r]) = IF job.in_place THEN job.len ELSE (job.len \div job.np) + 1
  BY <1>1 DEF SlotsOf, Neighbors
<1>5. \A q : BlocksOf(job, nbr[q]) = job.len
  BY <1>1 DEF BlocksOf, Neighbors
<1>6. r = 0 /\ first = 0
  BY <1>2, <1>3
<1> HIDE DEF first, count
<1>7. k \in 1 .. count /\ k \in Nat /\ first + k = k /\ k \in 1 .. job.len /\ k \in 1 .. SlotsOf(job, nbr[r])
      /\ k - 1 \in Nat
  <2>1. PICK i \in first .. count - 1 : k = i + 1
    BY <1>3
  <2>2. i \in Nat /\ k \in 1 .. count
    BY <1>2, <1>6, <2>1
  <2>3. count <= SlotsOf(job, nbr[r]) /\ SlotsOf(job, nbr[r]) \in Nat /\ count <= job.len
    BY <1>1, <1>2, <1>4, <1>6
  <2> QED
    BY <1>1, <1>2, <1>6, <2>2, <2>3
<1> DEFINE x == (((k - 1) % 100) + 1) * (iter + 1)
<1>8. x \in Nat
  <2>1. \A a, b \in Nat : (a + 1) * (b + 1) \in Nat
    OBVIOUS
  <2>2. (k - 1) % 100 \in Nat
    BY <1>7
  <2> QED
    BY <1>1, <2>1, <2>2
<1>9. \A q : SentValue(job, q, nbr[q], iter, k) = AssignToType(x, job.dtype)
  BY <1>1 DEF SentValue, ReduceValue
<1>10. Expected(job, r, nbr[r], iter, k) = AssignToType(x * job.np, job.dtype)
  BY <1>1 DEF Expected
<1> HIDE DEF x
<1>11. Route(r) = [i \in 1 .. count |-> <<r, first + i>>]
  BY RouteMoves DEF first, count
<1>12. Received(r)[k] = Arriving(bufs, r, k)
  <2>1. k \in DOMAIN Route(r) /\ Route(r)[k] = <<r, k>>
    BY <1>7, <1>11
  <2> QED
    BY <1>7, <2>1, ReceivedAt
<1>13. Arriving(bufs, r, k) = SumOver(bufs, Procs, k)
  BY <1>1 DEF Arriving
<1> DEFINE f == [s \in Procs |-> Sent(bufs, s)[k]]
<1>14. ASSUME NEW s \in Procs PROVE Sent(bufs, s)[k] = AssignToType(x, job.dtype)
  <2>1. Sent(bufs, s) = IF InPlaceSent(job) THEN bufs[s].r ELSE bufs[s].s
    BY DEF Sent, InPlaceSent
  <2>2. Sent(bufs, s) = [i \in 1 .. BlocksOf(job, nbr[s]) |-> SentValue(job, s, nbr[s], iter, i)]
    BY <2>1 DEF Supplied, Filled
  <2> QED
    BY <1>5, <1>7, <1>9, <2>2
<1>15. SumFunction(f) = job.np * AssignToType(x, job.dtype)
  <2>1. AssignToType(x, job.dtype) \in Nat
    BY <1>1, <1>8, AssignIsNat
  <2>2. f \in [Procs -> Nat] /\ \A s \in Procs : f[s] = AssignToType(x, job.dtype)
    BY <1>14, <2>1
  <2>3. IsFiniteSet(Procs) /\ Cardinality(Procs) = job.np
    <3>1. Cardinality(0 .. job.np - 1) = (job.np - 1) - 0 + 1 /\ IsFiniteSet(0 .. job.np - 1)
      <4>1. 0 \in Int /\ job.np - 1 \in Int /\ ~(0 > job.np - 1)
        BY <1>1
      <4> QED
        BY ONLY <4>1, FS_Interval
    <3> QED
      BY <1>1, <3>1
  <2> HIDE DEF f
  <2> QED
    BY <2>1, <2>2, <2>3, SumOfEquals
<1>16. SumOver(bufs, Procs, k) = IF job.dtype = "MPI_CHAR" THEN SumFunction(f) % CharRange ELSE SumFunction(f)
  BY DEF SumOver
<1>17. SumOver(bufs, Procs, k) = AssignToType(x * job.np, job.dtype)
  <2> HIDE DEF f
  <2>1. SumOver(bufs, Procs, k)
          = IF job.dtype = "MPI_CHAR" THEN (job.np * AssignToType(x, job.dtype)) % CharRange
            ELSE job.np * AssignToType(x, job.dtype)
    BY <1>15, <1>16
  <2> QED
    BY <1>1, <1>8, <2>1, SumsAgree
<1> QED
  BY <1>7, <1>10, <1>12, <1>13, <1>17 DEF Delivers

LEMMA DeliversNeighbors ==
  ASSUME Supplied, job.bench = "COLLECTIVE", job.subtype \in Neighbors,
         NEW r \in Procs, NEW k \in 1 .. nbr[r].indegree
  PROVE  Delivers(r, k)
<1> DEFINE src == nbr[r].sources
           s == src[k]
<1>1. /\ r \in Nat /\ iter \in Nat /\ job.bench # "PT2PT" /\ ~Reduces
      /\ Procs = 0 .. job.np - 1
  BY InTheLoop DEF Reduces, Neighbors
<1>2. \A q \in Procs : Announced(job.np, nbr[q]) /\ Knows(job, q, nbr[q])
  <2>1. \A q \in Procs : InLoop(job, q, nbr[q], iter)
    BY InTheLoop
  <2> QED
    BY <2>1 DEF InLoop, Supplied, Ready
<1>3. /\ src \in Seq(Procs) /\ k \in 1 .. Len(src) /\ DOMAIN src = 1 .. Len(src)
      /\ nbr[r].indegree = Len(src)
  BY <1>1, <1>2 DEF Announced
<1>4. s \in Procs /\ s \in Nat
  <2>1. s \in Procs
    BY <1>3, ElementOfSeq
  <2> QED
    BY <2>1, InTheLoop
<1>5. SlotsOf(job, nbr[r]) = nbr[r].indegree
  BY <1>1 DEF SlotsOf, Neighbors
<1>6. k \in 1 .. SlotsOf(job, nbr[r]) /\ ~(job.subtype = "SCATTER" /\ job.in_place /\ r = Root)
  BY <1>5 DEF Neighbors
<1>7. CASE job.subtype = "NHBR_GATHER"
  <2>1. Route(r) = [l \in DOMAIN src |-> <<src[l], 1>>]
    BY <1>7, RouteMoves
  <2> HIDE DEF src
  <2>2. k \in DOMAIN Route(r) /\ Route(r)[k] = <<s, 1>>
    BY <1>3, <2>1
  <2> HIDE DEF s
  <2>3. Received(r)[k] = Arriving(bufs, s, 1)
    BY <1>6, <2>2, ReceivedAt
  <2>4. 1 \in 1 .. BlocksOf(job, nbr[s])
    BY <1>1, <1>7 DEF BlocksOf
  <2>5. Arriving(bufs, s, 1) = SentValue(job, s, nbr[s], iter, 1)
    BY <1>1, <1>4, <2>4, ArrivingAt
  <2>6. SentValue(job, s, nbr[s], iter, 1) = AssignToType(s + iter + 1, job.dtype)
    BY <1>1, <1>7 DEF SentValue
  <2>7. Expected(job, r, nbr[r], iter, k) = AssignToType(s + 0 + iter + 1, job.dtype)
    BY <1>1, <1>7 DEF Expected, s, src
  <2>8. s + 0 + iter + 1 = s + iter + 1
    BY <1>1, <1>4
  <2> QED
    BY <1>6, <2>3, <2>5, <2>6, <2>7, <2>8 DEF Delivers
<1>8. CASE job.subtype = "NHBR_ALLTOALL"
  <2> DEFINE i == Nth(r, k)
             b == BlockFor(s, r, i)
             dest == nbr[s].destinations
  <2>1. Route(r) = [l \in DOMAIN src |-> <<src[l], BlockFor(src[l], r, Nth(r, l))>>]
    BY <1>8, RouteMoves
  <2>2. k \in DOMAIN Route(r) /\ Route(r)[k] = <<s, b>>
    <3> HIDE DEF src
    <3> QED
      BY <1>3, <2>1
  <2>3. i \in 1 .. Count(src, s)
    BY <1>3, NthOf DEF Nth
  <2>4. Count(src, s) = Count(dest, r)
    <3>1. job \in Jobs /\ Neighborhood
      BY DEF Supplied, Ready, Neighborhood
    <3> QED
      BY <1>2, <1>4, <3>1, KnownAgree
  <2>5. dest \in Seq(Procs) /\ nbr[s].outdegree = Len(dest)
    BY <1>1, <1>2, <1>4 DEF Announced
  <2>6. b \in 1 .. Len(dest) /\ dest[b] = r
    <3> HIDE DEF src, s, i
    <3> QED
      BY <2>3, <2>4, <2>5, BlockForIs
  <2> HIDE DEF s, b
  <2>7. Received(r)[k] = Arriving(bufs, s, b)
    BY <1>6, <2>2, ReceivedAt
  <2>8. BlocksOf(job, nbr[s]) = Len(dest)
    BY <1>1, <1>8, <2>5 DEF BlocksOf
  <2>9. Arriving(bufs, s, b) = SentValue(job, s, nbr[s], iter, b)
    BY <1>1, <1>4, <2>6, <2>8, ArrivingAt
  <2>10. SentValue(job, s, nbr[s], iter, b) = AssignToType(s + iter + r + 1, job.dtype)
    BY <1>1, <1>8, <2>6 DEF SentValue
  <2>11. Expected(job, r, nbr[r], iter, k) = AssignToType(s + r + iter + 1, job.dtype)
    BY <1>1, <1>8 DEF Expected, s
  <2>12. s + r + iter + 1 = s + iter + r + 1
    BY <1>1, <1>4
  <2> QED
    BY <1>6, <2>7, <2>9, <2>10, <2>11, <2>12 DEF Delivers
<1> QED
  BY <1>7, <1>8 DEF Neighbors

\* Whatever is compared is as expected, at every rank that has a result.
LEMMA DeliversAll ==
  ASSUME Supplied, ~Misfilled, KnownLetters, NEW r \in Procs, Validates(r),
         NEW k \in Looked(r)
  PROVE  Delivers(r, k)
<1>0. /\ job.np \in Nat \ {0} /\ job.len \in Nat /\ job.dtype \in DOMAIN SizeOfType
      /\ 1 \in 1 .. job.np
      /\ job.bench = "COLLECTIVE" =>
           job.subtype \in Moving \cup Neighbors \cup {"REDUCE_SCATTER"} /\ job.bench # "PT2PT"
  BY InTheLoop
<1>1. CASE job.bench = "PT2PT"
  <2>1. job.subtype \in {"LAT", "MBW_MR"}
    BY <1>1, InTheLoop, LoopIs
  <2>2. \/ k \in 1 .. job.len
        \/ k \in 1 .. (IF job.dtype = "MPI_FLOAT" THEN job.len ELSE job.len \div SizeOfType[job.dtype])
    BY <1>1, <2>1 DEF Looked, Compared, Neighbors
  <2>3. k \in 1 .. job.len
    BY <1>0, <2>2 DEF SizeOfType
  <2> QED
    BY <1>1, <2>3, DeliversMessage
<1>2. CASE job.bench = "COLLECTIVE"
  <2>0. k \in Compared(job, r, nbr[r])
    BY <1>2 DEF Looked, InPart
  <2>1. CASE job.subtype = "REDUCE_SCATTER"
    BY <1>2, <2>0, <2>1, DeliversReduced
  <2>2. CASE job.subtype \in Neighbors
    <3>1. k \in 1 .. nbr[r].indegree
      BY <1>0, <1>2, <2>0, <2>2 DEF Compared, Neighbors
    <3> QED
      BY <1>2, <2>2, <3>1, DeliversNeighbors
  <2>3. CASE job.subtype \in {"ALLTOALL", "GATHER", "ALL_GATHER"}
    <3>1. k \in 1 .. job.np
      BY <1>0, <1>2, <2>0, <2>3 DEF Compared, Neighbors
    <3> QED
      BY <1>2, <2>3, <3>1, DeliversAlltoall, DeliversGather, DeliversAllGather DEF Validates
  <2>4. CASE job.subtype \in {"SCATTER", "BCAST"}
    <3>1. k = 1
      BY <1>0, <1>2, <2>0, <2>4 DEF Compared, Neighbors
    <3> QED
      BY <1>2, <2>4, <3>1, DeliversScatter, DeliversBcast DEF Misfilled
  <2> QED
    BY <1>0, <1>2, <2>1, <2>2, <2>3, <2>4 DEF Moving
<1>3. job.bench \in {"COLLECTIVE", "PT2PT"}
  BY InTheLoop, LoopIs
<1> QED
  BY <1>1, <1>2, <1>3

-----------------------------------------------------------------------------
(***************************************************************************)
(* A rank that was delivered no wrong block that can be seen accepts.      *)
(***************************************************************************)
Unhurt(r) == \A w \in bad : w[1] = r => ~Visible(r, w[2], w[3]) /\ ~InPart(w[2])

AcceptInv ==
  \A r \in Procs :
    /\ pc[r] = "call" => bad = {}
    /\ pc[r] = "check" /\ ~Misfilled /\ KnownLetters /\ Validates(r) /\ Unhurt(r) =>
         Agrees(r, bufs[r].r)
    /\ pc[r] = "checked" /\ ~Misfilled /\ KnownLetters /\ Unhurt(r) => verdict[r] = 0

\* A wrong block that cannot be seen is not compared, or is the right one.
LEMMA Invisible ==
  ASSUME Supplied, NEW r \in Procs, NEW b \in DOMAIN Route(r), NEW w \in Wrong(r, b),
         ~Visible(r, b, w[1]), ~InPart(b), b \in Looked(r)
  PROVE  w[2] = Expected(job, r, nbr[r], iter, b)
<1>1. /\ job.np \in Nat \ {0} /\ job.np \in Nat /\ job.len \in Nat /\ iter \in Nat
      /\ job.dtype \in DOMAIN SizeOfType /\ job.in_place \in BOOLEAN
      /\ Procs = 0 .. job.np - 1 /\ Root \in Procs /\ 0 \in Nat /\ 1 - 1 = 0
      /\ Filled(job, r, nbr[r], iter, bufs[r])
  BY InTheLoop
<1>0. b \in Compared(job, r, nbr[r])
  BY DEF Looked
<1>2. CASE job.bench = "PT2PT" /\ ~(job.dtype = "MPI_FLOAT" \/ b * SizeOfType[job.dtype] <= job.len)
  <2>1. job.subtype \in {"LAT", "MBW_MR"}
    BY <1>2, InTheLoop, LoopIs
  <2>2. b \in 1 .. (job.len \div SizeOfType[job.dtype])
    BY <1>0, <1>2, <2>1 DEF Compared, Neighbors
  <2>3. SizeOfType[job.dtype] = 1 \/ SizeOfType[job.dtype] = 4
    BY <1>1 DEF SizeOfType
  <2>4. b * SizeOfType[job.dtype] <= job.len
    BY <1>1, <2>2, <2>3
  <2> QED
    BY <1>2, <2>4
<1>3. CASE Reduces /\ r # 0
  <2>1. job.bench = "COLLECTIVE"
    BY <1>3, JobIs DEF Supplied, Ready
  <2>2. Compared(job, r, nbr[r]) = {i + 1 : i \in FirstOf(job, r) .. RecvCounts(job)[r] - 1}
    BY <1>3, <2>1 DEF Compared, Reduces, Neighbors
  <2>3. /\ RecvCounts(job)[r] \in Nat /\ FirstOf(job, r) \in Nat
        /\ RecvCounts(job)[r] <= FirstOf(job, r)
    BY <1>1, <1>3, FirstIs
  <2>4. FirstOf(job, r) .. RecvCounts(job)[r] - 1 = {}
    BY <2>3
  <2> QED
    BY <1>0, <2>2, <2>4
<1>4. CASE job.bench = "COLLECTIVE" /\ job.dtype = "MPI_FLOAT" /\ ~Neighborhood /\ ~Reduces /\ b # 1
  <2>1. job.subtype \in Moving /\ job.bench # "PT2PT"
    BY <1>4, InTheLoop DEF Reduces, Neighborhood
  <2>2. Compared(job, r, nbr[r]) = {1}
    BY <1>4, <2>1 DEF Compared, Moving, Neighbors
  <2> QED
    BY <1>0, <1>4, <2>2
<1>5. CASE /\ job.subtype = "GATHER" \/ (job.subtype = "SCATTER" /\ job.in_place)
           /\ r = 0 /\ b = 1 /\ w[1] = "none"
  <2>1. job.bench = "COLLECTIVE" /\ job.bench # "PT2PT" /\ ~Reduces
    BY <1>5, JobIs DEF Supplied, Ready, WellMade, Reduces
  <2>2. w[2] = bufs[0].r[1]
    <3>1. w[2] = bufs[r].r[b]
      BY <1>5, WrongForms
    <3> QED
      BY <1>5, <3>1
  <2>3. CASE job.subtype = "GATHER"
    <3>1. OnlyValue(job, 0, job.np, iter) = CollectiveValue(job, 0, job.np, iter, 0)
      <4>1. 0 \in Nat /\ job.np \in Nat /\ job.np \in Nat \ {0} /\ iter \in Nat
        BY <1>1
      <4> HIDE DEF Supplied
      <4> QED
        BY ONLY <4>1, ValuesAgree
    <3>2. Expected(job, 0, nbr[0], iter, 1) = CollectiveValue(job, 0, job.np, iter, 0)
      BY <1>1, <2>1, <2>3 DEF Expected
    <3>3. bufs[0].r[0 + 1] = SentValue(job, 0, nbr[0], iter, 1)
      BY <1>1, <1>5, <2>3 DEF Filled
    <3>4. SentValue(job, 0, nbr[0], iter, 1) = OnlyValue(job, 0, job.np, iter)
      BY <2>1, <2>3 DEF SentValue, OnlyValue
    <3> QED
      BY <1>5, <2>2, <3>1, <3>2, <3>3, <3>4
  <2>4. CASE job.subtype = "SCATTER" /\ job.in_place
    <3>1. BlockValue(job, 0, job.np, 0, iter) = CollectiveValue(job, 0, 1, iter, 0)
      <4>1. 0 \in Nat /\ job.np \in Nat /\ iter \in Nat
        BY <1>1
      <4> HIDE DEF Supplied
      <4> QED
        BY ONLY <4>1, ValuesAgree
    <3>2. Expected(job, 0, nbr[0], iter, 1) = CollectiveValue(job, 0, 1, iter, 0)
      BY <1>1, <2>1, <2>4 DEF Expected
    <3>3. BlocksOf(job, nbr[0]) = job.np /\ InPlaceSent(job) /\ 1 \in 1 .. job.np
      BY <1>1, <2>1, <2>4 DEF BlocksOf, InPlaceSent
    <3>4. bufs[0].r = [k \in 1 .. job.np |-> SentValue(job, 0, nbr[0], iter, k)]
      BY <1>1, <1>5, <3>3 DEF Filled
    <3>5. bufs[0].r[1] = SentValue(job, 0, nbr[0], iter, 1)
      BY <3>3, <3>4
    <3>6. SentValue(job, 0, nbr[0], iter, 1) = BlockValue(job, 0, job.np, 1 - 1, iter)
      BY <2>1, <2>4 DEF SentValue, BlockValue
    <3> QED
      BY <1>1, <1>5, <2>2, <3>1, <3>2, <3>5, <3>6
  <2> QED
    BY <1>5, <2>3, <2>4
<1> QED
  BY <1>2, <1>3, <1>4, <1>5 DEF Visible

\* In the operation itself the ranks are at "call", and have what they send.
LEMMA CallIsSupplied ==
  ASSUME TypeInv, NeighborInv, DataInv, AllAt("call")
  PROVE  /\ Supplied
         /\ \A r \in Procs : pc[r] = "call" /\ bufs[r] = [s |-> bufs[r].s, r |-> bufs[r].r]
<1>1. Ready /\ \A r \in Procs : /\ pc[r] = "call"
                                /\ Content(job, r, "call", nbr[r], iter, bufs[r], last[r])
  BY LoopReady DEF Loop
<1> QED
  BY <1>1 DEF Supplied, Content

\* What Collective does to one rank: all its blocks are right but the one, if
\* any, that bad names.
Delivered(r) ==
  /\ bufs'[r].r = Received(r) /\ bad' = {}
  \/ \E q \in Procs : \E b \in DOMAIN Route(q) : \E w \in Wrong(q, b) :
       /\ bad' = {<<q, b, w[1]>>}
       /\ bufs'[r].r = IF q = r THEN [Received(r) EXCEPT ![b] = w[2]] ELSE Received(r)

LEMMA CollectiveDelivers ==
  ASSUME TypeInv, NeighborInv, DataInv, AcceptInv, Collective, NEW r \in Procs
  PROVE  Delivered(r)
<1> DEFINE right == [q \in Procs |-> [bufs[q] EXCEPT !.r = Received(q)]]
<1>1. AllAt("call")
  BY DEF Collective
<1>2. bad = {} /\ bufs[r] = [s |-> bufs[r].s, r |-> bufs[r].r]
  BY <1>1, CallIsSupplied DEF AcceptInv
<1>3. right[r] = [s |-> bufs[r].s, r |-> Received(r)] /\ right[r].r = Received(r)
  <2>1. \A x, y : x = [s |-> x.s, r |-> x.r] => [x EXCEPT !.r = y] = [s |-> x.s, r |-> y]
    OBVIOUS
  <2>2. right[r] = [bufs[r] EXCEPT !.r = Received(r)]
    OBVIOUS
  <2>3. right[r] = [s |-> bufs[r].s, r |-> Received(r)]
    BY ONLY <1>2, <2>1, <2>2
  <2> QED
    BY ONLY <2>3
<1>4. right = [q \in Procs |-> right[q]]
  OBVIOUS
<1> HIDE DEF right
<1>5. CASE bufs' = right /\ UNCHANGED <<bad, faults>>
  BY <1>2, <1>3, <1>5 DEF Delivered
<1>6. CASE \E q \in Procs : \E b \in DOMAIN Route(q) : \E w \in Wrong(q, b) :
             bad' = {<<q, b, w[1]>>} /\ bufs' = [right EXCEPT ![q].r[b] = w[2]]
  <2>1. PICK q \in Procs : \E b \in DOMAIN Route(q) : \E w \in Wrong(q, b) :
             bad' = {<<q, b, w[1]>>} /\ bufs' = [right EXCEPT ![q].r[b] = w[2]]
    BY <1>6
  <2>2. PICK b \in DOMAIN Route(q) : \E w \in Wrong(q, b) :
             bad' = {<<q, b, w[1]>>} /\ bufs' = [right EXCEPT ![q].r[b] = w[2]]
    BY <2>1
  <2>3. PICK w \in Wrong(q, b) :
             bad' = {<<q, b, w[1]>>} /\ bufs' = [right EXCEPT ![q].r[b] = w[2]]
    BY <2>2
  <2>4. bufs'[r].r = IF q = r THEN [Received(r) EXCEPT ![b] = w[2]] ELSE Received(r)
    <3>1. CASE q # r
      BY <1>3, <1>4, <2>3, <3>1
    <3>2. CASE q = r
      <4>1. bufs'[r] = [right[r] EXCEPT !.r = [right[r].r EXCEPT ![b] = w[2]]]
        BY <1>4, <2>3, <3>2
      <4>2. bufs'[r] = [s |-> bufs[r].s, r |-> [Received(r) EXCEPT ![b] = w[2]]]
        BY <1>3, <4>1
      <4> QED
        BY <3>2, <4>2
    <3> QED
      BY <3>1, <3>2
  <2> QED
    BY <2>3, <2>4 DEF Delivered
<1> QED
  BY <1>5, <1>6 DEF Collective, right

LEMMA AcceptIdle ==
  ASSUME TypeInv, AcceptInv, Idle
  PROVE  AcceptInv'
<1>1. /\ job' = job /\ Procs' = Procs /\ iter' = iter /\ bufs' = bufs
      /\ verdict' = verdict /\ bad' = bad
  BY DEF Idle, data, Procs
<1>2. (Misfilled' <=> Misfilled) /\ (KnownLetters' <=> KnownLetters)
  BY <1>1 DEF Misfilled, KnownLetters, Root
<1>3. \A r \in Procs : (Validates(r)' <=> Validates(r)) /\ (Unhurt(r)' <=> Unhurt(r))
  BY <1>1 DEF Validates, Unhurt, Visible, InPart, Root, Reduces, Neighborhood
<1>4. ASSUME NEW r \in Procs
      PROVE  (pc'[r] = pc[r] /\ nbr'[r] = nbr[r]) \/ pc'[r] \notin {"call", "check", "checked"}
  BY DEF Idle
<1>5. ASSUME NEW r \in Procs, nbr'[r] = nbr[r], Agrees(r, bufs[r].r) PROVE Agrees(r, bufs[r].r)'
  BY <1>1, <1>5 DEF Agrees, Looked, InPart
<1> QED
  BY <1>1, <1>2, <1>3, <1>4, <1>5 DEF AcceptInv

LEMMA AcceptFill ==
  ASSUME Fill
  PROVE  AcceptInv'
BY DEF Fill, AllGoto, AcceptInv, Procs

\* A rank with nothing visible against it holds what is expected.
LEMMA AcceptCollective ==
  ASSUME TypeInv, NeighborInv, DataInv, AcceptInv, Collective
  PROVE  AcceptInv'
<1>1. /\ job' = job /\ Procs' = Procs /\ iter' = iter /\ nbr' = nbr
      /\ AllAt("call") /\ \A r \in Procs : pc'[r] = "check"
  BY DEF Collective, Procs, AllGoto
<1>2. (Misfilled' <=> Misfilled) /\ (KnownLetters' <=> KnownLetters)
  BY <1>1 DEF Misfilled, KnownLetters, Root
<1>3. Supplied
  BY <1>1, CallIsSupplied
<1>4. ASSUME NEW r \in Procs, ~Misfilled, KnownLetters, Validates(r), Unhurt(r)',
             NEW k \in Looked(r)
      PROVE  bufs'[r].r[k] = Expected(job, r, nbr[r], iter, k)
  <2>1. Delivers(r, k)
    BY <1>3, <1>4, DeliversAll
  <2>2. Received(r)[k] = Expected(job, r, nbr[r], iter, k)
    BY <2>1 DEF Delivers
  <2>3. CASE bufs'[r].r = Received(r)
    BY <2>2, <2>3
  <2>4. ASSUME NEW b \in DOMAIN Route(r), NEW w \in Wrong(r, b), bad' = {<<r, b, w[1]>>},
               bufs'[r].r = [Received(r) EXCEPT ![b] = w[2]]
        PROVE  bufs'[r].r[k] = Expected(job, r, nbr[r], iter, k)
    <3>1. CASE k # b
      BY <2>2, <2>4, <3>1
    <3>2. CASE k = b
      <4>1. ~Visible(r, b, w[1])' /\ ~InPart(b)'
        BY <1>4, <2>4 DEF Unhurt
      <4>2. ~Visible(r, b, w[1]) /\ ~InPart(b)
        BY <1>1, <4>1 DEF Visible, InPart, Reduces, Neighborhood
      <4>3. w[2] = Expected(job, r, nbr[r], iter, b)
        BY <1>3, <1>4, <3>2, <4>2, Invisible
      <4>4. bufs'[r].r[b] \in {w[2], Received(r)[b]}
        BY <2>4
      <4> QED
        BY <2>2, <3>2, <4>3, <4>4
    <3> QED
      BY <3>1, <3>2
  <2>5. Delivered(r)
    BY CollectiveDelivers
  <2> QED
    BY <2>3, <2>4, <2>5 DEF Delivered
<1>5. \A r \in Procs : Validates(r)' <=> Validates(r)
  BY <1>1 DEF Validates, Root
<1>6. \A r \in Procs : Looked(r)' = Looked(r)
  BY <1>1 DEF Looked, InPart
<1>7. ASSUME NEW r \in Procs, ~Misfilled, KnownLetters, Validates(r), Unhurt(r)'
      PROVE  Agrees(r, bufs[r].r)'
  BY <1>1, <1>4, <1>6, <1>7 DEF Agrees
<1> QED
  BY <1>1, <1>2, <1>5, <1>7 DEF AcceptInv

LEMMA AcceptValidate ==
  ASSUME TypeInv, NeighborInv, DataInv, AcceptInv, Validate
  PROVE  AcceptInv'
<1>1. /\ job' = job /\ Procs' = Procs /\ iter' = iter /\ nbr' = nbr /\ bufs' = bufs /\ bad' = bad
      /\ AllAt("check") /\ \A r \in Procs : pc'[r] = "checked"
  BY DEF Validate, Procs, AllGoto
<1>2. (Misfilled' <=> Misfilled) /\ (KnownLetters' <=> KnownLetters)
  BY <1>1 DEF Misfilled, KnownLetters, Root
<1>3. Ready /\ \A r \in Procs : pc[r] = "check"
  BY <1>1, LoopReady DEF Loop
<1>4. \A r \in Procs : Unhurt(r)' <=> Unhurt(r)
  BY <1>1 DEF Unhurt, Visible, InPart, Reduces, Neighborhood
<1>5. ASSUME NEW r \in Procs, ~Misfilled, KnownLetters, Unhurt(r)
      PROVE  verdict'[r] = 0
  <2>1. PICK failing \in SUBSET Unread : verdict' = [q \in Procs |->
           IF ~Validates(q) \/ q \in Unread \ failing THEN 0 ELSE IF q \in failing THEN 1
           ELSE IF Neighborhood THEN ValidateNeighborhoodCol(job, q, nbr[q], bufs[q].r, iter)
           ELSE ValidateData(job, q, bufs[q].r, iter)]
    BY DEF Validate
  <2>2. r \notin Unread
    BY <1>5 DEF Unread, KnownLetters, Copies, Letter
  <2>3. CASE ~Validates(r)
    BY <2>1, <2>3
  <2>4. CASE Validates(r)
    <3>1. Agrees(r, bufs[r].r)
      BY <1>3, <1>5, <2>4 DEF AcceptInv
    <3>2. verdict'[r] = IF Neighborhood THEN ValidateNeighborhoodCol(job, r, nbr[r], bufs[r].r, iter)
                        ELSE ValidateData(job, r, bufs[r].r, iter)
      BY <2>1, <2>2, <2>4
    <3> QED
      BY <1>3, <3>1, <3>2, MatchCompares
  <2> QED
    BY <2>3, <2>4
<1> QED
  BY <1>1, <1>2, <1>4, <1>5 DEF AcceptInv

LEMMA AcceptAgain ==
  ASSUME TypeInv, AcceptInv, Again
  PROVE  AcceptInv'
<1>1. /\ job' = job /\ Procs' = Procs /\ nbr' = nbr /\ bufs' = bufs /\ bad' = bad /\ verdict' = verdict
  BY DEF Again, Procs
<1>2. CASE \E label \in {"fill", "release"} : AllGoto(label)
  BY <1>1, <1>2 DEF AllGoto, AcceptInv
<1>3. CASE UNCHANGED <<pc, iter>>
  BY <1>1, <1>3 DEF AcceptInv, Misfilled, KnownLetters, Validates, Agrees, Looked, Unhurt, Visible, InPart, Root,
                       Reduces, Neighborhood
<1> QED
  BY <1>2, <1>3 DEF Again

(***************************************************************************)
(* Half of VerdictExact, for every job and any number of ranks, iterations *)
(* and faults: validation fails at no rank but one that was delivered a    *)
(* wrong block where validation reads.                                     *)
(***************************************************************************)
NoFalseAlarm ==
  pc = [r \in Procs |-> "checked"] /\ ~Misfilled /\ KnownLetters =>
    \A r \in Procs :
      verdict[r] = 1 => \E w \in bad : w[1] = r /\ (Visible(r, w[2], w[3]) \/ InPart(w[2]))

THEOREM RightAccepted == Spec => []NoFalseAlarm
<1>1. Init => AcceptInv
  BY DEF Init, AcceptInv
<1>2. TypeInv /\ NeighborInv /\ DataInv /\ AcceptInv /\ [Next]_vars => AcceptInv'
  BY IdleOrLoop, AcceptIdle, AcceptFill, AcceptCollective, AcceptValidate, AcceptAgain
<1>3. AcceptInv => NoFalseAlarm
  BY DEF AcceptInv, NoFalseAlarm, Unhurt
<1> QED
  BY <1>1, <1>2, <1>3, DataHolds, PTL DEF Spec

-----------------------------------------------------------------------------
(***************************************************************************)
(* The other half: a wrong block that can be seen is refused.  Of three    *)
(* kinds of jobs that is not true for every size: letters wrap around at   *)
(* 256; a reduction repeats its values after 100 elements, and over one    *)
(* rank the contribution is the result already; and what the receive       *)
(* buffer of a gather is filled with beforehand may be what is expected,   *)
(* if the root is not rank 0.                                              *)
(***************************************************************************)
Plain(j) ==
  /\ j.dtype # "MPI_CHAR"
  /\ j.subtype = "REDUCE_SCATTER" => j.len <= 100 /\ j.np > 1
  /\ j.subtype = "GATHER" => j.in_place \/ j.root = 0

\* Examples: two letters, two elements of a reduction, and block 6 of a gather
\* to rank 1 of 20 in the third iteration, before it and after it.
LEMMA ValuesRepeat ==
  /\ AssignToType(0, "MPI_CHAR") = AssignToType(256, "MPI_CHAR")
  /\ \A j, it : ReduceValue(j, 0, it) = ReduceValue(j, 100, it)
  /\ FillValue(1, 20, 5, 2) = FillValue(5 * 20, 1, 0, 2)
<1>1. AssignToType(0, "MPI_CHAR") = AssignToType(256, "MPI_CHAR")
  BY DEF AssignToType, CharMultiplier, CharRange
<1>2. \A j, it : ReduceValue(j, 0, it) = ReduceValue(j, 100, it)
  <2>1. 0 % 100 = 100 % 100
    OBVIOUS
  <2> QED
    BY <2>1 DEF ReduceValue
<1>3. FillValue(1, 20, 5, 2) = FillValue(5 * 20, 1, 0, 2)
  BY DEF FillValue
<1> QED
  BY <1>1, <1>2, <1>3

\* What rank s, with neighbours n, sent from buffers l in iteration it.
Said(j, s, n, l, it) == SentOf(j, l) = [k \in 1 .. BlocksOf(j, n) |-> SentValue(j, s, n, it, k)]
Spoke(r, l, it) == Said(job, r, nbr[r], l, it)

\* Before the operation no block that can be seen is the right one already.
Untouched(r) ==
  \A b \in DOMAIN Route(r) :
    b \in Compared(job, r, nbr[r]) /\ Visible(r, b, "none") =>
      bufs[r].r[b] # Expected(job, r, nbr[r], iter, b)

Judged == Plain(job) /\ ~Misfilled /\ KnownLetters

\* Outside letters a value is known by what is written for it.
LEMMA AssignTells ==
  ASSUME NEW dtype \in DOMAIN SizeOfType, dtype # "MPI_CHAR"
  PROVE  /\ \A v \in Nat : AssignToType(v, dtype) \in Nat
         /\ \A v, u \in Nat : AssignToType(v, dtype) = AssignToType(u, dtype) => v = u
         /\ AssignToType(0, dtype) = 0
<1>1. dtype \in {"MPI_INT", "MPI_FLOAT"}
  BY DEF SizeOfType
<1>2. CASE dtype = "MPI_INT"
  <2>1. \A v : AssignToType(v, dtype) = v * 10
    BY <1>2 DEF AssignToType, IntMultiplier
  <2> QED
    BY <2>1
<1>3. CASE dtype = "MPI_FLOAT"
  <2>1. \A v : AssignToType(v, dtype) = v * 2
    BY <1>3 DEF AssignToType, FloatMultiplier
  <2> QED
    BY <2>1
<1> QED
  BY <1>1, <1>2, <1>3

\* The value grows with each of the three numbers it is made of.
Grid(u, i, it) == u + i + (it + 1) * (u + 1) * (i + 1)

LEMMA GridGrows ==
  ASSUME NEW u \in Nat, NEW v \in Nat, NEW i \in Nat, NEW h \in Nat, NEW it \in Nat, NEW jt \in Nat
  PROVE  /\ Grid(u, i, it) \in Nat \ {0}
         /\ u < v => Grid(u, i, it) < Grid(v, i, it)
         /\ i < h => Grid(u, i, it) < Grid(u, h, it)
         /\ it < jt => Grid(u, i, it) < Grid(u, i, jt)
<1>1. \A x, y \in Nat : x * y \in Nat
  OBVIOUS
<1>2. \A x, y, z \in Nat : x <= y => z * x <= z * y /\ x * z <= y * z
  OBVIOUS
<1> DEFINE a(x, y, t) == (t + 1) * (x + 1) * (y + 1)
<1>3. ASSUME NEW x \in Nat, NEW y \in Nat, NEW t \in Nat
      PROVE  a(x, y, t) \in Nat \ {0} /\ Grid(x, y, t) = x + y + a(x, y, t)
  <2>1. (t + 1) * (x + 1) \in Nat /\ 1 <= (t + 1) * (x + 1)
    OBVIOUS
  <2>2. \A p, q \in Nat : 1 <= p => 1 <= p * (q + 1) /\ p * (q + 1) \in Nat
    OBVIOUS
  <2> QED
    BY <2>1, <2>2 DEF Grid
<1>4. u < v => a(u, i, it) <= a(v, i, it)
  <2>1. u < v => (it + 1) * (u + 1) <= (it + 1) * (v + 1)
    BY <1>2
  <2>2. (it + 1) * (u + 1) \in Nat /\ (it + 1) * (v + 1) \in Nat /\ i + 1 \in Nat
    BY <1>1
  <2> QED
    BY ONLY <1>2, <2>1, <2>2
<1>5. i < h => a(u, i, it) <= a(u, h, it)
  <2>1. (it + 1) * (u + 1) \in Nat /\ i + 1 \in Nat /\ h + 1 \in Nat
    BY <1>1
  <2>2. i < h => i + 1 <= h + 1
    OBVIOUS
  <2> QED
    BY ONLY <1>2, <2>1, <2>2
<1>6. it < jt => a(u, i, it) + 1 <= a(u, i, jt)
  <2> DEFINE w == (u + 1) * (i + 1)
  <2>1. w \in Nat /\ 1 <= w
    BY <1>3
  <2>2. \A t \in Nat : a(u, i, t) = (t + 1) * w
    OBVIOUS
  <2> HIDE DEF w, a
  <2>3. it < jt => (it + 2) * w <= (jt + 1) * w
    <3>1. it + 2 \in Nat /\ jt + 1 \in Nat /\ (it < jt => it + 2 <= jt + 1)
      OBVIOUS
    <3> QED
      BY ONLY <1>2, <2>1, <3>1
  <2>4. (it + 2) * w = (it + 1) * w + w /\ (it + 1) * w \in Nat /\ (jt + 1) * w \in Nat
    BY <2>1
  <2>5. a(u, i, it) = (it + 1) * w /\ a(u, i, jt) = (jt + 1) * w
    BY <2>2
  <2> QED
    BY ONLY <2>1, <2>3, <2>4, <2>5
<1> HIDE DEF a
<1>7. /\ Grid(u, i, it) = u + i + a(u, i, it) /\ a(u, i, it) \in Nat \ {0}
      /\ Grid(v, i, it) = v + i + a(v, i, it) /\ a(v, i, it) \in Nat
      /\ Grid(u, h, it) = u + h + a(u, h, it) /\ a(u, h, it) \in Nat
      /\ Grid(u, i, jt) = u + i + a(u, i, jt) /\ a(u, i, jt) \in Nat
  BY <1>3
<1>8. Grid(u, i, it) \in Nat \ {0}
  BY ONLY <1>7, u \in Nat, i \in Nat
<1>9. u < v => Grid(u, i, it) < Grid(v, i, it)
  BY ONLY <1>4, <1>7, u \in Nat, v \in Nat, i \in Nat
<1>10. i < h => Grid(u, i, it) < Grid(u, h, it)
  BY ONLY <1>5, <1>7, u \in Nat, h \in Nat, i \in Nat
<1>11. it < jt => Grid(u, i, it) < Grid(u, i, jt)
  BY ONLY <1>6, <1>7, u \in Nat, i \in Nat
<1> QED
  BY <1>8, <1>9, <1>10, <1>11

\* Block s of rank r is not block r of rank s.
LEMMA GridTurned ==
  ASSUME NEW n \in Nat, NEW r \in 0 .. n - 1, NEW s \in 0 .. n - 1, r < s, NEW it \in Nat
  PROVE  Grid(r * n, s, it) # Grid(s * n, r, it)
<1>1. PICK d \in Nat \ {0} : s = r + d
  <2>1. s - r \in Nat \ {0} /\ s = r + (s - r)
    OBVIOUS
  <2> QED
    BY <2>1
<1>2. r \in Nat /\ s \in Nat /\ n \in Nat /\ n >= 2 /\ r * n \in Nat /\ s * n \in Nat
  OBVIOUS
<1>3. s * n = r * n + d * n
  BY <1>1, <1>2
<1>4. d * n >= d + 1 /\ d * n \in Nat
  <2>1. \A x \in Nat \ {0} : \A y \in Nat : y >= 2 => x * y >= x * 2
    OBVIOUS
  <2>2. d * n >= d * 2
    BY <1>1, <1>2, <2>1
  <2> QED
    BY <1>1, <1>2, <2>2
<1> DEFINE A == r * n + s
           B == s * n + r
           P == (r * n + 1) * (s + 1)
           Q == (s * n + 1) * (r + 1)
<1>5. A < B /\ A \in Nat /\ B \in Nat
  BY ONLY <1>1, <1>2, <1>3, <1>4
<1>6. Q - P = B - A /\ P \in Nat /\ Q \in Nat
  <2>1. (r * n) * s = (s * n) * r
    BY <1>2
  <2>2. P = (r * n) * s + r * n + s + 1
    BY <1>2
  <2>3. Q = (s * n) * r + s * n + r + 1
    BY <1>2
  <2>4. (r * n) * s \in Nat
    BY <1>2
  <2> QED
    BY ONLY <1>2, <2>1, <2>2, <2>3, <2>4
<1>7. Grid(r * n, s, it) = A + (it + 1) * P
  <2>1. (it + 1) * (r * n + 1) * (s + 1) = (it + 1) * P
    BY <1>2
  <2> QED
    BY <2>1 DEF Grid
<1>8. Grid(s * n, r, it) = B + (it + 1) * Q
  <2>1. (it + 1) * (s * n + 1) * (r + 1) = (it + 1) * Q
    BY <1>2
  <2> QED
    BY <2>1 DEF Grid
<1> HIDE DEF A, B, P, Q
<1>9. (it + 1) * P <= (it + 1) * Q /\ (it + 1) * P \in Nat /\ (it + 1) * Q \in Nat
  <2>1. \A x, y, z \in Nat : x <= y => z * x <= z * y /\ z * x \in Nat /\ z * y \in Nat
    OBVIOUS
  <2>2. P <= Q /\ it + 1 \in Nat
    BY <1>5, <1>6
  <2> QED
    BY ONLY <1>6, <2>1, <2>2
<1>10. A + (it + 1) * P < B + (it + 1) * Q
  BY ONLY <1>5, <1>9
<1>11. A + (it + 1) * P \in Nat /\ B + (it + 1) * Q \in Nat
  BY ONLY <1>5, <1>9
<1> QED
  BY ONLY <1>7, <1>8, <1>10, <1>11

\* A datatype whose values do not wrap around.
Wide(j) == j.dtype \in DOMAIN SizeOfType /\ j.dtype # "MPI_CHAR"

\* A value of a block tells the sender, the block and the iteration.
BlockTold(j, s, np, i, it) ==
  /\ BlockValue(j, s, np, i, it) \in Nat \ {0}
  /\ OnlyValue(j, s, np, it) = BlockValue(j, s, np, 0, it)
  /\ \A t \in Nat : s # t => BlockValue(j, s, np, i, it) # BlockValue(j, t, np, i, it)
  /\ \A h \in Nat : i # h => BlockValue(j, s, np, i, it) # BlockValue(j, s, np, h, it)
  /\ \A jt \in Nat : it # jt => BlockValue(j, s, np, i, it) # BlockValue(j, s, np, i, jt)
  /\ s \in 0 .. np - 1 /\ i \in 0 .. np - 1 /\ s # i =>
       BlockValue(j, s, np, i, it) # BlockValue(j, i, np, s, it)

LEMMA BlockTells ==
  ASSUME NEW j, Wide(j), NEW np \in Nat \ {0}, NEW s \in Nat, NEW i \in Nat, NEW it \in Nat
  PROVE  BlockTold(j, s, np, i, it)
<1> DEFINE A(v) == AssignToType(v, j.dtype)
<1>1. /\ \A v \in Nat : A(v) \in Nat
      /\ \A v, u \in Nat : A(v) = A(u) => v = u
      /\ A(0) = 0
  BY AssignTells DEF Wide
<1> HIDE DEF A
<1>2. \A t, h, jt : BlockValue(j, t, np, h, jt) = A(Grid(t * np, h, jt))
  BY DEF BlockValue, FillValue, Grid, A
<1>3. \A t \in Nat : t * np \in Nat
  OBVIOUS
<1>4. \A u, h, jt \in Nat : Grid(u, h, jt) \in Nat \ {0}
  BY GridGrows
<1>5. BlockValue(j, s, np, i, it) \in Nat \ {0}
  <2>1. Grid(s * np, i, it) \in Nat \ {0}
    BY <1>3, <1>4
  <2> QED
    BY <1>1, <1>2, <2>1
<1>6. OnlyValue(j, s, np, it) = BlockValue(j, s, np, 0, it)
  <2>1. s * np * 1 = s * np
    BY <1>3
  <2>2. FillValue(s * np, 1, 0, it) = FillValue(s, np, 0, it)
    BY <2>1 DEF FillValue
  <2> QED
    BY <2>2 DEF OnlyValue, BlockValue
<1>7. ASSUME NEW t \in Nat, s # t
      PROVE  BlockValue(j, s, np, i, it) # BlockValue(j, t, np, i, it)
  <2>1. s * np # t * np /\ s * np \in Nat /\ t * np \in Nat
    <3>1. \A x, y \in Nat : x < y => x * np < y * np
      OBVIOUS
    <3> QED
      BY <1>3, <1>7, <3>1
  <2> DEFINE u == s * np
             v == t * np
  <2>2. u \in Nat /\ v \in Nat /\ u # v
    BY <2>1
  <2>3. Grid(u, i, it) \in Nat /\ Grid(v, i, it) \in Nat
    BY <1>4, <2>2
  <2> HIDE DEF u, v
  <2>4. (u < v => Grid(u, i, it) < Grid(v, i, it)) /\ (v < u => Grid(v, i, it) < Grid(u, i, it))
    BY ONLY <2>2, i \in Nat, it \in Nat, GridGrows
  <2>5. Grid(u, i, it) # Grid(v, i, it)
    BY <2>2, <2>3, <2>4
  <2> QED
    BY <1>1, <1>2, <2>3, <2>5 DEF u, v
<1>8. ASSUME NEW h \in Nat, i # h
      PROVE  BlockValue(j, s, np, i, it) # BlockValue(j, s, np, h, it)
  <2> DEFINE u == s * np
  <2>1. u \in Nat
    BY <1>3
  <2> HIDE DEF u
  <2>2. Grid(u, i, it) \in Nat /\ Grid(u, h, it) \in Nat
    BY <1>4, <2>1
  <2>3. (i < h => Grid(u, i, it) < Grid(u, h, it)) /\ (h < i => Grid(u, h, it) < Grid(u, i, it))
    BY ONLY <2>1, i \in Nat, h \in Nat, it \in Nat, GridGrows
  <2>4. Grid(u, i, it) # Grid(u, h, it)
    BY <1>8, <2>2, <2>3
  <2> QED
    BY <1>1, <1>2, <2>2, <2>4 DEF u
<1>9. ASSUME NEW jt \in Nat, it # jt
      PROVE  BlockValue(j, s, np, i, it) # BlockValue(j, s, np, i, jt)
  <2> DEFINE u == s * np
  <2>1. u \in Nat
    BY <1>3
  <2> HIDE DEF u
  <2>2. Grid(u, i, it) \in Nat /\ Grid(u, i, jt) \in Nat
    BY <1>4, <2>1
  <2>3. (it < jt => Grid(u, i, it) < Grid(u, i, jt)) /\ (jt < it => Grid(u, i, jt) < Grid(u, i, it))
    BY ONLY <2>1, i \in Nat, jt \in Nat, it \in Nat, GridGrows
  <2>4. Grid(u, i, it) # Grid(u, i, jt)
    BY <1>9, <2>2, <2>3
  <2> QED
    BY <1>1, <1>2, <2>2, <2>4 DEF u
<1>10. ASSUME s \in 0 .. np - 1, i \in 0 .. np - 1, s # i
       PROVE  BlockValue(j, s, np, i, it) # BlockValue(j, i, np, s, it)
  <2>1. (s < i => Grid(s * np, i, it) # Grid(i * np, s, it))
        /\ (i < s => Grid(i * np, s, it) # Grid(s * np, i, it))
    <3>1. np \in Nat
      OBVIOUS
    <3> QED
      BY ONLY <1>10, <3>1, it \in Nat, GridTurned
  <2>2. Grid(s * np, i, it) # Grid(i * np, s, it)
    BY <1>10, <2>1
  <2>3. Grid(s * np, i, it) \in Nat /\ Grid(i * np, s, it) \in Nat
    BY <1>3, <1>4
  <2> QED
    BY <1>1, <1>2, <2>2, <2>3
<1> QED
  BY <1>5, <1>6, <1>7, <1>8, <1>9, <1>10 DEF BlockTold

\* Elements of a message differ from each other, from those of another
\* iteration and from 0.
LEMMA MessageTells ==
  ASSUME NEW j, Wide(j), j.len \in Nat, NEW k \in Nat \ {0}, NEW i \in Nat, NEW it \in Nat, NEW jt \in Nat
  PROVE  /\ MessageValue(j, k, it) \in Nat \ {0}
         /\ k # i => MessageValue(j, k, it) # MessageValue(j, i, it)
         /\ it # jt => MessageValue(j, k, it) # MessageValue(j, k, jt)
<1> DEFINE z == j.len * SizeOfType[j.dtype]
           A(v) == AssignToType(v, j.dtype)
           M(x, t) == CharMultiplier * x + z + t
<1>1. z \in Nat
  <2>1. SizeOfType[j.dtype] \in Nat /\ \A x, y \in Nat : x * y \in Nat
    BY DEF SizeOfType, Wide
  <2> QED
    BY <2>1
<1>2. /\ \A v \in Nat : A(v) \in Nat
      /\ \A v, u \in Nat : A(v) = A(u) => v = u
      /\ A(0) = 0
  BY AssignTells DEF Wide
<1>3. \A x, t : MessageValue(j, x, t) = A(M(x, t))
  BY DEF MessageValue
<1> HIDE DEF A, z
<1>4. /\ M(k, it) \in Nat \ {0} /\ M(i, it) \in Nat /\ M(k, jt) \in Nat
      /\ k # i => M(k, it) # M(i, it)
      /\ it # jt => M(k, it) # M(k, jt)
  BY <1>1 DEF CharMultiplier
<1> HIDE DEF M
<1> QED
  BY <1>2, <1>3, <1>4

(***************************************************************************)
(* Told is the value of the block that rank r receives at place b, sent in *)
(* iteration it.  It differs from every other value that may come instead. *)
(***************************************************************************)
Told(r, b, it) == SentValue(job, Route(r)[b][1], nbr[Route(r)[b][1]], it, Route(r)[b][2])

PerReceiver == job.bench = "PT2PT" \/ job.subtype \in {"ALLTOALL", "SCATTER", "NHBR_ALLTOALL"}

\* Block i of the sender is not the one for rank r at place b.
NotFor(r, b, i) ==
  IF job.subtype = "NHBR_ALLTOALL" THEN nbr[Route(r)[b][1]].destinations[i] # r
  ELSE i # Route(r)[b][2]

Apart(r, b) ==
  /\ Told(r, b, iter) \in Nat \ {0}
  /\ \A c \in DOMAIN Route(r) : Route(r)[c][1] # Route(r)[b][1] => Told(r, c, iter) # Told(r, b, iter)
  /\ PerReceiver =>
       \A i \in 1 .. BlocksOf(job, nbr[Route(r)[b][1]]) : NotFor(r, b, i) =>
         SentValue(job, Route(r)[b][1], nbr[Route(r)[b][1]], iter, i) # Told(r, b, iter)
  /\ iter > 0 => Told(r, b, iter - 1) # Told(r, b, iter)

LEMMA ApartAlltoall ==
  ASSUME Supplied, Wide(job), job.bench = "COLLECTIVE", job.subtype = "ALLTOALL",
         NEW r \in Procs, NEW b \in DOMAIN Route(r)
  PROVE  Apart(r, b) /\ Told(r, b, iter) = BlockValue(job, b - 1, job.np, r, iter)
<1>1. /\ job.np \in Nat \ {0} /\ iter \in Nat /\ r \in Nat /\ r + 1 \in 1 .. job.np
      /\ (r + 1) - 1 = r /\ job.bench # "PT2PT" /\ \A q \in Procs : q \in Nat /\ (q + 1) - 1 = q
      /\ Procs = 0 .. job.np - 1
  BY InTheLoop
<1>2. Route(r) = [c \in {s + 1 : s \in Others(r)} |-> <<c - 1, r + 1>>]
  BY RouteMoves
<1>3. ASSUME NEW c \in DOMAIN Route(r)
      PROVE  Route(r)[c] = <<c - 1, r + 1>> /\ c - 1 \in Nat
  BY <1>1, <1>2 DEF Others
<1>4. \A q, it, k : SentValue(job, q, nbr[q], it, k) = BlockValue(job, q, job.np, k - 1, it)
  BY <1>1 DEF SentValue, BlockValue
<1>5. \A c \in DOMAIN Route(r) : \A it : Told(r, c, it) = BlockValue(job, c - 1, job.np, r, it)
  BY <1>1, <1>3, <1>4 DEF Told
<1> DEFINE s == b - 1
           V(q, i, it) == BlockValue(job, q, job.np, i, it)
<1>6. s \in Nat /\ Route(r)[b][1] = s /\ Route(r)[b][2] = r + 1
  BY <1>3
<1> HIDE DEF s
<1>7. /\ V(s, r, iter) \in Nat \ {0}
      /\ \A t \in Nat : s # t => V(s, r, iter) # V(t, r, iter)
      /\ \A h \in Nat : r # h => V(s, r, iter) # V(s, h, iter)
      /\ \A jt \in Nat : iter # jt => V(s, r, iter) # V(s, r, jt)
  <2>1. s \in Nat /\ r \in Nat /\ iter \in Nat /\ job.np \in Nat \ {0}
    BY <1>1, <1>6
  <2>2. BlockTold(job, s, job.np, r, iter)
    BY ONLY <2>1, Wide(job), BlockTells
  <2> QED
    BY <2>2 DEF BlockTold
<1> HIDE DEF V
<1>8. \A c \in DOMAIN Route(r) : c - 1 # s => Told(r, c, iter) # V(s, r, iter)
  BY <1>3, <1>5, <1>7 DEF V
<1>9. BlocksOf(job, nbr[s]) = job.np
  BY <1>1 DEF BlocksOf
<1>10. \A i \in 1 .. job.np : i # r + 1 => V(s, i - 1, iter) # V(s, r, iter)
  <2>1. \A i \in 1 .. job.np : i - 1 \in Nat /\ (i # r + 1 => i - 1 # r)
    BY <1>1
  <2> QED
    BY <1>7, <2>1
<1>11. iter > 0 => V(s, r, iter - 1) # V(s, r, iter)
  <2>1. iter > 0 => iter - 1 \in Nat /\ iter # iter - 1
    BY <1>1
  <2> QED
    BY <1>7, <2>1
<1>12. \A it : Told(r, b, it) = V(s, r, it)
  BY <1>5 DEF s, V
<1>13. \A c \in DOMAIN Route(r) : Route(r)[c][1] = c - 1
  BY <1>3
<1>14. \A i : SentValue(job, s, nbr[s], iter, i) = V(s, i - 1, iter)
  BY <1>4 DEF V
<1>15. \A i : NotFor(r, b, i) => i # r + 1
  BY <1>6 DEF NotFor
<1> QED
  BY <1>6, <1>7, <1>8, <1>9, <1>10, <1>11, <1>12, <1>13, <1>14, <1>15 DEF Apart, V, s

LEMMA ApartGathered ==
  ASSUME Supplied, Wide(job), job.bench = "COLLECTIVE", job.subtype \in {"GATHER", "ALL_GATHER"},
         NEW r \in Procs, NEW b \in DOMAIN Route(r)
  PROVE  Apart(r, b) /\ Told(r, b, iter) = BlockValue(job, b - 1, job.np, 0, iter)
<1>1. /\ job.np \in Nat \ {0} /\ iter \in Nat /\ r \in Nat
      /\ job.bench # "PT2PT" /\ \A q \in Procs : q \in Nat /\ (q + 1) - 1 = q
  BY InTheLoop
<1>2. ASSUME NEW c \in DOMAIN Route(r)
      PROVE  /\ Route(r)[c][1] = c - 1 /\ c - 1 \in Nat
             /\ Route(r)[c][2] = IF job.subtype = "ALL_GATHER" /\ job.in_place THEN (c - 1) + 1 ELSE 1
  <2>1. CASE job.subtype = "GATHER"
    <3>1. Route(r) = [d \in {s + 1 : s \in IF r = Root THEN Others(r) ELSE {}} |-> <<d - 1, 1>>]
      BY <2>1, RouteMoves
    <3>2. PICK s \in Procs : c = s + 1
      BY <3>1 DEF Others
    <3>3. Route(r)[c] = <<c - 1, 1>> /\ c - 1 \in Nat
      BY <1>1, <3>1, <3>2
    <3> QED
      BY <2>1, <3>3
  <2>2. CASE job.subtype = "ALL_GATHER"
    <3>1. Route(r) = [d \in {s + 1 : s \in Others(r)} |->
                        <<d - 1, IF job.in_place THEN (d - 1) + 1 ELSE 1>>]
      BY <2>2, RouteMoves
    <3> QED
      BY <1>1, <2>2, <3>1 DEF Others
  <2> QED
    BY <2>1, <2>2
<1>3. ASSUME NEW c \in DOMAIN Route(r), NEW it
      PROVE  Told(r, c, it) = OnlyValue(job, c - 1, job.np, it)
  <2>1. CASE job.subtype = "GATHER"
    BY <1>1, <1>2, <2>1 DEF Told, SentValue, OnlyValue
  <2>2. CASE job.subtype = "ALL_GATHER"
    BY <1>1, <1>2, <2>2 DEF Told, SentValue, OnlyValue
  <2> QED
    BY <2>1, <2>2
<1> DEFINE s == b - 1
           V(q, it) == BlockValue(job, q, job.np, 0, it)
<1>4. s \in Nat /\ Route(r)[b][1] = s
  BY <1>2
<1> HIDE DEF s
<1>5. /\ V(s, iter) \in Nat \ {0}
      /\ \A t \in Nat : s # t => V(s, iter) # V(t, iter)
      /\ \A jt \in Nat : iter # jt => V(s, iter) # V(s, jt)
  <2>1. 0 \in Nat /\ s \in Nat /\ iter \in Nat /\ job.np \in Nat \ {0}
    BY <1>1, <1>4
  <2>2. BlockTold(job, s, job.np, 0, iter)
    BY ONLY <2>1, Wide(job), BlockTells
  <2> QED
    BY <2>2 DEF BlockTold
<1>6. ASSUME NEW q \in Nat, NEW it \in Nat PROVE OnlyValue(job, q, job.np, it) = V(q, it)
  <2>1. 0 \in Nat /\ job.np \in Nat \ {0}
    BY <1>1
  <2>2. BlockTold(job, q, job.np, 0, it)
    BY ONLY <2>1, q \in Nat, it \in Nat, Wide(job), BlockTells
  <2> QED
    BY <2>2 DEF BlockTold
<1> HIDE DEF V
<1>7. \A c \in DOMAIN Route(r) : \A it \in Nat : Told(r, c, it) = V(c - 1, it)
  BY <1>2, <1>3, <1>6
<1>8. \A c \in DOMAIN Route(r) : c - 1 # s => Told(r, c, iter) # V(s, iter)
  BY <1>1, <1>2, <1>5, <1>7
<1>9. iter > 0 => iter - 1 \in Nat /\ V(s, iter - 1) # V(s, iter)
  <2>1. iter > 0 => iter - 1 \in Nat /\ iter # iter - 1
    BY <1>1
  <2> QED
    BY <1>5, <2>1
<1>10. \A it \in Nat : Told(r, b, it) = V(s, it)
  BY <1>7 DEF s
<1>11. \A c \in DOMAIN Route(r) : Route(r)[c][1] = c - 1
  BY <1>2
<1>12. ~PerReceiver
  BY <1>1 DEF PerReceiver
<1> QED
  BY <1>1, <1>4, <1>5, <1>8, <1>9, <1>10, <1>11, <1>12 DEF Apart, V, s

LEMMA ApartScatter ==
  ASSUME Supplied, Wide(job), job.bench = "COLLECTIVE", job.subtype = "SCATTER",
         NEW r \in Procs, NEW b \in DOMAIN Route(r)
  PROVE  Apart(r, b) /\ Told(r, b, iter) = BlockValue(job, 0, job.np, r, iter)
<1>1. /\ job.np \in Nat \ {0} /\ iter \in Nat /\ r \in Nat /\ r + 1 \in 1 .. job.np
      /\ (r + 1) - 1 = r /\ job.bench # "PT2PT"
  BY InTheLoop
<1>2. Route(r) = [c \in IF job.in_place /\ r = Root THEN {} ELSE {1} |-> <<Root, r + 1>>]
  BY RouteMoves
<1>3. \A c \in DOMAIN Route(r) : Route(r)[c] = <<Root, r + 1>>
  BY <1>2
<1> DEFINE V(i, it) == BlockValue(job, 0, job.np, i, it)
<1>4. \A q, it, k : SentValue(job, q, nbr[q], it, k) = V(k - 1, it)
  BY <1>1 DEF SentValue, BlockValue
<1>5. /\ V(r, iter) \in Nat \ {0}
      /\ \A h \in Nat : r # h => V(r, iter) # V(h, iter)
      /\ \A jt \in Nat : iter # jt => V(r, iter) # V(r, jt)
  <2>1. 0 \in Nat /\ r \in Nat /\ iter \in Nat /\ job.np \in Nat \ {0}
    BY <1>1
  <2>2. BlockTold(job, 0, job.np, r, iter)
    BY ONLY <2>1, Wide(job), BlockTells
  <2> QED
    BY <2>2 DEF BlockTold
<1> HIDE DEF V
<1>6. Route(r)[b][1] = Root /\ Route(r)[b][2] = r + 1 /\ \A it : Told(r, b, it) = V(r, it)
  BY <1>1, <1>3, <1>4 DEF Told
<1>7. BlocksOf(job, nbr[Root]) = job.np
  BY <1>1 DEF BlocksOf
<1>8. \A i \in 1 .. job.np : i # r + 1 => V(i - 1, iter) # V(r, iter)
  <2>1. \A i \in 1 .. job.np : i - 1 \in Nat /\ (i # r + 1 => i - 1 # r)
    BY <1>1
  <2> QED
    BY <1>5, <2>1
<1>9. iter > 0 => V(r, iter - 1) # V(r, iter)
  <2>1. iter > 0 => iter - 1 \in Nat /\ iter # iter - 1
    BY <1>1
  <2> QED
    BY <1>5, <2>1
<1>10. \A i : NotFor(r, b, i) => i # r + 1
  BY <1>6 DEF NotFor
<1>11. \A c \in DOMAIN Route(r) : Route(r)[c][1] = Root
  BY <1>3
<1> QED
  BY <1>4, <1>5, <1>6, <1>7, <1>8, <1>9, <1>10, <1>11 DEF Apart, V

LEMMA ApartBcast ==
  ASSUME Supplied, Wide(job), job.bench = "COLLECTIVE", job.subtype = "BCAST", Root = 0,
         NEW r \in Procs, NEW b \in DOMAIN Route(r)
  PROVE  Apart(r, b)
<1>1. iter \in Nat /\ job.bench # "PT2PT"
  BY InTheLoop
<1>2. \A c \in DOMAIN Route(r) : Route(r)[c] = <<0, 1>>
  <2>1. Route(r) = [c \in IF r = Root THEN {} ELSE {1} |-> <<Root, 1>>]
    BY RouteMoves
  <2> QED
    BY <2>1
<1> DEFINE V(it) == BlockValue(job, 1, 1, 0, it)
<1>3. \A it : SentValue(job, 0, nbr[0], it, 1) = V(it)
  BY <1>1 DEF SentValue, BlockValue
<1>4. V(iter) \in Nat \ {0} /\ \A jt \in Nat : iter # jt => V(iter) # V(jt)
  <2>1. 0 \in Nat /\ 1 \in Nat /\ 1 \in Nat \ {0}
    OBVIOUS
  <2>2. BlockTold(job, 1, 1, 0, iter)
    BY ONLY <1>1, <2>1, Wide(job), BlockTells
  <2> QED
    BY <2>2 DEF BlockTold
<1> HIDE DEF V
<1>5. \A it : Told(r, b, it) = V(it)
  BY <1>2, <1>3 DEF Told
<1>6. iter > 0 => V(iter - 1) # V(iter)
  <2>1. iter > 0 => iter - 1 \in Nat /\ iter # iter - 1
    BY <1>1
  <2> QED
    BY <1>4, <2>1
<1>7. ~PerReceiver
  BY <1>1 DEF PerReceiver
<1> QED
  BY <1>2, <1>4, <1>5, <1>6, <1>7 DEF Apart

LEMMA EntryIs ==
  ASSUME Ready, NEW r \in Procs, NEW b \in DOMAIN Route(r)
  PROVE  Route(r)[b][1] \in Procs /\ Route(r)[b][2] \in 1 .. BlocksOf(job, nbr[Route(r)[b][1]])
<1>1. PICK s \in Procs : \E k \in 1 .. BlocksOf(job, nbr[s]) : Route(r)[b] = <<s, k>>
  BY RouteIs
<1>2. PICK k \in 1 .. BlocksOf(job, nbr[s]) : Route(r)[b] = <<s, k>>
  BY <1>1
<1> QED
  BY <1>2

LEMMA ApartMessage ==
  ASSUME Supplied, Wide(job), job.bench = "PT2PT", KnownLetters, NEW r \in Procs, NEW b \in DOMAIN Route(r)
  PROVE  Apart(r, b) /\ b \in 1 .. job.len /\ Told(r, b, iter) = MessageValue(job, b, iter)
<1>1. /\ job.subtype \in {"LAT", "MBW_MR"} /\ job.np \in Nat /\ job.len \in Nat /\ iter \in Nat
  BY InTheLoop, LoopIs
<1>2. Copies(job, Partner(r))
  BY DEF Copies, Letter, KnownLetters
<1>3. Route(r) = [i \in 1 .. job.len |-> <<Partner(r), i>>]
  BY <1>1, RouteMessage
<1>4. b \in 1 .. job.len /\ b \in Nat \ {0} /\ \A c \in DOMAIN Route(r) : Route(r)[c] = <<Partner(r), c>>
  BY <1>1, <1>3
<1>5. \A it, k : SentValue(job, Partner(r), nbr[Partner(r)], it, k) = MessageValue(job, k, it)
  BY <1>1, <1>2 DEF SentValue
<1>6. \A it : Told(r, b, it) = MessageValue(job, b, it)
  BY <1>4, <1>5 DEF Told
<1>7. BlocksOf(job, nbr[Partner(r)]) = job.len
  BY <1>1 DEF BlocksOf
<1>8. MessageValue(job, b, iter) \in Nat \ {0}
  BY <1>1, <1>4, MessageTells
<1>9. ASSUME NEW i \in 1 .. job.len, i # b
      PROVE  MessageValue(job, i, iter) # MessageValue(job, b, iter)
  <2>1. i \in Nat
    BY <1>1
  <2> QED
    BY <1>1, <1>4, <1>9, <2>1, MessageTells
<1>10. iter > 0 => MessageValue(job, b, iter - 1) # MessageValue(job, b, iter)
  <2>1. iter > 0 => iter - 1 \in Nat /\ iter # iter - 1
    BY <1>1
  <2> QED
    BY <1>1, <1>4, <2>1, MessageTells
<1>11. \A i : NotFor(r, b, i) => i # b
  BY <1>1, <1>4 DEF NotFor
<1> QED
  BY <1>4, <1>5, <1>6, <1>7, <1>8, <1>9, <1>10, <1>11 DEF Apart

\* The block a neighbour sends is the one it made for this rank.
LEMMA MeantFor ==
  ASSUME Supplied, job.subtype = "NHBR_ALLTOALL", NEW r \in Procs, NEW l \in DOMAIN Route(r)
  PROVE  nbr[Route(r)[l][1]].destinations[Route(r)[l][2]] = r
<1> DEFINE src == nbr[r].sources
           s == src[l]
           i == Nth(r, l)
           dest == nbr[s].destinations
<1>1. job.subtype \in Neighbors /\ Procs = 0 .. job.np - 1
  BY InTheLoop DEF Neighbors
<1>2. \A q \in Procs : Announced(job.np, nbr[q]) /\ Knows(job, q, nbr[q])
  <2>1. \A q \in Procs : InLoop(job, q, nbr[q], iter)
    BY InTheLoop
  <2> QED
    BY <1>1, <2>1 DEF InLoop, Supplied, Ready
<1>3. job.bench = "COLLECTIVE" /\ job \in Jobs /\ Neighborhood
  BY <1>1, JobIs DEF Supplied, Ready, WellMade, Neighborhood
<1>4. Route(r) = [k \in DOMAIN src |-> <<src[k], BlockFor(src[k], r, Nth(r, k))>>]
  BY <1>3, RouteMoves
<1>5. src \in Seq(Procs) /\ l \in 1 .. Len(src) /\ DOMAIN src = 1 .. Len(src)
  <2>1. src \in Seq(Procs)
    BY <1>1, <1>2 DEF Announced
  <2> HIDE DEF src
  <2> QED
    BY <1>4, <2>1
<1>6. s \in Procs
  BY <1>5, ElementOfSeq
<1>7. i \in 1 .. Count(src, s)
  BY <1>5, NthOf DEF Nth
<1>8. Count(src, s) = Count(dest, r)
  BY <1>2, <1>3, <1>6, KnownAgree
<1>9. dest \in Seq(Procs)
  BY <1>1, <1>2, <1>6 DEF Announced
<1>10. dest[BlockFor(s, r, i)] = r
  <2> HIDE DEF src, s, i
  <2> QED
    BY <1>7, <1>8, <1>9, BlockForIs
<1>11. Route(r)[l] = <<s, BlockFor(s, r, i)>>
  <2> HIDE DEF src
  <2> QED
    BY <1>4, <1>5
<1> QED
  BY <1>10, <1>11

LEMMA ApartNeighbors ==
  ASSUME Supplied, Wide(job), job.bench = "COLLECTIVE", job.subtype \in Neighbors,
         NEW r \in Procs, NEW b \in DOMAIN Route(r)
  PROVE  Apart(r, b)
<1>1. r \in Nat /\ iter \in Nat /\ job.bench # "PT2PT" /\ \A q \in Procs : q \in Nat
  BY InTheLoop
<1> DEFINE A(v) == AssignToType(v, job.dtype)
           more == IF job.subtype = "NHBR_GATHER" THEN 0 ELSE r
           V(s, it) == A(s + it + more + 1)
<1>2. /\ \A v \in Nat : A(v) \in Nat
      /\ \A v, u \in Nat : A(v) = A(u) => v = u
      /\ A(0) = 0
  BY AssignTells DEF Wide
<1> HIDE DEF A
<1>3. ASSUME NEW c \in DOMAIN Route(r)
      PROVE  /\ Route(r)[c][1] \in Procs /\ Route(r)[c][1] \in Nat
             /\ \A it \in Nat : Told(r, c, it) = V(Route(r)[c][1], it)
  <2> DEFINE s == Route(r)[c][1]
             k == Route(r)[c][2]
             n == nbr[s]
  <2>1. s \in Procs /\ s \in Nat
    BY <1>1, EntryIs DEF Supplied
  <2>2. CASE job.subtype = "NHBR_GATHER"
    <3> HIDE DEF s, k
    <3>1. \A it \in Nat : SentValue(job, s, n, it, k) = A(s + it + 1)
      BY <1>1, <2>2 DEF SentValue, A
    <3>2. \A it \in Nat : s + it + more + 1 = s + it + 1
      BY <2>1, <2>2
    <3> QED
      BY <2>1, <3>1, <3>2 DEF Told, s, k
  <2>3. CASE job.subtype = "NHBR_ALLTOALL"
    <3>1. n.destinations[k] = r
      BY <2>3, MeantFor
    <3> HIDE DEF s, k, n
    <3>2. \A it \in Nat : SentValue(job, s, n, it, k) = A(s + it + r + 1)
      BY <1>1, <2>3, <3>1 DEF SentValue, A
    <3> QED
      BY <2>1, <2>3, <3>2 DEF Told, s, k, n
  <2> QED
    BY <2>2, <2>3 DEF Neighbors
<1> DEFINE s == Route(r)[b][1]
<1>4. s \in Procs /\ s \in Nat /\ \A it \in Nat : Told(r, b, it) = V(s, it)
  BY <1>3
<1>5. more \in Nat
  BY <1>1
<1> HIDE DEF more, s
<1>6. Told(r, b, iter) \in Nat \ {0}
  <2>1. s + iter + more + 1 \in Nat \ {0}
    BY <1>1, <1>4, <1>5
  <2> QED
    BY <1>1, <1>2, <1>4, <2>1
<1>7. ASSUME NEW c \in DOMAIN Route(r), Route(r)[c][1] # s
      PROVE  Told(r, c, iter) # Told(r, b, iter)
  <2> DEFINE t == Route(r)[c][1]
  <2>1. t \in Nat /\ Told(r, c, iter) = V(t, iter)
    BY <1>1, <1>3
  <2>2. t # s
    BY <1>7
  <2> HIDE DEF t
  <2>3. t + iter + more + 1 \in Nat /\ s + iter + more + 1 \in Nat /\ t + iter + more + 1 # s + iter + more + 1
    BY <1>1, <1>4, <1>5, <2>1, <2>2
  <2> QED
    BY <1>1, <1>2, <1>4, <2>1, <2>3
<1>8. iter > 0 => Told(r, b, iter - 1) # Told(r, b, iter)
  <2>1. iter > 0 => /\ iter - 1 \in Nat /\ s + (iter - 1) + more + 1 \in Nat
                    /\ s + iter + more + 1 \in Nat /\ s + (iter - 1) + more + 1 # s + iter + more + 1
    BY <1>1, <1>4, <1>5
  <2> QED
    BY <1>1, <1>2, <1>4, <2>1
<1>9. ASSUME PerReceiver, NEW i \in 1 .. BlocksOf(job, nbr[s]), NotFor(r, b, i)
      PROVE  SentValue(job, s, nbr[s], iter, i) # Told(r, b, iter)
  <2>1. job.subtype = "NHBR_ALLTOALL"
    BY <1>1, <1>9 DEF PerReceiver, Neighbors
  <2>2. more = r
    BY <2>1 DEF more
  <2> DEFINE d == nbr[s].destinations[i]
  <2>3. d # r
    BY <1>9, <2>1 DEF NotFor, s
  <2>4. d \in Nat
    <3>1. Announced(job.np, nbr[s])
      BY <1>4, InTheLoop DEF InLoop
    <3>2. BlocksOf(job, nbr[s]) = Len(nbr[s].destinations)
      BY <1>1, <2>1, <3>1 DEF BlocksOf, Announced
    <3>3. nbr[s].destinations \in Seq(0 .. job.np - 1)
      BY <3>1 DEF Announced
    <3>4. d \in 0 .. job.np - 1
      BY <3>2, <3>3, ElementOfSeq
    <3> QED
      BY <3>4
  <2>5. SentValue(job, s, nbr[s], iter, i) = A(s + iter + d + 1)
    BY <1>1, <2>1 DEF SentValue, A
  <2> HIDE DEF d
  <2>6. s + iter + d + 1 \in Nat /\ s + iter + more + 1 \in Nat /\ s + iter + d + 1 # s + iter + more + 1
    BY <1>1, <1>4, <2>2, <2>3, <2>4
  <2> QED
    BY <1>1, <1>2, <1>4, <2>5, <2>6
<1> QED
  BY <1>6, <1>7, <1>8, <1>9 DEF Apart, s

LEMMA ApartAll ==
  ASSUME Supplied, Judged, ~Reduces, NEW r \in Procs, NEW b \in DOMAIN Route(r)
  PROVE  Apart(r, b)
<1>1. /\ Wide(job) /\ KnownLetters /\ (job.subtype = "BCAST" => Root = 0)
  BY InTheLoop DEF Judged, Plain, Wide, Misfilled
<1>2. /\ job.bench \in {"COLLECTIVE", "PT2PT"}
      /\ job.bench = "COLLECTIVE" => job.subtype \in Moving \cup Neighbors
  BY InTheLoop, LoopIs DEF Reduces
<1>3. CASE job.bench = "PT2PT"
  BY <1>1, <1>3, ApartMessage
<1>4. CASE job.bench = "COLLECTIVE" /\ job.subtype \in Neighbors
  BY <1>1, <1>4, ApartNeighbors
<1>5. CASE job.bench = "COLLECTIVE" /\ job.subtype \in Moving
  BY <1>1, <1>5, ApartAlltoall, ApartGathered, ApartScatter, ApartBcast DEF Moving
<1> QED
  BY <1>2, <1>3, <1>4, <1>5

\* What can be seen is compared, by a rank that validates.
LEMMA SeenIsCompared ==
  ASSUME Supplied, NEW r \in Procs, NEW b \in DOMAIN Route(r), NEW how, Visible(r, b, how)
  PROVE  b \in Compared(job, r, nbr[r]) /\ Validates(r)
<1>1. /\ job.np \in Nat \ {0} /\ job.np \in Nat /\ job.len \in Nat /\ r \in Nat
      /\ job.dtype \in DOMAIN SizeOfType /\ job.in_place \in BOOLEAN
      /\ Procs = 0 .. job.np - 1 /\ \A q \in Procs : q + 1 \in 1 .. job.np
      /\ job.bench = "COLLECTIVE" =>
           job.subtype \in Moving \cup Neighbors \cup {"REDUCE_SCATTER"} /\ job.bench # "PT2PT"
  BY InTheLoop
<1>2. CASE job.bench = "PT2PT"
  <2>1. job.subtype \in {"LAT", "MBW_MR"}
    BY <1>2, InTheLoop, LoopIs
  <2>2. b \in 1 .. job.len
    BY <1>2, <2>1, RouteMessage
  <2>3. job.dtype # "MPI_FLOAT" => b <= job.len \div SizeOfType[job.dtype]
    <3>1. job.dtype # "MPI_FLOAT" => b * SizeOfType[job.dtype] <= job.len
      BY <1>2 DEF Visible
    <3>2. SizeOfType[job.dtype] = 1 \/ SizeOfType[job.dtype] = 4
      BY <1>1 DEF SizeOfType
    <3> QED
      BY <1>1, <2>2, <3>1, <3>2
  <2>4. b \in 1 .. (IF job.dtype = "MPI_FLOAT" THEN job.len ELSE job.len \div SizeOfType[job.dtype])
    <3>1. SizeOfType[job.dtype] = 1 \/ SizeOfType[job.dtype] = 4
      BY <1>1 DEF SizeOfType
    <3>2. job.len \div SizeOfType[job.dtype] \in Nat
      BY <1>1, <3>1
    <3> QED
      BY <2>2, <2>3, <3>2
  <2> QED
    BY <1>2, <2>1, <2>4 DEF Compared, Neighbors, Validates
<1>3. CASE job.bench = "COLLECTIVE" /\ job.subtype = "REDUCE_SCATTER"
  <2>1. r = 0
    BY <1>3 DEF Visible, Reduces
  <2>2. RecvCounts(job)[0] \in Nat /\ FirstOf(job, 0) = 0
    BY <1>1, <2>1, FirstIs
  <2>3. b \in 1 .. RecvCounts(job)[0]
    BY <1>3, <2>1, RouteMoves
  <2>4. Compared(job, r, nbr[r]) = {i + 1 : i \in FirstOf(job, r) .. RecvCounts(job)[r] - 1}
    BY <1>1, <1>3 DEF Compared, Neighbors
  <2>5. b - 1 \in 0 .. RecvCounts(job)[0] - 1 /\ (b - 1) + 1 = b
    BY <2>2, <2>3
  <2> QED
    BY <1>3, <2>1, <2>2, <2>4, <2>5 DEF Validates
<1>4. CASE job.bench = "COLLECTIVE" /\ job.subtype \in Neighbors
  <2>1. DOMAIN Route(r) = DOMAIN nbr[r].sources
    <3>1. CASE job.subtype = "NHBR_GATHER"
      <4>1. Route(r) = [l \in DOMAIN nbr[r].sources |-> <<nbr[r].sources[l], 1>>]
        BY <1>4, <3>1, RouteMoves
      <4> QED
        BY <4>1
    <3>2. CASE job.subtype = "NHBR_ALLTOALL"
      <4>1. Route(r) = [l \in DOMAIN nbr[r].sources |->
                          <<nbr[r].sources[l], BlockFor(nbr[r].sources[l], r, Nth(r, l))>>]
        BY <1>4, <3>2, RouteMoves
      <4> QED
        BY <4>1
    <3> QED
      BY <1>4, <3>1, <3>2 DEF Neighbors
  <2>2. Announced(job.np, nbr[r])
    BY <1>4, InTheLoop DEF InLoop
  <2>3. b \in 1 .. nbr[r].indegree
    BY <2>1, <2>2 DEF Announced
  <2> QED
    BY <1>1, <1>4, <2>3 DEF Compared, Neighbors, Validates
<1>5. CASE job.bench = "COLLECTIVE" /\ job.subtype \in {"ALLTOALL", "GATHER", "ALL_GATHER"}
  <2>1. Others(r) \subseteq Procs
    BY DEF Others
  <2>2. (\E s \in Procs : b = s + 1) /\ (job.subtype = "GATHER" => r = Root)
    <3>1. CASE job.subtype = "ALLTOALL"
      <4>1. Route(r) = [d \in {s + 1 : s \in Others(r)} |-> <<d - 1, r + 1>>]
        BY <1>5, <3>1, RouteMoves
      <4> QED
        BY <2>1, <3>1, <4>1
    <3>2. CASE job.subtype = "GATHER"
      <4>1. Route(r) = [d \in {s + 1 : s \in IF r = Root THEN Others(r) ELSE {}} |-> <<d - 1, 1>>]
        BY <1>5, <3>2, RouteMoves
      <4> QED
        BY <2>1, <4>1
    <3>3. CASE job.subtype = "ALL_GATHER"
      <4>1. Route(r) = [d \in {s + 1 : s \in Others(r)} |->
                          <<d - 1, IF job.in_place THEN (d - 1) + 1 ELSE 1>>]
        BY <1>5, <3>3, RouteMoves
      <4> QED
        BY <2>1, <3>3, <4>1
    <3> QED
      BY <1>5, <3>1, <3>2, <3>3
  <2>3. b \in 1 .. job.np
    BY <1>1, <2>2
  <2>4. job.dtype = "MPI_FLOAT" => b = 1
    BY <1>1, <1>5 DEF Visible, Neighborhood, Neighbors, Reduces
  <2> QED
    BY <1>1, <1>5, <2>2, <2>3, <2>4 DEF Compared, Neighbors, Validates
<1>6. CASE job.bench = "COLLECTIVE" /\ job.subtype \in {"SCATTER", "BCAST"}
  <2>1. b = 1
    <3>1. CASE job.subtype = "SCATTER"
      <4>1. Route(r) = [d \in IF job.in_place /\ r = Root THEN {} ELSE {1} |-> <<Root, r + 1>>]
        BY <1>6, <3>1, RouteMoves
      <4> QED
        BY <4>1
    <3>2. CASE job.subtype = "BCAST"
      <4>1. Route(r) = [d \in IF r = Root THEN {} ELSE {1} |-> <<Root, 1>>]
        BY <1>6, <3>2, RouteMoves
      <4> QED
        BY <4>1
    <3> QED
      BY <1>6, <3>1, <3>2
  <2> QED
    BY <1>1, <1>6, <2>1 DEF Compared, Neighbors, Validates
<1>7. job.bench \in {"COLLECTIVE", "PT2PT"}
  BY InTheLoop, LoopIs
<1> QED
  BY <1>1, <1>2, <1>3, <1>4, <1>5, <1>6, <1>7 DEF Moving

\* What is expected at a place is what is sent there.
LEMMA TellsExpected ==
  ASSUME Supplied, Judged, ~Reduces, NEW r \in Procs, Validates(r), NEW b \in DOMAIN Route(r),
         b \in Compared(job, r, nbr[r])
  PROVE  Told(r, b, iter) = Expected(job, r, nbr[r], iter, b)
<1>1. Delivers(r, b)
  BY DeliversAll DEF Judged, Looked
<1>2. b \in 1 .. SlotsOf(job, nbr[r]) /\ Received(r)[b] = Expected(job, r, nbr[r], iter, b)
  BY <1>1 DEF Delivers
<1>3. ~(job.subtype = "SCATTER" /\ job.in_place /\ r = Root)
  <2>1. job.subtype = "SCATTER" => job.bench = "COLLECTIVE"
    BY JobIs DEF Supplied, Ready, WellMade
  <2> QED
    BY <2>1, RouteMoves
<1>4. Received(r)[b] = Arriving(bufs, Route(r)[b][1], Route(r)[b][2])
  BY <1>2, <1>3, ReceivedAt
<1>5. Route(r)[b][1] \in Procs /\ Route(r)[b][2] \in 1 .. BlocksOf(job, nbr[Route(r)[b][1]])
  BY EntryIs DEF Supplied
<1>6. Arriving(bufs, Route(r)[b][1], Route(r)[b][2]) = Told(r, b, iter)
  BY <1>5, ArrivingAt DEF Told
<1> QED
  BY <1>2, <1>4, <1>6

\* A block that moved the wrong way does not hold what is sent to its place.
LEMMA WrongMoved ==
  ASSUME Supplied, Judged, ~Reduces, iter > 0 => \A q \in Procs : Spoke(q, last[q], iter - 1),
         NEW r \in Procs, NEW b \in DOMAIN Route(r), NEW w \in Wrong(r, b), ~Absent(r, b, w)
  PROVE  w[2] # Told(r, b, iter)
<1> DEFINE s == Route(r)[b][1]
           k == Route(r)[b][2]
<1>1. \A c \in DOMAIN Route(r) :
        Route(r)[c][1] \in Procs /\ Route(r)[c][2] \in 1 .. BlocksOf(job, nbr[Route(r)[c][1]])
  BY EntryIs DEF Supplied
<1>2. Apart(r, b)
  BY ApartAll
<1>3. CASE FromAnother(r, b, w)
  <2>1. PICK c \in DOMAIN Route(r) : Route(r)[c][1] # s
                                     /\ w = <<"sender", Arriving(bufs, Route(r)[c][1], Route(r)[c][2])>>
    BY <1>3 DEF FromAnother
  <2>2. Arriving(bufs, Route(r)[c][1], Route(r)[c][2]) = Told(r, c, iter)
    BY <1>1, ArrivingAt DEF Told
  <2>3. w[2] = Told(r, c, iter)
    BY <2>1, <2>2
  <2> QED
    BY <1>2, <2>1, <2>3 DEF Apart
<1>4. CASE ForAnother(r, b, w)
  <2>1. s \in Procs
    BY <1>1
  <2>2. Sent(bufs, s) = [i \in 1 .. BlocksOf(job, nbr[s]) |-> SentValue(job, s, nbr[s], iter, i)]
    BY <2>1 DEF Sent, InPlaceSent, Supplied, Filled
  <2>3. PICK i \in DOMAIN Sent(bufs, s) :
          /\ IF job.subtype = "NHBR_ALLTOALL"
             THEN i \in DOMAIN nbr[s].destinations => nbr[s].destinations[i] # r
             ELSE i # k
          /\ w = <<"receiver", Arriving(bufs, s, i)>>
    BY <1>4 DEF ForAnother
  <2>4. i \in 1 .. BlocksOf(job, nbr[s])
    BY <2>2
  <2>5. Arriving(bufs, s, i) = SentValue(job, s, nbr[s], iter, i)
    BY <2>1, <2>4, ArrivingAt
  <2>6. w[2] = SentValue(job, s, nbr[s], iter, i)
    BY <2>3, <2>5
  <2>7. PerReceiver
    BY <1>4 DEF ForAnother, PerReceiver
  <2>8. job.subtype = "NHBR_ALLTOALL" => i \in DOMAIN nbr[s].destinations
    <3>1. ASSUME job.subtype = "NHBR_ALLTOALL"
          PROVE  Announced(job.np, nbr[s]) /\ BlocksOf(job, nbr[s]) = nbr[s].outdegree
      <4>1. job.bench # "PT2PT"
        BY <3>1, JobIs DEF Supplied, Ready, WellMade
      <4>2. InLoop(job, s, nbr[s], iter)
        BY <2>1, InTheLoop
      <4> QED
        BY <3>1, <4>1, <4>2 DEF InLoop, Neighbors, BlocksOf
    <3> QED
      BY <2>4, <3>1 DEF Announced
  <2>9. NotFor(r, b, i)
    BY <2>3, <2>8 DEF NotFor
  <2> QED
    BY <1>2, <2>4, <2>6, <2>7, <2>9 DEF Apart
<1>5. CASE FromBefore(r, b, w)
  <2>1. iter > 0 /\ w = <<"before", Arriving(last, s, k)>> /\ s \in Procs /\ k \in 1 .. BlocksOf(job, nbr[s])
    BY <1>1, <1>5 DEF FromBefore
  <2>2. Arriving(last, s, k) = Sent(last, s)[k]
    BY DEF Arriving
  <2>3. Sent(last, s) = SentOf(job, last[s])
    BY DEF Sent, SentOf, InPlaceSent
  <2>4. Spoke(s, last[s], iter - 1)
    BY <2>1
  <2>5. SentOf(job, last[s])[k] = SentValue(job, s, nbr[s], iter - 1, k)
    BY <2>1, <2>4 DEF Spoke, Said
  <2>6. w[2] = Told(r, b, iter - 1)
    BY <2>1, <2>2, <2>3, <2>5 DEF Told
  <2> QED
    BY <1>2, <2>1, <2>6 DEF Apart
<1> QED
  BY <1>3, <1>4, <1>5, WrongForms DEF Short

\* Within 100 elements a contribution tells its element and its iteration.
ReduceTold(j, k, it) ==
  /\ ReduceValue(j, k - 1, it) \in Nat \ {0}
  /\ \A i \in 1 .. j.len : i # k => ReduceValue(j, i - 1, it) # ReduceValue(j, k - 1, it)
  /\ \A jt \in Nat : jt # it => ReduceValue(j, k - 1, jt) # ReduceValue(j, k - 1, it)

LEMMA ReduceTells ==
  ASSUME NEW j, Wide(j), j.len \in Nat, j.len <= 100, NEW k \in 1 .. j.len, NEW it \in Nat
  PROVE  ReduceTold(j, k, it)
<1> DEFINE A(v) == AssignToType(v, j.dtype)
<1>1. /\ \A v \in Nat : A(v) \in Nat
      /\ \A v, u \in Nat : A(v) = A(u) => v = u
      /\ A(0) = 0
  BY AssignTells DEF Wide
<1>2. \A i \in 1 .. j.len : \A t \in Nat : ReduceValue(j, i - 1, t) = A(i * (t + 1))
  <2>1. \A i \in 1 .. j.len : ((i - 1) % 100) + 1 = i
    OBVIOUS
  <2> QED
    BY <2>1 DEF ReduceValue
<1> HIDE DEF A
<1>3. \A x, y \in Nat : x * (y + 1) \in Nat /\ (x > 0 => x * (y + 1) > 0)
  OBVIOUS
<1>4. k * (it + 1) \in Nat \ {0}
  BY <1>3
<1>5. ReduceValue(j, k - 1, it) \in Nat \ {0}
  BY <1>1, <1>2, <1>4
<1>6. ASSUME NEW i \in 1 .. j.len, i # k
      PROVE  ReduceValue(j, i - 1, it) # ReduceValue(j, k - 1, it)
  <2>1. \A x, y \in Nat : x < y => x * (it + 1) < y * (it + 1)
    OBVIOUS
  <2>2. i * (it + 1) # k * (it + 1) /\ i * (it + 1) \in Nat
    BY <1>3, <1>4, <1>6, <2>1
  <2> QED
    BY <1>1, <1>2, <1>4, <2>2
<1>7. ASSUME NEW jt \in Nat, jt # it
      PROVE  ReduceValue(j, k - 1, jt) # ReduceValue(j, k - 1, it)
  <2>1. \A x, y \in Nat : x < y => k * (x + 1) < k * (y + 1)
    OBVIOUS
  <2>2. k * (jt + 1) # k * (it + 1) /\ k * (jt + 1) \in Nat
    <3>1. jt < it \/ it < jt
      BY <1>7
    <3>2. k * (jt + 1) \in Nat
      BY <1>3
    <3>3. (jt < it => k * (jt + 1) < k * (it + 1)) /\ (it < jt => k * (it + 1) < k * (jt + 1))
      BY <2>1
    <3> QED
      BY <1>4, <3>1, <3>2, <3>3
  <2> QED
    BY <1>1, <1>2, <1>4, <2>2
<1> QED
  BY <1>5, <1>6, <1>7 DEF ReduceTold

\* The sum of what some ranks contribute to element k.
LEMMA SumOverIs ==
  ASSUME Ready, Reduces, Wide(job), NEW bs, NEW ranks \in SUBSET Procs, NEW k, NEW v \in Nat,
         \A q \in ranks : Sent(bs, q)[k] = v
  PROVE  SumOver(bs, ranks, k) = Cardinality(ranks) * v
<1> DEFINE f == [s \in ranks |-> Sent(bs, s)[k]]
<1>1. IsFiniteSet(ranks)
  <2>1. IsFiniteSet(0 .. job.np - 1)
    <3>1. 0 \in Int /\ job.np - 1 \in Int
      BY ReadyIs
    <3> QED
      BY ONLY <3>1, FS_Interval
  <2> QED
    BY <2>1, FS_Subset DEF Procs
<1>2. f \in [ranks -> Nat] /\ \A s \in ranks : f[s] = v
  OBVIOUS
<1>3. SumOver(bs, ranks, k) = SumFunction(f)
  BY DEF SumOver, Wide
<1> HIDE DEF f
<1> QED
  BY <1>1, <1>2, <1>3, SumOfEquals

\* Rank 0, the only one to validate a reduction, and what it receives.
LEMMA SumExpected ==
  ASSUME Supplied, Judged, Reduces, 0 \in Procs, NEW b \in DOMAIN Route(0)
  PROVE  /\ job.np \in Nat /\ job.np > 1 /\ job.len \in Nat /\ iter \in Nat
         /\ b \in 1 .. job.len /\ Route(0)[b] = <<0, b>> /\ \A c \in DOMAIN Route(0) : Route(0)[c][1] = 0
         /\ ReduceTold(job, b, iter) /\ Wide(job)
         /\ Expected(job, 0, nbr[0], iter, b) = job.np * ReduceValue(job, b - 1, iter)
         /\ IsFiniteSet(Procs) /\ Cardinality(Procs) = job.np
         /\ \A q : BlocksOf(job, nbr[q]) = job.len
<1>1. /\ job.np \in Nat /\ job.np > 1 /\ job.len \in Nat /\ job.len <= 100 /\ iter \in Nat /\ Wide(job)
      /\ job.np \in Nat \ {0} /\ 0 \in 0 .. job.np - 1
  BY InTheLoop DEF Judged, Plain, Wide, Reduces
<1>2. job.bench = "COLLECTIVE" /\ job.subtype = "REDUCE_SCATTER" /\ job.bench # "PT2PT"
  BY JobIs DEF Supplied, Ready, WellMade, Reduces
<1>3. /\ RecvCounts(job)[0] \in Nat /\ FirstOf(job, 0) = 0
      /\ FirstOf(job, 0) + RecvCounts(job)[0] <= job.len
  BY <1>1, FirstIs
<1>4. Route(0) = [i \in 1 .. RecvCounts(job)[0] |-> <<0, FirstOf(job, 0) + i>>]
  BY <1>2, RouteMoves
<1>5. /\ b \in 1 .. job.len /\ Route(0)[b] = <<0, b>> /\ \A c \in DOMAIN Route(0) : Route(0)[c][1] = 0
  BY <1>1, <1>3, <1>4
<1>6. ReduceTold(job, b, iter)
  BY <1>1, <1>5, ReduceTells
<1> DEFINE x == (((b - 1) % 100) + 1) * (iter + 1)
<1>7. x \in Nat
  <2>1. ((b - 1) % 100) + 1 \in Nat /\ iter + 1 \in Nat /\ \A y, z \in Nat : y * z \in Nat
    BY <1>1, <1>5
  <2> QED
    BY <2>1
<1>8. ReduceValue(job, b - 1, iter) = AssignToType(x, job.dtype)
  BY DEF ReduceValue
<1>9. Expected(job, 0, nbr[0], iter, b) = AssignToType(x * job.np, job.dtype)
  BY <1>2 DEF Expected
<1> HIDE DEF x
<1>10. job.np * AssignToType(x, job.dtype) = AssignToType(x * job.np, job.dtype)
  BY <1>1, <1>7, SumsAgree DEF Wide
<1>11. IsFiniteSet(Procs) /\ Cardinality(Procs) = job.np
  <2>1. Cardinality(0 .. job.np - 1) = (job.np - 1) - 0 + 1 /\ IsFiniteSet(0 .. job.np - 1)
    <3>1. 0 \in Int /\ job.np - 1 \in Int /\ ~(0 > job.np - 1)
      BY <1>1
    <3> QED
      BY ONLY <3>1, FS_Interval
  <2> QED
    BY <1>1, <2>1 DEF Procs
<1>12. \A q : BlocksOf(job, nbr[q]) = job.len
  BY <1>2 DEF BlocksOf
<1> QED
  BY <1>1, <1>5, <1>6, <1>8, <1>9, <1>10, <1>11, <1>12

\* A sum that lacks a rank, has other elements or older ones is another.
LEMMA WrongSum ==
  ASSUME Supplied, Judged, Reduces, iter > 0 => \A q \in Procs : Spoke(q, last[q], iter - 1),
         0 \in Procs, NEW b \in DOMAIN Route(0), NEW w \in Wrong(0, b), ~Absent(0, b, w)
  PROVE  w[2] # Expected(job, 0, nbr[0], iter, b)
<1> DEFINE n == job.np
           v == ReduceValue(job, b - 1, iter)
<1>1. /\ n \in Nat /\ n > 1 /\ job.len \in Nat /\ iter \in Nat /\ Wide(job) /\ Ready
      /\ b \in 1 .. job.len /\ Route(0)[b] = <<0, b>>
      /\ \A c \in DOMAIN Route(0) : Route(0)[c][1] = 0
      /\ Expected(job, 0, nbr[0], iter, b) = n * v
      /\ IsFiniteSet(Procs) /\ Cardinality(Procs) = n
      /\ \A q : BlocksOf(job, nbr[q]) = job.len
  BY SumExpected DEF Supplied
<1>2. /\ v \in Nat \ {0}
      /\ \A i \in 1 .. job.len : i # b => ReduceValue(job, i - 1, iter) # v
      /\ \A jt \in Nat : jt # iter => ReduceValue(job, b - 1, jt) # v
  BY SumExpected DEF ReduceTold
<1>3. job.bench # "PT2PT" /\ job.subtype = "REDUCE_SCATTER"
  BY JobIs DEF Supplied, Ready, WellMade, Reduces
<1>4. \A q, it, i : SentValue(job, q, nbr[q], it, i) = ReduceValue(job, i - 1, it)
  BY <1>3 DEF SentValue
<1>5. ASSUME NEW q \in Procs, NEW i \in 1 .. job.len
      PROVE  Sent(bufs, q)[i] = ReduceValue(job, i - 1, iter)
  <2>1. Sent(bufs, q) = [k \in 1 .. BlocksOf(job, nbr[q]) |-> SentValue(job, q, nbr[q], iter, k)]
    BY DEF Sent, InPlaceSent, Supplied, Filled
  <2>2. BlocksOf(job, nbr[q]) = job.len /\ SentValue(job, q, nbr[q], iter, i) = ReduceValue(job, i - 1, iter)
    BY <1>1, <1>4
  <2> QED
    BY <2>1, <2>2
<1>6. ASSUME NEW i \in 1 .. job.len, NEW jt \in Nat
      PROVE  ReduceValue(job, i - 1, jt) \in Nat
  <2>1. ReduceTold(job, i, jt)
    <3>1. job.len <= 100
      BY DEF Judged, Plain, Reduces
    <3> QED
      BY <1>1, <3>1, ReduceTells
  <2> QED
    BY <2>1 DEF ReduceTold
<1> HIDE DEF v
<1>7. \A x, y \in Nat : x # y => n * x # n * y
  <2>1. \A x, y \in Nat : x < y => n * x < n * y
    BY <1>1
  <2>2. \A x \in Nat : n * x \in Nat
    BY <1>1
  <2> HIDE DEF n
  <2> QED
    BY <2>1, <2>2
<1>8. CASE FromAnother(0, b, w)
  BY <1>1, <1>8 DEF FromAnother
<1>9. CASE Short(0, b, w)
  <2>0. Route(0)[b][2] = b
    BY <1>1
  <2>1. PICK q \in Procs : w = <<"sender", SumOver(bufs, Procs \ {q}, b)>>
    BY <1>9, <2>0 DEF Short
  <2>2. \A p \in Procs \ {q} : Sent(bufs, p)[b] = v
    BY <1>1, <1>5 DEF v
  <2>3. Procs \ {q} \in SUBSET Procs /\ v \in Nat
    BY <1>2
  <2>4. SumOver(bufs, Procs \ {q}, b) = Cardinality(Procs \ {q}) * v
    BY <1>1, <2>2, <2>3, SumOverIs
  <2>5. Cardinality(Procs \ {q}) = n - 1
    BY <1>1, FS_RemoveElement
  <2>6. (n - 1) * v # n * v
    <3>1. n * v = (n - 1) * v + v /\ (n - 1) * v \in Nat
      BY <1>1, <1>2
    <3> QED
      BY <1>2, <3>1
  <2> QED
    BY <1>1, <2>1, <2>4, <2>5, <2>6
<1>10. CASE ForAnother(0, b, w)
  <2>1. PICK i \in DOMAIN Sent(bufs, 0) : i # b /\ w = <<"receiver", Arriving(bufs, 0, i)>>
    BY <1>1, <1>3, <1>10 DEF ForAnother
  <2>2. DOMAIN Sent(bufs, 0) = 1 .. job.len
    <3>1. Sent(bufs, 0) = [k \in 1 .. BlocksOf(job, nbr[0]) |-> SentValue(job, 0, nbr[0], iter, k)]
      BY DEF Sent, InPlaceSent, Supplied, Filled
    <3> QED
      BY <1>1, <3>1
  <2> DEFINE u == ReduceValue(job, i - 1, iter)
  <2>3. u \in Nat /\ u # v
    BY <1>1, <1>2, <1>6, <2>1, <2>2
  <2>4. \A q \in Procs : Sent(bufs, q)[i] = u
    BY <1>5, <2>2
  <2> HIDE DEF u
  <2>5. SumOver(bufs, Procs, i) = n * u
    <3>1. Procs \in SUBSET Procs
      OBVIOUS
    <3> QED
      BY <1>1, <2>3, <2>4, <3>1, SumOverIs
  <2>6. w[2] = n * u
    BY <2>1, <2>5 DEF Arriving
  <2> QED
    BY <1>1, <1>2, <1>7, <2>3, <2>6
<1>11. CASE FromBefore(0, b, w)
  <2>1. iter > 0 /\ w = <<"before", Arriving(last, 0, b)>>
    BY <1>1, <1>11 DEF FromBefore
  <2>2. iter - 1 \in Nat /\ iter - 1 # iter
    BY <1>1, <2>1
  <2> DEFINE u == ReduceValue(job, b - 1, iter - 1)
  <2>3. u \in Nat /\ u # v
    BY <1>1, <1>2, <1>6, <2>2
  <2>4. ASSUME NEW q \in Procs PROVE Sent(last, q)[b] = u
    <3>1. Spoke(q, last[q], iter - 1)
      BY <2>1
    <3>2. Sent(last, q) = SentOf(job, last[q])
      BY DEF Sent, SentOf, InPlaceSent
    <3>3. /\ BlocksOf(job, nbr[q]) = job.len
          /\ SentValue(job, q, nbr[q], iter - 1, b) = ReduceValue(job, b - 1, iter - 1)
      BY <1>1, <1>4
    <3> QED
      BY <1>1, <3>1, <3>2, <3>3 DEF Spoke, Said, u
  <2> HIDE DEF u
  <2>5. SumOver(last, Procs, b) = n * u
    <3>1. Procs \in SUBSET Procs
      OBVIOUS
    <3> QED
      BY <1>1, <2>3, <2>4, <3>1, SumOverIs
  <2>6. w[2] = n * u
    BY <2>1, <2>5 DEF Arriving
  <2> QED
    BY <1>1, <1>2, <1>7, <2>3, <2>6
<1> QED
  BY <1>8, <1>9, <1>10, <1>11, WrongForms

\* A wrong block that can be seen is not what is expected.
LEMMA WrongSeen ==
  ASSUME Supplied, Judged, iter > 0 => \A q \in Procs : Spoke(q, last[q], iter - 1),
         NEW r \in Procs, Untouched(r), NEW b \in DOMAIN Route(r), NEW w \in Wrong(r, b), Visible(r, b, w[1])
  PROVE  /\ Validates(r) /\ b \in Compared(job, r, nbr[r])
         /\ w[2] # Expected(job, r, nbr[r], iter, b)
<1>1. Validates(r) /\ b \in Compared(job, r, nbr[r])
  BY SeenIsCompared
<1>2. CASE Absent(r, b, w)
  <2>1. w[1] = "none" /\ w[2] = bufs[r].r[b]
    BY <1>2, WrongForms
  <2> QED
    BY <1>1, <2>1 DEF Untouched
<1>3. CASE ~Absent(r, b, w) /\ Reduces
  <2>1. r = 0
    BY <1>3 DEF Visible
  <2> QED
    BY <1>1, <1>3, <2>1, WrongSum
<1>4. CASE ~Absent(r, b, w) /\ ~Reduces
  <2>1. w[2] # Told(r, b, iter)
    BY <1>4, WrongMoved
  <2>2. Told(r, b, iter) = Expected(job, r, nbr[r], iter, b)
    BY <1>1, <1>4, TellsExpected
  <2> QED
    BY <1>1, <2>1, <2>2
<1> QED
  BY <1>2, <1>3, <1>4

\* What is expected of a gather to all or a reduction is not 0, and something
\* else in every iteration.
Renewed(j, s, n, it, k) ==
  /\ Expected(j, s, n, it, k) \in Nat \ {0}
  /\ it > 0 => Expected(j, s, n, it - 1, k) # Expected(j, s, n, it, k)

LEMMA GatherRenewed ==
  ASSUME NEW j, NEW s, NEW n, NEW it, Moves(j, s, it), Wide(j), j.subtype = "ALL_GATHER",
         NEW k \in Compared(j, s, n)
  PROVE  Renewed(j, s, n, it, k)
<1>1. j.bench # "PT2PT" /\ j.np \in Nat \ {0} /\ j.np \in Nat /\ it \in Nat /\ 0 \in Nat
  BY DEF Moves
<1>2. k - 1 \in Nat
  BY <1>1 DEF Compared, Neighbors
<1> DEFINE q == k - 1
           V(t) == BlockValue(j, q, j.np, 0, t)
<1>3. q \in Nat
  BY <1>2
<1>4. \A t : Expected(j, s, n, t, k) = CollectiveValue(j, 0, j.np, t, q)
  BY <1>1 DEF Expected
<1> HIDE DEF q
<1>5. ASSUME NEW t \in Nat PROVE Expected(j, s, n, t, k) = V(t)
  BY ONLY <1>1, <1>3, <1>4, t \in Nat, ValuesAgree
<1>6. V(it) \in Nat \ {0} /\ \A jt \in Nat : it # jt => V(it) # V(jt)
  <2>1. BlockTold(j, q, j.np, 0, it)
    BY ONLY <1>1, <1>3, Wide(j), BlockTells
  <2> QED
    BY <2>1 DEF BlockTold
<1> HIDE DEF V
<1>7. it > 0 => it - 1 \in Nat /\ it # it - 1
  BY <1>1
<1> QED
  BY <1>1, <1>5, <1>6, <1>7 DEF Renewed

LEMMA SumRenewed ==
  ASSUME NEW j, NEW s, NEW n, NEW it, Moves(j, s, it), Wide(j), Plain(j),
         j.subtype = "REDUCE_SCATTER", NEW k \in Compared(j, s, n)
  PROVE  Renewed(j, s, n, it, k)
<1>1. /\ j.bench # "PT2PT" /\ j.np \in Nat \ {0} /\ j.np \in Nat /\ it \in Nat
      /\ j.len \in Nat /\ j.len <= 100 /\ s \in 0 .. j.np - 1 /\ j.np > 1
      /\ j.dtype \in DOMAIN SizeOfType /\ j.dtype # "MPI_CHAR"
  BY DEF Moves, Plain, Wide
<1> DEFINE first == FirstOf(j, s)
           count == RecvCounts(j)[s]
<1>2. /\ count \in Nat /\ first \in Nat /\ first + count <= j.len
      /\ FirstOf(j, 0) = 0 /\ (s # 0 => count <= first)
  BY <1>1, FirstIs
<1>3. Compared(j, s, n) = {i + 1 : i \in first .. count - 1}
  BY <1>1 DEF Compared, Neighbors
<1> HIDE DEF first, count
<1>4. k \in 1 .. j.len
  BY <1>1, <1>2, <1>3
<1> DEFINE V(t) == ReduceValue(j, k - 1, t)
<1>5. ASSUME NEW t \in Nat PROVE Expected(j, s, n, t, k) = j.np * V(t)
  <2> DEFINE x == (((k - 1) % 100) + 1) * (t + 1)
  <2>1. x \in Nat
    <3>1. (k - 1) % 100 \in Nat /\ \A a, b \in Nat : (a + 1) * (b + 1) \in Nat
      BY <1>1, <1>4
    <3> QED
      BY <3>1
  <2>2. V(t) = AssignToType(x, j.dtype)
    BY DEF ReduceValue
  <2>3. Expected(j, s, n, t, k) = AssignToType(x * j.np, j.dtype)
    BY <1>1 DEF Expected
  <2> HIDE DEF x
  <2>4. j.np * AssignToType(x, j.dtype) = AssignToType(x * j.np, j.dtype)
    BY <1>1, <2>1, SumsAgree
  <2> QED
    BY <2>2, <2>3, <2>4
<1>6. V(it) \in Nat \ {0} /\ \A jt \in Nat : jt # it => V(jt) # V(it)
  <2>1. ReduceTold(j, k, it)
    BY <1>1, <1>4, ReduceTells
  <2> QED
    BY <2>1 DEF ReduceTold
<1>7. ASSUME it > 0 PROVE it - 1 \in Nat /\ V(it - 1) \in Nat /\ V(it - 1) # V(it)
  <2>1. it - 1 \in Nat /\ it - 1 # it
    BY <1>1, <1>7
  <2>2. ReduceTold(j, k, it - 1)
    BY <1>1, <1>4, <2>1, ReduceTells
  <2>3. V(it - 1) \in Nat
    BY <2>2 DEF ReduceTold
  <2> QED
    BY <1>6, <2>1, <2>3
<1> HIDE DEF V
<1>8. \A x, y \in Nat : (x # y => j.np * x # j.np * y) /\ (x > 0 => j.np * x \in Nat \ {0})
  <2> DEFINE m == j.np
  <2>1. m \in Nat /\ m > 1
    BY <1>1
  <2> HIDE DEF m
  <2>2. \A x \in Nat : x > 0 => m * x \in Nat \ {0}
    BY <2>1
  <2>3. \A x, d \in Nat : m * (x + d) = m * x + m * d /\ m * x \in Nat
    BY <2>1
  <2>4. \A x, y \in Nat : x < y => m * x # m * y
    <3> SUFFICES ASSUME NEW x \in Nat, NEW y \in Nat, x < y PROVE m * x # m * y
      OBVIOUS
    <3>1. y - x \in Nat /\ y - x > 0 /\ y = x + (y - x)
      OBVIOUS
    <3> DEFINE d == y - x
    <3>2. d \in Nat /\ d > 0 /\ y = x + d
      BY <3>1
    <3> HIDE DEF d
    <3>3. m * y = m * x + m * d /\ m * d \in Nat \ {0} /\ m * x \in Nat
      BY <2>2, <2>3, <3>2
    <3> QED
      BY <3>3
  <2>5. \A x, y \in Nat : x # y => x < y \/ y < x
    OBVIOUS
  <2>6. \A x, y \in Nat : x # y => m * x # m * y
    BY <2>4, <2>5
  <2> QED
    BY <2>2, <2>6 DEF m
<1> QED
  BY <1>1, <1>5, <1>6, <1>7, <1>8 DEF Renewed

-----------------------------------------------------------------------------
\* What is in the receive buffer b before the operation: where no block may
\* stay away unseen, nothing that is expected.
Cleared(j, s) ==
  \/ j.bench = "PT2PT" \/ j.subtype \in Neighbors
  \/ j.subtype \in {"ALLTOALL", "SCATTER"} /\ ~j.in_place
  \/ j.subtype = "BCAST" /\ s # 0

Clear(j, s, n, it, b) ==
  /\ Cleared(j, s) => \A k \in 1 .. SlotsOf(j, n) : b.r[k] = 0
  /\ j.subtype \in {"GATHER", "ALL_GATHER"} /\ j.in_place =>
       \A k \in 1 .. j.np : k # s + 1 => b.r[k] = Junk
  /\ j.subtype = "GATHER" /\ ~j.in_place => b.r = Row(j.np, s, it, j.dtype)
  /\ j.subtype \in {"ALL_GATHER", "REDUCE_SCATTER"} /\ ~j.in_place =>
       \A k \in Compared(j, s, n) : b.r[k] # Expected(j, s, n, it, k)

\* What the iteration before may have left, where a receive buffer is not
\* filled anew at every rank.
Recleared(j) == j.subtype \in {"ALL_GATHER", "REDUCE_SCATTER"} => j.in_place

Leftover(j, s, n, it, old) ==
  /\ old.r \in [1 .. IF it > 0 THEN SlotsOf(j, n) ELSE j.np -> Values]
  /\ it = 0 => \A k \in DOMAIN old.r : old.r[k] = Junk
  /\ it > 0 /\ ~Recleared(j) => Matches(j, s, n, it - 1, old.r)

LEMMA ClearMessage ==
  ASSUME NEW j, NEW s, NEW n, NEW it, NEW old, Wide(j), j.bench = "PT2PT",
         j.subtype \in {"LAT", "MBW_MR"}, Copies(j, s)
  PROVE  Clear(j, s, n, it, SetBufferValidation(j, s, it, old))
<1> DEFINE b == SetBufferValidation(j, s, it, old)
<1>1. AssignToType(0, j.dtype) = 0
  BY AssignTells DEF Wide
<1>2. b.r = [i \in 1 .. j.len |-> AssignToType(0, j.dtype)]
  BY DEF SetBufferValidation
<1>3. SlotsOf(j, n) = j.len
  BY DEF SlotsOf, Neighbors
<1> HIDE DEF b
<1>4. \A k \in 1 .. SlotsOf(j, n) : b.r[k] = 0
  BY <1>1, <1>2, <1>3
<1> QED
  BY <1>4 DEF Clear, b

LEMMA ClearZeros ==
  ASSUME NEW j, NEW s, NEW it, Moves(j, s, it), NEW n, NEW old, Wide(j),
         \/ j.subtype \in {"ALLTOALL", "SCATTER"}
         \/ j.subtype = "BCAST"
  PROVE  Clear(j, s, n, it, SetBufferValidation(j, s, it, old))
<1> DEFINE b == SetBufferValidation(j, s, it, old)
<1>1. /\ j.np \in Nat /\ 1 \in Nat /\ j.bench # "PT2PT" /\ j.subtype \notin Neighbors
      /\ ~(j.in_place /\ j.subtype = "ALL_GATHER") /\ j.subtype # "GATHER"
  BY DEF Moves, Neighbors
<1>2. AssignToType(0, j.dtype) = 0
  BY AssignTells DEF Wide
<1>3. \A m : \A k \in 1 .. m : Zeros(m, j.dtype)[k] = 0
  BY <1>2 DEF Zeros
<1>4. CASE j.subtype = "ALLTOALL" /\ ~j.in_place
  <2>1. SetBufferDtype(j, FALSE, s, j.np, s, j.np, it) = Zeros(j.np, j.dtype)
    BY ONLY <1>1, FillsZeros
  <2>2. b.r = Zeros(j.np, j.dtype)
    BY <1>1, <1>4, <2>1 DEF SetBufferValidation
  <2>3. SlotsOf(j, n) = j.np
    BY <1>1, <1>4 DEF SlotsOf
  <2> HIDE DEF b
  <2>4. \A k \in 1 .. SlotsOf(j, n) : b.r[k] = 0
    BY <1>3, <2>2, <2>3
  <2> QED
    BY <1>4, <2>4 DEF Clear, b
<1>5. CASE j.subtype = "SCATTER" /\ ~j.in_place
  <2>1. SetBufferDtype(j, FALSE, s * j.np, 1, s, 1, it) = Zeros(1, j.dtype)
    BY ONLY <1>1, FillsZeros
  <2>2. b.r = Zeros(1, j.dtype)
    BY <1>1, <1>5, <2>1 DEF SetBufferValidation
  <2>3. SlotsOf(j, n) = 1
    BY <1>1, <1>5 DEF SlotsOf
  <2> HIDE DEF b
  <2>4. \A k \in 1 .. SlotsOf(j, n) : b.r[k] = 0
    BY <1>3, <2>2, <2>3
  <2> QED
    BY <1>5, <2>4 DEF Clear, b
<1>6. CASE j.subtype = "BCAST" /\ s # 0
  <2>1. SetBufferDtype(j, FALSE, 1, 1, s, 1, it) = Zeros(1, j.dtype)
    BY ONLY <1>1, FillsZeros
  <2>2. SetBufferDtype(j, s = 0, 1, 1, s, 1, it) = Zeros(1, j.dtype)
    <3>1. (s = 0) = FALSE
      BY <1>6
    <3> QED
      BY <2>1, <3>1
  <2>3. b.r = Zeros(1, j.dtype)
    BY <1>1, <1>6, <2>2 DEF SetBufferValidation
  <2>4. SlotsOf(j, n) = 1
    BY <1>1, <1>6 DEF SlotsOf
  <2> HIDE DEF b
  <2>5. \A k \in 1 .. SlotsOf(j, n) : b.r[k] = 0
    BY <1>3, <2>3, <2>4
  <2> QED
    BY <1>6, <2>5 DEF Clear, b
<1>7. CASE ~Cleared(j, s)
  BY <1>7 DEF Clear
<1> QED
  BY <1>1, <1>4, <1>5, <1>6, <1>7 DEF Cleared

LEMMA ClearGathered ==
  ASSUME NEW j, NEW s, NEW it, Moves(j, s, it), NEW n, NEW old, Wide(j),
         j.subtype \in {"GATHER", "ALL_GATHER"}, Leftover(j, s, n, it, old)
  PROVE  Clear(j, s, n, it, SetBufferValidation(j, s, it, old))
<1> DEFINE b == SetBufferValidation(j, s, it, old)
<1>1. /\ j.np \in Nat /\ 1 \in Nat /\ s \in Nat /\ j.bench # "PT2PT" /\ j.subtype \notin Neighbors
      /\ ~Cleared(j, s)
  BY DEF Moves, Neighbors, Cleared
<1>2. CASE j.in_place
  <2>1. b.r = OwnBlock(j.np, s, it, j.dtype)
    <3>1. CASE j.subtype = "GATHER"
      <4>1. SetBufferDtype(j, FALSE, s * j.np, 1, s, j.np, it) = OwnBlock(j.np, s, it, j.dtype)
        BY ONLY <1>1, <1>2, <3>1, FillsOwn
      <4> QED
        BY <1>1, <1>2, <3>1, <4>1 DEF SetBufferValidation
    <3>2. CASE j.subtype = "ALL_GATHER"
      <4>1. SetBufferDtype(j, TRUE, s * j.np, 1, s, j.np, it) = OwnBlock(j.np, s, it, j.dtype)
        BY ONLY <1>1, <1>2, <3>2, FillsOwn
      <4> QED
        BY <1>1, <1>2, <3>2, <4>1 DEF SetBufferValidation
    <3> QED
      BY <3>1, <3>2
  <2> HIDE DEF b
  <2>2. \A k \in 1 .. j.np : k # s + 1 => b.r[k] = Junk
    BY <2>1 DEF OwnBlock
  <2> QED
    BY <1>1, <1>2, <2>2 DEF Clear, b
<1>3. CASE ~j.in_place /\ j.subtype = "GATHER"
  <2>1. SetBufferDtype(j, FALSE, s, j.np, s, j.np, it) = Row(j.np, s, it, j.dtype)
    BY ONLY <1>1, <1>3, FillsRoom
  <2>2. b.r = Row(j.np, s, it, j.dtype)
    BY <1>1, <1>3, <2>1 DEF SetBufferValidation
  <2> QED
    BY <1>1, <1>3, <2>2 DEF Clear
<1>4. CASE ~j.in_place /\ j.subtype = "ALL_GATHER"
  <2>1. SetBufferDtype(j, FALSE, s, j.np, s, j.np, it) = Zeros(j.np, j.dtype)
    <3>1. ~(j.in_place /\ j.subtype = "ALL_GATHER") /\ j.subtype # "GATHER"
      BY <1>4
    <3> QED
      BY ONLY <1>1, <3>1, FillsZeros
  <2>2. b.r = IF s = 0 THEN Zeros(j.np, j.dtype) ELSE old.r
    BY <1>1, <1>4, <2>1 DEF SetBufferValidation
  <2>3. AssignToType(0, j.dtype) = 0
    BY AssignTells DEF Wide
  <2> HIDE DEF b
  <2>4. ASSUME NEW k \in Compared(j, s, n) PROVE b.r[k] # Expected(j, s, n, it, k)
    <3>1. Renewed(j, s, n, it, k)
      BY <1>4, GatherRenewed
    <3>2. k \in 1 .. j.np /\ SlotsOf(j, n) = j.np
      <4>1. j.np \in Nat \ {0}
        BY DEF Moves
      <4> QED
        BY <1>1, <1>4, <4>1 DEF Compared, SlotsOf
    <3>3. Expected(j, s, n, it, k) # 0 /\ Expected(j, s, n, it, k) # Junk
      BY <3>1 DEF Renewed, Junk
    <3>4. CASE s = 0
      BY <2>2, <2>3, <3>2, <3>3, <3>4 DEF Zeros
    <3>5. CASE s # 0 /\ it = 0
      <4>1. DOMAIN old.r = 1 .. j.np /\ \A i \in DOMAIN old.r : old.r[i] = Junk
        BY <3>2, <3>5 DEF Leftover
      <4> QED
        BY <2>2, <3>2, <3>3, <3>5, <4>1
    <3>6. CASE s # 0 /\ it # 0
      <4>1. it > 0
        BY <3>6 DEF Moves
      <4>2. old.r[k] = Expected(j, s, n, it - 1, k)
        BY <1>4, <4>1 DEF Leftover, Recleared, Matches
      <4> QED
        BY <2>2, <3>1, <3>6, <4>1, <4>2 DEF Renewed
    <3> QED
      BY <3>4, <3>5, <3>6
  <2> QED
    BY <1>1, <1>4, <2>4 DEF Clear, b
<1> QED
  BY <1>2, <1>3, <1>4

LEMMA ClearSum ==
  ASSUME NEW j, NEW s, NEW it, Moves(j, s, it), NEW n, NEW old, Wide(j), Plain(j),
         j.subtype = "REDUCE_SCATTER", Leftover(j, s, n, it, old)
  PROVE  Clear(j, s, n, it, SetBufferValidation(j, s, it, old))
<1> DEFINE b == SetBufferValidation(j, s, it, old)
<1>1. j.bench # "PT2PT" /\ j.subtype \notin Neighbors /\ ~Cleared(j, s)
  BY DEF Moves, Neighbors, Cleared
<1>2. CASE j.in_place
  BY <1>1, <1>2 DEF Clear
<1>3. CASE ~j.in_place
  <2>1. b.r = ClearReduced(j, old.r)
    BY <1>1, <1>3 DEF SetBufferValidation
  <2> HIDE DEF b
  <2>2. ASSUME NEW k \in Compared(j, s, n) PROVE b.r[k] # Expected(j, s, n, it, k)
    <3>1. Renewed(j, s, n, it, k)
      BY SumRenewed
    <3>2. Expected(j, s, n, it, k) # 0 /\ Expected(j, s, n, it, k) # Junk
      BY <3>1 DEF Renewed, Junk
    <3>3. k \in 1 .. (j.len \div j.np) + 1
      <4>1. j.np \in Nat \ {0} /\ j.len \in Nat /\ s \in 0 .. j.np - 1
        BY DEF Moves
      <4> DEFINE first == FirstOf(j, s)
                 count == RecvCounts(j)[s]
                 m == j.len \div j.np
      <4>2. count \in Nat /\ first \in Nat /\ count <= m + 1
        BY <4>1, FirstIs
      <4>3. Compared(j, s, n) = {i + 1 : i \in first .. count - 1}
        BY <1>1 DEF Compared
      <4>4. m \in Nat
        BY <4>1
      <4> HIDE DEF first, count, m
      <4>5. k \in 1 .. m + 1
        BY <4>2, <4>3, <4>4
      <4> QED
        BY <4>5 DEF m
    <3>4. b.r[k] \in {0, Junk} \/ (k \in DOMAIN old.r /\ b.r[k] = old.r[k])
      BY <2>1, <3>3 DEF ClearReduced
    <3>5. CASE b.r[k] \in {0, Junk}
      BY <3>2, <3>5
    <3>6. CASE k \in DOMAIN old.r /\ b.r[k] = old.r[k]
      <4>1. CASE it = 0
        BY <3>2, <3>6, <4>1 DEF Leftover
      <4>2. CASE it # 0
        <5>1. it > 0
          BY <4>2 DEF Moves
        <5>2. old.r[k] = Expected(j, s, n, it - 1, k)
          BY <1>3, <5>1 DEF Leftover, Recleared, Matches
        <5> QED
          BY <3>1, <3>6, <5>1, <5>2 DEF Renewed
      <4> QED
        BY <4>1, <4>2
    <3> QED
      BY <3>4, <3>5, <3>6
  <2> QED
    BY <1>1, <1>3, <2>2 DEF Clear, b
<1> QED
  BY <1>2, <1>3

LEMMA ClearNeighbors ==
  ASSUME NEW j, NEW s, NEW it, Moves(j, s, it), NEW n, Wide(j), j.subtype \in Neighbors
  PROVE  Clear(j, s, n, it, SetBufferNhbrValidation(j, s, n, it))
<1> DEFINE b == SetBufferNhbrValidation(j, s, n, it)
<1>1. b.r = [i \in 1 .. n.indegree |-> AssignToType(0, j.dtype)]
  BY DEF SetBufferNhbrValidation
<1>2. SlotsOf(j, n) = n.indegree
  BY DEF SlotsOf, Neighbors, Moves
<1>3. AssignToType(0, j.dtype) = 0
  BY AssignTells DEF Wide
<1> HIDE DEF b
<1>4. \A k \in 1 .. SlotsOf(j, n) : b.r[k] = 0
  BY <1>1, <1>2, <1>3
<1> QED
  BY <1>4 DEF Clear, Neighbors, b

LEMMA ClearIs ==
  ASSUME NEW j, NEW s, NEW n, NEW it, InLoop(j, s, n, it), Wide(j), Plain(j),
         j.bench = "PT2PT" => Copies(j, s), NEW old, Leftover(j, s, n, it, old)
  PROVE  Clear(j, s, n, it, IF j.subtype \in Neighbors THEN SetBufferNhbrValidation(j, s, n, it)
                            ELSE SetBufferValidation(j, s, it, old))
<1>1. CASE j.bench = "PT2PT"
  BY <1>1, LoopIs, ClearMessage
<1>2. CASE j.bench = "COLLECTIVE"
  <2>1. Moves(j, s, it) /\ j.subtype \in Moving \cup Neighbors \cup {"REDUCE_SCATTER"}
    BY <1>2, LoopIs
  <2>2. CASE j.subtype \in Neighbors
    BY <2>1, <2>2, ClearNeighbors
  <2>3. CASE j.subtype \notin Neighbors
    BY <2>1, <2>3, ClearZeros, ClearGathered, ClearSum DEF Moving
  <2> QED
    BY <2>2, <2>3
<1> QED
  BY <1>1, <1>2, LoopIs

\* A buffer made ready holds nothing yet of what can be seen to arrive: the
\* operations one after the other.
LEMMA SumAbsent ==
  ASSUME Supplied, Judged, Reduces, NEW r \in Procs, Clear(job, r, nbr[r], iter, bufs[r]),
         NEW b \in DOMAIN Route(r), b \in Compared(job, r, nbr[r]), Visible(r, b, "none")
  PROVE  bufs[r].r[b] # Expected(job, r, nbr[r], iter, b)
<1>1. r = 0 /\ job.subtype = "REDUCE_SCATTER"
  BY DEF Visible, Reduces
<1>2. CASE ~job.in_place
  BY <1>1, <1>2 DEF Clear
<1>3. CASE job.in_place
  <2> DEFINE v == ReduceValue(job, b - 1, iter)
             n == job.np
  <2>1. /\ n \in Nat /\ n > 1 /\ b \in 1 .. job.len
        /\ Expected(job, r, nbr[r], iter, b) = n * v
        /\ BlocksOf(job, nbr[r]) = job.len
    BY <1>1, SumExpected
  <2>2. v \in Nat \ {0}
    BY <1>1, SumExpected DEF ReduceTold
  <2>3. bufs[r].r = [k \in 1 .. BlocksOf(job, nbr[r]) |-> SentValue(job, r, nbr[r], iter, k)]
    BY <1>1, <1>3 DEF Supplied, Filled, InPlaceSent
  <2>4. job.bench # "PT2PT"
    BY JobIs DEF Supplied, Ready, WellMade, Reduces
  <2>5. bufs[r].r[b] = v
    BY <1>1, <2>1, <2>3, <2>4 DEF SentValue
  <2> HIDE DEF v, n
  <2>6. n * v # v
    <3>1. n * v >= 2 * v
      <4>1. n >= 2
        BY <2>1
      <4>2. \A x, y, z \in Nat : x <= y => x * z <= y * z
        OBVIOUS
      <4> QED
        BY ONLY <2>1, <2>2, <4>1, <4>2, 2 \in Nat
    <3>2. n * v \in Nat
      BY <2>1, <2>2
    <3> QED
      BY <2>2, <3>1, <3>2
  <2> QED
    BY <2>1, <2>5, <2>6
<1> QED
  BY <1>2, <1>3

LEMMA AlltoallAbsent ==
  ASSUME Supplied, Wide(job), job.bench = "COLLECTIVE", job.subtype = "ALLTOALL", job.in_place,
         NEW r \in Procs, NEW b \in DOMAIN Route(r)
  PROVE  bufs[r].r[b] # Told(r, b, iter)
<1>1. /\ job.np \in Nat \ {0} /\ iter \in Nat /\ r \in Nat /\ job.bench # "PT2PT"
      /\ Procs = 0 .. job.np - 1 /\ Filled(job, r, nbr[r], iter, bufs[r])
  BY InTheLoop
<1>2. Route(r) = [c \in {s + 1 : s \in Others(r)} |-> <<c - 1, r + 1>>]
  BY RouteMoves
<1> DEFINE s == b - 1
<1>3. s \in 0 .. job.np - 1 /\ s # r /\ s \in Nat /\ b \in 1 .. job.np
  BY <1>1, <1>2 DEF Others
<1>4. bufs[r].r = [k \in 1 .. job.np |-> SentValue(job, r, nbr[r], iter, k)]
  BY <1>1 DEF Filled, InPlaceSent, BlocksOf
<1>5. bufs[r].r[b] = BlockValue(job, r, job.np, s, iter)
  BY <1>1, <1>3, <1>4 DEF SentValue, BlockValue
<1>6. Told(r, b, iter) = BlockValue(job, s, job.np, r, iter)
  BY ApartAlltoall
<1> HIDE DEF s
<1>7. BlockValue(job, r, job.np, s, iter) # BlockValue(job, s, job.np, r, iter)
  <2>1. BlockTold(job, r, job.np, s, iter)
    BY ONLY <1>1, <1>3, Wide(job), BlockTells
  <2>2. r \in 0 .. job.np - 1
    BY <1>1
  <2> QED
    BY <1>3, <2>1, <2>2 DEF BlockTold
<1> QED
  BY <1>5, <1>6, <1>7

LEMMA ScatterAbsent ==
  ASSUME Supplied, Wide(job), job.bench = "COLLECTIVE", job.subtype = "SCATTER", job.in_place,
         NEW r \in Procs, NEW b \in DOMAIN Route(r), Visible(r, b, "none")
  PROVE  bufs[r].r[b] # Told(r, b, iter)
<1>1. /\ job.np \in Nat \ {0} /\ iter \in Nat /\ r \in Nat /\ job.bench # "PT2PT"
      /\ Procs = 0 .. job.np - 1 /\ Filled(job, r, nbr[r], iter, bufs[r])
  BY InTheLoop
<1>2. b = 1
  <2>1. Route(r) = [c \in IF job.in_place /\ r = Root THEN {} ELSE {1} |-> <<Root, r + 1>>]
    BY RouteMoves
  <2> QED
    BY <2>1
<1>3. r # 0
  BY <1>2 DEF Visible
<1>4. bufs[r].r = [k \in 1 .. job.np |-> SentValue(job, r, nbr[r], iter, k)]
  BY <1>1 DEF Filled, InPlaceSent, BlocksOf
<1>5. bufs[r].r[b] = BlockValue(job, 0, job.np, 0, iter)
  <2>1. bufs[r].r[b] = BlockValue(job, 0, job.np, 1 - 1, iter)
    BY <1>1, <1>2, <1>4 DEF SentValue, BlockValue
  <2> QED
    BY <2>1
<1>6. Told(r, b, iter) = BlockValue(job, 0, job.np, r, iter)
  BY ApartScatter
<1>7. BlockValue(job, 0, job.np, r, iter) # BlockValue(job, 0, job.np, 0, iter)
  <2>1. BlockTold(job, 0, job.np, r, iter)
    BY ONLY <1>1, 0 \in Nat, Wide(job), BlockTells
  <2> QED
    BY <1>3, <2>1 DEF BlockTold
<1> QED
  BY <1>5, <1>6, <1>7

LEMMA GatherAbsent ==
  ASSUME Supplied, Judged, job.bench = "COLLECTIVE", job.subtype \in {"GATHER", "ALL_GATHER"},
         job.subtype = "ALL_GATHER" => job.in_place,
         NEW r \in Procs, Clear(job, r, nbr[r], iter, bufs[r]), Validates(r),
         NEW b \in DOMAIN Route(r), Visible(r, b, "none")
  PROVE  bufs[r].r[b] # Told(r, b, iter)
<1>1. /\ job.np \in Nat \ {0} /\ iter \in Nat /\ r \in Nat /\ job.bench # "PT2PT"
      /\ Procs = 0 .. job.np - 1 /\ Wide(job)
  BY InTheLoop DEF Wide, Judged, Plain
<1> DEFINE s == b - 1
<1>2. s \in Others(r) /\ s \in Nat /\ s \in 0 .. job.np - 1 /\ b \in 1 .. job.np
  <2>1. \E q \in Others(r) : b = q + 1
    <3>1. CASE job.subtype = "GATHER"
      <4>1. Route(r) = [c \in {q + 1 : q \in IF r = Root THEN Others(r) ELSE {}} |-> <<c - 1, 1>>]
        BY <3>1, RouteMoves
      <4>2. b \in {q + 1 : q \in IF r = Root THEN Others(r) ELSE {}}
        BY <4>1
      <4> QED
        BY <4>2
    <3>2. CASE job.subtype = "ALL_GATHER"
      <4>1. Route(r) = [c \in {q + 1 : q \in Others(r)} |->
                          <<c - 1, IF job.in_place THEN (c - 1) + 1 ELSE 1>>]
        BY <3>2, RouteMoves
      <4>2. b \in {q + 1 : q \in Others(r)}
        BY <4>1
      <4> QED
        BY <4>2
    <3> QED
      BY <3>1, <3>2
  <2>2. PICK q \in Others(r) : b = q + 1
    BY <2>1
  <2>3. q \in Procs /\ q = s
    BY <1>1, <2>2 DEF Others
  <2> QED
    BY <1>1, <2>2, <2>3
<1>3. Told(r, b, iter) = BlockValue(job, s, job.np, 0, iter)
  BY <1>1, ApartGathered
<1> HIDE DEF s
<1>4. BlockTold(job, s, job.np, 0, iter)
  BY ONLY <1>1, <1>2, 0 \in Nat, BlockTells
<1>5. CASE job.in_place
  <2>1. b # r + 1
    BY <1>1, <1>2, <1>5 DEF Others, s
  <2>2. bufs[r].r[b] = Junk
    BY <1>2, <1>5, <2>1 DEF Clear
  <2> QED
    BY <1>3, <1>4, <2>2 DEF BlockTold, Junk
<1>6. CASE ~job.in_place
  <2>1. job.subtype = "GATHER" /\ job.root = 0
    BY <1>6 DEF Judged, Plain
  <2>2. r = 0
    BY <2>1 DEF Validates, Root, GetRootRank, RotateRoot
  <2>3. s # 0
    BY <1>1, <1>2, <2>1, <2>2 DEF Visible, s
  <2>4. bufs[r].r = Row(job.np, 0, iter, job.dtype)
    BY <1>6, <2>1, <2>2 DEF Clear
  <2>5. bufs[r].r[b] = BlockValue(job, 0, job.np, s, iter)
    BY <1>2, <2>4 DEF Row, BlockValue, s
  <2>6. 0 \in 0 .. job.np - 1
    BY <1>1
  <2> QED
    BY <1>2, <1>3, <1>4, <2>3, <2>5, <2>6 DEF BlockTold
<1> QED
  BY <1>5, <1>6

LEMMA ClearUntouched ==
  ASSUME Supplied, Judged, NEW r \in Procs, Clear(job, r, nbr[r], iter, bufs[r])
  PROVE  Untouched(r)
<1> SUFFICES ASSUME NEW b \in DOMAIN Route(r), b \in Compared(job, r, nbr[r]), Visible(r, b, "none")
             PROVE  bufs[r].r[b] # Expected(job, r, nbr[r], iter, b)
  BY DEF Untouched
<1>1. CASE Reduces
  BY <1>1, SumAbsent
<1>2. CASE ~Reduces
  <2>1. Validates(r)
    BY SeenIsCompared
  <2>2. Expected(job, r, nbr[r], iter, b) = Told(r, b, iter)
    BY <1>2, <2>1, TellsExpected
  <2>3. Told(r, b, iter) # 0
    BY <1>2, ApartAll DEF Apart
  <2>4. b \in 1 .. SlotsOf(job, nbr[r])
    <3>1. Delivers(r, b)
      BY <2>1, DeliversAll DEF Judged, Looked
    <3> QED
      BY <3>1 DEF Delivers
  <2>5. Wide(job) /\ job.bench \in {"COLLECTIVE", "PT2PT"} /\ job.in_place \in BOOLEAN
    BY InTheLoop, LoopIs DEF Judged, Plain, Wide
  <2>6. CASE Cleared(job, r)
    BY <2>2, <2>3, <2>4, <2>6 DEF Clear
  <2>7. CASE ~Cleared(job, r)
    <3>1. job.bench = "COLLECTIVE" /\ job.subtype \in Moving
      BY <1>2, <2>5, <2>7, InTheLoop DEF Cleared, Reduces
    <3>2. CASE job.subtype = "ALLTOALL"
      BY <2>2, <2>5, <2>7, <3>1, <3>2, AlltoallAbsent DEF Cleared
    <3>3. CASE job.subtype = "SCATTER"
      BY <2>2, <2>5, <2>7, <3>1, <3>3, ScatterAbsent DEF Cleared
    <3>4. CASE job.subtype = "BCAST"
      <4>1. r # Root
        BY <3>1, <3>4, RouteMoves
      <4>2. Root = 0
        BY <3>4 DEF Judged, Misfilled
      <4> QED
        BY <2>7, <3>4, <4>1, <4>2 DEF Cleared
    <3>5. CASE job.subtype \in {"GATHER", "ALL_GATHER"}
      <4>1. CASE job.subtype = "ALL_GATHER" /\ ~job.in_place
        BY <4>1 DEF Clear
      <4>2. CASE ~(job.subtype = "ALL_GATHER" /\ ~job.in_place)
        BY <2>1, <2>2, <3>1, <3>5, <4>2, GatherAbsent
      <4> QED
        BY <4>1, <4>2
    <3> QED
      BY <3>1, <3>2, <3>3, <3>4, <3>5 DEF Moving
  <2> QED
    BY <2>6, <2>7
<1> QED
  BY <1>1, <1>2

-----------------------------------------------------------------------------
(***************************************************************************)
(* Along a run, at rank r.  Before the first iteration its receive buffer  *)
(* is as malloc returned it, and what it sent last is of the iteration     *)
(* before.  Its buffer is ready for the operation, if it is cleared in     *)
(* every iteration or nothing has failed so far and it still holds what    *)
(* was expected before.  A wrong block that can be seen then is refused.   *)
(***************************************************************************)
LeftBefore(r) ==
  /\ pc[r] \notin {"call", "check", "checked", "release"} /\ iter = 0 =>
       \A k \in DOMAIN bufs[r].r : bufs[r].r[k] = Junk
  /\ pc[r] \in {"fill", "call"} /\ iter > 0 => Spoke(r, last[r], iter - 1)
  /\ pc[r] \in {"check", "checked"} => Spoke(r, last[r], iter)

Unspoiled(r) ==
  /\ ~Recleared(job) /\ KnownLetters =>
       /\ pc[r] \in {"check", "checked"} => Matches(job, r, nbr[r], iter, bufs[r].r)
       /\ pc[r] = "fill" /\ iter > 0 => Matches(job, r, nbr[r], iter - 1, bufs[r].r)
  /\ pc[r] = "call" /\ Plain(job) /\ KnownLetters => Clear(job, r, nbr[r], iter, bufs[r])

Refused(r) ==
  \A w \in bad : w[1] = r /\ Visible(r, w[2], w[3]) =>
    /\ pc[r] = "check" => Validates(r) /\ ~Matches(job, r, nbr[r], iter, bufs[r].r)
    /\ pc[r] = "checked" => verdict[r] = 1

RejectInv ==
  \A r \in Procs :
    /\ LeftBefore(r)
    /\ faults = 0 \/ Recleared(job) => Unspoiled(r)
    /\ (faults <= 1 \/ Recleared(job)) /\ Judged => Refused(r)

\* What depends on the job and the iteration alone.
LEMMA SameFrame ==
  ASSUME job' = job, iter' = iter
  PROVE  /\ Procs' = Procs /\ (KnownLetters' <=> KnownLetters) /\ (Judged' <=> Judged)
         /\ \A r, b, how : Visible(r, b, how)' <=> Visible(r, b, how)
         /\ \A r : Validates(r)' <=> Validates(r)
<1>1. Procs' = Procs /\ Root' = Root
  BY DEF Procs, Root
<1>2. (KnownLetters' <=> KnownLetters) /\ (Misfilled' <=> Misfilled)
  BY <1>1 DEF KnownLetters, Misfilled
<1>3. \A r, b, how : Visible(r, b, how)' <=> Visible(r, b, how)
  BY DEF Visible, Reduces, Neighborhood
<1>4. \A r : Validates(r)' <=> Validates(r)
  BY <1>1 DEF Validates
<1> QED
  BY <1>1, <1>2, <1>3, <1>4 DEF Judged

\* A step adds one failure or none.
LEMMA FaultsGrow ==
  ASSUME TypeInv, [Next]_vars
  PROVE  faults \in Nat /\ faults' \in {faults, faults + 1}
<1>1. faults \in Nat
  BY CollectivesConstants DEF TypeInv
<1>2. CASE \E r \in Procs : Start(r) \/ Radius(r) \/ Send(r) \/ Receive(r) \/ Access(r)
                              \/ Overrun(r) \/ Stray(r)
  BY <1>1, <1>2 DEF Start, Radius, Send, Receive, Access, Overrun, Stray
<1>3. CASE \E r \in Procs : Allocate(r) \/ Release(r)
  BY <1>1, <1>3 DEF Allocate, Release
<1>4. CASE CartCreate \/ GraphCreate \/ WinCreate \/ WinFree \/ Fill \/ Validate \/ Again \/ Launcher
             \/ UNCHANGED vars
  BY <1>1, <1>4 DEF CartCreate, GraphCreate, WinCreate, WinFree, Fill, Validate, Again, Launcher, vars
<1>5. CASE Collective
  BY <1>1, <1>5 DEF Collective
<1> QED
  BY <1>1, <1>2, <1>3, <1>4, <1>5 DEF Next, Progress, Over

LEMMA RejectIdle ==
  ASSUME TypeInv, DataInv, RejectInv, Idle, faults \in Nat, faults' \in {faults, faults + 1}
  PROVE  RejectInv'
<1>1. /\ job' = job /\ iter' = iter /\ bufs' = bufs /\ last' = last
      /\ verdict' = verdict /\ bad' = bad
  BY DEF Idle, data
<1>2. /\ Procs' = Procs /\ (KnownLetters' <=> KnownLetters) /\ (Judged' <=> Judged)
      /\ \A r, b, how : Visible(r, b, how)' <=> Visible(r, b, how)
      /\ \A r : Validates(r)' <=> Validates(r)
  BY <1>1, SameFrame
<1>3. ASSUME NEW r \in Procs
      PROVE  /\ LeftBefore(r)' /\ (faults' = 0 \/ Recleared(job) => Unspoiled(r)')
             /\ (faults' <= 1 \/ Recleared(job)) /\ Judged' => Refused(r)'
  <2>1. /\ LeftBefore(r) /\ (faults = 0 \/ Recleared(job) => Unspoiled(r))
        /\ (faults <= 1 \/ Recleared(job)) /\ Judged => Refused(r)
    BY DEF RejectInv
  <2>2. (faults' = 0 => faults = 0) /\ (faults' <= 1 => faults <= 1)
    OBVIOUS
  <2>3. CASE pc'[r] = pc[r] /\ nbr'[r] = nbr[r]
    <3>1. LeftBefore(r)'
      BY <1>1, <2>1, <2>3 DEF LeftBefore, Spoke
    <3>2. faults' = 0 \/ Recleared(job) => Unspoiled(r)'
      BY <1>1, <1>2, <2>1, <2>2, <2>3 DEF Unspoiled
    <3>3. (faults' <= 1 \/ Recleared(job)) /\ Judged' => Refused(r)'
      BY <1>1, <1>2, <2>1, <2>2, <2>3 DEF Refused
    <3> QED
      BY <3>1, <3>2, <3>3
  <2>4. CASE pc[r] \notin Loop \cup {"release"} /\ pc'[r] \notin {"start", "call", "check", "checked"}
    <3>1. Content(job, r, pc[r], nbr[r], iter, bufs[r], last[r])
      BY DEF DataInv
    <3>2. iter = 0 /\ pc[r] \notin {"call", "check", "checked", "release"}
      BY <2>4, <3>1 DEF Content, Loop
    <3>3. LeftBefore(r)'
      BY <1>1, <2>1, <2>4, <3>2 DEF LeftBefore
    <3>4. faults' = 0 \/ Recleared(job) => Unspoiled(r)'
      BY <1>1, <2>1, <2>2, <2>4, <3>2 DEF Unspoiled
    <3>5. Refused(r)'
      BY <2>4 DEF Refused
    <3> QED
      BY <3>3, <3>4, <3>5
  <2> QED
    BY <2>3, <2>4 DEF Idle
<1> QED
  BY <1>1, <1>2, <1>3 DEF RejectInv

LEMMA RejectFill ==
  ASSUME TypeInv, NeighborInv, DataInv, RejectInv, Fill
  PROVE  RejectInv'
<1> DEFINE new(r) == IF Neighborhood THEN SetBufferNhbrValidation(job, r, nbr[r], iter)
                     ELSE SetBufferValidation(job, r, iter, bufs[r])
<1>1. /\ job' = job /\ iter' = iter /\ last' = last /\ nbr' = nbr /\ faults' = faults
      /\ bad' = {} /\ bufs' = [r \in Procs |-> new(r)] /\ AllAt("fill")
      /\ \A r \in Procs : pc'[r] = "call"
  BY DEF Fill, AllGoto
<1>2. Procs' = Procs /\ (KnownLetters' <=> KnownLetters)
  BY <1>1, SameFrame
<1>3. /\ Ready
      /\ \A r \in Procs : pc[r] = "fill" /\ Content(job, r, "fill", nbr[r], iter, bufs[r], last[r])
  BY <1>1, LoopReady DEF Loop
<1> HIDE DEF new
<1>4. ASSUME NEW r \in Procs PROVE LeftBefore(r)'
  <2>1. LeftBefore(r)
    BY DEF RejectInv
  <2> QED
    BY <1>1, <1>3, <2>1 DEF LeftBefore, Spoke
<1>5. ASSUME NEW r \in Procs, faults = 0 \/ Recleared(job), Plain(job), KnownLetters
      PROVE  Clear(job, r, nbr[r], iter, new(r))
  <2>1. InLoop(job, r, nbr[r], iter) /\ iter \in Nat
    BY <1>3, ReadyIs DEF Ready
  <2>2. Wide(job) /\ job.np \in Nat /\ job.bench \in {"COLLECTIVE", "PT2PT"}
    BY <1>5, <2>1, LoopIs DEF Wide, Plain
  <2>3. Copies(job, r)
    BY <1>5 DEF KnownLetters, Copies, Letter
  <2>4. Leftover(job, r, nbr[r], iter, bufs[r])
    <3>1. Content(job, r, "fill", nbr[r], iter, bufs[r], last[r]) /\ pc[r] = "fill"
      BY <1>3
    <3>2. bufs[r].r \in [1 .. IF iter > 0 THEN SlotsOf(job, nbr[r]) ELSE job.np -> Values]
      BY <2>1, <3>1 DEF Content, Loop
    <3>3. LeftBefore(r) /\ Unspoiled(r)
      BY <1>5 DEF RejectInv
    <3>4. iter = 0 => \A k \in DOMAIN bufs[r].r : bufs[r].r[k] = Junk
      BY <3>1, <3>3 DEF LeftBefore
    <3>5. iter > 0 /\ ~Recleared(job) => Matches(job, r, nbr[r], iter - 1, bufs[r].r)
      BY <1>5, <3>1, <3>3 DEF Unspoiled
    <3> QED
      BY <3>2, <3>4, <3>5 DEF Leftover
  <2>5. new(r) = IF job.subtype \in Neighbors THEN SetBufferNhbrValidation(job, r, nbr[r], iter)
                 ELSE SetBufferValidation(job, r, iter, bufs[r])
    BY DEF new, Neighborhood
  <2>6. Clear(job, r, nbr[r], iter,
              IF job.subtype \in Neighbors THEN SetBufferNhbrValidation(job, r, nbr[r], iter)
              ELSE SetBufferValidation(job, r, iter, bufs[r]))
    BY ONLY <1>5, <2>1, <2>2, <2>3, <2>4, ClearIs
  <2> QED
    BY <2>5, <2>6
<1>6. ASSUME NEW r \in Procs, faults = 0 \/ Recleared(job) PROVE Unspoiled(r)'
  <2>1. pc'[r] = "call" /\ bufs'[r] = new(r)
    BY <1>1
  <2> QED
    BY <1>1, <1>2, <1>5, <1>6, <2>1 DEF Unspoiled
<1>7. \A r \in Procs : Refused(r)'
  BY <1>1 DEF Refused
<1> QED
  BY <1>1, <1>2, <1>4, <1>6, <1>7 DEF RejectInv

\* Nothing failed before, or it does not matter any more: all buffers were
\* ready for the operation.
LEMMA WrongRefused ==
  ASSUME TypeInv, NeighborInv, DataInv, AcceptInv, RejectInv, Collective,
         faults = 0 \/ Recleared(job), Judged,
         NEW r \in Procs, NEW x \in bad', x[1] = r, Visible(r, x[2], x[3])
  PROVE  Validates(r) /\ ~Matches(job, r, nbr[r], iter, bufs'[r].r)
<1>1. AllAt("call")
  BY DEF Collective
<1>2. Supplied /\ \A q \in Procs : pc[q] = "call"
  BY <1>1, CallIsSupplied
<1>3. iter > 0 => \A q \in Procs : Spoke(q, last[q], iter - 1)
  <2>1. \A q \in Procs : LeftBefore(q)
    BY DEF RejectInv
  <2> QED
    BY <1>2, <2>1 DEF LeftBefore
<1>4. Untouched(r)
  <2>1. Unspoiled(r)
    BY DEF RejectInv
  <2>2. Clear(job, r, nbr[r], iter, bufs[r])
    BY <1>2, <2>1 DEF Unspoiled, Judged
  <2> QED
    BY <1>2, <2>2, ClearUntouched
<1>5. Delivered(r)
  BY CollectiveDelivers
<1>6. PICK q \in Procs : \E b \in DOMAIN Route(q) : \E w \in Wrong(q, b) :
        /\ bad' = {<<q, b, w[1]>>}
        /\ bufs'[r].r = IF q = r THEN [Received(r) EXCEPT ![b] = w[2]] ELSE Received(r)
  BY <1>5 DEF Delivered
<1>7. PICK b \in DOMAIN Route(q) : \E w \in Wrong(q, b) :
        /\ bad' = {<<q, b, w[1]>>}
        /\ bufs'[r].r = IF q = r THEN [Received(r) EXCEPT ![b] = w[2]] ELSE Received(r)
  BY <1>6
<1>8. PICK w \in Wrong(q, b) :
        /\ bad' = {<<q, b, w[1]>>}
        /\ bufs'[r].r = IF q = r THEN [Received(r) EXCEPT ![b] = w[2]] ELSE Received(r)
  BY <1>7
<1>9. q = r /\ x[2] = b /\ x[3] = w[1] /\ bufs'[r].r = [Received(r) EXCEPT ![b] = w[2]]
  <2>1. x = <<q, b, w[1]>>
    BY <1>8
  <2>2. q = r /\ x[2] = b /\ x[3] = w[1]
    BY <2>1
  <2> QED
    BY <1>8, <2>2
<1>10. b \in DOMAIN Route(r) /\ w \in Wrong(r, b) /\ Visible(r, b, w[1])
  BY <1>7, <1>8, <1>9
<1>11. /\ Validates(r) /\ b \in Compared(job, r, nbr[r])
       /\ w[2] # Expected(job, r, nbr[r], iter, b)
  BY <1>2, <1>3, <1>4, <1>10, WrongSeen
<1>12. b \in DOMAIN Received(r)
  <2>1. Delivers(r, b)
    BY <1>2, <1>11, DeliversAll DEF Judged, Looked
  <2>2. /\ \A p \in Procs : Holds(job, nbr[p], bufs[p])
        /\ bufs[r].r \in [1 .. SlotsOf(job, nbr[r]) -> Values] /\ Ready
    <3>1. Ready /\ \A p \in Procs : Filled(job, p, nbr[p], iter, bufs[p])
      BY <1>2 DEF Supplied
    <3>2. \A p \in Procs : InLoop(job, p, nbr[p], iter)
      BY <3>1, ReadyIs
    <3>3. \A p \in Procs : Holds(job, nbr[p], bufs[p])
      BY <3>1, <3>2, FilledHolds
    <3> QED
      BY <3>1, <3>3 DEF Filled
  <2>3. Received(r) \in [1 .. SlotsOf(job, nbr[r]) -> Values]
    BY <2>2, ReceivedIs
  <2> QED
    BY <2>1, <2>3 DEF Delivers
<1>13. bufs'[r].r[b] = w[2]
  BY <1>9, <1>12
<1> QED
  BY <1>11, <1>13 DEF Matches

LEMMA RejectCollective ==
  ASSUME TypeInv, NeighborInv, DataInv, AcceptInv, AcceptInv', RejectInv, Collective, faults \in Nat
  PROVE  RejectInv'
<1>1. /\ job' = job /\ iter' = iter /\ last' = bufs /\ nbr' = nbr /\ AllAt("call")
      /\ \A r \in Procs : pc'[r] = "check"
      /\ \/ bad' = bad /\ faults' = faults
         \/ faults' = faults + 1
  BY DEF Collective, AllGoto
<1>2. /\ Procs' = Procs /\ (KnownLetters' <=> KnownLetters) /\ (Judged' <=> Judged)
      /\ \A r, b, how : Visible(r, b, how)' <=> Visible(r, b, how)
      /\ \A r : Validates(r)' <=> Validates(r)
  BY <1>1, SameFrame
<1>3. /\ \A r \in Procs : pc[r] = "call" /\ Filled(job, r, nbr[r], iter, bufs[r])
      /\ \A r \in Procs : bad = {}
  <2>1. Supplied /\ \A r \in Procs : pc[r] = "call"
    BY <1>1, CallIsSupplied
  <2> QED
    BY <2>1 DEF Supplied, AcceptInv
<1>4. ASSUME NEW r \in Procs PROVE LeftBefore(r)'
  <2>1. Said(job, r, nbr[r], bufs[r], iter)
    BY <1>3 DEF Said, SentOf, Filled
  <2> QED
    BY <1>1, <2>1 DEF LeftBefore, Spoke
<1>5. ASSUME NEW r \in Procs, faults' = 0 \/ Recleared(job) PROVE Unspoiled(r)'
  <2>2. ASSUME ~Recleared(job), KnownLetters
        PROVE  Matches(job, r, nbr[r], iter, bufs'[r].r)
    <3>0. bad' = {}
      BY <1>1, <1>3, <1>5, <2>2
    <3>1. ~Misfilled' /\ Validates(r)' /\ KnownLetters'
      BY <1>1, <1>2, <2>2 DEF Misfilled, Validates, Recleared
    <3>2. Unhurt(r)'
      BY <3>0 DEF Unhurt
    <3>3. pc'[r] = "check" /\ r \in Procs'
      BY <1>1, <1>2
    <3>4. Agrees(r, bufs[r].r)'
      BY <3>1, <3>2, <3>3 DEF AcceptInv
    <3> QED
      BY <1>1, <3>4 DEF Agrees, Looked, Matches
  <2> QED
    BY <1>1, <1>2, <2>2 DEF Unspoiled
<1>6. ASSUME NEW r \in Procs, faults' <= 1 \/ Recleared(job), Judged' PROVE Refused(r)'
  <2>1. CASE bad' = {}
    BY <2>1 DEF Refused
  <2>2. CASE bad' # {}
    <3>1. (faults = 0 \/ Recleared(job)) /\ Judged
      BY <1>1, <1>2, <1>3, <1>6, <2>2
    <3>2. ASSUME NEW x \in bad', x[1] = r, Visible(r, x[2], x[3])
          PROVE  Validates(r) /\ ~Matches(job, r, nbr[r], iter, bufs'[r].r)
      BY <3>1, <3>2, WrongRefused
    <3>3. ASSUME NEW x \in bad', x[1] = r, Visible(r, x[2], x[3])'
          PROVE  Validates(r)' /\ ~Matches(job, r, nbr[r], iter, bufs'[r].r)
      <4>1. Visible(r, x[2], x[3])
        BY <1>1, <3>3 DEF Visible, Reduces, Neighborhood
      <4> QED
        BY <1>2, <3>2, <3>3, <4>1
    <3> QED
      BY <1>1, <3>3 DEF Refused
  <2> QED
    BY <2>1, <2>2
<1> QED
  BY <1>1, <1>2, <1>4, <1>5, <1>6 DEF RejectInv

LEMMA RejectValidate ==
  ASSUME TypeInv, NeighborInv, DataInv, RejectInv, Validate
  PROVE  RejectInv'
<1>1. /\ job' = job /\ iter' = iter /\ last' = last /\ nbr' = nbr /\ bufs' = bufs /\ bad' = bad
      /\ faults' = faults /\ AllAt("check") /\ \A r \in Procs : pc'[r] = "checked"
  BY DEF Validate, AllGoto
<1>2. /\ Procs' = Procs /\ (KnownLetters' <=> KnownLetters) /\ (Judged' <=> Judged)
      /\ \A r, b, how : Visible(r, b, how)' <=> Visible(r, b, how)
  BY <1>1, SameFrame
<1>3. Ready /\ \A r \in Procs : pc[r] = "check"
  BY <1>1, LoopReady DEF Loop
<1>4. ASSUME NEW r \in Procs PROVE LeftBefore(r)'
  <2>1. LeftBefore(r)
    BY DEF RejectInv
  <2> QED
    BY <1>1, <1>3, <2>1 DEF LeftBefore, Spoke
<1>5. ASSUME NEW r \in Procs, faults = 0 \/ Recleared(job) PROVE Unspoiled(r)'
  <2>1. Unspoiled(r)
    BY <1>5 DEF RejectInv
  <2> QED
    BY <1>1, <1>2, <1>3, <2>1 DEF Unspoiled
<1>6. ASSUME NEW r \in Procs, KnownLetters, Validates(r), ~Matches(job, r, nbr[r], iter, bufs[r].r)
      PROVE  verdict'[r] = 1
  <2>1. PICK failing \in SUBSET Unread : verdict' = [q \in Procs |->
           IF ~Validates(q) \/ q \in Unread \ failing THEN 0 ELSE IF q \in failing THEN 1
           ELSE IF Neighborhood THEN ValidateNeighborhoodCol(job, q, nbr[q], bufs[q].r, iter)
           ELSE ValidateData(job, q, bufs[q].r, iter)]
    BY DEF Validate
  <2>2. Unread = {}
    BY <1>6 DEF Unread, KnownLetters, Copies, Letter
  <2>3. verdict'[r] = IF Neighborhood THEN ValidateNeighborhoodCol(job, r, nbr[r], bufs[r].r, iter)
                      ELSE ValidateData(job, r, bufs[r].r, iter)
    BY <1>6, <2>1, <2>2
  <2> QED
    BY <1>3, <1>6, <2>3, MatchCompares
<1>7. ASSUME NEW r \in Procs, faults <= 1 \/ Recleared(job), Judged PROVE Refused(r)'
  <2>1. Refused(r) /\ KnownLetters
    BY <1>7 DEF RejectInv, Judged
  <2>2. ASSUME NEW x \in bad, x[1] = r, Visible(r, x[2], x[3])' PROVE verdict'[r] = 1
    <3>1. Visible(r, x[2], x[3])
      BY <1>1, <2>2 DEF Visible, Reduces, Neighborhood
    <3> QED
      BY <1>3, <1>6, <2>1, <2>2, <3>1 DEF Refused
  <2> QED
    BY <1>1, <2>2 DEF Refused
<1> QED
  BY <1>1, <1>2, <1>4, <1>5, <1>7 DEF RejectInv

LEMMA RejectAgain ==
  ASSUME TypeInv, NeighborInv, DataInv, RejectInv, Again
  PROVE  RejectInv'
<1>1. /\ job' = job /\ Procs' = Procs /\ nbr' = nbr /\ bufs' = bufs /\ last' = last
      /\ bad' = bad /\ verdict' = verdict /\ faults' = faults /\ AllAt("checked")
  BY DEF Again, Procs
<1>2. \A r \in Procs : pc[r] = "checked"
  BY <1>1, LoopReady DEF Loop
<1>3. CASE iter' = iter + 1 /\ AllGoto("fill")
  <2>1. /\ iter \in Nat /\ iter' # 0 /\ iter' - 1 = iter
        /\ \A r \in Procs : pc'[r] = "fill"
    BY <1>3, LoopReady, <1>1 DEF Loop, Ready, AllGoto
  <2>2. KnownLetters' <=> KnownLetters
    BY <1>1 DEF KnownLetters
  <2>3. ASSUME NEW r \in Procs PROVE LeftBefore(r)'
    <3>1. LeftBefore(r)
      BY DEF RejectInv
    <3> QED
      BY <1>1, <1>2, <2>1, <3>1 DEF LeftBefore, Spoke
  <2>4. ASSUME NEW r \in Procs, faults = 0 \/ Recleared(job) PROVE Unspoiled(r)'
    <3>1. Unspoiled(r)
      BY <2>4 DEF RejectInv
    <3> QED
      BY <1>1, <1>2, <2>1, <2>2, <3>1 DEF Unspoiled
  <2>5. \A r \in Procs : Refused(r)'
    BY <2>1 DEF Refused
  <2> QED
    BY <1>1, <2>3, <2>4, <2>5 DEF RejectInv
<1>4. CASE iter' = iter /\ AllGoto("release")
  <2>1. \A r \in Procs : pc'[r] = "release"
    BY <1>4 DEF AllGoto
  <2>2. ASSUME NEW r \in Procs PROVE LeftBefore(r)' /\ Refused(r)'
    BY <2>1 DEF LeftBefore, Refused
  <2>3. ASSUME NEW r \in Procs, faults = 0 \/ Recleared(job) PROVE Unspoiled(r)'
    <3>1. Unspoiled(r)
      BY <2>3 DEF RejectInv
    <3> QED
      BY <1>1, <2>1, <3>1 DEF Unspoiled
  <2> QED
    BY <1>1, <2>2, <2>3 DEF RejectInv
<1>5. CASE iter' = iter /\ pc' = pc
  <2>1. Idle
    BY <1>1, <1>5 DEF Idle, data
  <2>2. faults \in Nat /\ faults' \in {faults, faults + 1}
    BY <1>1, CollectivesConstants DEF TypeInv
  <2> QED
    BY <2>1, <2>2, RejectIdle
<1> QED
  BY <1>3, <1>4, <1>5 DEF Again

(***************************************************************************)
(* Both halves, for jobs whose values tell where they come from, and up to *)
(* the first failure or, where receive buffers are filled anew, with any   *)
(* number of them: validation fails at exactly the ranks that were         *)
(* delivered a wrong block where validation reads.                         *)
(***************************************************************************)
THEOREM VerdictsExact ==
  Spec => [](Plain(job) /\ (faults <= 1 \/ Recleared(job)) => VerdictExact)
<1>1. Init => AcceptInv /\ RejectInv
  <2> SUFFICES ASSUME Init PROVE AcceptInv /\ RejectInv
    OBVIOUS
  <2>1. /\ bufs = [r \in Procs |-> [s |-> <<>>, r |-> [b \in 1 .. job.np |-> Junk]]]
        /\ pc = [r \in Procs |-> "start"] /\ bad = {} /\ iter = 0
    BY DEF Init
  <2>2. \A r \in Procs : pc[r] = "start" /\ \A k \in DOMAIN bufs[r].r : bufs[r].r[k] = Junk
    BY <2>1
  <2>3. AcceptInv
    BY <2>1, <2>2 DEF AcceptInv
  <2>4. RejectInv
    BY <2>1, <2>2 DEF RejectInv, LeftBefore, Unspoiled, Refused
  <2> QED
    BY <2>3, <2>4
<1>2. TypeInv /\ NeighborInv /\ DataInv /\ AcceptInv /\ [Next]_vars => AcceptInv'
  BY IdleOrLoop, AcceptIdle, AcceptFill, AcceptCollective, AcceptValidate, AcceptAgain
<1>3. TypeInv /\ NeighborInv /\ DataInv /\ AcceptInv /\ AcceptInv' /\ RejectInv /\ [Next]_vars
        => RejectInv'
  BY FaultsGrow, IdleOrLoop, RejectIdle, RejectFill, RejectCollective, RejectValidate, RejectAgain
<1>4. AcceptInv /\ RejectInv => (Plain(job) /\ (faults <= 1 \/ Recleared(job)) => VerdictExact)
  <2> SUFFICES ASSUME AcceptInv, RejectInv, faults <= 1 \/ Recleared(job), Plain(job), ~Misfilled,
                      KnownLetters, pc = [r \in Procs |-> "checked"], NEW r \in Procs
               PROVE  /\ (\E w \in bad : w[1] = r /\ Visible(r, w[2], w[3])) => verdict[r] = 1
                      /\ verdict[r] = 1 =>
                           \E w \in bad : w[1] = r /\ (Visible(r, w[2], w[3]) \/ InPart(w[2]))
    BY DEF VerdictExact
  <2>1. pc[r] = "checked"
    OBVIOUS
  <2>2. verdict[r] = 1 => \E w \in bad : w[1] = r /\ (Visible(r, w[2], w[3]) \/ InPart(w[2]))
    BY <2>1 DEF AcceptInv, Unhurt
  <2>3. Refused(r)
    BY DEF RejectInv, Judged
  <2> QED
    BY <2>1, <2>2, <2>3 DEF Refused
<1> QED
  BY <1>1, <1>2, <1>3, <1>4, DataHolds, PTL DEF Spec

==============================================================================
