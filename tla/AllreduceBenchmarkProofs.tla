---------------------- MODULE AllreduceBenchmarkProofs ----------------------
(***************************************************************************)
(* What holds of the stand-alone benchmarks for every number of processes  *)
(* and every command line.                                                 *)
(***************************************************************************)
EXTENDS AllreduceBenchmark, SumLemmas, SequenceTheorems

(***************************************************************************)
(* The job sizes at which a verdict is right, for every number of elements *)
(* and every set of overwritten ones: up to 999 ranks, since 999 is the    *)
(* marker and from then on also a rank; with int8 up to 11, since from     *)
(* then on the markers of several ranks can add up to a multiple of 256.   *)
(***************************************************************************)
Sound(t, size) == size <= (IF t = "INT8" THEN 11 ELSE 999)

LEMMA ExpectedIs ==
  ASSUME NEW n \in Nat
  PROVE  Expected(n) \in Int /\ 2 * Expected(n) = n * (n - 1)
<1> DEFINE G == {k \in Nat : \E h \in Int : 2 * h = k * (k - 1)}
<1>1. 0 \in G
  OBVIOUS
<1>2. \A k \in 0 .. n - 1 : k \in G => k + 1 \in G
  <2>1. SUFFICES ASSUME NEW k \in 0 .. n - 1, NEW h \in Int, 2 * h = k * (k - 1)
                 PROVE  k + 1 \in G
    OBVIOUS
  <2>2. 2 * (h + k) = (k + 1) * ((k + 1) - 1)
    BY <2>1
  <2>3. k + 1 \in Nat /\ h + k \in Int
    OBVIOUS
  <2> QED
    BY <2>2, <2>3
<1> HIDE DEF G
<1>3. n \in G
  BY <1>1, <1>2, CountingUp
<1>4. PICK h \in Int : 2 * h = n * (n - 1)
  BY <1>3 DEF G
<1>5. ((n - 1) * n) \div 2 = h
  BY <1>4
<1> QED
  BY <1>4, <1>5 DEF Expected

(***************************************************************************)
(* Every rank sends its number or a marker that is larger than any.        *)
(***************************************************************************)
LEMMA LargeMarkers ==
  ASSUME NEW n \in Nat, NEW f \in [0 .. n - 1 -> Int], NEW m \in Int, m >= n,
         \A r \in 0 .. n - 1 : f[r] \in {r, m}
  PROVE  SumFunction(f) = Expected(n) <=> \A r \in 0 .. n - 1 : f[r] = r
<1> DEFINE Sum(k) == PartialSum(f, 0 .. k - 1)
           Clean(k) == \A r \in 0 .. k - 1 : f[r] = r
           Good(k) == IF Clean(k) THEN 2 * Sum(k) = k * (k - 1) ELSE 2 * Sum(k) > k * (k - 1)
           G == {k \in 0 .. n : Good(k)}
<1>1. 0 \in G
  BY WholeSum
<1>2. \A k \in 0 .. n - 1 : k \in G => k + 1 \in G
  <2> SUFFICES ASSUME NEW k \in 0 .. n - 1, Good(k)
               PROVE  Good(k + 1)
    OBVIOUS
  <2>1. Sum(k) \in Int /\ Sum(k + 1) = f[k] + Sum(k)
    BY NextRank
  <2>2. Clean(k + 1) <=> Clean(k) /\ f[k] = k
    OBVIOUS
  <2>4. f[k] \in Int /\ f[k] >= k /\ (f[k] # k => f[k] > k)
    OBVIOUS
  <2> HIDE DEF Sum, Clean
  <2>5. (k + 1) * ((k + 1) - 1) = k * (k - 1) + 2 * k
    OBVIOUS
  <2>6. k * (k - 1) \in Int /\ k \in Int
    OBVIOUS
  <2>7. CASE Clean(k) /\ f[k] = k
    BY <2>1, <2>2, <2>5, <2>6, <2>7
  <2>8. CASE Clean(k) /\ f[k] # k
    BY <2>1, <2>2, <2>4, <2>5, <2>6, <2>8
  <2>9. CASE ~ Clean(k)
    BY <2>1, <2>2, <2>4, <2>5, <2>6, <2>9
  <2> QED
    BY <2>7, <2>8, <2>9
<1> HIDE DEF G
<1>3. n \in G
  <2>1. \A k \in 0 .. n : k \in G
    BY <1>1, <1>2, CountingUp, Zenon
  <2> QED
    BY <2>1
<1>4. SumFunction(f) = Sum(n) /\ Sum(n) \in Int
  BY WholeSum
<1>5. IF Clean(n) THEN 2 * Sum(n) = n * (n - 1) ELSE 2 * Sum(n) > n * (n - 1)
  BY <1>3 DEF G
<1>6. Expected(n) \in Int /\ 2 * Expected(n) = n * (n - 1)
  BY ExpectedIs, Zenon
<1>7. Clean(n) <=> \A r \in 0 .. n - 1 : f[r] = r
  OBVIOUS
<1> HIDE DEF Sum, Clean
<1> QED
  BY <1>4, <1>5, <1>6, <1>7

(***************************************************************************)
(* The same with int8 and its marker 99.  Of k ranks c have been corrupted *)
(* whose numbers add up to h: between those of the first c and the last c. *)
(***************************************************************************)
Corrupts(k, c, h) == c * (c - 1) <= 2 * h /\ 2 * h <= c * (2 * k - c - 1)

LEMMA OneMoreRank ==
  ASSUME NEW k \in Nat, NEW c \in 0 .. k, NEW h \in Int, Corrupts(k, c, h)
  PROVE  Corrupts(k + 1, c, h) /\ Corrupts(k + 1, c + 1, h + k)
<1>1. /\ c * (2 * (k + 1) - c - 1) = c * (2 * k - c - 1) + 2 * c
      /\ (c + 1) * ((c + 1) - 1) = c * (c - 1) + 2 * c
      /\ (c + 1) * (2 * (k + 1) - (c + 1) - 1) = c * (2 * k - c - 1) + 2 * k
      /\ 2 * (h + k) = 2 * h + 2 * k
  OBVIOUS
<1>2. c * (2 * k - c - 1) \in Int /\ c * (c - 1) \in Int
  OBVIOUS
<1> QED
  BY <1>1, <1>2 DEF Corrupts

\* No such sum is a multiple of 256.
LEMMA NoCancel ==
  ASSUME NEW n \in 0 .. 11, NEW c \in 1 .. n, NEW h \in Int, Corrupts(n, c, h),
         NEW d \in Int, d = 99 * c - h
  PROVE  d % 256 # 0
<1>1. c * (2 * n - c - 1) <= c * (2 * 11 - c - 1)
  BY DEF Corrupts
<1>2. c * (c - 1) <= 2 * h /\ 2 * h <= c * (21 - c)
  BY <1>1 DEF Corrupts
<1>3. c = 1 \/ c = 2 \/ c = 3 \/ c = 4 \/ c = 5 \/ c = 6 \/ c = 7 \/ c = 8 \/ c = 9 \/ c = 10 \/ c = 11
  OBVIOUS
<1> QED
  BY <1>2, <1>3

\* The first k ranks.
Clean(f, k) == \A r \in 0 .. k - 1 : f[r] = r
AddsUp(f, k, c, h) ==
  /\ Corrupts(k, c, h) /\ (c = 0 <=> Clean(f, k))
  /\ 2 * PartialSum(f, 0 .. k - 1) = k * (k - 1) + 2 * (99 * c - h)

LEMMA NextAddsUp ==
  ASSUME NEW n \in Nat, NEW f \in [0 .. n - 1 -> Int], NEW k \in 0 .. n - 1,
         f[k] \in {k, 99}, NEW c \in 0 .. k, NEW h \in Int, AddsUp(f, k, c, h)
  PROVE  \E d \in 0 .. k + 1, g \in Int : AddsUp(f, k + 1, d, g)
<1> DEFINE s == PartialSum(f, 0 .. k - 1)
           t == PartialSum(f, 0 .. (k + 1) - 1)
<1>1. s \in Int /\ t = f[k] + s
  BY NextRank
<1>2. Clean(f, k + 1) <=> Clean(f, k) /\ f[k] = k
  BY DEF Clean
<1>3. Corrupts(k + 1, c, h) /\ Corrupts(k + 1, c + 1, h + k)
  BY OneMoreRank DEF AddsUp
<1>4. 2 * s = k * (k - 1) + 2 * (99 * c - h) /\ (c = 0 <=> Clean(f, k))
  BY DEF AddsUp
<1>5. (k + 1) * ((k + 1) - 1) = k * (k - 1) + 2 * k /\ k * (k - 1) \in Int
  OBVIOUS
<1>6. CASE f[k] = k
  <2>1. 2 * t = (k + 1) * ((k + 1) - 1) + 2 * (99 * c - h)
    <3> HIDE DEF s, t
    <3> QED
      BY <1>1, <1>4, <1>5, <1>6
  <2>2. c \in 0 .. k + 1 /\ (c = 0 <=> Clean(f, k + 1))
    BY <1>2, <1>4, <1>6
  <2>3. AddsUp(f, k + 1, c, h)
    BY <1>3, <2>1, <2>2 DEF AddsUp
  <2> QED
    BY <2>2, <2>3
<1>7. CASE f[k] = 99 /\ f[k] # k
  <2>1. 2 * t = (k + 1) * ((k + 1) - 1) + 2 * (99 * (c + 1) - (h + k))
    <3> HIDE DEF s, t
    <3> QED
      BY <1>1, <1>4, <1>5, <1>7
  <2>2. c + 1 \in 0 .. k + 1 /\ h + k \in Int /\ (c + 1 = 0 <=> Clean(f, k + 1))
    BY <1>2, <1>7
  <2>3. AddsUp(f, k + 1, c + 1, h + k)
    BY <1>3, <2>1, <2>2 DEF AddsUp
  <2> QED
    BY <2>2, <2>3
<1> QED
  BY <1>6, <1>7

LEMMA AllAddUp ==
  ASSUME NEW n \in Nat, NEW f \in [0 .. n - 1 -> Int], \A r \in 0 .. n - 1 : f[r] \in {r, 99}
  PROVE  \E c \in 0 .. n, h \in Int : AddsUp(f, n, c, h)
<1> DEFINE G == {k \in 0 .. n : \E c \in 0 .. k, h \in Int : AddsUp(f, k, c, h)}
<1>1. 0 \in G
  <2>1. PartialSum(f, 0 .. 0 - 1) = 0
    BY WholeSum
  <2>2. AddsUp(f, 0, 0, 0)
    BY <2>1 DEF AddsUp, Corrupts, Clean
  <2> QED
    BY <2>2
<1>2. \A k \in 0 .. n - 1 : k \in G => k + 1 \in G
  BY NextAddsUp
<1> HIDE DEF G
<1>3. \A k \in 0 .. n : k \in G
  BY <1>1, <1>2, CountingUp, Zenon
<1> QED
  BY <1>3 DEF G

LEMMA SmallSums ==
  ASSUME NEW n \in 0 .. 11, NEW e \in Int, 2 * e = n * (n - 1)
  PROVE  e \in 0 .. 55
<1>1. n = 0 \/ n = 1 \/ n = 2 \/ n = 3 \/ n = 4 \/ n = 5 \/ n = 6 \/ n = 7 \/ n = 8 \/ n = 9
        \/ n = 10 \/ n = 11
  OBVIOUS
<1> QED
  BY <1>1

LEMMA Wraps ==
  ASSUME NEW e \in 0 .. 55, NEW d \in Int, NEW s, s = e + d
  PROVE  Int8(s) = e <=> d % 256 = 0
BY DEF Int8

LEMMA Int8Markers ==
  ASSUME NEW n \in Nat, n <= 11, NEW f \in [0 .. n - 1 -> Int],
         \A r \in 0 .. n - 1 : f[r] \in {r, 99}
  PROVE  Int8(SumFunction(f)) = Expected(n) <=> \A r \in 0 .. n - 1 : f[r] = r
<1>1. PICK c \in 0 .. n, h \in Int : AddsUp(f, n, c, h)
  BY AllAddUp
<1>2. SumFunction(f) = PartialSum(f, 0 .. n - 1) /\ SumFunction(f) \in Int
  BY WholeSum
<1>3. Expected(n) \in Int /\ 2 * Expected(n) = n * (n - 1)
  BY ExpectedIs, Zenon
<1>4. 2 * SumFunction(f) = n * (n - 1) + 2 * (99 * c - h)
  BY <1>1, <1>2 DEF AddsUp
<1> DEFINE d == 99 * c - h
<1>5. SumFunction(f) = Expected(n) + d /\ d \in Int
  BY <1>2, <1>3, <1>4
<1>6. Expected(n) \in 0 .. 55
  <2>1. n \in 0 .. 11
    OBVIOUS
  <2> QED
    BY <1>3, <2>1, SmallSums
<1>7. Corrupts(n, c, h) /\ (c = 0 <=> \A r \in 0 .. n - 1 : f[r] = r)
  BY <1>1 DEF AddsUp, Clean
<1>8. c = 0 => d % 256 = 0
  BY <1>7 DEF Corrupts
<1>9. c # 0 => d % 256 # 0
  <2>1. n \in 0 .. 11 /\ d \in Int /\ d = 99 * c - h
    OBVIOUS
  <2>2. c # 0 => c \in 1 .. n
    OBVIOUS
  <2> HIDE DEF d
  <2> QED
    BY <1>7, <2>1, <2>2, NoCancel
<1>10. Int8(SumFunction(f)) = Expected(n) <=> d % 256 = 0
  <2> HIDE DEF d
  <2> QED
    BY <1>5, <1>6, Wraps
<1> HIDE DEF d
<1> QED
  BY <1>7, <1>8, <1>9, <1>10

(***************************************************************************)
(* The sum of what the ranks sends for an element is the expected one if    *)
(* and only if no rank sends the marker.                                   *)
(***************************************************************************)
LEMMA ColumnIsRight ==
  ASSUME NEW n \in Nat, NEW t \in DataType, Sound(t, n), NEW Hit \in SUBSET (0 .. n - 1)
  PROVE  Store(t, SumFunction([r \in 0 .. n - 1 |->
                                 Store(t, IF r \in Hit THEN Marker(t) ELSE r)]))
           = Expected(n) <=> Hit = {}
<1> DEFINE f == [r \in 0 .. n - 1 |-> Store(t, IF r \in Hit THEN Marker(t) ELSE r)]
<1>1. CASE t = "INT8"
  <2>1. n <= 11
    BY <1>1 DEF Sound
  <2>2. \A r \in 0 .. 10 : Int8(r) = r
    BY DEF Int8
  <2>3. Int8(99) = 99
    BY DEF Int8
  <2>4. f = [r \in 0 .. n - 1 |-> IF r \in Hit THEN 99 ELSE r]
    BY <1>1, <2>1, <2>2, <2>3 DEF Store, Marker
  <2> HIDE DEF f
  <2>5. f \in [0 .. n - 1 -> Int] /\ \A r \in 0 .. n - 1 : f[r] \in {r, 99}
    BY <2>4
  <2>6. \A r \in 0 .. n - 1 : f[r] = r <=> r \notin Hit
    BY <2>1, <2>4
  <2>7. Int8(SumFunction(f)) = Expected(n) <=> \A r \in 0 .. n - 1 : f[r] = r
    BY <2>1, <2>5, Int8Markers
  <2>8. (\A r \in 0 .. n - 1 : f[r] = r) <=> Hit = {}
    BY <2>6
  <2> QED
    BY <1>1, <2>7, <2>8 DEF f, Store
<1>2. CASE t # "INT8"
  <2>1. n <= 999
    BY <1>2 DEF Sound
  <2>2. f = [r \in 0 .. n - 1 |-> IF r \in Hit THEN 999 ELSE r]
    BY <1>2 DEF Store, Marker
  <2> HIDE DEF f
  <2>3. f \in [0 .. n - 1 -> Int] /\ \A r \in 0 .. n - 1 : f[r] \in {r, 999}
    BY <2>2
  <2>4. \A r \in 0 .. n - 1 : f[r] = r <=> r \notin Hit
    BY <2>1, <2>2
  <2>5. 999 \in Int /\ 999 >= n
    BY <2>1
  <2>6. SumFunction(f) = Expected(n) <=> \A r \in 0 .. n - 1 : f[r] = r
    BY <2>3, <2>5, LargeMarkers
  <2>7. (\A r \in 0 .. n - 1 : f[r] = r) <=> Hit = {}
    BY <2>4
  <2> QED
    BY <1>2, <2>6, <2>7 DEF f, Store
<1> QED
  BY <1>1, <1>2

\* The buffers of n ranks whose places `hits' have been overwritten.
Overwritten(t, n, m, hits, sends) ==
  /\ DOMAIN sends = 0 .. n - 1
  /\ \A r \in 0 .. n - 1 :
       sends[r] = [i \in 1 .. m |-> Store(t, IF <<r, i>> \in hits THEN Marker(t) ELSE r)]

(***************************************************************************)
(* validate() counts exactly the elements that some rank has overwritten.  *)
(***************************************************************************)
LEMMA CountsOverwritten ==
  ASSUME NEW n \in Nat, n # 0, NEW t \in DataType, Sound(t, n), NEW m \in Nat,
         NEW hits, hits \subseteq (0 .. n - 1) \X (1 .. m),
         NEW sends, Overwritten(t, n, m, hits, sends)
  PROVE  Validate(Reduced(t, sends), n) = Cardinality({hit[2] : hit \in hits})
<1> DEFINE column(i) == [r \in 0 .. n - 1 |-> sends[r][i]]
           Hit(i) == {r \in 0 .. n - 1 : <<r, i>> \in hits}
           sums == Reduced(t, sends)
<1>1. DOMAIN sums = 1 .. m
  BY DEF Reduced, Overwritten
<1>2. ASSUME NEW i \in 1 .. m
      PROVE  sums[i] = Expected(n) <=> Hit(i) = {}
  <2>1. sums[i] = Store(t, SumFunction(column(i)))
    BY DEF Reduced, Overwritten
  <2>2. column(i) = [r \in 0 .. n - 1 |-> Store(t, IF r \in Hit(i) THEN Marker(t) ELSE r)]
    BY DEF Overwritten
  <2>3. Hit(i) \in SUBSET (0 .. n - 1)
    OBVIOUS
  <2> HIDE DEF Hit, column, sums
  <2> QED
    BY <2>1, <2>2, <2>3, ColumnIsRight
<1>3. \A i \in 1 .. m : Hit(i) # {} <=> i \in {hit[2] : hit \in hits}
  <2>1. ASSUME NEW i \in 1 .. m, NEW r \in Hit(i)
        PROVE  i \in {hit[2] : hit \in hits}
    <3>1. <<r, i>> \in hits /\ <<r, i>>[2] = i
      OBVIOUS
    <3> QED
      BY <3>1
  <2>2. ASSUME NEW hit \in hits
        PROVE  hit[1] \in Hit(hit[2])
    <3>1. hit = <<hit[1], hit[2]>> /\ hit[1] \in 0 .. n - 1
      OBVIOUS
    <3> QED
      BY <3>1
  <2> HIDE DEF Hit
  <2> QED
    BY <2>1, <2>2
<1>4. {hit[2] : hit \in hits} \subseteq 1 .. m
  OBVIOUS
<1> HIDE DEF Hit, sums
<1>5. {i \in DOMAIN sums : sums[i] # Expected(n)} = {hit[2] : hit \in hits}
  BY <1>1, <1>2, <1>3, <1>4
<1> QED
  BY <1>5 DEF Validate, sums

-----------------------------------------------------------------------------
(***************************************************************************)
(* The steps of the three programs.                                        *)
(***************************************************************************)
RcclSteps ==
  <<"args", "device", "parse", "alloc", "id", "pick", "inject", "barrier", "comm",
    "allreduce", "copy", "validate", "errors", "report", "min", "max", "sum", "cleanup">>
MpiSteps ==
  <<"args", "parse", "fill", "pick", "inject", "barrier", "start", "allreduce",
    "validate", "errors", "report", "min", "max", "sum", "cleanup">>
LambdaSteps ==
  <<"args", "device", "parse", "fill", "pick", "inject", "barrier", "start", "allreduce",
    "validate", "errors", "report", "min", "max", "sum", "cleanup">>

Labels ==
  {"args", "device", "parse", "alloc", "id", "fill", "pick", "inject", "barrier", "comm",
   "start", "allreduce", "copy", "validate", "errors", "report", "min", "max", "sum",
   "cleanup"}

LEMMA RcclStepsAre ==
  ASSUME variant = "rccl"
  PROVE  Steps = RcclSteps
<1> DEFINE first == <<"args", "device", "parse", "alloc", "id", "pick", "inject", "barrier", "comm",
                      "allreduce", "copy">>
<1>1. Steps = first \o Reports
  BY DEF Steps
<1>2. first \o Reports \in Seq(Labels) /\ RcclSteps \in Seq(Labels)
  BY DEF Reports, RcclSteps, Labels
<1>3. Len(first \o Reports) = 18 /\ Len(RcclSteps) = 18
  BY DEF Reports, RcclSteps
<1>4. \A i \in 1 .. 18 : (first \o Reports)[i] = IF i <= 11 THEN first[i] ELSE Reports[i - 11]
  BY DEF Reports
<1>5. \A i \in 1 .. 18 : RcclSteps[i] = IF i <= 11 THEN first[i] ELSE Reports[i - 11]
  BY DEF RcclSteps, Reports
<1> HIDE DEF first
<1>6. \A i \in 1 .. Len(first \o Reports) : (first \o Reports)[i] = RcclSteps[i]
  BY <1>3, <1>4, <1>5
<1>7. first \o Reports = RcclSteps
  BY <1>2, <1>3, <1>6, SeqEqual
<1> QED
  BY <1>1, <1>7

LEMMA MpiStepsAre ==
  ASSUME variant = "mpi"
  PROVE  Steps = MpiSteps
<1> DEFINE first == <<"args", "parse", "fill", "pick", "inject", "barrier", "start", "allreduce">>
<1>1. Steps = first \o Reports
  BY DEF Steps
<1>2. first \o Reports \in Seq(Labels) /\ MpiSteps \in Seq(Labels)
  BY DEF Reports, MpiSteps, Labels
<1>3. Len(first \o Reports) = 15 /\ Len(MpiSteps) = 15
  BY DEF Reports, MpiSteps
<1>4. \A i \in 1 .. 15 : (first \o Reports)[i] = IF i <= 8 THEN first[i] ELSE Reports[i - 8]
  BY DEF Reports
<1>5. \A i \in 1 .. 15 : MpiSteps[i] = IF i <= 8 THEN first[i] ELSE Reports[i - 8]
  BY DEF MpiSteps, Reports
<1> HIDE DEF first
<1>6. \A i \in 1 .. Len(first \o Reports) : (first \o Reports)[i] = MpiSteps[i]
  BY <1>3, <1>4, <1>5
<1>7. first \o Reports = MpiSteps
  BY <1>2, <1>3, <1>6, SeqEqual
<1> QED
  BY <1>1, <1>7

LEMMA LambdaStepsAre ==
  ASSUME variant = "lambda"
  PROVE  Steps = LambdaSteps
<1> DEFINE first == <<"args", "device", "parse", "fill", "pick", "inject", "barrier", "start",
                      "allreduce">>
<1>1. Steps = first \o Reports
  BY DEF Steps
<1>2. first \o Reports \in Seq(Labels) /\ LambdaSteps \in Seq(Labels)
  BY DEF Reports, LambdaSteps, Labels
<1>3. Len(first \o Reports) = 16 /\ Len(LambdaSteps) = 16
  BY DEF Reports, LambdaSteps
<1>4. \A i \in 1 .. 16 : (first \o Reports)[i] = IF i <= 9 THEN first[i] ELSE Reports[i - 9]
  BY DEF Reports
<1>5. \A i \in 1 .. 16 : LambdaSteps[i] = IF i <= 9 THEN first[i] ELSE Reports[i - 9]
  BY DEF LambdaSteps, Reports
<1> HIDE DEF first
<1>6. \A i \in 1 .. Len(first \o Reports) : (first \o Reports)[i] = LambdaSteps[i]
  BY <1>3, <1>4, <1>5
<1>7. first \o Reports = LambdaSteps
  BY <1>2, <1>3, <1>6, SeqEqual
<1> QED
  BY <1>1, <1>7

(***************************************************************************)
(* A program is in one step at a time, and comes to the steps in the same  *)
(* order in every variant.                                                 *)
(***************************************************************************)
FillStep == IF variant = "rccl" THEN "alloc" ELSE "fill"

Ordered ==
  /\ NumberOf("parse") < NumberOf(FillStep)
  /\ NumberOf(FillStep) < NumberOf("pick")
  /\ NumberOf("inject") = NumberOf("pick") + 1
  /\ NumberOf("barrier") = NumberOf("inject") + 1
  /\ NumberOf("barrier") < NumberOf("allreduce")
  /\ NumberOf("allreduce") < NumberOf("validate")
  /\ NumberOf("errors") = NumberOf("validate") + 1
  /\ NumberOf("report") = NumberOf("errors") + 1

Common ==
  {"args", "parse", FillStep, "pick", "inject", "barrier", "allreduce", "validate", "errors",
   "report", "cleanup"}

Numbered ==
  /\ Len(Steps) \in Nat /\ DOMAIN Steps = 1 .. Len(Steps)
  /\ \A m, n \in DOMAIN Steps : Steps[m] = Steps[n] => m = n
  /\ 1 \in DOMAIN Steps /\ Len(Steps) = NumberOf("cleanup")
  /\ \A label \in Common : NumberOf(label) \in DOMAIN Steps /\ Steps[NumberOf(label)] = label
  /\ \A n \in DOMAIN Steps :
       Steps[n] \in FallibleSteps \ {"cleanup"} => n < NumberOf("errors")

LEMMA NumberIs ==
  ASSUME \A m, n \in DOMAIN Steps : Steps[m] = Steps[n] => m = n, NEW n \in DOMAIN Steps
  PROVE  NumberOf(Steps[n]) = n
BY DEF NumberOf

LEMMA RcclNumbers ==
  ASSUME variant = "rccl"
  PROVE  Numbered /\ Ordered
<1>1. Len(Steps) = 18 /\ DOMAIN Steps = 1 .. 18
  BY RcclStepsAre DEF RcclSteps
<1>2. \A i, j \in 1 .. 18 : Steps[i] = Steps[j] => i = j
  BY RcclStepsAre DEF RcclSteps
<1>3. /\ Steps[1] = "args"
      /\ Steps[3] = "parse"
      /\ Steps[4] = "alloc"
      /\ Steps[6] = "pick"
      /\ Steps[7] = "inject"
      /\ Steps[8] = "barrier"
      /\ Steps[10] = "allreduce"
      /\ Steps[12] = "validate"
      /\ Steps[13] = "errors"
      /\ Steps[14] = "report"
      /\ Steps[18] = "cleanup"
  BY RcclStepsAre DEF RcclSteps
<1>4. /\ NumberOf("args") = 1
      /\ NumberOf("parse") = 3
      /\ NumberOf("alloc") = 4
      /\ NumberOf("pick") = 6
      /\ NumberOf("inject") = 7
      /\ NumberOf("barrier") = 8
      /\ NumberOf("allreduce") = 10
      /\ NumberOf("validate") = 12
      /\ NumberOf("errors") = 13
      /\ NumberOf("report") = 14
      /\ NumberOf("cleanup") = 18
  BY <1>1, <1>2, <1>3, NumberIs
<1>5. \A i \in 1 .. 18 : Steps[i] \in FallibleSteps \ {"cleanup"} => i < 13
  BY RcclStepsAre DEF RcclSteps, FallibleSteps
<1>6. FillStep = "alloc"
  BY DEF FillStep
<1>7. Numbered
  BY <1>1, <1>2, <1>3, <1>4, <1>5, <1>6 DEF Numbered, Common
<1> QED
  BY <1>1, <1>4, <1>6, <1>7 DEF Ordered

LEMMA MpiNumbers ==
  ASSUME variant = "mpi"
  PROVE  Numbered /\ Ordered
<1>1. Len(Steps) = 15 /\ DOMAIN Steps = 1 .. 15
  BY MpiStepsAre DEF MpiSteps
<1>2. \A i, j \in 1 .. 15 : Steps[i] = Steps[j] => i = j
  BY MpiStepsAre DEF MpiSteps
<1>3. /\ Steps[1] = "args"
      /\ Steps[2] = "parse"
      /\ Steps[3] = "fill"
      /\ Steps[4] = "pick"
      /\ Steps[5] = "inject"
      /\ Steps[6] = "barrier"
      /\ Steps[8] = "allreduce"
      /\ Steps[9] = "validate"
      /\ Steps[10] = "errors"
      /\ Steps[11] = "report"
      /\ Steps[15] = "cleanup"
  BY MpiStepsAre DEF MpiSteps
<1>4. /\ NumberOf("args") = 1
      /\ NumberOf("parse") = 2
      /\ NumberOf("fill") = 3
      /\ NumberOf("pick") = 4
      /\ NumberOf("inject") = 5
      /\ NumberOf("barrier") = 6
      /\ NumberOf("allreduce") = 8
      /\ NumberOf("validate") = 9
      /\ NumberOf("errors") = 10
      /\ NumberOf("report") = 11
      /\ NumberOf("cleanup") = 15
  BY <1>1, <1>2, <1>3, NumberIs
<1>5. \A i \in 1 .. 15 : Steps[i] \in FallibleSteps \ {"cleanup"} => i < 10
  BY MpiStepsAre DEF MpiSteps, FallibleSteps
<1>6. FillStep = "fill"
  BY DEF FillStep
<1>7. Numbered
  BY <1>1, <1>2, <1>3, <1>4, <1>5, <1>6 DEF Numbered, Common
<1> QED
  BY <1>1, <1>4, <1>6, <1>7 DEF Ordered

LEMMA LambdaNumbers ==
  ASSUME variant = "lambda"
  PROVE  Numbered /\ Ordered
<1>1. Len(Steps) = 16 /\ DOMAIN Steps = 1 .. 16
  BY LambdaStepsAre DEF LambdaSteps
<1>2. \A i, j \in 1 .. 16 : Steps[i] = Steps[j] => i = j
  BY LambdaStepsAre DEF LambdaSteps
<1>3. /\ Steps[1] = "args"
      /\ Steps[3] = "parse"
      /\ Steps[4] = "fill"
      /\ Steps[5] = "pick"
      /\ Steps[6] = "inject"
      /\ Steps[7] = "barrier"
      /\ Steps[9] = "allreduce"
      /\ Steps[10] = "validate"
      /\ Steps[11] = "errors"
      /\ Steps[12] = "report"
      /\ Steps[16] = "cleanup"
  BY LambdaStepsAre DEF LambdaSteps
<1>4. /\ NumberOf("args") = 1
      /\ NumberOf("parse") = 3
      /\ NumberOf("fill") = 4
      /\ NumberOf("pick") = 5
      /\ NumberOf("inject") = 6
      /\ NumberOf("barrier") = 7
      /\ NumberOf("allreduce") = 9
      /\ NumberOf("validate") = 10
      /\ NumberOf("errors") = 11
      /\ NumberOf("report") = 12
      /\ NumberOf("cleanup") = 16
  BY <1>1, <1>2, <1>3, NumberIs
<1>5. \A i \in 1 .. 16 : Steps[i] \in FallibleSteps \ {"cleanup"} => i < 11
  BY LambdaStepsAre DEF LambdaSteps, FallibleSteps
<1>6. FillStep = "fill"
  BY DEF FillStep
<1>7. Numbered
  BY <1>1, <1>2, <1>3, <1>4, <1>5, <1>6 DEF Numbered, Common
<1> QED
  BY <1>1, <1>4, <1>6, <1>7 DEF Ordered

LEMMA Numbering ==
  ASSUME variant \in Variants
  PROVE  Numbered /\ Ordered
BY RcclNumbers, MpiNumbers, LambdaNumbers, BenchConstants

\* The steps are those of the program, which does not change.
LEMMA SameProgram ==
  ASSUME UNCHANGED inputs
  PROVE  /\ Steps' = Steps /\ FillStep' = FillStep /\ FallibleSteps' = FallibleSteps
         /\ \A label : NumberOf(label)' = NumberOf(label)
         /\ args' = args /\ type' = type /\ count' = count
<1>1. variant' = variant /\ line' = line
  BY DEF inputs
<1>2. Steps' = Steps
  BY <1>1 DEF Steps
<1> QED
  BY <1>1, <1>2 DEF FillStep, FallibleSteps, NumberOf, args, type, count

\* Rank r has left a step.
Past(r, label) == pc[r] > NumberOf(label)

Places == variant \in Variants /\ pc \in [Procs -> DOMAIN Steps]

LEMMA NumbersAreInts ==
  ASSUME Numbered
  PROVE  /\ NumberOf("parse") \in Int /\ NumberOf(FillStep) \in Int
         /\ NumberOf("pick") \in Int /\ NumberOf("inject") \in Int
         /\ NumberOf("barrier") \in Int /\ NumberOf("allreduce") \in Int
         /\ NumberOf("validate") \in Int /\ NumberOf("errors") \in Int
         /\ NumberOf("report") \in Int
<1>1. \A label \in Common : NumberOf(label) \in Int
  BY DEF Numbered
<1> QED
  BY <1>1 DEF Common

LEMMA PastOrder ==
  ASSUME Places, NEW r \in Procs
  PROVE  /\ Past(r, "report") => Past(r, "errors")
         /\ Past(r, "errors") => Past(r, "validate")
         /\ Past(r, "validate") => Past(r, "allreduce")
         /\ Past(r, "allreduce") => Past(r, "barrier")
         /\ Past(r, "barrier") => Past(r, "inject")
         /\ Past(r, "inject") => Past(r, "pick")
         /\ Past(r, "pick") => Past(r, FillStep)
         /\ Past(r, FillStep) => Past(r, "parse")
<1>1. Numbered /\ Ordered
  BY Numbering DEF Places
<1>2. pc[r] \in Int
  BY <1>1 DEF Numbered, Places
<1>3. /\ NumberOf("parse") \in Int /\ NumberOf(FillStep) \in Int
      /\ NumberOf("pick") \in Int /\ NumberOf("inject") \in Int
      /\ NumberOf("barrier") \in Int /\ NumberOf("allreduce") \in Int
      /\ NumberOf("validate") \in Int /\ NumberOf("errors") \in Int
      /\ NumberOf("report") \in Int
  BY <1>1, NumbersAreInts
<1> QED
  BY <1>1, <1>2, <1>3 DEF Past, Ordered

\* A step leads past the place it is in and past no other.
LEMMA Passes ==
  ASSUME Places, UNCHANGED inputs, NEW r \in Procs, Advance(r), NEW label \in Common
  PROVE  \A q \in Procs : Past(q, label)' <=> Past(q, label) \/ (q = r /\ Steps[pc[r]] = label)
<1>1. Numbered
  BY Numbering DEF Places
<1>2. NumberOf(label)' = NumberOf(label)
  BY SameProgram
<1>3. NumberOf(label) \in Int /\ \A q \in Procs : pc[q] \in Int
  BY <1>1 DEF Numbered, Places
<1>4. Steps[pc[r]] = label <=> pc[r] = NumberOf(label)
  BY <1>1 DEF Numbered, Places
<1>5. \A q \in Procs : pc'[q] = IF q = r THEN pc[r] + 1 ELSE pc[q]
  BY DEF Advance, Places
<1> QED
  BY <1>2, <1>3, <1>4, <1>5 DEF Past

\* Who waits for everyone at a step leaves no one behind at the one before.
LEMMA AllPast ==
  ASSUME Places, NEW r \in Procs, AllArrived(r), NEW label \in Common, Steps[pc[r]] = label
  PROVE  /\ label = "barrier" => \A q \in Procs : Past(q, "inject")
         /\ label = "errors" => \A q \in Procs : Past(q, "validate")
         /\ label = "report" => \A q \in Procs : Past(q, "errors")
<1>1. Numbered /\ Ordered
  BY Numbering DEF Places
<1>2. pc[r] = NumberOf(label)
  BY <1>1 DEF Numbered, Places
<1>3. \A q \in Procs : pc[q] \in Int /\ pc[q] >= NumberOf(label)
  BY <1>1, <1>2 DEF Numbered, Places, AllArrived, Arrived
<1> QED
  BY <1>1, <1>3, NumbersAreInts DEF Past, Ordered

-----------------------------------------------------------------------------
(***************************************************************************)
(* What a step of one rank touches, and what it must have waited for.      *)
(***************************************************************************)
Frame(r) ==
  /\ UNCHANGED inputs /\ ended[r] = "no"
  /\ \/ Advance(r) /\ Steps[pc[r]] # "cleanup"
     \/ /\ UNCHANGED <<pc, data, report>>
        /\ \E how \in {"ok", "rejected", "failed"} : ended' = [ended EXCEPT ![r] = how]
  /\ killed' \in BOOLEAN
  /\ Fill(r) \/ Inject(r) \/ UNCHANGED send
  /\ Pick(r) \/ UNCHANGED chosen
  /\ Inject(r) \/ UNCHANGED injected
  /\ Allreduce(r) \/ UNCHANGED recv
  /\ ValidateResult(r) \/ UNCHANGED errs
  /\ SumErrors(r) \/ UNCHANGED total
  /\ Report(r) \/ UNCHANGED verdict

LEMMA StepFrame ==
  ASSUME NEW r \in Procs, Step(r) \/ Fail(r), killed \in BOOLEAN
  PROVE  Frame(r)
<1> USE DEF data, report, At
<1>1. CASE CheckArgs(r)
  BY <1>1 DEF CheckArgs, Frame, End, Advance
<1>2. CASE UseDevice(r)
  BY <1>2 DEF UseDevice, Frame, Advance
<1>3. CASE Parse(r)
  BY <1>3 DEF Parse, Frame, End, Advance
<1>4. CASE Fill(r)
  BY <1>4 DEF Fill, Frame, Advance
<1>5. CASE ExchangeId(r)
  BY <1>5 DEF ExchangeId, Frame, Advance
<1>6. CASE Pick(r)
  BY <1>6 DEF Pick, Frame, Advance
<1>7. CASE Inject(r)
  BY <1>7 DEF Inject, Frame, Advance
<1>8. CASE Barrier(r)
  BY <1>8 DEF Barrier, Frame, Advance
<1>9. CASE InitComm(r)
  BY <1>9 DEF InitComm, Frame, Advance
<1>10. CASE Allreduce(r)
  BY <1>10 DEF Allreduce, Frame, Advance
<1>11. CASE ValidateResult(r)
  BY <1>11 DEF ValidateResult, Frame, Advance
<1>12. CASE SumErrors(r)
  BY <1>12 DEF SumErrors, Frame, Advance
<1>13. CASE Report(r)
  BY <1>13 DEF Report, Frame, Advance
<1>14. CASE ReduceTimes(r)
  BY <1>14 DEF ReduceTimes, Frame, Advance
<1>15. CASE Cleanup(r)
  BY <1>15 DEF Cleanup, Frame, End
<1>16. CASE Fail(r)
  BY <1>16 DEF Fail, Frame, End
<1> QED
  BY <1>1, <1>2, <1>3, <1>4, <1>5, <1>6, <1>7, <1>8, <1>9, <1>10, <1>11, <1>12, <1>13,
     <1>14, <1>15, <1>16 DEF Step

\* Who leaves a step has done what is to be done there.
LEMMA Done ==
  ASSUME NEW r \in Procs, Step(r) \/ Fail(r), pc' # pc
  PROVE  /\ Steps[pc[r]] = "parse" => KnownArgs(args) /\ count > 0
         /\ Steps[pc[r]] \in {"alloc", "fill"} => Fill(r)
         /\ Steps[pc[r]] = "pick" => Pick(r)
         /\ Steps[pc[r]] = "inject" => Inject(r)
         /\ Steps[pc[r]] = "barrier" => AllArrived(r)
         /\ Steps[pc[r]] = "allreduce" => Allreduce(r)
         /\ Steps[pc[r]] = "validate" => ValidateResult(r)
         /\ Steps[pc[r]] = "errors" => SumErrors(r)
         /\ Steps[pc[r]] = "report" => Report(r)
<1>1. ~ Fail(r) /\ ~ Cleanup(r)
  BY DEF Fail, Cleanup, End
<1>2. CheckArgs(r) => Steps[pc[r]] = "args"
  BY DEF CheckArgs, At
<1>3. UseDevice(r) => Steps[pc[r]] \in {"device", "copy"}
  BY DEF UseDevice, At
<1>4. Parse(r) => Steps[pc[r]] = "parse" /\ KnownArgs(args) /\ count > 0
  BY DEF Parse, At, End
<1>5. Fill(r) => Steps[pc[r]] \in {"alloc", "fill"}
  BY DEF Fill, At
<1>6. ExchangeId(r) => Steps[pc[r]] = "id"
  BY DEF ExchangeId, At
<1>7. Pick(r) => Steps[pc[r]] = "pick"
  BY DEF Pick, At
<1>8. Inject(r) => Steps[pc[r]] = "inject"
  BY DEF Inject, At
<1>9. Barrier(r) => Steps[pc[r]] \in {"barrier", "start"} /\ AllArrived(r)
  BY DEF Barrier, At
<1>10. InitComm(r) => Steps[pc[r]] = "comm"
  BY DEF InitComm, At
<1>11. Allreduce(r) => Steps[pc[r]] = "allreduce"
  BY DEF Allreduce, At
<1>12. ValidateResult(r) => Steps[pc[r]] = "validate"
  BY DEF ValidateResult, At
<1>13. SumErrors(r) => Steps[pc[r]] = "errors"
  BY DEF SumErrors, At
<1>14. Report(r) => Steps[pc[r]] = "report"
  BY DEF Report, At
<1>15. ReduceTimes(r) => Steps[pc[r]] \in {"min", "max", "sum"}
  BY DEF ReduceTimes, At
<1> QED
  BY <1>1, <1>2, <1>3, <1>4, <1>5, <1>6, <1>7, <1>8, <1>9, <1>10, <1>11, <1>12, <1>13,
     <1>14, <1>15 DEF Step

(***************************************************************************)
(* The arithmetic of the command line.                                     *)
(***************************************************************************)
LEMMA DatatypeOfArgs ==
  ASSUME NEW c
  PROVE  TypeOf(c) \in DataType
<1> DEFINE last == {t \in DOMAIN Flags : \E i \in DOMAIN c :
                      /\ c[i] = Flags[t]
                      /\ \A j \in i + 1 .. Len(c) : c[j] \notin Range(Flags)}
<1>1. DOMAIN Flags \subseteq DataType
  BY DEF Flags, DataType
<1>2. TypeOf(c) = IF last = {} THEN "INT8" ELSE CHOOSE t \in last : TRUE
  BY DEF TypeOf
<1>3. last \subseteq DOMAIN Flags
  OBVIOUS
<1> HIDE DEF last
<1> QED
  BY <1>1, <1>2, <1>3 DEF DataType

LEMMA CountType ==
  ASSUME line \in CommandLines
  PROVE  count \in Nat /\ type \in DataType
<1>1. type \in DataType
  BY DatatypeOfArgs DEF type
<1>2. line.bytes \in Nat
  BY BenchConstants
<1>3. TypeSize[type] \in {1, 4, 8}
  BY <1>1 DEF TypeSize, DataType
<1>4. line.bytes \div 1 \in Nat /\ line.bytes \div 4 \in Nat /\ line.bytes \div 8 \in Nat
  BY <1>2
<1> QED
  BY <1>1, <1>3, <1>4 DEF count, Count

-----------------------------------------------------------------------------
(***************************************************************************)
(* The inductive invariant.                                                *)
(***************************************************************************)
\* What Parse lets through.
ParseInv == \A r \in Procs : Past(r, "parse") => KnownArgs(args) /\ count > 0

\* The subset is drawn once, by the root, before anyone else hears of it.
DrawInv ==
  /\ \A r \in Procs : Past(r, "pick") => Past(Root, "pick")
  /\ IF Past(Root, "pick") THEN chosen = {} <=> ~CorruptOf(args) ELSE chosen = {}

\* Every chosen rank, and no other, overwrites an element when it gets there.
InjectInv ==
  /\ \A hit \in injected : hit[1] \in chosen /\ Past(hit[1], "inject")
  /\ \A r \in chosen : Past(r, "inject") => \E i \in 1 .. count : <<r, i>> \in injected

\* Behind the barrier everyone has injected.
BarrierInv == \A r, q \in Procs : Past(r, "barrier") => Past(q, "inject")

\* What a rank sends.
Sent(r) ==
  [i \in 1 .. count |-> Store(type, IF <<r, i>> \in injected THEN Marker(type) ELSE r)]

\* What the buffers hold; nobody writes into a send buffer that was read.
BufferInv ==
  /\ \A r \in Procs : Past(r, FillStep) => send[r] = Sent(r)
  /\ \A r \in Procs : Past(r, "allreduce") => recv[r] = Reduced(type, send)

\* The counts are those of the received buffers, the total is that of the counts.
CountInv ==
  /\ \A r \in Procs : Past(r, "validate") => errs[r] = Validate(recv[r], Size)
  /\ Past(Root, "errors") => /\ \A r \in Procs : Past(r, "validate")
                             /\ total = SumFunction(errs)

\* The verdict is that of the total.
VerdictInv ==
  verdict # "none" =>
    /\ \A r \in Procs : Past(r, "errors")
    /\ verdict = IF total = 0 THEN "passed" ELSE "failed"

\* A failed rank failed in a step that can fail.
LossInv == \A r \in Procs : ended[r] = "failed" => Steps[pc[r]] \in FallibleSteps

IInv ==
  /\ TypeOK /\ ParseInv /\ DrawInv /\ InjectInv /\ BarrierInv
  /\ BufferInv /\ CountInv /\ VerdictInv /\ LossInv

\* Each label that the invariant speaks of.
LEMMA CommonLabels ==
  {"parse", FillStep, "pick", "inject", "barrier", "allreduce", "validate", "errors",
   "report"} \subseteq Common
BY DEF Common

LEMMA ProcsFinite == IsFiniteSet(Procs) /\ Cardinality(Procs) = Size /\ Root \in Procs
<1>1. IsFiniteSet(0 .. Size - 1) /\ Cardinality(0 .. Size - 1) = Size
  BY BenchConstants, FS_Interval
<1> QED
  BY <1>1, BenchConstants DEF Procs, Root

LEMMA InitIInv ==
  ASSUME Init
  PROVE  IInv
<1>1. Numbered /\ Ordered
  BY Numbering DEF Init
<1>2. \A label \in Common : NumberOf(label) \in DOMAIN Steps /\ NumberOf(label) >= 1
  BY <1>1 DEF Numbered
<1>3. \A r \in Procs, label \in Common : ~ Past(r, label)
  BY <1>1, <1>2 DEF Past, Init, Numbered
<1>4. \A r \in Procs : ~ Past(r, "parse") /\ ~ Past(r, FillStep) /\ ~ Past(r, "pick")
        /\ ~ Past(r, "barrier") /\ ~ Past(r, "allreduce") /\ ~ Past(r, "validate")
        /\ ~ Past(r, "errors")
  BY <1>3 DEF Common
<1>5. count \in Nat
  BY CountType DEF Init
<1>6. TypeOK
  <2>1. \A r \in Procs : DOMAIN send[r] = {} /\ DOMAIN recv[r] = {}
    BY DEF Init
  <2>2. pc \in [Procs -> DOMAIN Steps] /\ errs \in [Procs -> -1 .. count]
    BY <1>1, <1>5 DEF Init, Numbered
  <2> QED
    BY <2>1, <2>2 DEF Init, TypeOK
<1>7. ParseInv /\ InjectInv /\ BarrierInv /\ BufferInv
  BY <1>4 DEF Init, ParseInv, InjectInv, BarrierInv, BufferInv
<1>8. DrawInv /\ CountInv
  BY <1>4, ProcsFinite DEF Init, DrawInv, CountInv
<1> QED
  BY <1>6, <1>7, <1>8 DEF IInv, Init, VerdictInv, LossInv

(***************************************************************************)
(* A step in which no rank gets further.                                   *)
(***************************************************************************)
LEMMA StayIInv ==
  ASSUME IInv, UNCHANGED <<inputs, pc, data, report>>, killed' \in BOOLEAN,
         ended' \in [Procs -> {"no", "ok", "rejected", "failed"}], LossInv'
  PROVE  IInv'
<1>1. /\ Steps' = Steps /\ FillStep' = FillStep /\ args' = args /\ type' = type /\ count' = count
      /\ \A label : NumberOf(label)' = NumberOf(label)
  BY SameProgram
<1>2. \A r, label : Past(r, label)' <=> Past(r, label)
  BY <1>1 DEF Past
<1>3. TypeOK'
  BY <1>1 DEF IInv, TypeOK, inputs, data, report
<1>4. ParseInv' /\ DrawInv' /\ InjectInv' /\ BarrierInv'
  BY <1>1, <1>2 DEF IInv, ParseInv, DrawInv, InjectInv, BarrierInv, data
<1>5. \A r : Sent(r)' = Sent(r)
  BY <1>1 DEF Sent, data
<1>6. BufferInv' /\ CountInv' /\ VerdictInv'
  BY <1>1, <1>2, <1>5 DEF IInv, BufferInv, CountInv, VerdictInv, data, report
<1> QED
  BY <1>3, <1>4, <1>6 DEF IInv

(***************************************************************************)
(* A step in which rank r gets further, part by part.                      *)
(***************************************************************************)
Goes(r) ==
  /\ IInv /\ Frame(r) /\ Advance(r) /\ Steps[pc[r]] # "cleanup"
  /\ Steps[pc[r]] = "parse" => KnownArgs(args) /\ count > 0
  /\ Steps[pc[r]] = FillStep => Fill(r)
  /\ Steps[pc[r]] = "pick" => Pick(r)
  /\ Steps[pc[r]] = "inject" => Inject(r)
  /\ Steps[pc[r]] = "barrier" => AllArrived(r)
  /\ Steps[pc[r]] = "allreduce" => Allreduce(r)
  /\ Steps[pc[r]] = "validate" => ValidateResult(r)
  /\ Steps[pc[r]] = "errors" => SumErrors(r)
  /\ Steps[pc[r]] = "report" => Report(r)

LEMMA StepGoes ==
  ASSUME IInv, NEW r \in Procs, Step(r) \/ Fail(r), pc' # pc
  PROVE  Goes(r)
<1>1. Frame(r)
  BY StepFrame DEF IInv, TypeOK
<1>2. Advance(r) /\ Steps[pc[r]] # "cleanup"
  BY <1>1 DEF Frame
<1>3. FillStep \in {"alloc", "fill"}
  BY DEF FillStep
<1> QED
  BY <1>1, <1>2, <1>3, Done DEF Goes

\* How far everyone is afterwards.
LEMMA GoesPast ==
  ASSUME NEW r \in Procs, Goes(r)
  PROVE  /\ Places
         /\ \A label \in Common : \A q \in Procs :
              Past(q, label)' <=> Past(q, label) \/ (q = r /\ Steps[pc[r]] = label)
         /\ Steps' = Steps /\ FillStep' = FillStep /\ args' = args /\ type' = type
         /\ count' = count /\ variant' = variant /\ line' = line
<1>1. Places
  BY DEF Goes, IInv, TypeOK, Places
<1> QED
  BY <1>1, Passes, SameProgram DEF Goes, Frame, inputs

LEMMA ParseGoes ==
  ASSUME NEW r \in Procs, Goes(r)
  PROVE  ParseInv'
<1>1. \A q \in Procs : Past(q, "parse")' <=> Past(q, "parse") \/ (q = r /\ Steps[pc[r]] = "parse")
  BY GoesPast DEF Common
<1> QED
  BY <1>1, GoesPast DEF ParseInv, Goes, IInv

LEMMA DrawGoes ==
  ASSUME NEW r \in Procs, Goes(r)
  PROVE  DrawInv'
<1>1. \A q \in Procs : Past(q, "pick")' <=> Past(q, "pick") \/ (q = r /\ Steps[pc[r]] = "pick")
  BY GoesPast DEF Common
<1>2. Root \in Procs
  BY ProcsFinite
<1>3. CASE Steps[pc[r]] = "pick"
  <2>1. Pick(r)
    BY <1>3 DEF Goes
  <2>2. CASE r = Root
    <3>1. chosen' = {} <=> ~CorruptOf(args)
      BY <2>1, <2>2 DEF Pick
    <3> QED
      BY <1>1, <1>2, <1>3, <2>2, <3>1, GoesPast DEF DrawInv, Goes, IInv
  <2>3. CASE r # Root
    <3>1. pc[Root] > pc[r] /\ chosen' = chosen
      BY <2>1, <2>3 DEF Pick
    <3>2. pc[r] = NumberOf("pick")
      BY <1>3, Numbering, GoesPast DEF Numbered, Places, Common
    <3>3. Past(Root, "pick")
      BY <3>1, <3>2 DEF Past
    <3> QED
      BY <1>1, <1>2, <2>3, <3>1, <3>3, GoesPast DEF DrawInv, Goes, IInv
  <2> QED
    BY <2>2, <2>3
<1>4. CASE Steps[pc[r]] # "pick"
  <2>1. ~ Pick(r)
    BY <1>4 DEF Pick, At
  <2>2. chosen' = chosen
    BY <2>1 DEF Goes, Frame
  <2> QED
    BY <1>1, <1>2, <1>4, <2>2, GoesPast DEF DrawInv, Goes, IInv
<1> QED
  BY <1>3, <1>4

\* What the data of the invariant do where their action is not at work.
LEMMA Untouched ==
  ASSUME NEW r \in Procs, Goes(r)
  PROVE  /\ Steps[pc[r]] \notin {FillStep, "inject"} => send' = send
         /\ Steps[pc[r]] # "pick" => chosen' = chosen
         /\ Steps[pc[r]] # "inject" => injected' = injected
         /\ Steps[pc[r]] # "allreduce" => recv' = recv
         /\ Steps[pc[r]] # "validate" => errs' = errs
         /\ Steps[pc[r]] # "errors" => total' = total
         /\ Steps[pc[r]] # "report" => verdict' = verdict
<1>1. Fill(r) => Steps[pc[r]] = FillStep
  <2>1. variant = "rccl" \/ variant = "mpi" \/ variant = "lambda"
    BY BenchConstants DEF Goes, IInv, TypeOK
  <2>2. pc[r] \in DOMAIN Steps
    BY GoesPast DEF Places
  <2>3. variant = "rccl" => Steps[pc[r]] # "fill"
    BY <2>2, RcclStepsAre DEF RcclSteps
  <2>4. variant # "rccl" => Steps[pc[r]] # "alloc"
    BY <2>1, <2>2, MpiStepsAre, LambdaStepsAre DEF MpiSteps, LambdaSteps
  <2> QED
    BY <2>3, <2>4 DEF Fill, At, FillStep
<1>2. /\ Inject(r) => Steps[pc[r]] = "inject"
      /\ Pick(r) => Steps[pc[r]] = "pick"
      /\ Allreduce(r) => Steps[pc[r]] = "allreduce"
      /\ ValidateResult(r) => Steps[pc[r]] = "validate"
      /\ SumErrors(r) => Steps[pc[r]] = "errors"
      /\ Report(r) => Steps[pc[r]] = "report"
  BY DEF Inject, Pick, Allreduce, ValidateResult, SumErrors, Report, At
<1> QED
  BY <1>1, <1>2 DEF Goes, Frame

\* A rank in a step is not past it, nor past a later one.
LEMMA NotPast ==
  ASSUME Places, NEW r \in Procs, NEW label \in Common, Steps[pc[r]] = label
  PROVE  ~ Past(r, label)
<1>1. pc[r] = NumberOf(label) /\ pc[r] \in Int
  BY Numbering DEF Places, Numbered
<1> QED
  BY <1>1 DEF Past

LEMMA InjectGoes ==
  ASSUME NEW r \in Procs, Goes(r)
  PROVE  InjectInv'
<1>1. \A q \in Procs : Past(q, "inject")' <=> Past(q, "inject") \/ (q = r /\ Steps[pc[r]] = "inject")
  BY GoesPast DEF Common
<1>2. chosen \subseteq Procs /\ InjectInv /\ DrawInv
  BY DEF Goes, IInv, TypeOK
<1>3. CASE Steps[pc[r]] = "inject"
  <2>1. Inject(r) /\ chosen' = chosen
    BY <1>3, Untouched DEF Goes
  <2>2. CASE r \in chosen
    <3>1. CorruptOf(args)
      BY <2>2, <1>2 DEF DrawInv
    <3>2. PICK i \in 1 .. count : injected' = injected \cup {<<r, i>>}
      BY <2>1, <2>2, <3>1 DEF Inject
    <3>3. \A hit \in injected' : hit[1] \in chosen' /\ Past(hit[1], "inject")'
      BY <1>1, <1>2, <1>3, <2>1, <2>2, <3>2 DEF InjectInv
    <3>4. \A q \in chosen' : Past(q, "inject")' => \E j \in 1 .. count' : <<q, j>> \in injected'
      BY <1>1, <1>2, <1>3, <2>1, <3>2, GoesPast DEF InjectInv
    <3> QED
      BY <3>3, <3>4 DEF InjectInv
  <2>3. CASE r \notin chosen
    <3>1. injected' = injected
      BY <2>1, <2>3 DEF Inject
    <3> QED
      BY <1>1, <1>2, <2>1, <2>3, <3>1, GoesPast DEF InjectInv
  <2> QED
    BY <2>2, <2>3
<1>4. CASE Steps[pc[r]] = "pick" /\ r = Root
  <2>1. ~ Past(Root, "pick")
    BY <1>4, NotPast, GoesPast DEF Common
  <2>2. \A q \in Procs : ~ Past(q, "inject")
    BY <2>1, <1>2, PastOrder, GoesPast DEF DrawInv
  <2>3. injected = {} /\ injected' = injected
    BY <2>1, <1>2, <1>4, Untouched DEF DrawInv, InjectInv
  <2>4. chosen' \subseteq Procs
    BY <1>4 DEF Goes, Pick
  <2> QED
    BY <1>1, <1>4, <2>2, <2>3, <2>4 DEF InjectInv
<1>5. CASE Steps[pc[r]] # "inject" /\ ~(Steps[pc[r]] = "pick" /\ r = Root)
  <2>1. chosen' = chosen
    BY <1>5, Untouched DEF Goes, Pick
  <2> QED
    BY <1>1, <1>2, <1>5, <2>1, Untouched, GoesPast DEF InjectInv
<1> QED
  BY <1>3, <1>4, <1>5

LEMMA BarrierGoes ==
  ASSUME NEW r \in Procs, Goes(r)
  PROVE  BarrierInv'
<1>1. \A q \in Procs :
        /\ Past(q, "inject")' <=> Past(q, "inject") \/ (q = r /\ Steps[pc[r]] = "inject")
        /\ Past(q, "barrier")' <=> Past(q, "barrier") \/ (q = r /\ Steps[pc[r]] = "barrier")
  BY GoesPast DEF Common
<1>2. Steps[pc[r]] = "barrier" => \A q \in Procs : Past(q, "inject")
  BY AllPast, GoesPast DEF Goes, Common
<1> QED
  BY <1>1, <1>2 DEF BarrierInv, Goes, IInv

LEMMA SendGoes ==
  ASSUME NEW r \in Procs, Goes(r)
  PROVE  \A q \in Procs : Past(q, FillStep)' => send'[q] = Sent(q)'
<1>1. \A q \in Procs :
        Past(q, FillStep)' <=> Past(q, FillStep) \/ (q = r /\ Steps[pc[r]] = FillStep)
  BY GoesPast DEF Common, Past
<1>2. \A q \in Procs : Past(q, FillStep) => send[q] = Sent(q)
  BY DEF Goes, IInv, BufferInv
<1>3. \A q : Sent(q)' = [i \in 1 .. count |->
                          Store(type, IF <<q, i>> \in injected' THEN Marker(type) ELSE q)]
  BY GoesPast DEF Sent
<1>4. CASE Steps[pc[r]] = FillStep
  <2>1. ~ Past(r, FillStep)
    BY <1>4, NotPast, GoesPast DEF Common
  <2>2. ~ Past(r, "inject")
    BY <2>1, PastOrder, GoesPast
  <2>3. injected' = injected
    BY <1>4, Untouched DEF FillStep
  <2>4. \A i : <<r, i>> \notin injected
    BY <2>2 DEF Goes, IInv, InjectInv
  <2>5. send' = [send EXCEPT ![r] = Filled(type, count, r)]
    BY <1>4 DEF Goes, Fill
  <2>6. \A q \in Procs \ {r} : send'[q] = send[q]
    BY <2>5
  <2>7. Sent(r)' = Filled(type, count, r)
    BY <1>3, <2>3, <2>4 DEF Filled
  <2>8. \A q : Sent(q)' = Sent(q)
    BY <1>3, <2>3 DEF Sent
  <2>9. send'[r] = Filled(type, count, r)
    BY <2>5 DEF Goes, IInv, TypeOK
  <2> QED
    BY <1>1, <1>2, <2>6, <2>7, <2>8, <2>9
<1>5. CASE Steps[pc[r]] = "inject"
  <2>1. Inject(r)
    BY <1>5 DEF Goes
  <2>2. Past(r, FillStep)
    <3>1. Numbered /\ Ordered /\ pc[r] = NumberOf("inject")
      BY <1>5, Numbering, GoesPast DEF Places, Numbered, Common
    <3> QED
      BY <3>1, NumbersAreInts DEF Ordered, Past
  <2>3. \A q \in Procs : Past(q, FillStep)' => Past(q, FillStep)
    BY <1>1, <2>2
  <2>4. CASE UNCHANGED <<send, injected>>
    <3>1. \A q : Sent(q)' = Sent(q)
      BY <1>3, <2>4 DEF Sent
    <3> QED
      BY <1>2, <2>3, <2>4, <3>1
  <2>5. ASSUME NEW i \in 1 .. count,
               send' = [send EXCEPT ![r] = Corrupted(type, @, i)],
               injected' = injected \cup {<<r, i>>}
        PROVE  \A q \in Procs : Past(q, FillStep)' => send'[q] = Sent(q)'
    <3>1. \A q \in Procs : send'[q] = IF q = r THEN Corrupted(type, send[r], i) ELSE send[q]
      BY <2>5 DEF Goes, IInv, TypeOK
    <3>2. send[r] = Sent(r)
      BY <1>2, <2>2
    <3>3. Corrupted(type, Sent(r), i) = Sent(r)'
      BY <1>3, <2>5 DEF Corrupted, Sent
    <3>4. \A q \in Procs \ {r} : Sent(q)' = Sent(q)
      BY <1>3, <2>5 DEF Sent
    <3> QED
      BY <1>2, <2>3, <3>1, <3>2, <3>3, <3>4
  <2> QED
    BY <2>1, <2>4, <2>5 DEF Inject
<1>6. CASE Steps[pc[r]] \notin {FillStep, "inject"}
  <2>1. send' = send /\ injected' = injected
    BY <1>6, Untouched
  <2>2. \A q : Sent(q)' = Sent(q)
    BY <1>3, <2>1 DEF Sent
  <2> QED
    BY <1>1, <1>2, <1>6, <2>1, <2>2
<1> QED
  BY <1>4, <1>5, <1>6

LEMMA ReceiveGoes ==
  ASSUME NEW r \in Procs, Goes(r)
  PROVE  \A q \in Procs : Past(q, "allreduce")' => recv'[q] = Reduced(type, send)'
<1>1. \A q \in Procs :
        Past(q, "allreduce")' <=> Past(q, "allreduce") \/ (q = r /\ Steps[pc[r]] = "allreduce")
  BY GoesPast DEF Common
<1>2. \A q \in Procs : Past(q, "allreduce") => recv[q] = Reduced(type, send)
  BY DEF Goes, IInv, BufferInv
<1>3. type' = type
  BY GoesPast
<1>4. CASE Steps[pc[r]] = "allreduce"
  <2>1. recv' = [recv EXCEPT ![r] = Reduced(type, send)] /\ send' = send
    BY <1>4 DEF Goes, Allreduce
  <2>2. \A q \in Procs : recv'[q] = IF q = r THEN Reduced(type, send) ELSE recv[q]
    BY <2>1 DEF Goes, IInv, TypeOK
  <2> QED
    BY <1>1, <1>2, <1>3, <2>1, <2>2
<1>5. CASE Steps[pc[r]] \in {FillStep, "inject"}
  <2>1. ~ Past(r, "inject")
    <3>1. ~ Past(r, FillStep) \/ ~ Past(r, "inject")
      BY <1>5, NotPast, GoesPast DEF Common
    <3> QED
      BY <3>1, PastOrder, GoesPast
  <2>2. \A q \in Procs : ~ Past(q, "allreduce")
    BY <2>1, PastOrder, GoesPast DEF Goes, IInv, BarrierInv
  <2>3. Steps[pc[r]] # "allreduce"
    BY <1>5 DEF FillStep
  <2> QED
    BY <1>1, <2>2, <2>3
<1>6. CASE Steps[pc[r]] \notin {FillStep, "inject", "allreduce"}
  BY <1>1, <1>2, <1>3, <1>6, Untouched
<1> QED
  BY <1>4, <1>5, <1>6

LEMMA CountGoes ==
  ASSUME NEW r \in Procs, Goes(r)
  PROVE  CountInv'
<1>1. \A q \in Procs :
        /\ Past(q, "validate")' <=> Past(q, "validate") \/ (q = r /\ Steps[pc[r]] = "validate")
        /\ Past(q, "errors")' <=> Past(q, "errors") \/ (q = r /\ Steps[pc[r]] = "errors")
  BY GoesPast DEF Common
<1>2. CountInv
  BY DEF Goes, IInv
<1>3. \A q \in Procs : Past(q, "validate")' => errs'[q] = Validate(recv[q], Size)'
  <2>1. CASE Steps[pc[r]] = "validate"
    <3>1. errs' = [errs EXCEPT ![r] = Validate(recv[r], Size)] /\ recv' = recv
      BY <2>1 DEF Goes, ValidateResult
    <3>2. \A q \in Procs : errs'[q] = IF q = r THEN Validate(recv[r], Size) ELSE errs[q]
      BY <3>1 DEF Goes, IInv, TypeOK
    <3> QED
      BY <1>1, <1>2, <3>1, <3>2 DEF CountInv
  <2>2. CASE Steps[pc[r]] = "allreduce"
    <3>1. ~ Past(r, "validate") /\ ~ Past(r, "validate")'
      BY <1>1, <2>2, NotPast, PastOrder, GoesPast DEF Common
    <3>2. \A q \in Procs \ {r} : recv'[q] = recv[q]
      BY <2>2 DEF Goes, Allreduce, IInv, TypeOK
    <3> QED
      BY <1>1, <1>2, <2>2, <3>1, <3>2, Untouched DEF CountInv
  <2>3. CASE Steps[pc[r]] \notin {"validate", "allreduce"}
    BY <1>1, <1>2, <2>3, Untouched DEF CountInv
  <2> QED
    BY <2>1, <2>2, <2>3
<1>4. Root \in Procs
  BY ProcsFinite
<1>5. CASE Steps[pc[r]] = "errors" /\ r = Root
  <2>1. AllArrived(r) /\ total' = SumFunction(errs) /\ errs' = errs
    BY <1>5, Untouched DEF Goes, SumErrors
  <2>2. \A q \in Procs : Past(q, "validate")
    BY <1>5, <2>1, AllPast, GoesPast DEF Common
  <2> QED
    BY <1>1, <1>3, <2>1, <2>2 DEF CountInv
<1>6. CASE ~(Steps[pc[r]] = "errors" /\ r = Root)
  <2>1. Past(Root, "errors")' <=> Past(Root, "errors")
    BY <1>1, <1>4, <1>6
  <2>2. total' = total
    BY <1>6, Untouched DEF Goes, SumErrors
  <2>3. Past(Root, "errors") => errs' = errs
    <3>1. Steps[pc[r]] = "validate" => ~ Past(r, "validate")
      BY NotPast, GoesPast DEF Common
    <3> QED
      BY <1>2, <3>1, Untouched DEF CountInv
  <2> QED
    BY <1>1, <1>2, <1>3, <2>1, <2>2, <2>3 DEF CountInv
<1> QED
  BY <1>5, <1>6

LEMMA VerdictGoes ==
  ASSUME NEW r \in Procs, Goes(r)
  PROVE  VerdictInv' /\ verdict' \in {"none", "passed", "failed"}
<1>1. \A q \in Procs :
        Past(q, "errors")' <=> Past(q, "errors") \/ (q = r /\ Steps[pc[r]] = "errors")
  BY GoesPast DEF Common
<1>2. VerdictInv /\ verdict \in {"none", "passed", "failed"}
  BY DEF Goes, IInv, TypeOK
<1>3. CASE Steps[pc[r]] = "report"
  <2>1. /\ AllArrived(r) /\ total' = total
        /\ verdict' = IF r # Root THEN verdict ELSE IF total = 0 THEN "passed" ELSE "failed"
    BY <1>3 DEF Goes, Report
  <2>2. \A q \in Procs : Past(q, "errors")
    BY <1>3, <2>1, AllPast, GoesPast DEF Common
  <2> QED
    BY <1>1, <1>2, <2>1, <2>2 DEF VerdictInv
<1>4. CASE Steps[pc[r]] = "errors"
  <2>1. ~ Past(r, "errors")
    BY <1>4, NotPast, GoesPast DEF Common
  <2>2. verdict = "none" /\ verdict' = verdict
    BY <1>2, <1>4, <2>1, Untouched DEF VerdictInv
  <2> QED
    BY <2>2 DEF VerdictInv
<1>5. CASE Steps[pc[r]] \notin {"report", "errors"}
  BY <1>1, <1>2, <1>5, Untouched DEF VerdictInv
<1> QED
  BY <1>3, <1>4, <1>5

LEMMA LossGoes ==
  ASSUME NEW r \in Procs, Goes(r)
  PROVE  LossInv'
<1>1. ended' = ended /\ ended[r] = "no"
  BY DEF Goes, Frame, Advance
<1>2. \A q \in Procs \ {r} : pc'[q] = pc[q]
  BY DEF Goes, Advance
<1> QED
  BY <1>1, <1>2, SameProgram, GoesPast DEF LossInv, Goes, IInv, FallibleSteps

\* validate() counts no more than there is.
LEMMA ValidateType ==
  ASSUME NEW n \in Nat, NEW buffer, DOMAIN buffer \in {{}, 1 .. n}, NEW size
  PROVE  Validate(buffer, size) \in 0 .. n
<1> DEFINE wrong == {i \in DOMAIN buffer : buffer[i] # Expected(size)}
<1>1. wrong \subseteq 1 .. n
  OBVIOUS
<1>2. IsFiniteSet(1 .. n) /\ Cardinality(1 .. n) = n
  BY FS_Interval
<1>3. IsFiniteSet(wrong) /\ Cardinality(wrong) <= n /\ Cardinality(wrong) \in Nat
  BY <1>1, <1>2, FS_Subset, FS_CardinalityType
<1> QED
  BY <1>3 DEF Validate

LEMMA TypesGo ==
  ASSUME NEW r \in Procs, Goes(r)
  PROVE  TypeOK'
<1> DEFINE DataTypes == {{}, 1 .. count}
<1>1. TypeOK /\ Places /\ Numbered /\ count \in Nat
  BY Numbering, GoesPast, CountType DEF Goes, IInv, TypeOK
<1>2. /\ Steps' = Steps /\ count' = count /\ variant' = variant /\ line' = line
      /\ ended' = ended /\ killed' = killed
  BY GoesPast DEF Goes, Advance
<1>3. pc' \in [Procs -> DOMAIN Steps]
  <2>1. pc[r] \in 1 .. Len(Steps) /\ Len(Steps) \in Nat /\ pc[r] # Len(Steps)
    BY <1>1 DEF Numbered, Places, Goes, Common
  <2>2. pc[r] + 1 \in DOMAIN Steps
    BY <1>1, <2>1 DEF Numbered
  <2> QED
    BY <1>1, <2>2 DEF Goes, Advance, TypeOK
<1>4. DOMAIN send' = Procs /\ \A q \in Procs : DOMAIN send'[q] \in DataTypes
  <2>1. CASE Steps[pc[r]] = FillStep
    <3>1. send' = [send EXCEPT ![r] = Filled(type, count, r)]
      BY <2>1 DEF Goes, Fill
    <3>2. DOMAIN Filled(type, count, r) = 1 .. count
      BY DEF Filled
    <3> QED
      BY <1>1, <3>1, <3>2 DEF TypeOK
  <2>2. CASE Steps[pc[r]] = "inject"
    <3>1. \/ send' = send
          \/ \E i \in 1 .. count : send' = [send EXCEPT ![r] = Corrupted(type, send[r], i)]
      BY <2>2 DEF Goes, Inject
    <3>2. \A i \in 1 .. count : DOMAIN Corrupted(type, send[r], i) = DOMAIN send[r]
      BY DEF Corrupted
    <3> QED
      BY <1>1, <3>1, <3>2 DEF TypeOK
  <2> QED
    BY <1>1, <2>1, <2>2, Untouched DEF TypeOK
<1>5. DOMAIN recv' = Procs /\ \A q \in Procs : DOMAIN recv'[q] \in DataTypes
  <2>1. CASE Steps[pc[r]] = "allreduce"
    <3>1. recv' = [recv EXCEPT ![r] = Reduced(type, send)]
      BY <2>1 DEF Goes, Allreduce
    <3>2. DOMAIN Reduced(type, send) = DOMAIN send[0]
      BY DEF Reduced
    <3> QED
      BY <1>1, <3>1, <3>2, ProcsFinite DEF TypeOK, Root
  <2> QED
    BY <1>1, <2>1, Untouched DEF TypeOK
<1>6. chosen' \subseteq Procs
  BY <1>1, Untouched DEF TypeOK, Goes, Pick
<1>7. injected' \subseteq chosen' \X (1 .. count)
  <2>1. CASE Steps[pc[r]] = "inject"
    BY <1>1, <2>1, Untouched DEF TypeOK, Goes, Inject
  <2>2. CASE Steps[pc[r]] = "pick" /\ r = Root
    <3>1. ~ Past(Root, "pick")
      BY <2>2, NotPast, GoesPast DEF Common
    <3>2. injected = {} /\ injected' = injected
      BY <1>1, <2>2, <3>1, Untouched DEF Goes, IInv, DrawInv, TypeOK
    <3> QED
      BY <3>2
  <2>3. CASE Steps[pc[r]] # "inject" /\ ~(Steps[pc[r]] = "pick" /\ r = Root)
    <3>1. chosen' = chosen /\ injected' = injected
      BY <2>3, Untouched DEF Goes, Pick
    <3> QED
      BY <1>1, <3>1 DEF TypeOK
  <2> QED
    BY <2>1, <2>2, <2>3
<1>8. errs' \in [Procs -> -1 .. count]
  <2>1. CASE Steps[pc[r]] = "validate"
    <3>1. errs' = [errs EXCEPT ![r] = Validate(recv[r], Size)]
      BY <2>1 DEF Goes, ValidateResult
    <3>2. Validate(recv[r], Size) \in 0 .. count
      BY <1>1, ValidateType DEF TypeOK
    <3> QED
      BY <1>1, <3>1, <3>2 DEF TypeOK
  <2> QED
    BY <1>1, <2>1, Untouched DEF TypeOK
<1>9. total' \in Nat
  <2>1. CASE Steps[pc[r]] = "errors" /\ r = Root
    <3>1. AllArrived(r) /\ total' = SumFunction(errs)
      BY <2>1 DEF Goes, SumErrors
    <3>2. \A q \in Procs : Past(q, "validate")
      BY <2>1, <3>1, AllPast, GoesPast DEF Common
    <3>3. \A q \in Procs : errs[q] = Validate(recv[q], Size)
      BY <3>2 DEF Goes, IInv, CountInv
    <3>4. \A q \in Procs : errs[q] \in Nat
      BY <1>1, <3>3, ValidateType DEF TypeOK
    <3>5. errs \in [Procs -> Nat]
      BY <1>1, <3>4 DEF TypeOK
    <3> QED
      BY <3>1, <3>5, SumOfNaturals, ProcsFinite
  <2>2. CASE ~(Steps[pc[r]] = "errors" /\ r = Root)
    BY <1>1, <2>2, Untouched DEF TypeOK, Goes, SumErrors
  <2> QED
    BY <2>1, <2>2
<1>10. verdict' \in {"none", "passed", "failed"}
  BY VerdictGoes
<1> QED
  BY <1>1, <1>2, <1>3, <1>4, <1>5, <1>6, <1>7, <1>8, <1>9, <1>10 DEF TypeOK

LEMMA NextIInv ==
  ASSUME IInv, [Next]_vars
  PROVE  IInv'
<1>1. ASSUME NEW r \in Procs, Step(r) \/ Fail(r)
      PROVE  IInv'
  <2>1. Frame(r)
    BY <1>1, StepFrame DEF IInv, TypeOK
  <2>2. CASE pc' # pc
    <3>1. Goes(r)
      BY <1>1, <2>2, StepGoes
    <3> QED
      BY <3>1, TypesGo, ParseGoes, DrawGoes, InjectGoes, BarrierGoes, SendGoes, ReceiveGoes,
         CountGoes, VerdictGoes, LossGoes DEF IInv, BufferInv
  <2>3. CASE pc' = pc
    <3>1. pc[r] \in Int
      BY Numbering DEF IInv, TypeOK, Numbered
    <3>2. ~ Advance(r)
      BY <2>3, <3>1 DEF Advance, IInv, TypeOK
    <3>3. /\ UNCHANGED <<inputs, pc, data, report>> /\ killed' \in BOOLEAN
          /\ \E how \in {"ok", "rejected", "failed"} : ended' = [ended EXCEPT ![r] = how]
      BY <2>1, <3>2 DEF Frame
    <3>4. ended' \in [Procs -> {"no", "ok", "rejected", "failed"}]
      BY <3>3 DEF IInv, TypeOK
    <3>5. ended'[r] = "failed" => Steps[pc[r]] \in FallibleSteps
      <4>1. CASE Fail(r)
        BY <4>1 DEF Fail, At
      <4>2. CASE Step(r)
        <5>1. CheckArgs(r) \/ Parse(r) \/ Cleanup(r)
          BY <3>2, <4>2 DEF Step, UseDevice, Fill, ExchangeId, Pick, Inject, Barrier, InitComm,
                           Allreduce, ValidateResult, SumErrors, Report, ReduceTimes
        <5>2. End(r, "rejected") \/ End(r, "ok")
          BY <3>2, <5>1 DEF CheckArgs, Parse, Cleanup
        <5> QED
          BY <5>2 DEF End, IInv, TypeOK
      <4> QED
        BY <1>1, <4>1, <4>2
    <3>6. LossInv'
      <4>1. Steps' = Steps /\ FallibleSteps' = FallibleSteps /\ pc' = pc
        BY <3>3, SameProgram
      <4>2. \A q \in Procs \ {r} : ended'[q] = ended[q]
        BY <3>3
      <4> QED
        BY <3>5, <4>1, <4>2 DEF LossInv, IInv
    <3> QED
      BY <3>3, <3>4, <3>6, StayIInv
  <2> QED
    BY <2>2, <2>3
<1>2. CASE Launcher
  <2>1. UNCHANGED <<inputs, pc, ended, data, report>> /\ killed' \in BOOLEAN
    BY <1>2 DEF Launcher
  <2>2. LossInv'
    BY <2>1, SameProgram DEF LossInv, IInv
  <2> QED
    BY <2>1, <2>2, StayIInv DEF IInv, TypeOK
<1>3. CASE UNCHANGED vars
  <2>1. UNCHANGED <<inputs, pc, ended, data, report, killed>>
    BY <1>3 DEF vars
  <2>2. LossInv'
    BY <2>1, SameProgram DEF LossInv, IInv
  <2> QED
    BY <2>1, <2>2, StayIInv DEF IInv, TypeOK
<1> QED
  BY <1>1, <1>2, <1>3 DEF Next, Over

LEMMA Invariant == Spec => []IInv
BY InitIInv, NextIInv, PTL DEF Spec

-----------------------------------------------------------------------------
(***************************************************************************)
(* Types: with any number of processes the counts stay within the message, *)
(* and nobody goes on behind the last step.                                *)
(***************************************************************************)
THEOREM TypeCorrect == Spec => []TypeOK
<1>1. IInv => TypeOK
  BY DEF IInv
<1> QED
  BY <1>1, Invariant, PTL

(***************************************************************************)
(* No rank goes into the reduction before every chosen rank has overwritten *)
(* its element ("All corruption injections completed").                    *)
(***************************************************************************)
THEOREM CorruptsBeforeReducing == Spec => []InjectionsFirst
<1>1. ASSUME IInv PROVE InjectionsFirst
  <2>1. SUFFICES ASSUME NEW r \in Procs, Past(r, "barrier")
                 PROVE  /\ \A q \in Procs : pc[q] >= NumberOf("barrier")
                        /\ {hit[1] : hit \in injected} = chosen
    BY DEF InjectionsFirst, Past
  <2>2. Places /\ Numbered /\ Ordered
    BY <1>1, Numbering DEF IInv, TypeOK, Places
  <2>3. \A q \in Procs : Past(q, "inject")
    BY <1>1, <2>1 DEF IInv, BarrierInv
  <2>4. \A q \in Procs : pc[q] \in Int
    BY <2>2 DEF Places, Numbered
  <2>5. \A q \in Procs : pc[q] >= NumberOf("barrier")
    BY <2>2, <2>3, <2>4, NumbersAreInts DEF Past, Ordered
  <2>6. \A q \in chosen : \E hit \in injected : hit[1] = q
    <3>1. SUFFICES ASSUME NEW q \in chosen PROVE \E hit \in injected : hit[1] = q
      OBVIOUS
    <3>2. PICK i \in 1 .. count : <<q, i>> \in injected
      BY <1>1, <2>3 DEF IInv, InjectInv, TypeOK
    <3> QED
      BY <3>2
  <2>7. \A hit \in injected : hit[1] \in chosen
    BY <1>1 DEF IInv, InjectInv
  <2> QED
    BY <2>5, <2>6, <2>7
<1> QED
  BY <1>1, Invariant, PTL

(***************************************************************************)
(* Where a verdict is printed every rank has counted, and none had failed  *)
(* before it counted.                                                      *)
(***************************************************************************)
THEOREM LossesGoUnreported == Spec => []NoVerdictAfterLoss
<1>1. ASSUME IInv PROVE NoVerdictAfterLoss
  <2>1. SUFFICES ASSUME verdict # "none", NEW r \in Procs
                 PROVE  errs[r] >= 0 /\ (ended[r] # "failed" \/ Steps[pc[r]] = "cleanup")
    BY DEF NoVerdictAfterLoss
  <2>2. Places /\ Numbered /\ TypeOK /\ count \in Nat
    BY <1>1, Numbering, CountType DEF IInv, TypeOK, Places
  <2>3. Past(r, "errors") /\ Past(r, "validate")
    BY <1>1, <2>1, <2>2, PastOrder DEF IInv, VerdictInv
  <2>4. errs[r] = Validate(recv[r], Size)
    BY <1>1, <2>3 DEF IInv, CountInv
  <2>5. errs[r] \in Nat
    BY <2>2, <2>4, ValidateType DEF TypeOK
  <2>6. pc[r] \in DOMAIN Steps /\ pc[r] > NumberOf("errors") /\ pc[r] \in Int
    BY <2>2, <2>3 DEF Places, Past, Numbered
  <2>7. Steps[pc[r]] \notin FallibleSteps \ {"cleanup"}
    BY <2>2, <2>6, NumbersAreInts DEF Numbered
  <2> QED
    BY <1>1, <2>5, <2>7 DEF IInv, LossInv
<1> QED
  BY <1>1, Invariant, PTL

\* What a verdict says of the buffers it is about.
VerdictOfAll ==
  verdict # "none" =>
    (verdict = "passed" <=> \A r \in Procs : Validate(recv[r], Size) = 0)

\* The counts behind a verdict.
LEMMA Counts ==
  ASSUME IInv, verdict # "none"
  PROVE  /\ \A r \in Procs : errs[r] = Validate(recv[r], Size)
         /\ errs \in [Procs -> Nat]
         /\ total = SumFunction(errs)
         /\ verdict = IF total = 0 THEN "passed" ELSE "failed"
         /\ \A r \in Procs : Past(r, "errors")
<1>1. Places /\ TypeOK /\ count \in Nat /\ Root \in Procs
  BY CountType, ProcsFinite DEF IInv, TypeOK, Places
<1>2. \A r \in Procs : Past(r, "errors")
  BY DEF IInv, VerdictInv
<1>3. \A r \in Procs : errs[r] = Validate(recv[r], Size)
  BY <1>1, <1>2 DEF IInv, CountInv
<1>4. \A r \in Procs : Validate(recv[r], Size) \in Nat
  BY <1>1, ValidateType DEF TypeOK
<1>5. errs \in [Procs -> Nat]
  BY <1>1, <1>3, <1>4 DEF TypeOK
<1> QED
  BY <1>1, <1>2, <1>3, <1>5 DEF IInv, VerdictInv, CountInv

(***************************************************************************)
(* The verdict hides nothing and invents nothing: it says "passed" if and  *)
(* only if no rank counted a wrong element in what it received.            *)
(***************************************************************************)
THEOREM VerdictCounts == Spec => []VerdictOfAll
<1>1. ASSUME IInv PROVE VerdictOfAll
  <2>1. SUFFICES ASSUME verdict # "none"
                 PROVE  verdict = "passed" <=> \A r \in Procs : Validate(recv[r], Size) = 0
    BY DEF VerdictOfAll
  <2>2. SumFunction(errs) = 0 <=> \A r \in Procs : errs[r] = 0
    BY <1>1, <2>1, Counts, ProcsFinite, SumOfNaturals
  <2> QED
    BY <1>1, <2>1, <2>2, Counts
<1> QED
  BY <1>1, Invariant, PTL

(***************************************************************************)
(* What the root reports is exact, for job sizes for which the arithmetic  *)
(* of every datatype on the command lines is sound (CountsOverwritten):    *)
(* every overwritten element is counted once by every rank and nothing     *)
(* else is, and a run passes if and only if nothing was to be corrupted.   *)
(***************************************************************************)
THEOREM VerdictIsExact ==
  ASSUME \A c \in CommandLines : Sound(TypeOf(c.args), Size)
  PROVE  Spec => []VerdictExact
<1>1. ASSUME IInv PROVE VerdictExact
  <2> DEFINE hitElements == {hit[2] : hit \in injected}
  <2>1. SUFFICES ASSUME verdict # "none"
                 PROVE  /\ total = Size * Cardinality(hitElements)
                        /\ verdict = "passed" <=> ~CorruptOf(args)
    BY DEF VerdictExact
  <2>2. TypeOK /\ Places /\ count \in Nat /\ type \in DataType /\ Root \in Procs
    BY <1>1, CountType, ProcsFinite DEF IInv, TypeOK, Places
  <2>3. \A r \in Procs : /\ Past(r, "errors") /\ Past(r, "allreduce") /\ Past(r, "inject")
                         /\ Past(r, "pick") /\ Past(r, FillStep)
    BY <1>1, <2>1, <2>2, Counts, PastOrder
  <2>4. \A r \in Procs : send[r] = Sent(r) /\ recv[r] = Reduced(type, send)
    BY <1>1, <2>3 DEF IInv, BufferInv
  <2>5. Validate(Reduced(type, send), Size) = Cardinality(hitElements)
    <3>1. injected \subseteq (0 .. Size - 1) \X (1 .. count)
      BY <2>2 DEF TypeOK, Procs
    <3>2. Overwritten(type, Size, count, injected, send)
      BY <2>2, <2>4 DEF TypeOK, Procs, Sent, Overwritten
    <3>3. Sound(type, Size)
      BY <2>2 DEF TypeOK, type, args
    <3>4. Size \in Nat /\ Size # 0
      BY BenchConstants
    <3> HIDE DEF hitElements
    <3>5. Validate(Reduced(type, send), Size) = Cardinality({hit[2] : hit \in injected})
      BY <2>2, <3>1, <3>2, <3>3, <3>4, CountsOverwritten
    <3> QED
      BY <3>5 DEF hitElements
  <2> HIDE DEF hitElements
  <2>6. \A r \in Procs : errs[r] = Cardinality(hitElements)
    BY <1>1, <2>1, <2>4, <2>5, Counts
  <2>7. total = Size * Cardinality(hitElements)
    BY <1>1, <2>1, <2>6, Counts, ProcsFinite, SumOfEquals
  <2>8. hitElements = {} <=> chosen = {}
    <3>1. hitElements = {} <=> injected = {}
      BY DEF hitElements
    <3>2. injected # {} => chosen # {}
      BY <1>1 DEF IInv, InjectInv
    <3>3. chosen # {} => injected # {}
      BY <1>1, <2>2, <2>3 DEF IInv, InjectInv, TypeOK
    <3> QED
      BY <3>1, <3>2, <3>3
  <2>9. chosen = {} <=> ~CorruptOf(args)
    BY <1>1, <2>2, <2>3 DEF IInv, DrawInv
  <2>10. total = 0 <=> hitElements = {}
    <3>1. IsFiniteSet(hitElements)
      <4>1. hitElements \subseteq 1 .. count
        BY <2>2 DEF TypeOK, hitElements
      <4>2. IsFiniteSet(1 .. count)
        BY <2>2, FS_Interval
      <4> HIDE DEF hitElements
      <4> QED
        BY <4>1, <4>2, FS_Subset
    <3>2. Cardinality(hitElements) \in Nat /\ (Cardinality(hitElements) = 0 <=> hitElements = {})
      BY <3>1, FS_CardinalityType, FS_EmptySet
    <3> QED
      BY <2>7, <3>2, BenchConstants
  <2> QED
    BY <1>1, <2>1, <2>7, <2>8, <2>9, <2>10, Counts DEF hitElements
<1> QED
  BY <1>1, Invariant, PTL

=============================================================================
